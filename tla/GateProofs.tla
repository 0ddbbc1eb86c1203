--------------------------- MODULE GateProofs -----------------------------
(***************************************************************************)
(* Proofs about the four parts of the gate in front of the proxy, for any  *)
(* settings, hosts, clients, keys, tokens and requests.                    *)
(*  - Limiter: the arrival times a store keeps implement LeakyBucket, so   *)
(*    no key is admitted above its rate, and what a refused caller is told *)
(*    is exact.                                                            *)
(*  - ClientCerts: what the upstream is told of a certificate is what the  *)
(*    client of that connection proved, and a revoked one stays out.       *)
(*  - Auth: who passes carries what the issuer stands behind, whatever     *)
(*    rotations, waits and fetches happen between the lookup and the       *)
(*    decision.                                                            *)
(*  - Address: a request is served as the client that sent it, however its *)
(*    bytes are cut into reads and whatever it wrote about itself.         *)
(***************************************************************************)
EXTENDS Address, ClientCerts, Auth, Limiter, FiniteSetTheorems, SequenceTheorems,
        WellFoundedInduction, TLAPS

----------------------------------------------------------------------------
(* Numbers. *)

\* A set of numbers that is not empty has a least element.
LEMMA LeastElement ==
    ASSUME NEW T, T \subseteq Nat, T # {}
    PROVE  \E x \in T : \A y \in T : x <= y
<1> DEFINE R == OpToRel(<, Nat)
<1>1. \E x \in T : \A y \in T : ~ (<<y, x>> \in R)
  <2>1. IsWellFoundedOn(R, Nat)
    BY NatLessThanWellFounded
  <2> HIDE DEF R
  <2> QED
    BY <2>1, WFMin
<1>2. ASSUME NEW x \in T, NEW y \in T, ~ (<<y, x>> \in R)
      PROVE  x <= y
  BY <1>2 DEF OpToRel
<1> QED
  BY <1>1, <1>2

\* Rounded up to whole multiples, a length is not shorter.
LEMMA RoundedUp ==
    ASSUME NEW x \in Nat, NEW m \in Nat \ {0}
    PROVE  /\ (x + m - 1) \div m \in Nat
           /\ ((x + m - 1) \div m) * m >= x
  OBVIOUS

\* The quotient and what it leaves.
LEMMA Quotient ==
    ASSUME NEW x \in Nat, NEW m \in Nat \ {0}
    PROVE  /\ x \div m \in Nat
           /\ (x \div m) * m <= x
           /\ x < (x \div m + 1) * m
  OBVIOUS

\* An element of a sequence.
LEMMA MemberOfSeq ==
    ASSUME NEW T, NEW q \in Seq(T), NEW i \in DOMAIN q
    PROVE  q[i] \in T
  OBVIOUS

\* A set of numbers with a bound that is not empty has a greatest element.
LEMMA GreatestElement ==
    ASSUME NEW T, T \subseteq Nat, T # {}, NEW b \in Nat, \A x \in T : x <= b
    PROVE  \E x \in T : \A y \in T : y <= x
<1> DEFINE D == {b - x : x \in T}
<1>1. D \subseteq Nat /\ D # {}
  <2>1. \A x \in T : b - x \in Nat
    OBVIOUS
  <2> QED
    BY <2>1
<1>2. PICK d \in D : \A e \in D : d <= e
  BY <1>1, LeastElement
<1>3. PICK x \in T : d = b - x
  OBVIOUS
<1>4. ASSUME NEW y \in T PROVE y <= x
  <2>1. d <= b - y
    BY <1>2
  <2> QED
    BY <1>3, <2>1
<1> QED
  BY <1>4

----------------------------------------------------------------------------
(* The limit and the key a request meets. *)

\* A configuration of the limiter, as its assumption gives it.
LEMMA LimitTypes ==
    ASSUME NEW l \in Limits
    PROVE  /\ l.global \in Rate /\ l.global.period \div l.global.count > 0
           /\ l.routes \in Seq([path : Seq(STRING), rate : Rate])
           /\ \A i \in DOMAIN l.routes :
                 l.routes[i].rate \in Rate /\ l.routes[i].rate.period \div l.routes[i].rate.count > 0
           /\ l.per_key # <<>> => l.per_key \in Rate /\ l.per_key.period \div l.per_key.count > 0
<1>1. l \in LimitsType
  BY LimiterAssumption
<1>2. l.global \in Rate /\ l.routes \in Seq([path : Seq(STRING), rate : Rate]) /\ l.per_key \in Rate \cup {<<>>}
  BY <1>1 DEF LimitsType
<1>3. l.global.period \div l.global.count > 0
  BY LimiterAssumption
<1>4. ASSUME NEW i \in DOMAIN l.routes
      PROVE  l.routes[i].rate \in Rate /\ l.routes[i].rate.period \div l.routes[i].rate.count > 0
  <2>1. l.routes[i] \in [path : Seq(STRING), rate : Rate]
    <3>1. \A T : \A q \in Seq(T) : \A j \in DOMAIN q : q[j] \in T
      BY MemberOfSeq
    <3> QED
      BY <1>2, <3>1, Zenon
  <2>2. l.routes[i].rate \in {l.global} \cup {l.routes[j].rate : j \in DOMAIN l.routes}
    OBVIOUS
  <2> QED
    BY <2>1, <2>2, LimiterAssumption
<1>5. l.per_key # <<>> => l.per_key \in Rate /\ l.per_key.period \div l.per_key.count > 0
  BY <1>2, LimiterAssumption
<1> QED
  BY <1>2, <1>3, <1>4, <1>5

\* Some matching route has the longest path, and of several equal ones is the last.
LEMMA LongestExists ==
    ASSUME limits \in Limits, NEW asked \in Paths, Matching(asked) # {}
    PROVE  /\ LongestMatch(asked) \in Matching(asked)
           /\ LongestMatch(asked) \in Routes(limits)
<1> DEFINE R == limits.routes
           M == Matching(asked)
           L(i) == Len(R[i].path)
<1>1. R \in Seq([path : Seq(STRING), rate : Rate]) /\ asked \in Seq(STRING)
  BY LimitTypes, LimiterAssumption
<1>2. DOMAIN R = 1..Len(R) /\ Len(R) \in Nat /\ Len(asked) \in Nat
  BY <1>1
<1>3. M \subseteq 1..Len(R) /\ \A i \in 1..Len(R) : L(i) \in Nat
  <2>1. \A i \in 1..Len(R) : R[i] \in [path : Seq(STRING), rate : Rate]
    BY <1>1, <1>2, MemberOfSeq
  <2>2. \A i \in 1..Len(R) : R[i].path \in Seq(STRING)
    BY <2>1
  <2>3. \A i \in 1..Len(R) : L(i) \in Nat
    BY <2>2
  <2> QED
    BY <1>2, <2>3 DEF Matching
<1>4. \A i \in M : L(i) <= Len(asked)
  BY <1>2 DEF Matching, StartsWith
<1>5. PICK a \in {L(i) : i \in M} : \A b \in {L(i) : i \in M} : b <= a
  <2>1. {L(i) : i \in M} \subseteq Nat /\ {L(i) : i \in M} # {}
    BY <1>3
  <2>2. \A x \in {L(i) : i \in M} : x <= Len(asked)
    BY <1>4
  <2> QED
    BY <1>2, <2>1, <2>2, GreatestElement
<1>6. PICK i \in {j \in M : L(j) = a} : \A j \in {j \in M : L(j) = a} : j <= i
  <2>1. {j \in M : L(j) = a} \subseteq Nat /\ {j \in M : L(j) = a} # {}
    BY <1>3
  <2>2. \A x \in {j \in M : L(j) = a} : x <= Len(R)
    BY <1>2, <1>3
  <2> QED
    BY <1>2, <2>1, <2>2, GreatestElement
<1>7. ASSUME NEW j \in M \ {i} PROVE L(i) > L(j) \/ (L(i) = L(j) /\ i > j)
  <2>1. i \in 1..Len(R) /\ j \in 1..Len(R) /\ L(i) = a
    BY <1>3, <1>6
  <2>2. L(j) <= L(i) /\ i \in Nat /\ j \in Nat /\ L(i) \in Nat /\ L(j) \in Nat
    BY <1>2, <1>3, <1>5, <2>1
  <2>3. L(j) = L(i) => j <= i
    BY <1>6
  <2> QED
    BY <2>2, <2>3
<1> DEFINE Longest(n) == \A j \in M \ {n} : L(n) > L(j) \/ (L(n) = L(j) /\ n > j)
<1>8. LongestMatch(asked) = CHOOSE n \in M : Longest(n)
  BY DEF LongestMatch
<1>9. \E n \in M : Longest(n)
  BY <1>7, <1>6
<1> DEFINE n == LongestMatch(asked)
<1>10. n \in M /\ Longest(n)
  <2> HIDE DEF Longest, n
  <2> QED
    BY <1>8, <1>9 DEF n
<1>11. ASSUME NEW j \in DOMAIN R, R[j].path = R[n].path PROVE j <= n
  <2>1. n \in DOMAIN R /\ StartsWith(asked, R[n].path)
    BY <1>10 DEF Matching
  <2>2. j \in M
    BY <1>11, <2>1 DEF Matching
  <2>3. j # n => n > j
    BY <1>2, <1>3, <1>10, <1>11, <2>2
  <2> QED
    BY <1>2, <2>1, <2>3
<1>12. n \in Routes(limits)
  BY <1>10, <1>11 DEF Routes, Matching
<1> QED
  BY <1>10, <1>12

\* Every rule is one of the three kinds, and its rate has an interval.
LEMMA RuleKinds ==
    ASSUME limits \in Limits, NEW r \in Rules
    PROVE  /\ r.rate \in Rate /\ r.rate.period \div r.rate.count > 0
           /\ \/ \E ip \in Ips : r.key = <<"ip", <<>>, ip>> /\ r.rate = limits.global
              \/ \E i \in Routes(limits), ip \in Ips :
                    r.key = <<"route", limits.routes[i].path, ip>> /\ r.rate = limits.routes[i].rate
              \/ \E p \in Principals : r.key = <<"key", <<>>, p>> /\ r.rate = limits.per_key
<1>1. CASE \E ip \in Ips : r = [key |-> <<"ip", <<>>, ip>>, rate |-> limits.global]
  BY <1>1, LimitTypes
<1>2. CASE \E i \in Routes(limits), ip \in Ips :
              r = [key |-> <<"route", limits.routes[i].path, ip>>, rate |-> limits.routes[i].rate]
  BY <1>2, LimitTypes DEF Routes
<1>3. CASE \E p \in {q \in Principals : limits.per_key # <<>>} :
              r = [key |-> <<"key", <<>>, p>>, rate |-> limits.per_key]
  BY <1>3, LimitTypes
<1> QED
  BY <1>1, <1>2, <1>3 DEF Rules, RulesOf

\* A key has one rate.
LEMMA OneRate ==
    ASSUME limits \in Limits, NEW r \in Rules, NEW s \in Rules, r.key = s.key
    PROVE  r.rate = s.rate
<1>1. ASSUME NEW i \in Routes(limits), NEW j \in Routes(limits), limits.routes[i].path = limits.routes[j].path
      PROVE  i = j
  <2>1. limits.routes \in Seq([path : Seq(STRING), rate : Rate])
    BY LimitTypes
  <2>2. i \in 1..Len(limits.routes) /\ j \in 1..Len(limits.routes) /\ i <= j /\ j <= i
    BY <1>1, <2>1 DEF Routes
  <2> QED
    BY <2>2
<1> DEFINE Kind(t) == \/ t.key[1] = "ip" /\ t.rate = limits.global
                      \/ t.key[1] = "route" /\ \E i \in Routes(limits) :
                            t.key[2] = limits.routes[i].path /\ t.rate = limits.routes[i].rate
                      \/ t.key[1] = "key" /\ t.rate = limits.per_key
<1>2. ASSUME NEW t \in Rules PROVE Kind(t)
  <2>1. CASE \E ip \in Ips : t.key = <<"ip", <<>>, ip>> /\ t.rate = limits.global
    BY <2>1
  <2>2. CASE \E i \in Routes(limits), ip \in Ips :
                t.key = <<"route", limits.routes[i].path, ip>> /\ t.rate = limits.routes[i].rate
    BY <2>2
  <2>3. CASE \E p \in Principals : t.key = <<"key", <<>>, p>> /\ t.rate = limits.per_key
    BY <2>3
  <2> QED
    BY <2>1, <2>2, <2>3, RuleKinds
<1>3. Kind(r) /\ Kind(s)
  BY <1>2
<1> QED
  BY <1>1, <1>3

\* The parameters a rate gives: an interval, and a tolerance of `burst` intervals.
LEMMA FromRateType ==
    ASSUME NEW r \in Rate, r.period \div r.count > 0
    PROVE  /\ FromRate(r).interval = r.period \div r.count
           /\ FromRate(r).tolerance = FromRate(r).interval * r.burst
           /\ FromRate(r).interval \in Nat \ {0}
           /\ FromRate(r).tolerance \in Nat
           /\ FromRate(r).tolerance >= FromRate(r).interval
<1>1. r.period \in Nat /\ r.count \in Nat \ {0} /\ r.burst \in Nat \ {0}
  BY DEF Rate
<1> DEFINE interval == r.period \div r.count
           burst == r.burst
<1>2. interval \in Nat \ {0}
  BY <1>1, Quotient
<1>3. FromRate(r).interval = interval /\ FromRate(r).tolerance = interval * burst
  BY DEF FromRate
<1>4. burst \in Nat \ {0}
  BY <1>1
<1> HIDE DEF interval, burst
<1>5. interval * burst \in Nat /\ interval * burst >= interval
  BY <1>2, <1>4
<1> QED
  BY <1>2, <1>3, <1>5 DEF interval, burst

\* A rule's key is limited by the rule's rate.
LEMMA GcraOfRule ==
    ASSUME limits \in Limits, NEW r \in Rules
    PROVE  GcraOf(r.key) = FromRate(r.rate)
<1> DEFINE s == CHOOSE t \in Rules : t.key = r.key
<1>1. s \in Rules /\ s.key = r.key
  OBVIOUS
<1>2. s.rate = r.rate
  BY <1>1, OneRate
<1> QED
  BY <1>2 DEF GcraOf

\* Every key has an interval, and a tolerance of a whole number of them.
LEMMA GcraOfKey ==
    ASSUME limits \in Limits, NEW k \in Keys
    PROVE  /\ GcraOf(k).interval \in Nat \ {0}
           /\ GcraOf(k).tolerance \in Nat
           /\ GcraOf(k).tolerance >= GcraOf(k).interval
           /\ \E burst \in Nat \ {0} : GcraOf(k).tolerance = GcraOf(k).interval * burst
<1>1. PICK r \in Rules : k = r.key
  BY DEF Keys
<1>2. GcraOf(k) = FromRate(r.rate) /\ r.rate \in Rate /\ r.rate.period \div r.rate.count > 0
  BY <1>1, GcraOfRule, RuleKinds
<1>3. r.rate.burst \in Nat \ {0}
  BY <1>2 DEF Rate
<1> QED
  BY <1>2, <1>3, FromRateType

\* The rule a request meets is a rule: check_ip_route charges the key it names at the rate of the
\* route it chose.
LEMMA RuleMet ==
    ASSUME limits \in Limits, NEW ip \in Ips, NEW asked \in Paths
    PROVE  IpRule(ip, asked) \in Rules /\ IpRule(ip, asked).key \in Keys
<1>1. CASE Matching(asked) # {}
  BY <1>1, LongestExists DEF IpRule, Rules, RulesOf, Keys
<1>2. CASE Matching(asked) = {}
  BY <1>2 DEF IpRule, Rules, RulesOf, Keys
<1> QED
  BY <1>1, <1>2

\* So is the rule of an authenticated caller (check_key).
LEMMA KeyRuleMet ==
    ASSUME limits \in Limits, NEW p \in Principals, limits.per_key # <<>>
    PROVE  KeyRule(p) \in Rules /\ KeyRule(p).key \in Keys
  BY DEF KeyRule, Rules, RulesOf, Keys

----------------------------------------------------------------------------
(* The arithmetic of one key: what is left of its tolerance. *)

Stored == Nat \cup {None}
Left(stored, t, g) == g.tolerance - (Tat(stored, t) - t)

\* A key admits exactly when an interval is left, and an admission takes one interval.
LEMMA AdmitsTakes ==
    ASSUME NEW s \in Stored, NEW t \in Nat, NEW g, g.interval \in Nat \ {0}, g.tolerance \in Nat
    PROVE  /\ Left(s, t, g) \in Int /\ Left(s, t, g) <= g.tolerance
           /\ Admits(s, t, g) <=> Left(s, t, g) >= g.interval
           /\ NewTat(s, t, g) \in Nat /\ NewTat(s, t, g) >= t
           /\ Left(NewTat(s, t, g), t, g) = Left(s, t, g) - g.interval
           /\ Left(None, t, g) = g.tolerance
  BY DEF Stored, Left, Admits, NewTat, Tat, MaxOf, None

\* Time gives one unit back, up to the tolerance; a stored time that has passed is as good as none.
LEMMA TimeGivesBack ==
    ASSUME NEW s \in Stored, NEW t \in Nat, NEW g, g.tolerance \in Nat
    PROVE  /\ Left(s, t + 1, g) = (IF g.tolerance < Left(s, t, g) + 1 THEN g.tolerance ELSE Left(s, t, g) + 1)
           /\ s <= t + 1 => Left(None, t + 1, g) = Left(s, t + 1, g)
  BY DEF Stored, Left, Tat, MaxOf, None

\* next_admit_at is the first moment a refused key admits again.
LEMMA RetryAtFirst ==
    ASSUME NEW s \in Stored, NEW t \in Nat, NEW g, g.interval \in Nat \ {0}, g.tolerance \in Nat,
           g.tolerance >= g.interval, ~Admits(s, t, g)
    PROVE  /\ NextAdmitAt(s, t, g) > t
           /\ Admits(s, NextAdmitAt(s, t, g), g)
           /\ \A u \in t..(NextAdmitAt(s, t, g) - 1) : ~Admits(s, u, g)
  BY DEF Stored, NextAdmitAt, Admits, Tat, MaxOf, None

----------------------------------------------------------------------------
(* The invariant. *)

LimiterTypeOK ==
    /\ limits \in Limits /\ now \in Nat /\ resets \in Nat
    /\ tats \in [Keys -> Stored] /\ expires \in [Keys -> Stored] /\ admitted \in [Keys -> Nat]

Has(k) == Left(tats[k], now, GcraOf(k))

\* Redis never drops a key before its arrival time has passed, so what it forgets is worth nothing;
\* no key is ever overdrawn; and what a key was admitted for was paid for, out of the tolerance it
\* got with each map and the time that passed.
LimiterInv ==
    /\ LimiterTypeOK
    /\ \A k \in Keys : expires[k] # None => limits.store = "redis" /\ tats[k] <= expires[k]
    /\ \A k \in Keys : Has(k) >= 0
    /\ \A k \in Keys : admitted[k] * GcraOf(k).interval
                          <= GcraOf(k).tolerance * (1 + resets) + now - Has(k)

\* The configuration stays, and with it the keys and their rates.
LEMMA SameRules ==
    ASSUME limits' = limits
    PROVE  Rules' = Rules /\ Keys' = Keys /\ \A k : GcraOf(k)' = GcraOf(k)
  BY DEF Rules, RulesOf, Keys, GcraOf

\* A limiter that has just been built.
LEMMA LimiterInvInit == LimiterInit => LimiterInv
<1> SUFFICES ASSUME LimiterInit PROVE LimiterInv
  OBVIOUS
<1>1. limits \in Limits /\ now = 0 /\ resets = 0
  BY DEF LimiterInit
<1>2. tats = [k \in Keys |-> None] /\ expires = [k \in Keys |-> None] /\ admitted = [k \in Keys |-> 0]
  BY DEF LimiterInit
<1>3. LimiterTypeOK
  BY <1>1, <1>2 DEF LimiterTypeOK, Stored
<1>4. ASSUME NEW k \in Keys
      PROVE  /\ Has(k) >= 0
             /\ admitted[k] * GcraOf(k).interval <= GcraOf(k).tolerance * (1 + resets) + now - Has(k)
  <2>1. GcraOf(k).interval \in Nat \ {0} /\ GcraOf(k).tolerance \in Nat
    BY <1>1, <1>4, GcraOfKey
  <2>2. Has(k) = GcraOf(k).tolerance
    BY <1>1, <1>2, <2>1, AdmitsTakes DEF Has, Stored
  <2> QED
    BY <1>1, <1>2, <2>1, <2>2
<1> QED
  BY <1>2, <1>3, <1>4 DEF LimiterInv

\* What a store does for a key that admits: the key pays one interval, and keeps its arrival time
\* at least until it has passed.
LEMMA StorePays ==
    ASSUME LimiterInv, NEW k \in Keys, Admits(tats[k], now, GcraOf(k)), Store(k),
           UNCHANGED <<limits, now, resets>>
    PROVE  /\ tats' \in [Keys -> Stored] /\ expires' \in [Keys -> Stored]
           /\ Has(k) >= GcraOf(k).interval
           /\ \A j \in Keys : Has(j)' = IF j = k THEN Has(j) - GcraOf(j).interval ELSE Has(j)
           /\ \A j \in Keys : expires'[j] # None => limits.store = "redis" /\ tats'[j] <= expires'[j]
<1> DEFINE g == GcraOf(k)
           new == NewTat(tats[k], now, g)
<1>1. /\ limits \in Limits /\ now \in Nat /\ tats \in [Keys -> Stored] /\ expires \in [Keys -> Stored]
      /\ \A j \in Keys : expires[j] # None => limits.store = "redis" /\ tats[j] <= expires[j]
  BY DEF LimiterInv, LimiterTypeOK
<1>2. \A j \in Keys : GcraOf(j).interval \in Nat \ {0} /\ GcraOf(j).tolerance \in Nat
  BY <1>1, GcraOfKey
<1>3. new \in Nat /\ new >= now /\ Left(new, now, g) = Has(k) - g.interval /\ Has(k) >= g.interval
  BY <1>1, <1>2, AdmitsTakes DEF Has
<1>4. tats' = [tats EXCEPT ![k] = new]
  BY DEF Store
<1>5. expires' = IF limits.store = "redis" THEN [expires EXCEPT ![k] = now + Ttl(new)] ELSE expires
  BY DEF Store
<1> HIDE DEF new
<1>6. Ttl(new) \in Nat /\ now + Ttl(new) >= new
  <2> DEFINE d == new - now
             q == (d + Millisecond - 1) \div Millisecond
  <2>1. Millisecond \in Nat \ {0} /\ d \in Nat
    BY <1>1, <1>3, LimiterAssumption
  <2>2. q \in Nat /\ q * Millisecond >= d /\ q * Millisecond \in Nat
    BY <2>1, RoundedUp
  <2>3. Ttl(new) = MaxOf(q, 1) * Millisecond
    BY DEF Ttl
  <2>4. d = new - now
    OBVIOUS
  <2> HIDE DEF q, d
  <2>5. CASE q > 1
    BY <1>1, <1>3, <2>1, <2>2, <2>3, <2>4, <2>5 DEF MaxOf
  <2>6. CASE q <= 1
    <3>1. MaxOf(q, 1) = 1
      BY <2>2, <2>6 DEF MaxOf
    <3>2. Ttl(new) = Millisecond
      BY <2>1, <2>3, <3>1
    <3>3. q * Millisecond <= Millisecond
      BY <2>1, <2>2, <2>6
    <3> QED
      BY <1>1, <1>3, <2>1, <2>2, <2>4, <3>2, <3>3
  <2> QED
    BY <2>2, <2>5, <2>6
<1>7. tats' \in [Keys -> Stored] /\ expires' \in [Keys -> Stored]
  BY <1>1, <1>3, <1>4, <1>5, <1>6 DEF Stored
<1>8. ASSUME NEW j \in Keys
      PROVE  /\ Has(j)' = IF j = k THEN Has(j) - GcraOf(j).interval ELSE Has(j)
             /\ expires'[j] # None => limits.store = "redis" /\ tats'[j] <= expires'[j]
  <2>1. Has(j)' = Left(tats'[j], now, GcraOf(j))
    BY SameRules DEF Has, Left
  <2>2. CASE j = k
    <3>1. tats'[j] = new
      BY <1>1, <1>4, <2>2
    <3>2. limits.store = "redis" => expires'[j] = now + Ttl(new)
      BY <1>1, <1>5, <2>2
    <3>3. limits.store # "redis" => expires'[j] = expires[j] /\ expires[j] = None
      BY <1>1, <1>5
    <3> QED
      BY <1>3, <1>6, <2>1, <2>2, <3>1, <3>2, <3>3 DEF None
  <2>3. CASE j # k
    <3>1. tats'[j] = tats[j] /\ expires'[j] = expires[j]
      BY <1>1, <1>4, <1>5, <2>3
    <3> QED
      BY <1>1, <2>1, <2>3, <3>1 DEF Has
  <2> QED
    BY <2>2, <2>3
<1> QED
  BY <1>3, <1>7, <1>8

\* A request is decided, or charged with its answer lost.
LEMMA LimiterInvAsked ==
    ASSUME LimiterInv, NEW k \in Keys, Decide(k) \/ Fail(k)
    PROVE  LimiterInv'
<1>1. LimiterTypeOK /\ UNCHANGED <<limits, now, resets>> /\ Keys' = Keys /\ \A j : GcraOf(j)' = GcraOf(j)
  BY SameRules DEF LimiterInv, Decide, Fail
<1>2. CASE UNCHANGED <<tats, expires, admitted>>
  <2>1. \A j \in Keys : Has(j)' = Has(j)
    BY <1>1, <1>2 DEF Has
  <2> QED
    BY <1>1, <1>2, <2>1 DEF LimiterInv, LimiterTypeOK
<1>3. CASE ~UNCHANGED <<tats, expires, admitted>>
  <2>1. Admits(tats[k], now, GcraOf(k)) /\ Store(k)
    BY <1>3 DEF Decide, Fail
  <2>2. admitted' = admitted \/ admitted' = [admitted EXCEPT ![k] = @ + 1]
    BY <1>3 DEF Decide, Fail
  <2>3. /\ tats' \in [Keys -> Stored] /\ expires' \in [Keys -> Stored]
        /\ Has(k) >= GcraOf(k).interval
        /\ \A j \in Keys : Has(j)' = IF j = k THEN Has(j) - GcraOf(j).interval ELSE Has(j)
        /\ \A j \in Keys : expires'[j] # None => limits.store = "redis" /\ tats'[j] <= expires'[j]
    BY <1>1, <2>1, StorePays
  <2>4. admitted' \in [Keys -> Nat] /\ \A j \in Keys : admitted'[j] = admitted[j] \/ (j = k /\ admitted'[j] = admitted[j] + 1)
    BY <1>1, <2>2 DEF LimiterTypeOK
  <2>5. LimiterTypeOK'
    BY <1>1, <2>3, <2>4 DEF LimiterTypeOK
  <2>6. ASSUME NEW j \in Keys
        PROVE  /\ Has(j)' >= 0
               /\ admitted'[j] * GcraOf(j).interval <= GcraOf(j).tolerance * (1 + resets) + now - Has(j)'
    <3> DEFINE I == GcraOf(j).interval
               P == GcraOf(j).tolerance * (1 + resets)
               A == admitted[j]
               B == admitted'[j]
               H == Has(j)
    <3>1. I \in Nat \ {0} /\ P \in Nat /\ A \in Nat /\ now \in Nat /\ H \in Int
      <4>1. I \in Nat \ {0} /\ GcraOf(j).tolerance \in Nat /\ tats[j] \in Stored
        BY <1>1, GcraOfKey DEF LimiterTypeOK
      <4> QED
        BY <1>1, <4>1, AdmitsTakes DEF LimiterTypeOK, Has
    <3>2. H >= 0 /\ A * I <= P + now - H
      BY DEF LimiterInv
    <3>3. CASE j = k
      <4>1. Has(j)' = H - I /\ H >= I
        BY <2>3, <3>3
      <4>2. B = A \/ B = A + 1
        BY <2>4
      <4> HIDE DEF I, P, A, B, H
      <4>3. (A + 1) * I = A * I + I /\ A * I \in Nat
        BY <3>1
      <4>4. B * I <= A * I + I
        BY <3>1, <4>2, <4>3
      <4>5. B * I \in Nat
        BY <3>1, <4>2
      <4>6. H - I >= 0 /\ B * I <= P + now - (H - I)
        BY <3>1, <3>2, <4>1, <4>3, <4>4, <4>5
      <4> QED
        BY <4>1, <4>6 DEF I, P, A, B, H
    <3>4. CASE j # k
      <4>1. Has(j)' = H /\ B = A
        BY <2>3, <2>4, <3>4
      <4> QED
        BY <3>2, <4>1
    <3> QED
      BY <3>3, <3>4
  <2> QED
    BY <1>1, <2>3, <2>5, <2>6 DEF LimiterInv
<1> QED
  BY <1>2, <1>3

\* A new in-process map gives every key its tolerance again.
LEMMA LimiterInvRebuild ==
    ASSUME LimiterInv, Rebuild
    PROVE  LimiterInv' /\ \A k \in Keys : Has(k)' = GcraOf(k).tolerance
<1>1. LimiterTypeOK /\ UNCHANGED <<limits, now, expires, admitted>> /\ Keys' = Keys
      /\ \A j : GcraOf(j)' = GcraOf(j)
  BY SameRules DEF LimiterInv, Rebuild
<1>2. tats' = [k \in Keys |-> None] /\ resets' = resets + 1 /\ limits.store = "memory"
  BY DEF Rebuild
<1>3. LimiterTypeOK'
  BY <1>1, <1>2 DEF LimiterTypeOK, Stored
<1>4. ASSUME NEW k \in Keys
      PROVE  /\ Has(k)' = GcraOf(k).tolerance /\ Has(k)' >= 0
             /\ admitted'[k] * GcraOf(k).interval <= GcraOf(k).tolerance * (1 + resets') + now - Has(k)'
  <2> DEFINE T == GcraOf(k).tolerance
             I == GcraOf(k).interval
             H == Has(k)
             A == admitted[k]
  <2>1. I \in Nat \ {0} /\ T \in Nat /\ tats[k] \in Stored /\ A \in Nat /\ resets \in Nat /\ now \in Nat
    BY <1>1, GcraOfKey DEF LimiterTypeOK
  <2>2. H \in Int /\ H >= 0 /\ A * I <= T * (1 + resets) + now - H
    BY <2>1, AdmitsTakes DEF LimiterInv, Has
  <2>3. Has(k)' = T
    <3>1. Has(k)' = Left(None, now, GcraOf(k))
      BY <1>1, <1>2 DEF Has, Left
    <3> QED
      BY <2>1, <3>1, AdmitsTakes DEF Stored
  <2>4. admitted'[k] = A
    BY <1>1
  <2> HIDE DEF T, I, H, A
  <2>5. T * (1 + (resets + 1)) = T * (1 + resets) + T
    BY <2>1
  <2>6. A * I <= T * (1 + (resets + 1)) + now - T
    BY <2>1, <2>2, <2>5
  <2> QED
    BY <1>2, <2>1, <2>3, <2>4, <2>6 DEF T, I, A
<1>5. \A k \in Keys : expires'[k] # None => limits'.store = "redis" /\ tats'[k] <= expires'[k]
  BY <1>1, <1>2 DEF LimiterInv
<1> QED
  BY <1>1, <1>3, <1>4, <1>5 DEF LimiterInv

\* Time passes, and Redis drops what has run out: every key gets one unit back, up to its tolerance.
LEMMA LimiterInvTick ==
    ASSUME LimiterInv, LimiterTick
    PROVE  /\ LimiterInv'
           /\ \A k \in Keys : Has(k)' = IF GcraOf(k).tolerance < Has(k) + 1 THEN GcraOf(k).tolerance ELSE Has(k) + 1
<1>1. LimiterTypeOK /\ UNCHANGED <<limits, admitted, resets>> /\ Keys' = Keys
      /\ \A j : GcraOf(j)' = GcraOf(j)
  BY SameRules DEF LimiterInv, LimiterTick
<1> DEFINE gone == {k \in Keys : expires[k] # None /\ expires[k] <= now + 1}
<1>2. /\ now' = now + 1 /\ now \in Nat
      /\ tats' = [k \in Keys |-> IF k \in gone THEN None ELSE tats[k]]
      /\ expires' = [k \in Keys |-> IF k \in gone THEN None ELSE expires[k]]
  BY <1>1 DEF LimiterTick, LimiterTypeOK
<1>3. LimiterTypeOK'
  BY <1>1, <1>2 DEF LimiterTypeOK, Stored
<1>4. ASSUME NEW k \in Keys
      PROVE  /\ Has(k)' = IF GcraOf(k).tolerance < Has(k) + 1 THEN GcraOf(k).tolerance ELSE Has(k) + 1
             /\ Has(k)' >= 0
             /\ admitted'[k] * GcraOf(k).interval <= GcraOf(k).tolerance * (1 + resets') + now' - Has(k)'
             /\ expires'[k] # None => limits'.store = "redis" /\ tats'[k] <= expires'[k]
  <2> DEFINE T == GcraOf(k).tolerance
             P == GcraOf(k).tolerance * (1 + resets)
             Q == admitted[k] * GcraOf(k).interval
             H == Has(k)
  <2>1. /\ GcraOf(k).interval \in Nat \ {0} /\ T \in Nat /\ tats[k] \in Stored /\ expires[k] \in Stored
        /\ admitted[k] \in Nat /\ resets \in Nat
    BY <1>1, GcraOfKey DEF LimiterTypeOK
  <2>2. P \in Nat /\ Q \in Nat /\ H \in Int /\ H >= 0 /\ Q <= P + now - H
    <3>1. H \in Int
      BY <1>2, <2>1, AdmitsTakes DEF Has
    <3>2. Q \in Nat
      BY <2>1
    <3>3. P \in Nat
      BY <2>1
    <3> QED
      BY <3>1, <3>2, <3>3 DEF LimiterInv
  <2>3. tats'[k] = (IF k \in gone THEN None ELSE tats[k]) /\ expires'[k] = (IF k \in gone THEN None ELSE expires[k])
    BY <1>2
  <2>4. expires[k] # None => limits.store = "redis" /\ tats[k] <= expires[k]
    BY DEF LimiterInv
  <2>5. Has(k)' = Left(tats[k], now + 1, GcraOf(k))
    <3>1. Has(k)' = Left(tats'[k], now + 1, GcraOf(k))
      BY <1>1, <1>2 DEF Has, Left
    <3>2. CASE k \in gone
      <4>1. tats[k] <= now + 1
        BY <1>2, <2>1, <2>4, <3>2 DEF Stored, None
      <4> QED
        BY <1>2, <2>1, <2>3, <3>1, <3>2, <4>1, TimeGivesBack
    <3>3. CASE k \notin gone
      BY <2>3, <3>1, <3>3
    <3> QED
      BY <3>2, <3>3
  <2>6. Has(k)' = IF T < H + 1 THEN T ELSE H + 1
    BY <1>2, <2>1, <2>5, TimeGivesBack DEF Has
  <2>7. admitted'[k] = admitted[k] /\ resets' = resets
    BY <1>1
  <2> HIDE DEF P, Q, H, T
  <2>8. Has(k)' >= 0 /\ Q <= P + now' - Has(k)'
    BY <1>2, <2>1, <2>2, <2>6
  <2>9. expires'[k] # None => limits'.store = "redis" /\ tats'[k] <= expires'[k]
    BY <1>1, <2>3, <2>4
  <2> QED
    BY <2>6, <2>7, <2>8, <2>9 DEF P, Q, H, T
<1> QED
  BY <1>1, <1>3, <1>4 DEF LimiterInv

\* Every step of the limiter.
LEMMA LimiterSteps ==
    ASSUME LimiterInv, LimiterNext
    PROVE  \/ \E k \in Keys : Decide(k) \/ Fail(k)
           \/ Rebuild \/ LimiterTick
<1>1. limits \in Limits
  BY DEF LimiterInv, LimiterTypeOK
<1>2. ASSUME NEW ip \in Ips, NEW asked \in Paths, CheckIpRoute(ip, asked)
      PROVE  \E k \in Keys : Decide(k) \/ Fail(k)
  BY <1>1, <1>2, RuleMet DEF CheckIpRoute
<1>3. ASSUME NEW p \in Principals, CheckKey(p)
      PROVE  \E k \in Keys : Decide(k) \/ Fail(k)
  BY <1>1, <1>3, KeyRuleMet DEF CheckKey
<1> QED
  BY <1>2, <1>3 DEF LimiterNext

\* The invariant holds for any limits, clients, paths and callers.
LEMMA LimiterInvariant == LimiterSpec => []LimiterInv
<1>1. ASSUME LimiterInv, LimiterNext PROVE LimiterInv'
  BY <1>1, LimiterSteps, LimiterInvAsked, LimiterInvRebuild, LimiterInvTick
<1>2. ASSUME LimiterInv, UNCHANGED limiterVars PROVE LimiterInv'
  <2>1. UNCHANGED <<limits, now, tats, expires, admitted, resets>> /\ Keys' = Keys
        /\ \A j : GcraOf(j)' = GcraOf(j)
    BY <1>2, SameRules DEF limiterVars
  <2>2. \A j : Has(j)' = Has(j)
    BY <2>1 DEF Has
  <2> QED
    BY <1>2, <2>1, <2>2 DEF LimiterInv, LimiterTypeOK
<1> QED
  BY <1>1, <1>2, LimiterInvInit, PTL DEF LimiterSpec

----------------------------------------------------------------------------
(* The leaky bucket. *)

\* The credit of a key is what it has left, and its bucket has the rate of its rule.
LEMMA BucketOfKey ==
    ASSUME LimiterInv
    PROVE  /\ Credit = [k \in Keys |-> Has(k)]
           /\ \A k \in Keys : Credit[k] = Has(k)
  BY DEF Credit, Has, Left

\* A step of the limiter is a step of the bucket, or changes nothing of it.
LEMMA BucketStep ==
    ASSUME LimiterInv, LimiterNext
    PROVE  Bucket!Next \/ UNCHANGED Bucket!vars
<1> DEFINE rates == [k \in Keys |-> [interval |-> GcraOf(k).interval, capacity |-> GcraOf(k).tolerance]]
<1>1. Bucket!Keys = Keys /\ \A k \in Keys : rates[k].interval = GcraOf(k).interval /\ rates[k].capacity = GcraOf(k).tolerance
  BY DEF Bucket!Keys
<1>2. limits' = limits /\ LimiterTypeOK
  BY LimiterSteps DEF Decide, Fail, Rebuild, LimiterTick, LimiterInv
<1>3. rates' = rates /\ Keys' = Keys
  BY <1>2, SameRules
<1>4. Credit = [k \in Keys |-> Has(k)] /\ Credit' = [k \in Keys |-> Has(k)']
  BY <1>3, <1>2, SameRules DEF Credit, Has, Left
<1> DEFINE Elapse == /\ now' = now + 1
                     /\ Credit' = [k \in Keys |-> Bucket!Lesser(rates[k].capacity, Credit[k] + 1)]
                     /\ UNCHANGED <<rates, admitted, resets>>
           Pays(k) == /\ Credit[k] >= rates[k].interval
                      /\ Credit' = [Credit EXCEPT ![k] = @ - rates[k].interval]
                      /\ \/ admitted' = [admitted EXCEPT ![k] = @ + 1]
                         \/ admitted' = admitted
                      /\ UNCHANGED <<rates, now, resets>>
           Reset == /\ Credit' = [k \in Keys |-> rates[k].capacity]
                    /\ resets' = resets + 1
                    /\ UNCHANGED <<rates, now, admitted>>
<1>a. Elapse => Bucket!Next
  BY <1>1 DEF Bucket!Next, Bucket!Elapse
<1>b. ASSUME NEW k \in Keys, Pays(k) PROVE Bucket!Next
  <2>1. Bucket!Take(k) \/ Bucket!Lose(k)
    BY <1>b DEF Bucket!Take, Bucket!Lose
  <2> QED
    BY <1>1, <2>1 DEF Bucket!Next
<1>c. Reset => Bucket!Next
  BY <1>1 DEF Bucket!Next, Bucket!Reset, Bucket!Full
<1>d. UNCHANGED <<rates, now, Credit, admitted, resets>> => UNCHANGED Bucket!vars
  BY DEF Bucket!vars
<1> HIDE DEF rates
<1>5. ASSUME NEW k \in Keys, Decide(k) \/ Fail(k)
      PROVE  Bucket!Next \/ UNCHANGED Bucket!vars
  <2>1. UNCHANGED <<limits, now, resets>>
    BY <1>5 DEF Decide, Fail
  <2>2. CASE UNCHANGED <<tats, expires, admitted>>
    <3>1. Credit' = Credit
      BY <1>3, <2>1, <2>2, SameRules DEF Credit
    <3> QED
      BY <1>3, <1>d, <2>1, <2>2, <3>1
  <2>3. CASE ~UNCHANGED <<tats, expires, admitted>>
    <3>1. Admits(tats[k], now, GcraOf(k)) /\ Store(k)
      BY <1>5, <2>3 DEF Decide, Fail
    <3>2. /\ Has(k) >= GcraOf(k).interval
          /\ \A j \in Keys : Has(j)' = IF j = k THEN Has(j) - GcraOf(j).interval ELSE Has(j)
      BY <2>1, <3>1, StorePays
    <3>3. Credit' = [Credit EXCEPT ![k] = @ - rates[k].interval]
      BY <1>1, <1>4, <3>2
    <3>4. admitted' = admitted \/ admitted' = [admitted EXCEPT ![k] = @ + 1]
      BY <1>5, <2>3 DEF Decide, Fail
    <3>5. Pays(k)
      BY <1>1, <1>3, <1>4, <2>1, <3>2, <3>3, <3>4
    <3> QED
      BY <1>b, <3>5
  <2> QED
    BY <2>2, <2>3
<1>6. CASE Rebuild
  <2>1. Credit' = [k \in Keys |-> rates[k].capacity]
    BY <1>1, <1>4, <1>6, LimiterInvRebuild
  <2> QED
    BY <1>3, <1>6, <1>c, <2>1 DEF Rebuild
<1>7. CASE LimiterTick
  <2>1. Credit' = [k \in Keys |-> Bucket!Lesser(rates[k].capacity, Credit[k] + 1)]
    BY <1>1, <1>4, <1>7, LimiterInvTick DEF Bucket!Lesser
  <2> QED
    BY <1>3, <1>7, <1>a, <2>1 DEF LimiterTick
<1> QED
  BY <1>5, <1>6, <1>7, LimiterSteps

\* A limiter that has just been built is a full bucket.
LEMMA BucketInit == LimiterInit => Bucket!Init
<1> SUFFICES ASSUME LimiterInit PROVE Bucket!Init
  OBVIOUS
<1> DEFINE rates == [k \in Keys |-> [interval |-> GcraOf(k).interval, capacity |-> GcraOf(k).tolerance]]
<1>1. LimiterInv /\ limits \in Limits
  BY LimiterInvInit DEF LimiterInit
<1>2. \A k \in Keys : GcraOf(k).interval \in Nat \ {0} /\ GcraOf(k).tolerance \in Nat
                         /\ GcraOf(k).tolerance >= GcraOf(k).interval
  BY <1>1, GcraOfKey
<1>3. Bucket!Keys = Keys /\ \A k \in Keys : rates[k].interval = GcraOf(k).interval /\ rates[k].capacity = GcraOf(k).tolerance
  BY DEF Bucket!Keys
<1>4. \A k \in Keys : rates[k].interval > 0 /\ rates[k].capacity >= rates[k].interval
  BY <1>2, <1>3
<1>5. Credit = [k \in Keys |-> rates[k].capacity]
  <2>1. \A k \in Keys : Has(k) = GcraOf(k).tolerance
    BY <1>2, AdmitsTakes DEF Has, Stored, LimiterInit
  <2> QED
    BY <1>1, <1>3, <2>1, BucketOfKey
<1> QED
  BY <1>3, <1>4, <1>5 DEF Bucket!Init, Bucket!Full, LimiterInit

\* The stored arrival times implement the leaky bucket: every behaviour of the limiter, seen through
\* the credit its arrival times leave, is one of the bucket.
THEOREM ImplementsBucket == LimiterSpec => IsLeakyBucket
<1>1. LimiterInv /\ [LimiterNext]_limiterVars => [Bucket!Next]_(Bucket!vars)
  <2>1. ASSUME UNCHANGED limiterVars PROVE UNCHANGED Bucket!vars
    <3>1. UNCHANGED <<limits, now, tats, admitted, resets>> /\ Keys' = Keys /\ \A j : GcraOf(j)' = GcraOf(j)
      BY <2>1, SameRules DEF limiterVars
    <3> QED
      BY <3>1 DEF Bucket!vars, Credit
  <2> QED
    BY <2>1, BucketStep
<1> QED
  BY <1>1, BucketInit, LimiterInvariant, PTL DEF LimiterSpec, IsLeakyBucket, Bucket!Spec

----------------------------------------------------------------------------
(* What a caller is told. *)

\* As many requests pass in a row as whole intervals are left.
LEMMA SuccessiveIsLeft ==
    ASSUME NEW s \in Stored, NEW t \in Nat, NEW g, NEW burst \in Nat \ {0}, g.interval \in Nat \ {0},
           g.tolerance = g.interval * burst, Left(s, t, g) >= 0
    PROVE  /\ Burst(g) = burst
           /\ Successive(s, t, g) = Left(s, t, g) \div g.interval
<1> DEFINE I == g.interval
           B == burst
           L == Left(s, t, g)
           q == L \div I
<1>1. I \in Nat \ {0} /\ B \in Nat \ {0} /\ g.tolerance \in Nat /\ g.tolerance = I * B
  OBVIOUS
<1>2. L \in Nat /\ L <= I * B
  BY <1>1, AdmitsTakes
<1>3. Burst(g) = B
  <2>1. Burst(g) = (I * B) \div I
    BY DEF Burst
  <2> HIDE DEF I, B
  <2> QED
    BY <1>1, <2>1
<1>4. q \in Nat /\ q * I <= L /\ L < (q + 1) * I
  BY <1>1, <1>2, Quotient
<1>5. q <= B
  <2> HIDE DEF I, B, L, q
  <2>1. q > B => q * I > B * I
    BY <1>1, <1>4
  <2> QED
    BY <1>1, <1>2, <1>4, <2>1
<1> DEFINE D == 0..(B + 1)
           ahead == CHOOSE f : f = [n \in D |-> IF n = 0 THEN s ELSE NewTat(f[n - 1], t, g)]
           F == [n \in D |-> IF n = 0 THEN s ELSE Tat(s, t) + n * I]
<1>6. F = [n \in D |-> IF n = 0 THEN s ELSE NewTat(F[n - 1], t, g)]
  <2>1. ASSUME NEW n \in D, n # 0 PROVE NewTat(F[n - 1], t, g) = Tat(s, t) + n * I
    <3> DEFINE T == Tat(s, t)
    <3>1. n - 1 \in D /\ n \in Nat /\ n - 1 \in Nat /\ T \in Nat /\ T >= t
      BY <1>1, <2>1 DEF Tat, MaxOf, Stored, None
    <3>2. CASE n = 1
      BY <1>1, <3>1, <3>2 DEF NewTat
    <3>3. CASE n # 1
      <4> DEFINE w == (n - 1) * I
      <4>1. F[n - 1] = T + w
        BY <2>1, <3>1, <3>3
      <4>2. w \in Nat /\ w + I = n * I
        BY <1>1, <3>1
      <4> HIDE DEF w, T
      <4>3. Tat(T + w, t) = T + w
        BY <3>1, <4>2 DEF Tat, MaxOf, None
      <4>4. NewTat(T + w, t, g) = T + w + I
        BY <4>3 DEF NewTat
      <4> HIDE DEF I, F
      <4>5. T + w + I = T + n * I
        BY <1>1, <3>1, <4>2
      <4> QED
        BY <4>1, <4>4, <4>5 DEF T
    <3> QED
      BY <3>2, <3>3
  <2> QED
    BY <2>1
<1>7. ahead = [n \in D |-> IF n = 0 THEN s ELSE NewTat(ahead[n - 1], t, g)]
  <2> HIDE DEF F, D
  <2> QED
    BY <1>6
<1>8. Successive(s, t, g) = CHOOSE n \in D : /\ \A i \in 0..(n - 1) : Admits(ahead[i], t, g)
                                             /\ ~Admits(ahead[n], t, g)
  BY <1>3 DEF Successive
<1> HIDE DEF ahead
<1> DEFINE Holds(n) == ahead[n] \in Stored /\ Left(ahead[n], t, g) = L - n * I
<1>9. \A n \in D : Holds(n)
  <2> DEFINE Bad == {n \in D : ~Holds(n)}
  <2>1. SUFFICES ASSUME Bad # {} PROVE FALSE
    OBVIOUS
  <2>2. PICK m \in Bad : \A n \in Bad : m <= n
    <3>1. Bad \subseteq Nat
      BY <1>1
    <3> HIDE DEF Bad
    <3> QED
      BY <2>1, <3>1, LeastElement
  <2>3. m # 0
    BY <1>1, <1>2, <1>7, <2>2
  <2>4. m \in Nat /\ m - 1 \in D /\ m - 1 \in Nat
    BY <1>1, <2>2, <2>3
  <2>5. Holds(m - 1)
    BY <2>2, <2>4
  <2>6. ahead[m] = NewTat(ahead[m - 1], t, g)
    BY <1>7, <2>2, <2>3
  <2>7. ahead[m] \in Stored /\ Left(ahead[m], t, g) = Left(ahead[m - 1], t, g) - I
    <3>1. NewTat(ahead[m - 1], t, g) \in Nat /\ Left(NewTat(ahead[m - 1], t, g), t, g) = Left(ahead[m - 1], t, g) - I
      BY <1>1, <2>5, AdmitsTakes
    <3> QED
      BY <2>6, <3>1 DEF Stored
  <2>8. (L - (m - 1) * I) - I = L - m * I
    <3> HIDE DEF L, I
    <3> QED
      BY <1>1, <1>2, <2>4
  <2> QED
    BY <2>2, <2>5, <2>7, <2>8
<1>10. ASSUME NEW n \in D PROVE Admits(ahead[n], t, g) <=> n < q
  <2>1. Admits(ahead[n], t, g) <=> L - n * I >= I
    BY <1>1, <1>9, AdmitsTakes
  <2> HIDE DEF L, I, q, B
  <2>2. n \in Nat /\ (n + 1) * I = n * I + I /\ n * I \in Nat
    BY <1>1
  <2>3. CASE n < q
    <3>1. (n + 1) * I <= q * I
      BY <1>1, <1>4, <2>2, <2>3
    <3>2. q * I \in Nat
      BY <1>1, <1>4
    <3> QED
      BY <1>1, <1>2, <1>4, <2>1, <2>2, <2>3, <3>1, <3>2
  <2>4. CASE n >= q
    <3>1. (n + 1) * I >= (q + 1) * I
      BY <1>1, <1>4, <2>2, <2>4
    <3>2. (q + 1) * I \in Nat
      BY <1>1, <1>4
    <3> QED
      BY <1>1, <1>2, <1>4, <2>1, <2>2, <2>4, <3>1, <3>2
  <2> QED
    BY <1>4, <2>2, <2>3, <2>4
<1> DEFINE Greatest(n) == (\A i \in 0..(n - 1) : Admits(ahead[i], t, g)) /\ ~Admits(ahead[n], t, g)
<1>11. q \in D /\ Greatest(q)
  <2> HIDE DEF L, I, q
  <2>1. q \in D /\ \A i \in 0..(q - 1) : i \in D /\ i < q
    BY <1>1, <1>4, <1>5
  <2> QED
    BY <1>4, <1>10, <2>1
<1>12. ASSUME NEW n \in D, Greatest(n) PROVE n = q
  <2> HIDE DEF L, I, q
  <2>1. ~(n < q)
    BY <1>10, <1>12
  <2>2. n > q => q \in 0..(n - 1) /\ q \in D
    BY <1>1, <1>4, <1>11
  <2>3. ~(n > q)
    BY <1>4, <1>10, <1>12, <2>2
  <2> QED
    BY <1>1, <1>4, <2>1, <2>3
<1>13. (CHOOSE n \in D : Greatest(n)) = q
  <2> HIDE DEF L, I, q, D, Greatest
  <2> QED
    BY <1>11, <1>12
<1> QED
  BY <1>3, <1>8, <1>13

\* The number shown is the one that passes in a row, or one more.
LEMMA RemainingAtMostOneHigh ==
    ASSUME NEW s \in Stored, NEW t \in Nat, NEW g, NEW burst \in Nat \ {0}, g.interval \in Nat \ {0},
           g.tolerance = g.interval * burst, Left(s, t, g) >= 0
    PROVE  Remaining(s, t, g) \in {Successive(s, t, g), Successive(s, t, g) + 1}
<1> DEFINE I == g.interval
           B == burst
           L == Left(s, t, g)
           q == L \div I
           a == Tat(s, t) - t
           p == a \div I
<1>1. I \in Nat \ {0} /\ B \in Nat \ {0} /\ I * B \in Nat /\ g.tolerance = I * B
  OBVIOUS
<1>2. a \in Nat /\ L \in Nat /\ L = I * B - a
  <2>1. a \in Nat
    BY DEF Tat, MaxOf, Stored, None
  <2>2. L = I * B - a
    BY <1>1 DEF Left
  <2>3. L \in Int /\ L >= 0
    BY <1>1, AdmitsTakes
  <2> QED
    BY <2>1, <2>2, <2>3
<1>3. q \in Nat /\ q * I <= L /\ L < (q + 1) * I
  BY <1>1, <1>2, Quotient
<1>4. p \in Nat /\ p * I <= a /\ a < (p + 1) * I
  BY <1>1, <1>2, Quotient
<1>5. Remaining(s, t, g) = MaxOf(B - p, 0) /\ Successive(s, t, g) = q
  BY SuccessiveIsLeft DEF Remaining
<1> HIDE DEF I, B, L, q, a, p
<1>6. (q + p) * I <= I * B
  BY <1>1, <1>2, <1>3, <1>4
<1>7. I * B < (q + p + 2) * I
  BY <1>1, <1>2, <1>3, <1>4
<1>8. q + p <= B
  <2>1. q + p > B => (q + p) * I > B * I
    BY <1>1, <1>3, <1>4
  <2> QED
    BY <1>1, <1>3, <1>4, <1>6, <2>1
<1>9. B < q + p + 2
  <2>1. B >= q + p + 2 => B * I >= (q + p + 2) * I
    BY <1>1, <1>3, <1>4
  <2> QED
    BY <1>1, <1>3, <1>4, <1>7, <2>1
<1> QED
  BY <1>1, <1>3, <1>4, <1>5, <1>8, <1>9 DEF MaxOf

\* The invariant gives what a caller gets and is told.
LEMMA ToldRight == LimiterInv => RateHolds /\ RetryIsExact /\ RemainingWithinOne
<1> SUFFICES ASSUME LimiterInv PROVE RateHolds /\ RetryIsExact /\ RemainingWithinOne
  OBVIOUS
<1>1. limits \in Limits /\ now \in Nat /\ resets \in Nat /\ tats \in [Keys -> Stored] /\ admitted \in [Keys -> Nat]
  BY DEF LimiterInv, LimiterTypeOK
<1>2. RateHolds
  <2> SUFFICES ASSUME NEW r \in Rules
               PROVE  admitted[r.key] * (r.rate.period \div r.rate.count)
                         <= r.rate.burst * (r.rate.period \div r.rate.count) * (1 + resets) + now
    BY DEF RateHolds
  <2> DEFINE k == r.key
             I == r.rate.period \div r.rate.count
             B == r.rate.burst
             A == admitted[k]
             n == 1 + resets
             H == Has(k)
  <2>1. k \in Keys /\ GcraOf(k) = FromRate(r.rate) /\ r.rate \in Rate /\ r.rate.period \div r.rate.count > 0
    BY <1>1, GcraOfRule, RuleKinds DEF Keys
  <2>2. GcraOf(k).interval = I /\ GcraOf(k).tolerance = I * B /\ I \in Nat \ {0} /\ B \in Nat \ {0}
    BY <2>1, FromRateType DEF Rate
  <2>3. H >= 0 /\ A * I <= (I * B) * n + now - H
    BY <2>1, <2>2 DEF LimiterInv
  <2>4. H \in Int /\ A \in Nat /\ n \in Nat
    <3>1. tats[k] \in Stored /\ GcraOf(k).interval \in Nat \ {0} /\ GcraOf(k).tolerance \in Nat
      BY <1>1, <2>1, GcraOfKey
    <3> QED
      BY <1>1, <2>1, <3>1, AdmitsTakes DEF Has
  <2> HIDE DEF k, I, B, A, n, H
  <2> DEFINE P == (I * B) * n
             Q == A * I
  <2>5. P \in Nat /\ Q \in Nat /\ (B * I) * n = P
    BY <2>2, <2>4
  <2> HIDE DEF P, Q
  <2>6. Q <= P + now
    BY <1>1, <2>3, <2>4, <2>5 DEF P, Q
  <2> QED
    BY <2>5, <2>6 DEF k, I, B, A, n, P, Q
<1>3. RetryIsExact
  BY <1>1, GcraOfKey, RetryAtFirst DEF RetryIsExact
<1>4. ASSUME NEW k \in Keys
      PROVE  Remaining(tats[k], now, GcraOf(k)) \in {Successive(tats[k], now, GcraOf(k)), Successive(tats[k], now, GcraOf(k)) + 1}
  <2>1. PICK burst \in Nat \ {0} : GcraOf(k).tolerance = GcraOf(k).interval * burst
    BY <1>1, GcraOfKey
  <2>2. GcraOf(k).interval \in Nat \ {0} /\ tats[k] \in Stored /\ Left(tats[k], now, GcraOf(k)) >= 0
    BY <1>1, GcraOfKey DEF LimiterInv, Has
  <2> QED
    BY <1>1, <2>1, <2>2, RemainingAtMostOneHigh
<1>5. RemainingWithinOne
  BY <1>4 DEF RemainingWithinOne
<1> QED
  BY <1>2, <1>3, <1>5

\* For any limits, clients and paths, a limit is a leaky bucket of its rate and burst, admits no
\* more than they allow, tells a refused caller exactly when to come back, and shows what is left
\* at most one too high (Store::admit, GCRA_LUA, Gcra::next_admit_at, Gcra::remaining).
THEOREM LimitsAreKept == LimiterSpec => RatesKept
  BY ImplementsBucket, LimiterInvariant, ToldRight, PTL DEF RatesKept

----------------------------------------------------------------------------
(* Client certificates. *)

\* The settings have passed the checks of the start; a connection's certificate is its sender's; a
\* session that could be resumed holds one only where resumption is off; and what a request got is
\* there only while its connection is.
CertsShape ==
    /\ policy \in CertPolicies /\ PolicyOk(policy) /\ HeaderOk(policy)
    /\ policy.mode = "off" => ticket = NoCert
    /\ conn.cert = NoCert \/ (conn.cert \in Certs /\ conn.cert.of = conn.from)
    /\ conn = NoConn => got = NoGot

CertsInv == CertsShape /\ CertificateIsTheClients

\* The certificate of nobody has no name that a pattern matches.
LEMMA NoCertNoName == \A patterns : AnyName(NoCert, patterns) = {}
  BY DEF AnyName, NoCert

\* A client's own connection is no trusted hop, whatever the client writes into the header.
LEMMA ClientIsNoHop ==
    ASSUME CertsShape, CertsDeployed, conn.from # Balancer
    PROVE  ~HopTrusted
<1>1. SUFFICES ASSUME HopTrusted PROVE FALSE
  OBVIOUS
<1>2. policy.header /\ policy.proxies \subseteq {Balancer}
  BY <1>1 DEF HopTrusted, CertsDeployed
<1>3. policy.proxies = {}
  BY <1>1, <1>2 DEF HopTrusted
<1>4. policy.names # {}
  BY <1>2, <1>3 DEF CertsShape, HeaderOk
<1>5. AnyName(conn.cert, policy.names) # {}
  BY <1>1, <1>4 DEF HopTrusted
<1>6. conn.cert \in Certs /\ conn.cert.of = conn.from
  BY <1>5, NoCertNoName DEF CertsShape
<1> QED
  BY <1>5, <1>6 DEF CertsDeployed

\* Where no quote is left open, the last element is the one that is read.
LEMMA LastIsRead ==
    ASSUME NEW v, Len(v) \in Nat \ {0}, DOMAIN v = 1..Len(v), \A j \in 1..Len(v) : v[j].open = FALSE
    PROVE  ReadElements(v) = {v[Len(v)]}
<1>0. PICK n \in Nat \ {0} : n = Len(v)
  OBVIOUS
<1>1. ASSUME NEW i \in 1..n PROVE ~Quoted(v, i)
  <2>1. {j \in 1..(i - 1) : v[j].open} = {}
    BY <1>0, <1>1
  <2>2. Cardinality({}) = 0
    BY FS_EmptySet
  <2>3. 0 % 2 = 0
    OBVIOUS
  <2>4. Quoted(v, i) => 0 % 2 = 1
    BY <2>1, <2>2, Zenon DEF Quoted
  <2> QED
    BY <2>3, <2>4
<1>2. ASSUME NEW j \in 1..n PROVE (\A i \in (j + 1)..n : Quoted(v, i)) <=> j = n
  <2>1. CASE j = n
    BY <2>1
  <2>2. CASE j # n
    <3>1. n \in (j + 1)..n /\ n \in 1..n
      BY <1>2, <2>2
    <3> QED
      BY <1>1, <2>2, <3>1
  <2> QED
    BY <2>1, <2>2
<1>3. n \in 1..n
  OBVIOUS
<1>4. LastPieces(v) = {n}
  BY <1>0, <1>2, <1>3 DEF LastPieces
<1> QED
  BY <1>0, <1>4 DEF ReadElements

\* An element that brings a certificate brings that one or none.
LEMMA ElementIsRead ==
    ASSUME NEW c, NEW as \in {"chain", "names"}, NEW open \in BOOLEAN
    PROVE  ReadElement(Element(c, as, open)).cert \in {NoCert, c}
  BY DEF ReadElement, Refuse, Element

\* What the balancer sends about a client is read as that client's certificate or refused.
LEMMA ForwardedIsRead ==
    ASSUME NEW k \in Clients, NEW c \in Certs, c.of = k, HopTrusted,
           NEW written \in {<<>>} \cup {<<e>> : e \in Elements}, NEW values \in Forwards(written, c),
           ~LeftOpen(values)
    PROVE  values # <<>> /\ \A r \in ReadHeader(values) : r.cert \in {NoCert, c}
<1>1. CASE policy.format = "xfcc"
  <2>1. PICK as \in {"chain", "names"} : values = <<written \o <<Element(c, as, FALSE)>>>>
    BY <1>1 DEF Forwards
  <2>2. PICK f : f = Element(c, as, FALSE)
    OBVIOUS
  <2>3. f.open = FALSE
    BY <2>2 DEF Element
  <2>4. written = <<>> \/ \E e \in Elements : written = <<e>>
    OBVIOUS
  <2>5. PICK v : v = written \o <<f>>
    OBVIOUS
  <2>6. Len(values) = 1 /\ values[1] = v /\ values # <<>> /\ DOMAIN values = {1}
    BY <2>1, <2>2, <2>5
  <2>7. \A j \in DOMAIN v : ~v[j].open
    BY <1>1, <2>6 DEF LeftOpen
  <2>8. ReadElements(v) = {f}
    <3>1. CASE written = <<>>
      <4>1. Len(v) = 1 /\ DOMAIN v = 1..1 /\ v[1] = f
        BY <2>5, <3>1
      <4>2. \A j \in 1..1 : v[j].open = FALSE
        BY <2>3, <4>1
      <4>4. Len(v) \in Nat \ {0} /\ DOMAIN v = 1..Len(v) /\ \A j \in 1..Len(v) : v[j].open = FALSE
        BY <4>1, <4>2
      <4>5. ReadElements(v) = {v[Len(v)]}
        BY <4>4, LastIsRead, Zenon
      <4> QED
        BY <4>1, <4>5
    <3>2. ASSUME NEW e \in Elements, written = <<e>> PROVE ReadElements(v) = {f}
      <4>1. Len(v) = 2 /\ DOMAIN v = 1..2 /\ v[1] = e /\ v[2] = f
        BY <2>5, <3>2
      <4>2. e.open \in BOOLEAN
        BY <3>2 DEF Elements, Element, Garbage
      <4>3. \A j \in 1..2 : v[j].open = FALSE
        BY <2>3, <2>7, <4>1, <4>2
      <4>4. Len(v) \in Nat \ {0} /\ DOMAIN v = 1..Len(v) /\ \A j \in 1..Len(v) : v[j].open = FALSE
        BY <4>1, <4>3
      <4>5. ReadElements(v) = {v[Len(v)]}
        BY <4>4, LastIsRead, Zenon
      <4> QED
        BY <4>1, <4>5
    <3> QED
      BY <2>4, <3>1, <3>2
  <2>9. ReadHeader(values) = {ReadElement(f)}
    BY <2>6, <2>8 DEF ReadHeader
  <2> QED
    BY <2>2, <2>6, <2>9, ElementIsRead
<1>2. CASE policy.format # "xfcc"
  <2>1. PICK f : f = Element(c, "chain", FALSE)
    OBVIOUS
  <2>2. CASE values = <<<<f>>>>
    <3>1. Len(values) = 1 /\ values[1] = <<f>> /\ values # <<>>
      BY <2>2
    <3>2. PICK v : v = <<f>>
      OBVIOUS
    <3>3. Len(v) = 1 /\ DOMAIN v = 1..1 /\ v[1] = f /\ f.open = FALSE
      BY <2>1, <3>2 DEF Element
    <3>4. ReadElements(v) = {f}
      <4>1. \A j \in 1..1 : v[j].open = FALSE
        BY <3>3
      <4>4. Len(v) \in Nat \ {0} /\ DOMAIN v = 1..Len(v) /\ \A j \in 1..Len(v) : v[j].open = FALSE
        BY <3>3, <4>1
      <4>5. ReadElements(v) = {v[Len(v)]}
        BY <4>4, LastIsRead, Zenon
      <4> QED
        BY <3>3, <4>5
    <3>5. ReadHeader(values) = {ReadElement(f)}
      BY <3>1, <3>2, <3>4 DEF ReadHeader
    <3> QED
      BY <2>1, <3>1, <3>5, ElementIsRead
  <2>3. CASE values = <<written, <<f>>>>
    <3>1. Len(values) = 2 /\ values # <<>>
      BY <2>3
    <3> QED
      BY <3>1 DEF ReadHeader, Refuse
  <2> QED
    BY <1>2, <2>1, <2>2, <2>3 DEF Forwards
<1> QED
  BY <1>1, <1>2

\* The certificate a request is served with is its client's own or none.
LEMMA AppliedIsTheClients ==
    ASSUME CertsShape, CertsDeployed, conn # NoConn, NEW k \in Clients, NEW values \in Arriving(k),
           ~LeftOpen(values), NEW a \in Apply(values)
    PROVE  a.cert = NoCert \/ (a.cert \in Certs /\ a.cert.of = k)
<1>1. CASE conn.from # Balancer
  <2>1. k = conn.from
    BY <1>1 DEF Arriving
  <2>2. a.cert = conn.cert
    BY <1>1, ClientIsNoHop DEF Apply
  <2> QED
    BY <2>1, <2>2 DEF CertsShape
<1>2. CASE conn.from = Balancer
  <2>1. policy.header
    BY <1>2 DEF CertsDeployed
  <2>2. CASE HopTrusted
    <3>1. CASE values = <<>>
      BY <2>1, <2>2, <3>1 DEF Apply, Refuse
    <3>2. CASE values # <<>>
      <4>1. PICK written \in {<<>>} \cup {<<e>> : e \in Elements}, c \in {d \in Certs : d.of = k} :
               values \in Forwards(written, c)
        BY <1>2, <3>2 DEF Arriving
      <4>2. \A r \in ReadHeader(values) : r.cert \in {NoCert, c}
        BY <2>2, <4>1, ForwardedIsRead
      <4>3. a \in ReadHeader(values)
        BY <2>1, <2>2, <3>2 DEF Apply
      <4> QED
        BY <4>2, <4>3
    <3> QED
      BY <3>1, <3>2
  <2>3. CASE ~HopTrusted
    <3>1. policy.proxies \subseteq {Balancer}
      BY DEF CertsDeployed
    <3>2. policy.names # {} /\ AnyName(conn.cert, policy.names) = {}
      BY <1>2, <2>1, <2>3, <3>1 DEF HopTrusted
    <3>3. conn.cert = NoCert
      BY <1>2, <3>2 DEF CertsShape, CertsDeployed
    <3> QED
      BY <2>1, <2>3, <3>3 DEF Apply
  <2> QED
    BY <2>2, <2>3
<1> QED
  BY <1>1, <1>2

\* A request is answered as its client's.
LEMMA ServeStep ==
    ASSUME CertsInv, ServeRequest
    PROVE  CertsInv'
<1>1. /\ conn # NoConn
      /\ UNCHANGED <<policy, ticket, conn>>
  BY DEF ServeRequest
<1>0. PICK k \in Clients, own \in {"none", "own"} : \E values \in Arriving(k) : \E b \in Apply(values) :
         got' = [for |-> k, cert |-> b.cert, result |-> b.result, app |-> SeenByApp(b.cert, own),
                 principal |-> Principal(b.cert), open |-> LeftOpen(values), done |-> TRUE]
  BY DEF ServeRequest
<1>2. PICK values \in Arriving(k) : \E b \in Apply(values) :
         got' = [for |-> k, cert |-> b.cert, result |-> b.result, app |-> SeenByApp(b.cert, own),
                 principal |-> Principal(b.cert), open |-> LeftOpen(values), done |-> TRUE]
  BY <1>0
<1>2a. PICK b \in Apply(values) :
         got' = [for |-> k, cert |-> b.cert, result |-> b.result, app |-> SeenByApp(b.cert, own),
                 principal |-> Principal(b.cert), open |-> LeftOpen(values), done |-> TRUE]
  BY <1>2
<1>3. CertsShape'
  BY <1>1 DEF CertsInv, CertsShape
<1>4. CertsDeployed' <=> CertsDeployed
  BY <1>1 DEF CertsDeployed
<1> DEFINE a == b.cert
<1>5. /\ got'.for = k /\ got'.cert = a /\ got'.app = SeenByApp(a, own) /\ got'.principal = Principal(a)
      /\ got'.open = LeftOpen(values)
  BY <1>2a
<1>6. CertsDeployed /\ ~got'.open => a = NoCert \/ (a \in Certs /\ a.of = k)
  BY <1>1, <1>5, AppliedIsTheClients DEF CertsInv
<1> HIDE DEF a
<1>7. \A c : Principal(c)' = Principal(c)
  BY <1>1 DEF Principal
<1>8. Principal(NoCert) = <<>>
  BY DEF Principal
<1>9. CertIsTheClients'
  BY <1>4, <1>5, <1>6, <1>7, <1>8 DEF CertIsTheClients
<1>10. Strips' = Strips
  BY <1>1 DEF Strips
<1>11. AppSeesTheClient'
  BY <1>4, <1>5, <1>6, <1>10 DEF AppSeesTheClient, SeenByApp
<1> QED
  BY <1>3, <1>9, <1>11 DEF CertsInv, CertificateIsTheClients

\* Without a request nothing is got that could be somebody else's.
LEMMA NothingGot ==
    ASSUME got' = NoGot
    PROVE  CertificateIsTheClients'
<1>1. ~got'.done
  BY DEF NoGot
<1> QED
  BY <1>1 DEF CertificateIsTheClients, CertIsTheClients, AppSeesTheClient

\* A connection begins or ends.
LEMMA ConnectionStep ==
    ASSUME CertsInv, Handshake \/ Resume \/ Disconnect
    PROVE  /\ CertsInv'
           /\ conn'.cert = NoCert \/ Verifies(conn'.cert)
<1>1. policy' = policy /\ policy.mode \in {"off", "optional", "required"}
  BY CertsAssumption DEF Handshake, Resume, Disconnect, CertsInv, CertsShape
<1>2. CASE Handshake
  <2>1. PICK h \in Clients \cup {Balancer}, c \in Certs \cup {NoCert} :
           /\ c = NoCert \/ c.of = h
           /\ CASE policy.mode = "off" -> c = NoCert
                [] policy.mode = "optional" -> c = NoCert \/ Verifies(c)
                [] policy.mode = "required" -> c # NoCert /\ Verifies(c)
           /\ conn' = [from |-> h, cert |-> c]
           /\ ticket' = IF c = NoCert THEN ticket ELSE c
    BY <1>2 DEF Handshake
  <2>2. conn = NoConn /\ got' = got /\ got = NoGot
    BY <1>2 DEF Handshake, CertsInv, CertsShape
  <2>3. (policy.mode = "off" => c = NoCert) /\ (c = NoCert \/ Verifies(c))
    BY <1>1, <2>1
  <2>4. conn'.cert = c /\ conn'.from = h
    BY <2>1
  <2>5. CertsShape'
    BY <1>1, <2>1, <2>2, <2>3, <2>4 DEF CertsInv, CertsShape, PolicyOk, HeaderOk
  <2> QED
    BY <2>2, <2>3, <2>4, <2>5, NothingGot DEF CertsInv
<1>3. CASE Resume
  <2>1. policy.mode = "off" /\ ticket = NoCert /\ conn = NoConn /\ got' = got /\ got = NoGot /\ ticket' = ticket
    BY <1>3 DEF Resume, Resumable, CertsInv, CertsShape
  <2>2. conn'.cert = NoCert
    BY <1>3, <2>1 DEF Resume
  <2>3. CertsShape'
    BY <1>1, <2>1, <2>2 DEF CertsInv, CertsShape, PolicyOk, HeaderOk
  <2> QED
    BY <2>1, <2>2, <2>3, NothingGot DEF CertsInv
<1>4. CASE Disconnect
  <2>1. conn' = NoConn /\ got' = NoGot /\ ticket' = ticket
    BY <1>4 DEF Disconnect
  <2>2. conn'.cert = NoCert
    BY <2>1 DEF NoConn
  <2>3. CertsShape'
    BY <1>1, <2>1, <2>2 DEF CertsInv, CertsShape, PolicyOk, HeaderOk
  <2> QED
    BY <2>1, <2>2, <2>3, NothingGot DEF CertsInv
<1> QED
  BY <1>2, <1>3, <1>4

\* The files and the verifier change: no connection and no answer does.
LEMMA FilesStep ==
    ASSUME CertsInv, UNCHANGED <<policy, ticket, conn, got>>
    PROVE  CertsInv'
<1>1. CertsShape'
  BY DEF CertsInv, CertsShape, PolicyOk, HeaderOk
<1>2. (CertsDeployed' <=> CertsDeployed) /\ Strips' = Strips /\ \A c : Principal(c)' = Principal(c)
  BY DEF CertsDeployed, Strips, Principal
<1>3. CertIsTheClients' /\ AppSeesTheClient'
  BY <1>2 DEF CertsInv, CertificateIsTheClients, CertIsTheClients, AppSeesTheClient
<1> QED
  BY <1>1, <1>3 DEF CertsInv, CertificateIsTheClients

\* The invariant holds in every behaviour.
LEMMA CertsInvariant == CertsSpec => []CertsInv
<1>1. CertsInit => CertsInv
  <2>1. SUFFICES ASSUME CertsInit PROVE CertsInv
    OBVIOUS
  <2>2. CertsShape /\ ~got.done
    BY <2>1 DEF CertsInit, CertsShape, NoConn, NoGot
  <2> QED
    BY <2>2 DEF CertsInv, CertificateIsTheClients, CertIsTheClients, AppSeesTheClient
<1>2. CertsInv /\ [CertsNext]_certVars => CertsInv'
  <2>1. SUFFICES ASSUME CertsInv, [CertsNext]_certVars PROVE CertsInv'
    OBVIOUS
  <2>2. CASE ServeRequest
    BY <2>1, <2>2, ServeStep
  <2>3. CASE Handshake \/ Resume \/ Disconnect
    BY <2>1, <2>3, ConnectionStep
  <2>4. CASE Replace \/ Hourly \/ Reloads \/ UNCHANGED certVars
    <3>1. UNCHANGED <<policy, ticket, conn, got>>
      BY <2>4 DEF Replace, Hourly, Reloads, Settled, FinishReload, certVars
    <3> QED
      BY <2>1, <3>1, FilesStep
  <2> QED
    BY <2>1, <2>2, <2>3, <2>4 DEF CertsNext
<1> QED
  BY <1>1, <1>2, PTL DEF CertsSpec

\* A request's certificate, its principal and what the app reads are its client's own, for any
\* certificates, settings and headers.
THEOREM ServedAsTheirOwn == CertsSpec => []CertificateIsTheClients
  BY CertsInvariant, PTL DEF CertsInv

\* No connection begins with a certificate that the verifier in force does not pass.
THEOREM RevokedAreOut == CertsSpec => RevokedStaysOut
<1>1. CertsInv /\ [CertsNext]_certVars => [conn' # conn => conn'.cert = NoCert \/ Verifies(conn'.cert)]_certVars
  <2>1. SUFFICES ASSUME CertsInv, CertsNext, conn' # conn
                 PROVE  conn'.cert = NoCert \/ Verifies(conn'.cert)
    OBVIOUS
  <2>2. Handshake \/ Resume \/ Disconnect
    BY <2>1 DEF CertsNext, Replace, Hourly, Reloads, Settled, FinishReload, ServeRequest
  <2> QED
    BY <2>1, <2>2, ConnectionStep
<1> QED
  BY <1>1, CertsInvariant, PTL DEF CertsSpec, RevokedStaysOut

----------------------------------------------------------------------------
(* Authentication. *)

KeyType == [kid : Kids, gen : Nat]
TokenType == Tokens \cup {NoToken}

\* Where a request waits for the cache, and where it holds the write lock.
Pending == {"lookup", "lock", "fetch", "answer", "select"}
Holding == {"fetch", "answer", "select"}

RequestType ==
    [pc : Pending \cup {"new", "decided"}, auth : AuthHeaders \cup {<<>>}, key : KeyHeaders \cup {<<>>},
     token : TokenType, got : SUBSET KeyType, left : Nat, kept : BOOLEAN,
     decision : {"none", "allow", "deny"},
     with : KeyType \cup {e.static : e \in Engines} \cup {NoToken.key}, at : Nat, failed : BOOLEAN]

AuthShape ==
    /\ engine \in Engines /\ clock \in Nat /\ writer \in Requests \cup {Nobody}
    /\ issuer.keys \subseteq KeyType /\ issuer.rotations \in Nat
    /\ DOMAIN issuer.gone \subseteq KeyType /\ \A k \in DOMAIN issuer.gone : issuer.gone[k] \in Nat
    /\ cache \in [filled : BOOLEAN, at : Nat, keys : SUBSET KeyType, failed : BOOLEAN]
    /\ reqs \in [Requests -> RequestType]

\* A generation is published once: what was withdrawn is not published again.
Generations ==
    /\ \A k \in issuer.keys \cup DOMAIN issuer.gone : k.gen <= issuer.rotations
    /\ issuer.keys \cap DOMAIN issuer.gone = {}

\* A key was still published at an instant.
KeptUntil(k, t) == k \in issuer.keys \/ (k \in DOMAIN issuer.gone /\ issuer.gone[k] >= t)

\* What is cached was published when the fetch that brought it began.
CacheOnce == cache.filled => /\ cache.at <= clock
                             /\ \A k \in cache.keys : KeptUntil(k, cache.at - FetchLimit)

\* One request holds the write lock.
LockHeld == \A r \in Requests : reqs[r].pc \in Holding <=> writer = r

\* The holder of the write lock has keys to select from: some for its key id, or the cache is as new
\* as an answer can be, or a fetch has failed.
CanSelect(q) ==
    /\ cache.filled
    /\ ~Stale \/ cache.failed
    /\ \/ Select(cache.keys, q.token.kid) # {}
       \/ q.kept => q.token.key \in cache.keys
       \/ cache.failed

\* What a waiting request has behind it, and what it brings.
WaitingOk(q) ==
    /\ engine.mode = "jwt" /\ engine.jwks /\ Len(q.auth) = 1 /\ q.decision = "none"
    /\ q.kept => q.token.key \in issuer.keys
    /\ q.pc \in {"fetch", "answer"} => q.left <= FetchLimit
    /\ q.pc = "answer" => /\ \A k \in q.got : KeptUntil(k, clock - (FetchLimit - q.left))
                          /\ q.kept => q.token.key \in q.got
    /\ q.pc = "select" => CanSelect(q)

\* The parts of CredentialsChecked, of one request.
OwnCredential(q) ==
    q.decision = "allow" =>
        CASE engine.mode \in {"basic", "jwt"} -> Len(q.auth) = 1
          [] engine.mode = "apikey" -> /\ Len(q.key) <= 1
                                       /\ \/ \E i \in DOMAIN q.key : q.key[i] \in engine.keys
                                          \/ Len(q.auth) = 1
          [] OTHER -> TRUE
FetchNeeded(q) ==
    q.pc \in {"fetch", "answer"} => \/ ~cache.filled
                                    \/ Select(cache.keys, q.token.kid) = {}
                                    \/ clock - (FetchLimit - q.left) - cache.at > CacheTtl
ExpiresOk(q) ==
    (engine.mode = "jwt" /\ engine.jwks /\ q.decision = "allow" /\ q.with \in DOMAIN issuer.gone) =>
        q.at <= issuer.gone[q.with] + CacheTtl + FetchLimit \/ q.failed
AcceptedOk(q) ==
    (q.pc = "decided" /\ engine.mode = "jwt" /\ engine.jwks /\ q.decision = "deny"
       /\ ~Repeated(q.auth) /\ Credential(q, "Bearer") # "none" /\ q.token.alg = engine.alg) =>
       \/ ~q.token.valid \/ ~q.kept \/ q.failed
       \/ q.token.kid # q.token.key.kid
       \/ q.with.gen # q.token.key.gen /\ q.with.kid = q.token.kid

\* A request: what it waits with, and that its decision is right and not of the future.
RequestOk(q) ==
    /\ q.pc \in Pending => WaitingOk(q)
    /\ q.at <= clock /\ (q.pc = "new" => q.decision = "none")
    /\ OwnCredential(q) /\ FetchNeeded(q) /\ ExpiresOk(q) /\ AcceptedOk(q)

AuthInv == /\ AuthShape /\ Generations /\ CacheOnce /\ LockHeld
           /\ \A r \in Requests : RequestOk(reqs[r])

\* The invariant gives the property.
LEMMA AuthInvGives == AuthInv => CredentialsChecked
<1>1. SUFFICES ASSUME AuthInv PROVE CredentialsChecked
  OBVIOUS
<1>2. NoOtherCredential
  BY <1>1 DEF AuthInv, RequestOk, OwnCredential, NoOtherCredential
<1>3. OneFetchForAll
  BY <1>1 DEF AuthInv, RequestOk, FetchNeeded, OneFetchForAll
<1>4. WithdrawnKeyExpires
  BY <1>1 DEF AuthInv, RequestOk, ExpiresOk, WithdrawnKeyExpires
<1>5. PublishedKeyAccepted
  BY <1>1 DEF AuthInv, RequestOk, AcceptedOk, PublishedKeyAccepted
<1> QED
  BY <1>2, <1>3, <1>4, <1>5 DEF CredentialsChecked

\* Keys that are selected are cached ones.
LEMMA SelectedAreCached ==
    ASSUME NEW keys, NEW kid
    PROVE  Select(keys, kid) \subseteq keys
  BY DEF Select

\* A request that did nothing stays as it was, when the cache is the same but for a failure, or when
\* it holds no lock.
LEMMA OtherRequest ==
    ASSUME NEW q, RequestOk(q), UNCHANGED <<engine, clock, issuer>>,
           \/ q.pc \notin Holding
           \/ /\ cache'.filled = cache.filled /\ cache'.at = cache.at /\ cache'.keys = cache.keys
              /\ cache.failed => cache'.failed
    PROVE  RequestOk(q)'
<1>1. q.pc \in Pending => WaitingOk(q)'
  <2>1. SUFFICES ASSUME q.pc \in Pending PROVE WaitingOk(q)'
    OBVIOUS
  <2>2. WaitingOk(q)
    BY <2>1 DEF RequestOk
  <2>3. \A k, t : KeptUntil(k, t)' <=> KeptUntil(k, t)
    BY DEF KeptUntil
  <2>4. q.pc = "select" => CanSelect(q)'
    BY <2>2 DEF WaitingOk, CanSelect, Stale, Holding, Select
  <2> QED
    BY <2>2, <2>3, <2>4 DEF WaitingOk
<1>2. OwnCredential(q)' /\ ExpiresOk(q)' /\ (q.at <= clock)'
  BY DEF RequestOk, OwnCredential, ExpiresOk
<1>3. FetchNeeded(q)'
  BY DEF RequestOk, FetchNeeded, Holding, Select
<1>4. AcceptedOk(q)'
  BY DEF RequestOk, AcceptedOk, Repeated, Credential
<1> QED
  BY <1>1, <1>2, <1>3, <1>4 DEF RequestOk

\* A decision taken from the cache is right.
LEMMA VerifiedOk ==
    ASSUME AuthShape, Generations, CacheOnce, NEW q \in RequestType, WaitingOk(q), CanSelect(q)
    PROVE  LET v == Verified(q, Select(cache.keys, q.token.kid))
           IN v \in RequestType /\ v.pc = "decided" /\ RequestOk(v)
<1> DEFINE keys == Select(cache.keys, q.token.kid)
           v == Verified(q, keys)
<1>1. keys \subseteq cache.keys /\ cache.keys \subseteq KeyType
  BY SelectedAreCached DEF AuthShape
<1>2. keys # {} => (CHOOSE k \in keys : TRUE) \in keys
  OBVIOUS
<1> DEFINE w == IF keys = {} THEN NoToken.key ELSE CHOOSE k \in keys : TRUE
           d == IF q.token.key \in keys /\ q.token.valid THEN "allow" ELSE "deny"
<1>3. w \in KeyType \cup {NoToken.key} /\ (keys # {} => w \in keys)
  BY <1>1, <1>2
<1>4. d \in {"allow", "deny"} /\ (d = "allow" => keys # {})
      /\ (d = "deny" => q.token.key \notin keys \/ ~q.token.valid)
  OBVIOUS
<1>5. v = [q EXCEPT !.pc = "decided", !.at = clock, !.left = 0, !.failed = cache.failed,
                    !.with = w, !.decision = d]
  BY DEF Verified
<1> HIDE DEF w, d, v
<1>6. /\ v \in RequestType /\ v.pc = "decided" /\ v.at = clock /\ v.failed = cache.failed
      /\ v.with = w /\ v.decision = d /\ v.auth = q.auth /\ v.token = q.token /\ v.kept = q.kept
  BY <1>3, <1>4, <1>5 DEF RequestType, AuthShape
<1>7. v.pc \notin Pending /\ v.at <= clock
  BY <1>6 DEF Pending, AuthShape
<1>8. OwnCredential(v)
  BY <1>6 DEF OwnCredential, WaitingOk
<1>9. FetchNeeded(v)
  BY <1>6 DEF FetchNeeded
<1>10. ExpiresOk(v)
  <2>1. SUFFICES ASSUME d = "allow", w \in DOMAIN issuer.gone, ~cache.failed
                 PROVE  clock <= issuer.gone[w] + CacheTtl + FetchLimit
    BY <1>6 DEF ExpiresOk
  <2>2. w \in cache.keys
    BY <1>1, <1>3, <1>4, <2>1
  <2>3. cache.filled /\ ~(clock - cache.at > CacheTtl)
    BY <2>1 DEF CanSelect, Stale
  <2>4. issuer.gone[w] >= cache.at - FetchLimit
    BY <2>1, <2>2, <2>3 DEF CacheOnce, KeptUntil, Generations
  <2>5. clock \in Nat /\ cache.at \in Nat /\ issuer.gone[w] \in Nat
    BY <2>1 DEF AuthShape
  <2> QED
    BY <2>3, <2>4, <2>5, AuthAssumption
<1>11. AcceptedOk(v)
  <2>1. SUFFICES ASSUME d = "deny", q.token.valid, q.kept, ~cache.failed, q.token.kid = q.token.key.kid
                 PROVE  w.gen # q.token.key.gen /\ w.kid = q.token.kid
    BY <1>6 DEF AcceptedOk
  <2>2. q.token.key \in KeyType
    BY <2>1 DEF WaitingOk, AuthShape
  <2>3. q.token.kid # "none"
    BY <2>1, <2>2, AuthAssumption DEF KeyType
  <2>4. keys = {k \in cache.keys : k.kid = q.token.kid}
    BY <2>3 DEF Select
  <2>5. q.token.key \notin keys
    BY <1>4, <2>1
  <2>6. keys # {}
    BY <2>1, <2>4, <2>5 DEF CanSelect
  <2>7. w \in KeyType /\ w.kid = q.token.kid /\ w # q.token.key
    BY <1>1, <1>3, <2>4, <2>5, <2>6
  <2> QED
    BY <2>1, <2>2, <2>7 DEF KeyType
<1> QED
  BY <1>6, <1>7, <1>8, <1>9, <1>10, <1>11 DEF RequestOk, v

\* One request moves on, and the lock is held where it should be.
LEMMA OneRequest ==
    ASSUME AuthInv, NEW r \in Requests, NEW q \in RequestType, Becomes(r, q),
           UNCHANGED <<engine, clock, issuer>>,
           cache' \in [filled : BOOLEAN, at : Nat, keys : SUBSET KeyType, failed : BOOLEAN],
           CacheOnce', RequestOk(q)',
           \/ writer = r
           \/ /\ cache'.filled = cache.filled /\ cache'.at = cache.at /\ cache'.keys = cache.keys
              /\ cache.failed => cache'.failed,
           \/ writer \in {r, Nobody} /\ q.pc \in Holding /\ writer' = r
           \/ writer = r /\ q.pc \notin Holding /\ writer' = Nobody
           \/ writer # r /\ q.pc \notin Holding /\ writer' = writer
    PROVE  AuthInv'
<1>1. /\ reqs \in [Requests -> RequestType] /\ reqs' = [reqs EXCEPT ![r] = q]
      /\ reqs' \in [Requests -> RequestType] /\ reqs'[r] = q
      /\ \A s \in Requests : s # r => reqs'[s] = reqs[s]
  BY DEF AuthInv, AuthShape, Becomes
<1>2. AuthShape'
  BY <1>1 DEF AuthInv, AuthShape
<1>3. Generations'
  BY DEF AuthInv, Generations
<1>4. LockHeld'
  <2>1. SUFFICES ASSUME NEW s \in Requests PROVE reqs'[s].pc \in Holding <=> writer' = s
    BY DEF LockHeld
  <2>2. reqs[s].pc \in Holding <=> writer = s
    BY DEF AuthInv, LockHeld
  <2>3. r # Nobody /\ s # Nobody
    BY AuthAssumption
  <2>4. CASE s = r
    BY <1>1, <2>3, <2>4
  <2>5. CASE s # r
    <3>1. reqs'[s] = reqs[s]
      BY <1>1, <2>5
    <3> QED
      BY <2>2, <2>3, <2>5, <3>1
  <2> QED
    BY <2>4, <2>5
<1>5. ASSUME NEW s \in Requests PROVE (RequestOk(reqs[s]))'
  <2>1. CASE s = r
    BY <1>1, <2>1 DEF RequestOk, WaitingOk, CanSelect, OwnCredential, FetchNeeded, ExpiresOk,
                      AcceptedOk, Credential
  <2>2. CASE s # r
    <3>1. PICK o : o = reqs[s]
      OBVIOUS
    <3>2. RequestOk(o)
      BY <3>1 DEF AuthInv
    <3>3. writer = r => o.pc \notin Holding
      BY <2>2, <3>1 DEF AuthInv, LockHeld
    <3>4. RequestOk(o)'
      BY <3>2, <3>3, OtherRequest
    <3>5. reqs'[s] = o
      BY <1>1, <2>2, <3>1
    <3> QED
      BY <3>4, <3>5 DEF RequestOk, WaitingOk, CanSelect, OwnCredential, FetchNeeded, ExpiresOk,
                        AcceptedOk, Credential
  <2> QED
    BY <2>1, <2>2
<1> QED
  BY <1>2, <1>3, <1>4, <1>5 DEF AuthInv

\* The same without a change of the cache.
LEMMA OneRequestSameCache ==
    ASSUME AuthInv, NEW r \in Requests, NEW q \in RequestType, Becomes(r, q),
           UNCHANGED <<engine, clock, issuer, cache>>, RequestOk(q),
           \/ writer \in {r, Nobody} /\ q.pc \in Holding /\ writer' = r
           \/ writer = r /\ q.pc \notin Holding /\ writer' = Nobody
           \/ writer # r /\ q.pc \notin Holding /\ writer' = writer
    PROVE  AuthInv'
<1>1. cache' \in [filled : BOOLEAN, at : Nat, keys : SUBSET KeyType, failed : BOOLEAN]
  BY DEF AuthInv, AuthShape
<1>2. CacheOnce'
  BY DEF AuthInv, CacheOnce, KeptUntil
<1>3. RequestOk(q)'
  BY OtherRequest
<1> QED
  BY <1>1, <1>2, <1>3, OneRequest

\* A request that holds no lock is not the writer.
LEMMA NotTheWriter ==
    ASSUME AuthInv, NEW r \in Requests
    PROVE  /\ reqs[r].pc \notin Holding => writer # r
           /\ reqs[r].pc \in Holding => writer = r
           /\ reqs[r] \in RequestType /\ RequestOk(reqs[r])
  BY DEF AuthInv, LockHeld, AuthShape

\* The cache under the read lock.
LEMMA LookupStep ==
    ASSUME AuthInv, NEW r \in Requests, Lookup(r)
    PROVE  AuthInv'
<1>1. PICK o : o = reqs[r]
  OBVIOUS
<1>2. /\ o \in RequestType /\ RequestOk(o) /\ o.pc = "lookup" /\ writer # r /\ writer' = writer
      /\ UNCHANGED <<engine, clock, issuer, cache>> /\ WaitingOk(o)
  BY <1>1, NotTheWriter DEF Lookup, Holding, RequestOk, Pending
<1>3. CASE Cached(o.token.kid) # {}
  <2>1. CanSelect(o) /\ Cached(o.token.kid) = Select(cache.keys, o.token.kid)
    BY <1>3 DEF Cached, CanSelect
  <2> DEFINE v == Verified(o, Select(cache.keys, o.token.kid))
  <2>2. v \in RequestType /\ v.pc = "decided" /\ RequestOk(v)
    BY <1>2, <2>1, VerifiedOk DEF AuthInv
  <2>3. Becomes(r, v)
    BY <1>1, <1>3, <2>1 DEF Lookup
  <2> HIDE DEF v
  <2> QED
    BY <1>2, <2>2, <2>3, OneRequestSameCache DEF Holding
<1>4. CASE Cached(o.token.kid) = {}
  <2> DEFINE v == [o EXCEPT !.pc = "lock"]
  <2>1. Becomes(r, v)
    BY <1>1, <1>4 DEF Lookup
  <2>2. /\ v \in RequestType /\ v.pc = "lock" /\ v.auth = o.auth /\ v.token = o.token /\ v.kept = o.kept
        /\ v.decision = o.decision /\ v.at = o.at
    BY <1>2 DEF RequestType, Pending
  <2> HIDE DEF v
  <2>3. RequestOk(v)
    BY <1>2, <2>2 DEF RequestOk, WaitingOk, OwnCredential, FetchNeeded, ExpiresOk, AcceptedOk
  <2> QED
    BY <1>2, <2>1, <2>2, <2>3, OneRequestSameCache DEF Holding
<1> QED
  BY <1>3, <1>4

\* The write lock, and the second look.
LEMMA LockStep ==
    ASSUME AuthInv, NEW r \in Requests, Lock(r)
    PROVE  AuthInv'
<1>1. PICK o : o = reqs[r]
  OBVIOUS
<1>2. /\ o \in RequestType /\ RequestOk(o) /\ o.pc = "lock" /\ writer = Nobody /\ writer' = r
      /\ UNCHANGED <<engine, clock, issuer, cache>> /\ WaitingOk(o)
  BY <1>1, NotTheWriter DEF Lock, RequestOk, Pending
<1>3. CASE NeedsFetch(o.token.kid)
  <2> DEFINE v == [o EXCEPT !.pc = "fetch", !.left = FetchLimit]
  <2>1. Becomes(r, v)
    BY <1>1, <1>3 DEF Lock
  <2>2. /\ v \in RequestType /\ v.pc = "fetch" /\ v.auth = o.auth /\ v.token = o.token /\ v.kept = o.kept
        /\ v.decision = o.decision /\ v.at = o.at /\ v.left = FetchLimit
    BY <1>2, AuthAssumption DEF RequestType, Pending
  <2> HIDE DEF v
  <2>3. clock \in Nat /\ cache.at \in Nat /\ FetchLimit \in Nat /\ CacheTtl \in Nat
    BY AuthAssumption DEF AuthInv, AuthShape
  <2>4. FetchNeeded(v)
    BY <1>3, <2>2, <2>3 DEF FetchNeeded, NeedsFetch, Stale
  <2>5. RequestOk(v)
    BY <1>2, <2>2, <2>3, <2>4 DEF RequestOk, WaitingOk, OwnCredential, ExpiresOk, AcceptedOk
  <2> QED
    BY <1>2, <2>1, <2>2, <2>5, OneRequestSameCache DEF Holding
<1>4. CASE ~NeedsFetch(o.token.kid)
  <2> DEFINE v == [o EXCEPT !.pc = "select"]
  <2>1. Becomes(r, v)
    BY <1>1, <1>4 DEF Lock
  <2>2. /\ v \in RequestType /\ v.pc = "select" /\ v.auth = o.auth /\ v.token = o.token /\ v.kept = o.kept
        /\ v.decision = o.decision /\ v.at = o.at
    BY <1>2 DEF RequestType, Pending
  <2> HIDE DEF v
  <2>3. CanSelect(v)
    BY <1>4, <2>2 DEF CanSelect, NeedsFetch
  <2>4. RequestOk(v)
    BY <1>2, <2>2, <2>3 DEF RequestOk, WaitingOk, OwnCredential, FetchNeeded, ExpiresOk, AcceptedOk
  <2> QED
    BY <1>2, <2>1, <2>2, <2>4, OneRequestSameCache DEF Holding
<1> QED
  BY <1>3, <1>4

\* The issuer's answer: the keys of this moment.
LEMMA AnswerStep ==
    ASSUME AuthInv, NEW r \in Requests, IssuerAnswers(r)
    PROVE  AuthInv'
<1>1. PICK o : o = reqs[r]
  OBVIOUS
<1>2. /\ o \in RequestType /\ RequestOk(o) /\ o.pc = "fetch" /\ writer = r /\ writer' = r
      /\ UNCHANGED <<engine, clock, issuer, cache>> /\ WaitingOk(o)
  BY <1>1, NotTheWriter DEF IssuerAnswers, RequestOk, Pending, Holding
<1> DEFINE v == [o EXCEPT !.pc = "answer", !.got = issuer.keys]
<1>3. Becomes(r, v)
  BY <1>1 DEF IssuerAnswers
<1>4. /\ v \in RequestType /\ v.pc = "answer" /\ v.auth = o.auth /\ v.token = o.token /\ v.kept = o.kept
      /\ v.decision = o.decision /\ v.at = o.at /\ v.left = o.left /\ v.got = issuer.keys
  BY <1>2 DEF RequestType, Pending, AuthInv, AuthShape
<1> HIDE DEF v
<1>5. FetchNeeded(v)
  BY <1>2, <1>4 DEF RequestOk, FetchNeeded
<1>6. \A k \in v.got : \A t : KeptUntil(k, t)
  BY <1>4 DEF KeptUntil
<1>7. WaitingOk(v)
  BY <1>2, <1>4, <1>6 DEF WaitingOk
<1>8. RequestOk(v)
  BY <1>2, <1>4, <1>5, <1>7 DEF RequestOk, WaitingOk, OwnCredential, ExpiresOk, AcceptedOk
<1> QED
  BY <1>2, <1>3, <1>4, <1>8, OneRequestSameCache DEF Holding

\* The answer fills the cache.
LEMMA RefillStep ==
    ASSUME AuthInv, NEW r \in Requests, Refill(r)
    PROVE  AuthInv'
<1>1. PICK o : o = reqs[r]
  OBVIOUS
<1>2. /\ o \in RequestType /\ RequestOk(o) /\ o.pc = "answer" /\ writer = r /\ writer' = r
      /\ UNCHANGED <<engine, clock, issuer>> /\ WaitingOk(o)
      /\ cache' = [filled |-> TRUE, at |-> clock, keys |-> o.got, failed |-> FALSE]
  BY <1>1, NotTheWriter DEF Refill, RequestOk, Pending, Holding
<1> DEFINE v == [o EXCEPT !.pc = "select", !.got = {}]
<1>3. Becomes(r, v)
  BY <1>1 DEF Refill
<1>4. /\ v \in RequestType /\ v.pc = "select" /\ v.auth = o.auth /\ v.token = o.token /\ v.kept = o.kept
      /\ v.decision = o.decision /\ v.at = o.at
  BY <1>2 DEF RequestType, Pending
<1> HIDE DEF v
<1>5. /\ cache' \in [filled : BOOLEAN, at : Nat, keys : SUBSET KeyType, failed : BOOLEAN]
      /\ cache'.filled /\ cache'.at = clock /\ cache'.keys = o.got
  BY <1>2 DEF RequestType, AuthInv, AuthShape
<1>6. /\ clock \in Nat /\ FetchLimit \in Nat /\ CacheTtl \in Nat /\ o.left \in Nat
      /\ \A k \in DOMAIN issuer.gone : issuer.gone[k] \in Nat
  BY <1>2, AuthAssumption DEF AuthInv, AuthShape, RequestType
<1>7. CacheOnce'
  <2>1. \A k \in o.got : KeptUntil(k, clock - (FetchLimit - o.left))
    BY <1>2 DEF WaitingOk
  <2>2. \A k \in o.got : KeptUntil(k, clock - FetchLimit)
    BY <1>6, <2>1 DEF KeptUntil
  <2> QED
    BY <1>2, <1>5, <1>6, <2>2 DEF CacheOnce, KeptUntil
<1>8. CanSelect(v)'
  BY <1>2, <1>4, <1>5, <1>6 DEF CanSelect, WaitingOk, Stale
<1>9. WaitingOk(v)'
  BY <1>2, <1>4, <1>8 DEF WaitingOk
<1>10. RequestOk(v)'
  BY <1>2, <1>4, <1>9 DEF RequestOk, WaitingOk, OwnCredential, FetchNeeded, ExpiresOk, AcceptedOk
<1> QED
  BY <1>2, <1>3, <1>4, <1>5, <1>7, <1>10, OneRequest DEF Holding

\* The decision, and the write lock is free again.
LEMMA SelectedStep ==
    ASSUME AuthInv, NEW r \in Requests, Selected(r)
    PROVE  AuthInv'
<1>1. PICK o : o = reqs[r]
  OBVIOUS
<1>2. /\ o \in RequestType /\ RequestOk(o) /\ o.pc = "select" /\ writer = r /\ writer' = Nobody
      /\ UNCHANGED <<engine, clock, issuer, cache>> /\ WaitingOk(o)
  BY <1>1, NotTheWriter DEF Selected, RequestOk, Pending, Holding
<1> DEFINE v == Verified(o, Select(cache.keys, o.token.kid))
<1>3. v \in RequestType /\ v.pc = "decided" /\ RequestOk(v)
  BY <1>2, VerifiedOk DEF AuthInv, WaitingOk
<1>4. Becomes(r, v)
  BY <1>1 DEF Selected
<1> HIDE DEF v
<1> QED
  BY <1>2, <1>3, <1>4, OneRequestSameCache DEF Holding

\* A fetch fails: the cached keys serve on, or there are none.
LEMMA FetchFailsStep ==
    ASSUME AuthInv, NEW r \in Requests, FetchFails(r)
    PROVE  AuthInv'
<1>1. PICK o : o = reqs[r]
  OBVIOUS
<1>2. /\ o \in RequestType /\ RequestOk(o) /\ o.pc \in {"fetch", "answer"} /\ writer = r
      /\ UNCHANGED <<engine, clock, issuer>> /\ WaitingOk(o) /\ cache' = [cache EXCEPT !.failed = TRUE]
  BY <1>1, NotTheWriter DEF FetchFails, RequestOk, Pending, Holding
<1>3. /\ cache' \in [filled : BOOLEAN, at : Nat, keys : SUBSET KeyType, failed : BOOLEAN]
      /\ cache'.filled = cache.filled /\ cache'.at = cache.at /\ cache'.keys = cache.keys /\ cache'.failed
  BY <1>2 DEF AuthInv, AuthShape
<1>4. CacheOnce'
  BY <1>2, <1>3 DEF AuthInv, CacheOnce, KeptUntil
<1>5. CASE cache.filled
  <2> DEFINE v == [o EXCEPT !.pc = "select", !.got = {}]
  <2>1. Becomes(r, v) /\ writer' = writer
    BY <1>1, <1>5 DEF FetchFails
  <2>2. /\ v \in RequestType /\ v.pc = "select" /\ v.auth = o.auth /\ v.token = o.token /\ v.kept = o.kept
        /\ v.decision = o.decision /\ v.at = o.at
    BY <1>2 DEF RequestType, Pending
  <2> HIDE DEF v
  <2>3. CanSelect(v)'
    BY <1>3, <1>5 DEF CanSelect
  <2>4. WaitingOk(v)'
    BY <1>2, <2>2, <2>3 DEF WaitingOk
  <2>5. RequestOk(v)'
    BY <1>2, <2>2, <2>4 DEF RequestOk, WaitingOk, OwnCredential, FetchNeeded, ExpiresOk, AcceptedOk
  <2> QED
    BY <1>2, <1>3, <1>4, <2>1, <2>2, <2>5, OneRequest DEF Holding
<1>6. CASE ~cache.filled
  <2> DEFINE v == [o EXCEPT !.pc = "decided", !.decision = "deny", !.got = {}, !.left = 0, !.failed = TRUE]
  <2>1. Becomes(r, v) /\ writer' = Nobody
    BY <1>1, <1>6 DEF FetchFails
  <2>2. v \in RequestType /\ v.pc = "decided" /\ v.decision = "deny" /\ v.failed /\ v.at = o.at
    BY <1>2 DEF RequestType
  <2> HIDE DEF v
  <2>3. RequestOk(v)'
    BY <1>2, <2>2 DEF RequestOk, Pending, OwnCredential, FetchNeeded, ExpiresOk, AcceptedOk
  <2> QED
    BY <1>2, <1>3, <1>4, <2>1, <2>2, <2>3, OneRequest DEF Holding
<1> QED
  BY <1>5, <1>6

\* A sequence that is not empty and not longer than one has one element.
LEMMA OneElement ==
    ASSUME NEW T, NEW s \in Seq(T), s # <<>>, ~(Len(s) > 1)
    PROVE  Len(s) = 1
  OBVIOUS

\* A decision on the header alone leaves no other value of it.
LEMMA HeaderDecision ==
    ASSUME AuthShape, NEW q \in RequestType, ~RepeatedCredential(q),
           \/ engine.mode # "jwt" /\ Accepts(q)
           \/ engine.mode = "jwt" /\ Credential(q, "Bearer") # "none"
    PROVE  /\ engine.mode \in {"basic", "jwt"} => Len(q.auth) = 1
           /\ engine.mode = "apikey" => /\ Len(q.key) <= 1
                                        /\ \/ \E i \in DOMAIN q.key : q.key[i] \in engine.keys
                                           \/ Len(q.auth) = 1
<1>1. q.auth \in Seq([scheme : STRING, value : STRING]) /\ q.key \in Seq(STRING)
  <2>1. q.auth \in AuthHeaders \cup {<<>>} /\ q.key \in KeyHeaders \cup {<<>>}
    BY DEF RequestType
  <2>2. \A T : <<>> \in Seq(T)
    OBVIOUS
  <2>3. AuthHeaders \subseteq Seq([scheme : STRING, value : STRING]) /\ KeyHeaders \subseteq Seq(STRING)
    BY AuthAssumption
  <2> QED
    BY <2>1, <2>2, <2>3, Zenon
<1>2. "none" \notin engine.users /\ "none" \notin engine.keys
  BY AuthAssumption DEF AuthShape
<1>3. (q.auth # <<>> => Len(q.auth) >= 1) /\ (q.key # <<>> => Len(q.key) >= 1)
      /\ Len(q.auth) \in Nat /\ Len(q.key) \in Nat /\ DOMAIN q.key = 1..Len(q.key)
  BY <1>1
<1>4. \A s : Credential(q, s) # "none" => q.auth # <<>>
  BY DEF Credential
<1>5. CASE engine.mode = "basic"
  <2>1. q.auth # <<>>
    BY <1>2, <1>4, <1>5 DEF Accepts
  <2>2. ~(Len(q.auth) > 1)
    BY <1>5 DEF RepeatedCredential, Repeated
  <2>3. Len(q.auth) = 1
    BY <1>1, <2>1, <2>2, OneElement
  <2> QED
    BY <1>5, <2>3
<1>6. CASE engine.mode = "jwt"
  <2>1. q.auth # <<>>
    BY <1>4, <1>6
  <2>2. ~(Len(q.auth) > 1)
    BY <1>6 DEF RepeatedCredential, Repeated
  <2>3. Len(q.auth) = 1
    BY <1>1, <2>1, <2>2, OneElement
  <2> QED
    BY <1>6, <2>3
<1>7. CASE engine.mode = "apikey"
  <2>1. ApiKey(q) \in engine.keys
    BY <1>7 DEF Accepts
  <2>2. Len(q.key) <= 1
    BY <1>3, <1>7 DEF RepeatedCredential, Repeated
  <2>3. CASE KeyHeaderReadable(q)
    <3>1. q.key # <<>> /\ q.key[1] \in engine.keys
      BY <2>1, <2>3 DEF ApiKey, KeyHeaderReadable
    <3>2. 1 \in DOMAIN q.key
      BY <1>3, <3>1
    <3> QED
      BY <1>7, <2>2, <3>1, <3>2
  <2>4. CASE ~KeyHeaderReadable(q)
    <3>1. q.auth # <<>>
      BY <1>2, <1>4, <2>1, <2>4 DEF ApiKey
    <3>2. ~(Len(q.auth) > 1)
      BY <1>7, <2>4 DEF RepeatedCredential, Repeated
    <3>3. Len(q.auth) = 1
      BY <1>1, <3>1, <3>2, OneElement
    <3> QED
      BY <1>7, <2>2, <3>3
  <2> QED
    BY <2>3, <2>4
<1> QED
  BY <1>5, <1>6, <1>7

\* A request arrives, and is decided on its header or goes to the cache.
LEMMA AuthorizeStep ==
    ASSUME AuthInv, NEW r \in Requests, Authorize(r)
    PROVE  AuthInv'
<1> DEFINE o == reqs[r]
<1>2. /\ o \in RequestType /\ RequestOk(o) /\ o.pc = "new" /\ writer # r /\ writer' = writer
      /\ UNCHANGED <<engine, clock, issuer, cache>> /\ o.decision = "none" /\ o.at <= clock
  BY NotTheWriter DEF Authorize, RequestOk, Holding
<1>3. PICK auth \in AuthHeaders, key \in (IF engine.mode = "apikey" THEN KeyHeaders ELSE {<<>>}), token \in Tokens :
        LET q == [o EXCEPT !.auth = auth, !.key = key, !.token = token]
            jwt == engine.mode = "jwt" /\ Credential(q, "Bearer") # "none"
        IN /\ Becomes(r, IF RepeatedCredential(q) \/ (engine.mode = "jwt" /\ ~jwt) \/ (jwt /\ token.alg # engine.alg)
                         THEN [q EXCEPT !.pc = "decided", !.decision = "deny"]
                         ELSE IF ~jwt THEN [q EXCEPT !.pc = "decided",
                                                     !.decision = IF Accepts(q) THEN "allow" ELSE "deny"]
                         ELSE IF ~engine.jwks THEN Verified(q, {engine.static})
                         ELSE [q EXCEPT !.pc = "lookup", !.kept = token.key \in issuer.keys])
           /\ jwt \/ token = NoToken
  BY Zenon DEF Authorize
<1> HIDE DEF o
<1> DEFINE q == [o EXCEPT !.auth = auth, !.key = key, !.token = token]
           jwt == engine.mode = "jwt" /\ Credential(q, "Bearer") # "none"
<1>4. /\ q \in RequestType /\ q.pc = "new" /\ q.decision = "none" /\ q.at = o.at /\ q.token = token
  BY <1>2 DEF RequestType, TokenType
<1>5. engine \in Engines /\ engine.jwks \in BOOLEAN /\ engine.mode \in {"none", "basic", "apikey", "jwt"}
      /\ clock \in Nat /\ cache.failed \in BOOLEAN
  BY AuthAssumption DEF AuthInv, AuthShape
<1>6. CASE RepeatedCredential(q) \/ (engine.mode = "jwt" /\ ~jwt) \/ (jwt /\ token.alg # engine.alg)
  <2> DEFINE v == [q EXCEPT !.pc = "decided", !.decision = "deny"]
  <2>1. Becomes(r, v)
    BY <1>3, <1>6
  <2>2. engine.mode = "jwt" => Repeated(q.auth) \/ Credential(q, "Bearer") = "none" \/ q.token.alg # engine.alg
    BY <1>4, <1>6 DEF RepeatedCredential
  <2> HIDE DEF q
  <2>3. /\ v \in RequestType /\ v.pc = "decided" /\ v.decision = "deny" /\ v.at = o.at
        /\ v.auth = q.auth /\ v.token = q.token
    BY <1>4 DEF RequestType
  <2> HIDE DEF v
  <2>4. Credential(v, "Bearer") = Credential(q, "Bearer")
    BY <2>3 DEF Credential
  <2>5. AcceptedOk(v)
    BY <2>2, <2>3, <2>4 DEF AcceptedOk
  <2>6. RequestOk(v)
    BY <1>2, <2>3, <2>5 DEF RequestOk, Pending, OwnCredential, FetchNeeded, ExpiresOk
  <2> QED
    BY <1>2, <2>1, <2>3, <2>6, OneRequestSameCache DEF Holding
<1>7. CASE ~RepeatedCredential(q) /\ engine.mode # "jwt"
  <2> DEFINE d == IF Accepts(q) THEN "allow" ELSE "deny"
             v == [q EXCEPT !.pc = "decided", !.decision = d]
  <2>1. Becomes(r, v)
    BY <1>3, <1>7
  <2>2. d \in {"allow", "deny"} /\ (d = "allow" => Accepts(q))
    OBVIOUS
  <2> HIDE DEF q, d
  <2>3. /\ v \in RequestType /\ v.pc = "decided" /\ v.decision = d /\ v.at = o.at
        /\ v.auth = q.auth /\ v.key = q.key
    BY <1>4, <2>2 DEF RequestType
  <2> HIDE DEF v
  <2>4. OwnCredential(v)
    BY <1>4, <1>5, <1>7, <2>2, <2>3, HeaderDecision DEF OwnCredential, AuthInv
  <2>5. RequestOk(v)
    BY <1>2, <1>7, <2>3, <2>4 DEF RequestOk, Pending, FetchNeeded, ExpiresOk, AcceptedOk
  <2> QED
    BY <1>2, <2>1, <2>3, <2>5, OneRequestSameCache DEF Holding
<1>8. CASE ~RepeatedCredential(q) /\ jwt /\ token.alg = engine.alg
  <2>1. engine.mode = "jwt" /\ Len(q.auth) = 1
    BY <1>4, <1>8, HeaderDecision DEF AuthInv
  <2>2. CASE ~engine.jwks
    <3> DEFINE v == Verified(q, {engine.static})
    <3>1. Becomes(r, v)
      BY <1>3, <1>8, <2>2
    <3> DEFINE w == CHOOSE k \in {engine.static} : TRUE
               d == IF q.token.key \in {engine.static} /\ q.token.valid THEN "allow" ELSE "deny"
    <3>2. w = engine.static /\ d \in {"allow", "deny"}
      OBVIOUS
    <3>3. v = [q EXCEPT !.pc = "decided", !.at = clock, !.left = 0, !.failed = cache.failed,
                        !.with = w, !.decision = d]
      BY DEF Verified
    <3> HIDE DEF q, w, d, v
    <3>4. v \in RequestType /\ v.pc = "decided" /\ v.at = clock /\ v.auth = q.auth
      BY <1>4, <1>5, <3>2, <3>3 DEF RequestType
    <3>5. RequestOk(v)
      BY <1>5, <2>1, <2>2, <3>4 DEF RequestOk, Pending, OwnCredential, FetchNeeded, ExpiresOk, AcceptedOk
    <3> QED
      BY <1>2, <3>1, <3>4, <3>5, OneRequestSameCache DEF Holding
  <2>3. CASE engine.jwks
    <3> DEFINE b == token.key \in issuer.keys
               v == [q EXCEPT !.pc = "lookup", !.kept = b]
    <3>1. Becomes(r, v)
      BY <1>3, <1>8, <2>3
    <3>2. b \in BOOLEAN /\ (b => token.key \in issuer.keys)
      OBVIOUS
    <3> HIDE DEF q, b
    <3>3. /\ v \in RequestType /\ v.pc = "lookup" /\ v.auth = q.auth /\ v.decision = "none"
          /\ v.kept = b /\ v.token = token /\ v.at = o.at
      BY <1>4, <3>2 DEF RequestType, Pending
    <3> HIDE DEF v
    <3>4. WaitingOk(v)
      BY <2>1, <2>3, <3>2, <3>3 DEF WaitingOk
    <3>5. RequestOk(v)
      BY <1>2, <3>3, <3>4 DEF RequestOk, OwnCredential, FetchNeeded, ExpiresOk, AcceptedOk
    <3> QED
      BY <1>2, <3>1, <3>3, <3>5, OneRequestSameCache DEF Holding
  <2> QED
    BY <1>5, <2>2, <2>3
<1> QED
  BY <1>6, <1>7, <1>8

\* The issuer publishes a key and withdraws others.
LEMMA RotateStep ==
    ASSUME AuthInv, Rotate
    PROVE  AuthInv'
<1>1. PICK kid \in Kids, gone \in SUBSET issuer.keys :
        LET new == [kid |-> kid, gen |-> issuer.rotations + 1]
            keys == {k \in issuer.keys \ gone : k.kid # kid} \cup {new}
        IN /\ issuer' = [keys |-> keys, rotations |-> issuer.rotations + 1,
                         gone |-> [k \in DOMAIN issuer.gone \cup (issuer.keys \ keys) |->
                                      IF k \in DOMAIN issuer.gone THEN issuer.gone[k] ELSE clock]]
           /\ reqs' = [r \in Requests |-> [reqs[r] EXCEPT !.kept = @ /\ reqs[r].token.key \in keys]]
  BY Zenon DEF Rotate
<1> DEFINE new == [kid |-> kid, gen |-> issuer.rotations + 1]
           keys == {k \in issuer.keys \ gone : k.kid # kid} \cup {new}
           G == DOMAIN issuer.gone
           H == G \cup (issuer.keys \ keys)
           F == [k \in H |-> IF k \in G THEN issuer.gone[k] ELSE clock]
<1>2. UNCHANGED <<engine, clock, cache, writer>>
  BY DEF Rotate
<1>3. issuer' = [keys |-> keys, rotations |-> issuer.rotations + 1, gone |-> F]
  BY <1>1
<1>4. /\ clock \in Nat /\ issuer.rotations \in Nat /\ issuer.keys \subseteq KeyType /\ G \subseteq KeyType
      /\ \A k \in G : issuer.gone[k] \in Nat
      /\ \A k \in issuer.keys \cup G : k.gen <= issuer.rotations
      /\ issuer.keys \cap G = {}
  BY DEF AuthInv, AuthShape, Generations
<1>5. /\ new \in KeyType /\ new.gen = issuer.rotations + 1 /\ new \notin issuer.keys /\ new \notin G
  BY <1>4 DEF KeyType
<1>6. keys \subseteq issuer.keys \cup {new} /\ new \in keys
  OBVIOUS
<1> HIDE DEF new, keys
<1>7. DOMAIN F = H /\ (\A k \in G : F[k] = issuer.gone[k]) /\ (\A k \in H \ G : F[k] = clock)
  OBVIOUS
<1> HIDE DEF G, F
<1>8. issuer'.keys = keys /\ issuer'.rotations = issuer.rotations + 1 /\ issuer'.gone = F /\ DOMAIN issuer'.gone = H
  BY <1>3, <1>7
<1>9. Generations'
  <2>1. \A k \in keys \cup H : k.gen <= issuer.rotations + 1
    <3>1. SUFFICES ASSUME NEW k \in keys \cup H PROVE k.gen <= issuer.rotations + 1
      OBVIOUS
    <3>2. k = new \/ k \in issuer.keys \cup G
      BY <1>6, <3>1
    <3>3. k = new => k.gen = issuer.rotations + 1
      BY <1>5
    <3>4. k \in issuer.keys \cup G => k.gen \in Nat /\ k.gen <= issuer.rotations
      BY <1>4 DEF KeyType
    <3> QED
      BY <1>4, <3>2, <3>3, <3>4
  <2>2. keys \cap H = {}
    BY <1>4, <1>5, <1>6
  <2> QED
    BY <1>8, <2>1, <2>2 DEF Generations
<1>10. ASSUME NEW k, NEW t \in Int, KeptUntil(k, t), t <= clock
       PROVE  KeptUntil(k, t)'
  <2>1. k \in issuer.keys \/ (k \in G /\ issuer.gone[k] >= t)
    BY <1>10 DEF KeptUntil, G
  <2>2. k \in keys \/ (k \in H /\ F[k] >= t)
    BY <1>4, <1>7, <1>10, <2>1
  <2> QED
    BY <1>8, <2>2 DEF KeptUntil
<1>11. CacheOnce'
  <2>1. cache.at \in Nat /\ FetchLimit \in Nat
    BY AuthAssumption DEF AuthInv, AuthShape
  <2>2. cache.filled => cache.at - FetchLimit \in Int /\ cache.at - FetchLimit <= clock
    BY <1>4, <2>1 DEF AuthInv, CacheOnce
  <2>3. ASSUME cache.filled, NEW k \in cache.keys PROVE KeptUntil(k, cache.at - FetchLimit)'
    <3>1. PICK t \in Int : t = cache.at - FetchLimit
      BY <2>2, <2>3
    <3>2. KeptUntil(k, t)'
      BY <1>10, <2>2, <2>3, <3>1 DEF AuthInv, CacheOnce
    <3> QED
      BY <1>2, <3>1, <3>2 DEF KeptUntil
  <2> QED
    BY <1>2, <2>3 DEF AuthInv, CacheOnce
<1>12. ASSUME NEW r \in Requests
       PROVE  reqs'[r] \in RequestType /\ reqs'[r].pc = reqs[r].pc /\ (RequestOk(reqs[r]))'
  <2>1. PICK o : o = reqs[r]
    OBVIOUS
  <2>2. o \in RequestType /\ RequestOk(o)
    BY <2>1, NotTheWriter
  <2> DEFINE b == o.kept /\ o.token.key \in keys
             v == [o EXCEPT !.kept = b]
  <2>3. reqs'[r] = v
    BY <1>1, <2>1 DEF keys, new
  <2>4. b \in BOOLEAN /\ (b => o.kept /\ o.token.key \in keys)
    OBVIOUS
  <2> HIDE DEF b
  <2>5. /\ v \in RequestType /\ v.pc = o.pc /\ v.auth = o.auth /\ v.key = o.key /\ v.token = o.token
        /\ v.got = o.got /\ v.left = o.left /\ v.kept = b /\ v.decision = o.decision /\ v.with = o.with
        /\ v.at = o.at /\ v.failed = o.failed
    BY <2>2, <2>4 DEF RequestType
  <2> HIDE DEF v
  <2>6. PICK q : q = v
    OBVIOUS
  <2>7. o.left \in Nat /\ FetchLimit \in Nat /\ CacheTtl \in Nat /\ o.at \in Nat /\ o.at <= clock
    BY <2>2, AuthAssumption DEF RequestType, RequestOk
  <2>8. q.pc \in Pending => WaitingOk(q)'
    <3>1. SUFFICES ASSUME q.pc \in Pending PROVE WaitingOk(q)'
      OBVIOUS
    <3>2. WaitingOk(o)
      BY <2>2, <2>5, <2>6, <3>1 DEF RequestOk
    <3>3. q.pc = "answer" => \A k \in q.got : KeptUntil(k, clock - (FetchLimit - q.left))'
      <4>1. SUFFICES ASSUME q.pc = "answer", NEW k \in q.got PROVE KeptUntil(k, clock - (FetchLimit - q.left))'
        OBVIOUS
      <4>2. PICK t \in Int : t = clock - (FetchLimit - o.left)
        BY <1>4, <2>7
      <4>3. t <= clock /\ KeptUntil(k, t)
        BY <1>4, <2>5, <2>6, <2>7, <3>2, <4>1, <4>2 DEF WaitingOk
      <4>4. KeptUntil(k, t)'
        BY <1>10, <4>3
      <4> QED
        BY <1>2, <2>5, <2>6, <4>2, <4>4 DEF KeptUntil
    <3>4. q.pc = "select" => CanSelect(q)'
      BY <1>2, <2>4, <2>5, <2>6, <3>2 DEF WaitingOk, CanSelect, Stale, Select
    <3> QED
      BY <1>2, <1>8, <2>4, <2>5, <2>6, <3>2, <3>3, <3>4 DEF WaitingOk
  <2>9. OwnCredential(q)' /\ (q.at <= clock)' /\ (q.pc = "new" => q.decision = "none")
    BY <1>2, <2>2, <2>5, <2>6 DEF RequestOk, OwnCredential
  <2>10. FetchNeeded(q)'
    BY <1>2, <2>2, <2>5, <2>6 DEF RequestOk, FetchNeeded, Select
  <2>11. ExpiresOk(q)'
    <3>1. SUFFICES ASSUME engine.mode = "jwt", engine.jwks, q.decision = "allow", q.with \in H
                   PROVE  q.at <= F[q.with] + CacheTtl + FetchLimit \/ q.failed
      BY <1>2, <1>8 DEF ExpiresOk
    <3>2. CASE q.with \in G
      <4>1. F[q.with] = issuer.gone[q.with]
        BY <1>7, <3>2
      <4> QED
        BY <2>2, <2>5, <2>6, <3>1, <3>2, <4>1 DEF RequestOk, ExpiresOk, G
    <3>3. CASE q.with \notin G
      <4>1. F[q.with] = clock
        BY <1>7, <3>1, <3>3
      <4> QED
        BY <1>4, <2>5, <2>6, <2>7, <4>1
    <3> QED
      BY <3>2, <3>3
  <2>12. AcceptedOk(q)'
    BY <1>2, <2>2, <2>4, <2>5, <2>6 DEF RequestOk, AcceptedOk, Repeated, Credential
  <2>13. RequestOk(q)'
    BY <2>8, <2>9, <2>10, <2>11, <2>12 DEF RequestOk
  <2>14. (RequestOk(reqs[r]))'
    BY <2>3, <2>6, <2>13 DEF RequestOk, WaitingOk, CanSelect, OwnCredential, FetchNeeded, ExpiresOk,
                             AcceptedOk, Credential
  <2> QED
    BY <2>1, <2>3, <2>5, <2>14
<1>13. AuthShape'
  <2>1. DOMAIN reqs' = Requests /\ reqs' = [r \in Requests |-> reqs'[r]]
    BY <1>1
  <2>2. reqs' \in [Requests -> RequestType]
    BY <1>12, <2>1
  <2>3. keys \subseteq KeyType /\ H \subseteq KeyType /\ \A k \in H : F[k] \in Nat
    BY <1>4, <1>5, <1>6, <1>7
  <2> QED
    BY <1>2, <1>4, <1>8, <2>2, <2>3 DEF AuthInv, AuthShape
<1>14. LockHeld'
  BY <1>2, <1>12 DEF AuthInv, LockHeld
<1> QED
  BY <1>9, <1>11, <1>12, <1>13, <1>14 DEF AuthInv

\* Time passes for the fetch in progress.
LEMMA AuthTimeStep ==
    ASSUME AuthInv, AuthTime
    PROVE  AuthInv'
<1>1. /\ UNCHANGED <<engine, issuer, cache, writer>> /\ clock' = clock + 1 /\ clock \in Nat
      /\ \A r \in Requests : reqs[r].pc \in {"fetch", "answer"} => reqs[r].left > 0
      /\ \A r \in Requests : reqs[r].pc # "select"
      /\ reqs' = [r \in Requests |-> IF reqs[r].pc \in {"fetch", "answer"} THEN [reqs[r] EXCEPT !.left = @ - 1]
                                     ELSE reqs[r]]
  BY DEF AuthTime, AuthInv, AuthShape
<1>2. \A k, t : KeptUntil(k, t)' <=> KeptUntil(k, t)
  BY <1>1 DEF KeptUntil
<1>3. ASSUME NEW r \in Requests
      PROVE  reqs'[r] \in RequestType /\ reqs'[r].pc = reqs[r].pc /\ (RequestOk(reqs[r]))'
  <2>1. PICK o : o = reqs[r]
    OBVIOUS
  <2>2. o \in RequestType /\ RequestOk(o) /\ o.pc # "select" /\ o.left \in Nat /\ o.at \in Nat
        /\ (o.pc \in {"fetch", "answer"} => o.left > 0)
    BY <1>1, <2>1, NotTheWriter DEF RequestType
  <2>3. FetchLimit \in Nat /\ CacheTtl \in Nat /\ cache.at \in Nat
    BY AuthAssumption DEF AuthInv, AuthShape
  <2>4. PICK q \in RequestType :
          /\ reqs'[r] = q /\ q.pc = o.pc /\ q.auth = o.auth /\ q.key = o.key /\ q.token = o.token
          /\ q.got = o.got /\ q.kept = o.kept /\ q.decision = o.decision /\ q.with = o.with
          /\ q.at = o.at /\ q.failed = o.failed
          /\ (o.pc \in {"fetch", "answer"} => q.left = o.left - 1)
    <3> DEFINE n == o.left - 1
               v == [o EXCEPT !.left = n]
    <3>1. CASE o.pc \in {"fetch", "answer"}
      <4>1. reqs'[r] = v
        BY <1>1, <2>1, <3>1
      <4>2. n \in Nat
        BY <2>2, <3>1
      <4> HIDE DEF n
      <4>3. /\ v \in RequestType /\ v.pc = o.pc /\ v.auth = o.auth /\ v.key = o.key /\ v.token = o.token
            /\ v.got = o.got /\ v.kept = o.kept /\ v.decision = o.decision /\ v.with = o.with
            /\ v.at = o.at /\ v.failed = o.failed /\ v.left = n
        BY <2>2, <4>2 DEF RequestType
      <4> HIDE DEF v
      <4> QED
        BY <4>1, <4>3 DEF n
    <3>2. CASE o.pc \notin {"fetch", "answer"}
      BY <1>1, <2>1, <2>2, <3>2
    <3> QED
      BY <3>1, <3>2
  <2>5. q.left \in Nat
    BY <2>4 DEF RequestType
  <2>6. o.pc \in {"fetch", "answer"} => clock' - (FetchLimit - q.left) = clock - (FetchLimit - o.left)
    BY <1>1, <2>2, <2>3, <2>4, <2>5
  <2>7. q.pc \in Pending => WaitingOk(q)'
    <3>1. SUFFICES ASSUME q.pc \in Pending PROVE WaitingOk(q)'
      OBVIOUS
    <3>2. WaitingOk(o)
      BY <2>2, <2>4, <3>1 DEF RequestOk
    <3>3. q.pc = "answer" => \A k \in q.got : KeptUntil(k, clock' - (FetchLimit - q.left))
      BY <2>4, <2>6, <3>2 DEF WaitingOk
    <3>4. q.pc \in {"fetch", "answer"} => q.left <= FetchLimit
      BY <2>2, <2>3, <2>4, <2>5, <3>2 DEF WaitingOk
    <3>5. q.pc = "answer" => \A k \in q.got : KeptUntil(k, clock - (FetchLimit - q.left))'
      BY <1>1, <3>3 DEF KeptUntil
    <3> QED
      BY <1>1, <2>2, <2>4, <3>2, <3>4, <3>5 DEF WaitingOk
  <2>8. OwnCredential(q)' /\ ExpiresOk(q)' /\ (q.pc = "new" => q.decision = "none")
    BY <1>1, <2>2, <2>4 DEF RequestOk, OwnCredential, ExpiresOk
  <2>9. (q.at <= clock)'
    BY <1>1, <2>2, <2>4 DEF RequestOk
  <2>10. FetchNeeded(q)'
    <3>1. SUFFICES ASSUME q.pc \in {"fetch", "answer"}, cache.filled, Select(cache.keys, q.token.kid) # {}
                   PROVE  clock' - (FetchLimit - q.left) - cache.at > CacheTtl
      BY <1>1 DEF FetchNeeded
    <3>2. clock - (FetchLimit - o.left) - cache.at > CacheTtl
      BY <2>2, <2>4, <3>1 DEF RequestOk, FetchNeeded
    <3> QED
      BY <2>4, <2>6, <3>1, <3>2
  <2>11. AcceptedOk(q)'
    BY <1>1, <2>2, <2>4 DEF RequestOk, AcceptedOk, Repeated, Credential
  <2>12. RequestOk(q)'
    BY <2>7, <2>8, <2>9, <2>10, <2>11 DEF RequestOk
  <2>13. (RequestOk(reqs[r]))'
    BY <2>4, <2>12 DEF RequestOk, WaitingOk, CanSelect, OwnCredential, FetchNeeded, ExpiresOk,
                       AcceptedOk, Credential
  <2> QED
    BY <2>1, <2>4, <2>13
<1>4. AuthShape'
  <2>1. DOMAIN reqs' = Requests /\ reqs' = [r \in Requests |-> reqs'[r]]
    BY <1>1
  <2>2. reqs' \in [Requests -> RequestType]
    BY <1>3, <2>1
  <2> QED
    BY <1>1, <2>2 DEF AuthInv, AuthShape
<1>5. Generations' /\ LockHeld'
  BY <1>1, <1>3 DEF AuthInv, Generations, LockHeld
<1>6. CacheOnce'
  <2>1. cache.at \in Nat
    BY DEF AuthInv, AuthShape
  <2> QED
    BY <1>1, <1>2, <2>1 DEF AuthInv, CacheOnce, KeptUntil
<1> QED
  BY <1>3, <1>4, <1>5, <1>6 DEF AuthInv

\* The first state.
LEMMA AuthStart == AuthInit => AuthInv
<1>1. SUFFICES ASSUME AuthInit PROVE AuthInv
  OBVIOUS
<1>2. /\ issuer.keys = FirstKeys /\ issuer.rotations = 0 /\ DOMAIN issuer.gone = {}
      /\ cache = [filled |-> FALSE, at |-> 0, keys |-> {}, failed |-> FALSE]
      /\ clock = 0 /\ writer = Nobody /\ engine \in Engines
  BY <1>1 DEF AuthInit
<1>3. FirstKeys \subseteq KeyType /\ \A k \in FirstKeys : k.gen = 0
  BY AuthAssumption DEF KeyType
<1>4. NewRequest \in RequestType /\ NewRequest.pc = "new" /\ NewRequest.decision = "none" /\ NewRequest.at = 0
  BY DEF NewRequest, NoToken, RequestType, TokenType, Pending
<1>5. reqs \in [Requests -> RequestType] /\ \A r \in Requests : reqs[r] = NewRequest
  BY <1>1, <1>4 DEF AuthInit
<1>6. AuthShape
  BY <1>2, <1>3, <1>5 DEF AuthShape
<1>7. Generations /\ CacheOnce
  BY <1>2, <1>3 DEF Generations, CacheOnce
<1>8. LockHeld
  <2>1. \A r \in Requests : r # Nobody
    BY AuthAssumption
  <2> QED
    BY <1>2, <1>4, <1>5, <2>1 DEF LockHeld, Holding
<1>9. RequestOk(NewRequest)
  <2> HIDE DEF NewRequest
  <2> QED
    BY <1>2, <1>4 DEF RequestOk, Pending, OwnCredential, FetchNeeded, ExpiresOk, AcceptedOk
<1> QED
  BY <1>5, <1>6, <1>7, <1>8, <1>9 DEF AuthInv

\* Every request that passes the gate carries what the issuer stands behind, and the rest of
\* CredentialsChecked, for any engines, keys, headers, tokens and any number of requests.
THEOREM CredentialsAreChecked == AuthSpec => []CredentialsChecked
<1>1. AuthInv /\ [AuthNext]_authVars => AuthInv'
  <2>1. SUFFICES ASSUME AuthInv, [AuthNext]_authVars PROVE AuthInv'
    OBVIOUS
  <2>2. CASE Rotate
    BY <2>1, <2>2, RotateStep
  <2>3. CASE AuthTime
    BY <2>1, <2>3, AuthTimeStep
  <2>4. ASSUME NEW r \in Requests, Authorize(r) \/ IssuerAnswers(r) \/ Gate(r) PROVE AuthInv'
    BY <2>1, <2>4, AuthorizeStep, AnswerStep, LookupStep, LockStep, RefillStep, SelectedStep, FetchFailsStep
       DEF Gate
  <2>5. CASE UNCHANGED authVars
    <3>1. UNCHANGED <<engine, clock, issuer, cache, writer, reqs>>
      BY <2>5 DEF authVars
    <3>2. AuthShape' /\ Generations' /\ CacheOnce' /\ LockHeld'
      BY <2>1, <3>1 DEF AuthInv, AuthShape, Generations, CacheOnce, KeptUntil, LockHeld
    <3>3. ASSUME NEW r \in Requests PROVE (RequestOk(reqs[r]))'
      <4>1. PICK q : q = reqs[r]
        OBVIOUS
      <4>2. RequestOk(q)'
        BY <2>1, <3>1, <4>1, OtherRequest DEF AuthInv
      <4> QED
        BY <3>1, <4>1, <4>2 DEF RequestOk, WaitingOk, CanSelect, OwnCredential, FetchNeeded, ExpiresOk,
                                AcceptedOk, Credential
    <3> QED
      BY <3>2, <3>3 DEF AuthInv
  <2> QED
    BY <2>1, <2>2, <2>3, <2>4, <2>5 DEF AuthNext
<1> QED
  BY <1>1, AuthStart, AuthInvGives, PTL DEF AuthSpec

----------------------------------------------------------------------------
(* The client's address. *)

\* What was read past a header and what was not read are what follows the header.
LEMMA RestAndUnread ==
    ASSUME NEW T, NEW s \in Seq(T), NEW t \in Seq(T), NEW u \in 0..Len(s)
    PROVE  SubSeq(s, u + 1, Len(s)) \o t = SubSeq(s \o t, u + 1, Len(s \o t))
<1> DEFINE a == SubSeq(s, u + 1, Len(s))
           w == s \o t
           b == SubSeq(w, u + 1, Len(w))
<1>1. w \in Seq(T) /\ Len(w) = Len(s) + Len(t) /\ Len(s) \in Nat /\ Len(t) \in Nat
      /\ \A i \in 1..Len(s) + Len(t) : w[i] = IF i <= Len(s) THEN s[i] ELSE t[i - Len(s)]
  BY ConcatProperties
<1> HIDE DEF w
<1>2. a \in Seq(T) /\ Len(a) = Len(s) - u /\ \A i \in 1..Len(s) - u : a[i] = s[u + i]
  OBVIOUS
<1>3. b \in Seq(T) /\ Len(b) = Len(w) - u /\ \A i \in 1..Len(w) - u : b[i] = w[u + i]
  BY <1>1
<1> HIDE DEF a, b
<1>4. a \o t \in Seq(T) /\ Len(a \o t) = Len(a) + Len(t)
      /\ \A i \in 1..Len(a) + Len(t) : (a \o t)[i] = IF i <= Len(a) THEN a[i] ELSE t[i - Len(a)]
  BY <1>2, ConcatProperties
<1>5. Len(a \o t) = Len(b)
  BY <1>1, <1>2, <1>3, <1>4
<1>6. ASSUME NEW i \in 1..Len(b) PROVE (a \o t)[i] = b[i]
  <2>1. i \in Nat /\ i >= 1 /\ i <= Len(s) - u + Len(t) /\ u \in Nat
    BY <1>1, <1>3
  <2>2. b[i] = w[u + i] /\ w[u + i] = IF u + i <= Len(s) THEN s[u + i] ELSE t[u + i - Len(s)]
    BY <1>1, <1>3, <2>1
  <2>3. CASE i <= Len(s) - u
    <3>1. (a \o t)[i] = a[i] /\ a[i] = s[u + i]
      BY <1>1, <1>2, <1>4, <2>1, <2>3
    <3> QED
      BY <1>1, <2>1, <2>2, <2>3, <3>1
  <2>4. CASE ~(i <= Len(s) - u)
    <3>1. (a \o t)[i] = t[i - (Len(s) - u)] /\ i - (Len(s) - u) = u + i - Len(s)
      BY <1>1, <1>2, <1>4, <2>1, <2>4
    <3> QED
      BY <1>1, <2>1, <2>2, <2>4, <3>1
  <2> QED
    BY <2>3, <2>4
<1>7. a \o t = b
  BY <1>3, <1>4, <1>5, <1>6, SeqEqual
<1> QED
  BY <1>7 DEF a, b, w

\* A read takes the front of what is unread.
LEMMA ReadAndUnread ==
    ASSUME NEW T, NEW s \in Seq(T), NEW t \in Seq(T), NEW n \in 1..Len(t)
    PROVE  /\ s \o SubSeq(t, 1, n) \in Seq(T) /\ SubSeq(t, n + 1, Len(t)) \in Seq(T)
           /\ (s \o SubSeq(t, 1, n)) \o SubSeq(t, n + 1, Len(t)) = s \o t
<1>1. Len(t) \in Nat
  OBVIOUS
<1>2. SubSeq(t, 1, n) \in Seq(T) /\ SubSeq(t, n + 1, Len(t)) \in Seq(T)
  OBVIOUS
<1>3. SubSeq(t, 1, n) \o SubSeq(t, n + 1, Len(t)) = SubSeq(t, 1, Len(t))
  <2>1. 1 \in 1..Len(t) + 1 /\ n \in (1 - 1)..Len(t) /\ Len(t) \in n..Len(t)
    BY <1>1
  <2> QED
    BY <2>1, ConcatAdjacentSubSeq
<1>4. SubSeq(t, 1, Len(t)) = t
  BY SubSeqFull
<1>5. PICK a \in Seq(T), b \in Seq(T) : a = SubSeq(t, 1, n) /\ b = SubSeq(t, n + 1, Len(t))
  BY <1>2
<1>6. a \o b = t
  BY <1>3, <1>4, <1>5
<1>7. s \o a \in Seq(T)
  OBVIOUS
<1>8. (s \o a) \o b = s \o (a \o b)
  OBVIOUS
<1> QED
  BY <1>2, <1>5, <1>6, <1>7, <1>8

\* The first line end of a buffer.
LEMMA LineEndIs ==
    ASSUME NEW T, NEW buf \in Seq(T)
    PROVE  /\ LineEnd(buf) = 0 => \A i \in 1..Len(buf) : buf[i].is # "CRLF"
           /\ LineEnd(buf) # 0 => /\ LineEnd(buf) \in 1..Len(buf) /\ buf[LineEnd(buf)].is = "CRLF"
                                  /\ \A i \in 1..(LineEnd(buf) - 1) : buf[i].is # "CRLF"
<1> DEFINE I == {i \in 1..Len(buf) : buf[i].is = "CRLF"}
<1>1. LineEnd(buf) = IF I # {} THEN Min(I) ELSE 0
  BY DEF LineEnd, SelectInSeq
<1>2. CASE I = {}
  BY <1>1, <1>2
<1>3. CASE I # {}
  <2>1. I \subseteq Nat
    OBVIOUS
  <2>2. \E x \in I : \A y \in I : x <= y
    <3> HIDE DEF I
    <3> QED
      BY <1>3, <2>1, LeastElement
  <2>3. Min(I) \in I /\ \A y \in I : Min(I) <= y
    <3> HIDE DEF I
    <3> QED
      BY <2>2 DEF Min
  <2>4. PICK e : e = Min(I)
    OBVIOUS
  <2>5. e \in I /\ (\A y \in I : e <= y) /\ e # 0 /\ e \in 1..Len(buf) /\ buf[e].is = "CRLF"
    BY <2>3, <2>4
  <2>6. \A i \in 1..(e - 1) : buf[i].is # "CRLF"
    <3>1. SUFFICES ASSUME NEW i \in 1..(e - 1), buf[i].is = "CRLF" PROVE FALSE
      OBVIOUS
    <3>2. Len(buf) \in Nat /\ e \in Nat /\ e <= Len(buf)
      BY <2>5
    <3>3. i \in 1..Len(buf) /\ i < e
      BY <3>2
    <3>4. i \in I
      BY <3>1, <3>3
    <3> QED
      BY <2>5, <3>3, <3>4, <3>2
  <2>7. LineEnd(buf) = e
    BY <1>1, <1>3, <2>4
  <2> QED
    BY <2>5, <2>6, <2>7
<1> QED
  BY <1>2, <1>3

\* What follows a line does not move its end.
LEMMA LineEndGrows ==
    ASSUME NEW T, NEW buf \in Seq(T), NEW s \in Seq(T)
    PROVE  /\ LineEnd(buf) # 0 => LineEnd(buf \o s) = LineEnd(buf)
           /\ LineEnd(buf) = 0 => LineEnd(buf \o s) = 0 \/ LineEnd(buf \o s) > Len(buf)
           /\ LineEnd(buf) \in 0..Len(buf)
<1>1. PICK w \in Seq(T) : w = buf \o s
  BY ConcatProperties
<1>2. Len(w) = Len(buf) + Len(s) /\ Len(buf) \in Nat /\ Len(s) \in Nat
      /\ \A i \in 1..Len(buf) : w[i] = buf[i]
  BY <1>1
<1>3. PICK e, f : e = LineEnd(buf) /\ f = LineEnd(w)
  OBVIOUS
<1>4. /\ e = 0 => \A i \in 1..Len(buf) : buf[i].is # "CRLF"
      /\ e # 0 => e \in 1..Len(buf) /\ buf[e].is = "CRLF" /\ \A i \in 1..(e - 1) : buf[i].is # "CRLF"
  BY <1>3, LineEndIs
<1>5. /\ f = 0 => \A i \in 1..Len(w) : w[i].is # "CRLF"
      /\ f # 0 => f \in 1..Len(w) /\ w[f].is = "CRLF" /\ \A i \in 1..(f - 1) : w[i].is # "CRLF"
  BY <1>3, LineEndIs
<1>6. ASSUME e # 0 PROVE f = e
  <2>1. e \in 1..Len(w) /\ w[e].is = "CRLF" /\ e \in 1..Len(buf) /\ e \in Nat
    BY <1>2, <1>4, <1>6
  <2>2. f # 0 /\ f \in Nat
    BY <1>5, <2>1
  <2>3. ~(e < f)
    <3>1. e < f => e \in 1..(f - 1)
      BY <2>1, <2>2
    <3> QED
      BY <1>5, <2>1, <2>2, <3>1
  <2>4. ~(f < e)
    <3>1. SUFFICES ASSUME f < e PROVE FALSE
      OBVIOUS
    <3>2. f \in 1..(e - 1) /\ f \in 1..Len(buf)
      BY <1>2, <1>5, <2>1, <2>2, <3>1
    <3> QED
      BY <1>2, <1>4, <1>5, <1>6, <2>2, <3>2
  <2> QED
    BY <2>1, <2>2, <2>3, <2>4
<1>7. ASSUME e = 0, f # 0 PROVE f > Len(buf)
  <2>1. f \in 1..Len(w) /\ w[f].is = "CRLF"
    BY <1>5, <1>7
  <2>2. f \notin 1..Len(buf)
    BY <1>2, <1>4, <1>7, <2>1
  <2> QED
    BY <1>2, <2>1, <2>2
<1> QED
  BY <1>1, <1>2, <1>3, <1>4, <1>6, <1>7

\* What has been read decides like the whole: with more bytes behind, a header that was found stays the
\* header, and takes as many bytes unless it is invalid.
LEMMA ParseGrows ==
    ASSUME NEW T, NEW buf \in Seq(T), NEW s \in Seq(T), Parse(buf).is # "need",
           Len(buf) > 1 /\ buf[1].is = "SIG" => buf[2].len \in Nat
    PROVE  /\ Parse(buf \o s).is = Parse(buf).is /\ Parse(buf \o s).header = Parse(buf).header
           /\ Parse(buf).header # Invalid => /\ Parse(buf \o s).used = Parse(buf).used
                                             /\ Parse(buf).used \in 0..Len(buf)
<1>1. PICK w \in Seq(T) : w = buf \o s
  BY ConcatProperties
<1>2. Len(w) = Len(buf) + Len(s) /\ Len(buf) \in Nat /\ Len(s) \in Nat
      /\ \A i \in 1..Len(buf) : w[i] = buf[i]
  BY <1>1
<1>3. MaxV1 \in Nat /\ MaxV2 \in Nat
  BY AddressAssumption
<1>4. buf # <<>>
  BY DEF Parse, Need
<1>5. Len(buf) >= 1 /\ w # <<>> /\ w[1] = buf[1]
  <2>1. Len(buf) # 0
    BY <1>4
  <2> QED
    BY <1>2, <2>1
<1>6. CASE buf[1].is = "SIG"
  <2>1. Len(buf) >= 2 /\ ~(Len(buf) < 2) /\ ~(Len(w) < 2)
    BY <1>2, <1>4, <1>6 DEF Parse, Need
  <2>2. w[2] = buf[2] /\ buf[2].len \in Nat
    BY <1>2, <1>6, <2>1
  <2>3. Parse(buf) = ParseV2(buf) /\ Parse(w) = ParseV2(w)
    BY <1>4, <1>5, <1>6, <2>1 DEF Parse
  <2>4. CASE buf[2].len > MaxV2
    BY <2>2, <2>3, <2>4, <1>1 DEF ParseV2, Done
  <2>5. CASE ~(buf[2].len > MaxV2)
    <3>1. ~(Len(buf) < 2 + buf[2].len)
      BY <2>3, <2>5 DEF ParseV2, Need
    <3>2. ~(Len(w) < 2 + buf[2].len) /\ 2 + buf[2].len \in 0..Len(buf)
      BY <1>2, <2>2, <3>1
    <3>3. buf[2].len > 0 => w[3] = buf[3]
      BY <1>2, <2>2, <3>1
    <3> DEFINE h == buf[2]
               x == CASE h.is = "LOCAL" -> Local
                      [] h.is = "PROXY" /\ h.family = "inet" /\ h.len > 0 -> Proxy(buf[3].of)
                      [] h.is = "PROXY" /\ h.family \in {"unspec", "unix"} -> Local
                      [] OTHER -> Invalid
    <3>4. ParseV2(buf) = Done(x, 2 + h.len)
      BY <2>5, <3>1 DEF ParseV2
    <3>5. ParseV2(w) = Done(CASE h.is = "LOCAL" -> Local
                              [] h.is = "PROXY" /\ h.family = "inet" /\ h.len > 0 -> Proxy(w[3].of)
                              [] h.is = "PROXY" /\ h.family \in {"unspec", "unix"} -> Local
                              [] OTHER -> Invalid, 2 + h.len)
      BY <2>2, <2>5, <3>2 DEF ParseV2
    <3>6. ParseV2(w) = Done(x, 2 + h.len)
      BY <3>3, <3>5
    <3> HIDE DEF x
    <3> QED
      BY <1>1, <2>3, <3>2, <3>4, <3>6 DEF Done
  <2> QED
    BY <2>4, <2>5
<1>7. CASE buf[1].is = "P"
  <2>1. ~(Len(buf) < 2) /\ ~(Len(w) < 2) /\ w[2] = buf[2]
    <3>1. ~(Len(buf) < 2)
      BY <1>4, <1>7 DEF Parse, Need
    <3> QED
      BY <1>2, <3>1
  <2>2. CASE buf[2].is # "ROXY"
    <3>1. Parse(buf) = NotProxy /\ Parse(w) = NotProxy
      BY <1>4, <1>5, <1>7, <2>1, <2>2 DEF Parse
    <3> QED
      BY <1>1, <1>2, <3>1 DEF NotProxy
  <2>3. CASE buf[2].is = "ROXY"
    <3>1. Parse(buf) = ParseV1(buf) /\ Parse(w) = ParseV1(w)
      BY <1>4, <1>5, <1>7, <2>1, <2>3 DEF Parse
    <3>2. PICK e, f : e = LineEnd(buf) /\ f = LineEnd(w)
      OBVIOUS
    <3>3. /\ e # 0 => f = e
          /\ e = 0 => f = 0 \/ f > Len(buf)
          /\ e \in 0..Len(buf)
      BY <1>1, <3>2, LineEndGrows
    <3>4. CASE e = 0
      <4>1. Len(buf) >= MaxV1
        BY <3>1, <3>2, <3>4 DEF ParseV1, Need
      <4>2. ParseV1(buf) = Done(Invalid, Len(buf))
        BY <3>2, <3>4, <4>1 DEF ParseV1
      <4>3. f = 0 => ParseV1(w) = Done(Invalid, Len(w))
        BY <1>2, <1>3, <3>2, <4>1 DEF ParseV1
      <4>4. f # 0 => f > MaxV1
        <5>1. f \in 0..Len(w)
          BY <3>2, LineEndGrows
        <5> QED
          BY <1>2, <1>3, <3>3, <3>4, <4>1, <5>1
      <4>5. f # 0 => ParseV1(w) = Done(Invalid, f)
        BY <3>2, <4>4 DEF ParseV1
      <4> QED
        BY <1>1, <3>1, <4>2, <4>3, <4>5 DEF Done
    <3>5. CASE e # 0
      <4>1. e >= 3 /\ f = e
        <5>1. buf[e].is = "CRLF" /\ e \in 1..Len(buf)
          BY <3>2, <3>5, LineEndIs
        <5>2. e # 1 /\ e # 2
          BY <1>7, <2>3, <5>1
        <5> QED
          BY <3>3, <3>5, <5>1, <5>2
      <4>2. w[3] = buf[3]
        BY <1>2, <3>3, <4>1
      <4> DEFINE line == buf[3]
                 ipv4 == line.of.fam = "v4"
                 x == CASE line.is = "UNKNOWN" -> Local
                        [] line.is \in {"TCP4", "TCP6"} /\ e = 4 /\ line.of # Nowhere /\ ipv4 = (line.is = "TCP4") ->
                             Proxy(line.of)
                        [] OTHER -> Invalid
      <4>3. CASE e > MaxV1
        BY <1>1, <3>1, <3>2, <3>5, <4>1, <4>3 DEF ParseV1, Done
      <4>4. CASE ~(e > MaxV1)
        <5>1. ParseV1(buf) = Done(x, e)
          BY <3>2, <3>5, <4>4 DEF ParseV1
        <5>2. ParseV1(w) = Done(x, e)
          BY <3>2, <3>5, <4>1, <4>2, <4>4 DEF ParseV1
        <5> HIDE DEF x
        <5> QED
          BY <1>1, <3>1, <3>3, <5>1, <5>2 DEF Done
      <4> QED
        BY <4>3, <4>4
    <3> QED
      BY <3>4, <3>5
  <2> QED
    BY <2>2, <2>3
<1>8. CASE buf[1].is # "SIG" /\ buf[1].is # "P"
  <2>1. Parse(buf) = NotProxy /\ Parse(w) = NotProxy
    BY <1>4, <1>5, <1>8 DEF Parse
  <2> QED
    BY <1>1, <1>2, <2>1 DEF NotProxy
<1> QED
  BY <1>6, <1>7, <1>8

\* A header that a balancer writes is read as the address it names.
LEMMA BalancerIsRead ==
    ASSUME NEW a \in Addresses, a.fam # "junk", NEW header \in BalancerHeaders(a)
    PROVE  /\ Parse(header) = Done(Proxy(a), Len(header))
           /\ Len(header) > 1 /\ header[1].is = "SIG" => header[2].len \in Nat
<1>1. a # Nowhere
  BY DEF Nowhere
<1>2. MaxV1 \in Nat /\ MaxV1 >= 4 /\ MaxV2 \in Nat \ {0}
  BY AddressAssumption
<1>3. CASE header = <<Token("P"), Token("ROXY"), [is |-> IF a.fam = "v4" THEN "TCP4" ELSE "TCP6", of |-> a], Token("CRLF")>>
  <2>1. /\ Len(header) = 4 /\ header # <<>> /\ header[1].is = "P" /\ header[2].is = "ROXY"
        /\ header[3].is = (IF a.fam = "v4" THEN "TCP4" ELSE "TCP6") /\ header[3].of = a
        /\ header[4].is = "CRLF"
    BY <1>3 DEF Token
  <2>2. header \in Seq({header[i] : i \in 1..4})
    BY <1>3
  <2>3. LineEnd(header) = 4
    <3>1. PICK e : e = LineEnd(header)
      OBVIOUS
    <3>2. /\ e = 0 => \A i \in 1..Len(header) : header[i].is # "CRLF"
          /\ e # 0 => e \in 1..Len(header) /\ header[e].is = "CRLF"
      BY <2>2, <3>1, LineEndIs
    <3>3. e # 0 /\ e \in {1, 2, 3, 4}
      BY <2>1, <3>2
    <3>4. e # 1 /\ e # 2 /\ e # 3
      BY <2>1, <3>2, <3>3
    <3> QED
      BY <3>1, <3>3, <3>4
  <2>4. Parse(header) = ParseV1(header)
    BY <2>1 DEF Parse
  <2>5. ParseV1(header) = Done(Proxy(a), 4)
    BY <1>1, <1>2, <2>1, <2>3 DEF ParseV1
  <2> QED
    BY <2>1, <2>4, <2>5
<1>4. CASE header = <<Token("SIG"), [is |-> "PROXY", of |-> Nowhere, family |-> "inet", len |-> 1], [is |-> "addresses", of |-> a]>>
  <2>1. /\ Len(header) = 3 /\ header # <<>> /\ header[1].is = "SIG"
        /\ header[2].is = "PROXY" /\ header[2].family = "inet" /\ header[2].len = 1 /\ header[3].of = a
    BY <1>4 DEF Token
  <2>2. Parse(header) = ParseV2(header)
    BY <2>1 DEF Parse
  <2>3. ParseV2(header) = Done(Proxy(a), 3)
    BY <1>2, <2>1 DEF ParseV2
  <2> QED
    BY <2>1, <2>2, <2>3
<1> QED
  BY <1>3, <1>4 DEF BalancerHeaders

\* The tokens that a connection may begin with.
OpeningTokens == UNION {{o[i] : i \in DOMAIN o} : o \in Openings}
PlainTokens == {Token("x"), Token("P"), Token("ROXY"), Token("CRLF"), Token("SIG"),
                [is |-> "PROXY", of |-> Nowhere, family |-> "inet", len |-> 1]}
NamingTokens == [is : {"TCP4", "TCP6", "addresses"}, of : {h.at : h \in Hosts}]
FirstTokens == OpeningTokens \cup PlainTokens \cup NamingTokens

AddressShape ==
    /\ server \in Servers /\ ProxyProtocolOk(server) /\ ForwardersOk(server)
    /\ stage \in {"start", "way", "header", "request", "answered", "refused", "closed"}
    /\ path \in Seq(Hosts)
    /\ wire = [sent |-> wire.sent, bytes |-> wire.bytes,
               xff |-> [lines |-> wire.xff.lines, entries |-> wire.xff.entries]]
    /\ wire.sent \in Seq(FirstTokens) /\ wire.bytes \in Seq(FirstTokens)
    /\ wire.xff.entries \in Seq(Addresses) /\ read \in Seq(FirstTokens)
    /\ result = [outcome |-> result.outcome, client |-> result.client, ip |-> result.ip,
                 how |-> result.how, verdict |-> result.verdict]

\* The last entries of X-Forwarded-For are of the proxies that end the path: each appended the
\* address of the host in front of it.
Travelled ==
    stage # "start" =>
        /\ path # <<>> /\ path[1].role = "client"
        /\ Peer.role = "proxy" => wire.xff.lines = 1
        /\ \A j \in 1..(Len(path) - 1) :
             (\A i \in (Len(path) - j + 1)..Len(path) : path[i].role = "proxy") =>
                 /\ Len(wire.xff.entries) >= j
                 /\ wire.xff.entries[Len(wire.xff.entries) - j + 1] = path[Len(path) - j].at

\* A signature is followed by its fixed part, and a balancer's bytes begin with its header.
Framed(b) == (Len(b) > 1 /\ b[1].is = "SIG") => b[2].len \in Nat
FirstBytes(b) ==
    /\ Framed(b)
    /\ Peer.role = "balancer" =>
         /\ Len(path) > 1
         /\ \E header \in BalancerHeaders(path[Len(path) - 1].at), rest \in Seq(FirstTokens) : b = header \o rest
SentAs ==
    /\ stage \in {"start", "way"} => read = <<>>
    /\ stage = "way" => FirstBytes(wire.bytes)
    /\ stage \notin {"start", "way"} => FirstBytes(wire.sent)

\* What was sent is what was read and what was not.
Unread == stage = "header" => server.pp /\ wire.sent = read \o wire.bytes

\* Without the PROXY protocol the peer is the client; the answer is for the address resolved.
Accepted == (stage \in {"request", "answered"} /\ ~server.pp) => result.client = Peer.at
Resolved ==
    stage = "answered" =>
        /\ result.ip = Resolve(wire.xff, result.client, Peer.at).ip
        /\ result.verdict = IF Allowed(result.ip) THEN "allowed" ELSE "denied"

AddressInv == AddressShape /\ Travelled /\ SentAs /\ Unread /\ Accepted /\ Resolved /\ ReadsDoNotMatter

\* A payload is made of tokens and begins with no signature.
LEMMA PayloadFrames ==
    ASSUME NEW p \in Payload
    PROVE  p \in Seq(FirstTokens) /\ p # <<>> /\ p[1].is # "SIG" /\ Len(p) \in Nat
<1>1. Token("x") \in FirstTokens /\ Token("P") \in FirstTokens
  BY Zenon DEF FirstTokens, PlainTokens
<1>2. p = <<Token("x")>> \/ p = <<Token("P"), Token("x")>>
  BY DEF Payload
<1>3. p \in Seq(FirstTokens) /\ Len(p) \in Nat
  <2>1. \A t \in FirstTokens : <<t>> \in Seq(FirstTokens)
    OBVIOUS
  <2>2. \A t, u \in FirstTokens : <<t, u>> \in Seq(FirstTokens)
    OBVIOUS
  <2>3. p \in Seq(FirstTokens)
    BY <1>1, <1>2, <2>1, <2>2, Zenon
  <2> QED
    BY <2>3
<1>4. p # <<>> /\ (p[1] = Token("x") \/ p[1] = Token("P"))
  BY <1>2
<1> QED
  BY <1>3, <1>4 DEF Token

\* So are the first bytes of a client.
LEMMA OpeningFrames ==
    ASSUME NEW o \in Openings, NEW p \in Payload
    PROVE  o \o p \in Seq(FirstTokens) /\ Framed(o \o p)
<1>1. /\ o \in Seq({o[i] : i \in DOMAIN o})
      /\ (o # <<>> /\ o[1].is = "SIG") => Len(o) > 1 /\ o[2].len \in Nat
  BY OpeningsAssumption DEF IsOpening
<1>2. o \in Seq(FirstTokens)
  <2>1. {o[i] : i \in DOMAIN o} \subseteq FirstTokens
    BY Zenon DEF FirstTokens, OpeningTokens
  <2> QED
    BY <1>1, <2>1, SeqMonotonic
<1>3. p \in Seq(FirstTokens) /\ p # <<>> /\ p[1].is # "SIG"
  BY PayloadFrames
<1> DEFINE w == o \o p
<1>4. w \in Seq(FirstTokens) /\ Len(w) = Len(o) + Len(p) /\ Len(o) \in Nat /\ Len(p) \in Nat
      /\ (\A i \in 1..Len(o) : w[i] = o[i]) /\ (Len(o) = 0 => w[1] = p[1])
  <2>1. Len(p) >= 1
    BY <1>3
  <2> QED
    BY <1>2, <1>3, <2>1
<1> HIDE DEF w
<1>5. Framed(w)
  <2>1. SUFFICES ASSUME w[1].is = "SIG" PROVE w[2].len \in Nat
    BY DEF Framed
  <2>2. Len(o) # 0
    BY <1>3, <1>4, <2>1
  <2>3. o # <<>> /\ 1 \in 1..Len(o) /\ w[1] = o[1]
    BY <1>2, <1>4, <2>2
  <2>4. Len(o) > 1 /\ o[2].len \in Nat
    BY <1>1, <2>1, <2>3
  <2>5. 2 \in 1..Len(o)
    BY <1>4, <2>4
  <2> QED
    BY <1>4, <2>4, <2>5
<1> QED
  BY <1>4, <1>5 DEF w

\* And those of a balancer.
LEMMA HeaderFrames ==
    ASSUME NEW h \in Hosts, NEW header \in BalancerHeaders(h.at), NEW b \in Seq(FirstTokens)
    PROVE  header \in Seq(FirstTokens) /\ header \o b \in Seq(FirstTokens) /\ Framed(header \o b)
<1>1. h.at \in Addresses /\ h.at.fam # "junk"
  BY AddressAssumption
<1>2. header \in Seq(FirstTokens) /\ Len(header) > 1
  <2>1. /\ Token("P") \in FirstTokens /\ Token("ROXY") \in FirstTokens /\ Token("CRLF") \in FirstTokens
        /\ Token("SIG") \in FirstTokens
    BY Zenon DEF FirstTokens, PlainTokens
  <2>2. /\ [is |-> IF h.at.fam = "v4" THEN "TCP4" ELSE "TCP6", of |-> h.at] \in FirstTokens
        /\ [is |-> "addresses", of |-> h.at] \in FirstTokens
        /\ [is |-> "PROXY", of |-> Nowhere, family |-> "inet", len |-> 1] \in FirstTokens
    <3>1. \A k \in {"TCP4", "TCP6", "addresses"} : [is |-> k, of |-> h.at] \in FirstTokens
      <4>1. \A k \in {"TCP4", "TCP6", "addresses"} : [is |-> k, of |-> h.at] \in NamingTokens
        BY DEF NamingTokens
      <4> QED
        BY <4>1, Zenon DEF FirstTokens
    <3>2. [is |-> "PROXY", of |-> Nowhere, family |-> "inet", len |-> 1] \in FirstTokens
      BY Zenon DEF FirstTokens, PlainTokens
    <3> HIDE DEF FirstTokens
    <3> QED
      BY <3>1, <3>2
  <2> HIDE DEF FirstTokens
  <2>3. CASE header = <<Token("P"), Token("ROXY"), [is |-> IF h.at.fam = "v4" THEN "TCP4" ELSE "TCP6", of |-> h.at], Token("CRLF")>>
    BY <2>1, <2>2, <2>3
  <2>4. CASE header = <<Token("SIG"), [is |-> "PROXY", of |-> Nowhere, family |-> "inet", len |-> 1], [is |-> "addresses", of |-> h.at]>>
    BY <2>1, <2>2, <2>4
  <2> QED
    BY <2>3, <2>4 DEF BalancerHeaders
<1>3. header[1].is = "SIG" => header[2].len \in Nat
  BY <1>1, <1>2, BalancerIsRead
<1>4. /\ header \o b \in Seq(FirstTokens)
      /\ (header \o b)[1] = header[1] /\ (header \o b)[2] = header[2]
  BY <1>2
<1> QED
  BY <1>2, <1>3, <1>4 DEF Framed

\* A client sends.
LEMMA SendsStep ==
    ASSUME AddressInv, Sends
    PROVE  AddressInv'
<1>1. PICK h \in Hosts, opening \in Openings, p \in Payload, xff \in Written :
        /\ h.role = "client"
        /\ path' = <<h>>
        /\ wire' = [sent |-> <<>>, bytes |-> opening \o p, xff |-> [lines |-> IF xff = <<>> THEN 0 ELSE 1, entries |-> xff]]
  BY DEF Sends
<1>2. stage = "start" /\ stage' = "way" /\ UNCHANGED <<server, read, result>>
  BY DEF Sends
<1>3. xff \in Seq(Addresses)
  BY AddressAssumption
<1>4. opening \o p \in Seq(FirstTokens) /\ Framed(opening \o p)
  BY OpeningFrames
<1>5. /\ wire'.sent = <<>> /\ wire'.bytes = opening \o p /\ wire'.xff.entries = xff
      /\ wire'.xff.lines = IF xff = <<>> THEN 0 ELSE 1
  BY <1>1
<1>6. Len(path') = 1 /\ path'[1] = h /\ path' \in Seq(Hosts) /\ path' # <<>> /\ Peer' = h
  BY <1>1 DEF Peer
<1>7. AddressShape'
  <2>1. wire' = [sent |-> wire'.sent, bytes |-> wire'.bytes,
                 xff |-> [lines |-> wire'.xff.lines, entries |-> wire'.xff.entries]]
    BY <1>1, <1>5
  <2>2. <<>> \in Seq(FirstTokens)
    OBVIOUS
  <2> QED
    BY <1>2, <1>3, <1>4, <1>5, <1>6, <2>1, <2>2 DEF AddressInv, AddressShape, ProxyProtocolOk, ForwardersOk
<1>8. Travelled'
  BY <1>1, <1>2, <1>6 DEF Travelled
<1>9. SentAs'
  BY <1>1, <1>2, <1>4, <1>5, <1>6 DEF AddressInv, SentAs, FirstBytes, Framed
<1>10. Unread' /\ Accepted' /\ Resolved' /\ ReadsDoNotMatter'
  BY <1>2 DEF Unread, Accepted, Resolved, ReadsDoNotMatter
<1> QED
  BY <1>7, <1>8, <1>9, <1>10 DEF AddressInv


\* A proxy: a connection of its own, and one more entry.
LEMMA ThroughProxyStep ==
    ASSUME AddressInv, ThroughProxy
    PROVE  AddressInv'
<1>1. PICK h \in Hosts, p \in Payload :
        /\ h.role = "proxy"
        /\ path' = Append(path, h)
        /\ wire' = [sent |-> <<>>, bytes |-> p, xff |-> [lines |-> 1, entries |-> Append(wire.xff.entries, Peer.at)]]
  BY DEF ThroughProxy
<1>2. stage = "way" /\ UNCHANGED <<server, stage, read, result>>
  BY DEF ThroughProxy
<1>3. PICK e \in Seq(Addresses) : e = wire.xff.entries
  BY DEF AddressInv, AddressShape
<1>4. /\ path \in Seq(Hosts) /\ path # <<>> /\ path[1].role = "client" /\ Len(path) \in Nat /\ Len(path) >= 1
      /\ path[Len(path)] \in Hosts
  <2>1. path \in Seq(Hosts) /\ path # <<>> /\ path[1].role = "client"
    BY <1>2 DEF AddressInv, AddressShape, Travelled
  <2> QED
    BY <2>1
<1>5. Peer = path[Len(path)] /\ Peer.at \in Addresses
  BY <1>4, AddressAssumption DEF Peer
<1>6. PICK a \in Addresses : a = Peer.at
  BY <1>5
<1>7. /\ path' \in Seq(Hosts) /\ path' # <<>> /\ Len(path') = Len(path) + 1
      /\ path'[Len(path) + 1] = h /\ \A i \in 1..Len(path) : path'[i] = path[i]
  BY <1>1, <1>4
<1>8. PICK f \in Seq(Addresses) : f = Append(e, a)
  BY AppendProperties
<1>9. Len(f) = Len(e) + 1 /\ f[Len(e) + 1] = a /\ (\A i \in 1..Len(e) : f[i] = e[i]) /\ Len(e) \in Nat
  BY <1>8
<1>10. wire'.sent = <<>> /\ wire'.bytes = p /\ wire'.xff.entries = f /\ wire'.xff.lines = 1
  BY <1>1, <1>3, <1>6, <1>8
<1>11. p \in Seq(FirstTokens) /\ p[1].is # "SIG"
  BY PayloadFrames
<1>12. Peer' = h
  BY <1>7 DEF Peer
<1>13. AddressShape'
  <2>1. wire' = [sent |-> wire'.sent, bytes |-> wire'.bytes,
                 xff |-> [lines |-> wire'.xff.lines, entries |-> wire'.xff.entries]]
    BY <1>1, <1>10
  <2>2. <<>> \in Seq(FirstTokens)
    OBVIOUS
  <2> QED
    BY <1>2, <1>7, <1>10, <1>11, <2>1, <2>2 DEF AddressInv, AddressShape, ProxyProtocolOk, ForwardersOk
<1>14. Travelled'
  <2>1. path'[1].role = "client"
    BY <1>4, <1>7
  <2>2. ASSUME NEW j \in 1..Len(path),
               \A i \in (Len(path) + 1 - j + 1)..(Len(path) + 1) : path'[i].role = "proxy"
        PROVE  Len(f) >= j /\ f[Len(f) - j + 1] = path'[Len(path) + 1 - j].at
    <3>1. CASE j = 1
      <4>1. Len(f) >= j /\ Len(f) - j + 1 = Len(e) + 1 /\ Len(path) + 1 - j = Len(path)
        BY <1>4, <1>9, <3>1
      <4>2. path'[Len(path)] = path[Len(path)]
        BY <1>4, <1>7
      <4> QED
        BY <1>5, <1>6, <1>9, <4>1, <4>2
    <3>2. CASE j # 1
      <4>1. PICK k \in 1..(Len(path) - 1) : k = j - 1
        BY <1>4, <3>2
      <4>2. ASSUME NEW i \in (Len(path) - k + 1)..Len(path) PROVE path[i].role = "proxy"
        <5>1. i \in (Len(path) + 1 - j + 1)..(Len(path) + 1) /\ i \in 1..Len(path)
          BY <1>4, <4>1
        <5> QED
          BY <1>7, <2>2, <5>1
      <4>3. Len(e) >= k /\ e[Len(e) - k + 1] = path[Len(path) - k].at
        BY <1>2, <1>3, <4>2 DEF AddressInv, Travelled
      <4>4. /\ Len(f) >= j /\ Len(f) - j + 1 = Len(e) - k + 1 /\ Len(e) - k + 1 \in 1..Len(e)
            /\ Len(path) + 1 - j = Len(path) - k /\ Len(path) - k \in 1..Len(path)
        BY <1>4, <1>9, <4>1, <4>3
      <4> QED
        BY <1>7, <1>9, <4>3, <4>4
    <3> QED
      BY <3>1, <3>2
  <2>3. Len(path') - 1 = Len(path)
    BY <1>4, <1>7
  <2> QED
    BY <1>7, <1>10, <1>12, <2>1, <2>2, <2>3 DEF Travelled
<1>15. SentAs'
  BY <1>1, <1>2, <1>10, <1>11, <1>12 DEF AddressInv, SentAs, FirstBytes, Framed
<1>16. Unread' /\ Accepted' /\ Resolved' /\ ReadsDoNotMatter'
  BY <1>2 DEF Unread, Accepted, Resolved, ReadsDoNotMatter
<1> QED
  BY <1>13, <1>14, <1>15, <1>16 DEF AddressInv

\* A balancer: its header, and what it was sent behind it.
LEMMA ThroughBalancerStep ==
    ASSUME AddressInv, ThroughBalancer
    PROVE  AddressInv'
<1>1. PICK h \in Hosts, header \in BalancerHeaders(Peer.at) :
        /\ h.role = "balancer"
        /\ path' = Append(path, h)
        /\ wire' = [wire EXCEPT !.bytes = header \o @]
  BY DEF ThroughBalancer
<1>2. stage = "way" /\ UNCHANGED <<server, stage, read, result>>
  BY DEF ThroughBalancer
<1>3. PICK b \in Seq(FirstTokens) : b = wire.bytes
  BY DEF AddressInv, AddressShape
<1>4. /\ path \in Seq(Hosts) /\ path # <<>> /\ path[1].role = "client" /\ Len(path) \in Nat /\ Len(path) >= 1
      /\ path[Len(path)] \in Hosts
  <2>1. path \in Seq(Hosts) /\ path # <<>> /\ path[1].role = "client"
    BY <1>2 DEF AddressInv, AddressShape, Travelled
  <2> QED
    BY <2>1
<1>5. Peer = path[Len(path)]
  BY DEF Peer
<1>6. header \o b \in Seq(FirstTokens) /\ Framed(header \o b)
  BY <1>4, <1>5, HeaderFrames
<1>7. /\ path' \in Seq(Hosts) /\ path' # <<>> /\ Len(path') = Len(path) + 1
      /\ path'[Len(path) + 1] = h /\ \A i \in 1..Len(path) : path'[i] = path[i]
  BY <1>1, <1>4
<1>8. Peer' = h /\ path'[1] = path[1] /\ path'[Len(path') - 1] = path[Len(path)] /\ Len(path') > 1
  BY <1>4, <1>7 DEF Peer
<1>9. PICK v : v = header \o b
  OBVIOUS
<1>10. wire' = [wire EXCEPT !.bytes = v]
  BY <1>1, <1>3, <1>9
<1>11. /\ wire'.sent = wire.sent /\ wire'.bytes = v /\ wire'.xff = wire.xff
       /\ wire' = [sent |-> wire'.sent, bytes |-> wire'.bytes,
                   xff |-> [lines |-> wire'.xff.lines, entries |-> wire'.xff.entries]]
  <2>1. wire = [sent |-> wire.sent, bytes |-> wire.bytes,
                xff |-> [lines |-> wire.xff.lines, entries |-> wire.xff.entries]]
    BY DEF AddressInv, AddressShape
  <2> QED
    BY <1>10, <2>1
<1>12. AddressShape'
  BY <1>2, <1>6, <1>7, <1>9, <1>11 DEF AddressInv, AddressShape, ProxyProtocolOk, ForwardersOk
<1>13. Travelled'
  <2>1. ASSUME NEW j \in 1..(Len(path') - 1),
               \A i \in (Len(path') - j + 1)..Len(path') : path'[i].role = "proxy"
        PROVE  FALSE
    <3>1. Len(path') \in (Len(path') - j + 1)..Len(path')
      BY <1>4, <1>7
    <3> QED
      BY <1>1, <1>7, <2>1, <3>1
  <2> QED
    BY <1>1, <1>4, <1>7, <1>8, <2>1 DEF Travelled
<1>14. SentAs'
  <2>1. header \in BalancerHeaders(path'[Len(path') - 1].at)
    BY <1>5, <1>8
  <2>2. FirstBytes(v)'
    BY <1>6, <1>8, <1>9, <2>1 DEF FirstBytes, Framed
  <2> QED
    BY <1>2, <1>11, <2>2 DEF AddressInv, SentAs, FirstBytes, Framed
<1>15. Unread' /\ Accepted' /\ Resolved' /\ ReadsDoNotMatter'
  BY <1>2 DEF Unread, Accepted, Resolved, ReadsDoNotMatter
<1> QED
  BY <1>12, <1>13, <1>14, <1>15 DEF AddressInv

\* The edge accepts.
LEMMA ArriveStep ==
    ASSUME AddressInv, Arrive
    PROVE  AddressInv'
<1>1. /\ stage = "way" /\ stage' = IF server.pp THEN "header" ELSE "request"
      /\ result' = [result EXCEPT !.client = Peer.at, !.outcome = "off"]
      /\ wire' = [wire EXCEPT !.sent = wire.bytes]
      /\ UNCHANGED <<server, path, read>>
  BY DEF Arrive
<1>2. PICK b \in Seq(FirstTokens) : b = wire.bytes
  BY DEF AddressInv, AddressShape
<1>3. /\ wire'.sent = b /\ wire'.bytes = b /\ wire'.xff = wire.xff
      /\ wire' = [sent |-> wire'.sent, bytes |-> wire'.bytes,
                  xff |-> [lines |-> wire'.xff.lines, entries |-> wire'.xff.entries]]
  <2>1. wire = [sent |-> wire.sent, bytes |-> wire.bytes,
                xff |-> [lines |-> wire.xff.lines, entries |-> wire.xff.entries]]
    BY DEF AddressInv, AddressShape
  <2> QED
    BY <1>1, <1>2, <2>1
<1>4. /\ result'.client = Peer.at
      /\ result' = [outcome |-> result'.outcome, client |-> result'.client, ip |-> result'.ip,
                    how |-> result'.how, verdict |-> result'.verdict]
  <2>1. result = [outcome |-> result.outcome, client |-> result.client, ip |-> result.ip,
                  how |-> result.how, verdict |-> result.verdict]
    BY DEF AddressInv, AddressShape
  <2>2. PICK o, c, i, k, v : result = [outcome |-> o, client |-> c, ip |-> i, how |-> k, verdict |-> v]
    BY <2>1
  <2>3. result' = [outcome |-> "off", client |-> Peer.at, ip |-> i, how |-> k, verdict |-> v]
    BY <1>1, <2>2
  <2> QED
    BY <2>3
<1>5. stage' \in {"header", "request"} /\ (stage' = "header" <=> server.pp)
  BY <1>1
<1>6. AddressShape'
  BY <1>1, <1>2, <1>3, <1>4, <1>5 DEF AddressInv, AddressShape, ProxyProtocolOk, ForwardersOk
<1>7. Travelled'
  BY <1>1, <1>3, <1>5 DEF AddressInv, Travelled, Peer
<1>8. SentAs'
  <2>1. FirstBytes(b) /\ read = <<>>
    BY <1>1, <1>2 DEF AddressInv, SentAs
  <2>2. FirstBytes(b)'
    BY <1>1, <2>1 DEF FirstBytes, Framed, Peer
  <2> QED
    BY <1>3, <1>5, <2>2 DEF SentAs, FirstBytes, Framed
<1>9. Unread'
  <2>1. read' = <<>>
    BY <1>1 DEF AddressInv, SentAs
  <2>2. b = <<>> \o b
    BY ConcatEmptySeq
  <2> QED
    BY <1>1, <1>3, <1>5, <2>1, <2>2 DEF Unread
<1>10. Accepted'
  BY <1>1, <1>4 DEF Accepted, Peer
<1>11. Resolved' /\ ReadsDoNotMatter'
  BY <1>1, <1>5 DEF Resolved, ReadsDoNotMatter
<1> QED
  BY <1>6, <1>7, <1>8, <1>9, <1>10, <1>11 DEF AddressInv

\* read_header reads some more.
LEMMA ReadMoreStep ==
    ASSUME AddressInv, ReadMore
    PROVE  AddressInv'
<1>1. PICK n \in 1..Len(wire.bytes) :
        /\ read' = read \o SubSeq(wire.bytes, 1, n)
        /\ wire' = [wire EXCEPT !.bytes = SubSeq(@, n + 1, Len(@))]
  BY DEF ReadMore
<1>2. stage = "header" /\ UNCHANGED <<server, stage, path, result>>
  BY DEF ReadMore
<1>3. PICK b \in Seq(FirstTokens) : b = wire.bytes
  BY DEF AddressInv, AddressShape
<1>4. read \in Seq(FirstTokens)
  BY DEF AddressInv, AddressShape
<1>5. PICK v : v = SubSeq(b, n + 1, Len(b))
  OBVIOUS
<1>6. read' \in Seq(FirstTokens) /\ v \in Seq(FirstTokens) /\ read' \o v = read \o b
  <2>1. PICK s \in Seq(FirstTokens) : s = read
    BY <1>4
  <2>2. PICK m \in 1..Len(b) : m = n
    BY <1>3
  <2>3. /\ s \o SubSeq(b, 1, m) \in Seq(FirstTokens) /\ SubSeq(b, m + 1, Len(b)) \in Seq(FirstTokens)
        /\ (s \o SubSeq(b, 1, m)) \o SubSeq(b, m + 1, Len(b)) = s \o b
    BY ReadAndUnread, Zenon
  <2>4. read' = s \o SubSeq(b, 1, m) /\ v = SubSeq(b, m + 1, Len(b))
    BY <1>1, <1>3, <1>5, <2>1, <2>2
  <2> QED
    BY <2>1, <2>3, <2>4
<1>7. wire' = [wire EXCEPT !.bytes = v]
  BY <1>1, <1>3, <1>5
<1>8. /\ wire'.sent = wire.sent /\ wire'.bytes = v /\ wire'.xff = wire.xff
      /\ wire' = [sent |-> wire'.sent, bytes |-> wire'.bytes,
                  xff |-> [lines |-> wire'.xff.lines, entries |-> wire'.xff.entries]]
  <2>1. wire = [sent |-> wire.sent, bytes |-> wire.bytes,
                xff |-> [lines |-> wire.xff.lines, entries |-> wire.xff.entries]]
    BY DEF AddressInv, AddressShape
  <2> QED
    BY <1>7, <2>1
<1>9. AddressShape'
  BY <1>2, <1>6, <1>8 DEF AddressInv, AddressShape, ProxyProtocolOk, ForwardersOk
<1>10. Travelled'
  BY <1>2, <1>8 DEF AddressInv, Travelled, Peer
<1>11. SentAs'
  BY <1>2, <1>8 DEF AddressInv, SentAs, FirstBytes, Framed, Peer
<1>12. Unread'
  BY <1>2, <1>3, <1>6, <1>8 DEF AddressInv, Unread
<1>13. Accepted' /\ Resolved' /\ ReadsDoNotMatter'
  BY <1>2 DEF Accepted, Resolved, ReadsDoNotMatter
<1> QED
  BY <1>9, <1>10, <1>11, <1>12, <1>13 DEF AddressInv

\* The peer closes inside the header.
LEMMA ClosesEarlyStep ==
    ASSUME AddressInv, ClosesEarly
    PROVE  AddressInv'
<1>1. /\ stage = "header" /\ stage' = "closed" /\ UNCHANGED <<server, path, wire, read>>
      /\ \E o : result' = [result EXCEPT !.outcome = o]
  BY DEF ClosesEarly
<1>2. result' = [outcome |-> result'.outcome, client |-> result'.client, ip |-> result'.ip,
                 how |-> result'.how, verdict |-> result'.verdict]
  <2>1. result = [outcome |-> result.outcome, client |-> result.client, ip |-> result.ip,
                  how |-> result.how, verdict |-> result.verdict]
    BY DEF AddressInv, AddressShape
  <2>2. PICK o, c, i, k, v : result = [outcome |-> o, client |-> c, ip |-> i, how |-> k, verdict |-> v]
    BY <2>1
  <2>3. PICK q : result' = [outcome |-> q, client |-> c, ip |-> i, how |-> k, verdict |-> v]
    BY <1>1, <2>2
  <2> QED
    BY <2>3
<1>3. AddressShape' /\ Travelled' /\ SentAs'
  <2>1. AddressShape'
    BY <1>1, <1>2 DEF AddressInv, AddressShape, ProxyProtocolOk, ForwardersOk
  <2>2. Travelled'
    BY <1>1 DEF AddressInv, Travelled, Peer
  <2>3. SentAs'
    BY <1>1 DEF AddressInv, SentAs, FirstBytes, Framed, Peer
  <2> QED
    BY <2>1, <2>2, <2>3
<1>4. Unread' /\ Accepted' /\ Resolved' /\ ReadsDoNotMatter'
  BY <1>1 DEF Unread, Accepted, Resolved, ReadsDoNotMatter
<1> QED
  BY <1>3, <1>4 DEF AddressInv

\* The header as the PROXY stage takes it from what was parsed.
Found(p) == IF p.is = "not_proxy" THEN NoHeader ELSE p.header

\* read_header has decided: as it would of everything that was sent.
LEMMA HeaderReadStep ==
    ASSUME AddressInv, HeaderRead
    PROVE  AddressInv'
<1>1. stage = "header" /\ Parse(read).is # "need" /\ UNCHANGED <<server, path, read>>
  BY DEF HeaderRead
<1>2. PICK p, o : p = Parse(read) /\ o = Outcome(Found(p), Peer.at)
  OBVIOUS
<1>3. /\ result' = [result EXCEPT !.outcome = o.is, !.client = o.client]
      /\ stage' = IF Serves(o.is) THEN "request" ELSE "refused"
      /\ wire' = [wire EXCEPT !.bytes = IF Serves(o.is) THEN Rest(p) \o @ ELSE @]
  BY <1>2 DEF HeaderRead, Found
<1>4. PICK b \in Seq(FirstTokens), s \in Seq(FirstTokens) : b = wire.bytes /\ s = wire.sent
  BY DEF AddressInv, AddressShape
<1>5. server.pp /\ s = read \o b /\ read \in Seq(FirstTokens)
  BY <1>1, <1>4 DEF AddressInv, Unread, AddressShape
<1>6. PICK q : q = Parse(s)
  OBVIOUS
<1>7. Len(read) > 1 /\ read[1].is = "SIG" => read[2].len \in Nat
  <2>1. Framed(s)
    BY <1>1, <1>4 DEF AddressInv, SentAs, FirstBytes
  <2>2. Len(read) > 1 => Len(s) > 1 /\ s[1] = read[1] /\ s[2] = read[2]
    BY <1>5
  <2> QED
    BY <2>1, <2>2 DEF Framed
<1>8. /\ q.is = p.is /\ q.header = p.header
      /\ p.header # Invalid => q.used = p.used /\ p.used \in 0..Len(read)
  BY <1>1, <1>2, <1>5, <1>6, <1>7, ParseGrows
<1>9. o = Outcome(Found(q), Peer.at)
  BY <1>2, <1>8 DEF Found
<1>10. Serves(o.is) => p.header # Invalid
  <2>1. SUFFICES ASSUME p.header = Invalid PROVE ~Serves(o.is)
    OBVIOUS
  <2>2. p.is # "not_proxy"
    <3>1. p.is = "not_proxy" => p.header = NoHeader
      BY <1>2 DEF Parse, ParseV1, ParseV2, Need, NotProxy, Done
    <3> QED
      BY <2>1, <3>1 DEF Invalid, NoHeader
  <2>3. Found(p) = Invalid
    BY <2>1, <2>2 DEF Found
  <2>4. Invalid # NoHeader /\ Invalid # Local
    BY DEF Invalid, NoHeader, Local
  <2>5. o.is \in {"untrusted", "invalid"}
    BY <1>2, <2>3, <2>4 DEF Outcome
  <2> QED
    BY <2>5 DEF Serves
<1>11. PICK v : v = IF Serves(o.is) THEN Rest(p) \o b ELSE b
  OBVIOUS
<1>12. v \in Seq(FirstTokens) /\ (Serves(o.is) => v = SubSeq(s, q.used + 1, Len(s)))
  <2>1. CASE Serves(o.is)
    <3>1. p.used \in 0..Len(read) /\ q.used = p.used
      BY <1>8, <1>10, <2>1
    <3>2. PICK u \in 0..Len(read) : u = p.used
      BY <3>1
    <3>3. SubSeq(read, u + 1, Len(read)) \o b = SubSeq(s, u + 1, Len(s))
      BY <1>5, RestAndUnread
    <3>4. SubSeq(s, u + 1, Len(s)) \in Seq(FirstTokens)
      BY <3>2
    <3> QED
      BY <1>11, <2>1, <3>1, <3>2, <3>3, <3>4 DEF Rest
  <2>2. CASE ~Serves(o.is)
    BY <1>11, <2>2
  <2> QED
    BY <2>1, <2>2
<1>13. wire' = [wire EXCEPT !.bytes = v]
  BY <1>3, <1>4, <1>11
<1>14. /\ wire'.sent = s /\ wire'.bytes = v /\ wire'.xff = wire.xff
       /\ wire' = [sent |-> wire'.sent, bytes |-> wire'.bytes,
                   xff |-> [lines |-> wire'.xff.lines, entries |-> wire'.xff.entries]]
  <2>1. wire = [sent |-> wire.sent, bytes |-> wire.bytes,
                xff |-> [lines |-> wire.xff.lines, entries |-> wire.xff.entries]]
    BY DEF AddressInv, AddressShape
  <2> QED
    BY <1>4, <1>13, <2>1
<1>15. /\ result'.client = o.client /\ result'.outcome = o.is
       /\ result' = [outcome |-> result'.outcome, client |-> result'.client, ip |-> result'.ip,
                     how |-> result'.how, verdict |-> result'.verdict]
  <2>1. result = [outcome |-> result.outcome, client |-> result.client, ip |-> result.ip,
                  how |-> result.how, verdict |-> result.verdict]
    BY DEF AddressInv, AddressShape
  <2>2. PICK x, c, i, k, w : result = [outcome |-> x, client |-> c, ip |-> i, how |-> k, verdict |-> w]
    BY <2>1
  <2>3. PICK y, z : y = o.is /\ z = o.client
    OBVIOUS
  <2>4. result' = [outcome |-> y, client |-> z, ip |-> i, how |-> k, verdict |-> w]
    BY <1>3, <2>2, <2>3
  <2> QED
    BY <2>3, <2>4
<1>16. stage' \in {"request", "refused"}
  BY <1>3
<1>17. AddressShape'
  BY <1>1, <1>4, <1>5, <1>12, <1>14, <1>15, <1>16 DEF AddressInv, AddressShape, ProxyProtocolOk, ForwardersOk
<1>18. Travelled' /\ SentAs'
  BY <1>1, <1>4, <1>14, <1>16 DEF AddressInv, Travelled, Peer, SentAs, FirstBytes, Framed
<1>19. Unread' /\ Accepted' /\ Resolved'
  BY <1>1, <1>5, <1>16 DEF Unread, Accepted, Resolved
<1>20. ReadsDoNotMatter'
  <2>1. (Outcome(Found(q), Peer.at))' = o
    BY <1>1, <1>9 DEF Outcome, Trusts, Peer
  <2>2. Parse(wire'.sent) = q
    BY <1>6, <1>14
  <2> QED
    BY <1>12, <1>14, <1>15, <2>1, <2>2 DEF ReadsDoNotMatter, Found
<1> QED
  BY <1>17, <1>18, <1>19, <1>20 DEF AddressInv

\* The address resolved depends on the settings and on what is passed, on nothing else.
LEMMA ResolvesAlike ==
    ASSUME server' = server, NEW x, NEW c, NEW a
    PROVE  (Resolve(x, c, a))' = Resolve(x, c, a)
<1>1. \A y : (Listed(y))' <=> Listed(y)
  BY DEF Listed
<1>2. ASSUME NEW e PROVE (LastUnlisted(e))' = LastUnlisted(e)
  <2> DEFINE I == {i \in 1..Len(e) : e[i] = Nowhere \/ ~Listed(e[i])}
             J == {i \in 1..Len(e) : e[i] = Nowhere \/ ~(Listed(e[i]))'}
  <2>1. I = J
    BY <1>1
  <2>2. LastUnlisted(e) = IF I # {} THEN Max(I) ELSE 0
    BY DEF LastUnlisted, SelectLastInSeq
  <2>3. (LastUnlisted(e))' = IF J # {} THEN Max(J) ELSE 0
    BY DEF LastUnlisted, SelectLastInSeq
  <2> HIDE DEF I, J
  <2> QED
    BY <2>1, <2>2, <2>3
<1>3. (Walk(x.entries, c))' = Walk(x.entries, c)
  BY <1>2 DEF Walk
<1>4. (Believes(a))' <=> Believes(a)
  BY <1>1 DEF Believes
<1> QED
  BY <1>3, <1>4 DEF Resolve

\* A request is resolved and judged, or its bytes are none.
LEMMA TakeRequestStep ==
    ASSUME AddressInv, TakeRequest
    PROVE  AddressInv'
<1>1. stage = "request" /\ UNCHANGED <<server, path, wire, read>>
  BY DEF TakeRequest
<1>2. CASE wire.bytes \notin Payload
  <2>1. stage' = "closed" /\ result' = result
    BY <1>2 DEF TakeRequest
  <2>2. AddressShape' /\ Travelled' /\ SentAs'
    BY <1>1, <2>1 DEF AddressInv, AddressShape, ProxyProtocolOk, ForwardersOk, Travelled, Peer, SentAs, FirstBytes, Framed
  <2>3. Unread' /\ Accepted' /\ Resolved' /\ ReadsDoNotMatter'
    BY <2>1 DEF Unread, Accepted, Resolved, ReadsDoNotMatter
  <2> QED
    BY <2>2, <2>3 DEF AddressInv
<1>3. CASE wire.bytes \in Payload
  <2>1. PICK r : r = Resolve(wire.xff, result.client, Peer.at)
    OBVIOUS
  <2>2. PICK v : v = IF Allowed(r.ip) THEN "allowed" ELSE "denied"
    OBVIOUS
  <2>3. stage' = "answered" /\ result' = [result EXCEPT !.ip = r.ip, !.how = r.result, !.verdict = v]
    BY <1>3, <2>1, <2>2 DEF TakeRequest
  <2>4. /\ result'.outcome = result.outcome /\ result'.client = result.client /\ result'.ip = r.ip
        /\ result'.verdict = v
        /\ result' = [outcome |-> result'.outcome, client |-> result'.client, ip |-> result'.ip,
                      how |-> result'.how, verdict |-> result'.verdict]
    <3>1. result = [outcome |-> result.outcome, client |-> result.client, ip |-> result.ip,
                    how |-> result.how, verdict |-> result.verdict]
      BY DEF AddressInv, AddressShape
    <3>2. PICK x, c, i, k, w : result = [outcome |-> x, client |-> c, ip |-> i, how |-> k, verdict |-> w]
      BY <3>1
    <3>3. PICK y, z : y = r.ip /\ z = r.result
      OBVIOUS
    <3>4. result' = [outcome |-> x, client |-> c, ip |-> y, how |-> z, verdict |-> v]
      BY <2>3, <3>2, <3>3
    <3> QED
      BY <3>2, <3>3, <3>4
  <2>5. AddressShape' /\ Travelled' /\ SentAs'
    BY <1>1, <2>3, <2>4 DEF AddressInv, AddressShape, ProxyProtocolOk, ForwardersOk, Travelled, Peer, SentAs, FirstBytes, Framed
  <2>6. Unread' /\ Accepted'
    BY <1>1, <2>3, <2>4 DEF AddressInv, Unread, Accepted, Peer
  <2>7. Resolved'
    <3>1. (Resolve(wire.xff, result.client, Peer.at))' = r
      <4>1. PICK x, c, a : x = wire.xff /\ c = result.client /\ a = Peer.at
        OBVIOUS
      <4>2. x = wire'.xff /\ c = result'.client /\ a = Peer'.at
        BY <1>1, <2>4, <4>1 DEF Peer
      <4>3. (Resolve(x, c, a))' = Resolve(x, c, a)
        BY <1>1, ResolvesAlike
      <4> QED
        BY <2>1, <4>1, <4>2, <4>3
    <3>2. v = IF (Allowed(result.ip))' THEN "allowed" ELSE "denied"
      BY <1>1, <2>2, <2>4 DEF Allowed
    <3> QED
      BY <2>4, <3>1, <3>2 DEF Resolved
  <2>8. ReadsDoNotMatter'
    <3>1. PICK q : q = Parse(wire.sent)
      OBVIOUS
    <3>2. (Outcome(Found(q), Peer.at))' = Outcome(Found(q), Peer.at)
      BY <1>1 DEF Outcome, Trusts, Peer
    <3>3. server.pp =>
             /\ result.outcome = Outcome(Found(q), Peer.at).is /\ result.client = Outcome(Found(q), Peer.at).client
             /\ Serves(Outcome(Found(q), Peer.at).is) => wire.bytes = SubSeq(wire.sent, q.used + 1, Len(wire.sent))
      BY <1>1, <3>1 DEF AddressInv, ReadsDoNotMatter, Found
    <3> QED
      BY <1>1, <2>4, <3>1, <3>2, <3>3 DEF ReadsDoNotMatter, Found
  <2> QED
    BY <2>5, <2>6, <2>7, <2>8 DEF AddressInv
<1> QED
  BY <1>2, <1>3

\* The first state.
LEMMA AddressStart == AddressInit => AddressInv
<1>1. SUFFICES ASSUME AddressInit PROVE AddressInv
  OBVIOUS
<1>2. server \in Servers /\ ProxyProtocolOk(server) /\ ForwardersOk(server)
  BY <1>1 DEF AddressInit, ProxyProtocolOk, ForwardersOk
<1>3. /\ stage = "start" /\ path = <<>> /\ read = <<>>
      /\ wire = [sent |-> <<>>, bytes |-> <<>>, xff |-> [lines |-> 0, entries |-> <<>>]]
      /\ result = NoResult
  BY <1>1 DEF AddressInit
<1>4. <<>> \in Seq(Hosts) /\ <<>> \in Seq(FirstTokens) /\ <<>> \in Seq(Addresses)
  OBVIOUS
<1>5. /\ wire.sent = <<>> /\ wire.bytes = <<>> /\ wire.xff.entries = <<>>
      /\ wire = [sent |-> wire.sent, bytes |-> wire.bytes,
                 xff |-> [lines |-> wire.xff.lines, entries |-> wire.xff.entries]]
  BY <1>3
<1>6. result = [outcome |-> result.outcome, client |-> result.client, ip |-> result.ip,
                how |-> result.how, verdict |-> result.verdict]
  BY <1>3 DEF NoResult
<1>7. AddressShape
  BY <1>2, <1>3, <1>4, <1>5, <1>6 DEF AddressShape
<1>8. Travelled /\ SentAs /\ Unread /\ Accepted /\ Resolved /\ ReadsDoNotMatter
  BY <1>3 DEF Travelled, SentAs, Unread, Accepted, Resolved, ReadsDoNotMatter
<1> QED
  BY <1>7, <1>8 DEF AddressInv

\* A step of another part of the gate.
LEMMA AddressStays ==
    ASSUME AddressInv, UNCHANGED addressVars
    PROVE  AddressInv'
<1>1. UNCHANGED <<server, stage, path, wire, read, result>>
  BY DEF addressVars
<1>2. Peer' = Peer
  BY <1>1 DEF Peer
<1>3. AddressShape'
  BY <1>1 DEF AddressInv, AddressShape, ProxyProtocolOk, ForwardersOk
<1>4. Travelled'
  BY <1>1, <1>2 DEF AddressInv, Travelled
<1>5. SentAs'
  BY <1>1, <1>2 DEF AddressInv, SentAs, FirstBytes, Framed
<1>6. Unread' /\ Accepted'
  BY <1>1, <1>2 DEF AddressInv, Unread, Accepted
<1>7. Resolved'
  <2>1. PICK x, c, a : x = wire.xff /\ c = result.client /\ a = Peer.at
    OBVIOUS
  <2>2. (Resolve(x, c, a))' = Resolve(x, c, a)
    BY <1>1, ResolvesAlike
  <2>3. (Resolve(wire.xff, result.client, Peer.at))' = Resolve(wire.xff, result.client, Peer.at)
    BY <1>1, <1>2, <2>1, <2>2
  <2>4. (Allowed(result.ip))' <=> Allowed(result.ip)
    BY <1>1 DEF Allowed
  <2> QED
    BY <1>1, <2>3, <2>4 DEF AddressInv, Resolved
<1>8. ReadsDoNotMatter'
  <2>1. PICK q : q = Parse(wire.sent)
    OBVIOUS
  <2>2. (Outcome(Found(q), Peer.at))' = Outcome(Found(q), Peer.at)
    BY <1>1, <1>2 DEF Outcome, Trusts
  <2> QED
    BY <1>1, <2>1, <2>2 DEF AddressInv, ReadsDoNotMatter, Found
<1> QED
  BY <1>3, <1>4, <1>5, <1>6, <1>7, <1>8 DEF AddressInv

\* The last entry of a list that is not a listed proxy's.
LEMMA LastUnlistedIs ==
    ASSUME NEW e \in Seq(Addresses), NEW m \in 1..Len(e), e[m] = Nowhere \/ ~Listed(e[m]),
           \A i \in (m + 1)..Len(e) : e[i] # Nowhere /\ Listed(e[i])
    PROVE  LastUnlisted(e) = m
<1> DEFINE I == {i \in 1..Len(e) : e[i] = Nowhere \/ ~Listed(e[i])}
<1>1. LastUnlisted(e) = IF I # {} THEN Max(I) ELSE 0
  BY DEF LastUnlisted, SelectLastInSeq
<1>2. m \in I /\ I \subseteq Nat /\ Len(e) \in Nat
  OBVIOUS
<1>3. ASSUME NEW y \in I PROVE y <= m
  <2>1. y \in 1..Len(e) /\ (e[y] = Nowhere \/ ~Listed(e[y]))
    OBVIOUS
  <2>2. y \notin (m + 1)..Len(e)
    BY <2>1
  <2> QED
    BY <2>1, <2>2
<1> HIDE DEF I
<1>4. Max(I) \in I /\ \A y \in I : Max(I) >= y
  <2>1. \E x \in I : \A y \in I : x >= y
    BY <1>2, <1>3
  <2> QED
    BY <2>1 DEF Max
<1>5. Max(I) = m
  <2>1. PICK x : x = Max(I)
    OBVIOUS
  <2>2. x \in Nat /\ m \in Nat /\ x >= m /\ x <= m
    BY <1>2, <1>3, <1>4, <2>1
  <2> QED
    BY <2>1, <2>2
<1> QED
  BY <1>1, <1>2, <1>5

\* How many listed proxies end the path, in a deployment: the client in front is none.
LEMMA ProxiesAre ==
    ASSUME AddressInv, stage = "answered", AddressDeployed
    PROVE  /\ Proxies \in 0..(Len(path) - 1)
           /\ \A i \in (Len(path) - Proxies + 1)..Len(path) : Listed(path[i].at)
           /\ ~Listed(path[Len(path) - Proxies].at)
<1>1. PICK l \in Nat : l = Len(path) /\ l >= 1
  <2>1. path \in Seq(Hosts) /\ path # <<>>
    BY DEF AddressInv, AddressShape, Travelled
  <2> QED
    BY <2>1
<1>2. path[1] \in Hosts /\ path[1].role = "client"
  <2>1. path \in Seq(Hosts) /\ path[1].role = "client"
    BY DEF AddressInv, AddressShape, Travelled
  <2> QED
    BY <1>1, <2>1
<1>3. ~Listed(path[1].at)
  BY <1>2 DEF AddressDeployed, Listed
<1> DEFINE D == {i \in 1..l : ~Listed(path[i].at)}
<1>4. D \subseteq Nat /\ 1 \in D /\ \A i \in D : i <= l
  BY <1>1, <1>3
<1>5. PICK g \in D : \A i \in D : i <= g
  <2> HIDE DEF D
  <2>1. D # {}
    BY <1>4
  <2> QED
    BY <1>1, <1>4, <2>1, GreatestElement
<1>6. g \in 1..l /\ ~Listed(path[g].at) /\ \A i \in 1..l : i > g => Listed(path[i].at)
  BY <1>5
<1>7. PICK n \in 0..(l - 1) : n = l - g
  <2>1. g \in Nat /\ 1 <= g /\ g <= l
    BY <1>1, <1>6
  <2>2. l - g \in 0..(l - 1)
    BY <1>1, <2>1
  <2> QED
    BY <2>2
<1>8. /\ \A i \in (l - n + 1)..l : Listed(path[i].at)
      /\ ~Listed(path[l - n].at)
  BY <1>1, <1>6, <1>7
<1> DEFINE P(k) == /\ \A i \in (l - k + 1)..l : Listed(path[i].at)
                   /\ ~Listed(path[l - k].at)
<1>9. Proxies = CHOOSE k \in 0..(l - 1) : P(k)
  BY <1>1 DEF Proxies
<1>10. P(n)
  BY <1>8
<1> HIDE DEF P
<1>11. Proxies \in 0..(l - 1) /\ P(Proxies)
  BY <1>9, <1>10
<1> QED
  BY <1>1, <1>11 DEF P

\* The address a connection is accepted as: what its balancer names where headers are read, otherwise
\* its peer's.
LEMMA ClientIs ==
    ASSUME AddressInv, stage = "answered", AddressDeployed
    PROVE  result.client = IF server.pp /\ Peer.role = "balancer" THEN path[Len(path) - 1].at ELSE Peer.at
<1>1. Peer \in Hosts /\ path \in Seq(Hosts)
  <2>1. path \in Seq(Hosts) /\ path # <<>>
    BY DEF AddressInv, AddressShape, Travelled
  <2> QED
    BY <2>1 DEF Peer
<1>2. Trusts(Peer.at) <=> Peer.role = "balancer"
  BY <1>1 DEF AddressDeployed, Trusts
<1>3. CASE ~server.pp
  BY <1>3 DEF AddressInv, Accepted
<1>4. CASE server.pp
  <2>1. PICK q : q = Parse(wire.sent)
    OBVIOUS
  <2>2. result.client = Outcome(Found(q), Peer.at).client
    BY <1>4, <2>1 DEF AddressInv, ReadsDoNotMatter, Found
  <2>3. CASE Peer.role # "balancer"
    <3>1. Outcome(Found(q), Peer.at).client = Peer.at
      BY <1>2, <2>3 DEF Outcome
    <3> QED
      BY <2>2, <2>3, <3>1
  <2>4. CASE Peer.role = "balancer"
    <3>1. FirstBytes(wire.sent)
      BY DEF AddressInv, SentAs
    <3>2. PICK h : h = path[Len(path) - 1]
      OBVIOUS
    <3>3. Len(path) > 1 /\ h \in Hosts
      BY <1>1, <2>4, <3>1, <3>2 DEF FirstBytes
    <3>4. PICK header \in BalancerHeaders(h.at), rest \in Seq(FirstTokens) : wire.sent = header \o rest
      BY <2>4, <3>1, <3>2 DEF FirstBytes
    <3>5. PICK a \in Addresses : a = h.at /\ a.fam # "junk"
      BY <3>3, AddressAssumption
    <3>6. /\ Parse(header) = Done(Proxy(a), Len(header))
          /\ Len(header) > 1 /\ header[1].is = "SIG" => header[2].len \in Nat
      BY <3>4, <3>5, BalancerIsRead
    <3>7. header \in Seq(FirstTokens)
      BY <3>3, <3>4, HeaderFrames
    <3>8. Parse(header).is = "done" /\ Parse(header).header = Proxy(a)
      BY <3>6 DEF Done
    <3>9. q.is = "done" /\ q.header = Proxy(a)
      BY <2>1, <3>4, <3>6, <3>7, <3>8, ParseGrows
    <3>10. Found(q) = Proxy(a)
      BY <3>9 DEF Found
    <3>11. Proxy(a) # NoHeader /\ Proxy(a) # Invalid /\ Proxy(a) # Local /\ Proxy(a).of = a
      BY DEF Proxy, NoHeader, Invalid, Local
    <3>12. Outcome(Proxy(a), Peer.at).client = a
      BY <1>2, <2>4, <3>11 DEF Outcome
    <3> QED
      BY <1>4, <2>2, <2>4, <3>2, <3>5, <3>10, <3>12
  <2> QED
    BY <2>3, <2>4
<1> QED
  BY <1>3, <1>4

\* Behind no listed proxy the address is the connection's; behind n of them it is the one the first
\* of them appended.
LEMMA ResolvedIs ==
    ASSUME AddressInv, Counted
    PROVE  result.ip = Canonical(IF Proxies = 0 THEN result.client ELSE path[Len(path) - Proxies].at)
<1>1. stage = "answered" /\ AddressDeployed
  BY DEF Counted
<1>2. PICK n : n = Proxies
  OBVIOUS
<1>3. PICK l \in Nat : l = Len(path) /\ l >= 1
  <2>1. path \in Seq(Hosts) /\ path # <<>>
    BY <1>1 DEF AddressInv, AddressShape, Travelled
  <2> QED
    BY <2>1
<1>4. n \in 0..(l - 1) /\ (\A i \in (l - n + 1)..l : Listed(path[i].at)) /\ ~Listed(path[l - n].at)
  BY <1>1, <1>2, <1>3, ProxiesAre
<1>5. \A i \in 1..l : path[i] \in Hosts
  BY <1>3 DEF AddressInv, AddressShape
<1>6. Peer = path[l]
  BY <1>3 DEF Peer
<1>7. result.ip = Resolve(wire.xff, result.client, Peer.at).ip
  BY <1>1 DEF AddressInv, Resolved
<1>8. CASE n = 0
  <2>1. ~Listed(Peer.at)
    BY <1>3, <1>4, <1>6, <1>8
  <2>2. server.trust => ~Believes(Peer.at)
    BY <1>1, <2>1 DEF AddressDeployed, Believes
  <2>3. Resolve(wire.xff, result.client, Peer.at).ip = Canonical(result.client)
    BY <2>2 DEF Resolve, Fallback
  <2> QED
    BY <1>2, <1>7, <1>8, <2>3
<1>9. CASE n # 0
  <2>1. Listed(Peer.at) /\ Peer \in Hosts
    BY <1>3, <1>4, <1>5, <1>6, <1>9
  <2>2. server.trust /\ Believes(Peer.at)
    <3>1. server.list # {}
      BY <2>1 DEF Listed, In
    <3> QED
      BY <2>1, <3>1 DEF AddressInv, AddressShape, ForwardersOk, Believes
  <2>3. \A i \in (l - n + 1)..l : path[i].role = "proxy"
    BY <1>1, <1>3, <1>4, <1>5 DEF AddressDeployed, Listed
  <2>4. wire.xff.lines = 1
    <3>1. Peer.role = "proxy"
      BY <1>1, <2>1 DEF AddressDeployed, Listed
    <3> QED
      BY <1>1, <3>1 DEF AddressInv, Travelled
  <2>5. PICK e \in Seq(Addresses) : e = wire.xff.entries
    BY DEF AddressInv, AddressShape
  <2>6. ASSUME NEW j \in 1..n
        PROVE  Len(e) >= j /\ e[Len(e) - j + 1] = path[l - j].at /\ e[Len(e) - j + 1] # Nowhere
    <3>1. \A i \in (l - j + 1)..l : path[i].role = "proxy"
      BY <1>3, <1>4, <2>3
    <3>2. j \in 1..(l - 1)
      BY <1>3, <1>4
    <3>3. Len(e) >= j /\ e[Len(e) - j + 1] = path[l - j].at
      BY <1>1, <1>3, <2>5, <3>1, <3>2 DEF AddressInv, Travelled
    <3>4. path[l - j] \in Hosts
      BY <1>3, <1>5, <3>2
    <3>5. path[l - j].at.fam # "junk"
      BY <3>4, AddressAssumption
    <3> QED
      BY <3>3, <3>5 DEF Nowhere
  <2>7. Len(e) \in Nat /\ n \in 1..n /\ n \in Nat
    BY <1>3, <1>4, <1>9
  <2>8. PICK m \in 1..Len(e) : m = Len(e) - n + 1
    BY <2>6, <2>7
  <2>9. e[m] = path[l - n].at /\ e[m] # Nowhere /\ ~Listed(e[m])
    BY <1>4, <2>6, <2>7, <2>8
  <2>10. Resolve(wire.xff, result.client, Peer.at)
           = IF server.auto THEN Walk(e, result.client) ELSE Nth(e, result.client, server.hops)
    BY <2>2, <2>4, <2>5 DEF Resolve
  <2>11. CASE server.auto
    <3>1. ASSUME NEW i \in (m + 1)..Len(e) PROVE e[i] # Nowhere /\ Listed(e[i])
      <4>1. PICK j \in 1..n : j = Len(e) - i + 1
        BY <2>7, <2>8
      <4>2. i = Len(e) - j + 1 /\ l - j \in (l - n + 1)..l
        BY <1>3, <2>7, <2>8, <4>1
      <4> QED
        BY <1>4, <2>6, <4>1, <4>2
    <3>2. LastUnlisted(e) = m
      BY <2>9, <3>1, LastUnlistedIs
    <3>3. n <= MaxWalk /\ MaxWalk \in Nat
      BY <1>2, <2>11, AddressAssumption DEF Counted
    <3>4. ~(Len(e) - m >= MaxWalk) /\ e # <<>> /\ m # 0
      BY <2>7, <2>8, <3>3
    <3>5. Walk(e, result.client) = Used(e[m])
      BY <2>9, <3>2, <3>4 DEF Walk
    <3> QED
      BY <1>2, <1>3, <1>7, <1>9, <2>9, <2>10, <2>11, <3>5 DEF Used
  <2>12. CASE ~server.auto
    <3>1. n = server.hops /\ server.hops \in 1..MaxHops /\ MaxHops \in Nat
      BY <1>2, <1>9, <2>12, AddressAssumption DEF Counted, AddressInv, AddressShape, ForwardersOk
    <3>2. ~(server.hops > MaxHops) /\ ~(Len(e) < n)
      BY <2>6, <2>7, <3>1
    <3>3. Nth(e, result.client, server.hops) = Used(e[m])
      BY <2>8, <2>9, <3>1, <3>2 DEF Nth
    <3> QED
      BY <1>2, <1>3, <1>7, <1>9, <2>9, <2>10, <2>12, <3>3 DEF Used
  <2> QED
    BY <2>11, <2>12
<1> QED
  BY <1>8, <1>9

\* The invariant gives the property.
LEMMA AddressInvGives == AddressInv => AddressIsTheClients
<1>1. SUFFICES ASSUME AddressInv PROVE AddressIsTheClients
  OBVIOUS
<1>2. ServedAsItsClient
  <2>1. SUFFICES ASSUME Counted PROVE result.ip = Canonical(TrueClient.at)
    BY DEF ServedAsItsClient
  <2>2. stage = "answered" /\ AddressDeployed
    BY <2>1 DEF Counted
  <2>3. PICK n : n = Proxies
    OBVIOUS
  <2>4. PICK l \in Nat : l = Len(path) /\ l >= 1
    <3>1. path \in Seq(Hosts) /\ path # <<>>
      BY <1>1, <2>2 DEF AddressInv, AddressShape, Travelled
    <3> QED
      BY <3>1
  <2>5. n \in 0..(l - 1) /\ (\A i \in (l - n + 1)..l : Listed(path[i].at)) /\ ~Listed(path[l - n].at)
    BY <1>1, <2>2, <2>3, <2>4, ProxiesAre
  <2>6. Peer = path[l] /\ Peer \in Hosts
    BY <1>1, <2>4 DEF Peer, AddressInv, AddressShape
  <2>7. CASE n = 0
    <3>1. result.ip = Canonical(result.client)
      BY <1>1, <2>1, <2>3, <2>7, ResolvedIs
    <3>2. result.client = IF server.pp /\ Peer.role = "balancer" THEN path[l - 1].at ELSE Peer.at
      BY <1>1, <2>2, <2>4, ClientIs
    <3>3. l - 0 = l
      BY <2>4
    <3>4. TrueClient.at = result.client
      BY <2>3, <2>4, <2>6, <2>7, <3>2, <3>3 DEF TrueClient
    <3> QED
      BY <3>1, <3>4
  <2>8. CASE n # 0
    <3>1. result.ip = Canonical(path[l - n].at)
      BY <1>1, <2>1, <2>3, <2>4, <2>8, ResolvedIs
    <3>2. Listed(Peer.at)
      BY <2>4, <2>5, <2>6, <2>8
    <3>3. Peer.role # "balancer"
      BY <2>2, <2>6, <3>2 DEF AddressDeployed, Listed
    <3> QED
      BY <2>3, <2>4, <3>1, <3>3 DEF TrueClient
  <2> QED
    BY <2>7, <2>8
<1>3. DeniedStaysOut
  <2>1. SUFFICES ASSUME Counted, In(server.deny, Canonical(TrueClient.at)) PROVE result.verdict = "denied"
    BY DEF DeniedStaysOut
  <2>2. stage = "answered" /\ result.ip = Canonical(TrueClient.at)
    BY <1>2, <2>1 DEF ServedAsItsClient, Counted
  <2>3. ~Allowed(result.ip)
    BY <2>1, <2>2 DEF Allowed
  <2> QED
    BY <1>1, <2>2, <2>3 DEF AddressInv, Resolved
<1> QED
  BY <1>1, <1>2, <1>3 DEF AddressIsTheClients, AddressInv

\* A request is served as the client that sent it, however its bytes were cut into reads and whatever
\* it wrote, for any hosts, settings, address widths, headers and any length of the path: a proxy in
\* front that is listed has appended who called it, a balancer's header comes first and is read the
\* same from any of its pieces.
THEOREM ClientsAreKnown == AddressSpec => []AddressIsTheClients
<1>1. AddressInv /\ [AddressNext]_addressVars => AddressInv'
  BY SendsStep, ThroughProxyStep, ThroughBalancerStep, ArriveStep, ReadMoreStep, ClosesEarlyStep,
     HeaderReadStep, TakeRequestStep, AddressStays DEF AddressNext
<1> QED
  BY <1>1, AddressStart, AddressInvGives, PTL DEF AddressSpec
=============================================================================
