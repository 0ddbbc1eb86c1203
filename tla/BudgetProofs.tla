---------------------------- MODULE BudgetProofs ----------------------------
(***************************************************************************)
(* Proofs about Budget, for any requests, budgets, spends, faults and      *)
(* number of retries: no counter understates what its window's requests    *)
(* hold and have spent, none passes its limit by more than what estimates  *)
(* missed, and one that has drifted is reported.                           *)
(***************************************************************************)
EXTENDS Budget, FiniteSetTheorems, WellFoundedInduction, TLAPS

----------------------------------------------------------------------------
(* Sums over a finite set. *)

\* A set of numbers that is not empty has a least element.
LEMMA LeastElement ==
    ASSUME NEW T, T \subseteq Nat, T # {}
    PROVE  \E x \in T : \A y \in T : x <= y
<1> DEFINE R == OpToRel(<, Nat)
<1>1. \E x \in T : \A y \in T : ~ (<<y, x>> \in R)
  <2>1. IsWellFoundedOn(R, Nat)
    BY NatLessThanWellFounded
  <2> HIDE DEF R
  <2> QED
    BY <2>1, WFMin
<1>2. ASSUME NEW x \in T, NEW y \in T, ~ (<<y, x>> \in R)
      PROVE  x <= y
  BY <1>2 DEF OpToRel
<1> QED
  BY <1>1, <1>2

Pick(s) == CHOOSE x \in s : TRUE

\* f sums w over every subset of D that has at most n elements.
SumsUpTo(D, w, f, n) ==
    /\ f \in [SUBSET D -> Int]
    /\ \A s \in SUBSET D : Cardinality(s) <= n =>
          f[s] = IF s = {} THEN 0 ELSE w[Pick(s)] + f[s \ {Pick(s)}]

\* A subset without the element picked is smaller.
LEMMA Smaller ==
    ASSUME NEW D, IsFiniteSet(D), NEW s \in SUBSET D, s # {}
    PROVE  /\ Pick(s) \in s /\ s \ {Pick(s)} \in SUBSET D
           /\ Cardinality(s) \in Nat \ {0} /\ Cardinality(s \ {Pick(s)}) = Cardinality(s) - 1
<1>1. Pick(s) \in s
  BY DEF Pick
<1>2. IsFiniteSet(s)
  BY FS_Subset
<1>3. Cardinality(s) \in Nat /\ Cardinality(s) # 0
  BY <1>2, FS_CardinalityType, FS_EmptySet
<1>4. Cardinality(s \ {Pick(s)}) = Cardinality(s) - 1
  BY <1>1, <1>2, FS_RemoveElement
<1> QED
  BY <1>1, <1>3, <1>4

\* There is such a function for every n.
LEMMA SumsExist ==
    ASSUME NEW D, IsFiniteSet(D), NEW w \in [D -> Int], NEW n \in Nat
    PROVE  \E f : SumsUpTo(D, w, f, n)
<1> DEFINE Bad == {m \in Nat : ~ \E f : SumsUpTo(D, w, f, m)}
<1>1. SUFFICES ASSUME Bad # {} PROVE FALSE
  OBVIOUS
<1>2. PICK m \in Bad : \A y \in Bad : m <= y
  <2>1. Bad \subseteq Nat
    OBVIOUS
  <2> HIDE DEF Bad
  <2> QED
    BY <1>1, <2>1, LeastElement
<1>3. CASE m = 0
  <2> DEFINE f == [s \in SUBSET D |-> 0]
  <2>1. ASSUME NEW s \in SUBSET D, Cardinality(s) <= 0 PROVE s = {}
    <3>1. SUFFICES ASSUME s # {} PROVE FALSE
      OBVIOUS
    <3>2. Cardinality(s) \in Nat \ {0}
      BY <3>1, Smaller
    <3> QED
      BY <2>1, <3>2
  <2>2. SumsUpTo(D, w, f, 0)
    BY <2>1 DEF SumsUpTo
  <2> QED
    BY <1>2, <1>3, <2>2
<1>4. CASE m # 0
  <2>1. m \in Nat /\ m - 1 \in Nat /\ m - 1 \notin Bad
    BY <1>2, <1>4
  <2>2. PICK f : SumsUpTo(D, w, f, m - 1)
    BY <2>1
  <2> DEFINE g == [s \in SUBSET D |-> IF s # {} /\ Cardinality(s) = m THEN w[Pick(s)] + f[s \ {Pick(s)}] ELSE f[s]]
  <2>3. f \in [SUBSET D -> Int]
    BY <2>2 DEF SumsUpTo
  <2>4. ASSUME NEW s \in SUBSET D, s # {}
        PROVE  /\ w[Pick(s)] \in Int /\ f[s \ {Pick(s)}] \in Int
               /\ Cardinality(s) \in Nat /\ Cardinality(s \ {Pick(s)}) = Cardinality(s) - 1
               /\ s \ {Pick(s)} \in SUBSET D
    <3>1. /\ Pick(s) \in D /\ s \ {Pick(s)} \in SUBSET D
          /\ Cardinality(s) \in Nat /\ Cardinality(s \ {Pick(s)}) = Cardinality(s) - 1
      BY <2>4, Smaller
    <3>2. w[Pick(s)] \in Int /\ f[s \ {Pick(s)}] \in Int
      BY <2>3, <3>1
    <3> QED
      BY <3>1, <3>2
  <2>5. g \in [SUBSET D -> Int]
    BY <2>3, <2>4
  <2>6. ASSUME NEW s \in SUBSET D, Cardinality(s) <= m
        PROVE  g[s] = IF s = {} THEN 0 ELSE w[Pick(s)] + g[s \ {Pick(s)}]
    <3>1. CASE s = {}
      <4>1. Cardinality(s) = 0
        BY <3>1, FS_EmptySet
      <4>2. f[s] = 0
        BY <2>1, <2>2, <3>1, <4>1 DEF SumsUpTo
      <4> QED
        BY <3>1, <4>2
    <3>2. CASE s # {}
      <4> DEFINE t == s \ {Pick(s)}
      <4>1. t \in SUBSET D /\ Cardinality(t) # m /\ Cardinality(s) \in Nat
        <5>1. t \in SUBSET D /\ Cardinality(s) \in Nat /\ Cardinality(t) = Cardinality(s) - 1
          BY <2>4, <3>2
        <5> QED
          BY <2>1, <2>6, <5>1
      <4>2. g[t] = f[t]
        BY <4>1
      <4>3. CASE Cardinality(s) = m
        BY <3>2, <4>2, <4>3
      <4>4. CASE Cardinality(s) # m
        <5>1. Cardinality(s) <= m - 1
          BY <2>1, <2>6, <4>1, <4>4
        <5>2. f[s] = w[Pick(s)] + f[t]
          BY <2>2, <3>2, <5>1 DEF SumsUpTo
        <5> QED
          BY <3>2, <4>2, <4>4, <5>2
      <4> QED
        BY <4>3, <4>4
    <3> QED
      BY <3>1, <3>2
  <2>7. SumsUpTo(D, w, g, m)
    BY <2>5, <2>6 DEF SumsUpTo
  <2> QED
    BY <1>2, <2>7
<1> QED
  BY <1>3, <1>4

\* A set of subsets that is not empty has one that is empty, or that leaves the set when the element
\* picked leaves it.
LEMMA SmallestSubset ==
    ASSUME NEW D, IsFiniteSet(D), NEW Bad \in SUBSET SUBSET D, Bad # {}
    PROVE  \E s \in Bad : s # {} => /\ Pick(s) \in s /\ Pick(s) \in D
                                    /\ s \ {Pick(s)} \in SUBSET D /\ s \ {Pick(s)} \notin Bad
<1> DEFINE Sizes == {Cardinality(s) : s \in Bad}
<1>1. Sizes \subseteq Nat /\ Sizes # {}
  <2>1. \A s \in Bad : IsFiniteSet(s)
    BY FS_Subset
  <2> QED
    BY <2>1, FS_CardinalityType
<1>2. PICK n \in Sizes : \A m \in Sizes : n <= m
  <2> HIDE DEF Sizes
  <2> QED
    BY <1>1, LeastElement
<1>3. PICK s \in Bad : n = Cardinality(s)
  BY <1>2
<1>4. ASSUME s # {}
      PROVE  /\ Pick(s) \in s /\ Pick(s) \in D
             /\ s \ {Pick(s)} \in SUBSET D /\ s \ {Pick(s)} \notin Bad
  <2>1. /\ Pick(s) \in s /\ s \ {Pick(s)} \in SUBSET D
        /\ Cardinality(s) \in Nat \ {0} /\ Cardinality(s \ {Pick(s)}) = Cardinality(s) - 1
    BY <1>4, Smaller
  <2>2. s \ {Pick(s)} \in Bad => Cardinality(s) <= Cardinality(s) - 1
    BY <1>2, <1>3, <2>1
  <2> QED
    BY <2>1, <2>2
<1> QED
  BY <1>4

\* f is the sum of w over every subset of D.
Sums(D, w, f) ==
    /\ f \in [SUBSET D -> Int]
    /\ \A s \in SUBSET D : f[s] = IF s = {} THEN 0 ELSE w[Pick(s)] + f[s \ {Pick(s)}]

\* The sum of a function is what the one that sums over every subset has at its domain.
LEMMA SumIs ==
    ASSUME NEW D, IsFiniteSet(D), NEW w \in [D -> Int]
    PROVE  \E f : Sums(D, w, f) /\ SumFunction(w) = f[D]
<1> DEFINE Eq(f) == f = [s \in SUBSET D |-> IF s = {} THEN 0 ELSE w[Pick(s)] + f[s \ {Pick(s)}]]
           iter == CHOOSE f : Eq(f)
<1>1. SumFunction(w) = iter[D]
  <2>1. DOMAIN w = D
    OBVIOUS
  <2> QED
    BY <2>1 DEF SumFunction, SumFunctionOnSet, FoldFunctionOnSet, MapThenFoldSet, Pick
<1>2. Cardinality(D) \in Nat
  BY FS_CardinalityType
<1>3. PICK f : SumsUpTo(D, w, f, Cardinality(D))
  BY <1>2, SumsExist
<1>4. Eq(f)
  <2>1. \A s \in SUBSET D : Cardinality(s) <= Cardinality(D)
    BY FS_Subset
  <2> QED
    BY <1>3, <2>1 DEF SumsUpTo
<1>5. Eq(iter)
  <2> HIDE DEF Eq
  <2> QED
    BY <1>4
<1> HIDE DEF iter
<1>6. \A s \in SUBSET D : iter[s] = IF s = {} THEN 0 ELSE w[Pick(s)] + iter[s \ {Pick(s)}]
  BY <1>5
<1>7. \A s \in SUBSET D : iter[s] \in Int
  <2> DEFINE Bad == {s \in SUBSET D : iter[s] \notin Int}
  <2>1. SUFFICES ASSUME Bad # {} PROVE FALSE
    OBVIOUS
  <2>2. PICK s \in Bad : s # {} => /\ Pick(s) \in s /\ Pick(s) \in D
                                   /\ s \ {Pick(s)} \in SUBSET D /\ s \ {Pick(s)} \notin Bad
    <3>1. Bad \in SUBSET SUBSET D
      OBVIOUS
    <3> HIDE DEF Bad
    <3> QED
      BY <2>1, <3>1, SmallestSubset
  <2>3. s \in SUBSET D /\ iter[s] \notin Int
    BY <2>2
  <2>4. CASE s = {}
    <3>1. iter[s] = IF s = {} THEN 0 ELSE w[Pick(s)] + iter[s \ {Pick(s)}]
      BY <1>6, <2>3
    <3> QED
      BY <2>3, <2>4, <3>1
  <2>5. CASE s # {}
    <3>1. w[Pick(s)] \in Int /\ iter[s \ {Pick(s)}] \in Int
      BY <2>2, <2>5
    <3>2. iter[s] = w[Pick(s)] + iter[s \ {Pick(s)}]
      BY <1>6, <2>3, <2>5
    <3> QED
      BY <2>3, <3>1, <3>2
  <2> QED
    BY <2>4, <2>5
<1>8. iter \in [SUBSET D -> Int]
  BY <1>5, <1>7
<1>9. Sums(D, w, iter)
  BY <1>6, <1>8 DEF Sums
<1> QED
  BY <1>1, <1>9

\* Two sums: if the weights differ at r only, so do the sums; if one's are at most the other's, so are
\* its sums.
LEMMA SumsOfTwo ==
    ASSUME NEW D, IsFiniteSet(D), NEW w \in [D -> Int], NEW v \in [D -> Int]
    PROVE  /\ \A r \in D : (\A x \in D : x # r => v[x] = w[x])
                 => SumFunction(v) = SumFunction(w) + v[r] - w[r]
           /\ (\A x \in D : w[x] <= v[x]) => SumFunction(w) <= SumFunction(v)
<1>1. PICK f : Sums(D, w, f) /\ SumFunction(w) = f[D]
  BY SumIs
<1>2. PICK g : Sums(D, v, g) /\ SumFunction(v) = g[D]
  BY SumIs
<1>3. \A s \in SUBSET D : f[s] \in Int /\ g[s] \in Int
  BY <1>1, <1>2 DEF Sums
<1>4. ASSUME NEW s \in SUBSET D
      PROVE  /\ s = {} => f[s] = 0 /\ g[s] = 0
             /\ s # {} => /\ f[s] = w[Pick(s)] + f[s \ {Pick(s)}]
                          /\ g[s] = v[Pick(s)] + g[s \ {Pick(s)}]
  BY <1>1, <1>2 DEF Sums
<1>5. ASSUME NEW r \in D, \A x \in D : x # r => v[x] = w[x]
      PROVE  SumFunction(v) = SumFunction(w) + v[r] - w[r]
  <2> DEFINE Bad == {s \in SUBSET D : g[s] # f[s] + (IF r \in s THEN v[r] - w[r] ELSE 0)}
  <2>1. Bad = {}
    <3>1. SUFFICES ASSUME Bad # {} PROVE FALSE
      OBVIOUS
    <3>2. PICK s \in Bad : s # {} => /\ Pick(s) \in s /\ Pick(s) \in D
                                     /\ s \ {Pick(s)} \in SUBSET D /\ s \ {Pick(s)} \notin Bad
      <4>1. Bad \in SUBSET SUBSET D
        OBVIOUS
      <4> HIDE DEF Bad
      <4> QED
        BY <3>1, <4>1, SmallestSubset
    <3>3. s \in SUBSET D /\ g[s] # f[s] + (IF r \in s THEN v[r] - w[r] ELSE 0)
      BY <3>2
    <3>4. v[r] \in Int /\ w[r] \in Int
      OBVIOUS
    <3>5. CASE s = {}
      <4>1. f[s] = 0 /\ g[s] = 0
        BY <1>4, <3>5
      <4> QED
        BY <3>3, <3>5, <4>1
    <3>6. CASE s # {}
      <4> DEFINE x == Pick(s)
                 t == s \ {x}
      <4>1. x \in s /\ x \in D /\ t \in SUBSET D /\ g[t] = f[t] + (IF r \in t THEN v[r] - w[r] ELSE 0)
        BY <3>2, <3>6
      <4>2. f[s] = w[x] + f[t] /\ g[s] = v[x] + g[t] /\ f[t] \in Int /\ g[t] \in Int /\ w[x] \in Int /\ v[x] \in Int
        BY <1>3, <1>4, <3>3, <3>6, <4>1
      <4>3. r \in s <=> (x = r \/ r \in t)
        BY <4>1
      <4>4. x # r => v[x] = w[x]
        BY <1>5, <4>1
      <4>5. x = r => r \notin t
        OBVIOUS
      <4> HIDE DEF x, t
      <4> QED
        BY <3>3, <3>4, <4>1, <4>2, <4>3, <4>4, <4>5
    <3> QED
      BY <3>5, <3>6
  <2>2. g[D] = f[D] + (v[r] - w[r])
    BY <2>1
  <2> QED
    BY <1>1, <1>2, <1>3, <2>2
<1>6. ASSUME \A x \in D : w[x] <= v[x]
      PROVE  SumFunction(w) <= SumFunction(v)
  <2> DEFINE Bad == {s \in SUBSET D : ~ (f[s] <= g[s])}
  <2>1. Bad = {}
    <3>1. SUFFICES ASSUME Bad # {} PROVE FALSE
      OBVIOUS
    <3>2. PICK s \in Bad : s # {} => /\ Pick(s) \in s /\ Pick(s) \in D
                                     /\ s \ {Pick(s)} \in SUBSET D /\ s \ {Pick(s)} \notin Bad
      <4>1. Bad \in SUBSET SUBSET D
        OBVIOUS
      <4> HIDE DEF Bad
      <4> QED
        BY <3>1, <4>1, SmallestSubset
    <3>3. s \in SUBSET D /\ ~ (f[s] <= g[s])
      BY <3>2
    <3>5. CASE s = {}
      <4>1. f[s] = 0 /\ g[s] = 0
        BY <1>4, <3>5
      <4> QED
        BY <3>3, <3>5, <4>1
    <3>6. CASE s # {}
      <4> DEFINE x == Pick(s)
                 t == s \ {x}
      <4>1. x \in D /\ t \in SUBSET D /\ f[t] <= g[t]
        BY <3>2, <3>6
      <4>2. f[s] = w[x] + f[t] /\ g[s] = v[x] + g[t] /\ f[t] \in Int /\ g[t] \in Int /\ w[x] \in Int /\ v[x] \in Int
        BY <1>3, <1>4, <3>3, <3>6, <4>1
      <4>3. w[x] <= v[x]
        BY <1>6, <4>1
      <4> HIDE DEF x, t
      <4> QED
        BY <3>3, <4>1, <4>2, <4>3
    <3> QED
      BY <3>5, <3>6
  <2>2. f[D] <= g[D]
    BY <2>1
  <2> QED
    BY <1>1, <1>2, <2>2
<1> QED
  BY <1>5, <1>6

\* A sum is an integer, and that of zeros is zero.
LEMMA SumOfOne ==
    ASSUME NEW D, IsFiniteSet(D), NEW w \in [D -> Int]
    PROVE  /\ SumFunction(w) \in Int
           /\ (\A x \in D : w[x] = 0) => SumFunction(w) = 0
           /\ (\A x \in D : w[x] >= 0) => SumFunction(w) >= 0
<1>1. PICK f : Sums(D, w, f) /\ SumFunction(w) = f[D]
  BY SumIs
<1>2. f[D] \in Int
  BY <1>1 DEF Sums
<1>3. ASSUME \A x \in D : w[x] = 0 PROVE f[D] = 0
  <2> DEFINE Bad == {s \in SUBSET D : f[s] # 0}
  <2>1. SUFFICES ASSUME Bad # {} PROVE FALSE
    OBVIOUS
  <2>2. PICK s \in Bad : s # {} => /\ Pick(s) \in s /\ Pick(s) \in D
                                   /\ s \ {Pick(s)} \in SUBSET D /\ s \ {Pick(s)} \notin Bad
    <3>1. Bad \in SUBSET SUBSET D
      OBVIOUS
    <3> HIDE DEF Bad
    <3> QED
      BY <2>1, <3>1, SmallestSubset
  <2>3. s \in SUBSET D /\ f[s] # 0
    BY <2>2
  <2>4. s # {} => w[Pick(s)] = 0 /\ f[s \ {Pick(s)}] = 0
    BY <1>3, <2>2
  <2>5. f[s] = IF s = {} THEN 0 ELSE w[Pick(s)] + f[s \ {Pick(s)}]
    BY <1>1, <2>3 DEF Sums
  <2> QED
    BY <2>3, <2>4, <2>5
<1>4. ASSUME \A x \in D : w[x] >= 0 PROVE f[D] >= 0
  <2> DEFINE Bad == {s \in SUBSET D : ~ (f[s] >= 0)}
  <2>1. SUFFICES ASSUME Bad # {} PROVE FALSE
    OBVIOUS
  <2>2. PICK s \in Bad : s # {} => /\ Pick(s) \in s /\ Pick(s) \in D
                                   /\ s \ {Pick(s)} \in SUBSET D /\ s \ {Pick(s)} \notin Bad
    <3>1. Bad \in SUBSET SUBSET D
      OBVIOUS
    <3> HIDE DEF Bad
    <3> QED
      BY <2>1, <3>1, SmallestSubset
  <2>3. s \in SUBSET D /\ ~ (f[s] >= 0)
    BY <2>2
  <2>4. s # {} => /\ w[Pick(s)] >= 0 /\ f[s \ {Pick(s)}] >= 0
                  /\ w[Pick(s)] \in Int /\ f[s \ {Pick(s)}] \in Int
    BY <1>1, <1>4, <2>2 DEF Sums
  <2>5. f[s] = IF s = {} THEN 0 ELSE w[Pick(s)] + f[s \ {Pick(s)}]
    BY <1>1, <2>3 DEF Sums
  <2> QED
    BY <2>3, <2>4, <2>5
<1> QED
  BY <1>1, <1>2, <1>3, <1>4

----------------------------------------------------------------------------
(* Windows and keys. *)

\* Later times are in later windows, and a time in no later window is less than a window later.
LEMMA Windows ==
    ASSUME NEW W \in Nat \ {0}, NEW s \in Nat, NEW t \in Nat
    PROVE  /\ s \div W \in Nat
           /\ s <= t => s \div W <= t \div W
           /\ s \div W <= t \div W => s < t + W
<1> DEFINE q == s \div W
           p == t \div W
<1>1. q \in Int /\ p \in Int /\ q * W <= s /\ s < q * W + W /\ p * W <= t /\ t < p * W + W
  OBVIOUS
<1> HIDE DEF q, p
<1>2. q \in Nat
  <2>1. q < 0 => q * W + W <= 0
    BY <1>1
  <2> QED
    BY <1>1, <2>1
<1>3. s <= t => q <= p
  <2>1. q > p => q * W >= p * W + W
    BY <1>1
  <2> QED
    BY <1>1, <2>1
<1>4. q <= p => s < t + W
  <2>1. q <= p => q * W <= p * W
    BY <1>1
  <2> QED
    BY <1>1, <2>1
<1> QED
  BY <1>2, <1>3, <1>4 DEF q, p

(***************************************************************************)
(* The inductive invariant.  Each request stands for a part of the counter *)
(* of every budget it holds: its estimate, and once the marker is set what *)
(* it spent.  While a window lasts its counter is at least the sum of the  *)
(* parts, exactly the sum unless a request was cut short or a failure was  *)
(* recorded, and above its limit by at most what the settled requests      *)
(* spent beyond their estimates.                                           *)
(***************************************************************************)
RequestType ==
    [pc : RequestStates, gen : Generations, at : 0..MaxTime, estimate : Spends, actual : Spends,
     b : 1..(Len(Budgets) + 1), held : SUBSET BudgetIds, todo : SUBSET BudgetIds,
     attempt : 1..Attempts, outcome : {"none", "denied", "error", "open", "admitted"},
     failures : 0..Len(Budgets), spawned : BOOLEAN, unacked : BOOLEAN]

Shape ==
    /\ now \in 0..MaxTime /\ current \in Generations /\ drift \in Nat
    /\ used \in [Keys -> Nat] /\ expires \in [Keys -> Nat]
    /\ settled \subseteq Requests \X BudgetIds
    /\ req \in [Requests -> RequestType]

\* Budget b of request r needs no settling: it is settled, or was estimated exactly.
Exact(r, b) == <<r, b>> \in settled \/ Actual(r, b) = Estimated(r, b)

\* A request that is still to be admitted.
Young(r) ==
    req[r].pc \in {"idle", "reserving"} =>
        /\ req[r].actual = Zero /\ req[r].failures = 0 /\ ~req[r].unacked
        /\ \A b \in BudgetIds : <<r, b>> \notin settled
        /\ \A b \in req[r].held : b < req[r].b
        /\ req[r].pc = "idle" => req[r].held = {}

\* One that was.
Admitted(r) ==
    req[r].pc = "forwarded" => /\ req[r].failures = 0
                               /\ \A b \in req[r].held : <<r, b>> \notin settled

\* One whose reservation is settled or rolled back: what is not to do is done, or has failed.
Closing(r) ==
    /\ req[r].pc \in {"rolling", "settling"} =>
          /\ req[r].todo \subseteq req[r].held
          /\ \A b \in req[r].held : b \in req[r].todo \/ Exact(r, b) \/ req[r].failures > 0
    /\ req[r].pc = "rolling" => req[r].actual = Zero
    /\ req[r].pc = "done" => IF req[r].failures = 0 THEN \A b \in req[r].held : Exact(r, b)
                                                     ELSE drift > 0

\* A budget fails at most once.
Failing(r) ==
    /\ req[r].failures + Cardinality(req[r].todo) <= Len(Budgets)
    /\ req[r].pc \notin {"rolling", "settling"} => req[r].todo = {}

RequestInv(r) == req[r].at <= now /\ Young(r) /\ Admitted(r) /\ Closing(r) /\ Failing(r)

\* A counter in the store outlives its window.
KeyInv(k) ==
    /\ expires[k] = 0 => used[k] = 0
    /\ \A t \in Nat : expires[k] # 0 /\ Window(k.budget, t) <= k.window => t < expires[k]

Part(r, b) == IF <<r, b>> \in settled THEN Actual(r, b) ELSE Estimated(r, b)
Paid(r, b) == IF <<r, b>> \in settled THEN Excess(r, b) ELSE 0

PartIn(k, r) == IF r \in Holders(k) THEN Part(r, k.budget) ELSE 0
PaidIn(k, r) == IF r \in Holders(k) THEN Paid(r, k.budget) ELSE 0
Parts(k)     == SumFunction([r \in Requests |-> PartIn(k, r)])
PaidFor(k)   == SumFunction([r \in Requests |-> PaidIn(k, r)])

\* The key's window is not over.
Open(k) == Window(k.budget, now) <= k.window

Undisturbed == drift = 0 /\ \A r \in Requests : ~CutShort(r)

SumInv(k) ==
    Open(k) => /\ Parts(k) <= used[k]
               /\ used[k] <= Budgets[k.budget].limit + PaidFor(k)
               /\ Undisturbed => used[k] = Parts(k)

BudgetInv ==
    /\ Shape
    /\ \A r \in Requests : RequestInv(r)
    /\ \A k \in Keys : KeyInv(k) /\ SumInv(k)

----------------------------------------------------------------------------
(* What the constants and the types give. *)

\* An element of a sequence is of its element type.
LEMMA ElementOf ==
    ASSUME NEW S, NEW q \in Seq(S), NEW i \in 1..Len(q)
    PROVE  q[i] \in S /\ i \in Nat \ {0} /\ Len(q) \in Nat
  OBVIOUS

\* The configured budgets: a positive limit and window each, and every spend amounts to a number in
\* their unit.
LEMMA BudgetFacts ==
    /\ Len(Budgets) \in Nat
    /\ \A b \in BudgetIds : /\ b \in Nat \ {0} /\ Budgets[b].limit \in Nat /\ Budgets[b].window \in Nat \ {0}
                            /\ \A s \in Spends : Amount(b, s) \in Nat
    /\ Zero \in Spends /\ \A b \in BudgetIds : Amount(b, Zero) = 0
<1>1. Len(Budgets) \in Nat
  BY BudgetAssumption
<1>2. ASSUME NEW b \in BudgetIds
      PROVE  /\ Budgets[b] \in [unit : Units, limit : Nat \ {0}, window : Nat \ {0}]
             /\ b \in Nat \ {0}
  <2> DEFINE S == [unit : Units, limit : Nat \ {0}, window : Nat \ {0}]
  <2>1. Budgets \in Seq(S) /\ b \in 1..Len(Budgets)
    BY BudgetAssumption, <1>2 DEF BudgetIds
  <2> HIDE DEF S
  <2>2. Budgets[b] \in S /\ b \in Nat \ {0}
    BY <2>1, ElementOf
  <2> QED
    BY <2>2 DEF S
<1>3. ASSUME NEW b \in BudgetIds, NEW s \in Spends
      PROVE  Amount(b, s) \in Nat
  BY BudgetAssumption, <1>2, <1>3 DEF Amount
<1>4. ASSUME NEW b \in BudgetIds
      PROVE  Amount(b, Zero) = 0
  BY <1>2, <1>4 DEF Amount, Zero
<1> QED
  BY BudgetAssumption, <1>1, <1>2, <1>3, <1>4

\* What is known of a request, of its amounts and of its keys.
LEMMA RequestFacts ==
    ASSUME Shape, NEW r \in Requests
    PROVE  /\ req[r] \in RequestType
           /\ \A b \in BudgetIds : /\ Estimated(r, b) \in Nat /\ Actual(r, b) \in Nat
                                   /\ Part(r, b) \in Nat /\ Paid(r, b) \in Nat /\ Excess(r, b) \in Nat
                                   /\ Key(r, b).budget = b
                                   /\ Key(r, b).window = Window(b, req[r].at)
                                   /\ req[r].at <= now => Key(r, b) \in Keys
<1>1. req[r] \in RequestType
  BY DEF Shape
<1>2. req[r].estimate \in Spends /\ req[r].actual \in Spends /\ req[r].at \in Nat /\ req[r].at <= MaxTime
      /\ req[r].gen \in Generations
  BY <1>1, BudgetAssumption DEF RequestType
<1>3. ASSUME NEW b \in BudgetIds
      PROVE  /\ Estimated(r, b) \in Nat /\ Actual(r, b) \in Nat
             /\ Part(r, b) \in Nat /\ Paid(r, b) \in Nat /\ Excess(r, b) \in Nat
  <2>1. Estimated(r, b) \in Nat /\ Actual(r, b) \in Nat
    BY <1>2, BudgetFacts DEF Estimated, Actual
  <2> QED
    BY <2>1 DEF Part, Paid, Excess
<1>4. ASSUME NEW b \in BudgetIds
      PROVE  /\ Key(r, b).budget = b
             /\ Key(r, b).window = Window(b, req[r].at)
             /\ Key(r, b) \in Keys
  <2>1. Key(r, b).budget = b /\ Key(r, b).window = Window(b, req[r].at)
    BY DEF Key
  <2>2. Window(b, req[r].at) \in 0..Window(b, MaxTime)
    <3>1. Budgets[b].window \in Nat \ {0} /\ MaxTime \in Nat
      BY BudgetFacts, BudgetAssumption
    <3> QED
      BY <1>2, <3>1, Windows DEF Window
  <2>3. Key(r, b) \in [store : {StoreOf(g) : g \in Generations}, budget : {b},
                       dim : {Dims[x][b] : x \in Requests}, window : 0..Window(b, MaxTime)]
    BY <1>2, <2>2 DEF Key
  <2> QED
    BY <2>1, <2>3 DEF Keys
<1> QED
  BY <1>1, <1>3, <1>4

\* A counter's key names a configured budget and a window of it.
LEMMA KeyFacts ==
    ASSUME NEW k \in Keys
    PROVE  k.budget \in BudgetIds /\ k.window \in Nat
<1>1. PICK b \in BudgetIds : k \in [store : {StoreOf(g) : g \in Generations}, budget : {b},
                       dim : {Dims[x][b] : x \in Requests}, window : 0..Window(b, MaxTime)]
  BY DEF Keys
<1>2. k.budget = b /\ k.window \in 0..Window(b, MaxTime)
  BY <1>1
<1> QED
  BY <1>2

\* A counter whose window is not over is in the store, or never was.
LEMMA ValueIsUsed ==
    ASSUME Shape, NEW k \in Keys, KeyInv(k), Open(k)
    PROVE  Value(k) = used[k]
<1>1. used[k] \in Nat /\ expires[k] \in Nat /\ now \in Nat
  BY BudgetAssumption DEF Shape
<1>2. CASE expires[k] = 0
  BY <1>1, <1>2 DEF KeyInv, Value
<1>3. CASE expires[k] # 0
  BY <1>1, <1>3 DEF KeyInv, Value, Open
<1> QED
  BY <1>2, <1>3

\* The weights and their sums are numbers.
LEMMA WeightFacts ==
    ASSUME Shape, NEW k \in Keys
    PROVE  /\ [r \in Requests |-> PartIn(k, r)] \in [Requests -> Int]
           /\ [r \in Requests |-> PaidIn(k, r)] \in [Requests -> Int]
           /\ \A r \in Requests : PartIn(k, r) \in Nat /\ PaidIn(k, r) \in Nat
           /\ Parts(k) \in Int /\ PaidFor(k) \in Int /\ PaidFor(k) >= 0
           /\ \A r \in Requests : PartIn(k, r) <= Parts(k)
<1>1. \A r \in Requests : PartIn(k, r) \in Nat /\ PaidIn(k, r) \in Nat
  BY KeyFacts, RequestFacts DEF PartIn, PaidIn
<1> DEFINE w == [r \in Requests |-> PartIn(k, r)]
           v == [r \in Requests |-> PaidIn(k, r)]
<1>2. w \in [Requests -> Int] /\ v \in [Requests -> Int]
  BY <1>1
<1>3. \A r \in Requests : w[r] >= 0 /\ v[r] >= 0
  BY <1>1
<1>4. IsFiniteSet(Requests)
  BY BudgetAssumption
<1>5. Parts(k) \in Int /\ PaidFor(k) \in Int /\ PaidFor(k) >= 0
  <2> HIDE DEF w, v
  <2>1. SumFunction(w) \in Int /\ SumFunction(v) \in Int /\ SumFunction(v) >= 0
    BY <1>2, <1>3, <1>4, SumOfOne
  <2> QED
    BY <2>1 DEF w, v, Parts, PaidFor
<1>6. ASSUME NEW r \in Requests
      PROVE  PartIn(k, r) <= Parts(k)
  <2> DEFINE z == [x \in Requests |-> 0]
             o == [x \in Requests |-> IF x = r THEN PartIn(k, r) ELSE 0]
  <2>1. z \in [Requests -> Int] /\ o \in [Requests -> Int]
    BY <1>1
  <2>2. \A x \in Requests : z[x] = 0 /\ (x # r => o[x] = z[x]) /\ o[x] <= w[x]
    BY <1>1
  <2>3. z[r] = 0 /\ o[r] = PartIn(k, r) /\ PartIn(k, r) \in Nat
    BY <1>1
  <2> HIDE DEF z, o, w
  <2>4. SumFunction(z) = 0
    BY <1>4, <2>1, <2>2, SumOfOne
  <2>5. SumFunction(o) = SumFunction(z) + o[r] - z[r]
    BY <1>4, <2>1, <2>2, SumsOfTwo
  <2>6. SumFunction(o) <= SumFunction(w)
    BY <1>2, <1>4, <2>1, <2>2, SumsOfTwo
  <2>7. SumFunction(w) = Parts(k)
    BY DEF w, Parts
  <2> QED
    BY <2>3, <2>4, <2>5, <2>6, <2>7
<1> QED
  BY <1>1, <1>2, <1>5, <1>6

----------------------------------------------------------------------------
(* A step of one request. *)

\* The weights are numbers after the step too.
LEMMA WeightsNext ==
    ASSUME Shape', NEW k \in Keys
    PROVE  \A r \in Requests : PartIn(k, r)' \in Nat /\ PaidIn(k, r)' \in Nat
<1> SUFFICES ASSUME NEW r \in Requests
             PROVE  PartIn(k, r)' \in Nat /\ PaidIn(k, r)' \in Nat
  OBVIOUS
<1>1. k.budget \in BudgetIds
  BY KeyFacts
<1>2. req'[r].estimate \in Spends /\ req'[r].actual \in Spends
  BY DEF Shape, RequestType
<1>3. Amount(k.budget, req'[r].estimate) \in Nat /\ Amount(k.budget, req'[r].actual) \in Nat
  BY <1>1, <1>2, BudgetFacts
<1>4. Estimated(r, k.budget)' \in Nat /\ Actual(r, k.budget)' \in Nat
  BY <1>3 DEF Estimated, Actual, Amount
<1>5. Part(r, k.budget)' \in Nat /\ Paid(r, k.budget)' \in Nat
  BY <1>4 DEF Part, Paid, Excess
<1> QED
  BY <1>5 DEF PartIn, PaidIn

\* Only request r and its markers change.
OnlyOf(r) ==
    /\ now' = now /\ drift' >= drift
    /\ \A x \in Requests : x # r => /\ req'[x] = req[x]
                                    /\ \A b \in BudgetIds : <<x, b>> \in settled' <=> <<x, b>> \in settled

\* Then the sums change by what the weights of r do.
LEMMA SumStep ==
    ASSUME Shape, Shape', NEW r \in Requests, OnlyOf(r), NEW k \in Keys
    PROVE  /\ Parts(k)' = Parts(k) + PartIn(k, r)' - PartIn(k, r)
           /\ PaidFor(k)' = PaidFor(k) + PaidIn(k, r)' - PaidIn(k, r)
<1>1. k.budget \in BudgetIds
  BY KeyFacts
<1>2. ASSUME NEW x \in Requests, x # r
      PROVE  PartIn(k, x)' = PartIn(k, x) /\ PaidIn(k, x)' = PaidIn(k, x)
  <2>1. req'[x] = req[x] /\ (<<x, k.budget>> \in settled' <=> <<x, k.budget>> \in settled)
    BY <1>1, <1>2 DEF OnlyOf
  <2>2. (x \in Holders(k))' <=> x \in Holders(k)
    BY <2>1 DEF Holders, Key
  <2>3. Part(x, k.budget)' = Part(x, k.budget) /\ Paid(x, k.budget)' = Paid(x, k.budget)
    BY <2>1 DEF Part, Paid, Excess, Actual, Estimated
  <2> QED
    BY <2>2, <2>3 DEF PartIn, PaidIn
<1> DEFINE w == [x \in Requests |-> PartIn(k, x)]
           w2 == [x \in Requests |-> PartIn(k, x)']
           v == [x \in Requests |-> PaidIn(k, x)]
           v2 == [x \in Requests |-> PaidIn(k, x)']
<1>3. w \in [Requests -> Int] /\ v \in [Requests -> Int]
  BY WeightFacts
<1>4. w2 \in [Requests -> Int] /\ v2 \in [Requests -> Int]
  BY WeightsNext
<1>5. \A x \in Requests : x # r => w2[x] = w[x] /\ v2[x] = v[x]
  BY <1>2
<1>6. w[r] = PartIn(k, r) /\ w2[r] = PartIn(k, r)' /\ v[r] = PaidIn(k, r) /\ v2[r] = PaidIn(k, r)'
  OBVIOUS
<1>7. Parts(k) = SumFunction(w) /\ PaidFor(k) = SumFunction(v)
  BY DEF Parts, PaidFor
<1>8. Parts(k)' = SumFunction(w2) /\ PaidFor(k)' = SumFunction(v2)
  BY DEF Parts, PaidFor
<1> HIDE DEF w, w2, v, v2
<1>9. IsFiniteSet(Requests)
  BY BudgetAssumption
<1>10. SumFunction(w2) = SumFunction(w) + w2[r] - w[r]
  BY <1>3, <1>4, <1>5, <1>9, SumsOfTwo
<1>11. SumFunction(v2) = SumFunction(v) + v2[r] - v[r]
  BY <1>3, <1>4, <1>5, <1>9, SumsOfTwo
<1> QED
  BY <1>6, <1>7, <1>8, <1>10, <1>11

\* What r adds to a counter is at least what its part grows by, and exactly that unless r is cut short
\* or a failure recorded; and the counter is within its limit, or grows by no more than what r pays.
Balanced(k, r) ==
    Open(k) => /\ used'[k] - used[k] >= PartIn(k, r)' - PartIn(k, r)
               /\ \/ used'[k] <= Budgets[k.budget].limit
                  \/ used'[k] - used[k] <= PaidIn(k, r)' - PaidIn(k, r)
               /\ drift' = 0 /\ ~CutShort(r)' =>
                    ~CutShort(r) /\ used'[k] - used[k] = PartIn(k, r)' - PartIn(k, r)

\* A step of r that is balanced at every key preserves the invariant.
LEMMA RequestStep ==
    ASSUME BudgetInv, Shape', NEW r \in Requests, OnlyOf(r), RequestInv(r)',
           \A k \in Keys : KeyInv(k)' /\ Balanced(k, r)
    PROVE  BudgetInv'
<1> USE DEF BudgetInv
<1>1. ASSUME NEW x \in Requests, x # r
      PROVE  RequestInv(x)'
  <2>1. /\ req'[x] = req[x] /\ now' = now /\ drift' >= drift
        /\ \A b \in BudgetIds : <<x, b>> \in settled' <=> <<x, b>> \in settled
    BY <1>1 DEF OnlyOf
  <2>2. RequestInv(x) /\ req[x].held \subseteq BudgetIds
    BY RequestFacts DEF RequestType
  <2>3. \A b \in BudgetIds : Exact(x, b)' <=> Exact(x, b)
    BY <2>1 DEF Exact, Actual, Estimated
  <2>4. Young(x)'
    BY <2>1, <2>2 DEF Young, RequestInv
  <2>5. Admitted(x)'
    BY <2>1, <2>2 DEF Admitted, RequestInv
  <2>6. Closing(x)'
    <3>1. drift > 0 => drift' > 0
      BY <2>1 DEF Shape
    <3> QED
      BY <2>1, <2>2, <2>3, <3>1 DEF Closing, RequestInv
  <2>7. Failing(x)'
    BY <2>1, <2>2 DEF Failing, RequestInv
  <2> QED
    BY <2>1, <2>2, <2>4, <2>5, <2>6, <2>7 DEF RequestInv
<1>2. ASSUME NEW k \in Keys
      PROVE  SumInv(k)'
  <2>1. SUFFICES ASSUME Open(k)'
                 PROVE  /\ Parts(k)' <= used'[k]
                        /\ used'[k] <= Budgets[k.budget].limit + PaidFor(k)'
                        /\ Undisturbed' => used'[k] = Parts(k)'
    BY DEF SumInv
  <2>2. Open(k)
    BY <2>1 DEF Open, OnlyOf
  <2>3. /\ used'[k] - used[k] >= PartIn(k, r)' - PartIn(k, r)
        /\ \/ used'[k] <= Budgets[k.budget].limit
           \/ used'[k] - used[k] <= PaidIn(k, r)' - PaidIn(k, r)
        /\ drift' = 0 /\ ~CutShort(r)' =>
              ~CutShort(r) /\ used'[k] - used[k] = PartIn(k, r)' - PartIn(k, r)
    BY <2>2 DEF Balanced
  <2>4. /\ Parts(k)' = Parts(k) + PartIn(k, r)' - PartIn(k, r)
        /\ PaidFor(k)' = PaidFor(k) + PaidIn(k, r)' - PaidIn(k, r)
    BY SumStep
  <2>5. /\ Parts(k) <= used[k] /\ used[k] <= Budgets[k.budget].limit + PaidFor(k)
        /\ Undisturbed => used[k] = Parts(k)
    BY <2>2 DEF SumInv
  <2>6. /\ PartIn(k, r) \in Nat /\ PaidIn(k, r) \in Nat /\ PartIn(k, r)' \in Nat /\ PaidIn(k, r)' \in Nat
        /\ Parts(k) \in Int /\ PaidFor(k) \in Int /\ used[k] \in Nat /\ used'[k] \in Nat
        /\ Budgets[k.budget].limit \in Nat
    <3>1. used[k] \in Nat /\ used'[k] \in Nat
      BY DEF Shape
    <3>2. k.budget \in BudgetIds
      BY KeyFacts
    <3> QED
      BY <3>1, <3>2, WeightFacts, WeightsNext, BudgetFacts
  <2>7. PaidFor(k)' >= 0
    <3> DEFINE v2 == [x \in Requests |-> PaidIn(k, x)']
    <3>1. v2 \in [Requests -> Int] /\ \A x \in Requests : v2[x] >= 0
      BY WeightsNext
    <3>2. PaidFor(k)' = SumFunction(v2)
      BY DEF PaidFor
    <3> HIDE DEF v2
    <3> QED
      BY <3>1, <3>2, SumOfOne, BudgetAssumption
  <2>8. Undisturbed' => Undisturbed
    <3>1. SUFFICES ASSUME Undisturbed' PROVE Undisturbed
      OBVIOUS
    <3>2. drift' = 0 /\ \A x \in Requests : ~CutShort(x)'
      BY <3>1 DEF Undisturbed
    <3>3. drift = 0
      BY <3>2 DEF OnlyOf, Shape
    <3>4. \A x \in Requests : x # r => ~CutShort(x)
      BY <3>2 DEF OnlyOf, CutShort
    <3>5. ~CutShort(r)
      BY <2>3, <3>2
    <3> QED
      BY <3>3, <3>4, <3>5 DEF Undisturbed
  <2>9. Undisturbed' => drift' = 0 /\ ~CutShort(r)'
    BY DEF Undisturbed
  <2> QED
    BY <2>3, <2>4, <2>5, <2>6, <2>7, <2>8, <2>9
<1> QED
  BY <1>1, <1>2

\* What request r holds and was counted for stays.
Same(r) == /\ req'[r].held = req[r].held /\ req'[r].gen = req[r].gen /\ req'[r].at = req[r].at
           /\ req'[r].estimate = req[r].estimate /\ req'[r].actual = req[r].actual

\* Then its weights stay, where its marker does.
LEMMA SameWeights ==
    ASSUME NEW r \in Requests, Same(r), NEW k \in Keys
    PROVE  /\ r \in Holders(k)' <=> r \in Holders(k)
           /\ Actual(r, k.budget)' = Actual(r, k.budget)
           /\ Estimated(r, k.budget)' = Estimated(r, k.budget)
           /\ Excess(r, k.budget)' = Excess(r, k.budget)
           /\ (<<r, k.budget>> \in settled' <=> <<r, k.budget>> \in settled)
                 => PartIn(k, r)' = PartIn(k, r) /\ PaidIn(k, r)' = PaidIn(k, r)
<1>1. (r \in Holders(k))' <=> r \in Holders(k)
  BY DEF Holders, Key, Same
<1>2. Actual(r, k.budget)' = Actual(r, k.budget) /\ Estimated(r, k.budget)' = Estimated(r, k.budget)
  BY DEF Actual, Estimated, Same
<1>3. Excess(r, k.budget)' = Excess(r, k.budget)
  BY <1>2 DEF Excess
<1>4. ASSUME <<r, k.budget>> \in settled' <=> <<r, k.budget>> \in settled
      PROVE  PartIn(k, r)' = PartIn(k, r) /\ PaidIn(k, r)' = PaidIn(k, r)
  BY <1>1, <1>2, <1>3, <1>4 DEF PartIn, PaidIn, Part, Paid
<1> QED
  BY <1>1, <1>2, <1>3, <1>4

\* A step that leaves the store alone, and the weights of r: or lets go of what is counted for nothing.
LEMMA QuietStep ==
    ASSUME BudgetInv, Shape', NEW r \in Requests, OnlyOf(r), RequestInv(r)', UNCHANGED store,
           \A k \in Keys : /\ PartIn(k, r)' <= PartIn(k, r) /\ PaidIn(k, r)' >= PaidIn(k, r)
                           /\ drift' = 0 => PartIn(k, r)' = PartIn(k, r),
           ~CutShort(r)' => ~CutShort(r)
    PROVE  BudgetInv'
<1>1. ASSUME NEW k \in Keys
      PROVE  KeyInv(k)' /\ Balanced(k, r)
  <2>1. KeyInv(k)
    BY DEF BudgetInv
  <2>2. KeyInv(k)'
    BY <2>1 DEF KeyInv, store
  <2>3. used[k] \in Nat /\ used'[k] = used[k]
    BY DEF BudgetInv, Shape, store
  <2>4. PartIn(k, r) \in Nat /\ PartIn(k, r)' \in Nat /\ PaidIn(k, r) \in Nat /\ PaidIn(k, r)' \in Nat
    BY WeightFacts, WeightsNext DEF BudgetInv
  <2>5. Balanced(k, r)
    BY <2>3, <2>4 DEF Balanced
  <2> QED
    BY <2>2, <2>5
<1> QED
  BY <1>1, RequestStep

\* A step of one request that leaves the store and the request's weight in every counter alone
\* keeps the invariant.
LEMMA KeepStep ==
    ASSUME BudgetInv, Shape', NEW r \in Requests, OnlyOf(r), RequestInv(r)', UNCHANGED store, Same(r),
           ~CutShort(r)' => ~CutShort(r)
    PROVE  BudgetInv'
<1>1. ASSUME NEW k \in Keys
      PROVE  PartIn(k, r)' = PartIn(k, r) /\ PaidIn(k, r)' = PaidIn(k, r)
    BY SameWeights DEF store
<1>2. \A k \in Keys : PartIn(k, r) \in Nat /\ PaidIn(k, r) \in Nat
  BY WeightFacts DEF BudgetInv
<1>3. \A k \in Keys : /\ PartIn(k, r)' <= PartIn(k, r) /\ PaidIn(k, r)' >= PaidIn(k, r)
                      /\ drift' = 0 => PartIn(k, r)' = PartIn(k, r)
  BY <1>1, <1>2
<1> QED
  BY <1>3, QuietStep

\* A request becomes a record of its type; the others stay.
LEMMA BecomeFacts ==
    ASSUME Shape, NEW r \in Requests, NEW x \in RequestType, Become(r, x), now' = now, drift' >= drift,
           \A y \in Requests : y # r => \A b \in BudgetIds : <<y, b>> \in settled' <=> <<y, b>> \in settled
    PROVE  req' \in [Requests -> RequestType] /\ req'[r] = x /\ OnlyOf(r)
<1>1. req' = [req EXCEPT ![r] = x] /\ req \in [Requests -> RequestType]
  BY DEF Become, Shape
<1> HIDE DEF RequestType
<1>2. req' \in [Requests -> RequestType] /\ req'[r] = x /\ \A y \in Requests : y # r => req'[y] = req[y]
  BY <1>1
<1> QED
  BY <1>2 DEF OnlyOf

\* The same with the store unchanged.
LEMMA BecomeQuiet ==
    ASSUME Shape, NEW r \in Requests, NEW x \in RequestType, Become(r, x),
           UNCHANGED <<now, current, store, drift>>
    PROVE  Shape' /\ req'[r] = x /\ OnlyOf(r) /\ UNCHANGED store /\ now' = now /\ drift' = drift
                  /\ settled' = settled
<1>1. drift' >= drift
  BY DEF Shape
<1>2. req' \in [Requests -> RequestType] /\ req'[r] = x /\ OnlyOf(r)
  BY <1>1, BecomeFacts DEF store
<1> QED
  BY <1>2 DEF Shape, store

----------------------------------------------------------------------------
(* The store's scripts. *)

\* Writing a counter keeps the types, the other counters and the keys' invariant.
LEMMA WriteFacts ==
    ASSUME BudgetInv, NEW r \in Requests, NEW b \in BudgetIds, NEW n \in Nat, Write(Key(r, b), n), now' = now
    PROVE  /\ used' \in [Keys -> Nat] /\ expires' \in [Keys -> Nat]
           /\ Key(r, b) \in Keys /\ used'[Key(r, b)] = n
           /\ \A k \in Keys : k # Key(r, b) => used'[k] = used[k]
           /\ \A k \in Keys : KeyInv(k)'
<1> DEFINE k0 == Key(r, b)
           W == Budgets[b].window
<1>1. Shape /\ req[r].at <= now /\ req[r].at \in Nat /\ now \in Nat
  <2>1. Shape /\ req[r].at <= now
    BY DEF BudgetInv, RequestInv
  <2>2. req[r].at \in 0..MaxTime
    BY <2>1, RequestFacts DEF RequestType
  <2> QED
    BY <2>1, <2>2, BudgetAssumption DEF Shape
<1>2. k0 \in Keys /\ k0.budget = b /\ k0.window = Window(b, req[r].at) /\ W \in Nat \ {0}
  BY <1>1, RequestFacts, BudgetFacts
<1>3. TtlOf(b) = 2 * W /\ TtlOf(b) \in Nat
  BY <1>2 DEF TtlOf
<1>4. used' = [used EXCEPT ![k0] = n] /\ expires' = [expires EXCEPT ![k0] = now + 2 * W]
  BY <1>2, <1>3 DEF Write
<1>5. now + 2 * W \in Nat /\ now + 2 * W # 0
  BY <1>1, <1>2
<1> HIDE DEF k0
<1>6. /\ used' \in [Keys -> Nat] /\ expires' \in [Keys -> Nat]
      /\ used'[k0] = n /\ expires'[k0] = now + 2 * W
      /\ \A k \in Keys : k # k0 => used'[k] = used[k] /\ expires'[k] = expires[k]
  BY <1>1, <1>2, <1>4, <1>5 DEF Shape
<1>7. ASSUME NEW k \in Keys, k # k0 PROVE KeyInv(k)'
  <2>1. KeyInv(k) /\ used'[k] = used[k] /\ expires'[k] = expires[k]
    BY <1>6, <1>7 DEF BudgetInv
  <2> QED
    BY <2>1 DEF KeyInv
<1>8. ASSUME NEW k \in Keys, k = k0 PROVE KeyInv(k)'
  <2>1. ASSUME NEW t \in Nat, Window(b, t) <= Window(b, req[r].at)
        PROVE  t < now + 2 * W
    <3>1. t < req[r].at + W
      BY <1>1, <1>2, <2>1, Windows DEF Window
    <3> QED
      BY <1>1, <1>2, <3>1
  <2> QED
    BY <1>2, <1>5, <1>6, <1>8, <2>1 DEF KeyInv
<1> QED
  BY <1>2, <1>6, <1>7, <1>8 DEF k0

\* The reserving script, where it admits the request: one counter grows by the estimate, to its limit at most.
LEMMA ReserveRuns ==
    ASSUME BudgetInv, NEW r \in Requests, Reserving(r), Admits(r), ReserveScript(r), now' = now
    PROVE  /\ used' \in [Keys -> Nat] /\ expires' \in [Keys -> Nat] /\ settled' = settled
           /\ \A k \in Keys : KeyInv(k)'
           /\ \A k \in Keys : Open(k) =>
                 IF k = Key(r, req[r].b)
                 THEN /\ used'[k] = used[k] + Estimated(r, k.budget)
                      /\ used'[k] <= Budgets[k.budget].limit
                 ELSE used'[k] = used[k]
<1> DEFINE b == req[r].b
<1>1. Shape /\ b \in BudgetIds
  BY DEF BudgetInv, Reserving
<1>2. Estimate(r) = Estimated(r, b) /\ Estimate(r) \in Nat
  BY <1>1, RequestFacts DEF Estimate, Estimated
<1>3. Key(r, b) \in Keys /\ Key(r, b).budget = b
  BY <1>1, RequestFacts DEF BudgetInv, RequestInv
<1>4. Value(Key(r, b)) \in Nat
  BY <1>1, <1>3 DEF Value, Shape
<1> DEFINE n == Value(Key(r, b)) + Estimate(r)
<1>5. n \in Nat /\ n <= Budgets[b].limit
  BY <1>2, <1>4 DEF Admits, WouldReserve
<1>6. Write(Key(r, b), n) /\ settled' = settled
  BY DEF ReserveScript
<1> HIDE DEF n, b
<1>7. /\ used' \in [Keys -> Nat] /\ expires' \in [Keys -> Nat]
      /\ used'[Key(r, b)] = n
      /\ \A k \in Keys : k # Key(r, b) => used'[k] = used[k]
      /\ \A k \in Keys : KeyInv(k)'
  BY <1>1, <1>5, <1>6, WriteFacts
<1>8. Open(Key(r, b)) => Value(Key(r, b)) = used[Key(r, b)]
  BY <1>1, <1>3, ValueIsUsed DEF BudgetInv
<1>9. ASSUME NEW k \in Keys, Open(k)
      PROVE  IF k = Key(r, b)
             THEN used'[k] = used[k] + Estimated(r, k.budget) /\ used'[k] <= Budgets[k.budget].limit
             ELSE used'[k] = used[k]
  BY <1>2, <1>3, <1>5, <1>7, <1>8, <1>9 DEF n
<1> QED
  BY <1>6, <1>7, <1>9 DEF b

\* The first budget to do is one of those to do.
LEMMA FirstToDo ==
    ASSUME Shape, NEW r \in Requests, req[r].todo # {}
    PROVE  /\ Min(req[r].todo) \in req[r].todo /\ Min(req[r].todo) \in BudgetIds
           /\ Cardinality(req[r].todo) \in Nat \ {0}
           /\ Cardinality(req[r].todo \ {Min(req[r].todo)}) = Cardinality(req[r].todo) - 1
<1> DEFINE T == req[r].todo
<1>1. T \subseteq BudgetIds /\ T # {}
  BY RequestFacts DEF RequestType
<1>2. BudgetIds \subseteq Nat
  BY BudgetFacts
<1>3. IsFiniteSet(T)
  <2>1. IsFiniteSet(BudgetIds)
    BY BudgetFacts, FS_Interval DEF BudgetIds
  <2> QED
    BY <1>1, <2>1, FS_Subset
<1> HIDE DEF T
<1>4. Min(T) \in T
  <2>1. \E x \in T : \A y \in T : x <= y
    BY <1>1, <1>2, LeastElement
  <2> QED
    BY <2>1 DEF Min
<1>5. Cardinality(T) \in Nat /\ Cardinality(T) # 0
  BY <1>1, <1>3, FS_CardinalityType, FS_EmptySet
<1>6. Cardinality(T \ {Min(T)}) = Cardinality(T) - 1
  BY <1>3, <1>4, FS_RemoveElement
<1> QED
  BY <1>1, <1>4, <1>5, <1>6 DEF T

\* The settling script: one marker is set, and the counter moves by what the part of r does.  It is not cut
\* off at zero while its window lasts, for it holds at least the estimate.
LEMMA SettleRuns ==
    ASSUME BudgetInv, NEW r \in Requests, Settling(r), SettleScript(r), now' = now
    PROVE  /\ used' \in [Keys -> Nat] /\ expires' \in [Keys -> Nat]
           /\ settled' \subseteq Requests \X BudgetIds
           /\ \A x \in Requests, b \in BudgetIds :
                 <<x, b>> \in settled' <=> <<x, b>> \in settled \/ (x = r /\ b = Min(req[r].todo))
           /\ \A k \in Keys : KeyInv(k)'
           /\ Same(r) => \A k \in Keys : Open(k) =>
                 /\ used'[k] - used[k] = PartIn(k, r)' - PartIn(k, r)
                 /\ used'[k] - used[k] <= PaidIn(k, r)' - PaidIn(k, r)
<1> DEFINE b == Min(req[r].todo)
           k0 == Key(r, b)
           n == Value(k0) + Delta(r, b)
<1>1. Shape /\ RequestInv(r)
  BY DEF BudgetInv
<1>2. b \in req[r].todo /\ b \in BudgetIds
  BY <1>1, FirstToDo DEF Settling
<1>3. b \in req[r].held /\ k0 \in Keys /\ k0.budget = b /\ req[r].pc \in {"rolling", "settling"}
  BY <1>1, <1>2, RequestFacts DEF Settling, RequestInv, Closing
<1>4. r \in Holders(k0)
  BY <1>3 DEF Holders
<1>5. Actual(r, b) \in Nat /\ Estimated(r, b) \in Nat /\ Value(k0) \in Nat
  BY <1>1, <1>2, <1>3, RequestFacts DEF Value, Shape
<1>6. Delta(r, b) = Actual(r, b) - Estimated(r, b)
  <2>1. req[r].pc = "rolling" => Actual(r, b) = 0
    BY <1>1, <1>2, BudgetFacts DEF RequestInv, Closing, Actual
  <2> QED
    BY <1>5, <2>1 DEF Delta, Actual, Estimated
<1>7. CASE <<r, b>> \in settled
  <2>1. UNCHANGED store
    BY <1>7 DEF SettleScript
  <2>2. used' = used /\ expires' = expires /\ settled' = settled
    BY <2>1 DEF store
  <2>3. \A k \in Keys : KeyInv(k)'
    BY <2>2 DEF BudgetInv, KeyInv
  <2>4. ASSUME Same(r), NEW k \in Keys
        PROVE  /\ used'[k] - used[k] = PartIn(k, r)' - PartIn(k, r)
               /\ used'[k] - used[k] <= PaidIn(k, r)' - PaidIn(k, r)
    <3>1. PartIn(k, r)' = PartIn(k, r) /\ PaidIn(k, r)' = PaidIn(k, r)
      BY <2>2, <2>4, SameWeights
    <3>2. PartIn(k, r) \in Nat /\ PaidIn(k, r) \in Nat /\ used[k] \in Nat
      BY <1>1, WeightFacts DEF Shape
    <3> QED
      BY <2>2, <3>1, <3>2
  <2> QED
    BY <1>1, <1>7, <2>2, <2>3, <2>4 DEF Shape
<1>8. CASE <<r, b>> \notin settled
  <2> DEFINE m == IF n < 0 THEN 0 ELSE n
  <2>1. Write(k0, m) /\ settled' = settled \union {<<r, b>>}
    BY <1>8 DEF SettleScript
  <2>2. m \in Nat /\ (n >= 0 => m = n) /\ n = Value(k0) + Actual(r, b) - Estimated(r, b)
    BY <1>5, <1>6
  <2> HIDE DEF m, n
  <2>3. /\ used' \in [Keys -> Nat] /\ expires' \in [Keys -> Nat]
        /\ used'[k0] = m
        /\ \A k \in Keys : k # k0 => used'[k] = used[k]
        /\ \A k \in Keys : KeyInv(k)'
    BY <1>2, <2>1, <2>2, WriteFacts
  <2>4. /\ settled' \subseteq Requests \X BudgetIds
        /\ \A x \in Requests, c \in BudgetIds :
              <<x, c>> \in settled' <=> <<x, c>> \in settled \/ (x = r /\ c = b)
    BY <1>1, <1>2, <2>1 DEF Shape
  <2>5. ASSUME Same(r), NEW k \in Keys, Open(k)
        PROVE  /\ used'[k] - used[k] = PartIn(k, r)' - PartIn(k, r)
               /\ used'[k] - used[k] <= PaidIn(k, r)' - PaidIn(k, r)
    <3>1. PartIn(k, r) \in Nat /\ PaidIn(k, r) \in Nat /\ used[k] \in Nat /\ k.budget \in BudgetIds
      BY <1>1, WeightFacts, KeyFacts DEF Shape
    <3>2. CASE k # k0
      <4>1. used'[k] = used[k]
        BY <2>3, <3>2
      <4>2. PartIn(k, r)' = PartIn(k, r) /\ PaidIn(k, r)' = PaidIn(k, r)
        <5>1. CASE k.budget = b
          <6>1. r \notin Holders(k) /\ ~ (r \in Holders(k))'
            BY <2>5, <3>2, <5>1, SameWeights DEF Holders
          <6> QED
            BY <6>1 DEF PartIn, PaidIn
        <5>2. CASE k.budget # b
          BY <2>4, <2>5, <3>1, <5>2, SameWeights
        <5> QED
          BY <5>1, <5>2
      <4> QED
        BY <3>1, <4>1, <4>2
    <3>3. CASE k = k0
      <4>1. PartIn(k, r) = Estimated(r, b) /\ PaidIn(k, r) = 0
        BY <1>3, <1>4, <1>8, <3>3 DEF PartIn, PaidIn, Part, Paid
      <4>2. r \in Holders(k)' /\ <<r, k.budget>> \in settled' /\ k.budget = b
        BY <1>3, <1>4, <2>1, <2>5, <3>3, SameWeights
      <4>3. PartIn(k, r)' = Actual(r, b) /\ PaidIn(k, r)' >= Actual(r, b) - Estimated(r, b)
        <5>1. PartIn(k, r)' = Part(r, k.budget)' /\ PaidIn(k, r)' = Paid(r, k.budget)'
          BY <4>2 DEF PartIn, PaidIn
        <5>2. Part(r, k.budget)' = Actual(r, k.budget)' /\ Paid(r, k.budget)' = Excess(r, k.budget)'
          BY <4>2 DEF Part, Paid
        <5>3. Actual(r, k.budget)' = Actual(r, b) /\ Excess(r, k.budget)' = Excess(r, b)
          BY <1>3, <2>5, <3>3, SameWeights
        <5>4. Excess(r, b) >= Actual(r, b) - Estimated(r, b)
          BY <1>5 DEF Excess
        <5> QED
          BY <5>1, <5>2, <5>3, <5>4
      <4>4. Parts(k) <= used[k] /\ PartIn(k, r) <= Parts(k) /\ Parts(k) \in Int
        BY <1>1, <2>5, WeightFacts DEF BudgetInv, SumInv
      <4>5. Value(k) = used[k]
        BY <1>1, <2>5, ValueIsUsed DEF BudgetInv
      <4> HIDE DEF k0
      <4>6. used'[k] = m /\ n = used[k] + Actual(r, b) - Estimated(r, b)
        BY <2>2, <2>3, <3>3, <4>5
      <4>7. n >= 0
        BY <1>5, <3>1, <4>1, <4>4, <4>6
      <4>8. used'[k] - used[k] = Actual(r, b) - Estimated(r, b)
        BY <1>5, <2>2, <3>1, <4>6, <4>7
      <4>9. PaidIn(k, r)' - PaidIn(k, r) = PaidIn(k, r)'
        <5>1. PaidIn(k, r)' = Excess(r, b)
          BY <1>3, <2>5, <3>3, <4>2, SameWeights DEF PaidIn, Paid
        <5> QED
          BY <1>1, <1>2, <4>1, <5>1, RequestFacts
      <4> QED
        BY <4>1, <4>3, <4>8, <4>9
    <3> QED
      BY <3>2, <3>3
  <2> QED
    BY <2>3, <2>4, <2>5
<1> QED
  BY <1>7, <1>8

----------------------------------------------------------------------------
(* The steps of a request that leave the store alone. *)

\* The empty set of refunds still to make has no members.
LEMMA EmptyIsZero == Cardinality({}) = 0
  BY FS_EmptySet

\* A request that starts to reserve holds nothing yet.
LEMMA BeginStep ==
    ASSUME BudgetInv, NEW r \in Requests, NEW estimate \in Spends, Begin(r, estimate)
    PROVE  BudgetInv'
<1> DEFINE x == [Fresh EXCEPT !.pc = "reserving", !.gen = current, !.at = now, !.estimate = estimate]
<1>1. Shape /\ RequestInv(r) /\ req[r].pc = "idle"
  BY DEF BudgetInv, Begin
<1>2. x \in RequestType
  <2>1. current \in Generations /\ now \in 0..MaxTime /\ Zero \in Spends
    BY <1>1, BudgetFacts DEF Shape
  <2>2. 1 \in 1..(Len(Budgets) + 1) /\ 1 \in 1..Attempts /\ 0 \in 0..Len(Budgets)
    BY BudgetFacts, BudgetAssumption
  <2> QED
    BY <2>1, <2>2 DEF Fresh, RequestType, RequestStates
<1>3. /\ x.pc = "reserving" /\ x.at = now /\ x.actual = Zero /\ x.failures = 0 /\ x.unacked = FALSE
      /\ x.held = {} /\ x.todo = {}
  BY DEF Fresh
<1>4. Become(r, x) /\ UNCHANGED <<now, current, store, drift>>
  BY DEF Begin
<1> HIDE DEF x
<1>5. Shape' /\ req'[r] = x /\ OnlyOf(r) /\ UNCHANGED store /\ now' = now /\ drift' = drift /\ settled' = settled
  BY <1>1, <1>2, <1>4, BecomeQuiet
<1>6. /\ req[r].held = {} /\ ~req[r].unacked
      /\ \A b \in BudgetIds : <<r, b>> \notin settled
  BY <1>1 DEF RequestInv, Young
<1>7. RequestInv(r)'
  <2>1. Young(r)' /\ Admitted(r)' /\ Closing(r)'
    BY <1>3, <1>5, <1>6 DEF Young, Admitted, Closing
  <2>2. Failing(r)'
    <3>1. req'[r].failures = 0 /\ req'[r].todo = {} /\ Cardinality(req'[r].todo) = 0
      BY <1>3, <1>5, EmptyIsZero
    <3> QED
      BY <3>1, BudgetFacts DEF Failing
  <2>3. req'[r].at <= now'
    BY <1>1, <1>3, <1>5, BudgetAssumption DEF Shape
  <2> QED
    BY <2>1, <2>2, <2>3 DEF RequestInv
<1>8. \A k \in Keys : PartIn(k, r) = 0 /\ PaidIn(k, r) = 0 /\ PartIn(k, r)' = 0 /\ PaidIn(k, r)' = 0
  BY <1>3, <1>5, <1>6 DEF PartIn, PaidIn, Holders
<1>9. \A k \in Keys : /\ PartIn(k, r)' <= PartIn(k, r) /\ PaidIn(k, r)' >= PaidIn(k, r)
                      /\ drift' = 0 => PartIn(k, r)' = PartIn(k, r)
  BY <1>8
<1>10. ~CutShort(r)' => ~CutShort(r)
  BY <1>1, <1>6 DEF CutShort
<1> QED
  BY <1>5, <1>7, <1>9, <1>10, QuietStep

\* A budget the estimate charges nothing to is passed over.
LEMMA SkipStep ==
    ASSUME BudgetInv, NEW r \in Requests, Skip(r)
    PROVE  BudgetInv'
<1> DEFINE x == [req[r] EXCEPT !.b = @ + 1]
<1>1. Shape /\ RequestInv(r) /\ req[r].pc = "reserving" /\ req[r].b \in BudgetIds /\ req[r] \in RequestType
  BY RequestFacts DEF BudgetInv, Skip, Reserving
<1>2. /\ x \in RequestType /\ x.b = req[r].b + 1
      /\ x.pc = req[r].pc /\ x.gen = req[r].gen /\ x.at = req[r].at /\ x.estimate = req[r].estimate
      /\ x.actual = req[r].actual /\ x.held = req[r].held /\ x.todo = req[r].todo
      /\ x.failures = req[r].failures /\ x.unacked = req[r].unacked
  <2>1. req[r].b + 1 \in 1..(Len(Budgets) + 1)
    BY <1>1, BudgetFacts DEF BudgetIds
  <2> QED
    BY <1>1, <2>1 DEF RequestType
<1>3. Become(r, x) /\ UNCHANGED <<now, current, store, drift>>
  BY DEF Skip
<1> HIDE DEF x
<1>4. Shape' /\ req'[r] = x /\ OnlyOf(r) /\ UNCHANGED store /\ now' = now /\ drift' = drift /\ settled' = settled
  BY <1>1, <1>2, <1>3, BecomeQuiet
<1>5. RequestInv(r)'
  <2>1. Young(r)'
    <3>1. /\ req[r].actual = Zero /\ req[r].failures = 0 /\ ~req[r].unacked
          /\ \A b \in BudgetIds : <<r, b>> \notin settled
          /\ \A b \in req[r].held : b < req[r].b
      BY <1>1 DEF RequestInv, Young
    <3>2. \A b \in req[r].held : b < req[r].b + 1
      <4>1. req[r].held \subseteq BudgetIds /\ req[r].b \in Nat
        BY <1>1, BudgetFacts DEF RequestType
      <4> QED
        BY <3>1, <4>1, BudgetFacts
    <3> QED
      BY <1>1, <1>2, <1>4, <3>1, <3>2 DEF Young
  <2>2. Admitted(r)' /\ Closing(r)'
    BY <1>1, <1>2, <1>4 DEF Admitted, Closing
  <2>3. Failing(r)' /\ req'[r].at <= now'
    BY <1>1, <1>2, <1>4 DEF Failing, RequestInv
  <2> QED
    BY <2>1, <2>2, <2>3 DEF RequestInv
<1>6. Same(r) /\ (~CutShort(r)' => ~CutShort(r))
  BY <1>2, <1>4 DEF Same, CutShort
<1> QED
  BY <1>4, <1>5, <1>6, KeepStep

\* After the last budget the request goes upstream with what it holds.
LEMMA AdmitStep ==
    ASSUME BudgetInv, NEW r \in Requests, Admit(r)
    PROVE  BudgetInv'
<1> DEFINE x == [req[r] EXCEPT !.pc = "forwarded", !.outcome = "admitted"]
<1>1. Shape /\ RequestInv(r) /\ req[r].pc = "reserving" /\ req[r] \in RequestType
  BY RequestFacts DEF BudgetInv, Admit
<1>2. /\ x \in RequestType /\ x.pc = "forwarded"
      /\ x.gen = req[r].gen /\ x.at = req[r].at /\ x.estimate = req[r].estimate
      /\ x.actual = req[r].actual /\ x.held = req[r].held /\ x.todo = req[r].todo
      /\ x.failures = req[r].failures /\ x.unacked = req[r].unacked
  BY <1>1 DEF RequestType, RequestStates
<1>3. Become(r, x) /\ UNCHANGED <<now, current, store, drift>>
  BY DEF Admit
<1> HIDE DEF x
<1>4. Shape' /\ req'[r] = x /\ OnlyOf(r) /\ UNCHANGED store /\ now' = now /\ drift' = drift /\ settled' = settled
  BY <1>1, <1>2, <1>3, BecomeQuiet
<1>5. RequestInv(r)'
  <2>1. Admitted(r)'
    <3>1. req[r].failures = 0 /\ (\A b \in BudgetIds : <<r, b>> \notin settled) /\ req[r].held \subseteq BudgetIds
      BY <1>1 DEF RequestInv, Young, RequestType
    <3> QED
      BY <1>2, <1>4, <3>1 DEF Admitted
  <2>2. Young(r)' /\ Closing(r)'
    BY <1>1, <1>2, <1>4 DEF Young, Closing
  <2>3. Failing(r)' /\ req'[r].at <= now'
    BY <1>1, <1>2, <1>4 DEF Failing, RequestInv
  <2> QED
    BY <2>1, <2>2, <2>3 DEF RequestInv
<1>6. Same(r) /\ (~CutShort(r)' => ~CutShort(r))
  BY <1>1, <1>2, <1>4 DEF Same, CutShort
<1> QED
  BY <1>4, <1>5, <1>6, KeepStep

\* What is left to settle is finite, and no more than there are budgets.
LEMMA ToDoFits ==
    ASSUME NEW T \in SUBSET BudgetIds
    PROVE  Cardinality(T) \in Nat /\ Cardinality(T) <= Len(Budgets)
<1>1. IsFiniteSet(BudgetIds) /\ Cardinality(BudgetIds) = Len(Budgets)
  <2>1. IsFiniteSet(1..Len(Budgets)) /\ Cardinality(1..Len(Budgets)) = IF 1 > Len(Budgets) THEN 0 ELSE Len(Budgets) - 1 + 1
    BY BudgetFacts, FS_Interval
  <2> QED
    BY <2>1, BudgetFacts DEF BudgetIds
<1> QED
  BY <1>1, FS_Subset, FS_CardinalityType

\* The answer's actual spend opens the settlement of the budgets where it differs from the
\* estimate.
LEMMA SettleToStep ==
    ASSUME BudgetInv, NEW r \in Requests, NEW actual \in Spends, NEW spawned \in BOOLEAN,
           SettleTo(r, actual, spawned)
    PROVE  BudgetInv'
<1> DEFINE todo == {b \in req[r].held : Amount(b, actual) # Amount(b, req[r].estimate)}
           x == [req[r] EXCEPT !.pc = "settling", !.actual = actual, !.spawned = spawned, !.todo = todo]
<1>1. Shape /\ RequestInv(r) /\ req[r].pc = "forwarded" /\ req[r] \in RequestType
  BY RequestFacts DEF BudgetInv, SettleTo
<1>2. req[r].held \subseteq BudgetIds /\ todo \subseteq req[r].held
  BY <1>1 DEF RequestType
<1>3. \A b \in req[r].held : b \in todo \/ Amount(b, actual) = Amount(b, req[r].estimate)
  OBVIOUS
<1>4. Become(r, x) /\ UNCHANGED <<now, current, store, drift>>
  BY DEF SettleTo
<1> HIDE DEF todo
<1>5. /\ x \in RequestType /\ x.pc = "settling"
      /\ x.gen = req[r].gen /\ x.at = req[r].at /\ x.estimate = req[r].estimate
      /\ x.actual = actual /\ x.held = req[r].held /\ x.todo = todo
      /\ x.failures = req[r].failures /\ x.unacked = req[r].unacked
  BY <1>1, <1>2 DEF RequestType, RequestStates
<1> HIDE DEF x
<1>6. Shape' /\ req'[r] = x /\ OnlyOf(r) /\ UNCHANGED store /\ now' = now /\ drift' = drift /\ settled' = settled
  BY <1>1, <1>4, <1>5, BecomeQuiet
<1>7. req[r].failures = 0 /\ \A b \in req[r].held : <<r, b>> \notin settled
  BY <1>1 DEF RequestInv, Admitted
<1>8. RequestInv(r)'
  <2>1. Closing(r)'
    <3>1. \A b \in req[r].held : b \in todo \/ Exact(r, b)'
      BY <1>3, <1>5, <1>6 DEF Exact, Actual, Estimated
    <3> QED
      BY <1>2, <1>5, <1>6, <3>1 DEF Closing
  <2>2. Young(r)' /\ Admitted(r)'
    BY <1>5, <1>6 DEF Young, Admitted
  <2>3. Failing(r)'
    <3>1. Cardinality(todo) \in Nat /\ Cardinality(todo) <= Len(Budgets)
      BY <1>2, ToDoFits
    <3> QED
      BY <1>5, <1>6, <1>7, <3>1 DEF Failing
  <2>4. req'[r].at <= now'
    BY <1>1, <1>5, <1>6 DEF RequestInv
  <2> QED
    BY <2>1, <2>2, <2>3, <2>4 DEF RequestInv
<1>9. ASSUME NEW k \in Keys
      PROVE  /\ PartIn(k, r)' <= PartIn(k, r) /\ PaidIn(k, r)' >= PaidIn(k, r)
             /\ drift' = 0 => PartIn(k, r)' = PartIn(k, r)
  <2>1. r \in Holders(k)' <=> r \in Holders(k)
    BY <1>5, <1>6 DEF Holders, Key
  <2>2. r \in Holders(k) => <<r, k.budget>> \notin settled
    BY <1>7 DEF Holders
  <2>3. PartIn(k, r)' = PartIn(k, r) /\ PaidIn(k, r)' = 0 /\ PaidIn(k, r) = 0
    BY <1>5, <1>6, <2>1, <2>2 DEF PartIn, PaidIn, Part, Paid, Estimated
  <2>4. PartIn(k, r) \in Nat
    BY <1>1, WeightFacts
  <2> QED
    BY <2>3, <2>4
<1>10. ~CutShort(r)' => ~CutShort(r)
  BY <1>1, <1>5, <1>6 DEF CutShort
<1> QED
  BY <1>6, <1>8, <1>9, <1>10, QuietStep

----------------------------------------------------------------------------
(* The steps that reserve. *)

\* A request that starts to roll back what it holds.
LEMMA RollBackFacts ==
    ASSUME BudgetInv, NEW r \in Requests, Reserving(r),
           NEW outcome \in {"denied", "error", "open"}, NEW unacked \in BOOLEAN,
           RollBack(r, outcome, unacked), now' = now, drift' = drift, settled' = settled
    PROVE  /\ req' \in [Requests -> RequestType] /\ OnlyOf(r) /\ RequestInv(r)' /\ Same(r)
           /\ CutShort(r)' <=> unacked
           /\ ~CutShort(r)
<1> DEFINE x == [req[r] EXCEPT !.pc = "rolling", !.todo = req[r].held, !.outcome = outcome,
                               !.unacked = unacked]
<1>1. Shape /\ RequestInv(r) /\ req[r].pc = "reserving" /\ req[r] \in RequestType
  BY RequestFacts DEF BudgetInv, Reserving
<1>2. req[r].held \subseteq BudgetIds
  BY <1>1 DEF RequestType
<1>3. /\ x \in RequestType /\ x.pc = "rolling"
      /\ x.gen = req[r].gen /\ x.at = req[r].at /\ x.estimate = req[r].estimate
      /\ x.actual = req[r].actual /\ x.held = req[r].held /\ x.todo = req[r].held
      /\ x.failures = req[r].failures /\ x.unacked = unacked
  BY <1>1, <1>2 DEF RequestType, RequestStates
<1>4. Become(r, x)
  BY DEF RollBack
<1> HIDE DEF x
<1>5. req' \in [Requests -> RequestType] /\ req'[r] = x /\ OnlyOf(r)
  <2>1. drift' >= drift
    BY <1>1 DEF Shape
  <2> QED
    BY <1>1, <1>3, <1>4, <2>1, BecomeFacts
<1>6. req[r].actual = Zero /\ req[r].failures = 0 /\ ~req[r].unacked
  BY <1>1 DEF RequestInv, Young
<1>7. RequestInv(r)'
  <2>1. Young(r)' /\ Admitted(r)'
    BY <1>3, <1>5 DEF Young, Admitted
  <2>2. Closing(r)'
    BY <1>3, <1>5, <1>6 DEF Closing
  <2>3. Failing(r)'
    <3>1. Cardinality(req[r].held) \in Nat /\ Cardinality(req[r].held) <= Len(Budgets)
      BY <1>2, ToDoFits
    <3> QED
      BY <1>3, <1>5, <1>6, <3>1 DEF Failing
  <2>4. req'[r].at <= now'
    BY <1>1, <1>3, <1>5 DEF RequestInv
  <2> QED
    BY <2>1, <2>2, <2>3, <2>4 DEF RequestInv
<1>8. Same(r) /\ (CutShort(r)' <=> unacked) /\ ~CutShort(r)
  BY <1>1, <1>3, <1>5, <1>6 DEF Same, CutShort
<1> QED
  BY <1>5, <1>7, <1>8

\* The same with the store unchanged preserves the invariant.
LEMMA RollBackStep ==
    ASSUME BudgetInv, NEW r \in Requests, Reserving(r),
           NEW outcome \in {"denied", "error", "open"}, NEW unacked \in BOOLEAN,
           RollBack(r, outcome, unacked), UNCHANGED <<now, current, store, drift>>
    PROVE  BudgetInv'
<1>1. now' = now /\ drift' = drift /\ settled' = settled /\ used' = used /\ expires' = expires /\ current' = current
  BY DEF store
<1>2. /\ req' \in [Requests -> RequestType] /\ OnlyOf(r) /\ RequestInv(r)' /\ Same(r) /\ ~CutShort(r)
  BY <1>1, RollBackFacts
<1>3. Shape'
  BY <1>1, <1>2 DEF BudgetInv, Shape
<1> QED
  BY <1>2, <1>3, KeepStep

\* A reservation that nobody knows of: the request is cut short.
LEMMA ReserveAdds ==
    ASSUME BudgetInv, Shape', NEW r \in Requests, Reserving(r), Admits(r), ReserveScript(r),
           OnlyOf(r), RequestInv(r)', Same(r), CutShort(r)'
    PROVE  BudgetInv'
<1>1. now' = now
  BY DEF OnlyOf
<1>2. /\ settled' = settled
      /\ \A k \in Keys : KeyInv(k)'
      /\ \A k \in Keys : Open(k) =>
            IF k = Key(r, req[r].b)
            THEN used'[k] = used[k] + Estimated(r, k.budget) /\ used'[k] <= Budgets[k.budget].limit
            ELSE used'[k] = used[k]
  BY <1>1, ReserveRuns
<1>3. ASSUME NEW k \in Keys
      PROVE  Balanced(k, r)
  <2>1. PartIn(k, r)' = PartIn(k, r) /\ PaidIn(k, r)' = PaidIn(k, r)
    BY <1>2, SameWeights
  <2>2. /\ PartIn(k, r) \in Nat /\ PaidIn(k, r) \in Nat /\ used[k] \in Nat /\ used'[k] \in Nat
        /\ Estimated(r, k.budget) \in Nat
    BY WeightFacts, KeyFacts, RequestFacts DEF BudgetInv, Shape
  <2> QED
    BY <1>2, <2>1, <2>2 DEF Balanced
<1> QED
  BY <1>2, <1>3, RequestStep

\* A store error while reserving, whether or not the script ran: everything held is rolled back.
LEMMA ReserveFailsStep ==
    ASSUME BudgetInv, NEW r \in Requests, ReserveFails(r)
    PROVE  BudgetInv'
<1> DEFINE outcome == IF FailOpen THEN "open" ELSE "error"
<1>1. Reserving(r) /\ UNCHANGED <<now, current, drift>> /\ outcome \in {"denied", "error", "open"}
  BY DEF ReserveFails
<1>2. \/ ReserveScript(r) /\ RollBack(r, outcome, Admits(r))
      \/ UNCHANGED store /\ RollBack(r, outcome, FALSE)
  BY DEF ReserveFails
<1> HIDE DEF outcome
<1>3. CASE UNCHANGED store /\ RollBack(r, outcome, FALSE)
  BY <1>1, <1>3, RollBackStep
<1>4. CASE ReserveScript(r) /\ RollBack(r, outcome, Admits(r)) /\ ~Admits(r)
  <2>1. UNCHANGED store
    BY <1>4 DEF ReserveScript, store
  <2>2. Admits(r) \in BOOLEAN
    BY DEF Admits, WouldReserve
  <2> QED
    BY <1>1, <1>4, <2>1, <2>2, RollBackStep
<1>5. CASE ReserveScript(r) /\ RollBack(r, outcome, Admits(r)) /\ Admits(r)
  <2>1. Admits(r) \in BOOLEAN /\ settled' = settled /\ now' = now /\ drift' = drift
    BY <1>1, <1>5 DEF Admits, WouldReserve, ReserveScript
  <2>2. /\ req' \in [Requests -> RequestType] /\ OnlyOf(r) /\ RequestInv(r)' /\ Same(r)
        /\ CutShort(r)' <=> Admits(r)
    BY <1>1, <1>5, <2>1, RollBackFacts
  <2>3. used' \in [Keys -> Nat] /\ expires' \in [Keys -> Nat]
    BY <1>1, <1>5, <2>1, ReserveRuns
  <2>4. Shape'
    BY <1>1, <2>1, <2>2, <2>3 DEF BudgetInv, Shape
  <2> QED
    BY <1>1, <1>5, <2>2, <2>4, ReserveAdds
<1> QED
  BY <1>2, <1>3, <1>4, <1>5

\* A reservation the store answers: admitted and held, or denied and rolled back.
LEMMA ReserveStep ==
    ASSUME BudgetInv, NEW r \in Requests, Reserve(r)
    PROVE  BudgetInv'
<1>1. Reserving(r) /\ ReserveScript(r) /\ UNCHANGED <<now, current, drift>>
  BY DEF Reserve
<1>2. CASE ~Admits(r)
  <2>1. UNCHANGED store /\ RollBack(r, "denied", FALSE)
    BY <1>1, <1>2 DEF Reserve, ReserveScript, store
  <2> QED
    BY <1>1, <2>1, RollBackStep
<1>3. CASE Admits(r)
  <2> DEFINE b == req[r].b
             x == [req[r] EXCEPT !.held = @ \union {req[r].b}, !.b = @ + 1]
  <2>1. Shape /\ RequestInv(r) /\ req[r].pc = "reserving" /\ req[r] \in RequestType /\ b \in BudgetIds
    BY <1>1, RequestFacts DEF BudgetInv, Reserving
  <2>2. /\ x \in RequestType /\ x.pc = req[r].pc /\ x.b = b + 1
        /\ x.gen = req[r].gen /\ x.at = req[r].at /\ x.estimate = req[r].estimate
        /\ x.actual = req[r].actual /\ x.held = req[r].held \union {b} /\ x.todo = req[r].todo
        /\ x.failures = req[r].failures /\ x.unacked = req[r].unacked
    <3>1. b + 1 \in 1..(Len(Budgets) + 1) /\ req[r].held \union {b} \in SUBSET BudgetIds
      <4>1. req[r].held \subseteq BudgetIds
        BY <2>1 DEF RequestType
      <4> QED
        BY <2>1, <4>1, BudgetFacts DEF BudgetIds
    <3> QED
      BY <2>1, <3>1 DEF RequestType
  <2>3. Become(r, x)
    BY <1>3 DEF Reserve
  <2>4. /\ used' \in [Keys -> Nat] /\ expires' \in [Keys -> Nat] /\ settled' = settled
        /\ \A k \in Keys : KeyInv(k)'
        /\ \A k \in Keys : Open(k) =>
              IF k = Key(r, b)
              THEN used'[k] = used[k] + Estimated(r, k.budget) /\ used'[k] <= Budgets[k.budget].limit
              ELSE used'[k] = used[k]
    BY <1>1, <1>3, ReserveRuns
  <2> HIDE DEF x, b
  <2>5. req' \in [Requests -> RequestType] /\ req'[r] = x /\ OnlyOf(r)
    <3>1. now' = now /\ drift' >= drift
      BY <1>1, <2>1 DEF Shape
    <3> QED
      BY <2>1, <2>2, <2>3, <2>4, <3>1, BecomeFacts
  <2>6. Shape'
    BY <1>1, <2>1, <2>4, <2>5 DEF Shape
  <2>7. /\ req[r].actual = Zero /\ req[r].failures = 0 /\ ~req[r].unacked
        /\ \A c \in BudgetIds : <<r, c>> \notin settled
        /\ \A c \in req[r].held : c < b
    BY <2>1 DEF RequestInv, Young, b
  <2>8. RequestInv(r)'
    <3>1. Young(r)'
      <4>1. req[r].held \subseteq BudgetIds /\ b \in Nat
        BY <2>1, BudgetFacts DEF RequestType
      <4>2. \A c \in req[r].held \union {b} : c < b + 1
        BY <2>7, <4>1, BudgetFacts
      <4> QED
        BY <2>1, <2>2, <2>4, <2>5, <2>7, <4>2 DEF Young
    <3>2. Admitted(r)' /\ Closing(r)'
      BY <2>1, <2>2, <2>5 DEF Admitted, Closing
    <3>3. Failing(r)' /\ req'[r].at <= now'
      BY <1>1, <2>1, <2>2, <2>5 DEF Failing, RequestInv
    <3> QED
      BY <3>1, <3>2, <3>3 DEF RequestInv
  <2>9. ASSUME NEW k \in Keys
        PROVE  Balanced(k, r)
    <3>1. PartIn(k, r) \in Nat /\ used[k] \in Nat /\ used'[k] \in Nat /\ k.budget \in BudgetIds
      BY <2>1, <2>4, WeightFacts, KeyFacts DEF Shape
    <3>2. Key(r, k.budget)' = Key(r, k.budget)
      BY <2>2, <2>5 DEF Key
    <3>3. PaidIn(k, r)' = 0 /\ PaidIn(k, r) = 0
      BY <2>4, <2>7, <3>1 DEF PaidIn, Paid
    <3>4. Estimated(r, k.budget)' = Estimated(r, k.budget) /\ Estimated(r, k.budget) \in Nat
      BY <2>1, <2>2, <2>5, <3>1, RequestFacts DEF Estimated
    <3>5. /\ PartIn(k, r) = IF r \in Holders(k) THEN Estimated(r, k.budget) ELSE 0
          /\ PartIn(k, r)' = IF r \in Holders(k)' THEN Estimated(r, k.budget) ELSE 0
      BY <2>4, <2>7, <3>1, <3>4 DEF PartIn, Part
    <3>6. ~CutShort(r)
      BY <2>1, <2>7 DEF CutShort
    <3>7. CASE k = Key(r, b)
      <4>1. k.budget = b /\ k = Key(r, k.budget)
        BY <2>1, <3>7, RequestFacts
      <4>2. r \in Holders(k)' /\ r \notin Holders(k)
        <5>1. b \notin req[r].held /\ b \in req'[r].held
          <6>1. b \in Nat
            BY <2>1, BudgetFacts
          <6> QED
            BY <2>2, <2>5, <2>7, <6>1
        <5> QED
          BY <3>2, <4>1, <5>1 DEF Holders
      <4> QED
        BY <2>4, <3>1, <3>3, <3>4, <3>5, <3>6, <3>7, <4>2 DEF Balanced
    <3>8. CASE k # Key(r, b)
      <4>1. r \in Holders(k)' <=> r \in Holders(k)
        <5>1. Key(r, k.budget) = k => k.budget # b
          BY <3>8
        <5> QED
          BY <2>2, <2>5, <3>2, <5>1 DEF Holders
      <4>2. PartIn(k, r)' = PartIn(k, r)
        BY <3>5, <4>1
      <4> QED
        BY <2>4, <3>1, <3>3, <3>6, <3>8, <4>2 DEF Balanced
    <3> QED
      BY <3>7, <3>8
  <2> QED
    BY <2>4, <2>5, <2>6, <2>8, <2>9, RequestStep
<1> QED
  BY <1>2, <1>3

----------------------------------------------------------------------------
(* The steps that settle. *)

\* A settling script is balanced whatever becomes of the request, as long as what it holds stays.
LEMMA SettleMoves ==
    ASSUME BudgetInv, Shape', NEW r \in Requests, Settling(r), SettleScript(r),
           OnlyOf(r), RequestInv(r)', Same(r), ~CutShort(r)' => ~CutShort(r)
    PROVE  BudgetInv'
<1>1. now' = now
  BY DEF OnlyOf
<1>2. /\ \A k \in Keys : KeyInv(k)'
      /\ \A k \in Keys : Open(k) => /\ used'[k] - used[k] = PartIn(k, r)' - PartIn(k, r)
                                    /\ used'[k] - used[k] <= PaidIn(k, r)' - PaidIn(k, r)
  BY <1>1, SettleRuns
<1>3. ASSUME NEW k \in Keys
      PROVE  Balanced(k, r)
  <2>1. PartIn(k, r) \in Nat /\ PartIn(k, r)' \in Nat
    BY WeightFacts, WeightsNext DEF BudgetInv
  <2> QED
    BY <1>2, <2>1 DEF Balanced
<1> QED
  BY <1>2, <1>3, RequestStep

\* A request that settles comes to an end of one budget, with its marker set or a failure counted, or tries
\* it again.
LEMMA SettlingGoesOn ==
    ASSUME BudgetInv, NEW r \in Requests, Settling(r), NEW x \in RequestType, req'[r] = x, now' = now,
           drift' = drift, x.pc = req[r].pc, x.at = req[r].at, x.held = req[r].held,
           x.actual = req[r].actual, x.estimate = req[r].estimate,
           \A b \in BudgetIds : <<r, b>> \in settled => <<r, b>> \in settled',
           \/ x.todo = req[r].todo /\ x.failures = req[r].failures
           \/ /\ x.todo = req[r].todo \ {Min(req[r].todo)}
              /\ \/ x.failures = req[r].failures /\ <<r, Min(req[r].todo)>> \in settled'
                 \/ x.failures = req[r].failures + 1
    PROVE  RequestInv(r)'
<1> DEFINE b == Min(req[r].todo)
<1>1. Shape /\ RequestInv(r) /\ req[r].pc \in {"rolling", "settling"} /\ req[r] \in RequestType
  BY RequestFacts DEF BudgetInv, Settling
<1>2. b \in req[r].todo /\ b \in BudgetIds /\ Cardinality(req[r].todo) \in Nat \ {0}
      /\ Cardinality(req[r].todo \ {b}) = Cardinality(req[r].todo) - 1
  BY <1>1, FirstToDo DEF Settling
<1>3. /\ req[r].todo \subseteq req[r].held
      /\ \A c \in req[r].held : c \in req[r].todo \/ Exact(r, c) \/ req[r].failures > 0
      /\ req[r].pc = "rolling" => req[r].actual = Zero
  BY <1>1 DEF RequestInv, Closing
<1>4. req[r].held \subseteq BudgetIds /\ req[r].failures \in Nat /\ x.failures \in Nat
  BY <1>1, BudgetFacts DEF RequestType
<1>5. /\ \A c \in BudgetIds : Exact(r, c) => Exact(r, c)'
      /\ \A c \in BudgetIds : <<r, c>> \in settled' => Exact(r, c)'
  BY DEF Exact, Actual, Estimated
<1> HIDE DEF b
<1>6. Young(r)' /\ Admitted(r)'
  BY <1>1 DEF Young, Admitted
<1>7. Closing(r)'
  <2>1. ASSUME NEW c \in req[r].held
        PROVE  c \in x.todo \/ Exact(r, c)' \/ x.failures > 0
    <3>1. c \in BudgetIds /\ (c \in req[r].todo \/ Exact(r, c)' \/ req[r].failures > 0)
      BY <1>3, <1>4, <1>5
    <3> QED
      BY <1>4, <1>5, <3>1 DEF b
  <2> QED
    BY <1>1, <1>3, <2>1 DEF Closing
<1>8. Failing(r)'
  <2>1. req[r].failures + Cardinality(req[r].todo) <= Len(Budgets)
    BY <1>1 DEF RequestInv, Failing
  <2>2. x.failures + Cardinality(x.todo) <= Len(Budgets)
    <3>1. CASE x.todo = req[r].todo /\ x.failures = req[r].failures
      BY <2>1, <3>1
    <3>2. CASE x.todo = req[r].todo \ {b} /\ x.failures \in {req[r].failures, req[r].failures + 1}
      <4>1. Cardinality(x.todo) = Cardinality(req[r].todo) - 1
        BY <1>2, <3>2
      <4>2. Cardinality(req[r].todo) \in Nat /\ Len(Budgets) \in Nat
        BY <1>2, BudgetFacts
      <4> QED
        BY <1>4, <2>1, <3>2, <4>1, <4>2
    <3> QED
      BY <3>1, <3>2 DEF b
  <2> QED
    BY <1>1, <2>2 DEF Failing
<1>9. req'[r].at <= now'
  BY <1>1 DEF RequestInv
<1> QED
  BY <1>6, <1>7, <1>8, <1>9 DEF RequestInv

\* One counter is corrected by the difference between actual spend and estimate.
LEMMA SettleStep ==
    ASSUME BudgetInv, NEW r \in Requests, Settle(r)
    PROVE  BudgetInv'
<1> DEFINE x == [req[r] EXCEPT !.todo = @ \ {Min(@)}, !.attempt = 1]
<1>1. /\ Shape /\ RequestInv(r) /\ req[r] \in RequestType /\ Settling(r) /\ SettleScript(r)
      /\ UNCHANGED <<now, current, drift>>
  BY RequestFacts DEF BudgetInv, Settle
<1>2. /\ x \in RequestType /\ x.pc = req[r].pc
      /\ x.gen = req[r].gen /\ x.at = req[r].at /\ x.estimate = req[r].estimate
      /\ x.actual = req[r].actual /\ x.held = req[r].held /\ x.todo = req[r].todo \ {Min(req[r].todo)}
      /\ x.failures = req[r].failures /\ x.unacked = req[r].unacked
  <2>1. req[r].todo \ {Min(req[r].todo)} \in SUBSET BudgetIds /\ 1 \in 1..Attempts
    BY <1>1, BudgetAssumption DEF RequestType
  <2> QED
    BY <1>1, <2>1 DEF RequestType
<1>3. Become(r, x)
  BY DEF Settle
<1> HIDE DEF x
<1>4. /\ used' \in [Keys -> Nat] /\ expires' \in [Keys -> Nat]
      /\ settled' \subseteq Requests \X BudgetIds
      /\ \A y \in Requests, b \in BudgetIds :
            <<y, b>> \in settled' <=> <<y, b>> \in settled \/ (y = r /\ b = Min(req[r].todo))
  BY <1>1, SettleRuns
<1>5. req' \in [Requests -> RequestType] /\ req'[r] = x /\ OnlyOf(r)
  <2>1. now' = now /\ drift' >= drift
    BY <1>1 DEF Shape
  <2> QED
    BY <1>1, <1>2, <1>3, <1>4, <2>1, BecomeFacts
<1>6. Shape'
  BY <1>1, <1>4, <1>5 DEF Shape
<1>7. <<r, Min(req[r].todo)>> \in settled'
  BY <1>1, <1>4, FirstToDo DEF Settling
<1>8. RequestInv(r)'
  BY <1>1, <1>2, <1>4, <1>5, <1>7, SettlingGoesOn
<1>9. Same(r) /\ (~CutShort(r)' => ~CutShort(r))
  BY <1>2, <1>5 DEF Same, CutShort
<1> QED
  BY <1>1, <1>5, <1>6, <1>8, <1>9, SettleMoves

\* A failed correction, whether or not the script ran: retried, and counted once the attempts are
\* used up.
LEMMA SettleFailsStep ==
    ASSUME BudgetInv, NEW r \in Requests, SettleFails(r)
    PROVE  BudgetInv'
<1> DEFINE y == [req[r] EXCEPT !.attempt = @ + 1]
           z == [req[r] EXCEPT !.attempt = 1, !.todo = @ \ {Min(@)}, !.failures = @ + 1]
           x == IF req[r].attempt < Attempts THEN y ELSE z
<1>1. /\ Shape /\ RequestInv(r) /\ req[r] \in RequestType /\ Settling(r)
      /\ UNCHANGED <<now, current, drift>>
      /\ SettleScript(r) \/ UNCHANGED store
  BY RequestFacts DEF BudgetInv, SettleFails
<1>2. /\ x \in RequestType /\ x.pc = req[r].pc
      /\ x.gen = req[r].gen /\ x.at = req[r].at /\ x.estimate = req[r].estimate
      /\ x.actual = req[r].actual /\ x.held = req[r].held /\ x.unacked = req[r].unacked
      /\ \/ x.todo = req[r].todo /\ x.failures = req[r].failures
         \/ x.todo = req[r].todo \ {Min(req[r].todo)} /\ x.failures = req[r].failures + 1
  <2>1. CASE req[r].attempt < Attempts
    <3>1. req[r].attempt + 1 \in 1..Attempts
      <4>1. req[r].attempt \in 1..Attempts /\ Attempts \in Nat
        BY <1>1, BudgetAssumption DEF RequestType
      <4> QED
        BY <2>1, <4>1
    <3>2. /\ y \in RequestType /\ y.pc = req[r].pc
          /\ y.gen = req[r].gen /\ y.at = req[r].at /\ y.estimate = req[r].estimate
          /\ y.actual = req[r].actual /\ y.held = req[r].held /\ y.unacked = req[r].unacked
          /\ y.todo = req[r].todo /\ y.failures = req[r].failures
      BY <1>1, <3>1 DEF RequestType
    <3>3. x = y
      BY <2>1
    <3> HIDE DEF x, y, z
    <3> QED
      BY <3>2, <3>3
  <2>2. CASE ~(req[r].attempt < Attempts)
    <3>1. req[r].todo \ {Min(req[r].todo)} \in SUBSET BudgetIds /\ 1 \in 1..Attempts
      BY <1>1, BudgetAssumption DEF RequestType
    <3>2. req[r].failures + 1 \in 0..Len(Budgets)
      <4>1. /\ req[r].failures + Cardinality(req[r].todo) <= Len(Budgets)
            /\ req[r].failures \in 0..Len(Budgets) /\ Cardinality(req[r].todo) \in Nat \ {0}
        BY <1>1, FirstToDo DEF RequestInv, Failing, RequestType, Settling
      <4> QED
        BY <4>1, BudgetFacts
    <3>3. /\ z \in RequestType /\ z.pc = req[r].pc
          /\ z.gen = req[r].gen /\ z.at = req[r].at /\ z.estimate = req[r].estimate
          /\ z.actual = req[r].actual /\ z.held = req[r].held /\ z.unacked = req[r].unacked
          /\ z.todo = req[r].todo \ {Min(req[r].todo)} /\ z.failures = req[r].failures + 1
      BY <1>1, <3>1, <3>2 DEF RequestType
    <3>4. x = z
      BY <2>2
    <3> HIDE DEF x, y, z
    <3> QED
      BY <3>3, <3>4
  <2> QED
    BY <2>1, <2>2
<1>3. Become(r, x)
  BY DEF SettleFails
<1> HIDE DEF x
<1>4. CASE SettleScript(r)
  <2>1. /\ used' \in [Keys -> Nat] /\ expires' \in [Keys -> Nat]
        /\ settled' \subseteq Requests \X BudgetIds
        /\ \A q \in Requests, b \in BudgetIds :
              <<q, b>> \in settled' <=> <<q, b>> \in settled \/ (q = r /\ b = Min(req[r].todo))
    BY <1>1, <1>4, SettleRuns
  <2>2. req' \in [Requests -> RequestType] /\ req'[r] = x /\ OnlyOf(r)
    <3>1. now' = now /\ drift' >= drift
      BY <1>1 DEF Shape
    <3> QED
      BY <1>1, <1>2, <1>3, <2>1, <3>1, BecomeFacts
  <2>3. Shape'
    BY <1>1, <2>1, <2>2 DEF Shape
  <2>4. RequestInv(r)'
    BY <1>1, <1>2, <2>1, <2>2, SettlingGoesOn
  <2>5. Same(r) /\ (~CutShort(r)' => ~CutShort(r))
    BY <1>2, <2>2 DEF Same, CutShort
  <2> QED
    BY <1>1, <1>4, <2>2, <2>3, <2>4, <2>5, SettleMoves
<1>5. CASE UNCHANGED store
  <2>1. Shape' /\ req'[r] = x /\ OnlyOf(r) /\ now' = now /\ drift' = drift /\ settled' = settled
    BY <1>1, <1>2, <1>3, <1>5, BecomeQuiet
  <2>2. RequestInv(r)'
    BY <1>1, <1>2, <2>1, SettlingGoesOn
  <2>3. Same(r) /\ (~CutShort(r)' => ~CutShort(r))
    BY <1>2, <2>1 DEF Same, CutShort
  <2> QED
    BY <1>5, <2>1, <2>2, <2>3, KeepStep
<1> QED
  BY <1>1, <1>4, <1>5

\* A rolled-back request that held nothing but what was returned, or failed to be, lets go of it.
LEMMA FinishRolling ==
    ASSUME BudgetInv, NEW r \in Requests, req[r].pc = "rolling", req[r].todo = {}, NEW x \in RequestType,
           Become(r, x), x.pc \in {"forwarded", "done"}, x.held = {}, x.todo = {}, x.failures = 0, x.at = req[r].at,
           x.unacked = req[r].unacked, drift' = drift + req[r].failures, UNCHANGED <<now, current, store>>
    PROVE  BudgetInv'
<1>1. Shape /\ RequestInv(r) /\ req[r] \in RequestType
  BY RequestFacts DEF BudgetInv
<1>2. drift \in Nat /\ req[r].failures \in Nat
  BY <1>1, BudgetFacts DEF Shape, RequestType
<1>3. drift' \in Nat /\ drift' >= drift /\ settled' = settled /\ now' = now /\ current' = current
      /\ used' = used /\ expires' = expires
  BY <1>2 DEF store
<1>4. req' \in [Requests -> RequestType] /\ req'[r] = x /\ OnlyOf(r)
  BY <1>1, <1>3, BecomeFacts
<1>5. Shape'
  BY <1>1, <1>3, <1>4 DEF Shape
<1>6. RequestInv(r)'
  <2>1. Young(r)' /\ Admitted(r)' /\ Closing(r)'
    BY <1>4 DEF Young, Admitted, Closing
  <2>2. Failing(r)'
    <3>1. Cardinality(req'[r].todo) = 0
      BY <1>4, EmptyIsZero
    <3> QED
      BY <1>4, <3>1, BudgetFacts DEF Failing
  <2>3. req'[r].at <= now'
    BY <1>1, <1>3, <1>4 DEF RequestInv
  <2> QED
    BY <2>1, <2>2, <2>3 DEF RequestInv
<1>7. ASSUME NEW k \in Keys
      PROVE  /\ PartIn(k, r)' <= PartIn(k, r) /\ PaidIn(k, r)' >= PaidIn(k, r)
             /\ drift' = 0 => PartIn(k, r)' = PartIn(k, r)
  <2>1. PartIn(k, r)' = 0 /\ PaidIn(k, r)' = 0
    BY <1>4 DEF PartIn, PaidIn, Holders
  <2>2. PartIn(k, r) \in Nat /\ k.budget \in BudgetIds
    BY <1>1, WeightFacts, KeyFacts
  <2>3. Actual(r, k.budget) = 0 /\ Estimated(r, k.budget) \in Nat
    BY <1>1, <2>2, BudgetFacts, RequestFacts DEF RequestInv, Closing, Actual
  <2>4. PaidIn(k, r) = 0
    BY <2>3 DEF PaidIn, Paid, Excess
  <2>5. ASSUME drift' = 0 PROVE PartIn(k, r) = 0
    <3>1. req[r].failures = 0
      BY <1>2, <2>5
    <3>2. r \in Holders(k) => Exact(r, k.budget)
      BY <1>1, <3>1 DEF RequestInv, Closing, Holders
    <3> QED
      BY <2>3, <3>2 DEF PartIn, Part, Exact
  <2> QED
    BY <2>1, <2>2, <2>4, <2>5
<1>8. ~CutShort(r)' => ~CutShort(r)
  BY <1>4 DEF CutShort
<1> QED
  BY <1>3, <1>4, <1>5, <1>6, <1>7, <1>8, QuietStep

\* With nothing left to correct, the failures are added to the drift metric and the request is
\* over.
LEMMA FinishStep ==
    ASSUME BudgetInv, NEW r \in Requests, Finish(r)
    PROVE  BudgetInv'
<1>1. /\ Shape /\ RequestInv(r) /\ req[r] \in RequestType /\ req[r].todo = {}
      /\ req[r].pc \in {"rolling", "settling"}
      /\ drift' = drift + req[r].failures /\ UNCHANGED <<now, current, store>>
  BY RequestFacts DEF BudgetInv, Finish
<1>2. 0 \in 0..Len(Budgets) /\ 1 \in 1..(Len(Budgets) + 1)
  BY BudgetFacts
<1>3. CASE req[r].pc = "settling"
  <2> DEFINE x == Over(req[r], "done")
  <2>1. /\ x \in RequestType /\ x.pc = "done"
        /\ x.gen = req[r].gen /\ x.at = req[r].at /\ x.estimate = req[r].estimate
        /\ x.actual = req[r].actual /\ x.held = req[r].held /\ x.todo = {}
        /\ x.failures = req[r].failures /\ x.unacked = req[r].unacked
    BY <1>1, <1>2 DEF RequestType, RequestStates, Over
  <2>2. Become(r, x)
    BY <1>3 DEF Finish
  <2> HIDE DEF x
  <2>3. drift \in Nat /\ req[r].failures \in Nat
    BY <1>1, BudgetFacts DEF Shape, RequestType
  <2>4. drift' \in Nat /\ drift' >= drift /\ settled' = settled /\ now' = now /\ current' = current
        /\ used' = used /\ expires' = expires
    BY <1>1, <2>3 DEF store
  <2>5. req' \in [Requests -> RequestType] /\ req'[r] = x /\ OnlyOf(r)
    BY <1>1, <2>1, <2>2, <2>4, BecomeFacts
  <2>6. Shape'
    BY <1>1, <2>4, <2>5 DEF Shape
  <2>7. RequestInv(r)'
    <3>1. Young(r)' /\ Admitted(r)'
      BY <2>1, <2>5 DEF Young, Admitted
    <3>2. Closing(r)'
      <4>1. req[r].held \subseteq BudgetIds /\ \A b \in req[r].held : Exact(r, b) \/ req[r].failures > 0
        BY <1>1 DEF RequestInv, Closing, RequestType
      <4>2. \A b \in req[r].held : Exact(r, b) => Exact(r, b)'
        BY <2>1, <2>4, <2>5 DEF Exact, Actual, Estimated
      <4>3. req[r].failures # 0 => drift' > 0
        BY <1>1, <2>3
      <4> QED
        BY <2>1, <2>3, <2>5, <4>1, <4>2, <4>3 DEF Closing
    <3>3. Failing(r)'
      <4>1. Cardinality(req'[r].todo) = 0 /\ req[r].failures <= Len(Budgets)
        <5>1. req'[r].todo = {} /\ req[r].failures \in 0..Len(Budgets)
          BY <1>1, <2>1, <2>5 DEF RequestType
        <5> QED
          BY <5>1, EmptyIsZero, BudgetFacts
      <4> QED
        BY <2>1, <2>3, <2>5, <4>1, BudgetFacts DEF Failing
    <3>4. req'[r].at <= now'
      BY <1>1, <2>1, <2>4, <2>5 DEF RequestInv
    <3> QED
      BY <3>1, <3>2, <3>3, <3>4 DEF RequestInv
  <2>8. Same(r) /\ (~CutShort(r)' => ~CutShort(r))
    BY <1>3, <2>1, <2>5 DEF Same, CutShort
  <2> QED
    BY <1>1, <2>5, <2>6, <2>7, <2>8, KeepStep
<1>4. CASE req[r].pc = "rolling" /\ req[r].outcome = "open"
  <2> DEFINE x == [Dropped(r) EXCEPT !.pc = "forwarded"]
  <2>1. /\ x \in RequestType /\ x.pc = "forwarded" /\ x.at = req[r].at /\ x.held = {} /\ x.todo = req[r].todo
        /\ x.failures = 0 /\ x.unacked = req[r].unacked
    BY <1>1, <1>2 DEF RequestType, RequestStates, Dropped
  <2>2. Become(r, x)
    BY <1>4 DEF Finish
  <2> HIDE DEF x
  <2> QED
    BY <1>1, <1>4, <2>1, <2>2, FinishRolling
<1>5. CASE req[r].pc = "rolling" /\ req[r].outcome # "open"
  <2> DEFINE x == Over(Dropped(r), "done")
  <2>1. /\ x \in RequestType /\ x.pc = "done" /\ x.at = req[r].at /\ x.held = {} /\ x.todo = {}
        /\ x.failures = 0 /\ x.unacked = req[r].unacked
    BY <1>1, <1>2 DEF RequestType, RequestStates, Dropped, Over
  <2>2. Become(r, x)
    BY <1>5 DEF Finish
  <2> HIDE DEF x
  <2> QED
    BY <1>1, <1>5, <2>1, <2>2, FinishRolling
<1> QED
  BY <1>1, <1>3, <1>4, <1>5

\* The request's future is dropped, its pending script applied or not.
LEMMA CancelStep ==
    ASSUME BudgetInv, NEW r \in Requests, Cancel(r)
    PROVE  BudgetInv'
<1> DEFINE x == Over(req[r], "gone")
<1>1. /\ Shape /\ RequestInv(r) /\ req[r] \in RequestType /\ UNCHANGED <<now, current, drift>>
      /\ \/ Reserving(r) /\ ReserveScript(r)
         \/ Settling(r) /\ SettleScript(r)
         \/ UNCHANGED store
  BY RequestFacts DEF BudgetInv, Cancel
<1>2. /\ x \in RequestType /\ x.pc = "gone"
      /\ x.gen = req[r].gen /\ x.at = req[r].at /\ x.estimate = req[r].estimate
      /\ x.actual = req[r].actual /\ x.held = req[r].held /\ x.todo = {}
      /\ x.failures = req[r].failures /\ x.unacked = req[r].unacked
  <2>1. 1 \in 1..(Len(Budgets) + 1)
    BY BudgetFacts
  <2> QED
    BY <1>1, <2>1 DEF RequestType, RequestStates, Over
<1>3. Become(r, x)
  BY DEF Cancel
<1> HIDE DEF x
<1>4. ASSUME used' \in [Keys -> Nat], expires' \in [Keys -> Nat], settled' \subseteq Requests \X BudgetIds,
             \A y \in Requests : y # r => \A b \in BudgetIds : <<y, b>> \in settled' <=> <<y, b>> \in settled
      PROVE  Shape' /\ OnlyOf(r) /\ RequestInv(r)' /\ Same(r) /\ CutShort(r)'
  <2>1. now' = now /\ drift' >= drift
    BY <1>1 DEF Shape
  <2>2. req' \in [Requests -> RequestType] /\ req'[r] = x /\ OnlyOf(r)
    BY <1>1, <1>2, <1>3, <1>4, <2>1, BecomeFacts
  <2>3. Shape'
    BY <1>1, <1>4, <2>2 DEF Shape
  <2>4. RequestInv(r)'
    <3>1. Young(r)' /\ Admitted(r)' /\ Closing(r)'
      BY <1>2, <2>2 DEF Young, Admitted, Closing
    <3>2. Failing(r)'
      <4>1. Cardinality(req'[r].todo) = 0 /\ req'[r].failures \in 0..Len(Budgets)
        BY <1>1, <1>2, <2>2, EmptyIsZero DEF RequestType
      <4> QED
        BY <1>2, <2>2, <4>1, BudgetFacts DEF Failing
    <3>3. req'[r].at <= now'
      BY <1>1, <1>2, <2>1, <2>2 DEF RequestInv
    <3> QED
      BY <3>1, <3>2, <3>3 DEF RequestInv
  <2>5. Same(r) /\ CutShort(r)'
    BY <1>2, <2>2 DEF Same, CutShort
  <2> QED
    BY <2>2, <2>3, <2>4, <2>5
<1>5. CASE UNCHANGED store
  <2>1. used' = used /\ expires' = expires /\ settled' = settled
    BY <1>5 DEF store
  <2>2. Shape' /\ OnlyOf(r) /\ RequestInv(r)' /\ Same(r) /\ CutShort(r)'
    BY <1>1, <1>4, <2>1 DEF Shape
  <2> QED
    BY <1>5, <2>2, KeepStep
<1>6. CASE Reserving(r) /\ ReserveScript(r) /\ ~Admits(r)
  <2>1. UNCHANGED store
    BY <1>6 DEF ReserveScript, store
  <2> QED
    BY <1>5, <2>1
<1>7. CASE Reserving(r) /\ ReserveScript(r) /\ Admits(r)
  <2>1. used' \in [Keys -> Nat] /\ expires' \in [Keys -> Nat] /\ settled' = settled
    BY <1>1, <1>7, ReserveRuns
  <2>2. Shape' /\ OnlyOf(r) /\ RequestInv(r)' /\ Same(r) /\ CutShort(r)'
    BY <1>1, <1>4, <2>1 DEF Shape
  <2> QED
    BY <1>7, <2>2, ReserveAdds
<1>8. CASE Settling(r) /\ SettleScript(r)
  <2>1. /\ used' \in [Keys -> Nat] /\ expires' \in [Keys -> Nat]
        /\ settled' \subseteq Requests \X BudgetIds
        /\ \A y \in Requests, b \in BudgetIds :
              <<y, b>> \in settled' <=> <<y, b>> \in settled \/ (y = r /\ b = Min(req[r].todo))
    BY <1>1, <1>8, SettleRuns
  <2>2. Shape' /\ OnlyOf(r) /\ RequestInv(r)' /\ Same(r) /\ CutShort(r)'
    BY <1>4, <2>1
  <2> QED
    BY <1>8, <2>2, SettleMoves
<1> QED
  BY <1>1, <1>5, <1>6, <1>7, <1>8

----------------------------------------------------------------------------
(* Time passes, and the configuration is reloaded. *)

\* Time passing and a reload touch no counter and no request.
LEMMA OtherStep ==
    ASSUME BudgetInv, Reload \/ Tick \/ UNCHANGED vars
    PROVE  BudgetInv'
<1>1. /\ req' = req /\ used' = used /\ expires' = expires /\ settled' = settled /\ drift' = drift
      /\ now' \in 0..MaxTime /\ current' \in Generations /\ now <= now'
  <2>1. now \in 0..MaxTime /\ current \in Generations /\ MaxTime \in Nat /\ LastGeneration \in Nat
    BY BudgetAssumption DEF BudgetInv, Shape
  <2>2. CASE Reload
    BY <2>1, <2>2 DEF Reload, store, Generations
  <2>3. CASE Tick
    BY <2>1, <2>3 DEF Tick, store
  <2>4. CASE UNCHANGED vars
    BY <2>1, <2>4 DEF vars
  <2> QED
    BY <2>2, <2>3, <2>4
<1>2. Shape /\ Shape'
  BY <1>1 DEF BudgetInv, Shape
<1>3. now \in Nat /\ now' \in Nat
  BY <1>1, <1>2, BudgetAssumption DEF Shape
<1>4. ASSUME NEW r \in Requests PROVE RequestInv(r)'
  <2>1. RequestInv(r) /\ req[r].at \in Nat
    BY <1>2, RequestFacts, BudgetAssumption DEF BudgetInv, RequestType
  <2>2. Young(r)' /\ Admitted(r)' /\ Closing(r)' /\ Failing(r)'
    BY <1>1, <2>1 DEF RequestInv, Young, Admitted, Closing, Failing, Exact, Actual, Estimated
  <2>3. req'[r].at <= now'
    BY <1>1, <1>3, <2>1 DEF RequestInv
  <2> QED
    BY <2>2, <2>3 DEF RequestInv
<1>5. ASSUME NEW k \in Keys PROVE KeyInv(k)' /\ SumInv(k)'
  <2>1. KeyInv(k) /\ SumInv(k) /\ k.budget \in BudgetIds /\ k.window \in Nat
    BY KeyFacts DEF BudgetInv
  <2>2. KeyInv(k)'
    BY <1>1, <2>1 DEF KeyInv
  <2>3. Open(k)' => Open(k)
    <3> DEFINE W == Budgets[k.budget].window
    <3>1. W \in Nat \ {0}
      BY <2>1, BudgetFacts
    <3>2. now \div W \in Nat /\ now' \div W \in Nat /\ now \div W <= now' \div W
      BY <1>1, <1>3, <3>1, Windows
    <3> HIDE DEF W
    <3>3. Open(k)' <=> now' \div W <= k.window
      BY DEF Open, Window, W
    <3>4. Open(k) <=> now \div W <= k.window
      BY DEF Open, Window, W
    <3> QED
      BY <2>1, <3>2, <3>3, <3>4
  <2>4. \A r \in Requests : PartIn(k, r)' = PartIn(k, r) /\ PaidIn(k, r)' = PaidIn(k, r)
    BY <1>1 DEF PartIn, PaidIn, Part, Paid, Excess, Actual, Estimated, Holders, Key
  <2>5. Parts(k)' = Parts(k) /\ PaidFor(k)' = PaidFor(k)
    BY <2>4 DEF Parts, PaidFor
  <2>6. Undisturbed' <=> Undisturbed
    BY <1>1 DEF Undisturbed, CutShort
  <2>7. SumInv(k)'
    BY <1>1, <2>1, <2>3, <2>5, <2>6 DEF SumInv
  <2> QED
    BY <2>2, <2>7
<1> QED
  BY <1>2, <1>4, <1>5 DEF BudgetInv

\* The invariant holds when the process starts.
LEMMA InitInv == Init => BudgetInv
<1> SUFFICES ASSUME Init PROVE BudgetInv
  OBVIOUS
<1>1. Fresh \in RequestType
  <2>1. 1 \in Generations /\ 0 \in 0..MaxTime /\ Zero \in Spends
    BY BudgetFacts, BudgetAssumption DEF Generations
  <2>2. 1 \in 1..(Len(Budgets) + 1) /\ 1 \in 1..Attempts /\ 0 \in 0..Len(Budgets)
    BY BudgetFacts, BudgetAssumption
  <2> QED
    BY <2>1, <2>2 DEF Fresh, RequestType, RequestStates
<1>2. /\ Fresh.pc = "idle" /\ Fresh.at = 0 /\ Fresh.actual = Zero /\ Fresh.failures = 0 /\ ~Fresh.unacked
      /\ Fresh.held = {} /\ Fresh.todo = {}
  BY DEF Fresh
<1>3. now = 0 /\ current = 1 /\ settled = {} /\ drift = 0 /\ \A r \in Requests : req[r] = Fresh
  BY DEF Init
<1>4. Shape
  <2>1. req \in [Requests -> RequestType]
    BY <1>1 DEF Init
  <2>2. now \in 0..MaxTime /\ current \in Generations /\ drift \in Nat
    BY <1>3, BudgetAssumption DEF Generations
  <2> QED
    BY <1>3, <2>1, <2>2 DEF Init, Shape
<1>5. ASSUME NEW r \in Requests PROVE RequestInv(r)
  <2>1. Young(r) /\ Admitted(r) /\ Closing(r) /\ req[r].at <= now
    BY <1>2, <1>3 DEF Young, Admitted, Closing
  <2>2. Failing(r)
    <3>1. req[r].todo = {} /\ req[r].failures = 0 /\ Cardinality(req[r].todo) = 0
      BY <1>2, <1>3, EmptyIsZero
    <3> QED
      BY <3>1, BudgetFacts DEF Failing
  <2> QED
    BY <2>1, <2>2 DEF RequestInv
<1>6. ASSUME NEW k \in Keys PROVE KeyInv(k) /\ SumInv(k)
  <2>1. used[k] = 0 /\ expires[k] = 0
    BY DEF Init
  <2>2. KeyInv(k)
    BY <2>1 DEF KeyInv
  <2>3. \A r \in Requests : PartIn(k, r) = 0
    BY <1>2, <1>3 DEF PartIn, Holders
  <2>4. Parts(k) = 0
    <3> DEFINE w == [r \in Requests |-> PartIn(k, r)]
    <3>1. w \in [Requests -> Int] /\ \A r \in Requests : w[r] = 0
      BY <2>3
    <3>2. Parts(k) = SumFunction(w)
      BY DEF Parts
    <3> HIDE DEF w
    <3> QED
      BY <3>1, <3>2, SumOfOne, BudgetAssumption
  <2>5. PaidFor(k) \in Int /\ PaidFor(k) >= 0 /\ Budgets[k.budget].limit \in Nat
    BY <1>4, WeightFacts, KeyFacts, BudgetFacts
  <2>6. SumInv(k)
    BY <2>1, <2>4, <2>5 DEF SumInv
  <2> QED
    BY <2>2, <2>6
<1> QED
  BY <1>4, <1>5, <1>6 DEF BudgetInv

\* Every step keeps the invariant: one lemma above per action.
LEMMA NextInv == BudgetInv /\ [Next]_vars => BudgetInv'
<1> SUFFICES ASSUME BudgetInv, [Next]_vars PROVE BudgetInv'
  OBVIOUS
<1>1. ASSUME NEW r \in Requests, Step(r) PROVE BudgetInv'
  BY <1>1, SkipStep, ReserveStep, ReserveFailsStep, AdmitStep, SettleStep, SettleFailsStep, FinishStep DEF Step
<1>2. ASSUME NEW r \in Requests, Answer(r) PROVE BudgetInv'
  <2>1. Zero \in Spends /\ TRUE \in BOOLEAN /\ FALSE \in BOOLEAN
    BY BudgetFacts
  <2> QED
    BY <1>2, <2>1, SettleToStep DEF Answer, Commit, StreamEnds, Release
<1>3. ASSUME NEW r \in Requests, NEW estimate \in Spends, Begin(r, estimate) PROVE BudgetInv'
  BY <1>3, BeginStep
<1>4. ASSUME NEW r \in Requests, Cancel(r) PROVE BudgetInv'
  BY <1>4, CancelStep
<1>5. CASE Reload \/ Tick \/ Ended \/ UNCHANGED vars
  BY <1>5, OtherStep DEF Ended
<1> QED
  BY <1>1, <1>2, <1>3, <1>4, <1>5 DEF Next

\* The inductive invariant holds in every reachable state.
LEMMA InvAlways == Spec => []BudgetInv
  BY InitInv, NextInv, PTL DEF Spec

----------------------------------------------------------------------------
(* The properties. *)

\* The counters that reservations read have the values the invariant is about.
LEMMA LiveFacts ==
    ASSUME BudgetInv, NEW k \in LiveKeys
    PROVE  /\ k \in Keys /\ Open(k) /\ Value(k) = used[k] /\ SumInv(k)
           /\ used[k] \in Nat /\ k.budget \in BudgetIds
<1>1. k \in Keys /\ Shape
  BY DEF LiveKeys, BudgetInv
<1>2. Open(k)
  <2>1. k.window = Window(k.budget, now) /\ k.window \in Nat
    BY <1>1, KeyFacts DEF LiveKeys
  <2> QED
    BY <2>1 DEF Open
<1> QED
  BY <1>1, <1>2, ValueIsUsed, KeyFacts DEF BudgetInv, Shape

\* A sum of what is at most, or exactly, the part of every holder is at most, or exactly, that of the parts.
LEMMA InvUnderstated == BudgetInv => NeverUnderstated
<1> SUFFICES ASSUME BudgetInv, NEW k \in LiveKeys PROVE Value(k) >= Total(k, Owed)
  BY DEF NeverUnderstated
<1>1. /\ k \in Keys /\ Open(k) /\ Value(k) = used[k] /\ SumInv(k)
      /\ used[k] \in Nat /\ k.budget \in BudgetIds /\ Shape
  BY LiveFacts DEF BudgetInv
<1>2. ASSUME NEW r \in Holders(k)
      PROVE  Owed(r, k.budget) \in Nat /\ Owed(r, k.budget) <= Part(r, k.budget)
  <2> DEFINE b == k.budget
  <2>1. r \in Requests /\ b \in req[r].held /\ RequestInv(r)
    BY DEF Holders, BudgetInv
  <2>2. Estimated(r, b) \in Nat /\ Actual(r, b) \in Nat /\ req[r].pc \in RequestStates /\ req[r].failures \in Nat
    BY <1>1, <2>1, RequestFacts, BudgetFacts DEF RequestType
  <2> HIDE DEF b
  <2>3. CASE req[r].pc \in {"reserving", "forwarded"}
    <3>1. <<r, b>> \notin settled
      BY <1>1, <2>1, <2>3 DEF RequestInv, Young, Admitted, b
    <3>2. Owed(r, b) = Estimated(r, b)
      BY <2>3 DEF Owed
    <3> QED
      BY <2>2, <3>1, <3>2 DEF Part, b
  <2>4. CASE req[r].pc = "rolling"
    <3>1. Owed(r, b) = 0
      BY <2>4 DEF Owed
    <3> QED
      BY <2>2, <3>1 DEF Part, b
  <2>5. CASE req[r].pc = "done" /\ req[r].failures = 0
    <3>1. Exact(r, b)
      BY <2>1, <2>5 DEF RequestInv, Closing
    <3>2. Owed(r, b) = Actual(r, b)
      BY <2>5 DEF Owed
    <3> QED
      BY <2>2, <3>1, <3>2 DEF Part, Exact, b
  <2>6. CASE /\ req[r].pc \notin {"reserving", "forwarded", "rolling"}
             /\ ~(req[r].pc = "done" /\ req[r].failures = 0)
    <3>1. Owed(r, b) = IF Actual(r, b) < Estimated(r, b) THEN Actual(r, b) ELSE Estimated(r, b)
      BY <2>6 DEF Owed
    <3> QED
      BY <2>2, <3>1 DEF Part, b
  <2> QED
    BY <2>3, <2>4, <2>5, <2>6
<1> DEFINE w == [r \in Requests |-> PartIn(k, r)]
           v == [r \in Requests |-> IF r \in Holders(k) THEN Owed(r, k.budget) ELSE 0]
<1>3. w \in [Requests -> Int] /\ \A r \in Requests : PartIn(k, r) \in Nat
  BY <1>1, WeightFacts
<1>4. v \in [Requests -> Int] /\ \A r \in Requests : v[r] <= w[r]
  BY <1>2, <1>3 DEF PartIn
<1>5. Parts(k) = SumFunction(w) /\ Total(k, Owed) = SumFunction(v)
  BY DEF Parts, Total
<1> HIDE DEF w, v
<1>6. SumFunction(v) <= SumFunction(w) /\ SumFunction(v) \in Int
  BY <1>3, <1>4, SumsOfTwo, SumOfOne, BudgetAssumption
<1>7. Parts(k) <= used[k] /\ Parts(k) \in Int
  BY <1>1, WeightFacts DEF SumInv
<1> QED
  BY <1>1, <1>5, <1>6, <1>7

\* The invariant bounds what a budget admits.
LEMMA InvWithin == BudgetInv => WithinBudget
<1> SUFFICES ASSUME BudgetInv PROVE WithinBudget
  OBVIOUS
<1>1. TypeOK
  <2>1. Shape
    BY DEF BudgetInv
  <2>2. ASSUME NEW r \in Requests
        PROVE  req[r] \in RequestType /\ req[r].at \in 0..now
    BY <2>1, RequestFacts, BudgetAssumption DEF BudgetInv, RequestInv, RequestType, Shape
  <2> QED
    BY <2>1, <2>2 DEF Shape, TypeOK, RequestType
<1>2. ASSUME NEW k \in LiveKeys
      PROVE  Value(k) <= Budgets[k.budget].limit + Total(k, Excess)
  <2>1. /\ k \in Keys /\ Open(k) /\ Value(k) = used[k] /\ SumInv(k)
        /\ used[k] \in Nat /\ k.budget \in BudgetIds /\ Shape
    BY <1>2, LiveFacts DEF BudgetInv
  <2> DEFINE w == [r \in Requests |-> PaidIn(k, r)]
             v == [r \in Requests |-> IF r \in Holders(k) THEN Excess(r, k.budget) ELSE 0]
  <2>2. w \in [Requests -> Int]
    BY <2>1, WeightFacts
  <2>3. \A r \in Requests : Excess(r, k.budget) \in Nat
    BY <2>1, RequestFacts
  <2>4. v \in [Requests -> Int] /\ \A r \in Requests : w[r] <= v[r]
    BY <2>3 DEF PaidIn, Paid
  <2>5. PaidFor(k) = SumFunction(w) /\ Total(k, Excess) = SumFunction(v)
    BY DEF PaidFor, Total
  <2> HIDE DEF w, v
  <2>6. SumFunction(w) <= SumFunction(v) /\ SumFunction(v) \in Int
    BY <2>2, <2>4, SumsOfTwo, SumOfOne, BudgetAssumption
  <2>7. used[k] <= Budgets[k.budget].limit + PaidFor(k) /\ PaidFor(k) \in Int /\ Budgets[k.budget].limit \in Nat
    BY <2>1, WeightFacts, BudgetFacts DEF SumInv
  <2> QED
    BY <2>1, <2>5, <2>6, <2>7
<1> QED
  BY <1>1, <1>2 DEF WithinBudget, OvershootIsUnderestimate

\* With no drift reported, no request cut short and all at rest, a counter is exactly the actual
\* spend.
LEMMA InvDrift == BudgetInv => DriftIsReported
<1> SUFFICES ASSUME BudgetInv, AtRest, drift = 0, \A r \in Requests : ~CutShort(r), NEW k \in LiveKeys
             PROVE  Value(k) = Total(k, Actual)
  BY DEF DriftIsReported
<1>1. /\ k \in Keys /\ Open(k) /\ Value(k) = used[k] /\ SumInv(k)
      /\ used[k] \in Nat /\ k.budget \in BudgetIds /\ Shape
  BY LiveFacts DEF BudgetInv
<1>2. used[k] = Parts(k)
  BY <1>1 DEF SumInv, Undisturbed
<1>3. ASSUME NEW r \in Requests
      PROVE  PartIn(k, r) = IF r \in Holders(k) THEN Actual(r, k.budget) ELSE 0
  <2>1. CASE r \in Holders(k)
    <3>1. req[r].pc \in {"idle", "done"} /\ k.budget \in req[r].held /\ RequestInv(r)
      BY <2>1 DEF AtRest, CutShort, Holders, BudgetInv
    <3>2. req[r].pc = "done" /\ Exact(r, k.budget)
      BY <3>1, <1>1 DEF RequestInv, Young, Closing, Shape
    <3> QED
      BY <2>1, <3>2 DEF PartIn, Part, Exact
  <2>2. CASE r \notin Holders(k)
    BY <2>2 DEF PartIn
  <2> QED
    BY <2>1, <2>2
<1>4. Parts(k) = Total(k, Actual)
  BY <1>3 DEF Parts, Total
<1> QED
  BY <1>1, <1>2, <1>4

(***************************************************************************)
(* No counter of a window that lasts is below what its requests hold and   *)
(* have spent, whatever replies the store loses, however often a settling  *)
(* is retried and whenever a request is dropped: the markers of the        *)
(* settling script make a retry harmless, and no counter is cut off at     *)
(* zero before its window is over.                                         *)
(***************************************************************************)
THEOREM NothingUnderstated == Spec => []NeverUnderstated
  BY InvAlways, InvUnderstated, PTL

(***************************************************************************)
(* The state has its type, and no counter passes its limit by more than    *)
(* what requests that were settled spent above their estimates, however    *)
(* many requests and edges reserve at once.                                *)
(***************************************************************************)
THEOREM CapsHold == Spec => []WithinBudget
  BY InvAlways, InvWithin, PTL

(***************************************************************************)
(* With no request under way, cut short or unacknowledged and no           *)
(* reconcile failure recorded, every counter is exactly what was spent.    *)
(***************************************************************************)
THEOREM DriftShows == Spec => []DriftIsReported
  BY InvAlways, InvDrift, PTL
=============================================================================
