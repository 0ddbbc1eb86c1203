------------------------------ MODULE Limiter ------------------------------
(***************************************************************************)
(* The shared-store rate limiter (src/limiter.rs): GCRA on the theoretical *)
(* arrival time (TAT) stored for a key, in the process's own map or in a   *)
(* Redis that every replica uses and that expires the keys.  The replicas' *)
(* clocks are one clock, as the module requires of its deployment.         *)
(*                                                                         *)
(* The script in Redis and the map behind its mutex decide and store in    *)
(* one step, so the replicas are not told apart.  What a caller gets is    *)
(* told apart from what was charged: the connection to Redis can fail      *)
(* before or after the script ran, and a caller is then let through or     *)
(* answered 503 (ratelimit.fail_open).                                     *)
(***************************************************************************)
EXTENDS Gcra, Sequences

CONSTANTS Limits,    \* configurations of the limiter: see LimitsType
          Ips,       \* clients
          Paths,     \* requested paths, as sequences of characters
          Principals,\* authenticated callers
          Millisecond, \* units of time in the unit Redis expires keys by
          Horizon,   \* bound: the time the model runs
          MaxResets  \* bound: how often the runtime is rebuilt

\* ratelimit.store, .rate and .burst, .routes, .per_key
LimitsType == [store : {"memory", "redis"}, global : Rate,
               routes : Seq([path : Seq(STRING), rate : Rate]), per_key : Rate \cup {<<>>}]

\* Gcra::from_rate refuses a rate with no interval between two admissions.
ASSUME LimiterAssumption ==
    /\ Limits \subseteq LimitsType
    /\ \A l \in Limits : \A r \in {l.global} \cup {l.routes[i].rate : i \in DOMAIN l.routes} :
          r.period \div r.count > 0
    /\ \A l \in Limits : l.per_key # <<>> => l.per_key.period \div l.per_key.count > 0
    /\ Paths \subseteq Seq(STRING)
    /\ Millisecond \in Nat \ {0} /\ Horizon \in Nat /\ MaxResets \in Nat

VARIABLES limits,   \* the configuration
          now,
          tats,     \* the TAT stored for each key, or None
          expires,  \* when Redis drops the key
          admitted, \* how often each key was admitted and charged
          resets    \* how often the in-process map was replaced

limiterVars == <<limits, now, tats, expires, admitted, resets>>

----------------------------------------------------------------------------
(* Which limit and key a request meets. *)

StartsWith(path, prefix) ==
    Len(prefix) <= Len(path) /\ SubSeq(path, 1, Len(prefix)) = prefix

\* The longest prefix; of two equal ones, the last.
Matching(path) == {i \in DOMAIN limits.routes : StartsWith(path, limits.routes[i].path)}
LongestMatch(path) ==
    CHOOSE i \in Matching(path) : \A j \in Matching(path) \ {i} :
        LET a == Len(limits.routes[i].path)
            b == Len(limits.routes[j].path)
        IN a > b \/ (a = b /\ i > j)

IpRule(ip, path) ==
    IF Matching(path) # {}
    THEN LET r == limits.routes[LongestMatch(path)]
         IN [key |-> <<"route", r.path, ip>>, rate |-> r.rate]
    ELSE [key |-> <<"ip", <<>>, ip>>, rate |-> limits.global]

KeyRule(p) == [key |-> <<"key", <<>>, p>>, rate |-> limits.per_key]

\* The routes a request can meet: a later one with the same path hides an earlier one.
Routes(l) == {i \in DOMAIN l.routes : \A j \in DOMAIN l.routes : l.routes[j].path = l.routes[i].path => j <= i}

RulesOf(l) ==
    {[key |-> <<"ip", <<>>, ip>>, rate |-> l.global] : ip \in Ips}
    \cup {[key |-> <<"route", l.routes[i].path, ip>>, rate |-> l.routes[i].rate] :
             i \in Routes(l), ip \in Ips}
    \cup {[key |-> <<"key", <<>>, p>>, rate |-> l.per_key] :
             p \in {q \in Principals : l.per_key # <<>>}}
Rules == RulesOf(limits)
Keys == {r.key : r \in Rules}
GcraOf(k) == FromRate((CHOOSE r \in Rules : r.key = k).rate)

----------------------------------------------------------------------------
LimiterInit ==
    /\ limits \in Limits
    /\ now = 0 /\ resets = 0
    /\ tats = [k \in Keys |-> None]
    /\ expires = [k \in Keys |-> None]
    /\ admitted = [k \in Keys |-> 0]

\* Mutant: the time to live is rounded down.
TtlDown(new) == MaxOf((new - now) \div Millisecond, 1) * Millisecond

\* SET ... PX: the time to live is rounded up to whole milliseconds.
Ttl(new) == MaxOf((new - now + Millisecond - 1) \div Millisecond, 1) * Millisecond

Store(k) ==
    LET new == NewTat(tats[k], now, GcraOf(k))
    IN /\ tats' = [tats EXCEPT ![k] = new]
       /\ expires' = IF limits.store = "redis"
                     THEN [expires EXCEPT ![k] = now + Ttl(new)]
                     ELSE expires

\* Store::admit and DistributedLimiter::admit, the store answering.
Decide(k) ==
    /\ \/ /\ Admits(tats[k], now, GcraOf(k))
          /\ Store(k)
          /\ admitted' = [admitted EXCEPT ![k] = @ + 1]
       \/ /\ ~Admits(tats[k], now, GcraOf(k))
          /\ UNCHANGED <<tats, expires, admitted>>
    /\ UNCHANGED <<limits, now, resets>>

\* Redis ran the script and its reply is lost: the caller is let through (fail_open) or answered
\* 503, and the key is charged.  A Redis that cannot be asked leaves every key as it was.
Fail(k) ==
    /\ limits.store = "redis"
    /\ Admits(tats[k], now, GcraOf(k))
    /\ Store(k)
    /\ UNCHANGED <<limits, now, admitted, resets>>

CheckIpRoute(ip, path) == LET k == IpRule(ip, path).key IN Decide(k) \/ Fail(k)

CheckKey(p) == limits.per_key # <<>> /\ (Decide(KeyRule(p).key) \/ Fail(KeyRule(p).key))

\* A rebuilt runtime (DistributedLimiter::build) has a new map; Redis keeps its keys.
Rebuild ==
    /\ limits.store = "memory" /\ resets < MaxResets
    /\ tats' = [k \in Keys |-> None]
    /\ resets' = resets + 1
    /\ UNCHANGED <<limits, now, expires, admitted>>

LimiterTick ==
    /\ now < Horizon
    /\ now' = now + 1
    /\ LET gone == {k \in Keys : expires[k] # None /\ expires[k] <= now + 1}
       IN /\ tats' = [k \in Keys |-> IF k \in gone THEN None ELSE tats[k]]
          /\ expires' = [k \in Keys |-> IF k \in gone THEN None ELSE expires[k]]
    /\ UNCHANGED <<limits, admitted, resets>>

LimiterNext ==
    \/ \E ip \in Ips, path \in Paths : CheckIpRoute(ip, path)
    \/ \E p \in Principals : CheckKey(p)
    \/ Rebuild
    \/ LimiterTick

LimiterSpec == LimiterInit /\ [][LimiterNext]_limiterVars

----------------------------------------------------------------------------
(* Properties. *)

\* The credit of a key: how far its TAT may still run ahead.
Credit == [k \in Keys |-> GcraOf(k).tolerance - (Tat(tats[k], now) - now)]

Bucket == INSTANCE LeakyBucket
          WITH rates <- [k \in Keys |-> [interval |-> GcraOf(k).interval,
                                         capacity |-> GcraOf(k).tolerance]],
               credit <- Credit

\* Whatever the store, its expiring keys, lost replies and rebuilt runtimes, every key behaves as a
\* leaky bucket of the configured rate and burst (Store::admit, GCRA_LUA): the stored arrival times
\* implement the abstract promise.
IsLeakyBucket == Bucket!Spec

\* Over any stretch from the start, a key is admitted at most its burst and one request for each
\* emission interval that passed, with a new burst for each in-process map that was thrown away.
RateHolds ==
    \A r \in Rules :
        LET interval == r.rate.period \div r.rate.count
        IN admitted[r.key] * interval <= r.rate.burst * interval * (1 + resets) + now

\* A refused caller told to come back at next_admit_at is admitted then, and not before: the
\* instant neither lies in the past (a hot loop) nor one interval late.
RetryIsExact ==
    \A k \in Keys :
        LET g == GcraOf(k)
            at == NextAdmitAt(tats[k], now, g)
        IN ~Admits(tats[k], now, g) =>
              /\ at > now
              /\ Admits(tats[k], at, g)
              /\ \A t \in now..(at - 1) : ~Admits(tats[k], t, g)

\* The `remaining` an operator is shown is at most one too high, and never too low
\* (Gcra::remaining, used by the metrics of the issuance ledger).
RemainingWithinOne ==
    \A k \in Keys :
        LET g == GcraOf(k)
            left == Successive(tats[k], now, g)
        IN Remaining(tats[k], now, g) \in {left, left + 1}

\* A limit is a leaky bucket of its rate and burst, admits no more than they allow over any stretch,
\* and tells a refused caller exactly when to come back.
RatesKept == IsLeakyBucket /\ [](RateHolds /\ RetryIsExact /\ RemainingWithinOne)
=============================================================================
