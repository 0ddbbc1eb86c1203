------------------------- MODULE UpstreamPoolProofs -------------------------
(***************************************************************************)
(* Proofs about UpstreamPool, for any targets, requests, configurations    *)
(* and bounds that satisfy its assumptions.                                *)
(***************************************************************************)
EXTENDS UpstreamPool, FiniteSetTheorems, TLAPS

(***************************************************************************)
(* What Elements is of a non-empty sequence.                               *)
(***************************************************************************)
LEMMA ElementsOfSeq ==
    ASSUME NEW T, NEW q \in Seq(T), q # <<>>
    PROVE  Elements(q) \subseteq T /\ Elements(q) # {}
<1>1. DOMAIN q = 1..Len(q) /\ Len(q) \in Nat \ {0}
  OBVIOUS
<1>2. 1 \in DOMAIN q /\ \A i \in DOMAIN q : q[i] \in T
  BY <1>1
<1>3. q[1] \in Elements(q)
  BY <1>2 DEF Elements
<1> QED
  BY <1>2, <1>3 DEF Elements

(***************************************************************************)
(* Every order a request may take is a non-empty sequence of targets.      *)
(***************************************************************************)
LEMMA OrdersAreTargets ==
    ASSUME NEW c, ValidConfig(c), NEW up, NEW s \in Orders(c, up)
    PROVE  s \in Seq(Targets) /\ 1 <= Len(s)
<1> DEFINE S == Tried(c, up)
<1>1. Elements(c.targets) \subseteq Targets /\ Elements(c.targets) # {}
  BY ElementsOfSeq DEF ValidConfig
<1>2. S \subseteq Targets /\ S # {}
  BY <1>1 DEF Tried
<1>3. IsFiniteSet(S)
  BY <1>2, FS_Subset, ConstantsAssumption
<1>4. Cardinality(S) \in Nat /\ Cardinality(S) # 0
  BY <1>2, <1>3, FS_CardinalityType, FS_EmptySet
<1>5. s \in [1..Cardinality(S) -> S]
  BY DEF Orders
<1> HIDE DEF S
<1> QED
  BY <1>2, <1>4, <1>5

(***************************************************************************)
(* An ejection keeps a health well typed: its length is at most            *)
(* eject_for_max, hence at most Horizon.                                   *)
(***************************************************************************)
LEMMA EjectType ==
    ASSUME TypeOK, NEW h \in Health, NEW g \in Generations, NEW reason \in Reasons
    PROVE  Eject(h, Configs[g], reason) \in HealthType
<1> DEFINE c == Configs[g]
<1>1. health[h] \in HealthType
  BY DEF TypeOK
<1>2. /\ c.eject_for \in Nat /\ c.eject_for_max \in Nat
      /\ c.eject_for_max <= Horizon /\ MaxCount \in Nat /\ Horizon \in Nat /\ MaxCount > 0
  BY ConfigsAssumption, ConstantsAssumption DEF ValidConfig
<1> DEFINE n == Bump(InARow(h, c.eject_for_max))
<1>3. n \in 0..MaxCount
  BY <1>1, <1>2 DEF HealthType, InARow, Bump
<1> DEFINE length == IF c.eject_for * n <= c.eject_for_max
                     THEN c.eject_for * n ELSE c.eject_for_max
<1>4. c.eject_for * n \in Nat
  BY <1>2, <1>3
<1>5. length \in 0..Horizon
  BY <1>2, <1>4
<1>6. Eject(h, c, reason)
        = [health[h] EXCEPT !.in_a_row = n, !.reason = reason,
                            !.last_end = length, !.ejected = length]
  BY DEF Eject
<1> HIDE DEF n, length
<1>7. length \in (-Horizon)..Horizon
  BY <1>2, <1>5
<1> QED
  BY <1>1, <1>3, <1>5, <1>6, <1>7 DEF HealthType

\* The state the edge starts in has its types.
LEMMA TypeInit == Init => TypeOK
<1> SUFFICES ASSUME Init PROVE TypeOK
  OBVIOUS
<1> USE ConstantsAssumption
<1>1. 1 \in Generations
  BY DEF Generations
<1>2. arc \in [Generations -> [Targets -> Health]]
  BY DEF Init, Health
<1>3. NewHealth \in HealthType
  BY DEF NewHealth, HealthType, Reasons
<1>4. health \in [Health -> HealthType]
  BY <1>3 DEF Init
<1>5. Idle \in RequestType /\ Idle.pc = "idle"
  BY <1>1 DEF Idle, RequestType, RequestStates
<1>6. req \in [Requests -> RequestType] /\ \A r \in Requests : req[r].pc = "idle"
  BY <1>5 DEF Init
<1>7. lock \in [Generations -> Requests \union {NoRequest}]
  BY DEF Init
<1>8. running \in [Health -> Seq(Generations)]
  BY DEF Init
<1>9. results \in [Health -> [ok : BOOLEAN, n : 0..MaxCount]]
  BY DEF Init
<1>10. left \in Seq(Targets)
  BY DEF Init
<1> QED
  BY <1>1, <1>2, <1>4, <1>6, <1>7, <1>8, <1>9, <1>10 DEF Init, TypeOK

(***************************************************************************)
(* Where a request that has taken its order is: at a target of its         *)
(* generation's pool.                                                      *)
(***************************************************************************)
LEMMA AtTarget ==
    ASSUME TypeOK, NEW r \in Requests, req[r].pc \notin {"idle", "routed"}
    PROVE  /\ req[r].gen \in Generations /\ Target(r) \in Targets
           /\ HealthOf(r) \in Health /\ health[HealthOf(r)] \in HealthType
           /\ ValidConfig(Config(r)) /\ Config(r) = Configs[req[r].gen]
<1>1. req[r] \in RequestType /\ req[r].i <= Len(req[r].tries)
  BY DEF TypeOK
<1>2. req[r].gen \in Generations /\ req[r].tries \in Seq(Targets) /\ req[r].i \in Nat \ {0}
  BY <1>1 DEF RequestType
<1>3. Target(r) \in Targets
  BY <1>1, <1>2 DEF Target
<1>4. HealthOf(r) \in Health
  BY <1>2, <1>3 DEF HealthOf, TypeOK
<1> QED
  BY <1>2, <1>3, <1>4, ConfigsAssumption DEF TypeOK, Config

\* Counters stay within their bound.
LEMMA BumpType == \A n \in 0..MaxCount : Bump(n) \in 0..MaxCount
  BY ConstantsAssumption DEF Bump

\* Dropping a guard leaves healths well typed, given that a held health counts someone.
HeldCounts == \A r \in Requests : req[r].held # NoHealth => health[req[r].held].in_flight > 0

\* Every health stays well typed when the guard of a request is dropped.
LEMMA ReleasedType ==
    ASSUME TypeOK, HeldCounts, NEW r \in Requests
    PROVE  Released(r) \in [Health -> HealthType]
<1>1. req[r].held \in Health \union {NoHealth}
  BY DEF TypeOK, RequestType
<1>2. CASE req[r].held = NoHealth
  BY <1>2 DEF Released, TypeOK
<1>3. CASE req[r].held # NoHealth
  <2>1. req[r].held \in Health
    BY <1>1, <1>3
  <2>2. health[req[r].held] \in HealthType /\ health[req[r].held].in_flight > 0
    BY <1>3, <2>1 DEF TypeOK, HeldCounts
  <2>3. health[req[r].held].in_flight - 1 \in Nat
    BY <2>2 DEF HealthType
  <2>4. [health[req[r].held] EXCEPT !.in_flight = @ - 1] \in HealthType
    BY <2>2, <2>3 DEF HealthType
  <2> QED
    BY <1>3, <2>1, <2>4 DEF Released, TypeOK
<1> QED
  BY <1>2, <1>3

(***************************************************************************)
(* The part of TypeOK about requests, and how a step of one request keeps  *)
(* it.                                                                     *)
(***************************************************************************)
RequestsOK ==
    /\ req \in [Requests -> RequestType]
    /\ \A r \in Requests :
          req[r].pc \notin {"idle", "routed"} => req[r].i <= Len(req[r].tries)

\* A request replaced by a well-typed one leaves the requests well typed.
LEMMA RequestUpdate ==
    ASSUME RequestsOK, NEW r \in Requests, NEW x \in RequestType,
           x.pc \notin {"idle", "routed"} => x.i <= Len(x.tries), Become(r, x)
    PROVE  RequestsOK'
  BY DEF RequestsOK, Become

\* A health replaced by a well-typed one leaves the healths well typed.
LEMMA HealthUpdate ==
    ASSUME health \in [Health -> HealthType], NEW h \in Health, NEW x \in HealthType,
           SetHealth(h, x)
    PROVE  health' \in [Health -> HealthType]
  BY DEF SetHealth

(***************************************************************************)
(* A step of a request keeps requests, healths and locks well typed.       *)
(***************************************************************************)
LEMMA RequestTypeStep ==
    ASSUME TypeOK, HeldCounts, NEW r \in Requests, Request(r)
    PROVE  RequestsOK' /\ health' \in [Health -> HealthType]
                       /\ lock' \in [Generations -> Requests \union {NoRequest}]
<1> USE ConstantsAssumption
<1> DEFINE x == req[r]
           Goal == RequestsOK' /\ health' \in [Health -> HealthType]
                       /\ lock' \in [Generations -> Requests \union {NoRequest}]
<1>0. /\ RequestsOK /\ x \in RequestType /\ health \in [Health -> HealthType]
      /\ lock \in [Generations -> Requests \union {NoRequest}]
      /\ x.gen \in Generations /\ current \in Generations /\ x.i \in Nat \ {0}
      /\ x.tries \in Seq(Targets) /\ x.reached \in Nat
  BY DEF TypeOK, RequestsOK, RequestType
<1>i. Idle \in RequestType /\ Idle.pc = "idle"
  BY DEF Idle, RequestType, RequestStates, Generations
<1>1. CASE Accept(r)
  <2>1. [Idle EXCEPT !.pc = "routed", !.gen = current] \in RequestType
    BY <1>0, <1>i DEF RequestType, RequestStates
  <2>2. [Idle EXCEPT !.pc = "routed", !.gen = current].pc = "routed"
    BY <1>i DEF Idle
  <2> QED
    BY <1>0, <1>1, <2>1, <2>2, RequestUpdate DEF Accept
<1>2. CASE Order(r)
  <2>1. PICK tries \in Orders(Config(r), Up(x.gen)), replay \in BOOLEAN :
            Become(r, [x EXCEPT !.pc = "attempt", !.tries = tries, !.i = 1, !.replay = replay])
    BY <1>2 DEF Order
  <2> DEFINE y == [x EXCEPT !.pc = "attempt", !.tries = tries, !.i = 1, !.replay = replay]
  <2>2. tries \in Seq(Targets) /\ 1 <= Len(tries)
    BY <1>0, <2>1, OrdersAreTargets, ConfigsAssumption DEF Config
  <2>3. y \in RequestType
    <3>1. "attempt" \in RequestStates /\ 1 \in Nat \ {0} /\ replay \in BOOLEAN
      BY <2>1 DEF RequestStates
    <3> QED
      BY <1>0, <2>2, <3>1 DEF RequestType
  <2>4. y.i = 1 /\ y.tries = tries
    BY <1>0 DEF RequestType
  <2> HIDE DEF y
  <2>5. RequestsOK'
    BY <1>0, <2>1, <2>2, <2>3, <2>4, RequestUpdate DEF y
  <2> QED
    BY <1>0, <1>2, <2>5 DEF Order
<1>3. CASE Finish(r)
  BY <1>0, <1>i, <1>3, ReleasedType, RequestUpdate DEF Finish
<1>4. ASSUME x.pc \notin {"idle", "routed"}, ~Finish(r) PROVE Goal
  <2> DEFINE h == HealthOf(r)
  <2>0. /\ h \in Health /\ health[h] \in HealthType /\ x.i <= Len(x.tries)
        /\ ValidConfig(Config(r)) /\ Config(r) = Configs[x.gen]
    BY <1>0, <1>4, AtTarget DEF RequestsOK
  <2>p. ASSUME NEW pc \in RequestStates, Goto(r, pc)
        PROVE  RequestsOK'
    <3>1. [x EXCEPT !.pc = pc] \in RequestType
      BY <1>0 DEF RequestType
    <3>2. [x EXCEPT !.pc = pc].i = x.i /\ [x EXCEPT !.pc = pc].tries = x.tries
      BY <1>0 DEF RequestType
    <3> QED
      BY <1>0, <2>0, <2>p, <3>1, <3>2, RequestUpdate DEF Goto
  <2>q. ASSUME NEW pc \in RequestStates,
               Become(r, [x EXCEPT !.pc = pc, !.reached = @ + 1])
        PROVE  RequestsOK'
    <3> DEFINE y == [x EXCEPT !.pc = pc, !.reached = @ + 1]
    <3>1. x.reached + 1 \in Nat
      BY <1>0
    <3>2. y \in RequestType /\ y.i = x.i /\ y.tries = x.tries
      BY <1>0, <3>1 DEF RequestType
    <3> QED
      BY <1>0, <2>0, <2>q, <3>2, RequestUpdate
  <2>1. CASE Attempt(r)
    <3>1. CASE Config(r).balance = "least_conn"
      <4> DEFINE y == [x EXCEPT !.pc = "sending", !.held = h]
                 k == [health[h] EXCEPT !.in_flight = @ + 1]
      <4>1. y \in RequestType /\ y.i = x.i /\ y.tries = x.tries
        BY <1>0, <2>0 DEF RequestType, RequestStates
      <4>2. health[h].in_flight + 1 \in Nat
        BY <2>0 DEF HealthType
      <4>3. k \in HealthType
        BY <2>0, <4>2 DEF HealthType
      <4>4. Become(r, y) /\ SetHealth(h, k) /\ lock' = lock
        BY <2>1, <3>1 DEF Attempt
      <4> HIDE DEF y, k
      <4> QED
        BY <1>0, <2>0, <4>1, <4>3, <4>4, RequestUpdate, HealthUpdate
    <3>2. CASE Config(r).balance # "least_conn"
      BY <1>0, <2>p, <2>1, <3>2 DEF Attempt, RequestStates
    <3> QED
      BY <3>1, <3>2
  <2>2. CASE AnsweredOk(r)
    <3> DEFINE k == [health[h] EXCEPT !.connect_failures = 0, !.http_5xx = 0, !.ejected = 0]
    <3>0. 0 \in 0..MaxCount /\ 0 \in 0..Horizon
      OBVIOUS
    <3>1. k \in HealthType
      BY <2>0, <3>0 DEF HealthType
    <3>2. RequestsOK' /\ lock' = lock /\ (SetHealth(h, k) \/ health' = health)
      BY <1>0, <2>q, <2>2 DEF AnsweredOk, RequestStates
    <3> HIDE DEF k
    <3> QED
      BY <1>0, <2>0, <3>1, <3>2, HealthUpdate
  <2>3. CASE Answered5xx(r)
    <3> DEFINE n == Bump(health[h].http_5xx)
    <3>1. n \in 0..MaxCount /\ health[h].http_5xx \in 0..MaxCount
      BY <2>0, BumpType DEF HealthType
    <3>2. PICK m \in {n, health[h].http_5xx} :
              \/ SetHealth(h, [health[h] EXCEPT !.connect_failures = 0, !.http_5xx = m])
              \/ health' = health
      BY <2>3 DEF Answered5xx
    <3>3. [health[h] EXCEPT !.connect_failures = 0, !.http_5xx = m] \in HealthType
      <4>1. m \in 0..MaxCount /\ 0 \in 0..MaxCount
        BY <3>1, <3>2
      <4> QED
        BY <2>0, <4>1 DEF HealthType
    <3>4. RequestsOK' /\ lock' = lock
      BY <1>0, <2>q, <2>3 DEF Answered5xx, RequestStates
    <3> QED
      BY <1>0, <2>0, <3>2, <3>3, <3>4, HealthUpdate
  <2>4. CASE Decide(r)
    BY <1>0, <2>p, <2>4 DEF Decide, RequestStates
  <2>5. CASE Eject5xx(r)
    <3> DEFINE e == Eject(h, Config(r), "http_5xx")
    <3>1. e \in HealthType
      BY <1>0, <2>0, EjectType DEF Reasons
    <3>2. [e EXCEPT !.http_5xx = 0] \in HealthType
      <4> HIDE DEF e
      <4> QED
        BY <3>1 DEF HealthType
    <3>3. RequestsOK' /\ lock' \in [Generations -> Requests \union {NoRequest}]
      BY <1>0, <2>p, <2>5 DEF Eject5xx, RequestStates
    <3> QED
      BY <1>0, <2>0, <2>5, <3>2, <3>3, HealthUpdate DEF Eject5xx
  <2>6. CASE ConnectFailed(r)
    <3> DEFINE n == Bump(health[h].connect_failures)
    <3>1. n \in 0..MaxCount
      BY <2>0, BumpType DEF HealthType
    <3>2. [health[h] EXCEPT !.connect_failures = n] \in HealthType
      <4> HIDE DEF n
      <4> QED
        BY <2>0, <3>1 DEF HealthType
    <3>3. RequestsOK' /\ lock' = lock
      BY <1>0, <2>p, <2>6 DEF ConnectFailed, RequestStates
    <3>4. SetHealth(h, [health[h] EXCEPT !.connect_failures = n]) \/ health' = health
      BY <2>6 DEF ConnectFailed
    <3> QED
      BY <1>0, <2>0, <3>2, <3>3, <3>4, HealthUpdate
  <2>7. CASE EjectConnect(r)
    <3> DEFINE e == Eject(h, Config(r), "connect_error")
    <3>1. e \in HealthType
      BY <1>0, <2>0, EjectType DEF Reasons
    <3>2. [e EXCEPT !.connect_failures = 0] \in HealthType
      <4> HIDE DEF e
      <4> QED
        BY <3>1 DEF HealthType
    <3>3. RequestsOK' /\ lock' = lock
      BY <1>0, <2>p, <2>7 DEF EjectConnect, RequestStates
    <3> QED
      BY <1>0, <2>0, <2>7, <3>2, <3>3, HealthUpdate DEF EjectConnect
  <2>8. CASE Retry(r)
    <3> DEFINE y == [x EXCEPT !.pc = "attempt", !.i = @ + 1, !.held = NoHealth]
    <3>1. x.i + 1 \in Nat \ {0} /\ x.i + 1 <= Len(x.tries)
      BY <1>0, <2>0, <2>8 DEF Retry, CanRetry
    <3>2. y \in RequestType /\ y.i = x.i + 1 /\ y.tries = x.tries
      BY <1>0, <3>1 DEF RequestType, RequestStates
    <3>3. Become(r, y) /\ health' = Released(r) /\ lock' = lock
      BY <2>8 DEF Retry
    <3> HIDE DEF y
    <3> QED
      BY <1>0, <3>1, <3>2, <3>3, ReleasedType, RequestUpdate
  <2>9. CASE GiveUp(r)
    BY <1>0, <2>p, <2>9 DEF GiveUp, RequestStates
  <2>10. CASE BrokenOff(r)
    BY <1>0, <2>q, <2>10 DEF BrokenOff, RequestStates
  <2> QED
    BY <1>1, <1>2, <1>4, <2>1, <2>2, <2>3, <2>4, <2>5, <2>6, <2>7, <2>8, <2>9, <2>10
       DEF Request
<1> QED
  BY <1>1, <1>2, <1>3, <1>4
     DEF Request, Attempt, AnsweredOk, Answered5xx, Decide, Eject5xx,
         ConnectFailed, EjectConnect, Retry, GiveUp, BrokenOff

(***************************************************************************)
(* The other steps: the scheduler, the checks, reloads and time.           *)
(***************************************************************************)
Background ==
    \/ Wake \/ Build \/ Install \/ Tick
    \/ \E t \in Targets : Claim(t) \/ Skip(t)
    \/ \E h \in Health, passed \in BOOLEAN : CheckEnds(h, passed)

\* A check's result leaves a health well typed and the request counts alone.
LEMMA CheckedType ==
    ASSUME TypeOK, NEW h \in Health, NEW passed \in BOOLEAN, NEW c
    PROVE  /\ Checked(h, passed, c) \in HealthType
           /\ Checked(h, passed, c).in_flight = health[h].in_flight
<1>1. health[h] \in HealthType
  BY DEF TypeOK
<1>2. Bump(health[h].streak) \in 0..MaxCount /\ 0 \in 0..MaxCount
  BY <1>1, BumpType, ConstantsAssumption DEF HealthType
<1> QED
  BY <1>1, <1>2 DEF Checked, HealthType

\* What a background step does to the healths: well typed, no request count changed.
LEMMA BackgroundHealth ==
    ASSUME TypeOK, Background
    PROVE  /\ health' \in [Health -> HealthType]
           /\ \A h \in Health : health'[h].in_flight = health[h].in_flight
           /\ req' = req /\ lock' = lock
<1> USE ConstantsAssumption
<1>0. health \in [Health -> HealthType]
  BY DEF TypeOK
<1>1. CASE Wake \/ Install
  BY <1>0, <1>1 DEF Wake, Install
<1>2. CASE Build
  <2>1. CASE Configs[current + 1].check
    BY <1>0, <1>2, <2>1 DEF Build
  <2>2. CASE ~Configs[current + 1].check
    <3> DEFINE reset == {h \in Health : \E t \in Carried(current, current + 1) :
                                            h = arc[current][t]}
               K(h) == [health[h] EXCEPT !.passing = TRUE, !.streak = 0]
    <3>1. health' = [h \in Health |-> IF h \in reset THEN K(h) ELSE health[h]]
      BY <1>2, <2>2 DEF Build
    <3>2. ASSUME NEW h \in Health
          PROVE  K(h) \in HealthType /\ K(h).in_flight = health[h].in_flight
      <4>1. TRUE \in BOOLEAN /\ 0 \in 0..MaxCount
        OBVIOUS
      <4> QED
        BY <1>0, <4>1 DEF HealthType
    <3>3. req' = req /\ lock' = lock
      BY <1>2 DEF Build
    <3> HIDE DEF reset, K
    <3>4. \A h \in Health : /\ health'[h] \in HealthType
                            /\ health'[h].in_flight = health[h].in_flight
      BY <1>0, <3>1, <3>2
    <3> QED
      BY <3>1, <3>3, <3>4
  <2> QED
    BY <2>1, <2>2
<1>3. CASE Tick
  <2>1. ASSUME NEW h \in Health
        PROVE  Aged(h) \in HealthType /\ Aged(h).in_flight = health[h].in_flight
    <3>1. /\ Down(health[h].ejected) \in 0..Horizon /\ Down(health[h].next_check) \in Nat
          /\ (IF health[h].last_end > -Horizon THEN health[h].last_end - 1
                                               ELSE health[h].last_end)
                \in (-Horizon)..Horizon
      BY <1>0 DEF HealthType, Down
    <3> QED
      BY <1>0, <3>1 DEF HealthType, Aged
  <2> QED
    BY <1>3, <2>1 DEF Tick
<1>4. ASSUME NEW t \in Targets, Claim(t)
      PROVE  /\ health' \in [Health -> HealthType]
             /\ \A h \in Health : health'[h].in_flight = health[h].in_flight
             /\ req' = req /\ lock' = lock
  <2> DEFINE h == arc[sched][t]
             k == [health[h] EXCEPT !.checking = TRUE, !.next_check = Configs[sched].interval]
  <2>1. h \in Health /\ Configs[sched].interval \in Nat
    BY ConfigsAssumption DEF TypeOK, ValidConfig
  <2>2. k \in HealthType /\ k.in_flight = health[h].in_flight
    BY <1>0, <2>1 DEF HealthType
  <2>3. SetHealth(h, k) /\ req' = req /\ lock' = lock
    BY <1>4 DEF Claim
  <2> HIDE DEF k, h
  <2> QED
    BY <1>0, <2>1, <2>2, <2>3, HealthUpdate DEF SetHealth
<1>s. ASSUME NEW t \in Targets, Skip(t)
      PROVE  health' = health /\ req' = req /\ lock' = lock
  BY <1>s DEF Skip
<1>5. ASSUME NEW h \in Health, NEW passed \in BOOLEAN, CheckEnds(h, passed)
      PROVE  /\ health' \in [Health -> HealthType]
             /\ \A i \in Health : health'[i].in_flight = health[i].in_flight
             /\ req' = req /\ lock' = lock
  <2> DEFINE v == Checked(h, passed, Configs[Head(running[h])])
             k == [v EXCEPT !.checking = FALSE]
  <2>1. v \in HealthType /\ v.in_flight = health[h].in_flight
    BY CheckedType
  <2>2. SetHealth(h, k) /\ req' = req /\ lock' = lock
    BY <1>5 DEF CheckEnds
  <2> HIDE DEF v
  <2>3. k \in HealthType /\ k.in_flight = health[h].in_flight
    BY <2>1 DEF HealthType
  <2> HIDE DEF k
  <2> QED
    BY <1>0, <2>2, <2>3, HealthUpdate DEF SetHealth
<1> QED
  BY <1>0, <1>1, <1>2, <1>3, <1>4, <1>s, <1>5 DEF Background

\* Every step of the pool keeps its types, given that a held health counts someone.
LEMMA TypeStep ==
    ASSUME TypeOK, HeldCounts, [Next]_vars
    PROVE  TypeOK'
<1> USE ConstantsAssumption
<1>1. CASE UNCHANGED vars
  BY <1>1 DEF TypeOK, vars
<1>2. ASSUME NEW r \in Requests, Request(r)
      PROVE  TypeOK'
  <2>1. UNCHANGED <<current, built, arc, sched, left, running, results>>
    BY <1>2 DEF Request, Accept, Order, Attempt, AnsweredOk, Answered5xx, Decide, Eject5xx,
                ConnectFailed, EjectConnect, Retry, GiveUp, BrokenOff, Finish, pool, checking
  <2> QED
    BY <1>2, <2>1, RequestTypeStep DEF TypeOK, RequestsOK
<1>3. ASSUME Background PROVE TypeOK'
  <2>0. /\ health' \in [Health -> HealthType] /\ req' = req /\ lock' = lock
    BY <1>3, BackgroundHealth
  <2>1. CASE Wake
    <3>1. left' \in Seq(Targets) /\ sched' \in Generations
      BY <2>1, ConfigsAssumption DEF Wake, TypeOK, ValidConfig
    <3> QED
      BY <2>0, <2>1, <3>1 DEF Wake, pool, TypeOK
  <2>2. CASE Install
    BY <2>0, <2>2 DEF Install, checking, TypeOK
  <2>3. CASE Tick
    BY <2>0, <2>3 DEF Tick, pool, checking, TypeOK
  <2>4. CASE Build
    <3> DEFINE new == current + 1
               kept == Carried(current, new)
    <3>1. new \in Generations /\ current \in Generations
      BY <2>4 DEF Build, TypeOK
    <3>2. [t \in Targets |-> IF t \in kept THEN arc[current][t] ELSE <<t, new>>]
              \in [Targets -> Health]
      BY <3>1 DEF TypeOK, Health
    <3>3. arc' \in [Generations -> [Targets -> Health]]
      BY <2>4, <3>1, <3>2 DEF Build, TypeOK
    <3> QED
      BY <2>0, <2>4, <3>1, <3>3 DEF Build, checking, TypeOK
  <2>v. ASSUME NEW t \in Targets, Visit(t) PROVE left' \in Seq(Targets)
    <3>1. left \in Seq(Targets) /\ left # <<>> /\ left' = Tail(left)
      BY <2>v DEF Visit, TypeOK
    <3> QED
      BY <3>1
  <2>s. ASSUME NEW t \in Targets, Skip(t) PROVE TypeOK'
    BY <2>0, <2>v, <2>s DEF Skip, pool, TypeOK
  <2>5. ASSUME NEW t \in Targets, Claim(t) PROVE TypeOK'
    <3>1. sched \in Generations /\ arc[sched][t] \in Health
      BY DEF TypeOK
    <3>2. running' \in [Health -> Seq(Generations)]
      BY <2>5, <3>1 DEF Claim, TypeOK
    <3> QED
      BY <2>0, <2>v, <2>5, <3>2 DEF Claim, pool, TypeOK
  <2>6. ASSUME NEW h \in Health, NEW passed \in BOOLEAN, CheckEnds(h, passed) PROVE TypeOK'
    <3>1. running[h] \in Seq(Generations) /\ running[h] # <<>>
      BY <2>6 DEF CheckEnds, TypeOK
    <3>2. Tail(running[h]) \in Seq(Generations)
      BY <3>1
    <3>3. running' \in [Health -> Seq(Generations)]
      BY <2>6, <3>2 DEF CheckEnds, TypeOK
    <3>4. results[h].n \in 0..MaxCount
      BY DEF TypeOK
    <3>5. (IF results[h].ok = passed THEN Bump(results[h].n) ELSE 1) \in 0..MaxCount
      BY <3>4, BumpType
    <3>6. results' \in [Health -> [ok : BOOLEAN, n : 0..MaxCount]]
      BY <2>6, <3>5 DEF CheckEnds, TypeOK
    <3> QED
      BY <2>0, <2>6, <3>3, <3>6 DEF CheckEnds, pool, TypeOK
  <2> QED
    BY <1>3, <2>1, <2>2, <2>3, <2>4, <2>s, <2>5, <2>6 DEF Background
<1> QED
  BY <1>1, <1>2, <1>3 DEF Next, Background

----------------------------------------------------------------------------
(***************************************************************************)
(* The in-flight counts.  The counter of a health is the number of its     *)
(* holders; a request holds nothing until its attempt starts.              *)
(***************************************************************************)
Holders(h) == {r \in Requests : req[r].held = h}

HoldsNothingUnsent ==
    \A r \in Requests : req[r].pc \in {"idle", "routed", "attempt"} => req[r].held = NoHealth

\* The requests that hold a health are finitely many, so they can be counted.
LEMMA HoldersFinite == \A h : IsFiniteSet(Holders(h)) /\ Cardinality(Holders(h)) \in Nat
  BY ConstantsAssumption, FS_Subset, FS_CardinalityType DEF Holders

\* With exact counts, a health that a request holds counts at least one.
LEMMA HolderCounts == InFlightIsHeld /\ TypeOK => HeldCounts
<1> SUFFICES ASSUME InFlightIsHeld, TypeOK, NEW r \in Requests, req[r].held # NoHealth
             PROVE  health[req[r].held].in_flight > 0
  BY DEF HeldCounts
<1> DEFINE h == req[r].held
<1>1. h \in Health
  BY DEF TypeOK, RequestType
<1>2. r \in Holders(h)
  BY DEF Holders
<1>3. Cardinality(Holders(h)) \in Nat /\ Cardinality(Holders(h)) # 0
  BY <1>2, HoldersFinite, FS_EmptySet
<1>4. health[h].in_flight = Cardinality(Holders(h))
  BY <1>1 DEF InFlightIsHeld, Holders
<1> QED
  BY <1>3, <1>4

\* Nobody's hold changes and no counter does.
LEMMA SameHolders ==
    ASSUME InFlightIsHeld,
           \A q \in Requests : req'[q].held = req[q].held,
           \A h \in Health : health'[h].in_flight = health[h].in_flight
    PROVE  InFlightIsHeld'
<1>1. \A h : {q \in Requests : req'[q].held = h} = {q \in Requests : req[q].held = h}
  OBVIOUS
<1> QED
  BY <1>1 DEF InFlightIsHeld

\* A request that held nothing holds h.
LEMMA GainedHolder ==
    ASSUME TypeOK, InFlightIsHeld, NEW r \in Requests, NEW h \in Health, NEW x,
           req[r].held = NoHealth, x.held = h, Become(r, x),
           SetHealth(h, [health[h] EXCEPT !.in_flight = @ + 1])
    PROVE  InFlightIsHeld'
<1>1. \A q \in Requests : req'[q].held = IF q = r THEN h ELSE req[q].held
  BY DEF Become, TypeOK
<1>2. \A i \in Health : health'[i].in_flight
                            = IF i = h THEN health[h].in_flight + 1 ELSE health[i].in_flight
  BY DEF SetHealth, TypeOK, HealthType
<1>3. NoHealth # h
  BY ConstantsAssumption
<1>4. ASSUME NEW i \in Health
      PROVE  health'[i].in_flight = Cardinality({q \in Requests : req'[q].held = i})
  <2>1. CASE i = h
    <3>1. {q \in Requests : req'[q].held = i} = Holders(h) \union {r} /\ r \notin Holders(h)
      BY <1>1, <1>3, <2>1 DEF Holders
    <3>2. Cardinality(Holders(h) \union {r}) = Cardinality(Holders(h)) + 1
      BY <3>1, HoldersFinite, FS_AddElement
    <3> QED
      BY <1>2, <2>1, <3>1, <3>2 DEF InFlightIsHeld, Holders
  <2>2. CASE i # h
    <3>1. {q \in Requests : req'[q].held = i} = {q \in Requests : req[q].held = i}
      BY <1>1, <2>2, ConstantsAssumption
    <3> QED
      BY <1>2, <2>2, <3>1 DEF InFlightIsHeld
  <2> QED
    BY <2>1, <2>2
<1> QED
  BY <1>4 DEF InFlightIsHeld

\* A request drops what it held, if anything.
LEMMA DroppedHolder ==
    ASSUME TypeOK, InFlightIsHeld, NEW r \in Requests, NEW x,
           x.held = NoHealth, Become(r, x), health' = Released(r)
    PROVE  InFlightIsHeld'
<1> DEFINE h == req[r].held
<1>1. \A q \in Requests : req'[q].held = IF q = r THEN NoHealth ELSE req[q].held
  BY DEF Become, TypeOK
<1>2. CASE h = NoHealth
  <2>1. \A q \in Requests : req'[q].held = req[q].held
    BY <1>1, <1>2
  <2> QED
    BY <1>2, <2>1, SameHolders DEF Released
<1>3. CASE h # NoHealth
  <2>0. h \in Health
    BY <1>3 DEF TypeOK, RequestType
  <2>1. \A i \in Health : health'[i].in_flight
                            = IF i = h THEN health[h].in_flight - 1 ELSE health[i].in_flight
    BY <1>3, <2>0 DEF Released, TypeOK, HealthType
  <2>2. ASSUME NEW i \in Health
        PROVE  health'[i].in_flight = Cardinality({q \in Requests : req'[q].held = i})
    <3>1. CASE i = h
      <4>1. {q \in Requests : req'[q].held = i} = Holders(h) \ {r} /\ r \in Holders(h)
        BY <1>1, <1>3, <3>1 DEF Holders
      <4>2. Cardinality(Holders(h) \ {r}) = Cardinality(Holders(h)) - 1
        BY <4>1, HoldersFinite, FS_RemoveElement
      <4> QED
        BY <2>1, <3>1, <4>1, <4>2 DEF InFlightIsHeld, Holders
    <3>2. CASE i # h
      <4>1. {q \in Requests : req'[q].held = i} = {q \in Requests : req[q].held = i}
        BY <1>1, <3>2, ConstantsAssumption
      <4> QED
        BY <2>1, <3>2, <4>1 DEF InFlightIsHeld
    <3> QED
      BY <3>1, <3>2
  <2> QED
    BY <2>2 DEF InFlightIsHeld
<1> QED
  BY <1>2, <1>3

\* A request's new state holds what the old one held, and its target's count is as it was.
LEMMA StillHolder ==
    ASSUME TypeOK, InFlightIsHeld, NEW r \in Requests, NEW x, NEW h \in Health, NEW k,
           x.held = req[r].held, Become(r, x), k.in_flight = health[h].in_flight,
           health' = health \/ SetHealth(h, k)
    PROVE  InFlightIsHeld'
<1>1. \A q \in Requests : req'[q].held = req[q].held
  BY DEF Become, TypeOK
<1>2. \A i \in Health : health'[i].in_flight = health[i].in_flight
  BY DEF SetHealth, TypeOK
<1> QED
  BY <1>1, <1>2, SameHolders

\* Every step, of a request or of the background, keeps the in-flight counts exact.
LEMMA InFlightStep ==
    ASSUME TypeOK, InFlightIsHeld, HoldsNothingUnsent, [Next]_vars
    PROVE  InFlightIsHeld' /\ HoldsNothingUnsent'
<1> USE ConstantsAssumption
<1>1. CASE UNCHANGED vars
  BY <1>1, SameHolders DEF vars, HoldsNothingUnsent
<1>2. CASE Background
  BY <1>2, BackgroundHealth, SameHolders DEF HoldsNothingUnsent
<1>3. ASSUME NEW r \in Requests, Request(r)
      PROVE  InFlightIsHeld' /\ HoldsNothingUnsent'
  <2> DEFINE x == req[r]
             h == HealthOf(r)
  <2>0. x \in RequestType /\ req \in [Requests -> RequestType] /\ Idle.held = NoHealth
    BY DEF TypeOK, Idle
  <2>n. ASSUME NEW y, Become(r, y),
               y.pc \in {"idle", "routed", "attempt"} => y.held = NoHealth
        PROVE  HoldsNothingUnsent'
    BY <2>0, <2>n DEF Become, HoldsNothingUnsent
  <2>1. CASE Accept(r)
    <3> DEFINE y == [Idle EXCEPT !.pc = "routed", !.gen = current]
    <3>1. y.held = NoHealth /\ Become(r, y) /\ health' = health /\ x.held = NoHealth
      BY <2>1 DEF Accept, Idle, HoldsNothingUnsent
    <3>2. Released(r) = health
      BY <3>1 DEF Released
    <3> HIDE DEF y
    <3> QED
      BY <2>n, <3>1, <3>2, DroppedHolder
  <2>2. CASE Order(r)
    <3>1. PICK tries, replay :
              Become(r, [x EXCEPT !.pc = "attempt", !.tries = tries, !.i = 1,
                                  !.replay = replay])
      BY <2>2 DEF Order
    <3> DEFINE y == [x EXCEPT !.pc = "attempt", !.tries = tries, !.i = 1, !.replay = replay]
    <3>2. x.held = NoHealth /\ health' = health /\ y.held = x.held
      BY <2>0, <2>2 DEF Order, HoldsNothingUnsent, RequestType
    <3>3. Released(r) = health
      BY <3>2 DEF Released
    <3> HIDE DEF y
    <3> QED
      BY <2>n, <3>1, <3>2, <3>3, DroppedHolder DEF y
  <2>3. CASE Finish(r)
    BY <2>0, <2>3, <2>n, DroppedHolder DEF Finish
  <2>4. CASE Retry(r)
    <3> DEFINE y == [x EXCEPT !.pc = "attempt", !.i = @ + 1, !.held = NoHealth]
    <3>1. y.held = NoHealth /\ Become(r, y) /\ health' = Released(r)
      BY <2>0, <2>4 DEF Retry, RequestType
    <3> HIDE DEF y
    <3> QED
      BY <2>n, <3>1, DroppedHolder
  <2>5. ASSUME x.pc \notin {"idle", "routed"},
               Attempt(r) \/ AnsweredOk(r) \/ Answered5xx(r) \/ Decide(r) \/ Eject5xx(r)
                 \/ ConnectFailed(r) \/ EjectConnect(r) \/ GiveUp(r) \/ BrokenOff(r)
        PROVE  InFlightIsHeld' /\ HoldsNothingUnsent'
    <3>0. h \in Health /\ health[h] \in HealthType
      BY <2>5, AtTarget
    <3>p. ASSUME NEW pc, NEW k, Goto(r, pc), pc \notin {"idle", "routed", "attempt"},
                 k.in_flight = health[h].in_flight, health' = health \/ SetHealth(h, k)
          PROVE  InFlightIsHeld' /\ HoldsNothingUnsent'
      <4> DEFINE y == [x EXCEPT !.pc = pc]
      <4>1. y.held = x.held /\ y.pc = pc /\ Become(r, y)
        BY <2>0, <3>p DEF Goto, RequestType
      <4> HIDE DEF y
      <4> QED
        BY <2>n, <3>0, <3>p, <4>1, StillHolder
    <3>q. ASSUME NEW pc, NEW k, Become(r, [x EXCEPT !.pc = pc, !.reached = @ + 1]),
                 pc \notin {"idle", "routed", "attempt"},
                 k.in_flight = health[h].in_flight, health' = health \/ SetHealth(h, k)
          PROVE  InFlightIsHeld' /\ HoldsNothingUnsent'
      <4> DEFINE y == [x EXCEPT !.pc = pc, !.reached = @ + 1]
      <4>1. y.held = x.held /\ y.pc = pc /\ Become(r, y)
        BY <2>0, <3>q DEF RequestType
      <4> HIDE DEF y
      <4> QED
        BY <2>n, <3>0, <3>q, <4>1, StillHolder
    <3>1. CASE Attempt(r)
      <4>1. CASE Config(r).balance = "least_conn"
        <5> DEFINE y == [x EXCEPT !.pc = "sending", !.held = h]
        <5>1. x.held = NoHealth /\ y.held = h /\ y.pc = "sending" /\ Become(r, y)
          BY <2>0, <3>1, <4>1 DEF Attempt, HoldsNothingUnsent, RequestType
        <5>2. SetHealth(h, [health[h] EXCEPT !.in_flight = @ + 1])
          BY <3>1, <4>1 DEF Attempt
        <5> HIDE DEF y
        <5> QED
          BY <2>n, <3>0, <5>1, <5>2, GainedHolder
      <4>2. CASE Config(r).balance # "least_conn"
        BY <3>p, <3>1, <4>2 DEF Attempt
      <4> QED
        BY <4>1, <4>2
    <3>2. CASE AnsweredOk(r)
      <4> DEFINE k == [health[h] EXCEPT !.connect_failures = 0, !.http_5xx = 0, !.ejected = 0]
      <4>1. k.in_flight = health[h].in_flight
        BY <3>0 DEF HealthType
      <4>2. health' = health \/ SetHealth(h, k)
        BY <3>2 DEF AnsweredOk
      <4>3. PICK pc \in {"deciding", "responding"} :
                Become(r, [x EXCEPT !.pc = pc, !.reached = @ + 1])
        BY <3>2 DEF AnsweredOk
      <4> HIDE DEF k
      <4> QED
        BY <3>q, <4>1, <4>2, <4>3
    <3>3. CASE Answered5xx(r)
      <4>1. PICK m, pc :
                /\ pc \in {"deciding", "responding"}
                /\ Become(r, [x EXCEPT !.pc = pc, !.reached = @ + 1])
                /\ \/ health' = health
                   \/ SetHealth(h, [health[h] EXCEPT !.connect_failures = 0, !.http_5xx = m])
        BY <2>0, <3>0, <3>3 DEF Answered5xx, RequestType
      <4> DEFINE k == [health[h] EXCEPT !.connect_failures = 0, !.http_5xx = m]
      <4>2. k.in_flight = health[h].in_flight
        BY <3>0 DEF HealthType
      <4> QED
        BY <3>q, <4>1, <4>2
    <3>4. CASE Decide(r) \/ GiveUp(r)
      BY <3>p, <3>4 DEF Decide, GiveUp
    <3>5. CASE BrokenOff(r)
      <4>1. PICK pc \in {"deciding", "responding"} :
                /\ health' = health
                /\ Become(r, [x EXCEPT !.pc = pc, !.reached = @ + 1])
        BY <3>5 DEF BrokenOff
      <4> DEFINE k == health[h]
      <4>2. k.in_flight = health[h].in_flight
        OBVIOUS
      <4> QED
        BY <3>q, <4>1, <4>2
    <3>6. CASE Eject5xx(r)
      <4> DEFINE k == [Eject(h, Config(r), "http_5xx") EXCEPT !.http_5xx = 0]
      <4>1. k.in_flight = health[h].in_flight
        BY <3>0 DEF Eject, HealthType
      <4> QED
        BY <3>6, <3>p, <4>1 DEF Eject5xx
    <3>7. CASE EjectConnect(r)
      <4> DEFINE k == [Eject(h, Config(r), "connect_error") EXCEPT !.connect_failures = 0]
      <4>1. k.in_flight = health[h].in_flight
        BY <3>0 DEF Eject, HealthType
      <4> QED
        BY <3>7, <3>p, <4>1 DEF EjectConnect
    <3>8. CASE ConnectFailed(r)
      <4> DEFINE n == Bump(health[h].connect_failures)
                 k == [health[h] EXCEPT !.connect_failures = n]
      <4>1. k.in_flight = health[h].in_flight
        BY <3>0 DEF HealthType
      <4> QED
        BY <3>8, <3>p, <4>1 DEF ConnectFailed
    <3> QED
      BY <2>5, <3>1, <3>2, <3>3, <3>4, <3>5, <3>6, <3>7, <3>8
  <2> QED
    BY <1>3, <2>1, <2>2, <2>3, <2>4, <2>5
       DEF Request, Attempt, AnsweredOk, Answered5xx, Decide, Eject5xx,
           ConnectFailed, EjectConnect, GiveUp, BrokenOff
<1> QED
  BY <1>1, <1>2, <1>3 DEF Next, Background

(***************************************************************************)
(* The inductive invariant behind both theorems.  The type invariant is    *)
(* not inductive alone: that an in-flight count stays a natural number (an *)
(* unsigned counter that never wraps) needs that it is exactly the number  *)
(* of its holders, and that needs that a request holds nothing when an     *)
(* attempt starts.                                                         *)
(***************************************************************************)
Counted == TypeOK /\ InFlightIsHeld /\ HoldsNothingUnsent

\* Types and counts are proved together: dropping a guard is well typed because counts are exact.
LEMMA CountedInductive == Spec => []Counted
<1>1. Init => Counted
  <2> SUFFICES ASSUME Init PROVE Counted
    OBVIOUS
  <2>1. \A r \in Requests : req[r].held = NoHealth
    BY DEF Init, Idle
  <2>2. \A h \in Health : {r \in Requests : req[r].held = h} = {}
    BY <2>1, ConstantsAssumption
  <2>3. \A h \in Health : health[h].in_flight = 0
    BY DEF Init, NewHealth
  <2> QED
    BY <2>1, <2>2, <2>3, TypeInit, FS_EmptySet
       DEF Counted, InFlightIsHeld, HoldsNothingUnsent
<1>2. Counted /\ [Next]_vars => Counted'
  BY TypeStep, InFlightStep, HolderCounts DEF Counted
<1> QED
  BY <1>1, <1>2, PTL DEF Spec

(***************************************************************************)
(* The type invariant of UpstreamPool, for any configuration: in           *)
(* particular no ejection lasts longer than the longest eject_for_max and  *)
(* no in-flight counter wraps.                                             *)
(***************************************************************************)
THEOREM TypeCorrect == Spec => []TypeOK
<1>1. Counted => TypeOK
  BY DEF Counted
<1> QED
  BY <1>1, CountedInductive, PTL

(***************************************************************************)
(* In-flight counts are exact: the counter `least_conn` balances by is the *)
(* number of requests that hold the target, through failover, cancelled    *)
(* requests and reloads that share a health between two pools.             *)
(***************************************************************************)
THEOREM InFlightExact == Spec => []InFlightIsHeld
<1>1. Counted => InFlightIsHeld
  BY DEF Counted
<1> QED
  BY <1>1, CountedInductive, PTL

----------------------------------------------------------------------------
(***************************************************************************)
(* A request reaches at most one target.  Nothing is retried once an       *)
(* attempt got past connecting: such a request only answers.               *)
(***************************************************************************)
ReachedIsFinal ==
    \A r \in Requests :
        \/ req[r].reached = 0
        \/ req[r].reached = 1 /\ req[r].pc \in {"deciding", "ejecting", "responding"}

\* Every step keeps it: only the outcomes of an attempt reach a target, and they end the failover.
LEMMA ReachedStep ==
    ASSUME TypeOK, ReachedIsFinal, [Next]_vars
    PROVE  ReachedIsFinal'
<1>1. CASE UNCHANGED vars
  BY <1>1 DEF vars, ReachedIsFinal
<1>2. CASE Background
  BY <1>2, BackgroundHealth DEF ReachedIsFinal
<1>3. ASSUME NEW r \in Requests, Request(r) PROVE ReachedIsFinal'
  <2> DEFINE x == req[r]
             Final == {"deciding", "ejecting", "responding"}
  <2>0. x \in RequestType /\ req \in [Requests -> RequestType]
    BY DEF TypeOK
  <2>n. ASSUME NEW y, Become(r, y), y.reached = 0 \/ (y.reached = 1 /\ y.pc \in Final)
        PROVE  ReachedIsFinal'
    BY <2>0, <2>n DEF Become, ReachedIsFinal
  <2>p. ASSUME NEW pc, Goto(r, pc), x.reached = 0 \/ (x.reached = 1 /\ pc \in Final)
        PROVE  ReachedIsFinal'
    <3> DEFINE y == [x EXCEPT !.pc = pc]
    <3>1. y.pc = pc /\ y.reached = x.reached /\ Become(r, y)
      BY <2>0, <2>p DEF Goto, RequestType
    <3> HIDE DEF y
    <3> QED
      BY <2>n, <2>p, <3>1
  <2>q. ASSUME NEW pc \in Final, Become(r, [x EXCEPT !.pc = pc, !.reached = @ + 1]),
               x.pc = "sending"
        PROVE  ReachedIsFinal'
    <3> DEFINE y == [x EXCEPT !.pc = pc, !.reached = @ + 1]
    <3>1. x.reached = 0
      BY <2>q DEF ReachedIsFinal
    <3>2. y.pc = pc /\ y.reached = 1
      BY <2>0, <3>1 DEF RequestType
    <3> QED
      BY <2>n, <2>q, <3>2
  <2>1. CASE Accept(r)
    <3> DEFINE y == [Idle EXCEPT !.pc = "routed", !.gen = current]
    <3>1. y.reached = 0 /\ Become(r, y)
      BY <2>1 DEF Accept, Idle
    <3> QED
      BY <2>n, <3>1
  <2>2. CASE Order(r)
    <3>1. PICK tries, replay :
              Become(r, [x EXCEPT !.pc = "attempt", !.tries = tries, !.i = 1,
                                  !.replay = replay])
      BY <2>2 DEF Order
    <3> DEFINE y == [x EXCEPT !.pc = "attempt", !.tries = tries, !.i = 1, !.replay = replay]
    <3>2. y.reached = 0
      BY <2>0, <2>2 DEF Order, ReachedIsFinal, RequestType
    <3> QED
      BY <2>n, <3>1, <3>2
  <2>3. CASE Attempt(r)
    <3>1. x.reached = 0
      BY <2>3 DEF Attempt, ReachedIsFinal
    <3>2. CASE Config(r).balance = "least_conn"
      <4> DEFINE y == [x EXCEPT !.pc = "sending", !.held = HealthOf(r)]
      <4>1. y.reached = 0 /\ Become(r, y)
        BY <2>0, <2>3, <3>1, <3>2 DEF Attempt, RequestType
      <4> QED
        BY <2>n, <4>1
    <3>3. CASE Config(r).balance # "least_conn"
      BY <2>3, <2>p, <3>1, <3>3 DEF Attempt
    <3> QED
      BY <3>2, <3>3
  <2>4. CASE AnsweredOk(r) \/ BrokenOff(r)
    <3>1. PICK pc \in Final : Become(r, [x EXCEPT !.pc = pc, !.reached = @ + 1])
      BY <2>4 DEF AnsweredOk, BrokenOff
    <3> QED
      BY <2>4, <2>q, <3>1 DEF AnsweredOk, BrokenOff
  <2>5. CASE Answered5xx(r)
    <3>1. PICK pc \in Final : Become(r, [x EXCEPT !.pc = pc, !.reached = @ + 1])
      BY <2>5 DEF Answered5xx
    <3> QED
      BY <2>5, <2>q, <3>1 DEF Answered5xx
  <2>6. CASE Decide(r) \/ Eject5xx(r)
    BY <2>6, <2>p DEF Decide, Eject5xx, ReachedIsFinal
  <2>7. CASE ConnectFailed(r) \/ EjectConnect(r) \/ GiveUp(r)
    <3>1. x.reached = 0
      BY <2>7 DEF ConnectFailed, EjectConnect, GiveUp, ReachedIsFinal
    <3> QED
      BY <2>7, <2>p, <3>1 DEF ConnectFailed, EjectConnect, GiveUp
  <2>8. CASE Retry(r)
    <3> DEFINE y == [x EXCEPT !.pc = "attempt", !.i = @ + 1, !.held = NoHealth]
    <3>1. y.reached = 0 /\ Become(r, y)
      BY <2>0, <2>8 DEF Retry, ReachedIsFinal, RequestType
    <3> QED
      BY <2>n, <3>1
  <2>9. CASE Finish(r)
    BY <2>9, <2>n DEF Finish, Idle
  <2> QED
    BY <1>3, <2>1, <2>2, <2>3, <2>4, <2>5, <2>6, <2>7, <2>8, <2>9 DEF Request
<1> QED
  BY <1>1, <1>2, <1>3 DEF Next, Background

(***************************************************************************)
(* At-most-once delivery: whatever fails and however often a request moves *)
(* on, no more than one of its attempts gets past connecting.              *)
(***************************************************************************)
THEOREM AtMostOneTargetReached == Spec => []ReachesOneTarget
<1>1. Init => ReachedIsFinal
  BY DEF Init, Idle, ReachedIsFinal
<1>2. Counted /\ ReachedIsFinal /\ [Next]_vars => ReachedIsFinal'
  BY ReachedStep DEF Counted
<1>3. ReachedIsFinal => ReachesOneTarget
  BY DEF ReachedIsFinal, ReachesOneTarget
<1> QED
  BY <1>1, <1>2, <1>3, CountedInductive, PTL DEF Spec

----------------------------------------------------------------------------
(***************************************************************************)
(* 5xx ejections never empty a pool.  The invariant leaves the checks'     *)
(* verdicts out: some target is not out for 5xx answers, and while a       *)
(* request holds `eject_lock` to eject one target, some other is not.  A   *)
(* connection failure may take that other target out in the meantime, but  *)
(* then it is out for that reason.                                         *)
(***************************************************************************)
Spared(g, h) == \E t \in Listed(g) : arc[g][t] # h /\ ~OutFor5xx(arc[g][t])

NotAllOutFor5xx == \E t \in Listed(1) : ~OutFor5xx(arc[1][t])

LockGuards ==
    \A r \in Requests :
        req[r].pc = "ejecting" => lock[req[r].gen] = r /\ Spared(req[r].gen, HealthOf(r))

SpareTarget == current = 1 /\ NotAllOutFor5xx /\ LockGuards

\* Only the step that ejects a target for 5xx answers puts it out for them.
LEMMA OnlyEject5xx ==
    ASSUME TypeOK, [Next]_vars, NEW h \in Health, ~OutFor5xx(h), OutFor5xx(h)'
    PROVE  \E r \in Requests : Eject5xx(r) /\ h = HealthOf(r)
<1> USE ConstantsAssumption
<1>0. /\ health[h] \in HealthType /\ health \in [Health -> HealthType]
      /\ health[h].ejected \in 0..Horizon
  BY DEF TypeOK, HealthType
<1>u. ASSUME health'[h].ejected = health[h].ejected, health'[h].reason = health[h].reason
      PROVE  FALSE
  BY <1>u DEF OutFor5xx
<1>1. CASE UNCHANGED vars
  BY <1>1, <1>u DEF vars
<1>2. CASE Wake \/ Install
  BY <1>2, <1>u DEF Wake, Install
<1>3. CASE Build
  BY <1>0, <1>3, <1>u DEF Build, HealthType
<1>4. CASE Tick
  <2>1. health'[h] = Aged(h)
    BY <1>4 DEF Tick
  <2>2. health'[h].reason = health[h].reason /\ health'[h].ejected = Down(health[h].ejected)
    BY <1>0, <2>1 DEF Aged, HealthType
  <2> QED
    BY <1>0, <2>2 DEF OutFor5xx, Down
<1>s. ASSUME NEW t \in Targets, Skip(t) PROVE FALSE
  BY <1>s, <1>u DEF Skip
<1>5. ASSUME NEW t \in Targets, Claim(t) PROVE FALSE
  <2>1. health'[h] = health[h]
          \/ health'[h] = [health[h] EXCEPT !.checking = TRUE,
                                            !.next_check = Configs[sched].interval]
    BY <1>0, <1>5 DEF Claim, SetHealth
  <2> QED
    BY <1>0, <1>u, <2>1 DEF HealthType
<1>6. ASSUME NEW i \in Health, NEW passed \in BOOLEAN, CheckEnds(i, passed) PROVE FALSE
  <2> DEFINE v == Checked(i, passed, Configs[Head(running[i])])
  <2>1. v.ejected = health[i].ejected /\ v.reason = health[i].reason /\ v \in HealthType
    <3>1. health[i] \in HealthType
      BY <1>0
    <3> QED
      BY <3>1, CheckedType DEF Checked, HealthType
  <2>2. health' = [health EXCEPT ![i] = [v EXCEPT !.checking = FALSE]]
    BY <1>6 DEF CheckEnds, SetHealth
  <2> HIDE DEF v
  <2>3. [v EXCEPT !.checking = FALSE].ejected = health[i].ejected
        /\ [v EXCEPT !.checking = FALSE].reason = health[i].reason
    BY <2>1 DEF HealthType
  <2> QED
    BY <1>0, <1>u, <2>2, <2>3
<1>7. ASSUME NEW r \in Requests, Request(r), ~Eject5xx(r) \/ h # HealthOf(r) PROVE FALSE
  <2> DEFINE x == req[r]
             j == HealthOf(r)
  <2>1. CASE Accept(r) \/ Order(r) \/ Decide(r) \/ GiveUp(r) \/ BrokenOff(r)
    BY <1>u, <2>1 DEF Accept, Order, Decide, GiveUp, BrokenOff
  <2>2. CASE Finish(r) \/ Retry(r)
    <3>1. health' = Released(r) /\ x.held \in Health \union {NoHealth}
      BY <2>2 DEF Finish, Retry, TypeOK, RequestType
    <3>2. \/ health'[h] = health[h]
          \/ health'[h] = [health[h] EXCEPT !.in_flight = @ - 1]
      BY <1>0, <3>1 DEF Released
    <3> QED
      BY <1>0, <1>u, <3>2 DEF HealthType
  <2>3. ASSUME x.pc \notin {"idle", "routed"}, NEW k, health' = health \/ SetHealth(j, k),
               h = j => k.ejected \in {0, health[j].ejected} /\ k.reason = health[j].reason
        PROVE  FALSE
    <3>1. j \in Health
      BY <2>3, AtTarget
    <3>2. CASE h # j \/ health' = health
      BY <1>0, <1>u, <2>3, <3>1, <3>2 DEF SetHealth
    <3>3. CASE h = j /\ SetHealth(j, k)
      BY <1>0, <1>u, <2>3, <3>1, <3>3 DEF SetHealth, OutFor5xx
    <3> QED
      BY <2>3, <3>2, <3>3
  <2>4. ASSUME x.pc \notin {"idle", "routed"} PROVE j \in Health /\ health[j] \in HealthType
    BY <2>4, AtTarget
  <2>5. CASE Attempt(r)
    <3> DEFINE k == [health[j] EXCEPT !.in_flight = @ + 1]
    <3>1. k.ejected = health[j].ejected /\ k.reason = health[j].reason
      BY <2>4, <2>5 DEF Attempt, HealthType
    <3>2. health' = health \/ SetHealth(j, k)
      BY <2>5 DEF Attempt
    <3> HIDE DEF k
    <3> QED
      BY <2>3, <2>5, <3>1, <3>2 DEF Attempt
  <2>6. CASE AnsweredOk(r)
    <3> DEFINE k == [health[j] EXCEPT !.connect_failures = 0, !.http_5xx = 0, !.ejected = 0]
    <3>1. k.ejected = 0 /\ k.reason = health[j].reason
      BY <2>4, <2>6 DEF AnsweredOk, HealthType
    <3>2. health' = health \/ SetHealth(j, k)
      BY <2>6 DEF AnsweredOk
    <3> HIDE DEF k
    <3> QED
      BY <2>3, <2>6, <3>1, <3>2 DEF AnsweredOk
  <2>7. CASE Answered5xx(r)
    <3>1. PICK m : \/ health' = health
                   \/ SetHealth(j, [health[j] EXCEPT !.connect_failures = 0, !.http_5xx = m])
      BY <2>7 DEF Answered5xx
    <3> DEFINE k == [health[j] EXCEPT !.connect_failures = 0, !.http_5xx = m]
    <3>2. k.ejected = health[j].ejected /\ k.reason = health[j].reason
      BY <2>4, <2>7 DEF Answered5xx, HealthType
    <3> HIDE DEF k
    <3> QED
      BY <2>3, <2>7, <3>1, <3>2 DEF Answered5xx, k
  <2>8. CASE ConnectFailed(r)
    <3> DEFINE k == [health[j] EXCEPT !.connect_failures = Bump(health[j].connect_failures)]
    <3>1. k.ejected = health[j].ejected /\ k.reason = health[j].reason
      BY <2>4, <2>8 DEF ConnectFailed, HealthType
    <3>2. health' = health \/ SetHealth(j, k)
      BY <2>8 DEF ConnectFailed
    <3> HIDE DEF k
    <3> QED
      BY <2>3, <2>8, <3>1, <3>2 DEF ConnectFailed
  <2>9. CASE EjectConnect(r)
    <3> DEFINE k == [Eject(j, Config(r), "connect_error") EXCEPT !.connect_failures = 0]
    <3>1. j \in Health /\ k.reason = "connect_error"
      BY <2>4, <2>9 DEF EjectConnect, Eject, HealthType
    <3>2. health' = [health EXCEPT ![j] = k]
      BY <2>9 DEF EjectConnect, SetHealth
    <3> HIDE DEF k
    <3> QED
      BY <1>0, <1>u, <3>1, <3>2 DEF OutFor5xx
  <2>10. CASE Eject5xx(r)
    <3>1. h # j /\ j \in Health
      BY <1>7, <2>4, <2>10 DEF Eject5xx
    <3> QED
      BY <1>0, <1>u, <2>10, <3>1 DEF Eject5xx, SetHealth
  <2> QED
    BY <1>7, <2>1, <2>2, <2>5, <2>6, <2>7, <2>8, <2>9, <2>10 DEF Request
<1> QED
  BY <1>1, <1>2, <1>3, <1>4, <1>s, <1>5, <1>6, <1>7 DEF Next, Request

\* A request is about to eject for 5xx answers because it was, or because it just decided to;
\* the lock changes hands only by a decision and by the ejection that follows it.
LEMMA EnteringEjection ==
    ASSUME TypeOK, [Next]_vars, NEW q \in Requests, req'[q].pc = "ejecting"
    PROVE  \/ req'[q] = req[q] /\ lock' = lock
           \/ req'[q] = req[q] /\ \E r \in Requests : r # q /\ (Decide(r) \/ Eject5xx(r))
           \/ Decide(q)
<1>1. CASE UNCHANGED vars
  BY <1>1 DEF vars
<1>2. CASE Background
  BY <1>2, BackgroundHealth
<1>3. ASSUME NEW r \in Requests, Request(r), r # q
      PROVE  req'[q] = req[q] /\ (lock' = lock \/ Decide(r) \/ Eject5xx(r))
  <2>1. \E x : Become(r, x)
    BY <1>3 DEF Request, Accept, Order, Attempt, AnsweredOk, Answered5xx, Decide, Eject5xx,
                ConnectFailed, EjectConnect, Retry, GiveUp, BrokenOff, Finish, Goto
  <2>2. req'[q] = req[q]
    BY <1>3, <2>1 DEF Become, TypeOK
  <2>3. lock' = lock \/ Decide(r) \/ Eject5xx(r)
    BY <1>3 DEF Request, Accept, Order, Attempt, AnsweredOk, Answered5xx,
                ConnectFailed, EjectConnect, Retry, GiveUp, BrokenOff, Finish
  <2> QED
    BY <2>2, <2>3
<1>4. ASSUME Request(q), ~Decide(q) PROVE FALSE
  <2> DEFINE x == req[q]
  <2>0. x \in RequestType /\ req \in [Requests -> RequestType]
    BY DEF TypeOK
  <2>n. ASSUME NEW y, Become(q, y), y.pc # "ejecting" PROVE FALSE
    BY <2>0, <2>n DEF Become
  <2>p. ASSUME NEW pc, Goto(q, pc), pc # "ejecting" PROVE FALSE
    <3>1. [x EXCEPT !.pc = pc].pc = pc
      BY <2>0 DEF RequestType
    <3> QED
      BY <2>n, <2>p, <3>1 DEF Goto
  <2>1. CASE Accept(q)
    <3>1. [Idle EXCEPT !.pc = "routed", !.gen = current].pc = "routed"
      BY DEF Idle
    <3> QED
      BY <2>1, <2>n, <3>1 DEF Accept
  <2>2. CASE Order(q)
    <3>1. PICK tries, replay :
              Become(q, [x EXCEPT !.pc = "attempt", !.tries = tries, !.i = 1,
                                  !.replay = replay])
      BY <2>2 DEF Order
    <3>2. [x EXCEPT !.pc = "attempt", !.tries = tries, !.i = 1, !.replay = replay].pc
            = "attempt"
      BY <2>0 DEF RequestType
    <3> QED
      BY <2>n, <3>1, <3>2
  <2>3. CASE Attempt(q)
    <3>1. [x EXCEPT !.pc = "sending", !.held = HealthOf(q)].pc = "sending"
      BY <2>0 DEF RequestType
    <3> QED
      BY <2>3, <2>n, <2>p, <3>1 DEF Attempt
  <2>4. CASE AnsweredOk(q) \/ BrokenOff(q) \/ Answered5xx(q)
    <3>1. PICK pc \in {"deciding", "responding"} :
              Become(q, [x EXCEPT !.pc = pc, !.reached = @ + 1])
      BY <2>4 DEF AnsweredOk, BrokenOff, Answered5xx
    <3>2. [x EXCEPT !.pc = pc, !.reached = @ + 1].pc = pc
      BY <2>0 DEF RequestType
    <3> QED
      BY <2>n, <3>1, <3>2
  <2>5. CASE Eject5xx(q) \/ ConnectFailed(q) \/ EjectConnect(q) \/ GiveUp(q)
    BY <2>5, <2>p DEF Eject5xx, ConnectFailed, EjectConnect, GiveUp
  <2>6. CASE Retry(q)
    <3>1. [x EXCEPT !.pc = "attempt", !.i = @ + 1, !.held = NoHealth].pc = "attempt"
      BY <2>0 DEF RequestType
    <3> QED
      BY <2>6, <2>n, <3>1 DEF Retry
  <2>7. CASE Finish(q)
    BY <2>7, <2>n DEF Finish, Idle
  <2> QED
    BY <1>4, <2>1, <2>2, <2>3, <2>4, <2>5, <2>6, <2>7 DEF Request
<1> QED
  BY <1>1, <1>2, <1>3, <1>4 DEF Next, Background

(***************************************************************************)
(* With one generation nothing moves a target to another health.           *)
(***************************************************************************)
LEMMA OneGeneration ==
    ASSUME TypeOK, LastGeneration = 1, [Next]_vars
    PROVE  /\ Generations = {1} /\ arc' = arc
           /\ current = 1 => current' = 1
<1>1. Generations = {1}
  BY DEF Generations
<1>2. ~Build
  BY <1>1 DEF Build, TypeOK
<1>3. Install => current' = 1 /\ arc' = arc
  BY <1>1 DEF Install, TypeOK
<1>4. (Wake \/ Tick) => UNCHANGED pool
  BY DEF Wake, Tick
<1>5. \A t \in Targets : Claim(t) \/ Skip(t) => UNCHANGED pool
  BY DEF Claim, Skip
<1>6. \A h \in Health, passed \in BOOLEAN : CheckEnds(h, passed) => UNCHANGED pool
  BY DEF CheckEnds
<1>7. \A r \in Requests : Request(r) => UNCHANGED pool
  BY DEF Request, Accept, Order, Attempt, AnsweredOk, Answered5xx, Decide, Eject5xx,
         ConnectFailed, EjectConnect, Retry, GiveUp, BrokenOff, Finish
<1> QED
  BY <1>1, <1>2, <1>3, <1>4, <1>5, <1>6, <1>7 DEF Next, vars, pool

\* Every step of a single generation leaves a target to spare, the decision under `eject_lock` included.
LEMMA SpareStep ==
    ASSUME TypeOK, LastGeneration = 1, SpareTarget, [Next]_vars
    PROVE  SpareTarget'
<1>0. /\ Generations = {1} /\ arc' = arc /\ current' = 1
      /\ \A r \in Requests : req[r].gen = 1
      /\ \A t \in Listed(1) : arc[1][t] \in Health
  <2>1. Generations = {1} /\ arc' = arc /\ current' = 1
    BY OneGeneration DEF SpareTarget
  <2>2. \A r \in Requests : req[r].gen = 1
    BY <2>1 DEF TypeOK, RequestType
  <2>3. Listed(1) \subseteq Targets
    BY <2>1, ElementsOfSeq, ConfigsAssumption DEF Listed, ValidConfig
  <2> QED
    BY <2>1, <2>2, <2>3 DEF TypeOK
\* The lock is held by one request: two ejections are never about to happen.
<1>1. ASSUME NEW r \in Requests, NEW q \in Requests,
             req[r].pc = "ejecting", req[q].pc = "ejecting"
      PROVE  r = q
  BY <1>0, <1>1 DEF SpareTarget, LockGuards
<1>2. NotAllOutFor5xx'
  <2>1. PICK t \in Listed(1) : ~OutFor5xx(arc[1][t])
    BY DEF SpareTarget, NotAllOutFor5xx
  <2>2. CASE ~OutFor5xx(arc[1][t])'
    BY <1>0, <2>2 DEF NotAllOutFor5xx
  <2>3. CASE OutFor5xx(arc[1][t])'
    <3>1. PICK r \in Requests : Eject5xx(r)
      BY <1>0, <2>1, <2>3, OnlyEject5xx
    <3>2. PICK u \in Listed(1) : arc[1][u] # HealthOf(r) /\ ~OutFor5xx(arc[1][u])
      BY <1>0, <3>1 DEF SpareTarget, LockGuards, Spared, Eject5xx
    <3>3. ASSUME OutFor5xx(arc[1][u])' PROVE FALSE
      <4>1. PICK q \in Requests : Eject5xx(q) /\ arc[1][u] = HealthOf(q)
        BY <1>0, <3>2, <3>3, OnlyEject5xx
      <4> QED
        BY <1>1, <3>1, <3>2, <4>1 DEF Eject5xx
    <3> QED
      BY <1>0, <3>3 DEF NotAllOutFor5xx
  <2> QED
    BY <2>2, <2>3
<1>3. ASSUME NEW q \in Requests, req'[q].pc = "ejecting"
      PROVE  lock'[1] = q /\ Spared(1, HealthOf(q))' /\ req'[q].gen = 1
  <2>1. CASE Decide(q)
    <3> DEFINE x == req[q]
    <3>1. x \in RequestType /\ req \in [Requests -> RequestType] /\ x.gen = 1
      BY <1>0 DEF TypeOK
    <3>2. ~(InRotation(HealthOf(q)) /\ Others(1, HealthOf(q))) => req'[q].pc = "responding"
      BY <2>1, <3>1 DEF Decide, Goto, Become, RequestType
    <3>3. Others(1, HealthOf(q)) /\ lock' = [lock EXCEPT ![1] = q] /\ Goto(q, "ejecting")
      BY <1>3, <2>1, <3>1, <3>2 DEF Decide
    <3>4. req'[q] = [x EXCEPT !.pc = "ejecting"]
      BY <3>1, <3>3 DEF Goto, Become
    <3>5. req'[q].gen = 1 /\ req'[q].tries = x.tries /\ req'[q].i = x.i
      BY <3>1, <3>4 DEF RequestType
    <3>6. HealthOf(q)' = HealthOf(q)
      BY <1>0, <3>1, <3>5 DEF HealthOf, Target
    <3>7. health' = health
      BY <2>1 DEF Decide
    <3>8. PICK t \in Listed(1) : arc[1][t] # HealthOf(q) /\ InRotation(arc[1][t])
      BY <3>3 DEF Others
    <3>9. ~OutFor5xx(arc[1][t])'
      BY <1>0, <3>7, <3>8 DEF InRotation, OutFor5xx
    <3>10. lock'[1] = q
      BY <1>0, <3>3 DEF TypeOK
    <3> QED
      BY <1>0, <3>5, <3>6, <3>8, <3>9, <3>10 DEF Spared
  <2>2. ASSUME req'[q] = req[q],
               lock' = lock \/ \E r \in Requests : r # q /\ (Decide(r) \/ Eject5xx(r))
        PROVE  lock'[1] = q /\ Spared(1, HealthOf(q))' /\ req'[q].gen = 1
    <3>1. req[q].pc = "ejecting" /\ req[q].gen = 1 /\ lock[1] = q
          /\ Spared(1, HealthOf(q)) /\ HealthOf(q)' = HealthOf(q)
      BY <1>0, <1>3, <2>2 DEF SpareTarget, LockGuards, HealthOf, Target
    <3>2. ASSUME NEW r \in Requests, Eject5xx(r) PROVE r = q
      BY <1>1, <3>1, <3>2 DEF Eject5xx
    <3>3. ASSUME NEW r \in Requests, Decide(r) PROVE FALSE
      BY <1>0, <3>1, <3>3, ConstantsAssumption DEF Decide
    <3>4. lock' = lock
      BY <2>2, <3>2, <3>3
    <3>5. ~Eject5xx(q)
      BY <1>0, <3>1, <3>4, ConstantsAssumption DEF Eject5xx, TypeOK
    <3>6. PICK t \in Listed(1) : arc[1][t] # HealthOf(q) /\ ~OutFor5xx(arc[1][t])
      BY <3>1 DEF Spared
    <3>7. ~OutFor5xx(arc[1][t])'
      BY <1>0, <3>2, <3>5, <3>6, OnlyEject5xx
    <3> QED
      BY <1>0, <2>2, <3>1, <3>4, <3>6, <3>7 DEF Spared
  <2> QED
    BY <1>3, <2>1, <2>2, EnteringEjection
<1> QED
  BY <1>0, <1>2, <1>3 DEF SpareTarget, LockGuards

(***************************************************************************)
(* Between reloads, 5xx answers never take the last target: for any number *)
(* of targets and requests and any thresholds, a pool whose targets pass   *)
(* their checks and are not out for connection failures keeps one in       *)
(* rotation.  With a reload it does not hold: see README, section 6.       *)
(***************************************************************************)
THEOREM LastTargetSurvives5xx ==
    ASSUME LastGeneration = 1
    PROVE  Spec => []LastTargetKept
<1>1. Init => SpareTarget
  <2> SUFFICES ASSUME Init PROVE SpareTarget
    OBVIOUS
  <2>1. 1 \in Generations
    BY ConstantsAssumption DEF Generations
  <2>2. Listed(1) \subseteq Targets /\ Listed(1) # {}
    BY <2>1, ElementsOfSeq, ConfigsAssumption DEF Listed, ValidConfig
  <2>3. PICK t \in Listed(1) : t \in Targets
    BY <2>2
  <2>4. arc[1][t] \in Health
    BY <2>1, <2>3 DEF Init, Health
  <2>5. ~OutFor5xx(arc[1][t])
    BY <2>4 DEF Init, NewHealth, OutFor5xx
  <2>6. LockGuards
    BY DEF Init, Idle, LockGuards
  <2> QED
    BY <2>3, <2>5, <2>6 DEF Init, SpareTarget, NotAllOutFor5xx
<1>2. Counted /\ SpareTarget /\ [Next]_vars => SpareTarget'
  BY SpareStep DEF Counted
<1>3. Counted /\ SpareTarget => LastTargetKept
  <2> SUFFICES ASSUME Counted, SpareTarget,
                      \A t \in Listed(current) :
                         LET h == arc[current][t]
                         IN  health[h].passing /\ (health[h].ejected > 0 => OutFor5xx(h))
               PROVE  Up(current) # {}
    BY DEF LastTargetKept
  <2>1. PICK t \in Listed(1) : ~OutFor5xx(arc[1][t])
    BY DEF SpareTarget, NotAllOutFor5xx
  <2>2. arc[1][t] \in Health
    <3>1. 1 \in Generations
      BY ConstantsAssumption DEF Generations
    <3>2. Listed(1) \subseteq Targets
      BY <3>1, ElementsOfSeq, ConfigsAssumption DEF Listed, ValidConfig
    <3> QED
      BY <3>1, <3>2, <2>1 DEF Counted, TypeOK
  <2>3. health[arc[1][t]].ejected \in 0..Horizon
    BY <2>2 DEF Counted, TypeOK, HealthType
  <2>4. InRotation(arc[1][t])
    BY <2>1, <2>3, ConstantsAssumption DEF SpareTarget, InRotation
  <2> QED
    BY <2>1, <2>4 DEF SpareTarget, Up
<1> QED
  BY <1>1, <1>2, <1>3, CountedInductive, PTL DEF Spec

----------------------------------------------------------------------------
(* Checks and reloads. *)

\* A step that leaves every verdict as it is, and the checks under way.
SameVerdicts ==
    \A h \in Health : /\ health'[h].passing = health[h].passing
                      /\ health'[h].streak = health[h].streak
                      /\ health'[h].checking = health[h].checking

\* One health is replaced by one with the same verdict.
LEMMA VerdictUpdate ==
    ASSUME health \in [Health -> HealthType], NEW k \in Health, NEW x, SetHealth(k, x),
           x.passing = health[k].passing, x.streak = health[k].streak, x.checking = health[k].checking
    PROVE  SameVerdicts
  BY DEF SetHealth, SameVerdicts

\* An ejection is no verdict.
LEMMA EjectVerdict ==
    ASSUME TypeOK, NEW h \in Health, NEW c, NEW reason
    PROVE  LET x == Eject(h, c, reason)
           IN  /\ x.passing = health[h].passing /\ x.streak = health[h].streak
               /\ x.checking = health[h].checking
               /\ DOMAIN x = DOMAIN health[h]
<1>1. health[h] \in HealthType
  BY DEF TypeOK
<1> QED
  BY <1>1 DEF Eject, HealthType

\* Requests eject targets, and never change what the checks said of them.
LEMMA RequestVerdicts ==
    ASSUME TypeOK, NEW r \in Requests, Request(r)
    PROVE  SameVerdicts /\ UNCHANGED <<pool, checking>>
<1>0. health \in [Health -> HealthType] /\ UNCHANGED <<pool, checking>>
  BY DEF TypeOK, Request, Accept, Order, Attempt, AnsweredOk, Answered5xx, Decide, Eject5xx, ConnectFailed,
         EjectConnect, Retry, GiveUp, BrokenOff, Finish
<1>1. CASE UNCHANGED health
  BY <1>0, <1>1 DEF SameVerdicts
<1>2. CASE Accept(r) \/ Order(r) \/ Decide(r) \/ GiveUp(r) \/ BrokenOff(r)
  BY <1>1, <1>2 DEF Accept, Order, Decide, GiveUp, BrokenOff
<1>3. CASE Retry(r) \/ Finish(r)
  <2>1. health' = Released(r)
    BY <1>3 DEF Retry, Finish
  <2>2. CASE req[r].held = NoHealth
    BY <1>1, <2>1, <2>2 DEF Released
  <2>3. CASE req[r].held # NoHealth
    <3>1. req[r].held \in Health
      BY <2>3 DEF TypeOK, RequestType
    <3>2. SetHealth(req[r].held, [health[req[r].held] EXCEPT !.in_flight = @ - 1])
      BY <2>1, <2>3 DEF Released, SetHealth
    <3>3. health[req[r].held] \in HealthType
      BY <1>0, <3>1
    <3> QED
      BY <1>0, <3>1, <3>2, <3>3, VerdictUpdate DEF HealthType
  <2> QED
    BY <2>2, <2>3
<1>4. CASE req[r].pc \notin {"idle", "routed"}
  <2> DEFINE k == HealthOf(r)
  <2>1. k \in Health /\ health[k] \in HealthType
    BY <1>4, AtTarget
  <2> HIDE DEF k
  <2>2. CASE Attempt(r) \/ AnsweredOk(r) \/ Answered5xx(r) \/ ConnectFailed(r)
    <3>1. CASE UNCHANGED health
      BY <1>1, <3>1
    <3>2. CASE ~UNCHANGED health
      <4>1. CASE Attempt(r)
        <5>1. SetHealth(k, [health[k] EXCEPT !.in_flight = @ + 1])
          BY <3>2, <4>1 DEF Attempt, k
        <5> QED
          BY <1>0, <2>1, <5>1, VerdictUpdate DEF HealthType
      <4>2. CASE AnsweredOk(r)
        <5>1. SetHealth(k, [health[k] EXCEPT !.connect_failures = 0, !.http_5xx = 0, !.ejected = 0])
          BY <3>2, <4>2 DEF AnsweredOk, k
        <5> QED
          BY <1>0, <2>1, <5>1, VerdictUpdate DEF HealthType
      <4>3. CASE Answered5xx(r)
        <5>1. PICK n : SetHealth(k, [health[k] EXCEPT !.connect_failures = 0, !.http_5xx = n])
          BY <3>2, <4>3 DEF Answered5xx, k
        <5> QED
          BY <1>0, <2>1, <5>1, VerdictUpdate DEF HealthType
      <4>4. CASE ConnectFailed(r)
        <5>1. PICK n : SetHealth(k, [health[k] EXCEPT !.connect_failures = n])
          BY <3>2, <4>4 DEF ConnectFailed, k
        <5> QED
          BY <1>0, <2>1, <5>1, VerdictUpdate DEF HealthType
      <4> QED
        BY <2>2, <4>1, <4>2, <4>3, <4>4
    <3> QED
      BY <3>1, <3>2
  <2>3. CASE Eject5xx(r)
    <3> DEFINE x == Eject(k, Config(r), "http_5xx")
    <3>1. SetHealth(k, [x EXCEPT !.http_5xx = 0])
      BY <2>3 DEF Eject5xx, k
    <3>2. /\ x.passing = health[k].passing /\ x.streak = health[k].streak /\ x.checking = health[k].checking
          /\ DOMAIN x = DOMAIN health[k]
      BY <2>1, EjectVerdict
    <3> HIDE DEF x
    <3>3. /\ [x EXCEPT !.http_5xx = 0].passing = x.passing /\ [x EXCEPT !.http_5xx = 0].streak = x.streak
          /\ [x EXCEPT !.http_5xx = 0].checking = x.checking
      BY <2>1, <3>2 DEF HealthType
    <3> QED
      BY <1>0, <2>1, <3>1, <3>2, <3>3, VerdictUpdate
  <2>4. CASE EjectConnect(r)
    <3> DEFINE x == Eject(k, Config(r), "connect_error")
    <3>1. SetHealth(k, [x EXCEPT !.connect_failures = 0])
      BY <2>4 DEF EjectConnect, k
    <3>2. /\ x.passing = health[k].passing /\ x.streak = health[k].streak /\ x.checking = health[k].checking
          /\ DOMAIN x = DOMAIN health[k]
      BY <2>1, EjectVerdict
    <3> HIDE DEF x
    <3>3. /\ [x EXCEPT !.connect_failures = 0].passing = x.passing
          /\ [x EXCEPT !.connect_failures = 0].streak = x.streak
          /\ [x EXCEPT !.connect_failures = 0].checking = x.checking
      BY <2>1, <3>2 DEF HealthType
    <3> QED
      BY <1>0, <2>1, <3>1, <3>2, <3>3, VerdictUpdate
  <2> QED
    BY <1>2, <1>3, <1>4, <2>2, <2>3, <2>4 DEF Request, Accept, Order
<1>5. req[r].pc \in {"idle", "routed"} => Accept(r) \/ Order(r) \/ Finish(r)
  BY DEF Request, Attempt, AnsweredOk, Answered5xx, Decide, Eject5xx, ConnectFailed, EjectConnect, Retry,
         GiveUp, BrokenOff
<1> QED
  BY <1>0, <1>2, <1>3, <1>4, <1>5

\* A streak is made of checks in a row that disagree with the verdict, the last ones there were.
StreakEarned ==
    \A h \in Health : health[h].streak > 0 =>
        results[h].ok = ~health[h].passing /\ results[h].n >= health[h].streak

\* The next pool points to the healths it carries, until and after it is installed.
CarriedOver ==
    /\ built \in {current, current + 1}
    /\ built # current => \A t \in Carried(current, built) : arc[built][t] = arc[current][t]

CheckInv == FlagIsTheTask /\ StreakEarned /\ CarriedOver

\* The end of a check: it agrees with the verdict, adds to the streak, or changes the verdict, which
\* the last checks in a row then ask for.
LEMMA CheckEndsFacts ==
    ASSUME TypeOK, CheckInv, NEW h \in Health, NEW passed \in BOOLEAN, CheckEnds(h, passed)
    PROVE  /\ health' \in [Health -> HealthType]
           /\ \A k \in Health \ {h} : health'[k] = health[k] /\ results'[k] = results[k]
                                      /\ running'[k] = running[k]
           /\ ~health'[h].checking /\ health[h].checking /\ running'[h] = <<>>
           /\ results'[h].ok = passed
           /\ health'[h].streak > 0 =>
                 /\ health'[h].passing = ~passed
                 /\ results'[h].n >= health'[h].streak
           /\ health'[h].passing # health[h].passing =>
                 LET c == Configs[Head(running[h])]
                 IN  /\ health'[h].passing = passed
                     /\ results'[h].n >= IF passed THEN c.healthy_after ELSE c.unhealthy_after
<1> DEFINE x == health[h]
           n == Bump(x.streak)
           c == Configs[Head(running[h])]
           y == Checked(h, passed, c)
           m == IF results[h].ok = passed THEN Bump(results[h].n) ELSE 1
<1>1. /\ health \in [Health -> HealthType] /\ x \in HealthType /\ results[h] \in [ok : BOOLEAN, n : 0..MaxCount]
      /\ results \in [Health -> [ok : BOOLEAN, n : 0..MaxCount]]
      /\ running \in [Health -> Seq(Generations)] /\ running[h] \in Seq(Generations)
  BY DEF TypeOK
<1>2. /\ running[h] # <<>> /\ health' = [health EXCEPT ![h] = [y EXCEPT !.checking = FALSE]]
      /\ running' = [running EXCEPT ![h] = Tail(running[h])]
      /\ results' = [results EXCEPT ![h] = [ok |-> passed, n |-> m]]
  BY <1>1 DEF CheckEnds, SetHealth
<1>3. Len(running[h]) = 1 /\ x.checking /\ Tail(running[h]) = <<>>
  <2>1. Len(running[h]) = IF x.checking THEN 1 ELSE 0
    BY DEF CheckInv, FlagIsTheTask
  <2>2. Len(running[h]) \in Nat \ {0}
    BY <1>1, <1>2
  <2>3. Len(running[h]) = 1 /\ x.checking
    BY <2>1, <2>2
  <2>4. Tail(running[h]) \in Seq(Generations) /\ Len(Tail(running[h])) = 0
    BY <1>1, <1>2, <2>3
  <2>5. \A s \in Seq(Generations) : Len(s) = 0 => s = <<>>
    OBVIOUS
  <2> QED
    BY <2>3, <2>4, <2>5
<1>4. y \in HealthType
  BY CheckedType
<1>5. [y EXCEPT !.checking = FALSE] \in HealthType /\ [y EXCEPT !.checking = FALSE].passing = y.passing
      /\ [y EXCEPT !.checking = FALSE].streak = y.streak /\ ~[y EXCEPT !.checking = FALSE].checking
  <2> HIDE DEF y
  <2> QED
    BY <1>4 DEF HealthType
<1>6. /\ x.streak \in 0..MaxCount /\ results[h].n \in 0..MaxCount /\ x.passing \in BOOLEAN
      /\ results[h].ok \in BOOLEAN /\ MaxCount \in Nat \ {0}
  BY <1>1, ConstantsAssumption DEF HealthType
<1>7. x.passing # passed => m >= n
  <2>1. CASE x.streak > 0
    <3>1. results[h].ok = ~x.passing /\ results[h].n >= x.streak
      BY <2>1 DEF CheckInv, StreakEarned
    <3>2. x.passing # passed => results[h].ok = passed
      BY <1>6, <3>1
    <3>3. Bump(results[h].n) >= n
      BY <1>6, <3>1 DEF Bump
    <3> QED
      BY <3>2, <3>3
  <2>2. CASE x.streak = 0
    <3>1. n = 1 /\ Bump(results[h].n) >= 1
      BY <1>6, <2>2 DEF Bump
    <3> QED
      BY <3>1
  <2> QED
    BY <1>6, <2>1, <2>2
<1>8. /\ y.streak > 0 => y.passing = ~passed /\ m >= y.streak
      /\ y.passing # x.passing => y.passing = passed /\ m >= IF passed THEN c.healthy_after ELSE c.unhealthy_after
  <2> DEFINE needed == IF passed THEN c.healthy_after ELSE c.unhealthy_after
  <2>0. needed \in Nat
    <3>1. Head(running[h]) \in Generations
      BY <1>1, <1>2
    <3> QED
      BY <3>1, ConfigsAssumption, ConstantsAssumption DEF ValidConfig
  <2>1. y = IF x.passing = passed THEN [x EXCEPT !.streak = 0]
            ELSE IF n < needed THEN [x EXCEPT !.streak = n]
            ELSE [x EXCEPT !.streak = 0, !.passing = passed]
    BY DEF Checked
  <2>2. n \in Nat /\ m \in Nat
    BY <1>6 DEF Bump
  <2> HIDE DEF y, needed, n, m
  <2>3. CASE x.passing = passed
    <3>1. y.streak = 0 /\ y.passing = x.passing
      BY <1>1, <2>1, <2>3 DEF HealthType
    <3> QED
      BY <3>1
  <2>4. CASE x.passing # passed /\ n < needed
    <3>1. y.streak = n /\ y.passing = x.passing
      BY <1>1, <2>1, <2>4 DEF HealthType
    <3> QED
      BY <1>6, <1>7, <2>4, <3>1
  <2>5. CASE x.passing # passed /\ ~(n < needed)
    <3>1. y.streak = 0 /\ y.passing = passed
      BY <1>1, <2>1, <2>5 DEF HealthType
    <3>2. m >= needed
      BY <1>7, <2>0, <2>2, <2>5
    <3> QED
      BY <3>1, <3>2 DEF needed
  <2> QED
    BY <2>3, <2>4, <2>5
<1> HIDE DEF y, m, n, x, c
<1>9. health'[h] = [y EXCEPT !.checking = FALSE] /\ results'[h] = [ok |-> passed, n |-> m]
      /\ running'[h] = <<>> /\ health' \in [Health -> HealthType]
  BY <1>1, <1>2, <1>3, <1>5
<1> QED
  BY <1>1, <1>2, <1>3, <1>5, <1>8, <1>9 DEF x, c

\* Every step keeps the streaks earned and the probe flag with its task.
LEMMA CheckStep ==
    ASSUME TypeOK, CheckInv, [Next]_vars
    PROVE  CheckInv'
<1>1. CASE SameVerdicts /\ UNCHANGED <<current, built, arc, running, results>>
  <2>1. FlagIsTheTask'
    BY <1>1 DEF CheckInv, FlagIsTheTask, SameVerdicts
  <2>2. StreakEarned'
    BY <1>1 DEF CheckInv, StreakEarned, SameVerdicts
  <2>3. CarriedOver'
    BY <1>1 DEF CheckInv, CarriedOver
  <2> QED
    BY <2>1, <2>2, <2>3 DEF CheckInv
<1>2. ASSUME NEW r \in Requests, Request(r) PROVE CheckInv'
  BY <1>1, <1>2, RequestVerdicts DEF pool, checking
<1>3. CASE UNCHANGED vars \/ Wake \/ \E t \in Targets : Skip(t)
  BY <1>1, <1>3 DEF vars, pool, checking, Wake, Skip, SameVerdicts
<1>4. CASE Tick
  <2>1. SameVerdicts
    <3>1. ASSUME NEW h \in Health
          PROVE  /\ Aged(h).passing = health[h].passing /\ Aged(h).streak = health[h].streak
                 /\ Aged(h).checking = health[h].checking
      <4>1. health[h] \in HealthType
        BY DEF TypeOK
      <4> QED
        BY <4>1 DEF Aged, HealthType
    <3> QED
      BY <1>4, <3>1 DEF Tick, SameVerdicts
  <2> QED
    BY <1>1, <1>4, <2>1 DEF Tick, pool, checking
<1>5. CASE Install
  <2>1. UNCHANGED <<built, arc, health, running, results>> /\ current' = built
    BY <1>5 DEF Install, checking
  <2>2. FlagIsTheTask' /\ StreakEarned'
    BY <2>1 DEF CheckInv, FlagIsTheTask, StreakEarned
  <2>3. CarriedOver'
    BY <2>1 DEF CarriedOver
  <2> QED
    BY <2>2, <2>3 DEF CheckInv
<1>6. ASSUME NEW t \in Targets, Claim(t) PROVE CheckInv'
  <2> DEFINE h == arc[sched][t]
             x == [health[h] EXCEPT !.checking = TRUE, !.next_check = Configs[sched].interval]
  <2>1. /\ ~health[h].checking /\ health' = [health EXCEPT ![h] = x]
        /\ running' = [running EXCEPT ![h] = Append(running[h], sched)]
        /\ UNCHANGED <<current, built, arc, results>>
    BY <1>6 DEF Claim, Due, SetHealth, pool
  <2>2. /\ h \in Health /\ health \in [Health -> HealthType] /\ health[h] \in HealthType
        /\ running \in [Health -> Seq(Generations)] /\ sched \in Generations
    BY DEF TypeOK
  <2> HIDE DEF h
  <2>3. x.checking /\ x.passing = health[h].passing /\ x.streak = health[h].streak
    BY <2>2 DEF HealthType
  <2> HIDE DEF x
  <2>4. FlagIsTheTask'
    <3>1. Len(running[h]) = 0
      BY <2>1, <2>2 DEF CheckInv, FlagIsTheTask
    <3>2. Len(Append(running[h], sched)) = 1
      BY <2>2, <3>1
    <3> QED
      BY <2>1, <2>2, <2>3, <3>2 DEF CheckInv, FlagIsTheTask
  <2>5. StreakEarned'
    BY <2>1, <2>2, <2>3 DEF CheckInv, StreakEarned
  <2>6. CarriedOver'
    BY <2>1 DEF CheckInv, CarriedOver
  <2> QED
    BY <2>4, <2>5, <2>6 DEF CheckInv
<1>7. ASSUME NEW h \in Health, NEW passed \in BOOLEAN, CheckEnds(h, passed) PROVE CheckInv'
  <2>1. /\ \A k \in Health \ {h} : health'[k] = health[k] /\ results'[k] = results[k]
                                   /\ running'[k] = running[k]
        /\ ~health'[h].checking /\ running'[h] = <<>> /\ results'[h].ok = passed
        /\ health'[h].streak > 0 => health'[h].passing = ~passed /\ results'[h].n >= health'[h].streak
        /\ health' \in [Health -> HealthType]
    BY <1>7, CheckEndsFacts
  <2>2. UNCHANGED <<current, built, arc>>
    BY <1>7 DEF CheckEnds, pool
  <2>3. FlagIsTheTask'
    BY <2>1 DEF CheckInv, FlagIsTheTask
  <2>4. StreakEarned'
    <3>1. health'[h].passing = ~passed => passed = ~health'[h].passing
      OBVIOUS
    <3> QED
      BY <2>1, <3>1 DEF CheckInv, StreakEarned
  <2>5. CarriedOver'
    BY <2>2 DEF CheckInv, CarriedOver
  <2> QED
    BY <2>3, <2>4, <2>5 DEF CheckInv
<1>8. CASE Build
  <2> DEFINE new == current + 1
             kept == Carried(current, new)
             x(h) == [health[h] EXCEPT !.passing = TRUE, !.streak = 0]
  <2>1. /\ built = current /\ new \in Generations /\ built' = new /\ current' = current
        /\ running' = running /\ results' = results
        /\ arc' = [arc EXCEPT ![new] = [t \in Targets |-> IF t \in kept THEN arc[current][t] ELSE <<t, new>>]]
    BY <1>8 DEF Build, checking
  <2>2. /\ health \in [Health -> HealthType] /\ current \in Generations
        /\ arc \in [Generations -> [Targets -> Health]] /\ new # current
    BY DEF TypeOK, Generations
  <2>3. \A h \in Health : health'[h] = health[h] \/ health'[h] = x(h)
    BY <1>8 DEF Build
  <2>4. \A h \in Health : x(h).checking = health[h].checking /\ x(h).streak = 0
    BY <2>2 DEF HealthType
  <2> HIDE DEF x
  <2>5. FlagIsTheTask'
    BY <2>1, <2>3, <2>4 DEF CheckInv, FlagIsTheTask
  <2>6. StreakEarned'
    BY <2>1, <2>3, <2>4 DEF CheckInv, StreakEarned
  <2>7. CarriedOver'
    <3>1. kept \subseteq Targets
      <4>1. Listed(current) \subseteq Targets
        BY <2>2, ConfigsAssumption, ElementsOfSeq DEF Listed, ValidConfig
      <4> QED
        BY <4>1 DEF Carried
    <3>2. \A t \in kept : arc'[new][t] = arc[current][t] /\ arc'[current] = arc[current]
      BY <2>1, <2>2, <3>1
    <3> HIDE DEF kept
    <3> QED
      BY <2>1, <3>2 DEF CarriedOver, kept
  <2> QED
    BY <2>5, <2>6, <2>7 DEF CheckInv
<1> QED
  BY <1>2, <1>3, <1>4, <1>5, <1>6, <1>7, <1>8 DEF Next

\* So it holds in every reachable state.
LEMMA CheckAlways == Spec => []CheckInv
<1>1. Init => CheckInv
  BY DEF Init, CheckInv, FlagIsTheTask, StreakEarned, CarriedOver, NewHealth
<1>2. TypeOK /\ CheckInv /\ [Next]_vars => CheckInv'
  BY CheckStep
<1> QED
  BY <1>1, <1>2, TypeCorrect, PTL DEF Spec

\* Only a check's end, or a reload that takes the checks away, changes a verdict.
LEMMA VerdictStep ==
    ASSUME TypeOK, CheckInv, [Next]_vars, NEW h \in Health, health'[h].passing # health[h].passing
    PROVE  \/ built' # built /\ ~Configs[built'].check /\ health'[h].passing
           \/ LET c == Configs[Head(running[h])]
              IN  /\ results'[h].ok = health'[h].passing
                  /\ results'[h].n >= IF health'[h].passing THEN c.healthy_after ELSE c.unhealthy_after
<1>1. ~SameVerdicts
  BY DEF SameVerdicts
<1>2. CASE Build
  <2>1. current \in Nat
    BY ConstantsAssumption DEF TypeOK, Generations
  <2>2. built' = current + 1 /\ built = current
    BY <1>2 DEF Build
  <2>3. built' # built
    BY <2>1, <2>2
  <2>4. ~Configs[current + 1].check
    BY <1>2 DEF Build
  <2>5. health'[h] = [health[h] EXCEPT !.passing = TRUE, !.streak = 0]
    BY <1>2, <2>4 DEF Build
  <2>6. health'[h].passing
    BY <2>5 DEF TypeOK, HealthType
  <2> QED
    BY <2>2, <2>3, <2>4, <2>6
<1>3. ASSUME NEW k \in Health, NEW passed \in BOOLEAN, CheckEnds(k, passed)
      PROVE  LET c == Configs[Head(running[h])]
             IN  /\ results'[h].ok = health'[h].passing
                 /\ results'[h].n >= IF health'[h].passing THEN c.healthy_after ELSE c.unhealthy_after
  <2>1. k = h
    BY <1>3, CheckEndsFacts
  <2> QED
    BY <1>3, <2>1, CheckEndsFacts
<1>4. ASSUME Tick PROVE FALSE
  <2>1. Aged(h).passing = health[h].passing
    BY DEF Aged, TypeOK, HealthType
  <2> QED
    BY <1>4, <2>1 DEF Tick
<1>5. ASSUME NEW t \in Targets, Claim(t) PROVE FALSE
  <2> DEFINE k == arc[sched][t]
             x == [health[k] EXCEPT !.checking = TRUE, !.next_check = Configs[sched].interval]
  <2>1. k \in Health /\ health \in [Health -> HealthType] /\ health[k] \in HealthType
    BY DEF TypeOK
  <2>2. health' = [health EXCEPT ![k] = x]
    BY <1>5 DEF Claim, SetHealth
  <2> HIDE DEF k
  <2>3. x.passing = health[k].passing
    BY <2>1 DEF HealthType
  <2> HIDE DEF x
  <2> QED
    BY <2>1, <2>2, <2>3
<1>6. ~(UNCHANGED vars \/ Wake \/ Install \/ \E t \in Targets : Skip(t))
  BY DEF vars, Wake, Install, Skip
<1>7. ~\E r \in Requests : Request(r)
  BY <1>1, RequestVerdicts
<1> QED
  BY <1>2, <1>3, <1>4, <1>5, <1>6, <1>7 DEF Next

(***************************************************************************)
(* Checks of a target never overlap whichever generations claim them, and  *)
(* its verdict changes only when as many checks in a row as the settings   *)
(* of the last of them ask for said so, or when a reload takes the checks  *)
(* away (claim_check, TargetHealth::checked, carry_health_from).           *)
(***************************************************************************)
THEOREM VerdictsAreEarned == Spec => ChecksInTurn
<1>1. CheckInv => FlagIsTheTask
  BY DEF CheckInv
<1>2. TypeOK /\ CheckInv /\ [Next]_vars =>
         [\A h \in Health :
             health'[h].passing # health[h].passing =>
                 \/ built' # built /\ ~Configs[built'].check /\ health'[h].passing
                 \/ LET c == Configs[Head(running[h])]
                    IN  /\ results'[h].ok = health'[h].passing
                        /\ results'[h].n >= IF health'[h].passing THEN c.healthy_after
                                                                  ELSE c.unhealthy_after]_vars
  BY VerdictStep
<1> QED
  BY <1>1, <1>2, TypeCorrect, CheckAlways, PTL DEF Spec, ChecksInTurn, VerdictEarned

(***************************************************************************)
(* Whatever ejections, answers and checks fall between the build of the    *)
(* next pool and the swap of the runtime, a target that both pools list is *)
(* in rotation after the swap exactly if it was before (Pool::             *)
(* carry_health_from, and the order in which a reload builds and swaps).   *)
(***************************************************************************)
THEOREM ReloadKeepsTargets == Spec => ReloadKeepsRotation
<1>1. CheckInv /\ [Next]_vars =>
         [current' # current =>
             \A t \in Carried(current, current') :
                 InRotation(arc[current'][t]) <=> InRotation(arc[current][t])]_vars
  <2> SUFFICES ASSUME CheckInv, [Next]_vars, current' # current, NEW t \in Carried(current, current')
               PROVE  InRotation(arc[current'][t]) <=> InRotation(arc[current][t])
    OBVIOUS
  <2>1. Install
    BY DEF Next, vars, pool, Request, Accept, Order, Attempt, AnsweredOk, Answered5xx, Decide, Eject5xx,
         ConnectFailed, EjectConnect, Retry, GiveUp, BrokenOff, Finish, Wake, Claim, Skip, CheckEnds, Build, Tick
  <2>2. current' = built /\ built # current
    BY <2>1 DEF Install
  <2> QED
    BY <2>2 DEF CheckInv, CarriedOver
<1> QED
  BY <1>1, CheckAlways, PTL DEF Spec, ReloadKeepsRotation
=============================================================================
