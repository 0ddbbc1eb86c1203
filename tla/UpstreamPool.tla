---------------------------- MODULE UpstreamPool ----------------------------
(***************************************************************************)
(* The upstream pool of one route (src/pool.rs) as the edge runs it:       *)
(* requests that try its targets in order and fail over (`send_to_pool`,   *)
(* src/proxy.rs), passive ejection on connection failures and on 5xx       *)
(* answers, active health checks run by one scheduler task, and reloads    *)
(* that build the next pool, carry the health of the targets it keeps, and *)
(* swap the runtime under requests and checks that still use the old one.  *)
(*                                                                         *)
(* Time.  The code keeps absolute `now_ms` instants and only compares them *)
(* with now, so a health here keeps what is left until each instant, and   *)
(* Tick takes one unit off.                                                *)
(*                                                                         *)
(* Atomicity.  A step is what no other task can come between: a handler is *)
(* split where it awaits, takes or releases `eject_lock`, or separates the *)
(* atomic increment of a counter from what it decides.                     *)
(***************************************************************************)
EXTENDS PoolOrder

CONSTANTS Targets,     \* target URLs
          Requests,    \* requests the model follows at the same time
          LastGeneration, \* how many configurations the run goes through
          Configs,     \* the route's pool configuration in each generation of the runtime
          MaxCount,    \* bound: where counters stop, past every threshold
          Horizon,     \* bound: the longest eject_for_max
          NoHealth,    \* no target is held
          NoRequest    \* the lock is free

Generations == 1..LastGeneration
Listed(g)   == Elements(Configs[g].targets)

\* A target's health: the one made for target t by generation g.
Health == Targets \X Generations

(***************************************************************************)
(* What `from_route` accepts.                                              *)
(***************************************************************************)
ValidConfig(c) ==
    /\ c.targets \in Seq(Targets) /\ c.targets # <<>>
    /\ c.backup \subseteq Targets
    /\ c.managed \in BOOLEAN /\ c.check \in BOOLEAN
    /\ c.check => c.managed
    /\ c.balance \in {"priority", "round_robin", "least_conn", "hash"}
    /\ c.healthy_after \in 1..MaxCount /\ c.unhealthy_after \in 1..MaxCount
    /\ c.interval \in Nat \ {0}
    /\ c.eject_after \in 0..MaxCount /\ c.eject_after_5xx \in 0..MaxCount
    /\ c.eject_for \in Nat /\ c.eject_for_max \in c.eject_for..Horizon
    /\ c.eject_for = 0 => c.eject_after = 0 /\ c.eject_after_5xx = 0
    /\ MaxCount * c.eject_for >= c.eject_for_max

ASSUME ConstantsAssumption ==
    /\ LastGeneration \in Nat \ {0}
    /\ IsFiniteSet(Requests) /\ IsFiniteSet(Targets)
    /\ MaxCount \in Nat \ {0} /\ Horizon \in Nat
    /\ NoHealth \notin Health /\ NoRequest \notin Requests

ASSUME ConfigsAssumption == \A g \in Generations : ValidConfig(Configs[g])

VARIABLES
    current,  \* the generation of the runtime that new requests load
    built,    \* the last generation whose pool is built: current, or the next one
    arc,      \* arc[g][t]: the health that generation g's target t points to
    health,   \* the healths, shared by the generations that point to them
    lock,     \* per generation, the request that holds its pool's `eject_lock`
    req,      \* the requests
    sched,    \* the generation the check scheduler's last round loaded
    left,     \* the targets that round has still to visit
    running,  \* per health, the check tasks under way, each by the generation it checks for
    results   \* history: per health, how many of its last checks in a row ended alike
vars == <<current, built, arc, health, lock, req, sched, left, running, results>>

pool     == <<current, built, arc>>
checking == <<sched, left, running, results>>

(***************************************************************************)
(* `TargetHealth::default`.                                                *)
(***************************************************************************)
Reasons == {"none", "connect_error", "http_5xx"}

NewHealth ==
    [passing |-> TRUE, streak |-> 0, connect_failures |-> 0, http_5xx |-> 0,
     in_flight |-> 0, in_a_row |-> 0, last_end |-> -Horizon, ejected |-> 0,
     reason |-> "none", next_check |-> 0, checking |-> FALSE]

Idle == [pc |-> "idle", gen |-> 1, tries |-> <<>>, i |-> 1, replay |-> FALSE,
         held |-> NoHealth, reached |-> 0]

Init ==
    /\ current = 1 /\ built = 1
    /\ arc = [g \in Generations |-> [t \in Targets |-> <<t, g>>]]
    /\ health = [h \in Health |-> NewHealth]
    /\ lock = [g \in Generations |-> NoRequest]
    /\ req = [r \in Requests |-> Idle]
    /\ sched = 1 /\ left = <<>>
    /\ running = [h \in Health |-> <<>>]
    /\ results = [h \in Health |-> [ok |-> TRUE, n |-> 0]]

----------------------------------------------------------------------------
(***************************************************************************)
(* What the code computes from a health.                                   *)
(***************************************************************************)
InRotation(h) == health[h].passing /\ health[h].ejected = 0

Up(g) == {t \in Listed(g) : InRotation(arc[g][t])}

\* A counter that stops at MaxCount: past every threshold it is compared with.
Bump(n) == IF n < MaxCount THEN n + 1 ELSE n

\* `ejections_in_a_row` is 0 once eject_for_max has passed since the last ejection's end.
InARow(h, max) == IF health[h].last_end + max <= 0 THEN 0 ELSE health[h].in_a_row

(***************************************************************************)
(* `TargetHealth::eject`: out for eject_for times the ejections in a row,  *)
(* up to eject_for_max.                                                    *)
(***************************************************************************)
Eject(h, c, reason) ==
    LET n      == Bump(InARow(h, c.eject_for_max))
        length == IF c.eject_for * n <= c.eject_for_max
                  THEN c.eject_for * n ELSE c.eject_for_max
    IN  [health[h] EXCEPT !.in_a_row = n, !.reason = reason,
                          !.last_end = length, !.ejected = length]

----------------------------------------------------------------------------
(***************************************************************************)
(* Requests.  `tries` is the order taken; `i` the attempt; `replay`        *)
(* whether the body can be sent again (buffered, not streamed); `held` the *)
(* health the attempt is counted in flight on; `reached` counts the        *)
(* attempts that may have reached an upstream.                             *)
(***************************************************************************)
Config(r)  == Configs[req[r].gen]
Target(r)  == req[r].tries[req[r].i]
HealthOf(r) == arc[req[r].gen][Target(r)]

Become(r, x)    == req' = [req EXCEPT ![r] = x]
Goto(r, pc)     == Become(r, [req[r] EXCEPT !.pc = pc])
SetHealth(h, x) == health' = [health EXCEPT ![h] = x]

\* `handle` loads the runtime once; the request keeps it to its end.
Accept(r) ==
    /\ req[r].pc = "idle"
    /\ Become(r, [Idle EXCEPT !.pc = "routed", !.gen = current])
    /\ UNCHANGED <<pool, health, lock, checking>>

\* The gates before it are passed and the body is read: the order is taken now.
Order(r) ==
    /\ req[r].pc = "routed"
    /\ \E tries \in Orders(Config(r), Up(req[r].gen)), replay \in BOOLEAN :
          Become(r, [req[r] EXCEPT !.pc = "attempt", !.tries = tries, !.i = 1,
                                   !.replay = replay])
    /\ UNCHANGED <<pool, health, lock, checking>>

\* `Pool::start`, then the request is on its way to the target.
Attempt(r) ==
    /\ req[r].pc = "attempt"
    /\ IF Config(r).balance = "least_conn"
       THEN /\ SetHealth(HealthOf(r), [health[HealthOf(r)] EXCEPT !.in_flight = @ + 1])
            /\ Become(r, [req[r] EXCEPT !.pc = "sending", !.held = HealthOf(r)])
       ELSE /\ Goto(r, "sending")
            /\ UNCHANGED health
    /\ UNCHANGED <<pool, lock, checking>>

\* An answer below 500: `answered` resets both counts and ends an ejection.
AnsweredOk(r) ==
    /\ req[r].pc = "sending"
    /\ Become(r, [req[r] EXCEPT !.pc = "responding", !.reached = @ + 1])
    /\ IF Config(r).managed
       THEN SetHealth(HealthOf(r), [health[HealthOf(r)] EXCEPT
                                       !.connect_failures = 0, !.http_5xx = 0, !.ejected = 0])
       ELSE UNCHANGED health
    /\ UNCHANGED <<pool, lock, checking>>

\* A 5xx answer: counted; at the threshold the ejection is decided next, under the lock.
Answered5xx(r) ==
    LET c == Config(r)
        n == Bump(health[HealthOf(r)].http_5xx)
        counts == c.managed /\ c.eject_after_5xx > 0
    IN  /\ req[r].pc = "sending"
        /\ Become(r, [req[r] EXCEPT !.reached = @ + 1,
                                    !.pc = IF counts /\ n >= c.eject_after_5xx
                                           THEN "deciding" ELSE "responding"])
        /\ IF c.managed
           THEN SetHealth(HealthOf(r), [health[HealthOf(r)] EXCEPT
                                           !.connect_failures = 0,
                                           !.http_5xx = IF counts THEN n ELSE @])
           ELSE UNCHANGED health
        /\ UNCHANGED <<pool, lock, checking>>

\* Another target of the pool, with a health of its own, is in rotation.
Others(g, h) == \E t \in Listed(g) : arc[g][t] # h /\ InRotation(arc[g][t])

\* Mutant: the decision is taken without waiting for the lock.
DecideMutant(r) ==
    LET g == req[r].gen
    IN  /\ req[r].pc = "deciding"
        /\ IF InRotation(HealthOf(r)) /\ Others(g, HealthOf(r))
           THEN lock' = [lock EXCEPT ![g] = r] /\ Goto(r, "ejecting")
           ELSE UNCHANGED lock /\ Goto(r, "responding")
        /\ UNCHANGED <<pool, health, checking>>

\* `eject_lock` taken: a target already out, or the last in rotation, is left as it is.
Decide(r) ==
    LET g == req[r].gen
    IN  /\ req[r].pc = "deciding"
        /\ lock[g] = NoRequest
        /\ IF InRotation(HealthOf(r)) /\ Others(g, HealthOf(r))
           THEN lock' = [lock EXCEPT ![g] = r] /\ Goto(r, "ejecting")
           ELSE UNCHANGED lock /\ Goto(r, "responding")
        /\ UNCHANGED <<pool, health, checking>>

\* The ejection itself, and the lock released.
Eject5xx(r) ==
    /\ req[r].pc = "ejecting"
    /\ SetHealth(HealthOf(r),
                 [Eject(HealthOf(r), Config(r), "http_5xx") EXCEPT !.http_5xx = 0])
    /\ lock' = [lock EXCEPT ![req[r].gen] = NoRequest]
    /\ Goto(r, "responding")
    /\ UNCHANGED <<pool, checking>>

\* Refused, unreachable, a failed handshake: `connect_failed` counts it.
ConnectFailed(r) ==
    LET c == Config(r)
        n == Bump(health[HealthOf(r)].connect_failures)
        counts == c.managed /\ c.eject_after > 0
    IN  /\ req[r].pc = "sending"
        /\ Goto(r, IF counts /\ n >= c.eject_after THEN "ejecting_connect" ELSE "failed")
        /\ IF counts
           THEN SetHealth(HealthOf(r), [health[HealthOf(r)] EXCEPT !.connect_failures = n])
           ELSE UNCHANGED health
        /\ UNCHANGED <<pool, lock, checking>>

\* The threshold was crossed: the count starts over and the target is out, with no lock.
EjectConnect(r) ==
    /\ req[r].pc = "ejecting_connect"
    /\ SetHealth(HealthOf(r), [Eject(HealthOf(r), Config(r), "connect_error")
                                  EXCEPT !.connect_failures = 0])
    /\ Goto(r, "failed")
    /\ UNCHANGED <<pool, lock, checking>>

\* Dropping the `InFlight` guard of request r, if it holds one.
Released(r) ==
    IF req[r].held = NoHealth THEN health
    ELSE [health EXCEPT ![req[r].held] = [health[req[r].held] EXCEPT !.in_flight = @ - 1]]

CanRetry(r) == req[r].i < Len(req[r].tries) /\ req[r].replay

\* Mutant: the retry keeps the abandoned attempt's guard, then overwrites it.
RetryMutant(r) ==
    /\ req[r].pc = "failed"
    /\ CanRetry(r)
    /\ Become(r, [req[r] EXCEPT !.pc = "attempt", !.i = @ + 1, !.held = NoHealth])
    /\ UNCHANGED <<pool, health, lock, checking>>

\* Mutant: the retry goes back to the first target.
RetrySameMutant(r) ==
    /\ req[r].pc = "failed"
    /\ CanRetry(r)
    /\ Become(r, [req[r] EXCEPT !.pc = "attempt", !.i = 1, !.held = NoHealth])
    /\ health' = Released(r)
    /\ UNCHANGED <<pool, lock, checking>>

\* The next target, with the abandoned attempt's guard dropped.
Retry(r) ==
    /\ req[r].pc = "failed"
    /\ CanRetry(r)
    /\ Become(r, [req[r] EXCEPT !.pc = "attempt", !.i = @ + 1, !.held = NoHealth])
    /\ health' = Released(r)
    /\ UNCHANGED <<pool, lock, checking>>

\* No target left, or a body that went with the first attempt: the failure is the answer.
GiveUp(r) ==
    /\ req[r].pc = "failed"
    /\ ~CanRetry(r)
    /\ Goto(r, "responding")
    /\ UNCHANGED <<pool, health, lock, checking>>

\* Mutant: any failure is taken for one that reached nothing.
BrokenOffMutant(r) ==
    /\ req[r].pc = "sending"
    /\ Become(r, [req[r] EXCEPT !.pc = "failed", !.reached = @ + 1])
    /\ UNCHANGED <<pool, health, lock, checking>>

\* An error after connecting, or the deadline: it may have reached the target, so it is final.
BrokenOff(r) ==
    /\ req[r].pc = "sending"
    /\ Become(r, [req[r] EXCEPT !.pc = "responding", !.reached = @ + 1])
    /\ UNCHANGED <<pool, health, lock, checking>>

\* The response (or the streamed body, or the tunnel) ends; or the client goes away while the
\* edge awaits, which drops the request's future; or the upstream request cannot be built.
\* In each case the guard is dropped.
Finish(r) ==
    /\ \/ req[r].pc \in {"routed", "sending", "responding"}
       \/ req[r].pc = "attempt" /\ req[r].i = 1
    /\ Become(r, Idle)
    /\ health' = Released(r)
    /\ UNCHANGED <<pool, lock, checking>>

Request(r) ==
    \/ Accept(r) \/ Order(r) \/ Attempt(r)
    \/ AnsweredOk(r) \/ Answered5xx(r) \/ Decide(r) \/ Eject5xx(r)
    \/ ConnectFailed(r) \/ EjectConnect(r) \/ Retry(r) \/ GiveUp(r)
    \/ BrokenOff(r) \/ Finish(r)

----------------------------------------------------------------------------
(***************************************************************************)
(* Active checks.  One scheduler task wakes, loads the runtime and visits  *)
(* the targets of that runtime's pool; each check it starts is a task of   *)
(* its own.                                                                *)
(***************************************************************************)
Wake ==
    /\ left = <<>>
    /\ sched' = current
    /\ left' = IF Configs[current].check THEN Configs[current].targets ELSE <<>>
    /\ UNCHANGED <<pool, health, lock, req, running, results>>

\* The scheduler comes to target t of its round.
Visit(t) == left # <<>> /\ t = Head(left) /\ left' = Tail(left)

Due(h) == health[h].next_check = 0 /\ ~health[h].checking

\* `claim_check` succeeds: due, and none running.
Claim(t) ==
    LET h == arc[sched][t]
    IN  /\ Visit(t)
        /\ Due(h)
        /\ SetHealth(h, [health[h] EXCEPT !.checking = TRUE,
                                          !.next_check = Configs[sched].interval])
        /\ running' = [running EXCEPT ![h] = Append(@, sched)]
        /\ UNCHANGED <<pool, lock, req, sched, results>>

\* `claim_check` fails: not due yet, or the last check still runs.
Skip(t) ==
    /\ Visit(t)
    /\ ~Due(arc[sched][t])
    /\ UNCHANGED <<pool, health, lock, req, sched, running, results>>

\* Mutant: a check that agrees with the verdict leaves the streak standing.
CheckedMutant(h, passed, c) ==
    LET x == health[h]
        n == Bump(x.streak)
        needed == IF passed THEN c.healthy_after ELSE c.unhealthy_after
    IN  IF x.passing = passed THEN x
        ELSE IF n < needed THEN [x EXCEPT !.streak = n]
        ELSE [x EXCEPT !.streak = 0, !.passing = passed]

\* Mutant: a disagreeing check that is not the last needed leaves no trace.
CheckedForgetsMutant(h, passed, c) ==
    LET x == health[h]
        n == x.streak + 1
        needed == IF passed THEN c.healthy_after ELSE c.unhealthy_after
    IN  IF x.passing = passed \/ n < needed THEN x ELSE [x EXCEPT !.passing = passed]

(***************************************************************************)
(* `TargetHealth::checked`: the verdict changes after healthy_after passes *)
(* or unhealthy_after failures in a row that disagree with it.             *)
(***************************************************************************)
Checked(h, passed, c) ==
    LET x == health[h]
        n == Bump(x.streak)
        needed == IF passed THEN c.healthy_after ELSE c.unhealthy_after
    IN  IF x.passing = passed THEN [x EXCEPT !.streak = 0]
        ELSE IF n < needed THEN [x EXCEPT !.streak = n]
        ELSE [x EXCEPT !.streak = 0, !.passing = passed]

\* A check task ends, within its timeout, with the settings it was spawned with.
CheckEnds(h, passed) ==
    /\ running[h] # <<>>
    /\ SetHealth(h, [Checked(h, passed, Configs[Head(running[h])]) EXCEPT !.checking = FALSE])
    /\ running' = [running EXCEPT ![h] = Tail(@)]
    /\ results' = [results EXCEPT ![h] =
                      [ok |-> passed, n |-> IF @.ok = passed THEN Bump(@.n) ELSE 1]]
    /\ UNCHANGED <<pool, lock, req, sched, left>>

----------------------------------------------------------------------------
(***************************************************************************)
(* Reload.  `carry_health_from` runs while the next pool is built; the     *)
(* runtime is swapped after it.                                            *)
(***************************************************************************)
\* The targets whose health the next pool takes over: listed by both, by URL.
Carried(old, new) ==
    IF Configs[old].managed /\ Configs[new].managed
    THEN Listed(old) \cap Listed(new) ELSE {}

\* Mutant: the next pool starts with fresh healths.
BuildMutant ==
    /\ built = current /\ current + 1 \in Generations
    /\ built' = current + 1
    /\ UNCHANGED <<current, arc, health, lock, req, checking>>

Build ==
    LET new == current + 1
        kept == Carried(current, new)
    IN  /\ built = current /\ new \in Generations
        /\ built' = new
        /\ arc' = [arc EXCEPT ![new] =
                      [t \in Targets |-> IF t \in kept THEN arc[current][t] ELSE <<t, new>>]]
        /\ health' = IF Configs[new].check THEN health
                     ELSE [h \in Health |->
                              IF \E t \in kept : h = arc[current][t]
                              THEN [health[h] EXCEPT !.passing = TRUE, !.streak = 0]
                              ELSE health[h]]
        /\ UNCHANGED <<current, lock, req, checking>>

Install ==
    /\ built # current
    /\ current' = built
    /\ UNCHANGED <<built, arc, health, lock, req, checking>>

----------------------------------------------------------------------------
(***************************************************************************)
(* One unit of time.                                                       *)
(***************************************************************************)
Down(n) == IF n > 0 THEN n - 1 ELSE n

Aged(h) == [health[h] EXCEPT !.ejected = Down(@), !.next_check = Down(@),
                             !.last_end = IF @ > -Horizon THEN @ - 1 ELSE @]

Tick ==
    /\ \E h \in Health : Aged(h) # health[h]
    /\ health' = [h \in Health |-> Aged(h)]
    /\ UNCHANGED <<pool, lock, req, checking>>

Next ==
    \/ \E r \in Requests : Request(r)
    \/ Wake
    \/ \E t \in Targets : Claim(t) \/ Skip(t)
    \/ \E h \in Health, passed \in BOOLEAN : CheckEnds(h, passed)
    \/ Build \/ Install
    \/ Tick

Spec == Init /\ [][Next]_vars

(***************************************************************************)
(* Fairness.  Tasks that can run do: the scheduler wakes at least once a   *)
(* second and visits every target, a check ends within its timeout, time   *)
(* passes, and a request's steps happen; `upstream_timeout` ends the wait  *)
(* for an answer.  A thread waiting for `eject_lock`, which is never held  *)
(* across an await, gets it in the end (strong fairness).  Nothing obliges *)
(* a client to send a request, a response to end or an operator to reload. *)
(***************************************************************************)
Outcome(r) == AnsweredOk(r) \/ Answered5xx(r) \/ ConnectFailed(r) \/ BrokenOff(r)

Fairness ==
    /\ WF_vars(Tick) /\ WF_vars(Wake) /\ WF_vars(Install)
    /\ \A t \in Targets : WF_vars(Claim(t) \/ Skip(t))
    /\ \A h \in Health : WF_vars(\E passed \in BOOLEAN : CheckEnds(h, passed))
    /\ \A r \in Requests :
          /\ WF_vars(Attempt(r) \/ Outcome(r))
          /\ WF_vars(Eject5xx(r) \/ EjectConnect(r) \/ Retry(r) \/ GiveUp(r))
          /\ SF_vars(Decide(r))

FairSpec == Spec /\ Fairness

----------------------------------------------------------------------------
(***************************************************************************)
(* Type invariant.  An ejection never lasts longer than eject_for_max.     *)
(***************************************************************************)
HealthType ==
    [passing : BOOLEAN, streak : 0..MaxCount, connect_failures : 0..MaxCount,
     http_5xx : 0..MaxCount, in_flight : Nat, in_a_row : 0..MaxCount,
     last_end : (-Horizon)..Horizon, ejected : 0..Horizon, reason : Reasons,
     next_check : Nat, checking : BOOLEAN]

RequestStates == {"idle", "routed", "attempt", "sending", "deciding", "ejecting",
                  "ejecting_connect", "failed", "responding"}

RequestType ==
    [pc : RequestStates, gen : Generations, tries : Seq(Targets), i : Nat \ {0},
     replay : BOOLEAN, held : Health \union {NoHealth}, reached : Nat]

TypeOK ==
    /\ current \in Generations /\ built \in Generations
    /\ arc \in [Generations -> [Targets -> Health]]
    /\ health \in [Health -> HealthType]
    /\ lock \in [Generations -> Requests \union {NoRequest}]
    /\ req \in [Requests -> RequestType]
    /\ \A r \in Requests :
          req[r].pc \notin {"idle", "routed"} => req[r].i <= Len(req[r].tries)
    /\ sched \in Generations /\ left \in Seq(Targets)
    /\ running \in [Health -> Seq(Generations)]
    /\ results \in [Health -> [ok : BOOLEAN, n : 0..MaxCount]]

(***************************************************************************)
(* 5xx answers alone never empty the rotation ("never the last target in   *)
(* rotation", README): if every target passes its checks and none is out   *)
(* for connection failures, some target is in rotation, however the        *)
(* requests that crossed the threshold interleave.                         *)
(***************************************************************************)
OutFor5xx(h) == health[h].ejected > 0 /\ health[h].reason = "http_5xx"

LastTargetKept ==
    (\A t \in Listed(current) :
        LET h == arc[current][t]
        IN  health[h].passing /\ (health[h].ejected > 0 => OutFor5xx(h)))
    => Up(current) # {}

(***************************************************************************)
(* The count `least_conn` balances by is exactly the requests that hold    *)
(* the target, across failover, cancellation and reload: no guard is lost  *)
(* or dropped twice (the counter is unsigned and would wrap).              *)
(***************************************************************************)
InFlightIsHeld ==
    \A h \in Health :
        health[h].in_flight = Cardinality({r \in Requests : req[r].held = h})

(***************************************************************************)
(* A request that may have reached one target is never sent to another     *)
(* ("the app may have acted on it", README): at most one attempt of a      *)
(* request gets past connecting.                                           *)
(***************************************************************************)
ReachesOneTarget == \A r \in Requests : req[r].reached <= 1

(***************************************************************************)
(* The `checking` flag of a health is its check task: checks of a target   *)
(* never overlap, and never stop because the flag outlived the task,       *)
(* whichever generations claim them.                                       *)
(***************************************************************************)
FlagIsTheTask ==
    \A h \in Health : Len(running[h]) = IF health[h].checking THEN 1 ELSE 0

(***************************************************************************)
(* The verdict on a target changes only when as many checks in a row as    *)
(* the check's settings ask for said so, or when a reload takes the checks *)
(* away; never on checks interrupted by an agreeing one.                   *)
(***************************************************************************)
VerdictEarned ==
    [][\A h \in Health :
          health'[h].passing # health[h].passing =>
              \/ built' # built /\ ~Configs[built'].check /\ health'[h].passing
              \/ LET c == Configs[Head(running[h])]
                 IN  /\ results'[h].ok = health'[h].passing
                     /\ results'[h].n >= IF health'[h].passing THEN c.healthy_after
                                                               ELSE c.unhealthy_after]_vars

(***************************************************************************)
(* A reload neither restores nor drops a target both pools list: when the  *)
(* runtime is swapped, the target is in rotation in the new pool exactly   *)
(* if it is in the old one.                                                *)
(***************************************************************************)
ReloadKeepsRotation ==
    [][current' # current =>
          \A t \in Carried(current, current') :
              InRotation(arc[current'][t]) <=> InRotation(arc[current][t])]_vars

(***************************************************************************)
(* A request that is sent gets an outcome: failover ends, and the decision *)
(* to eject never waits for ever on the lock.                              *)
(***************************************************************************)
RequestsResolve ==
    \A r \in Requests :
        req[r].pc = "attempt" ~> req[r].pc \in {"responding", "idle"}

(***************************************************************************)
(* While a pool has checks, each of its targets is checked again and       *)
(* again, in or out of rotation, across the reloads before it.             *)
(***************************************************************************)
ChecksGoOn ==
    \A g \in Generations : \A t \in Listed(g) :
        <>[](current = g /\ Configs[g].check) => []<>(running[arc[g][t]] # <<>>)

(***************************************************************************)
(* The verdict follows the checks: a target whose checks have come to      *)
(* always pass is back for good, and one whose checks always fail is out.  *)
(***************************************************************************)
VerdictFollowsChecks ==
    \A g \in Generations : \A t \in Listed(g) : \A ok \in BOOLEAN :
        <>[](/\ current = g /\ Configs[g].check
             /\ results[arc[g][t]].ok = ok /\ results[arc[g][t]].n > 0)
            => <>[](health[arc[g][t]].passing = ok)

(***************************************************************************)
(* Health checks keep their account across reloads: one task at a time has *)
(* a target's flag, and no verdict changes that its checks did not earn.   *)
(***************************************************************************)
ChecksInTurn == []FlagIsTheTask /\ VerdictEarned

(***************************************************************************)
(* A target out of rotation is not forgotten: its checks go on, and its    *)
(* verdict comes to follow them.                                           *)
(***************************************************************************)
ChecksRecover == ChecksGoOn /\ VerdictFollowsChecks
=============================================================================
