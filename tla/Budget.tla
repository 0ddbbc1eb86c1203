------------------------------- MODULE Budget -------------------------------
(***************************************************************************)
(* LLM budgets (src/budget.rs) as concurrent requests use them             *)
(* (src/proxy.rs): an estimate is reserved against every budget before the *)
(* request is forwarded, and settled to what the upstream reports after    *)
(* it.  The counters are in one process (`MemoryStore`) or in Redis, where *)
(* a script runs atomically but its reply may be lost.                     *)
(*                                                                         *)
(* A step is one script, or one critical section of the in-memory store.   *)
(* Time is counted in a unit that divides every window.                    *)
(***************************************************************************)
EXTENDS Integers, Sequences, FiniteSets, FiniteSetsExt, Functions

CONSTANTS Requests,       \* requests, of one edge or of several
          Budgets,        \* the configured budgets: [unit, limit, window]
          Dims,           \* Dims[r][b]: what budget b's scope reads of request r
          Spends,         \* the estimates and the actual spends: [tokens, cost_micros]
          Shared,         \* TRUE: the counters are in Redis; FALSE: in each engine
          FailOpen,       \* `llm.fail_open`
          Faults,         \* what may go wrong (Redis only)
          Attempts,       \* RECONCILE_ATTEMPTS
          LastGeneration, \* bound: how many runtimes are built
          MaxTime         \* bound: how long the model runs

Generations == 1..LastGeneration
BudgetIds   == 1..Len(Budgets)
Units       == {"tokens", "cost_micros"}
Zero        == [u \in Units |-> 0]

\* A reservation script, or a settling one, runs but its reply is lost; the store cannot be
\* reached; the client goes away and the request's future is dropped, in `reserve` or in
\* `commit`.
FaultKinds == {"lost_reserve", "lost_settle", "error", "cancel_reserve", "cancel_commit"}

ASSUME BudgetAssumption ==
    /\ IsFiniteSet(Requests)
    /\ Budgets \in Seq([unit : Units, limit : Nat \ {0}, window : Nat \ {0}])
    /\ Spends \subseteq [Units -> Nat] /\ Zero \in Spends
    /\ Shared \in BOOLEAN /\ FailOpen \in BOOLEAN
    /\ Faults \subseteq FaultKinds /\ (Faults # {} => Shared)
    /\ Attempts \in Nat \ {0} /\ LastGeneration \in Nat \ {0} /\ MaxTime \in Nat

VARIABLES now,      \* the time
          current,  \* the runtime that new requests load, and with it the engine
          used,     \* per key, the counter
          expires,  \* per key, when the store drops it
          settled,  \* the settle markers set
          req,      \* the requests
          drift     \* edgeguard_llm_budget_reconcile_failures_total
vars  == <<now, current, used, expires, settled, req, drift>>
store == <<used, expires, settled>>

(***************************************************************************)
(* Keys.  The window is part of the key; an in-memory store belongs to the *)
(* engine that was built with it.                                          *)
(***************************************************************************)
Amount(b, spend) == spend[Budgets[b].unit]
Window(b, time)  == time \div Budgets[b].window
TtlOf(b)         == 2 * Budgets[b].window
StoreOf(g)       == IF Shared THEN 1 ELSE g

Keys == UNION {[store : {StoreOf(g) : g \in Generations}, budget : {b},
                dim : {Dims[r][b] : r \in Requests}, window : 0..Window(b, MaxTime)] :
                   b \in BudgetIds}

Key(r, b) == [store |-> StoreOf(req[r].gen), budget |-> b, dim |-> Dims[r][b],
              window |-> Window(b, req[r].at)]

\* `held`: the budgets that admitted the request; `todo`: those still to settle or roll back, which
\* is done in the order of the configuration;
\* `spawned`: the settling task outlives the request's own; `unacked`: history, a reservation was
\* made and its reply lost.
Fresh == [pc |-> "idle", gen |-> 1, at |-> 0, estimate |-> Zero, actual |-> Zero,
          b |-> 1, held |-> {}, todo |-> {}, attempt |-> 1, outcome |-> "none",
          failures |-> 0, spawned |-> FALSE, unacked |-> FALSE]

Init == /\ now = 0 /\ current = 1
        /\ used = [k \in Keys |-> 0]
        /\ expires = [k \in Keys |-> 0]
        /\ settled = {}
        /\ req = [r \in Requests |-> Fresh]
        /\ drift = 0

Become(r, x) == req' = [req EXCEPT ![r] = x]

----------------------------------------------------------------------------
(***************************************************************************)
(* The store.                                                              *)
(***************************************************************************)
Value(k) == IF expires[k] > now THEN used[k] ELSE 0

Write(k, n) == /\ used' = [used EXCEPT ![k] = n]
               /\ expires' = [expires EXCEPT ![k] = now + TtlOf(k.budget)]

\* Mutant: only what is used already is compared with the limit.
WouldReserveMutant(n, amount, limit) == n < limit

WouldReserve(n, amount, limit) == n + amount <= limit

Estimate(r) == Amount(req[r].b, req[r].estimate)
Admits(r)   == WouldReserve(Value(Key(r, req[r].b)), Estimate(r), Budgets[req[r].b].limit)

\* The reserving script, for the budget the request is at.
ReserveScript(r) ==
    LET k == Key(r, req[r].b)
    IN  /\ IF Admits(r) THEN Write(k, Value(k) + Estimate(r)) ELSE UNCHANGED <<used, expires>>
        /\ UNCHANGED settled

\* What settling adds to the counter: everything back, or the difference to the actual spend.
Delta(r, b) == (IF req[r].pc = "rolling" THEN 0 ELSE Amount(b, req[r].actual))
                 - Amount(b, req[r].estimate)

\* Mutant: no marker, so a retry applies the difference again.
SettleScriptMutant(r) ==
    LET b == Min(req[r].todo)
        k == Key(r, b)
        n == Value(k) + Delta(r, b)
    IN  /\ Write(k, IF n < 0 THEN 0 ELSE n)
        /\ settled' = settled \union {<<r, b>>}

\* The settling script, for the first budget to do: at most once per marker, and never below 0.
\* A marker outlives every retry of its settling.
SettleScript(r) ==
    LET b == Min(req[r].todo)
        k == Key(r, b)
        n == Value(k) + Delta(r, b)
    IN  IF <<r, b>> \in settled THEN UNCHANGED store
        ELSE /\ Write(k, IF n < 0 THEN 0 ELSE n)
             /\ settled' = settled \union {<<r, b>>}

----------------------------------------------------------------------------
(***************************************************************************)
(* `BudgetEngine::reserve`.                                                *)
(***************************************************************************)
Begin(r, estimate) ==
    /\ req[r].pc = "idle"
    /\ Become(r, [Fresh EXCEPT !.pc = "reserving", !.gen = current, !.at = now,
                               !.estimate = estimate])
    /\ UNCHANGED <<now, current, store, drift>>

Reserving(r) == req[r].pc = "reserving" /\ req[r].b \in BudgetIds

\* A charge of zero can exceed nothing: neither reserved nor settled.
Skip(r) ==
    /\ Reserving(r) /\ Estimate(r) = 0
    /\ Become(r, [req[r] EXCEPT !.b = @ + 1])
    /\ UNCHANGED <<now, current, store, drift>>

RollBack(r, outcome, unacked) ==
    Become(r, [req[r] EXCEPT !.pc = "rolling", !.todo = req[r].held, !.outcome = outcome,
                             !.unacked = unacked])

\* Mutant: the budgets held before the refusal are forgotten.
ReserveMutant(r) ==
    /\ Reserving(r) /\ Estimate(r) > 0
    /\ ReserveScript(r)
    /\ IF Admits(r)
       THEN Become(r, [req[r] EXCEPT !.held = @ \union {req[r].b}, !.b = @ + 1])
       ELSE Become(r, [req[r] EXCEPT !.pc = "rolling", !.outcome = "denied"])
    /\ UNCHANGED <<now, current, drift>>

\* The store answers: held, or refused and the budgets before it are rolled back.
Reserve(r) ==
    /\ Reserving(r) /\ Estimate(r) > 0
    /\ ReserveScript(r)
    /\ IF Admits(r)
       THEN Become(r, [req[r] EXCEPT !.held = @ \union {req[r].b}, !.b = @ + 1])
       ELSE RollBack(r, "denied", FALSE)
    /\ UNCHANGED <<now, current, drift>>

\* A store error, with the script run or not: not retried, rolled back.
ReserveFails(r) ==
    /\ Reserving(r) /\ Estimate(r) > 0
    /\ LET outcome == IF FailOpen THEN "open" ELSE "error"
       IN  \/ "lost_reserve" \in Faults /\ ReserveScript(r) /\ RollBack(r, outcome, Admits(r))
           \/ "error" \in Faults /\ UNCHANGED store /\ RollBack(r, outcome, FALSE)
    /\ UNCHANGED <<now, current, drift>>

\* Every budget admitted it: the guard holds the reservation and the request goes upstream.
Admit(r) ==
    /\ req[r].pc = "reserving" /\ req[r].b \notin BudgetIds
    /\ Become(r, [req[r] EXCEPT !.pc = "forwarded", !.outcome = "admitted"])
    /\ UNCHANGED <<now, current, store, drift>>

----------------------------------------------------------------------------
(***************************************************************************)
(* The request ends, and its reservation is settled: only the budgets      *)
(* whose charge differs from the estimate.                                 *)
(***************************************************************************)
SettleTo(r, actual, spawned) ==
    /\ req[r].pc = "forwarded"
    /\ Become(r, [req[r] EXCEPT !.pc = "settling", !.actual = actual, !.spawned = spawned,
                     !.todo = {b \in req[r].held : Amount(b, actual) # Amount(b, req[r].estimate)}])
    /\ UNCHANGED <<now, current, store, drift>>

\* A buffered answer: the request's own task settles it, to nothing if no usage came with it.
Commit(r, actual) == SettleTo(r, actual, FALSE)

\* A streamed body is dropped, at its end or before: a task of its own settles what it reported.
StreamEnds(r, actual) == SettleTo(r, actual, TRUE)

\* The guard is dropped uncommitted (an upstream error, a timeout, a client gone): a release.
Release(r) == SettleTo(r, Zero, TRUE)

Settling(r) == req[r].pc \in {"rolling", "settling"} /\ req[r].todo # {}

Settle(r) ==
    /\ Settling(r)
    /\ SettleScript(r)
    /\ Become(r, [req[r] EXCEPT !.todo = @ \ {Min(@)}, !.attempt = 1])
    /\ UNCHANGED <<now, current, drift>>

\* A failed attempt is retried; after the last one it counts as a failure, and the next budget
\* is settled.
SettleFails(r) ==
    /\ Settling(r)
    /\ \/ "lost_settle" \in Faults /\ SettleScript(r)
       \/ "error" \in Faults /\ UNCHANGED store
    /\ Become(r, IF req[r].attempt < Attempts
                 THEN [req[r] EXCEPT !.attempt = @ + 1]
                 ELSE [req[r] EXCEPT !.attempt = 1, !.todo = @ \ {Min(@)}, !.failures = @ + 1])
    /\ UNCHANGED <<now, current, drift>>

\* A request that is over keeps what it held and spent, for the properties.
Over(x, pc) == [x EXCEPT !.pc = pc, !.b = 1, !.todo = {}, !.outcome = "none",
                         !.spawned = FALSE]

\* A request whose reservation was rolled back.
Dropped(r) == [req[r] EXCEPT !.held = {}, !.failures = 0]

\* All budgets are done, and the failures recorded.  Failing open, the request goes on without
\* a reservation.
Finish(r) ==
    /\ req[r].pc \in {"rolling", "settling"} /\ req[r].todo = {}
    /\ Become(r, IF req[r].pc = "settling"       THEN Over(req[r], "done")
                 ELSE IF req[r].outcome = "open" THEN [Dropped(r) EXCEPT !.pc = "forwarded"]
                 ELSE Over(Dropped(r), "done"))
    /\ drift' = drift + req[r].failures
    /\ UNCHANGED <<now, current, store>>

\* The request's future is dropped where it awaits the store, its script run or not: while it
\* reserves or rolls back, or while it commits.  What a spawned task settles is safe from it.
Cancel(r) ==
    /\ \/ "cancel_reserve" \in Faults /\ req[r].pc \in {"reserving", "rolling"}
       \/ "cancel_commit" \in Faults /\ req[r].pc = "settling" /\ ~req[r].spawned
    /\ \/ Reserving(r) /\ Estimate(r) > 0 /\ (ReserveScript(r) \/ UNCHANGED store)
       \/ Settling(r) /\ (SettleScript(r) \/ UNCHANGED store)
    /\ Become(r, Over(req[r], "gone"))
    /\ UNCHANGED <<now, current, drift>>

----------------------------------------------------------------------------
\* A reload builds an engine, with an in-memory store of its own.
Reload ==
    /\ current < LastGeneration
    /\ current' = current + 1
    /\ UNCHANGED <<now, store, req, drift>>

Tick ==
    /\ now < MaxTime
    /\ now' = now + 1
    /\ UNCHANGED <<current, store, req, drift>>

Step(r) == \/ Skip(r) \/ Reserve(r) \/ ReserveFails(r) \/ Admit(r)
           \/ Settle(r) \/ SettleFails(r) \/ Finish(r)

Answer(r) == \/ \E actual \in Spends : Commit(r, actual) \/ StreamEnds(r, actual)
             \/ Release(r)

\* Every request the model follows has ended.
Ended ==
    /\ \A r \in Requests : req[r].pc \in {"done", "gone"}
    /\ UNCHANGED vars

Next == \/ \E r \in Requests :
              \/ \E estimate \in Spends : Begin(r, estimate)
              \/ Step(r) \/ Answer(r) \/ Cancel(r)
        \/ Reload \/ Tick
        \/ Ended

Spec == Init /\ [][Next]_vars

----------------------------------------------------------------------------
(***************************************************************************)
(* Type invariant.                                                         *)
(***************************************************************************)
RequestStates == {"idle", "reserving", "rolling", "forwarded", "settling", "done", "gone"}

TypeOK ==
    /\ now \in 0..MaxTime /\ current \in Generations /\ drift \in Nat
    /\ used \in [Keys -> Nat] /\ expires \in [Keys -> Nat]
    /\ settled \subseteq Requests \X BudgetIds
    /\ \A r \in Requests :
          /\ req[r].pc \in RequestStates /\ req[r].gen \in Generations
          /\ req[r].at \in 0..now /\ req[r].b \in 1..(Len(Budgets) + 1)
          /\ req[r].estimate \in Spends /\ req[r].actual \in Spends
          /\ req[r].held \subseteq BudgetIds /\ req[r].todo \subseteq BudgetIds
          /\ req[r].attempt \in 1..Attempts /\ req[r].failures \in 0..Len(Budgets)
          /\ req[r].spawned \in BOOLEAN /\ req[r].unacked \in BOOLEAN
          /\ req[r].outcome \in {"none", "denied", "error", "open", "admitted"}

(***************************************************************************)
(* The keys that reservations made now would read, and the requests that   *)
(* hold, or held, something of a budget under such a key.                  *)
(***************************************************************************)
LiveKeys == {k \in Keys : /\ k.store = StoreOf(current)
                          /\ k.window = Window(k.budget, now)}

Holders(k) == {r \in Requests : k.budget \in req[r].held /\ Key(r, k.budget) = k}

Total(k, F(_, _)) ==
    SumFunction([r \in Requests |-> IF r \in Holders(k) THEN F(r, k.budget) ELSE 0])

Estimated(r, b) == Amount(b, req[r].estimate)
Actual(r, b)    == Amount(b, req[r].actual)

\* The least that request r must be counted for.  Only a settling that failed, and was
\* recorded, or that was cut short may leave an estimate that was too low standing.
Owed(r, b) ==
    LET e == Estimated(r, b)
        a == Actual(r, b)
    IN  CASE req[r].pc \in {"reserving", "forwarded"}       -> e
          [] req[r].pc = "rolling"                          -> 0
          [] req[r].pc = "done" /\ req[r].failures = 0      -> a
          [] OTHER                                          -> IF a < e THEN a ELSE e

(***************************************************************************)
(* The budget is never understated: while a window lasts, its counter      *)
(* holds at least what the requests of the window hold and have spent,     *)
(* whatever replies are lost and however often a settling is retried.  An  *)
(* understated counter would admit requests past the cap.                  *)
(***************************************************************************)
NeverUnderstated == \A k \in LiveKeys : Value(k) >= Total(k, Owed)

(***************************************************************************)
(* The cap holds across every request and edge: the counter of a window    *)
(* passes its limit by no more than what finished requests spent above     *)
(* their estimates.                                                        *)
(***************************************************************************)
Excess(r, b) == LET over == Actual(r, b) - Estimated(r, b) IN IF over > 0 THEN over ELSE 0

OvershootIsUnderestimate ==
    \A k \in LiveKeys : Value(k) <= Budgets[k.budget].limit + Total(k, Excess)

AtRest == \A r \in Requests : req[r].pc \in {"idle", "done", "gone"}

(***************************************************************************)
(* A counter that has drifted from what was spent is reported: with no     *)
(* request under way, none cut short and none whose reservation went       *)
(* unacknowledged, either every counter is exactly what its window's       *)
(* requests spent, a refused request leaving nothing, or                   *)
(* reconcile_failures is not zero.                                         *)
(***************************************************************************)
CutShort(r) == req[r].pc = "gone" \/ req[r].unacked

DriftIsReported ==
    AtRest /\ drift = 0 /\ (\A r \in Requests : ~CutShort(r))
        => \A k \in LiveKeys : Value(k) = Total(k, Actual)

(***************************************************************************)
(* The state has its type, a retry past the last and a count below zero    *)
(* being outside it, and every counter stays within its budget, up to what *)
(* estimates missed.                                                       *)
(***************************************************************************)
WithinBudget == TypeOK /\ OvershootIsUnderestimate
=============================================================================
