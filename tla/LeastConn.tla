----------------------------- MODULE LeastConn -----------------------------
(***************************************************************************)
(* `least_loaded` (src/pool.rs) as concurrent requests run it.  It reads   *)
(* every target's in-flight count three times over: once to find the       *)
(* lightest, once to count the targets tied with it, once to take the tied *)
(* target whose turn it is.  Other requests start and finish between any   *)
(* two of those reads.  Each read is a step here.                          *)
(***************************************************************************)
EXTENDS Integers, Sequences, TLC

CONSTANTS Requests,   \* requests of the pool that run at the same time
          Tier,       \* the targets in rotation, in order
          Weight,     \* each target's weight
          Turns       \* the turns the pool's counter may give

VARIABLES in_flight,  \* per target: the atomic count
          req         \* per request: where its pick is and what it has read
vars == <<in_flight, req>>

Targets == {Tier[i] : i \in DOMAIN Tier}
NoPick  == 0

Fresh == [pc |-> "idle", i |-> 1, turn |-> 0, n |-> 0, w |-> 1, count |-> 0,
          pick |-> NoPick]

Init == /\ in_flight = [t \in Targets |-> 0]
        /\ req = [r \in Requests |-> Fresh]

\* The load of t, as the numerator and denominator of (in flight + 1) / weight.
Load(t) == <<in_flight[t] + 1, Weight[t]>>

Begin(r) ==
    /\ req[r].pc = "idle"
    /\ \E turn \in Turns : req' = [req EXCEPT ![r] = [Fresh EXCEPT !.pc = "min", !.turn = turn]]
    /\ UNCHANGED in_flight

(***************************************************************************)
(* First pass, `min_by`: the first of the least stays.                     *)
(***************************************************************************)
ReadMin(r) ==
    LET i == req[r].i
        x == Load(Tier[i])
        keep == i > 1 /\ req[r].n * x[2] <= x[1] * req[r].w
        n == IF keep THEN req[r].n ELSE x[1]
        w == IF keep THEN req[r].w ELSE x[2]
    IN  /\ req[r].pc = "min"
        /\ req' = [req EXCEPT ![r].n = n, ![r].w = w,
                              ![r].i = IF i = Len(Tier) THEN 1 ELSE i + 1,
                              ![r].pc = IF i = Len(Tier) THEN "count" ELSE "min"]
        /\ UNCHANGED in_flight

\* Whether target t, read now, is tied with the best the first pass found.
Tied(r, t) == Load(t)[1] * req[r].w = req[r].n * Load(t)[2]

(***************************************************************************)
(* Second pass: count the tied targets.                                    *)
(***************************************************************************)
ReadCount(r) ==
    LET i == req[r].i
        count == req[r].count + (IF Tied(r, Tier[i]) THEN 1 ELSE 0)
        last == i = Len(Tier)
    IN  /\ req[r].pc = "count"
        /\ req' = [req EXCEPT ![r].count = count,
                              ![r].i = IF last THEN 1 ELSE i + 1,
                              ![r].pc = IF ~last THEN "count"
                                        ELSE IF count = 0 THEN "panicked" ELSE "nth",
                              ![r].turn = IF last /\ count # 0 THEN @ % count ELSE @]
        /\ UNCHANGED in_flight

(***************************************************************************)
(* Third pass: skip `turn` tied targets and take the next; with none left, *)
(* the first of the tier.                                                  *)
(***************************************************************************)
ReadNth(r) ==
    LET i == req[r].i
        tied == Tied(r, Tier[i])
        found == tied /\ req[r].turn = 0
        last == i = Len(Tier)
    IN  /\ req[r].pc = "nth"
        /\ req' = [req EXCEPT ![r].turn = IF tied /\ ~found THEN @ - 1 ELSE @,
                              ![r].i = IF found \/ last THEN 1 ELSE i + 1,
                              ![r].pc = IF found \/ last THEN "picked" ELSE "nth",
                              ![r].pick = IF found THEN i ELSE IF last THEN 1 ELSE @]
        /\ UNCHANGED in_flight

(***************************************************************************)
(* `Pool::start`: counted in flight until the guard is dropped.            *)
(***************************************************************************)
Start(r) ==
    /\ req[r].pc = "picked"
    /\ in_flight' = [in_flight EXCEPT ![Tier[req[r].pick]] = @ + 1]
    /\ req' = [req EXCEPT ![r].pc = "sent"]

(***************************************************************************)
(* Drop of the `InFlight` guard: the exchange is over.                     *)
(***************************************************************************)
End(r) ==
    /\ req[r].pc = "sent"
    /\ in_flight' = [in_flight EXCEPT ![Tier[req[r].pick]] = @ - 1]
    /\ req' = [req EXCEPT ![r] = Fresh]

\* The task that panicked is gone, with nothing counted; another request takes its place.
Unwind(r) ==
    /\ req[r].pc = "panicked"
    /\ req' = [req EXCEPT ![r] = Fresh]
    /\ UNCHANGED in_flight

Next == \E r \in Requests :
            \/ Begin(r) \/ ReadMin(r) \/ ReadCount(r) \/ ReadNth(r)
            \/ Start(r) \/ End(r) \/ Unwind(r)

Spec == Init /\ [][Next]_vars

----------------------------------------------------------------------------
(***************************************************************************)
(* What the comment in `least_loaded` says of a count that changes while   *)
(* it looks ("the lightest found will do"): the pick still gives a target. *)
(***************************************************************************)
EveryPickGivesATarget == \A r \in Requests : req[r].pc # "panicked"

-----------------------------------------------------------------------------
(***************************************************************************)
(* The instance for TLC: two targets, one of them twice as heavy.          *)
(***************************************************************************)
CONSTANTS a, b,     \* targets
          r1, r2    \* requests

TwoTargets == <<a, b>>
Weights    == a :> 1 @@ b :> 2
TwoAtOnce  == {r1, r2}
=============================================================================
