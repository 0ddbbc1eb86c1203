----------------------------- MODULE Supervisor -----------------------------
(***************************************************************************)
(* The wrapped app and the task that keeps it running (src/supervisor.rs,  *)
(* Unix).  The app is a shell, the child, and what the shell may have      *)
(* forked, in one process group.                                           *)
(***************************************************************************)
EXTENDS Naturals

CONSTANTS Backoffs,   \* bound: backoff, 2^n half seconds, stops growing at this n
          TermGrace   \* how long a terminated app may take, in steps of the clock

ASSUME SupervisorAssumption == Backoffs \in Nat /\ TermGrace \in Nat \ {0}

VARIABLES wrapped,  \* whether there is an app to supervise
          stop,     \* the value of the stop channel
          sup,      \* the task: pc, its timer, the backoff and why it left
          app       \* the child and its group; orphans: two groups at once; slain: killed without its grace

supVars == <<wrapped, stop, sup, app>>

NoApp == [child |-> "none", forked |-> FALSE, asked |-> FALSE, orphans |-> FALSE,
          slain |-> FALSE]

SupInit ==
    /\ wrapped \in BOOLEAN
    /\ stop = FALSE
    /\ sup = [pc |-> IF wrapped THEN "start" ELSE "stopped", left |-> 0, backoff |-> 0]
    /\ app = NoApp

Goes(pc, left) == sup' = [sup EXCEPT !.pc = pc, !.left = left]

\* The top of the loop: stopped already, or another try; a spawn that fails backs off.
Spawn ==
    /\ sup.pc = "start"
    /\ IF stop THEN Goes("stopped", 0) /\ UNCHANGED app
       ELSE \/ /\ Goes("watch", 0)
               /\ app' = [NoApp EXCEPT !.child = "up", !.orphans = app.forked \/ app.orphans]
            \/ Goes("backoff", sup.backoff + 1) /\ UNCHANGED app
    /\ UNCHANGED <<wrapped, stop>>

\* child.wait() returned: the rest of the group is killed, unless the task was stopped by then.
ExitSeen ==
    /\ sup.pc = "watch" /\ app.child = "exited"
    /\ IF stop THEN app' = [app EXCEPT !.child = "none"] /\ Goes("stopped", 0)
       ELSE app' = [app EXCEPT !.child = "none", !.forked = FALSE] /\ Goes("backoff", sup.backoff + 1)
    /\ UNCHANGED <<wrapped, stop>>

\* wait_or_shutdown: the backoff doubles up to its limit, and is never reset.
BackoffOver ==
    /\ sup.pc = "backoff"
    /\ \/ stop /\ Goes("stopped", 0)
       \/ /\ ~stop /\ sup.left = 0
          /\ sup' = [sup EXCEPT !.pc = "start", !.backoff = IF @ < Backoffs THEN @ + 1 ELSE @]
    /\ UNCHANGED <<wrapped, stop, app>>

\* terminate: SIGTERM to the group, and a grace period.
Terminate ==
    /\ sup.pc = "watch" /\ stop
    /\ app' = [app EXCEPT !.asked = TRUE]
    /\ Goes("term", TermGrace)
    /\ UNCHANGED <<wrapped, stop>>

TermSeen ==
    /\ sup.pc = "term" /\ app.child = "exited"
    /\ app' = [app EXCEPT !.child = "none"] /\ Goes("stopped", 0)
    /\ UNCHANGED <<wrapped, stop>>

\* The grace period is over: SIGKILL to the group, and the child is reaped.
Kill ==
    /\ sup.pc = "term" /\ sup.left = 0
    /\ app' = NoApp /\ Goes("stopped", 0)
    /\ UNCHANGED <<wrapped, stop>>

SupervisorTask ==
    Spawn \/ ExitSeen \/ BackoffOver \/ Terminate \/ TermSeen \/ Kill

\* The app forks, exits or crashes on its own; the processes it left may end too.
AppForks ==
    /\ app.child = "up" /\ ~app.forked
    /\ app' = [app EXCEPT !.forked = TRUE]
    /\ UNCHANGED <<wrapped, stop, sup>>

AppExits ==
    /\ app.child = "up"
    /\ \E alone \in {FALSE, app.forked} : app' = [app EXCEPT !.child = "exited", !.forked = alone]
    /\ UNCHANGED <<wrapped, stop, sup>>

App == AppForks \/ AppExits

SupTimed == sup.pc \in {"backoff", "term"}
\* What the task does before time passes: it handles a timer that ran out, and the stop.
SupDue == (SupTimed /\ sup.left = 0) \/ (stop /\ sup.pc \notin {"term", "stopped"})

SupTime ==
    /\ ~SupDue
    /\ sup' = [sup EXCEPT !.left = IF SupTimed THEN @ - 1 ELSE @]
    /\ UNCHANGED <<wrapped, stop, app>>

----------------------------------------------------------------------------
(* Properties. *)

\* Two copies of the app never run at once: when it is started again, nothing of the last one is left
\* in its process group to hold the port.
OneApp == ~app.orphans
=============================================================================
