----------------------------- MODULE Lifecycle -----------------------------
(***************************************************************************)
(* The two phases of a shutdown (run in src/main.rs): on the signal        *)
(* readiness fails, then the public listener drains; once it has returned, *)
(* the wrapped app and the admin listener are stopped, and the process     *)
(* ends when the app has, or fifteen seconds later.                        *)
(***************************************************************************)
EXTENDS Connections, Supervisor

CONSTANTS StopGrace   \* how long the process waits for the supervisor, in steps of the clock

\* The process waits fifteen seconds for a supervisor that gives the app ten.
ASSUME LifecycleAssumption == StopGrace \in Nat /\ StopGrace > TermGrace

VARIABLES main,     \* the process: "serving", "signalled", "draining", "stopping" or "exited", and a timer
          draining  \* the flag /ready answers 503 on

lifeVars == <<main, draining, connVars, supVars>>

LifeInit ==
    /\ ConnInit /\ SupInit
    /\ main = [pc |-> "serving", left |-> 0]
    /\ draining = FALSE

Up == main.pc # "exited"

Listener(A) == A /\ Up /\ UNCHANGED <<main, draining, supVars>>
Supervise(A) == A /\ Up /\ UNCHANGED <<main, draining, connVars>>

\* Mutant: the signal ends the process.
WaitForSignalExits ==
    /\ main.pc = "serving"
    /\ main' = [main EXCEPT !.pc = "exited"]
    /\ draining' = TRUE
    /\ UNCHANGED <<connVars, supVars>>

\* The task that waits for Ctrl-C and SIGTERM.
WaitForSignal ==
    /\ main.pc = "serving"
    /\ main' = [main EXCEPT !.pc = "signalled"]
    /\ draining' = TRUE
    /\ UNCHANGED <<connVars, supVars>>

SendShutdown ==
    /\ main.pc = "signalled"
    /\ main' = [main EXCEPT !.pc = "draining"]
    /\ shutdown' = TRUE /\ draining' = TRUE
    /\ UNCHANGED <<opts, listener, told, idle, conns, open, stats, supVars>>

\* Mutant: the app is stopped as soon as the drain begins.
SendStopEarly ==
    /\ main.pc = "draining"
    /\ main' = [pc |-> "stopping", left |-> StopGrace]
    /\ stop' = TRUE
    /\ UNCHANGED <<draining, connVars, wrapped, sup, app>>

\* serve() returned: stop_tx.
SendStop ==
    /\ main.pc = "draining" /\ listener.pc = "returned"
    /\ main' = [pc |-> "stopping", left |-> StopGrace]
    /\ stop' = TRUE
    /\ UNCHANGED <<draining, connVars, wrapped, sup, app>>

\* The supervisor has ended, or is given up on; returning drops it, and kills its child with it.
Return ==
    /\ main.pc = "stopping"
    /\ sup.pc = "stopped" \/ main.left = 0
    /\ main' = [main EXCEPT !.pc = "exited"]
    /\ app' = [app EXCEPT !.child = "none", !.slain = app.child = "up"]
    /\ UNCHANGED <<draining, connVars, wrapped, stop, sup>>

MainTask == SendShutdown \/ SendStop \/ Return

Clock ==
    /\ Up /\ PassTime /\ SupTime
    /\ TimerRuns \/ SupTimed \/ main.pc = "stopping"
    /\ main.pc = "stopping" => main.left > 0
    /\ main' = [main EXCEPT !.left = Minus(@)]
    /\ UNCHANGED draining

Accepts == (\E c \in Conns : Accept(c)) \/ AcceptFails

LifeNext ==
    \/ WaitForSignal \/ MainTask
    \/ Listener(AcceptLoop) \/ Listener(Accepts)
    \/ \E c \in Conns : Listener(Client(c)) \/ Listener(Task(c))
    \/ Supervise(SupervisorTask) \/ Supervise(App)
    \/ Clock

\* The runtime schedules its tasks, and time passes.  The select of the accept loop takes a ready
\* branch at random, so accept errors do not keep it from the shutdown for ever.  Nothing is assumed
\* of clients, nor of the app.
LifeFairness ==
    /\ WF_lifeVars(MainTask)
    /\ WF_lifeVars(Listener(AcceptLoop)) /\ SF_lifeVars(Listener(Signalled \/ DelayOver))
    /\ \A c \in Conns : WF_lifeVars(Listener(Task(c)))
    /\ WF_lifeVars(Supervise(SupervisorTask))
    /\ WF_lifeVars(Clock)

LifeSpec == LifeInit /\ [][LifeNext]_lifeVars /\ LifeFairness

----------------------------------------------------------------------------
(* Properties. *)

\* A request that was accepted is answered or given up by its client, unless the drain's timeout ran
\* out on it; and the app it needs is not asked to stop before that.
RequestsFinish ==
    \A c \in Conns : conns[c].owed =>
        /\ conns[c].pc \in {"busy", "last"}
        /\ (~Up \/ app.asked) => listener.late

\* A balancer that polls /ready sees 503 before the listener treats a connection any differently.
NotReadyFirst == (listener.delaying \/ listener.pc \notin {"accept", "pause"}) => draining

\* The exit of the process never kills an app that still runs: it was asked to stop and had its
\* grace period, whatever the app did and wherever its supervisor was.
AppStopsFirst == ~app.slain

\* A client that sends nothing does not hold its slot: the stages before the first request head end.
PatienceEnds ==
    \A c \in Conns : (conns[c].pc \in {"proxy", "hello", "shake", "preface"})
        ~> (~Up \/ conns[c].pc \notin {"proxy", "hello", "shake", "preface"})

\* A signal ends the process, whatever clients and the app do.
ShutdownEnds == draining ~> ~Up

\* The life of the process as its reporters see it: a connection for each request they serve.
Life == INSTANCE Process WITH
    Requests <- Conns,
    phase <- (IF ~Up THEN "exited" ELSE IF main.pc = "serving" THEN "serving" ELSE "draining"),
    unseen <- {c \in Conns : conns[c].pc \in {"away", "rejected"}},
    open <- {c \in Conns : Up /\ conns[c].pc \notin {"away", "rejected", "drop", "wake", "gone"}}

IsProcess == Life!ProcessSpec

\* A shutdown keeps its order: readiness first, then the requests, then the app, then the process;
\* and no app is started or killed out of turn.
ShutdownInOrder == NotReadyFirst /\ RequestsFinish /\ OneApp /\ AppStopsFirst

\* Nobody waits for ever: neither a silent client's slot nor the process after its signal.
WaitsEnd == PatienceEnds /\ ShutdownEnds
=============================================================================
