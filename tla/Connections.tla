---------------------------- MODULE Connections ----------------------------
(***************************************************************************)
(* One listener (src/serve.rs): its accept loop with the connection cap    *)
(* and the drain, and a task per connection that reads a PROXY header,     *)
(* waits for a TLS handshake and serves requests with hyper.               *)
(*                                                                         *)
(* Time is a countdown per timer.  A timer that has run out is handled     *)
(* before time passes: the runtime's timers fire on time.                  *)
(***************************************************************************)
EXTENDS Naturals, FiniteSets

CONSTANTS Conns,          \* the connections of a behaviour
          Settings,       \* ServeOpts: max, tls, pp, head (0 is off), delay, drain
          HandshakeLimit, \* TLS_HANDSHAKE_TIMEOUT
          AcceptPause     \* the pause after an accept error

ASSUME ConnectionsAssumption ==
    /\ Settings \subseteq [max : Nat, tls : BOOLEAN, pp : BOOLEAN, head : Nat, delay : Nat, drain : Nat]
    /\ HandshakeLimit \in Nat \ {0} /\ AcceptPause \in Nat \ {0}
    /\ IsFiniteSet(Conns)

VARIABLES opts,      \* the listener's ServeOpts
          shutdown,  \* the value of its shutdown channel
          listener,  \* the accept loop: pc, its timer, drain_delay as it runs out, and whether it gave up
          told,      \* the value of the drain channel
          idle,      \* the drain's registration with Notify: "none", "registered" or "woken"
          conns,     \* the connections: where the task is, its timer, what is left for the first head,
                     \* whether a head was seen, and whether a request is owed its answer
          open,      \* ListenerStats::open
          stats      \* the other ListenerStats

connVars == <<opts, shutdown, listener, told, idle, conns, open, stats>>

Away == [pc |-> "away", left |-> 0, first |-> 0, age |-> 0, seen |-> FALSE, h2 |-> FALSE, owed |-> FALSE]

ConnInit ==
    /\ opts \in Settings
    /\ shutdown = FALSE /\ told = FALSE /\ idle = "none" /\ open = 0
    /\ listener = [pc |-> "accept", left |-> 0, delaying |-> FALSE, delay |-> 0, late |-> FALSE]
    /\ conns = [c \in Conns |-> Away]
    /\ stats = [rejected |-> 0, noHello |-> 0, handshakes |-> 0, refused |-> 0, uncounted |-> 0]

Limited == opts.head > 0
\* The task of a connection is between the spawn and the drop of its slot.
Live(c) == conns[c].pc \notin {"away", "wake", "gone", "rejected"}

----------------------------------------------------------------------------
(* The accept loop. *)

Loop(pc, left) == listener' = [listener EXCEPT !.pc = pc, !.left = left]

\* The select's first branch: leave at once, or keep accepting for drain_delay.
Signalled ==
    /\ listener.pc = "accept" /\ ~listener.delaying /\ shutdown
    /\ listener' = IF opts.delay = 0 THEN [listener EXCEPT !.pc = "close"]
                                     ELSE [listener EXCEPT !.delaying = TRUE, !.delay = opts.delay]
    /\ UNCHANGED <<opts, shutdown, told, idle, conns, open, stats>>

DelayOver ==
    /\ listener.pc = "accept" /\ listener.delaying /\ listener.delay = 0
    /\ Loop("close", 0)
    /\ UNCHANGED <<opts, shutdown, told, idle, conns, open, stats>>

\* An accept error that is not one connection's: the loop sleeps, deaf to the shutdown and
\* to the end of drain_delay meanwhile.
AcceptFails ==
    /\ listener.pc = "accept"
    /\ Loop("pause", AcceptPause)
    /\ UNCHANGED <<opts, shutdown, told, idle, conns, open, stats>>

PauseOver ==
    /\ listener.pc = "pause" /\ listener.left = 0
    /\ Loop("accept", 0)
    /\ UNCHANGED <<opts, shutdown, told, idle, conns, open, stats>>

\* serve_connection reads the first bytes itself only under a header_read_timeout.
Serving == IF Limited THEN "preface" ELSE "idle"

\* Where the task of a new connection starts, and with which timer.
FirstStage == IF opts.pp THEN "proxy" ELSE IF opts.tls THEN "hello" ELSE Serving

FirstTimer == IF FirstStage = "hello" \/ (FirstStage = "proxy" /\ ~Limited) THEN HandshakeLimit
              ELSE opts.head

Accept(c) ==
    /\ listener.pc = "accept" /\ conns[c].pc = "away"
    /\ IF opts.max # 0 /\ open >= opts.max
       THEN /\ conns' = [conns EXCEPT ![c].pc = "rejected"]
            /\ stats' = [stats EXCEPT !.rejected = @ + 1]
            /\ UNCHANGED open
       ELSE /\ open' = open + 1
            /\ conns' = [conns EXCEPT ![c] = [Away EXCEPT !.pc = FirstStage, !.first = opts.head,
                                                     !.left = FirstTimer]]
            /\ UNCHANGED stats
    /\ UNCHANGED <<opts, shutdown, listener, told, idle>>

\* The listening socket is closed and the tasks are told; then the count is read once.
TellDrain ==
    /\ listener.pc = "close"
    /\ told' = TRUE /\ Loop("count", 0)
    /\ UNCHANGED <<opts, shutdown, idle, conns, open, stats>>

CountOpen ==
    /\ listener.pc = "count"
    /\ IF open = 0 THEN Loop("returned", 0) ELSE Loop("register", opts.drain)
    /\ UNCHANGED <<opts, shutdown, told, idle, conns, open, stats>>

\* Mutant: wait_idle is not registered by the time the count is read.
RegisterLater ==
    /\ listener.pc = "register"
    /\ idle' = "none" /\ Loop("check", listener.left)
    /\ UNCHANGED <<opts, shutdown, told, conns, open, stats>>

\* wait_idle: registered before the count is read, so that a close in between still wakes it.
Register ==
    /\ listener.pc = "register"
    /\ idle' = "registered" /\ Loop("check", listener.left)
    /\ UNCHANGED <<opts, shutdown, told, conns, open, stats>>

CheckIdle ==
    /\ listener.pc = "check"
    /\ IF open = 0 THEN Loop("returned", 0) ELSE Loop("await", listener.left)
    /\ UNCHANGED <<opts, shutdown, told, idle, conns, open, stats>>

Woken ==
    /\ listener.pc = "await" /\ idle = "woken"
    /\ Loop("register", listener.left)
    /\ UNCHANGED <<opts, shutdown, told, idle, conns, open, stats>>

DrainTimeout ==
    /\ listener.pc = "await" /\ listener.left = 0
    /\ listener' = [listener EXCEPT !.pc = "returned", !.late = TRUE]
    /\ UNCHANGED <<opts, shutdown, told, idle, conns, open, stats>>

AcceptLoop ==
    \/ Signalled \/ DelayOver \/ PauseOver \/ TellDrain \/ CountOpen \/ Register \/ CheckIdle
    \/ Woken \/ DrainTimeout

----------------------------------------------------------------------------
(* A connection's task. *)

\* The task returns: its slot is dropped.
Ends(c, s) ==
    /\ conns' = [conns EXCEPT ![c] = [Away EXCEPT !.pc = "drop", !.owed = conns[c].owed]]
    /\ stats' = s

Still == UNCHANGED <<opts, shutdown, listener, told, idle, open>>

\* What a stage hands on: the handshake has its own timer, the first head what is left of
\* header_read_timeout.
Onward(c, pc, first) ==
    conns' = [conns EXCEPT ![c].pc = pc, ![c].first = first,
                           ![c].left = IF pc \in {"hello", "shake"} THEN HandshakeLimit ELSE first]

\* What the PROXY stage used is taken off what the first request head gets.
LeftForHead(c) == IF Limited THEN conns[c].left ELSE 0

\* The PROXY header: accepted (with bytes of the ClientHello behind it, or not), refused, or the
\* connection closed, which is no ClientHello either when nothing at all was read.
ReadProxy(c) ==
    /\ conns[c].pc = "proxy" /\ Still
    /\ \/ /\ \E pc \in (IF opts.tls THEN {"hello", "shake"} ELSE {Serving}) : Onward(c, pc, LeftForHead(c))
          /\ UNCHANGED stats
       \/ Ends(c, [stats EXCEPT !.refused = @ + 1])
       \/ \E nothingRead \in BOOLEAN :
             Ends(c, IF opts.tls /\ nothingRead THEN [stats EXCEPT !.noHello = @ + 1]
                                               ELSE [stats EXCEPT !.uncounted = @ + 1])

\* The first bytes of the ClientHello, or a close before any.
ReadHello(c) ==
    /\ conns[c].pc = "hello" /\ Still
    /\ \/ conns' = [conns EXCEPT ![c].pc = "shake"] /\ UNCHANGED stats
       \/ Ends(c, [stats EXCEPT !.noHello = @ + 1])

Handshake(c) ==
    /\ conns[c].pc = "shake" /\ Still
    /\ \/ Onward(c, Serving, conns[c].first) /\ stats' = [stats EXCEPT !.handshakes = @ + 1]
       \/ Ends(c, [stats EXCEPT !.handshakes = @ + 1])

\* The first bytes of a request settle on HTTP/1 or HTTP/2, or the peer closes.
ReadPreface(c) ==
    /\ conns[c].pc = "preface" /\ Still
    /\ \/ \E h2 \in BOOLEAN : conns' = [conns EXCEPT ![c].pc = "idle", ![c].h2 = h2]
                              /\ UNCHANGED stats
       \/ Ends(c, stats)

\* hyper hands a request over, and takes the end of its response; or the connection closes.
RequestHead(c) ==
    /\ conns[c].pc = "idle" /\ Still
    /\ conns' = [conns EXCEPT ![c] = [Away EXCEPT !.pc = "busy", !.seen = TRUE, !.owed = TRUE]]
    /\ UNCHANGED stats

ResponseEnds(c) ==
    /\ conns[c].pc \in {"busy", "last"} /\ Still
    /\ conns' = [conns EXCEPT ![c].pc = IF @ = "last" THEN "drop" ELSE "idle", ![c].owed = FALSE]
    /\ UNCHANGED stats

PeerCloses(c) ==
    /\ conns[c].pc \in {"idle", "busy", "last"} /\ Still
    /\ conns' = [conns EXCEPT ![c] = [Away EXCEPT !.pc = "drop"]]
    /\ UNCHANGED stats

\* Mutant: the wait for the ClientHello's first byte has no bound.
TimedOnceItSpeaks(c) ==
    \/ conns[c].pc \in {"proxy", "shake", "preface"}
    \/ conns[c].pc = "idle" /\ Limited /\ ~conns[c].seen /\ ~conns[c].h2

\* A timer that bounds the stage, and what its end counts as.
Timed(c) ==
    \/ conns[c].pc \in {"proxy", "hello", "shake", "preface"}
    \/ conns[c].pc = "idle" /\ Limited /\ ~conns[c].seen /\ ~conns[c].h2

TimesOut(c) ==
    /\ Timed(c) /\ conns[c].left = 0 /\ Still
    /\ Ends(c, CASE conns[c].pc = "proxy" -> [stats EXCEPT !.refused = @ + 1]
                 [] conns[c].pc \in {"hello", "shake"} -> [stats EXCEPT !.handshakes = @ + 1]
                 [] OTHER -> stats)

\* The task sees the drain: before the first request it returns; hyper closes an idle connection, and
\* one with a request in flight once that is answered.
Drained(c) ==
    /\ told /\ Still
    /\ \/ /\ conns[c].pc \in {"proxy", "hello", "shake"}
          /\ Ends(c, [stats EXCEPT !.uncounted = @ + 1])
       \/ conns[c].pc \in {"preface", "idle"} /\ Ends(c, stats)
       \/ /\ conns[c].pc = "busy"
          /\ conns' = [conns EXCEPT ![c].pc = "last"]
          /\ UNCHANGED stats

\* ConnSlot::drop: the count goes down, and whoever took it to zero wakes the drain.
DropSlot(c) ==
    /\ conns[c].pc = "drop"
    /\ open' = open - 1
    /\ conns' = [conns EXCEPT ![c].pc = IF open = 1 THEN "wake" ELSE "gone"]
    /\ UNCHANGED <<opts, shutdown, listener, told, idle, stats>>

NotifyIdle(c) ==
    /\ conns[c].pc = "wake"
    /\ idle' = IF idle = "registered" THEN "woken" ELSE idle
    /\ conns' = [conns EXCEPT ![c].pc = "gone"]
    /\ UNCHANGED <<opts, shutdown, listener, told, open, stats>>

Client(c) ==
    \/ ReadProxy(c) \/ ReadHello(c) \/ Handshake(c) \/ ReadPreface(c) \/ RequestHead(c)
    \/ ResponseEnds(c) \/ PeerCloses(c)
Task(c) == TimesOut(c) \/ Drained(c) \/ DropSlot(c) \/ NotifyIdle(c)

----------------------------------------------------------------------------
(* Time. *)

Sleeping == listener.pc \in {"pause", "register", "check", "await"}

\* Nothing that is due waits.  A loop that is in its pause does not see drain_delay end.
NothingDue ==
    /\ \A c \in Conns : Timed(c) => conns[c].left > 0
    /\ Sleeping => listener.left > 0
    /\ (listener.pc = "accept" /\ listener.delaying) => listener.delay > 0

TimerRuns == (\E c \in Conns : Timed(c)) \/ Sleeping \/ listener.delaying

\* Time spent on the PROXY header and the first head counts towards one header_read_timeout.
OnHead(c) == Limited /\ ~conns[c].seen /\ ~conns[c].h2 /\ conns[c].pc \in {"proxy", "preface", "idle"}

Minus(n) == IF n = 0 THEN 0 ELSE n - 1

PassTime ==
    /\ NothingDue
    /\ conns' = [c \in Conns |-> [conns[c] EXCEPT !.left = IF Timed(c) THEN @ - 1 ELSE @,
                                                  !.age = IF OnHead(c) THEN @ + 1 ELSE @]]
    /\ listener' = [listener EXCEPT !.left = Minus(@), !.delay = Minus(@)]
    /\ UNCHANGED <<opts, shutdown, told, idle, open, stats>>

----------------------------------------------------------------------------
(* Properties. *)

\* A slot is held by exactly the connections whose task runs, so the cap bounds them, and what a task
\* held comes back however it ended.
SlotPerConnection ==
    /\ open = Cardinality({c \in Conns : Live(c)})
    /\ opts.max # 0 => open <= opts.max

\* A client that drips a PROXY header and then its first request head is closed after one
\* header_read_timeout, not two; the handshake in between is not counted.
OneTimeoutForFirstHead == \A c \in Conns : Limited => conns[c].age <= opts.head

\* A drain that waits for the last connection is woken by it: it never sleeps on when the count is
\* zero and nobody is left to wake it.
DrainIsWoken ==
    (listener.pc = "await" /\ open = 0) => idle = "woken" \/ \E c \in Conns : conns[c].pc = "wake"

\* A connection to a TLS listener is counted once: as a handshake that ended, as one without a
\* ClientHello, or as refused with its PROXY header; but for the ones the drain cut short and those
\* that broke off inside the PROXY header.
HandshakesAccounted ==
    opts.tls =>
        Cardinality({c \in Conns : conns[c].pc \notin {"away", "rejected", "proxy", "hello", "shake"}})
            = stats.handshakes + stats.noHello + stats.refused + stats.uncounted

\* The accept loop's accounts are right at every moment: slots, the time given to a first head, the
\* drain's wait for the last connection, and what became of each handshake.
ConnectionsAccounted == SlotPerConnection /\ OneTimeoutForFirstHead /\ DrainIsWoken /\ HandshakesAccounted
=============================================================================
