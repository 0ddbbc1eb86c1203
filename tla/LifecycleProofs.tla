-------------------------- MODULE LifecycleProofs --------------------------
(***************************************************************************)
(* Proofs about Connections, Supervisor and Lifecycle: the accounts of a   *)
(* listener, the order of a shutdown, and that the whole implements the    *)
(* life its reporters rely on (Process), for any connections, listener     *)
(* settings and time limits that satisfy the assumptions.  And about       *)
(* Startup: that a start is what `doctor` said it would be, for any        *)
(* configurations and any ports in use.                                    *)
(***************************************************************************)
EXTENDS Lifecycle, Startup, FiniteSetTheorems, SequenceTheorems, WellFoundedInduction, TLAPS

----------------------------------------------------------------------------
(* The inductive invariant. *)

Early == {"away", "rejected", "proxy", "hello", "shake"}
Held == {"proxy", "hello", "shake", "preface", "idle", "busy", "last", "drop"}
ConnPcs == Early \cup Held \cup {"wake", "gone"}
ConnType == [pc : ConnPcs, left : Nat, first : Nat, age : Nat, seen : BOOLEAN, h2 : BOOLEAN,
             owed : BOOLEAN]
StatsType == [rejected : Nat, noHello : Nat, handshakes : Nat, refused : Nat, uncounted : Nat]
OptsType == [max : Nat, tls : BOOLEAN, pp : BOOLEAN, head : Nat, delay : Nat, drain : Nat]
LoopPcs == {"accept", "pause", "close", "count", "register", "check", "await", "returned"}
LoopType == [pc : LoopPcs, left : Nat, delaying : BOOLEAN, delay : Nat, late : BOOLEAN]

\* What the listener's variables hold.
ConnTypeOK ==
    /\ opts \in OptsType /\ shutdown \in BOOLEAN /\ told \in BOOLEAN
    /\ idle \in {"none", "registered", "woken"}
    /\ listener \in LoopType
    /\ conns \in [Conns -> ConnType]
    /\ open \in Nat /\ stats \in StatsType

SupPcs == {"start", "watch", "backoff", "term", "stopped"}
SupType == [pc : SupPcs, left : Nat, backoff : Nat]
AppType == [child : {"none", "up", "exited"}, forked : BOOLEAN, asked : BOOLEAN,
            orphans : BOOLEAN, slain : BOOLEAN]

\* What the supervisor's and the process's variables hold.
LifeTypeOK ==
    /\ wrapped \in BOOLEAN /\ stop \in BOOLEAN /\ draining \in BOOLEAN
    /\ sup \in SupType /\ app \in AppType
    /\ main \in [pc : {"serving", "signalled", "draining", "stopping", "exited"}, left : Nat]

\* What is left of header_read_timeout and what was spent of it add up, stage by stage: while the
\* timer runs it holds the rest, and during a handshake the rest is set aside.
HeadOk(k) ==
    /\ k.pc \in {"proxy", "hello", "shake", "preface"} => ~k.seen /\ ~k.h2
    /\ k.pc \in {"busy", "last"} => k.seen
    /\ Limited =>
          /\ k.age <= opts.head
          /\ k.pc \in {"hello", "shake"} => k.first + k.age = opts.head
          /\ (k.pc \in {"proxy", "preface"} \/ (k.pc = "idle" /\ ~k.seen /\ ~k.h2))
                => k.left + k.age = opts.head

OwedOk(k) == k.owed => k.pc \in {"busy", "last"}

Holding == {c \in Conns : conns[c].pc \in Held}
Through == {c \in Conns : conns[c].pc \notin Early}
Ended(s) == s.handshakes + s.noHello + s.refused + s.uncounted

\* The listener's accounts, as an induction needs them.
ConnInv ==
    /\ ConnTypeOK
    /\ \A c \in Conns : HeadOk(conns[c]) /\ OwedOk(conns[c])
    /\ open = Cardinality(Holding)
    /\ opts.max # 0 => open <= opts.max
    /\ opts.tls => Cardinality(Through) = Ended(stats)

\* The drain waits only while it is registered, and returns in time only with nothing open.
DrainInv ==
    /\ listener.pc \in {"check", "await"} => idle \in {"registered", "woken"}
    /\ DrainIsWoken
    /\ (listener.pc = "returned" /\ ~listener.late) => open = 0

\* Who may have been told of the shutdown, and when.
OrderInv ==
    /\ (listener.delaying \/ listener.pc \notin {"accept", "pause"}) => shutdown
    /\ shutdown => draining
    /\ main.pc \in {"stopping", "exited"} => listener.pc = "returned"
    /\ stop => main.pc \in {"stopping", "exited"}
    /\ app.asked => stop

\* A stopping process waits longer than its supervisor, which handles the stop before time passes.
AppInv ==
    /\ OneApp /\ AppStopsFirst
    /\ main.pc \in {"stopping", "exited"} => stop
    /\ sup.pc \in {"start", "backoff"} => ~app.forked
    /\ sup.pc \in {"start", "backoff", "stopped"} => app.child = "none"
    /\ (sup.pc = "term") => stop
    /\ (main.pc = "stopping" /\ sup.pc = "term") => main.left > sup.left
    /\ (main.pc = "stopping" /\ sup.pc \notin {"term", "stopped"}) => main.left = StopGrace

LifeInv == ConnInv /\ DrainInv /\ LifeTypeOK /\ OrderInv /\ AppInv

----------------------------------------------------------------------------
(* Counting connections. *)

\* The connections are finitely many, so both counts are numbers.
LEMMA Counts ==
    /\ IsFiniteSet(Holding) /\ Cardinality(Holding) \in Nat
    /\ IsFiniteSet(Through) /\ Cardinality(Through) \in Nat
  BY ConnectionsAssumption, FS_Subset, FS_CardinalityType DEF Holding, Through

\* A connection that gets a new record leaves the others where they were.
LEMMA OneMoves ==
    ASSUME ConnTypeOK, NEW c \in Conns, NEW n \in ConnType, conns' = [conns EXCEPT ![c] = n]
    PROVE  /\ conns' \in [Conns -> ConnType] /\ conns'[c] = n
           /\ \A d \in Conns \ {c} : conns'[d] = conns[d]
           /\ Holding' = IF n.pc \in Held THEN Holding \cup {c} ELSE Holding \ {c}
           /\ Through' = IF n.pc \in Early THEN Through \ {c} ELSE Through \cup {c}
<1>1. conns \in [Conns -> ConnType]
  BY DEF ConnTypeOK
<1>2. /\ conns' \in [Conns -> ConnType] /\ conns'[c] = n
      /\ \A d \in Conns \ {c} : conns'[d] = conns[d]
  BY <1>1
<1>3. Holding' = IF n.pc \in Held THEN Holding \cup {c} ELSE Holding \ {c}
  BY <1>2 DEF Holding
<1>4. Through' = IF n.pc \in Early THEN Through \ {c} ELSE Through \cup {c}
  BY <1>2 DEF Through
<1> QED
  BY <1>2, <1>3, <1>4

\* The other connections stay as they should be.
LEMMA OkKept ==
    ASSUME ConnInv, NEW c \in Conns, NEW n \in ConnType, conns' = [conns EXCEPT ![c] = n],
           HeadOk(n), OwedOk(n), opts' = opts
    PROVE  (\A d \in Conns : HeadOk(conns[d]) /\ OwedOk(conns[d]))'
<1>1. \A d \in Conns : conns'[d] = IF d = c THEN n ELSE conns[d]
  BY DEF ConnInv, ConnTypeOK
<1>2. \A d \in Conns : HeadOk(conns'[d]) /\ OwedOk(conns'[d])
  BY <1>1 DEF ConnInv
<1> QED
  BY <1>2 DEF HeadOk, OwedOk, Limited

\* The task of a connection that holds its slot goes on, or is about to drop the slot.  A connection
\* that gets past its handshake, or gives up on it, is counted; nothing else is.
Moves(c, n) ==
    /\ conns' = [conns EXCEPT ![c] = n] /\ Still
    /\ n \in ConnType /\ stats' \in StatsType
    /\ conns[c].pc \in Held /\ n.pc \in Held
    /\ HeadOk(n) /\ OwedOk(n)
    /\ opts.tls => Ended(stats') = Ended(stats)
                       + (IF conns[c].pc \in Early /\ n.pc \notin Early THEN 1 ELSE 0)
    /\ (conns[c].pc \notin Early) => (n.pc \notin Early)
    /\ (conns[c].pc = "drop") => (n.pc = "drop")

\* What a task leaves when it returns.
LEMMA EndsType ==
    ASSUME ConnTypeOK, NEW c \in Conns
    PROVE  [Away EXCEPT !.pc = "drop", !.owed = conns[c].owed] \in ConnType
  BY DEF ConnTypeOK, ConnType, Away, ConnPcs, Held

\* Every step of a client, and of a task before it drops its slot, is such a move.
LEMMA TaskMoves ==
    ASSUME ConnInv, NEW c \in Conns, Client(c) \/ TimesOut(c) \/ Drained(c)
    PROVE  \E n \in ConnType : Moves(c, n)
<1> DEFINE k == conns[c]
           ended == [Away EXCEPT !.pc = "drop", !.owed = k.owed]
<1>1. k \in ConnType /\ HeadOk(k) /\ OwedOk(k) /\ stats \in StatsType /\ opts \in OptsType
  BY DEF ConnInv, ConnTypeOK
<1>2. ended \in ConnType /\ ended.pc = "drop" /\ ended.owed = k.owed /\ ended.age = 0
  BY EndsType DEF Away, ConnInv
<1>3. ASSUME NEW s \in StatsType, Ends(c, s), Still, k.pc \in Held, ~k.owed,
             opts.tls => Ended(s) = Ended(stats) + (IF k.pc \in Early THEN 1 ELSE 0)
      PROVE  Moves(c, ended)
  <2>1. HeadOk(ended) /\ OwedOk(ended)
    BY <1>1, <1>2, <1>3 DEF HeadOk, OwedOk, OptsType
  <2>2. ended.pc \in Held /\ ended.pc \notin Early
    BY <1>2 DEF Held, Early
  <2> QED
    BY <1>2, <1>3, <2>1, <2>2 DEF Moves, Ends
<1>0. ASSUME NEW n \in ConnType, conns' = [conns EXCEPT ![c] = n], Still, UNCHANGED stats,
             k.pc \in Held, n.pc \in Held, k.pc # "drop", HeadOk(n), OwedOk(n),
             opts.tls => (k.pc \in Early <=> n.pc \in Early), n.pc \in Early => k.pc \in Early
      PROVE  Moves(c, n)
  <2>1. Ended(stats') = Ended(stats) /\ Ended(stats) + 0 = Ended(stats)
    BY <1>0, <1>1 DEF Ended, StatsType
  <2> QED
    BY <1>0, <1>1, <2>1 DEF Moves
<1> HIDE DEF k, ended
<1>4. CASE ReadProxy(c)
  <2>1. k.pc = "proxy" /\ Still /\ ~k.owed /\ k.pc \in Held /\ k.pc \in Early
    BY <1>1, <1>4 DEF ReadProxy, k, OwedOk, Held, Early
  <2>2. ASSUME NEW pc \in (IF opts.tls THEN {"hello", "shake"} ELSE {Serving}),
               Onward(c, pc, LeftForHead(c)), UNCHANGED stats
        PROVE  \E n \in ConnType : Moves(c, n)
    <3> DEFINE left == IF pc \in {"hello", "shake"} THEN HandshakeLimit ELSE LeftForHead(c)
               n == [k EXCEPT !.pc = pc, !.first = LeftForHead(c), !.left = left]
    <3>1. LeftForHead(c) = (IF Limited THEN k.left ELSE 0) /\ LeftForHead(c) \in Nat
      BY <1>1 DEF LeftForHead, k, ConnType
    <3>2. pc \in {"hello", "shake", "preface", "idle"} /\ pc \in Held /\ pc \in ConnPcs
      BY <2>2 DEF Serving, Held, ConnPcs
    <3>3. n \in ConnType
      BY <1>1, <3>1, <3>2, ConnectionsAssumption DEF ConnType
    <3>4. conns' = [conns EXCEPT ![c] = n]
      BY <2>2 DEF Onward, k, ConnInv, ConnTypeOK
    <3>5. HeadOk(n) /\ OwedOk(n)
      BY <1>1, <2>1, <2>2, <3>1, <3>2 DEF HeadOk, OwedOk, ConnType, OptsType, Serving
    <3>6. n.pc = pc /\ (opts.tls => pc \in Early)
      BY <1>1, <2>2, <3>3 DEF Early, ConnType
    <3> QED
      BY <1>0, <2>1, <2>2, <3>2, <3>3, <3>4, <3>5, <3>6
  <2>3. ASSUME Ends(c, [stats EXCEPT !.refused = @ + 1])
        PROVE  \E n \in ConnType : Moves(c, n)
    BY <1>1, <1>2, <1>3, <2>1, <2>3 DEF StatsType, Ended
  <2>4. ASSUME NEW nothingRead \in BOOLEAN,
               Ends(c, IF opts.tls /\ nothingRead THEN [stats EXCEPT !.noHello = @ + 1]
                                                  ELSE [stats EXCEPT !.uncounted = @ + 1])
        PROVE  \E n \in ConnType : Moves(c, n)
    BY <1>1, <1>2, <1>3, <2>1, <2>4 DEF StatsType, Ended
  <2> QED
    BY <1>4, <2>2, <2>3, <2>4 DEF ReadProxy
<1>5. CASE ReadHello(c)
  <2>1. k.pc = "hello" /\ Still /\ ~k.owed /\ k.pc \in Held /\ k.pc \in Early
    BY <1>1, <1>5 DEF ReadHello, k, OwedOk, Held, Early
  <2>2. ASSUME conns' = [conns EXCEPT ![c].pc = "shake"], UNCHANGED stats
        PROVE  \E n \in ConnType : Moves(c, n)
    <3> DEFINE n == [k EXCEPT !.pc = "shake"]
    <3>1. n \in ConnType /\ HeadOk(n) /\ OwedOk(n)
      BY <1>1, <2>1 DEF ConnType, ConnPcs, Early, HeadOk, OwedOk
    <3>2. conns' = [conns EXCEPT ![c] = n]
      BY <2>2 DEF k, ConnInv, ConnTypeOK
    <3> QED
      BY <1>0, <2>1, <2>2, <3>1, <3>2 DEF Held, Early, ConnType
  <2>3. ASSUME Ends(c, [stats EXCEPT !.noHello = @ + 1])
        PROVE  \E n \in ConnType : Moves(c, n)
    BY <1>1, <1>2, <1>3, <2>1, <2>3 DEF StatsType, Ended
  <2> QED
    BY <1>5, <2>2, <2>3 DEF ReadHello
<1>6. CASE Handshake(c)
  <2>1. k.pc = "shake" /\ Still /\ ~k.owed /\ k.pc \in Held /\ k.pc \in Early
    BY <1>1, <1>6 DEF Handshake, k, OwedOk, Held, Early
  <2>2. ASSUME Onward(c, Serving, conns[c].first), stats' = [stats EXCEPT !.handshakes = @ + 1]
        PROVE  \E n \in ConnType : Moves(c, n)
    <3> DEFINE n == [k EXCEPT !.pc = Serving, !.first = k.first, !.left = k.first]
    <3>1. Serving \in {"preface", "idle"} /\ (Limited => Serving = "preface")
      BY DEF Serving
    <3>2. n \in ConnType /\ HeadOk(n) /\ OwedOk(n)
      BY <1>1, <2>1, <3>1 DEF ConnType, ConnPcs, Held, HeadOk, OwedOk
    <3>3. conns' = [conns EXCEPT ![c] = n]
      BY <2>2, <3>1 DEF Onward, k, ConnInv, ConnTypeOK
    <3>4. stats' \in StatsType /\ Ended(stats') = Ended(stats) + 1
      BY <1>1, <2>2 DEF StatsType, Ended
    <3> QED
      <4>1. n.pc = Serving /\ n.pc \in Held /\ n.pc \notin Early
        BY <1>1, <3>1 DEF ConnType, Held, Early
      <4> QED
        BY <2>1, <3>2, <3>3, <3>4, <4>1 DEF Moves, k
  <2>3. ASSUME Ends(c, [stats EXCEPT !.handshakes = @ + 1])
        PROVE  \E n \in ConnType : Moves(c, n)
    BY <1>1, <1>2, <1>3, <2>1, <2>3 DEF StatsType, Ended
  <2> QED
    BY <1>6, <2>2, <2>3 DEF Handshake
<1>7. CASE ReadPreface(c)
  <2>1. k.pc = "preface" /\ Still /\ ~k.owed /\ k.pc \in Held /\ k.pc \notin Early
    BY <1>1, <1>7 DEF ReadPreface, k, OwedOk, Held, Early
  <2>2. ASSUME NEW h2 \in BOOLEAN, conns' = [conns EXCEPT ![c].pc = "idle", ![c].h2 = h2], UNCHANGED stats
        PROVE  \E n \in ConnType : Moves(c, n)
    <3> DEFINE n == [k EXCEPT !.pc = "idle", !.h2 = h2]
    <3>1. n \in ConnType /\ HeadOk(n) /\ OwedOk(n)
      BY <1>1, <2>1 DEF ConnType, ConnPcs, Held, HeadOk, OwedOk
    <3>2. conns' = [conns EXCEPT ![c] = n]
      BY <2>2 DEF k, ConnInv, ConnTypeOK
    <3> QED
      BY <1>0, <2>1, <2>2, <3>1, <3>2 DEF Held, Early, ConnType
  <2>3. ASSUME Ends(c, stats)
        PROVE  \E n \in ConnType : Moves(c, n)
    BY <1>1, <1>2, <1>3, <2>1, <2>3 DEF StatsType, Ended
  <2> QED
    BY <1>7, <2>2, <2>3 DEF ReadPreface
<1>8. CASE RequestHead(c)
  <2> DEFINE n == [Away EXCEPT !.pc = "busy", !.seen = TRUE, !.owed = TRUE]
  <2>1. n.pc = "busy" /\ n.age = 0 /\ n.seen
    BY DEF Away
  <2>2. n \in ConnType
    BY DEF Away, ConnType, ConnPcs, Held
  <2> HIDE DEF n
  <2>3. HeadOk(n) /\ OwedOk(n)
    BY <1>1, <2>1 DEF HeadOk, OwedOk, OptsType
  <2>4. k.pc = "idle" /\ n.pc = "busy" /\ Still /\ UNCHANGED stats /\ conns' = [conns EXCEPT ![c] = n]
    BY <1>8, <2>1 DEF RequestHead, k, n
  <2> QED
    BY <1>0, <2>2, <2>3, <2>4 DEF Held, Early
<1>9. CASE ResponseEnds(c)
  <2> DEFINE pc == IF k.pc = "last" THEN "drop" ELSE "idle"
             n == [k EXCEPT !.pc = pc, !.owed = FALSE]
  <2>1. n \in ConnType /\ OwedOk(n) /\ n.pc \in {"drop", "idle"} /\ k.pc \in {"busy", "last"}
    BY <1>1, <1>9 DEF ResponseEnds, k, ConnType, ConnPcs, Held, OwedOk
  <2>2. HeadOk(n)
    BY <1>1, <2>1 DEF HeadOk, ConnType
  <2>3. conns' = [conns EXCEPT ![c] = n]
    BY <1>9 DEF ResponseEnds, k, ConnInv, ConnTypeOK
  <2> QED
    BY <1>0, <1>9, <2>1, <2>2, <2>3 DEF ResponseEnds, Held, Early
<1>10. CASE PeerCloses(c)
  <2> DEFINE n == [Away EXCEPT !.pc = "drop"]
  <2>1. n.pc = "drop" /\ n.age = 0 /\ ~n.owed
    BY DEF Away
  <2>2. n \in ConnType
    BY DEF Away, ConnType, ConnPcs, Held
  <2> HIDE DEF n
  <2>3. HeadOk(n) /\ OwedOk(n)
    BY <1>1, <2>1 DEF HeadOk, OwedOk, OptsType
  <2>4. k.pc \in {"idle", "busy", "last"} /\ Still /\ UNCHANGED stats /\ conns' = [conns EXCEPT ![c] = n]
    BY <1>10 DEF PeerCloses, k, n
  <2> QED
    BY <1>0, <2>1, <2>2, <2>3, <2>4 DEF Held, Early
<1>11. CASE TimesOut(c)
  <2> DEFINE s == CASE k.pc = "proxy" -> [stats EXCEPT !.refused = @ + 1]
                    [] k.pc \in {"hello", "shake"} -> [stats EXCEPT !.handshakes = @ + 1]
                    [] OTHER -> stats
  <2>1. k.pc \in {"proxy", "hello", "shake", "preface", "idle"} /\ Still /\ Ends(c, s)
    BY <1>11 DEF TimesOut, Timed, k
  <2>2. s \in StatsType /\ Ended(s) = Ended(stats) + (IF k.pc \in Early THEN 1 ELSE 0)
    BY <1>1, <2>1 DEF StatsType, Ended, Early
  <2> HIDE DEF s
  <2> QED
    BY <1>1, <1>2, <1>3, <2>1, <2>2 DEF OwedOk, Held
<1>12. CASE Drained(c)
  <2>1. CASE k.pc \in {"proxy", "hello", "shake"} /\ Ends(c, [stats EXCEPT !.uncounted = @ + 1])
    BY <1>1, <1>2, <1>3, <1>12, <2>1 DEF Drained, StatsType, Ended, OwedOk, Held, Early
  <2>2. CASE k.pc \in {"preface", "idle"} /\ Ends(c, stats)
    BY <1>1, <1>2, <1>3, <1>12, <2>2 DEF Drained, StatsType, Ended, OwedOk, Held, Early
  <2>3. CASE k.pc = "busy" /\ conns' = [conns EXCEPT ![c].pc = "last"] /\ UNCHANGED stats
    <3> DEFINE n == [k EXCEPT !.pc = "last"]
    <3>1. n \in ConnType /\ HeadOk(n) /\ OwedOk(n)
      BY <1>1, <2>3 DEF ConnType, ConnPcs, Held, HeadOk, OwedOk
    <3>2. conns' = [conns EXCEPT ![c] = n]
      BY <2>3 DEF k, ConnInv, ConnTypeOK
    <3> QED
      BY <1>0, <1>12, <2>3, <3>1, <3>2 DEF Drained, Held, Early, ConnType
  <2> QED
    BY <1>12, <2>1, <2>2, <2>3 DEF Drained, k
<1> QED
  BY <1>4, <1>5, <1>6, <1>7, <1>8, <1>9, <1>10, <1>11, <1>12 DEF Client

----------------------------------------------------------------------------
(* The listener's accounts. *)

\* The process starts with no connection and nothing counted.
LEMMA ConnInvInit == LifeInit => ConnInv
<1> SUFFICES ASSUME LifeInit PROVE ConnInv
  OBVIOUS
<1>1. Away \in ConnType /\ Away.pc = "away" /\ Away.age = 0 /\ ~Away.owed
  BY DEF Away, ConnType, ConnPcs, Early
<1>2. opts \in OptsType
  BY ConnectionsAssumption DEF LifeInit, ConnInit, OptsType
<1>3. /\ shutdown \in BOOLEAN /\ told \in BOOLEAN
      /\ idle \in {"none", "registered", "woken"} /\ open \in Nat
  BY DEF LifeInit, ConnInit
<1>4. listener \in LoopType
  BY DEF LifeInit, ConnInit, LoopType, LoopPcs
<1>5. conns \in [Conns -> ConnType] /\ \A c \in Conns : conns[c] = Away
  BY <1>1 DEF LifeInit, ConnInit
<1>6. stats \in StatsType /\ Ended(stats) = 0
  BY DEF LifeInit, ConnInit, StatsType, Ended
<1>7. Holding = {} /\ Through = {}
  BY <1>1, <1>5 DEF Holding, Through, Held, Early
<1>8. Cardinality(Holding) = 0 /\ Cardinality(Through) = 0
  BY <1>7, FS_EmptySet
<1>9. HeadOk(Away) /\ OwedOk(Away)
  BY <1>1, <1>2 DEF HeadOk, OwedOk, OptsType
<1>10. open = 0
  BY DEF LifeInit, ConnInit
<1>11. open <= opts.max
  BY <1>2, <1>10 DEF OptsType
<1> QED
  BY <1>2, <1>3, <1>4, <1>5, <1>6, <1>8, <1>9, <1>10, <1>11 DEF ConnInv, ConnTypeOK

\* A step that leaves the connections, the counts and the settings alone keeps the accounts.
LEMMA ConnInvAside ==
    ASSUME ConnInv, UNCHANGED <<opts, conns, open, stats>>,
           shutdown' \in BOOLEAN, told' \in BOOLEAN,
           idle' \in {"none", "registered", "woken"}, listener' \in LoopType
    PROVE  ConnInv'
  BY DEF ConnInv, ConnTypeOK, HeadOk, OwedOk, Limited, Holding, Through, Ended

\* The accept loop keeps its types, and leaves the connections and their counts alone.
LEMMA LoopTypes ==
    ASSUME ConnTypeOK, AcceptLoop \/ AcceptFails
    PROVE  /\ UNCHANGED <<opts, shutdown, conns, open, stats>> /\ listener' \in LoopType
           /\ told' \in BOOLEAN /\ idle' \in {"none", "registered", "woken"}
<1>1. listener \in LoopType /\ opts \in OptsType /\ told \in BOOLEAN
      /\ idle \in {"none", "registered", "woken"}
  BY DEF ConnTypeOK
<1>2. ASSUME NEW pc \in LoopPcs, NEW left \in Nat, Loop(pc, left)
      PROVE  listener' \in LoopType
  BY <1>1, <1>2 DEF Loop, LoopType
<1>3. listener.left \in Nat /\ opts.drain \in Nat /\ opts.delay \in Nat /\ 0 \in Nat /\ AcceptPause \in Nat
  BY <1>1, ConnectionsAssumption DEF LoopType, OptsType
<1>4. LoopPcs = {"accept", "pause", "close", "count", "register", "check", "await", "returned"}
  BY DEF LoopPcs
<1>5. CASE Signalled
  BY <1>1, <1>3, <1>4, <1>5 DEF Signalled, LoopType
<1>6. CASE DelayOver
  BY <1>1, <1>2, <1>3, <1>4, <1>6 DEF DelayOver
<1>7. CASE PauseOver
  BY <1>1, <1>2, <1>3, <1>4, <1>7 DEF PauseOver
<1>8. CASE TellDrain
  BY <1>1, <1>2, <1>3, <1>4, <1>8 DEF TellDrain
<1>9. CASE CountOpen
  BY <1>1, <1>2, <1>3, <1>4, <1>9 DEF CountOpen
<1>10. CASE Register
  BY <1>1, <1>2, <1>3, <1>4, <1>10 DEF Register
<1>11. CASE CheckIdle
  BY <1>1, <1>2, <1>3, <1>4, <1>11 DEF CheckIdle
<1>12. CASE Woken
  BY <1>1, <1>2, <1>3, <1>4, <1>12 DEF Woken
<1>13. CASE DrainTimeout
  BY <1>1, <1>4, <1>13 DEF DrainTimeout, LoopType
<1>14. CASE AcceptFails
  BY <1>1, <1>2, <1>3, <1>4, <1>14 DEF AcceptFails
<1> QED
  BY <1>5, <1>6, <1>7, <1>8, <1>9, <1>10, <1>11, <1>12, <1>13, <1>14 DEF AcceptLoop

\* A task's move keeps its slot, and counts a handshake that came to its end.
LEMMA ConnInvMoves ==
    ASSUME ConnInv, NEW c \in Conns, NEW n \in ConnType, Moves(c, n)
    PROVE  ConnInv'
<1>1. ConnTypeOK /\ conns' = [conns EXCEPT ![c] = n] /\ Still
  BY DEF ConnInv, Moves
<1>2. /\ conns' \in [Conns -> ConnType] /\ conns'[c] = n
      /\ \A d \in Conns \ {c} : conns'[d] = conns[d]
      /\ Holding' = IF n.pc \in Held THEN Holding \cup {c} ELSE Holding \ {c}
      /\ Through' = IF n.pc \in Early THEN Through \ {c} ELSE Through \cup {c}
  BY <1>1, OneMoves
<1>3. ConnTypeOK'
  BY <1>1, <1>2 DEF ConnTypeOK, Moves, Still
<1>4. Holding' = Holding
  BY <1>2 DEF Moves, Holding
<1>5. opts' = opts /\ open' = open
  BY <1>1 DEF Still
<1>6. (\A d \in Conns : HeadOk(conns[d]) /\ OwedOk(conns[d]))'
  BY <1>1, <1>5, OkKept DEF Moves
<1>7. ASSUME opts.tls PROVE Cardinality(Through') = Ended(stats')
  <2>1. Cardinality(Through) = Ended(stats)
    BY <1>7 DEF ConnInv
  <2>2. CASE conns[c].pc \in Early /\ n.pc \notin Early
    <3>1. Through' = Through \cup {c} /\ c \notin Through
      BY <1>2, <2>2 DEF Through
    <3> QED
      BY <1>7, <2>1, <2>2, <3>1, Counts, FS_AddElement DEF Moves
  <2>3. CASE ~(conns[c].pc \in Early /\ n.pc \notin Early)
    <3>1. Through' = Through
      BY <1>2, <2>3 DEF Through, Moves
    <3> QED
      BY <1>7, <2>1, <2>3, <3>1, Counts DEF Moves
  <2> QED
    BY <2>2, <2>3
<1>8. open' = Cardinality(Holding')
  BY <1>4, <1>5 DEF ConnInv
<1> QED
  BY <1>3, <1>5, <1>6, <1>7, <1>8 DEF ConnInv

\* ConnSlot::drop gives back exactly one slot.
LEMMA ConnInvDrop ==
    ASSUME ConnInv, NEW c \in Conns, DropSlot(c)
    PROVE  ConnInv' /\ open' = open - 1 /\ open > 0
<1> DEFINE pc == IF open = 1 THEN "wake" ELSE "gone"
           n == [conns[c] EXCEPT !.pc = pc]
<1>1. ConnTypeOK /\ conns[c] \in ConnType /\ conns[c].pc = "drop"
  BY DEF ConnInv, ConnTypeOK, DropSlot
<1>2. n \in ConnType /\ n.pc = pc /\ n.pc \in {"wake", "gone"} /\ n.age = conns[c].age /\ n.owed = conns[c].owed
  BY <1>1 DEF ConnType, ConnPcs
<1>3. conns' = [conns EXCEPT ![c] = n]
  BY <1>1 DEF DropSlot, ConnTypeOK
<1> HIDE DEF n
<1>4. /\ conns' \in [Conns -> ConnType] /\ conns'[c] = n
      /\ \A d \in Conns \ {c} : conns'[d] = conns[d]
      /\ Holding' = IF n.pc \in Held THEN Holding \cup {c} ELSE Holding \ {c}
      /\ Through' = IF n.pc \in Early THEN Through \ {c} ELSE Through \cup {c}
  BY <1>1, <1>2, <1>3, OneMoves
<1>5. Holding' = Holding \ {c} /\ c \in Holding /\ Through' = Through
  BY <1>1, <1>2, <1>4 DEF Holding, Through, Held, Early
<1>6. Cardinality(Holding') = Cardinality(Holding) - 1
  BY <1>5, Counts, FS_RemoveElement
<1>7. Cardinality(Holding) > 0
  BY <1>5, Counts, FS_EmptySet
<1>8. open = Cardinality(Holding) /\ open' = open - 1 /\ open \in Nat
      /\ UNCHANGED <<opts, shutdown, listener, told, idle, stats>>
  BY <1>1 DEF ConnInv, DropSlot, ConnTypeOK
<1>9. ConnTypeOK'
  BY <1>1, <1>4, <1>7, <1>8 DEF ConnTypeOK
<1>10. HeadOk(n) /\ OwedOk(n)
  BY <1>1, <1>2 DEF ConnInv, HeadOk, OwedOk
<1>11. (\A d \in Conns : HeadOk(conns[d]) /\ OwedOk(conns[d]))'
  BY <1>2, <1>3, <1>8, <1>10, OkKept
<1>12. opts.max # 0 => open' <= opts.max
  BY <1>1, <1>8 DEF ConnInv, ConnTypeOK, OptsType
<1> QED
  BY <1>5, <1>6, <1>7, <1>8, <1>9, <1>11, <1>12 DEF ConnInv

\* The wake-up of the drain changes no count.
LEMMA ConnInvNotify ==
    ASSUME ConnInv, NEW c \in Conns, NotifyIdle(c)
    PROVE  ConnInv'
<1> DEFINE n == [conns[c] EXCEPT !.pc = "gone"]
<1>1. ConnTypeOK /\ conns[c] \in ConnType /\ conns[c].pc = "wake"
  BY DEF ConnInv, ConnTypeOK, NotifyIdle
<1>2. n \in ConnType /\ n.pc = "gone" /\ n.age = conns[c].age /\ n.owed = conns[c].owed
  BY <1>1 DEF ConnType, ConnPcs
<1>3. conns' = [conns EXCEPT ![c] = n]
  BY <1>1 DEF NotifyIdle, ConnTypeOK
<1> HIDE DEF n
<1>4. /\ conns' \in [Conns -> ConnType] /\ conns'[c] = n
      /\ \A d \in Conns \ {c} : conns'[d] = conns[d]
      /\ Holding' = IF n.pc \in Held THEN Holding \cup {c} ELSE Holding \ {c}
      /\ Through' = IF n.pc \in Early THEN Through \ {c} ELSE Through \cup {c}
  BY <1>1, <1>2, <1>3, OneMoves
<1>5. Holding' = Holding /\ Through' = Through
  BY <1>1, <1>2, <1>4 DEF Holding, Through, Held, Early
<1>6. UNCHANGED <<opts, shutdown, listener, told, open, stats>> /\ idle' \in {"none", "registered", "woken"}
  BY <1>1 DEF NotifyIdle, ConnTypeOK
<1>7. ConnTypeOK'
  BY <1>1, <1>4, <1>6 DEF ConnTypeOK
<1>8. HeadOk(n) /\ OwedOk(n)
  BY <1>1, <1>2 DEF ConnInv, HeadOk, OwedOk
<1>9. (\A d \in Conns : HeadOk(conns[d]) /\ OwedOk(conns[d]))'
  BY <1>2, <1>3, <1>6, <1>8, OkKept
<1> QED
  BY <1>5, <1>6, <1>7, <1>9 DEF ConnInv

\* Accept gives a slot under the cap, and counts a rejection over it.
LEMMA ConnInvAccept ==
    ASSUME ConnInv, NEW c \in Conns, Accept(c)
    PROVE  ConnInv'
<1>1. ConnTypeOK /\ conns[c] \in ConnType /\ conns[c].pc = "away" /\ opts \in OptsType
      /\ stats \in StatsType /\ open \in Nat
  BY DEF ConnInv, ConnTypeOK, Accept
<1>2. UNCHANGED <<opts, shutdown, listener, told, idle>>
  BY DEF Accept
<1>3. CASE opts.max # 0 /\ open >= opts.max
  <2> DEFINE n == [conns[c] EXCEPT !.pc = "rejected"]
  <2>1. n \in ConnType /\ n.pc = "rejected" /\ n.age = conns[c].age /\ n.owed = conns[c].owed
    BY <1>1 DEF ConnType, ConnPcs, Early
  <2>2. conns' = [conns EXCEPT ![c] = n] /\ open' = open
    BY <1>1, <1>3 DEF Accept, ConnTypeOK
  <2>3. stats' \in StatsType /\ Ended(stats') = Ended(stats)
    BY <1>1, <1>3 DEF Accept, StatsType, Ended
  <2> HIDE DEF n
  <2>4. HeadOk(n) /\ OwedOk(n)
    BY <1>1, <2>1 DEF ConnInv, HeadOk, OwedOk
  <2>5. (\A d \in Conns : HeadOk(conns[d]) /\ OwedOk(conns[d]))'
    BY <1>2, <2>1, <2>2, <2>4, OkKept
  <2>6. conns' \in [Conns -> ConnType] /\ Holding' = Holding /\ Through' = Through
    <3>1. /\ conns' \in [Conns -> ConnType]
          /\ Holding' = IF n.pc \in Held THEN Holding \cup {c} ELSE Holding \ {c}
          /\ Through' = IF n.pc \in Early THEN Through \ {c} ELSE Through \cup {c}
      BY <1>1, <2>1, <2>2, OneMoves
    <3>2. c \notin Holding /\ c \notin Through /\ n.pc \notin Held /\ n.pc \in Early
      BY <1>1, <2>1 DEF Holding, Through, Held, Early
    <3> QED
      BY <3>1, <3>2
  <2>7. ConnTypeOK'
    BY <1>1, <1>2, <2>2, <2>3, <2>6 DEF ConnTypeOK
  <2> QED
    BY <1>2, <2>2, <2>3, <2>5, <2>6, <2>7 DEF ConnInv
<1>4. CASE ~(opts.max # 0 /\ open >= opts.max)
  <2> DEFINE n == [Away EXCEPT !.pc = FirstStage, !.first = opts.head, !.left = FirstTimer]
  <2>1. FirstStage \in {"proxy", "hello", "preface", "idle"} /\ (opts.tls => FirstStage \in {"proxy", "hello"})
        /\ (Limited => FirstStage # "idle")
    BY DEF FirstStage, Serving
  <2>2. opts.head \in Nat /\ FirstTimer \in Nat
    BY <1>1, ConnectionsAssumption DEF FirstTimer, OptsType
  <2>3. n \in ConnType
    BY <2>1, <2>2 DEF Away, ConnType, ConnPcs, Held
  <2>4. /\ n.pc = FirstStage /\ n.first = opts.head /\ n.left = FirstTimer /\ n.age = 0
        /\ ~n.seen /\ ~n.h2 /\ ~n.owed
    BY DEF Away
  <2>5. conns' = [conns EXCEPT ![c] = n] /\ open' = open + 1 /\ stats' = stats
    BY <1>4 DEF Accept
  <2> HIDE DEF n
  <2>6. Limited => FirstTimer = (IF FirstStage = "hello" THEN HandshakeLimit ELSE opts.head)
    BY <2>1 DEF FirstTimer
  <2>7. HeadOk(n) /\ OwedOk(n)
    BY <2>1, <2>2, <2>4, <2>6 DEF HeadOk, OwedOk
  <2>8. (\A d \in Conns : HeadOk(conns[d]) /\ OwedOk(conns[d]))'
    BY <1>2, <2>3, <2>5, <2>7, OkKept
  <2>9. /\ conns' \in [Conns -> ConnType]
        /\ Holding' = Holding \cup {c} /\ c \notin Holding
        /\ opts.tls => Through' = Through
    <3>1. /\ conns' \in [Conns -> ConnType]
          /\ Holding' = IF n.pc \in Held THEN Holding \cup {c} ELSE Holding \ {c}
          /\ Through' = IF n.pc \in Early THEN Through \ {c} ELSE Through \cup {c}
      BY <1>1, <2>3, <2>5, OneMoves
    <3>2. c \notin Holding /\ c \notin Through /\ n.pc \in Held /\ (opts.tls => n.pc \in Early)
      BY <1>1, <2>1, <2>4 DEF Holding, Through, Held, Early
    <3> QED
      BY <3>1, <3>2
  <2>10. Cardinality(Holding') = Cardinality(Holding) + 1
    BY <2>9, Counts, FS_AddElement
  <2>11. ConnTypeOK'
    BY <1>1, <1>2, <2>5, <2>9 DEF ConnTypeOK
  <2>12. opts.max # 0 => open' <= opts.max
    BY <1>1, <1>4, <2>5 DEF OptsType
  <2> QED
    BY <1>2, <2>5, <2>8, <2>9, <2>10, <2>11, <2>12 DEF ConnInv, Ended
<1> QED
  BY <1>3, <1>4

\* Time passes for the timers that run; none of them is below zero.
LEMMA ConnInvTime ==
    ASSUME ConnInv, PassTime
    PROVE  ConnInv'
<1>1. ConnTypeOK /\ opts \in OptsType /\ conns \in [Conns -> ConnType] /\ listener \in LoopType
  BY DEF ConnInv, ConnTypeOK
<1> DEFINE n(c) == [conns[c] EXCEPT !.left = IF Timed(c) THEN @ - 1 ELSE @,
                                    !.age = IF OnHead(c) THEN @ + 1 ELSE @]
<1>2. UNCHANGED <<opts, shutdown, told, idle, open, stats>>
  BY DEF PassTime
<1>3. ASSUME NEW c \in Conns
      PROVE  /\ n(c) \in ConnType /\ n(c).pc = conns[c].pc /\ n(c).first = conns[c].first
             /\ n(c).left = (IF Timed(c) THEN conns[c].left - 1 ELSE conns[c].left)
             /\ n(c).age = (IF OnHead(c) THEN conns[c].age + 1 ELSE conns[c].age)
             /\ n(c).seen = conns[c].seen /\ n(c).h2 = conns[c].h2 /\ n(c).owed = conns[c].owed
             /\ Timed(c) => conns[c].left > 0
  <2>1. conns[c] \in ConnType /\ (Timed(c) => conns[c].left > 0)
    BY <1>1 DEF PassTime, NothingDue
  <2> DEFINE left == IF Timed(c) THEN conns[c].left - 1 ELSE conns[c].left
             age == IF OnHead(c) THEN conns[c].age + 1 ELSE conns[c].age
  <2>2. left \in Nat /\ age \in Nat
    BY <2>1 DEF ConnType
  <2>3. n(c) = [conns[c] EXCEPT !.left = left, !.age = age]
    OBVIOUS
  <2> HIDE DEF left, age
  <2>4. /\ n(c) \in ConnType /\ n(c).pc = conns[c].pc /\ n(c).first = conns[c].first
        /\ n(c).left = left /\ n(c).age = age
        /\ n(c).seen = conns[c].seen /\ n(c).h2 = conns[c].h2 /\ n(c).owed = conns[c].owed
    BY <2>1, <2>2, <2>3 DEF ConnType
  <2> QED
    BY <2>1, <2>4 DEF left, age
<1>4. conns' = [c \in Conns |-> n(c)]
  BY DEF PassTime
<1> HIDE DEF n
<1>5. conns' \in [Conns -> ConnType] /\ \A c \in Conns : conns'[c] = n(c)
  BY <1>3, <1>4
<1>6. ASSUME NEW c \in Conns PROVE HeadOk(n(c)) /\ OwedOk(n(c))
  <2>1. HeadOk(conns[c]) /\ OwedOk(conns[c]) /\ conns[c] \in ConnType
    BY <1>1 DEF ConnInv
  <2> QED
    BY <1>1, <1>3, <2>1 DEF HeadOk, OwedOk, Timed, OnHead, ConnType, OptsType
<1>7. (\A c \in Conns : HeadOk(conns[c]) /\ OwedOk(conns[c]))'
  BY <1>2, <1>5, <1>6 DEF HeadOk, OwedOk, Limited
<1>8. Holding' = Holding /\ Through' = Through
  BY <1>3, <1>5 DEF Holding, Through
<1>9. listener' \in LoopType
  <2>1. Minus(listener.left) \in Nat /\ Minus(listener.delay) \in Nat
    BY <1>1 DEF LoopType, Minus
  <2> QED
    BY <1>1, <2>1 DEF PassTime, LoopType
<1>10. ConnTypeOK'
  BY <1>1, <1>2, <1>5, <1>9 DEF ConnTypeOK
<1> QED
  BY <1>2, <1>7, <1>8, <1>10 DEF ConnInv, Ended

\* What a step of the whole process is to the listener.
LEMMA ListenerSteps ==
    ASSUME LifeNext \/ UNCHANGED lifeVars, ConnTypeOK
    PROVE  \/ AcceptLoop \/ AcceptFails
           \/ \E c \in Conns : \/ Accept(c) \/ Client(c) \/ TimesOut(c) \/ Drained(c)
                               \/ DropSlot(c) \/ NotifyIdle(c)
           \/ PassTime
           \/ UNCHANGED <<opts, listener, told, idle, conns, open, stats>> /\ shutdown' \in {shutdown, TRUE}
<1> USE DEF connVars
<1>1. CASE WaitForSignal \/ SendStop \/ Return
  BY <1>1 DEF WaitForSignal, SendStop, Return
<1>2. CASE SendShutdown
  BY <1>2 DEF SendShutdown
<1>3. CASE Listener(AcceptLoop) \/ Listener(Accepts)
  BY <1>3 DEF Listener, Accepts
<1>4. CASE \E c \in Conns : Listener(Client(c)) \/ Listener(Task(c))
  BY <1>4 DEF Listener, Task
<1>5. CASE Supervise(SupervisorTask) \/ Supervise(App)
  BY <1>5 DEF Supervise
<1>6. CASE Clock
  BY <1>6 DEF Clock
<1>7. CASE UNCHANGED lifeVars
  BY <1>7 DEF lifeVars
<1> QED
  BY <1>1, <1>2, <1>3, <1>4, <1>5, <1>6, <1>7 DEF LifeNext, MainTask

\* Every step of the process keeps the accounts.
LEMMA ConnInvNext ==
    ASSUME ConnInv, LifeNext \/ UNCHANGED lifeVars
    PROVE  ConnInv'
<1>1. ConnTypeOK
  BY DEF ConnInv
<1>2. CASE AcceptLoop \/ AcceptFails
  BY <1>1, <1>2, LoopTypes, ConnInvAside DEF ConnTypeOK
<1>3. ASSUME NEW c \in Conns, Accept(c)
      PROVE  ConnInv'
  BY <1>3, ConnInvAccept
<1>4. ASSUME NEW c \in Conns, Client(c) \/ TimesOut(c) \/ Drained(c)
      PROVE  ConnInv'
  BY <1>4, TaskMoves, ConnInvMoves
<1>5. ASSUME NEW c \in Conns, DropSlot(c) \/ NotifyIdle(c)
      PROVE  ConnInv'
  BY <1>5, ConnInvDrop, ConnInvNotify
<1>6. CASE PassTime
  BY <1>6, ConnInvTime
<1>7. CASE UNCHANGED <<opts, listener, told, idle, conns, open, stats>> /\ shutdown' \in {shutdown, TRUE}
  <2>1. shutdown' \in BOOLEAN /\ told' \in BOOLEAN /\ idle' \in {"none", "registered", "woken"}
        /\ listener' \in LoopType
    BY <1>1, <1>7 DEF ConnTypeOK
  <2> QED
    BY <1>7, <2>1, ConnInvAside
<1> QED
  BY <1>1, <1>2, <1>3, <1>4, <1>5, <1>6, <1>7, ListenerSteps

----------------------------------------------------------------------------
(* The drain. *)

\* The accept loop registers before it reads the count, and gives up only after its timeout.
LEMMA DrainInvLoop ==
    ASSUME ConnTypeOK, DrainInv, AcceptLoop \/ AcceptFails
    PROVE  DrainInv'
<1>1. listener \in LoopType /\ UNCHANGED <<conns, open>>
  BY LoopTypes DEF ConnTypeOK
<1> USE DEF DrainInv, DrainIsWoken, Loop, LoopType
<1>2. CASE Signalled
  BY <1>1, <1>2 DEF Signalled
<1>3. CASE DelayOver
  BY <1>1, <1>3 DEF DelayOver
<1>4. CASE PauseOver
  BY <1>1, <1>4 DEF PauseOver
<1>5. CASE TellDrain
  BY <1>1, <1>5 DEF TellDrain
<1>6. CASE CountOpen
  BY <1>1, <1>6 DEF CountOpen
<1>7. CASE Register
  BY <1>1, <1>7 DEF Register
<1>8. CASE CheckIdle
  BY <1>1, <1>8 DEF CheckIdle
<1>9. CASE Woken
  BY <1>1, <1>9 DEF Woken
<1>10. CASE DrainTimeout
  BY <1>1, <1>10 DEF DrainTimeout
<1>11. CASE AcceptFails
  BY <1>1, <1>11 DEF AcceptFails
<1> QED
  BY <1>2, <1>3, <1>4, <1>5, <1>6, <1>7, <1>8, <1>9, <1>10, <1>11 DEF AcceptLoop

\* The task that takes the count to zero wakes the drain, wherever the drain is.
LEMMA DrainInvNext ==
    ASSUME ConnInv, DrainInv, LifeNext \/ UNCHANGED lifeVars
    PROVE  DrainInv'
<1>1. ConnTypeOK /\ conns \in [Conns -> ConnType] /\ open \in Nat
  BY DEF ConnInv, ConnTypeOK
<1>2. CASE AcceptLoop \/ AcceptFails
  BY <1>1, <1>2, DrainInvLoop
<1>3. ASSUME NEW c \in Conns, Accept(c)
      PROVE  DrainInv'
  BY <1>3 DEF Accept, DrainInv, DrainIsWoken
<1>4. ASSUME NEW c \in Conns, Client(c) \/ TimesOut(c) \/ Drained(c)
      PROVE  DrainInv'
  <2>1. PICK n \in ConnType : Moves(c, n)
    BY <1>4, TaskMoves
  <2>2. UNCHANGED <<listener, idle, open>>
    BY <2>1 DEF Moves, Still
  <2>3. \A d \in Conns : conns[d].pc = "wake" => conns'[d].pc = "wake"
    BY <1>1, <2>1 DEF Moves, Held
  <2> QED
    BY <2>2, <2>3 DEF DrainInv, DrainIsWoken
<1>5. ASSUME NEW c \in Conns, DropSlot(c)
      PROVE  DrainInv'
  <2>1. UNCHANGED <<listener, idle>> /\ open' = open - 1 /\ open > 0
    BY <1>5, ConnInvDrop DEF DropSlot
  <2>2. open' = 0 => conns'[c].pc = "wake"
    BY <1>1, <1>5, <2>1 DEF DropSlot, ConnType
  <2> QED
    BY <1>1, <2>1, <2>2 DEF DrainInv, DrainIsWoken
<1>6. ASSUME NEW c \in Conns, NotifyIdle(c)
      PROVE  DrainInv'
  BY <1>6 DEF NotifyIdle, DrainInv, DrainIsWoken
<1>7. CASE PassTime
  <2>1. /\ UNCHANGED <<idle, open>>
        /\ listener'.pc = listener.pc /\ listener'.late = listener.late
        /\ \A c \in Conns : conns'[c].pc = conns[c].pc
    BY <1>1, <1>7 DEF PassTime, ConnTypeOK, ConnType, LoopType
  <2> QED
    BY <2>1 DEF DrainInv, DrainIsWoken
<1>8. CASE UNCHANGED <<opts, listener, told, idle, conns, open, stats>>
  BY <1>8 DEF DrainInv, DrainIsWoken
<1> QED
  BY <1>1, <1>2, <1>3, <1>4, <1>5, <1>6, <1>7, <1>8, ListenerSteps

----------------------------------------------------------------------------
(* The order of a shutdown. *)

\* The loop leaves its accept state only once it was told to, and does nothing after it returned.
LEMMA LoopOrder ==
    ASSUME ConnTypeOK, AcceptLoop \/ AcceptFails,
           (listener.delaying \/ listener.pc \notin {"accept", "pause"}) => shutdown
    PROVE  /\ listener.pc # "returned"
           /\ (listener'.delaying \/ listener'.pc \notin {"accept", "pause"}) => shutdown
<1>1. listener \in LoopType
  BY DEF ConnTypeOK
<1> USE DEF Loop, LoopType
<1>2. CASE Signalled
  BY <1>1, <1>2 DEF Signalled
<1>3. CASE DelayOver
  BY <1>1, <1>3 DEF DelayOver
<1>4. CASE PauseOver
  BY <1>1, <1>4 DEF PauseOver
<1>5. CASE TellDrain
  BY <1>1, <1>5 DEF TellDrain
<1>6. CASE CountOpen
  BY <1>1, <1>6 DEF CountOpen
<1>7. CASE Register
  BY <1>1, <1>7 DEF Register
<1>8. CASE CheckIdle
  BY <1>1, <1>8 DEF CheckIdle
<1>9. CASE Woken
  BY <1>1, <1>9 DEF Woken
<1>10. CASE DrainTimeout
  BY <1>1, <1>10 DEF DrainTimeout
<1>11. CASE AcceptFails
  BY <1>1, <1>11 DEF AcceptFails
<1> QED
  BY <1>2, <1>3, <1>4, <1>5, <1>6, <1>7, <1>8, <1>9, <1>10, <1>11 DEF AcceptLoop

\* No step of a connection touches the accept loop or the shutdown channel.
LEMMA ConnLeavesLoop ==
    ASSUME ConnInv, NEW c \in Conns,
           Accept(c) \/ Client(c) \/ Task(c)
    PROVE  UNCHANGED <<listener, shutdown>>
<1>1. CASE Client(c) \/ TimesOut(c) \/ Drained(c)
  BY <1>1, TaskMoves DEF Moves, Still
<1>2. CASE Accept(c) \/ DropSlot(c) \/ NotifyIdle(c)
  BY <1>2 DEF Accept, DropSlot, NotifyIdle
<1> QED
  BY <1>1, <1>2 DEF Task

\* The supervisor and the app keep their types, and leave the stop channel alone.
LEMMA SupTypes ==
    ASSUME LifeTypeOK, SupervisorTask \/ App
    PROVE  wrapped' \in BOOLEAN /\ UNCHANGED stop /\ sup' \in SupType /\ app' \in AppType
<1>1. sup \in SupType /\ app \in AppType /\ NoApp \in AppType /\ wrapped \in BOOLEAN
  BY DEF LifeTypeOK, NoApp, AppType
<1>2. ASSUME NEW pc \in SupPcs, NEW left \in Nat, Goes(pc, left)
      PROVE  sup' \in SupType
  BY <1>1, <1>2 DEF Goes, SupType
<1>3. {"start", "watch", "backoff", "term", "stopped"} = SupPcs /\ TermGrace \in Nat /\ 0 \in Nat
      /\ sup.backoff \in Nat /\ sup.backoff + 1 \in Nat
  BY <1>1, SupervisorAssumption DEF SupPcs, SupType
<1>4. CASE Spawn
  <2>1. sup' \in SupType
    BY <1>2, <1>3, <1>4 DEF Spawn
  <2>2. (app.forked \/ app.orphans) \in BOOLEAN
    OBVIOUS
  <2>3. [NoApp EXCEPT !.child = "up", !.orphans = app.forked \/ app.orphans] \in AppType
    BY <1>1, <2>2 DEF AppType
  <2>4. app' \in AppType
    BY <1>1, <1>4, <2>3 DEF Spawn
  <2> QED
    BY <1>1, <1>4, <2>1, <2>4 DEF Spawn
<1>5. CASE ExitSeen
  <2>1. sup' \in SupType
    BY <1>2, <1>3, <1>5 DEF ExitSeen
  <2>2. app' \in AppType
    BY <1>1, <1>5 DEF ExitSeen, AppType
  <2> QED
    BY <1>1, <1>5, <2>1, <2>2 DEF ExitSeen
<1>6. CASE BackoffOver
  <2>1. CASE Goes("stopped", 0)
    BY <1>1, <1>2, <1>3, <1>6, <2>1 DEF BackoffOver
  <2>2. CASE sup' = [sup EXCEPT !.pc = "start", !.backoff = IF @ < Backoffs THEN @ + 1 ELSE @]
    <3>1. (IF sup.backoff < Backoffs THEN sup.backoff + 1 ELSE sup.backoff) \in Nat
      BY <1>3
    <3> QED
      BY <1>1, <1>3, <1>6, <2>2, <3>1 DEF BackoffOver, SupType
  <2> QED
    BY <1>6, <2>1, <2>2 DEF BackoffOver
<1>7. CASE Terminate
  BY <1>1, <1>2, <1>3, <1>7 DEF Terminate, AppType
<1>8. CASE TermSeen
  BY <1>1, <1>2, <1>3, <1>8 DEF TermSeen, AppType
<1>9. CASE Kill
  BY <1>1, <1>2, <1>3, <1>9 DEF Kill
<1>10. CASE AppForks
  BY <1>1, <1>10 DEF AppForks, AppType
<1>11. CASE AppExits
  BY <1>1, <1>11 DEF AppExits, AppType
<1> QED
  BY <1>4, <1>5, <1>6, <1>7, <1>8, <1>9, <1>10, <1>11 DEF SupervisorTask, App

\* Every step keeps the types of the process, its supervisor and the app.
LEMMA LifeTypeNext ==
    ASSUME LifeTypeOK, LifeNext \/ UNCHANGED lifeVars
    PROVE  LifeTypeOK'
<1> USE DEF supVars
<1>1. CASE WaitForSignal
  BY <1>1 DEF WaitForSignal, LifeTypeOK
<1>2. CASE SendShutdown
  BY <1>2 DEF SendShutdown, LifeTypeOK
<1>3. CASE SendStop
  BY <1>3, LifecycleAssumption DEF SendStop, LifeTypeOK
<1>4. CASE Return
  BY <1>4 DEF Return, LifeTypeOK, AppType
<1>5. CASE \/ Listener(AcceptLoop) \/ Listener(Accepts)
           \/ \E c \in Conns : Listener(Client(c)) \/ Listener(Task(c))
  BY <1>5 DEF Listener, LifeTypeOK
<1>6. CASE Supervise(SupervisorTask) \/ Supervise(App)
  BY <1>6, SupTypes DEF Supervise, LifeTypeOK
<1>7. CASE Clock
  <2>1. Minus(main.left) \in Nat
    BY DEF LifeTypeOK, Minus
  <2>2. (IF SupTimed THEN sup.left - 1 ELSE sup.left) \in Nat
    BY <1>7 DEF Clock, SupTime, SupDue, LifeTypeOK, SupType
  <2> QED
    BY <1>7, <2>1, <2>2 DEF Clock, SupTime, LifeTypeOK, SupType
<1>8. CASE UNCHANGED lifeVars
  BY <1>8 DEF lifeVars, LifeTypeOK
<1> QED
  BY <1>1, <1>2, <1>3, <1>4, <1>5, <1>6, <1>7, <1>8 DEF LifeNext, MainTask

\* Readiness fails before the listener is told, and the app is asked only after the listener returned.
LEMMA OrderInvNext ==
    ASSUME ConnInv, LifeTypeOK, OrderInv, LifeNext \/ UNCHANGED lifeVars
    PROVE  OrderInv'
<1>1. ConnTypeOK /\ listener \in LoopType
  BY DEF ConnInv, ConnTypeOK
<1>2. CASE WaitForSignal
  BY <1>2 DEF WaitForSignal, OrderInv, LifeTypeOK, connVars, supVars
<1>3. CASE SendShutdown
  BY <1>3 DEF SendShutdown, OrderInv, LifeTypeOK, connVars, supVars
<1>4. CASE SendStop
  BY <1>4 DEF SendStop, OrderInv, LifeTypeOK, connVars
<1>5. CASE Return
  BY <1>5 DEF Return, OrderInv, LifeTypeOK, AppType, connVars
<1>6. CASE Listener(AcceptLoop) \/ Listener(AcceptFails)
  <2>1. UNCHANGED <<main, draining, shutdown, stop, app>>
    BY <1>1, <1>6, LoopTypes DEF Listener, supVars
  <2>2. listener.pc # "returned" /\ ((listener'.delaying \/ listener'.pc \notin {"accept", "pause"}) => shutdown)
    BY <1>1, <1>6, LoopOrder DEF Listener, OrderInv
  <2> QED
    BY <2>1, <2>2 DEF OrderInv
<1>7. ASSUME NEW c \in Conns, Listener(Accept(c)) \/ Listener(Client(c)) \/ Listener(Task(c))
      PROVE  OrderInv'
  <2>1. UNCHANGED <<main, draining, stop, app, listener, shutdown>>
    BY <1>7, ConnLeavesLoop DEF Listener, supVars
  <2> QED
    BY <2>1 DEF OrderInv
<1>8. CASE Supervise(SupervisorTask) \/ Supervise(App)
  <2>1. UNCHANGED <<main, draining, listener, shutdown, stop>> /\ (SupervisorTask \/ App)
    BY <1>8, SupTypes DEF Supervise, connVars
  <2>2. app'.asked => app.asked \/ stop
    <3>1. app \in AppType /\ ~NoApp.asked
      BY DEF LifeTypeOK, NoApp
    <3>2. CASE Spawn
      BY <3>1, <3>2 DEF Spawn, NoApp
    <3>3. CASE ExitSeen \/ TermSeen \/ BackoffOver
      BY <3>1, <3>3 DEF ExitSeen, TermSeen, BackoffOver, AppType
    <3>4. CASE Terminate
      BY <3>4 DEF Terminate
    <3>5. CASE Kill
      BY <3>1, <3>5 DEF Kill
    <3>6. CASE App
      BY <3>1, <3>6 DEF App, AppForks, AppExits, AppType
    <3> QED
      BY <2>1, <3>2, <3>3, <3>4, <3>5, <3>6 DEF SupervisorTask
  <2> QED
    BY <2>1, <2>2 DEF OrderInv
<1>9. CASE Clock
  <2>1. /\ UNCHANGED <<draining, shutdown, stop, app>> /\ main'.pc = main.pc
        /\ listener'.pc = listener.pc /\ listener'.delaying = listener.delaying
    BY <1>1, <1>9 DEF Clock, PassTime, SupTime, LoopType, LifeTypeOK
  <2> QED
    BY <2>1 DEF OrderInv
<1>10. CASE UNCHANGED lifeVars
  BY <1>10 DEF lifeVars, OrderInv, connVars, supVars
<1> QED
  BY <1>2, <1>3, <1>4, <1>5, <1>6, <1>7, <1>8, <1>9, <1>10 DEF LifeNext, MainTask, Accepts, Listener

\* A supervisor handles the stop before time passes, and its grace period is the shorter one.
LEMMA AppInvNext ==
    ASSUME LifeTypeOK, OrderInv, AppInv, LifeNext \/ UNCHANGED lifeVars
    PROVE  AppInv'
<1>1. sup \in SupType /\ app \in AppType
  BY DEF LifeTypeOK
<1> USE LifecycleAssumption, SupervisorAssumption DEF OneApp, AppStopsFirst
<1>2. CASE WaitForSignal
  BY <1>2 DEF WaitForSignal, AppInv, LifeTypeOK, supVars
<1>3. CASE SendShutdown
  BY <1>3 DEF SendShutdown, AppInv, LifeTypeOK, supVars
<1>4. CASE SendStop
  BY <1>4 DEF SendStop, AppInv, OrderInv
<1>5. CASE Return
  BY <1>1, <1>5 DEF Return, AppInv, LifeTypeOK, AppType, SupType, SupPcs
<1>6. CASE \/ Listener(AcceptLoop) \/ Listener(Accepts)
           \/ \E c \in Conns : Listener(Client(c)) \/ Listener(Task(c))
  BY <1>6 DEF Listener, AppInv, supVars
<1>7. ASSUME UNCHANGED main, Spawn
      PROVE  AppInv'
  BY <1>1, <1>7 DEF Spawn, Goes, NoApp, AppInv, OrderInv, SupType
<1>8. ASSUME UNCHANGED main, ExitSeen
      PROVE  AppInv'
  BY <1>1, <1>8 DEF ExitSeen, Goes, AppInv, OrderInv, SupType, AppType
<1>9. ASSUME UNCHANGED main, BackoffOver
      PROVE  AppInv'
  BY <1>1, <1>9 DEF BackoffOver, Goes, AppInv, OrderInv, SupType
<1>10. ASSUME UNCHANGED main, Terminate
      PROVE  AppInv'
  BY <1>1, <1>10 DEF Terminate, Goes, AppInv, OrderInv, SupType, AppType
<1>11. ASSUME UNCHANGED main, TermSeen
      PROVE  AppInv'
  BY <1>1, <1>11 DEF TermSeen, Goes, AppInv, OrderInv, SupType, AppType
<1>12. ASSUME UNCHANGED main, Kill
      PROVE  AppInv'
  BY <1>1, <1>12 DEF Kill, Goes, AppInv, OrderInv, SupType, NoApp
<1>13. ASSUME UNCHANGED main, App
      PROVE  AppInv'
  BY <1>1, <1>13 DEF App, AppForks, AppExits, AppInv, OrderInv, AppType, SupType, SupPcs
<1>14. CASE Clock
  <2>1. UNCHANGED <<stop, app>> /\ main'.pc = main.pc /\ sup'.pc = sup.pc
    BY <1>1, <1>14 DEF Clock, SupTime, LifeTypeOK, SupType
  <2>2. (main.pc = "stopping" /\ sup.pc = "term") => main'.left > sup'.left
    BY <1>1, <1>14 DEF Clock, SupTime, SupDue, SupTimed, LifeTypeOK, SupType, Minus, AppInv
  <2>3. ~(main.pc = "stopping" /\ sup.pc \notin {"term", "stopped"})
    BY <1>1, <1>14 DEF Clock, SupTime, SupDue, AppInv
  <2> QED
    BY <2>1, <2>2, <2>3 DEF AppInv
<1>15. CASE UNCHANGED lifeVars
  BY <1>15 DEF lifeVars, AppInv, supVars
<1> QED
  BY <1>2, <1>3, <1>4, <1>5, <1>6, <1>7, <1>8, <1>9, <1>10, <1>11, <1>12, <1>13, <1>14, <1>15
  DEF LifeNext, MainTask, Supervise, SupervisorTask

----------------------------------------------------------------------------
(* The theorems. *)

\* The process starts in order.
LEMMA LifeInvInit == LifeInit => LifeInv
<1> SUFFICES ASSUME LifeInit PROVE LifeInv
  OBVIOUS
<1>1. listener.pc = "accept" /\ ~listener.delaying /\ ~shutdown /\ ~stop /\ app = NoApp /\ main.pc = "serving"
  BY DEF LifeInit, ConnInit, SupInit
<1>2. NoApp \in AppType /\ ~NoApp.asked /\ ~NoApp.forked /\ ~NoApp.orphans /\ ~NoApp.slain /\ NoApp.child = "none"
  BY DEF NoApp, AppType
<1>3. sup \in SupType /\ sup.pc \in {"start", "stopped"}
  BY DEF LifeInit, SupInit, SupType, SupPcs
<1>4. LifeTypeOK
  BY <1>1, <1>2, <1>3 DEF LifeInit, SupInit, LifeTypeOK
<1>5. DrainInv /\ OrderInv
  BY <1>1, <1>2 DEF DrainInv, DrainIsWoken, OrderInv
<1>6. AppInv
  BY <1>1, <1>2, <1>3 DEF AppInv, OneApp, AppStopsFirst
<1> QED
  BY <1>4, <1>5, <1>6, ConnInvInit DEF LifeInv

\* The invariant holds in every state of the process.
LEMMA LifeInvariant == LifeSpec => []LifeInv
<1>1. LifeInv /\ [LifeNext]_lifeVars => LifeInv'
  BY ConnInvNext, DrainInvNext, LifeTypeNext, OrderInvNext, AppInvNext DEF LifeInv
<1> QED
  BY <1>1, LifeInvInit, PTL DEF LifeSpec

\* Whatever clients do, in any order: a slot is held by exactly the connections whose task runs, the
\* cap bounds them, one header_read_timeout covers the PROXY header and the first head, a drain that
\* waits is woken by the last connection, and each handshake is counted once (src/serve.rs).
THEOREM ListenerAccounts == LifeSpec => []ConnectionsAccounted
<1>1. LifeInv => ConnectionsAccounted
  <2> SUFFICES ASSUME LifeInv PROVE ConnectionsAccounted
    OBVIOUS
  <2>1. ConnInv /\ ConnTypeOK /\ DrainIsWoken
    BY DEF LifeInv, ConnInv, DrainInv
  <2>2. {c \in Conns : Live(c)} = Holding
    BY <2>1 DEF Live, Holding, ConnTypeOK, ConnType, ConnPcs, Held, Early
  <2>3. {c \in Conns : conns[c].pc \notin {"away", "rejected", "proxy", "hello", "shake"}} = Through
    BY DEF Through, Early
  <2>4. SlotPerConnection
    BY <2>1, <2>2 DEF ConnInv, SlotPerConnection
  <2>5. OneTimeoutForFirstHead
    BY <2>1 DEF ConnInv, HeadOk, OneTimeoutForFirstHead
  <2>6. HandshakesAccounted
    BY <2>1, <2>3 DEF ConnInv, HandshakesAccounted, Ended
  <2> QED
    BY <2>1, <2>4, <2>5, <2>6 DEF ConnectionsAccounted
<1> QED
  BY <1>1, LifeInvariant, PTL

\* A shutdown keeps its order under any interleaving of clients, app, supervisor and clock: /ready
\* fails first, a request that was accepted is only cut off by the drain's timeout, the app is asked
\* to stop after that, and is never killed without its grace period (src/main.rs, src/supervisor.rs).
THEOREM ShutdownOrdered == LifeSpec => []ShutdownInOrder
<1>1. LifeInv => ShutdownInOrder
  <2> SUFFICES ASSUME LifeInv PROVE ShutdownInOrder
    OBVIOUS
  <2>1. NotReadyFirst
    BY DEF LifeInv, OrderInv, NotReadyFirst
  <2>2. OneApp /\ AppStopsFirst
    BY DEF LifeInv, AppInv
  <2>3. ASSUME NEW c \in Conns, conns[c].owed
        PROVE  conns[c].pc \in {"busy", "last"} /\ ((~Up \/ app.asked) => listener.late)
    <3>1. conns[c].pc \in {"busy", "last"}
      BY <2>3 DEF LifeInv, ConnInv, OwedOk
    <3>2. c \in Holding
      BY <3>1 DEF Holding, Held
    <3>3. open # 0
      BY <3>2, Counts, FS_EmptySet DEF LifeInv, ConnInv
    <3>4. (~Up \/ app.asked) => listener.pc = "returned"
      BY DEF LifeInv, OrderInv, Up
    <3> QED
      BY <3>1, <3>3, <3>4 DEF LifeInv, DrainInv
  <2>4. RequestsFinish
    BY <2>3 DEF RequestsFinish
  <2> QED
    BY <2>1, <2>2, <2>4 DEF ShutdownInOrder
<1> QED
  BY <1>1, LifeInvariant, PTL

----------------------------------------------------------------------------
(* The life of the process that its reporters rely on. *)

Phase == IF ~Up THEN "exited" ELSE IF main.pc = "serving" THEN "serving" ELSE "draining"
Unseen == {c \in Conns : conns[c].pc \in {"away", "rejected"}}
InService == {c \in Conns : Up /\ conns[c].pc \notin {"away", "rejected", "drop", "wake", "gone"}}

\* The steps of Process, spelt out on the state they are mapped to.
LEMMA ProcessSteps ==
    /\ Life!ProcessInit <=> (Phase = "serving" /\ Unseen = Conns /\ InService = {})
    /\ \A c : Life!Arrives(c) <=> /\ Phase # "exited" /\ c \in Unseen
                                  /\ Unseen' = Unseen \ {c} /\ InService' = InService \cup {c}
                                  /\ Phase' = Phase
    /\ \A c : Life!Served(c) <=> /\ c \in InService /\ InService' = InService \ {c}
                                 /\ Phase' = Phase /\ Unseen' = Unseen
    /\ Life!Signal <=> /\ Phase = "serving" /\ Phase' = "draining"
                       /\ Unseen' = Unseen /\ InService' = InService
    /\ Life!Exit <=> /\ Phase = "draining" /\ Phase' = "exited" /\ InService' = {}
                     /\ Unseen' = Unseen
    /\ (UNCHANGED Life!processVars) <=> (Phase' = Phase /\ Unseen' = Unseen /\ InService' = InService)
  BY DEF Life!ProcessInit, Life!Arrives, Life!Served, Life!Signal, Life!Exit, Life!processVars,
         Phase, Unseen, InService

\* A step that leaves every connection where it is, and the process in its phase, is a stutter.
LEMMA NothingSeen ==
    ASSUME Phase' = Phase, Up' = Up, \A c \in Conns : conns'[c].pc = conns[c].pc
    PROVE  UNCHANGED Life!processVars
<1>1. Unseen' = Unseen /\ InService' = InService
  BY DEF Unseen, InService
<1> QED
  BY <1>1, ProcessSteps

\* Every step of the process is a step of Process, or none.
LEMMA LifeStep ==
    ASSUME LifeInv, LifeNext \/ UNCHANGED lifeVars
    PROVE  Life!ProcessNext \/ UNCHANGED Life!processVars
<1>1. ConnInv /\ ConnTypeOK /\ LifeTypeOK /\ conns \in [Conns -> ConnType]
  BY DEF LifeInv, ConnInv, ConnTypeOK
<1>2. CASE WaitForSignal
  <2>1. Unseen' = Unseen /\ InService' = InService /\ Phase = "serving" /\ Phase' = "draining"
    BY <1>1, <1>2 DEF WaitForSignal, connVars, Unseen, InService, Phase, Up, LifeTypeOK
  <2> QED
    BY <2>1, ProcessSteps DEF Life!ProcessNext
<1>3. CASE SendShutdown \/ SendStop
  <2>1. Phase' = Phase /\ Up' = Up /\ conns' = conns
    BY <1>1, <1>3 DEF SendShutdown, SendStop, connVars, Phase, Up, LifeTypeOK
  <2> QED
    BY <2>1, NothingSeen
<1>4. CASE Return
  <2>1. Unseen' = Unseen /\ InService' = {} /\ Phase = "draining" /\ Phase' = "exited"
    BY <1>1, <1>4 DEF Return, connVars, Unseen, InService, Phase, Up, LifeTypeOK
  <2> QED
    BY <2>1, ProcessSteps DEF Life!ProcessNext
<1>5. CASE Listener(AcceptLoop) \/ Listener(AcceptFails)
  <2>1. Phase' = Phase /\ Up' = Up /\ conns' = conns
    BY <1>1, <1>5, LoopTypes DEF Listener, Phase, Up
  <2> QED
    BY <2>1, NothingSeen
<1>6. ASSUME NEW c \in Conns, Listener(Accept(c))
      PROVE  Life!ProcessNext \/ UNCHANGED Life!processVars
  <2>1. Phase' = Phase /\ Up' = Up /\ Up /\ Phase # "exited" /\ conns[c].pc = "away"
    BY <1>6 DEF Listener, Accept, Phase, Up
  <2>2. CASE opts.max # 0 /\ open >= opts.max
    <3>1. conns' = [conns EXCEPT ![c].pc = "rejected"]
      BY <1>6, <2>2 DEF Listener, Accept
    <3>2. \A d \in Conns : conns'[d].pc = IF d = c THEN "rejected" ELSE conns[d].pc
      BY <1>1, <3>1 DEF ConnType
    <3>3. Unseen' = Unseen /\ InService' = InService
      BY <2>1, <3>2 DEF Unseen, InService
    <3> QED
      BY <2>1, <3>3, ProcessSteps
  <2>3. CASE ~(opts.max # 0 /\ open >= opts.max)
    <3>1. conns' = [conns EXCEPT ![c] = [Away EXCEPT !.pc = FirstStage, !.first = opts.head,
                                                     !.left = FirstTimer]]
      BY <1>6, <2>3 DEF Listener, Accept
    <3>2. FirstStage \in {"proxy", "hello", "preface", "idle"}
      BY DEF FirstStage, Serving
    <3>3. \A d \in Conns : conns'[d].pc = IF d = c THEN FirstStage ELSE conns[d].pc
      BY <1>1, <3>1 DEF Away
    <3>4. c \in Unseen /\ Unseen' = Unseen \ {c} /\ InService' = InService \cup {c}
      BY <2>1, <3>2, <3>3 DEF Unseen, InService
    <3> QED
      BY <2>1, <3>4, ProcessSteps DEF Life!ProcessNext
  <2> QED
    BY <2>2, <2>3
<1>7. ASSUME NEW c \in Conns, Listener(Client(c)) \/ Listener(TimesOut(c)) \/ Listener(Drained(c))
      PROVE  Life!ProcessNext \/ UNCHANGED Life!processVars
  <2>1. Phase' = Phase /\ Up' = Up /\ Up
    BY <1>7 DEF Listener, Phase, Up
  <2>2. PICK n \in ConnType : Moves(c, n)
    BY <1>1, <1>7, TaskMoves DEF Listener
  <2>3. \A d \in Conns : conns'[d].pc = IF d = c THEN n.pc ELSE conns[d].pc
    BY <1>1, <2>2 DEF Moves
  <2>4. Unseen' = Unseen
    BY <2>2, <2>3 DEF Unseen, Moves, Held
  <2>5. CASE n.pc = "drop" /\ conns[c].pc # "drop"
    <3>1. c \in InService /\ InService' = InService \ {c}
      BY <2>1, <2>2, <2>3, <2>5 DEF InService, Moves, Held
    <3> QED
      BY <2>1, <2>4, <3>1, ProcessSteps DEF Life!ProcessNext
  <2>6. CASE ~(n.pc = "drop" /\ conns[c].pc # "drop")
    <3>1. InService' = InService
      BY <2>1, <2>2, <2>3, <2>6 DEF InService, Moves, Held
    <3> QED
      BY <2>1, <2>4, <3>1, ProcessSteps
  <2> QED
    BY <2>5, <2>6
<1>8. ASSUME NEW c \in Conns, Listener(DropSlot(c)) \/ Listener(NotifyIdle(c))
      PROVE  Life!ProcessNext \/ UNCHANGED Life!processVars
  <2>1. Phase' = Phase /\ Up' = Up
    BY <1>8 DEF Listener, Phase, Up
  <2>2. /\ conns[c].pc \in {"drop", "wake"} /\ conns'[c].pc \in {"wake", "gone"}
        /\ \A d \in Conns \ {c} : conns'[d].pc = conns[d].pc
    BY <1>1, <1>8 DEF Listener, DropSlot, NotifyIdle, ConnType
  <2>3. Unseen' = Unseen /\ InService' = InService
    BY <2>1, <2>2 DEF Unseen, InService
  <2> QED
    BY <2>1, <2>3, ProcessSteps
<1>9. CASE Supervise(SupervisorTask) \/ Supervise(App)
  <2>1. Phase' = Phase /\ Up' = Up /\ conns' = conns
    BY <1>9 DEF Supervise, connVars, Phase, Up
  <2> QED
    BY <2>1, NothingSeen
<1>10. CASE Clock
  <2>1. main'.pc = main.pc /\ \A c \in Conns : conns'[c].pc = conns[c].pc
    BY <1>1, <1>10 DEF Clock, PassTime, ConnType, LifeTypeOK
  <2>2. Phase' = Phase /\ Up' = Up
    BY <2>1 DEF Phase, Up
  <2> QED
    BY <2>1, <2>2, NothingSeen
<1>11. CASE UNCHANGED lifeVars
  <2>1. Phase' = Phase /\ Up' = Up /\ conns' = conns
    BY <1>11 DEF lifeVars, connVars, Phase, Up
  <2> QED
    BY <2>1, NothingSeen
<1> QED
  BY <1>2, <1>3, <1>4, <1>5, <1>6, <1>7, <1>8, <1>9, <1>10, <1>11
  DEF LifeNext, MainTask, Accepts, Listener, Task

\* The listener, the supervisor and main together implement the life of the process that the
\* reporters are modelled against: requests arrive and are served while it serves or drains, the
\* signal comes once, and the exit ends what is left (run in src/main.rs).
THEOREM ImplementsProcess == LifeSpec => IsProcess
<1>1. LifeInit => Life!ProcessInit
  <2> SUFFICES ASSUME LifeInit PROVE Life!ProcessInit
    OBVIOUS
  <2>1. Phase = "serving"
    BY DEF LifeInit, Phase, Up
  <2>2. \A c \in Conns : conns[c].pc = "away"
    BY DEF LifeInit, ConnInit, Away
  <2>3. Unseen = Conns /\ InService = {}
    BY <2>2 DEF Unseen, InService
  <2> QED
    BY <2>1, <2>3, ProcessSteps
<1>2. LifeInv /\ [LifeNext]_lifeVars => [Life!ProcessNext]_Life!processVars
  BY LifeStep
<1> QED
  BY <1>1, <1>2, LifeInvariant, PTL DEF LifeSpec, IsProcess, Life!ProcessSpec

----------------------------------------------------------------------------
(* Starts.  A list of checks refuses with the first that fails. *)

\* A set of numbers that is not empty has a least element.
LEMMA LeastElement ==
    ASSUME NEW T, T \subseteq Nat, T # {}
    PROVE  \E x \in T : \A y \in T : x <= y
<1> DEFINE R == OpToRel(<, Nat)
<1>1. \E x \in T : \A y \in T : ~ (<<y, x>> \in R)
  <2>1. IsWellFoundedOn(R, Nat)
    BY NatLessThanWellFounded
  <2> HIDE DEF R
  <2> QED
    BY <2>1, WFMin
<1>2. ASSUME NEW x \in T, NEW y \in T, ~ (<<y, x>> \in R)
      PROVE  x <= y
  BY <1>2 DEF OpToRel
<1> QED
  BY <1>1, <1>2

AllOk(checks) == \A i \in DOMAIN checks : checks[i].ok
Named(checks) == \A i \in DOMAIN checks : checks[i].why # ""

\* The first check that fails.
LEMMA RefusalIs ==
    ASSUME NEW T, NEW checks \in Seq(T), Named(checks)
    PROVE  /\ Refusal(checks) = "" <=> AllOk(checks)
           /\ ~AllOk(checks) => \E i \in 1..Len(checks) :
                /\ ~checks[i].ok /\ Refusal(checks) = checks[i].why
                /\ \A j \in 1..(i - 1) : checks[j].ok
<1> DEFINE failed == {i \in DOMAIN checks : ~checks[i].ok}
<1>1. Refusal(checks) = IF failed = {} THEN "" ELSE checks[CHOOSE i \in failed : \A j \in failed : i <= j].why
  BY DEF Refusal
<1>2. DOMAIN checks = 1..Len(checks) /\ Len(checks) \in Nat
  OBVIOUS
<1>3. failed = {} <=> AllOk(checks)
  BY DEF AllOk
<1>4. CASE failed # {}
  <2>1. failed \subseteq Nat
    BY <1>2
  <2>2. \E i \in failed : \A j \in failed : i <= j
    <3> HIDE DEF failed
    <3> QED
      BY <1>4, <2>1, LeastElement
  <2>3. PICK i : i = CHOOSE k \in failed : \A j \in failed : k <= j
    OBVIOUS
  <2>4. i \in failed /\ \A j \in failed : i <= j
    <3> HIDE DEF failed
    <3> QED
      BY <2>2, <2>3
  <2>5. i \in DOMAIN checks /\ ~checks[i].ok /\ checks[i].why # ""
    BY <2>4, Zenon DEF Named
  <2>6. i \in 1..Len(checks) /\ i \in Nat
    BY <1>2, <2>4
  <2>7. ASSUME NEW j \in 1..(i - 1) PROVE checks[j].ok
    <3>1. j \in 1..Len(checks) /\ ~(i <= j)
      <4> HIDE DEF failed
      <4> QED
        BY <1>2, <2>6
    <3> QED
      BY <1>2, <2>4, <3>1, Zenon
  <2>8. Refusal(checks) = checks[i].why
    BY <1>1, <1>4, <2>3
  <2> HIDE DEF failed
  <2> QED
    BY <1>3, <1>4, <2>5, <2>6, <2>7, <2>8, Zenon
<1>5. CASE failed = {}
  <2> HIDE DEF failed
  <2> QED
    BY <1>1, <1>3, <1>5
<1> QED
  BY <1>4, <1>5

\* Checks behind checks.
LEMMA AllOkBehind ==
    ASSUME NEW T, NEW a \in Seq(T), NEW b \in Seq(T)
    PROVE  /\ a \o b \in Seq(T)
           /\ AllOk(a \o b) <=> AllOk(a) /\ AllOk(b)
           /\ Named(a) /\ Named(b) => Named(a \o b)
<1> DEFINE w == a \o b
<1>1. w \in Seq(T) /\ Len(w) = Len(a) + Len(b) /\ Len(a) \in Nat /\ Len(b) \in Nat
      /\ \A i \in 1..Len(a) + Len(b) : w[i] = IF i <= Len(a) THEN a[i] ELSE b[i - Len(a)]
  BY ConcatProperties
<1> HIDE DEF w
<1>2. DOMAIN a = 1..Len(a) /\ DOMAIN b = 1..Len(b) /\ DOMAIN w = 1..Len(w)
  BY <1>1
<1>3. ASSUME NEW i \in DOMAIN a PROVE i \in DOMAIN w /\ w[i] = a[i]
  BY <1>1, <1>2
<1>4. ASSUME NEW i \in DOMAIN b PROVE i + Len(a) \in DOMAIN w /\ w[i + Len(a)] = b[i]
  <2>1. i \in Nat /\ i >= 1 /\ i <= Len(b)
    BY <1>1, <1>2
  <2>2. i + Len(a) \in 1..Len(a) + Len(b) /\ ~(i + Len(a) <= Len(a)) /\ i + Len(a) - Len(a) = i
    BY <1>1, <2>1
  <2> QED
    BY <1>1, <1>2, <2>2
<1>5. ASSUME NEW i \in DOMAIN w PROVE (i \in DOMAIN a /\ w[i] = a[i]) \/ (i - Len(a) \in DOMAIN b /\ w[i] = b[i - Len(a)])
  BY <1>1, <1>2
<1>6. AllOk(w) <=> AllOk(a) /\ AllOk(b)
  BY <1>3, <1>4, <1>5 DEF AllOk
<1>7. Named(a) /\ Named(b) => Named(w)
  BY <1>5 DEF Named
<1> QED
  BY <1>1, <1>6, <1>7 DEF w

Reasons == {"load", "listener", "client_auth", "control_plane", "upstream_tls", "connect_timeout", "outbound",
            "forwarders", "ratelimit", "upstreams", "upstream", "auth", "forward", "mtls", "proxy_names", "waf",
            "cors", "access", "validation", "llm", "dlp", "telemetry", "alerts", "header", "boot_without_policy",
            "enforce_quota", "collectors", "redirect_status", "acme", "acme_settings", "acme_challenge",
            "certificate", "extra_unreadable", "extra_mismatch", "extra_hosts"}
CheckType == [why : Reasons, ok : BOOLEAN]

\* A list of them names its reasons.
LEMMA ChecksNamed ==
    ASSUME NEW checks \in Seq(CheckType)
    PROVE  Named(checks)
<1>1. SUFFICES ASSUME NEW i \in DOMAIN checks PROVE checks[i].why # ""
  BY DEF Named
<1>2. checks[i] \in CheckType
  OBVIOUS
<1>3. checks[i].why \in Reasons
  BY <1>2 DEF CheckType
<1> QED
  BY <1>3 DEF Reasons

\* A check.
LEMMA CheckIs ==
    ASSUME NEW w \in Reasons, NEW b \in BOOLEAN
    PROVE  Check(w, b) \in CheckType /\ Check(w, b).why = w /\ (Check(w, b).ok <=> b)
  BY DEF Check, CheckType

\* A section that has to load.
LEMMA LoadsIs ==
    ASSUME NEW c, NEW s \in Reasons
    PROVE  Loads(c, s) \in CheckType /\ Loads(c, s).why = s /\ (Loads(c, s).ok <=> ~Unusable(c, s))
<1>1. (~Unusable(c, s)) \in BOOLEAN
  BY DEF Unusable
<1>2. PICK b \in BOOLEAN : b = ~Unusable(c, s)
  BY <1>1
<1>3. Loads(c, s) = Check(s, b)
  BY <1>2 DEF Loads
<1>4. Check(s, b) \in CheckType /\ Check(s, b).why = s /\ (Check(s, b).ok <=> b)
  BY CheckIs
<1> QED
  BY <1>2, <1>3, <1>4

\* The checks of a runtime.
LEMMA RuntimeChecks ==
    ASSUME NEW c
    PROVE  /\ BuildRuntime(c) \in Seq(CheckType) /\ Named(BuildRuntime(c))
           /\ AllOk(BuildRuntime(c)) =>
                /\ ~Unusable(c, "connect_timeout")
                /\ AuthOk(c) /\ (c.mode = "mtls" => AsksForCert(c))
<1> DEFINE t == BuildRuntime(c)
<1>1. PICK b3 \in BOOLEAN, b7 \in BOOLEAN, b8 \in BOOLEAN, b9 \in BOOLEAN, b10 \in BOOLEAN,
           b12 \in BOOLEAN, b16 \in BOOLEAN :
        /\ b3 = RateLimitOk(c) /\ b7 = AuthOk(c) /\ b8 = ForwardPolicyOk(c) /\ b9 = (c.mode = "mtls" => AsksForCert(c))
        /\ b10 = (c.header = "names" => c.client_auth # "off") /\ b12 = CorsBuilds(c) /\ b16 = DlpOk(c)
  <2>1. RateLimitOk(c) \in BOOLEAN
    BY DEF RateLimitOk
  <2>2. AuthOk(c) \in BOOLEAN
    BY DEF AuthOk
  <2>3. ForwardPolicyOk(c) \in BOOLEAN /\ CorsBuilds(c) \in BOOLEAN /\ DlpOk(c) \in BOOLEAN
    BY DEF ForwardPolicyOk, CorsBuilds, DlpOk
  <2>4. (c.mode = "mtls" => AsksForCert(c)) \in BOOLEAN /\ (c.header = "names" => c.client_auth # "off") \in BOOLEAN
    OBVIOUS
  <2> QED
    BY <2>1, <2>2, <2>3, <2>4, Zenon
<1>2. t = <<Loads(c, "outbound"), Loads(c, "forwarders"), Check("ratelimit", b3),
            Loads(c, "upstreams"), Loads(c, "upstream"), Loads(c, "connect_timeout"),
            Check("auth", b7), Check("forward", b8), Check("mtls", b9), Check("proxy_names", b10),
            Loads(c, "waf"), Check("cors", b12), Loads(c, "access"), Loads(c, "validation"),
            Loads(c, "llm"), Check("dlp", b16), Loads(c, "telemetry"), Loads(c, "alerts")>>
  BY <1>1, Zenon DEF BuildRuntime
<1> HIDE DEF t
<1>3. /\ \A s \in Reasons : Loads(c, s) \in CheckType /\ Loads(c, s).why = s
      /\ \A s \in Reasons, b \in BOOLEAN : Check(s, b) \in CheckType /\ Check(s, b).why = s
  BY LoadsIs, CheckIs
<1>4. t \in Seq(CheckType) /\ Len(t) = 18
  <2>1. /\ Loads(c, "outbound") \in CheckType /\ Loads(c, "forwarders") \in CheckType /\ Check("ratelimit", b3) \in CheckType
        /\ Loads(c, "upstreams") \in CheckType /\ Loads(c, "upstream") \in CheckType /\ Loads(c, "connect_timeout") \in CheckType
        /\ Check("auth", b7) \in CheckType /\ Check("forward", b8) \in CheckType /\ Check("mtls", b9) \in CheckType
        /\ Check("proxy_names", b10) \in CheckType /\ Loads(c, "waf") \in CheckType /\ Check("cors", b12) \in CheckType
        /\ Loads(c, "access") \in CheckType /\ Loads(c, "validation") \in CheckType /\ Loads(c, "llm") \in CheckType
        /\ Check("dlp", b16) \in CheckType /\ Loads(c, "telemetry") \in CheckType /\ Loads(c, "alerts") \in CheckType
    <3>1. /\ "outbound" \in Reasons /\ "forwarders" \in Reasons /\ "ratelimit" \in Reasons /\ "upstreams" \in Reasons /\ "upstream" \in Reasons /\ "connect_timeout" \in Reasons
          /\ "auth" \in Reasons /\ "forward" \in Reasons /\ "mtls" \in Reasons /\ "proxy_names" \in Reasons /\ "waf" \in Reasons /\ "cors" \in Reasons
          /\ "access" \in Reasons /\ "validation" \in Reasons /\ "llm" \in Reasons /\ "dlp" \in Reasons /\ "telemetry" \in Reasons /\ "alerts" \in Reasons
      BY DEF Reasons
    <3> QED
      BY <1>3, <3>1, Zenon
  <2>2. PICK e1 \in CheckType, e2 \in CheckType, e3 \in CheckType, e4 \in CheckType, e5 \in CheckType, e6 \in CheckType,
             e7 \in CheckType, e8 \in CheckType, e9 \in CheckType, e10 \in CheckType, e11 \in CheckType, e12 \in CheckType,
             e13 \in CheckType, e14 \in CheckType, e15 \in CheckType, e16 \in CheckType, e17 \in CheckType, e18 \in CheckType :
          t = <<e1, e2, e3, e4, e5, e6, e7, e8, e9, e10, e11, e12, e13, e14, e15, e16, e17, e18>>
    BY <1>2, <2>1, Zenon
  <2> QED
    BY <2>2
<1>6. t[6] = Loads(c, "connect_timeout") /\ t[7] = Check("auth", b7) /\ t[9] = Check("mtls", b9)
  BY <1>2
<1>7. DOMAIN t = 1..18
  BY <1>4
<1>8. AllOk(t) => t[6].ok /\ t[7].ok /\ t[9].ok
  <2>1. 6 \in DOMAIN t /\ 7 \in DOMAIN t /\ 9 \in DOMAIN t
    BY <1>7
  <2> QED
    BY <2>1 DEF AllOk
<1>9. Named(t)
  BY <1>4, ChecksNamed
<1>10. t[6].ok => ~Unusable(c, "connect_timeout")
  <2>1. Loads(c, "connect_timeout").ok <=> ~Unusable(c, "connect_timeout")
    BY LoadsIs, Zenon DEF Reasons
  <2> QED
    BY <1>6, <2>1, Zenon
<1>11. (t[7].ok => AuthOk(c)) /\ (t[9].ok => (c.mode = "mtls" => AsksForCert(c)))
  <2>1. (Check("auth", b7).ok <=> b7) /\ (Check("mtls", b9).ok <=> b9)
    BY CheckIs, Zenon DEF Reasons
  <2> QED
    BY <1>1, <1>6, <2>1, Zenon
<1> QED
  BY <1>4, <1>8, <1>9, <1>10, <1>11 DEF t

\* Short lists.
LEMMA ShortLists ==
    ASSUME NEW x \in CheckType, NEW y \in CheckType, NEW z \in CheckType, NEW u \in CheckType
    PROVE  /\ <<x>> \in Seq(CheckType) /\ (AllOk(<<x>>) <=> x.ok)
           /\ <<x, y>> \in Seq(CheckType) /\ (AllOk(<<x, y>>) <=> x.ok /\ y.ok)
           /\ <<x, y, z>> \in Seq(CheckType) /\ (AllOk(<<x, y, z>>) <=> x.ok /\ y.ok /\ z.ok)
           /\ <<x, y, z, u>> \in Seq(CheckType) /\ (AllOk(<<x, y, z, u>>) <=> x.ok /\ y.ok /\ z.ok /\ u.ok)
<1>1. <<x>> \in Seq(CheckType) /\ (AllOk(<<x>>) <=> x.ok)
  <2>1. DOMAIN <<x>> = {1} /\ <<x>>[1] = x
    OBVIOUS
  <2> QED
    BY <2>1 DEF AllOk
<1>2. <<x, y>> \in Seq(CheckType) /\ (AllOk(<<x, y>>) <=> x.ok /\ y.ok)
  <2>1. DOMAIN <<x, y>> = {1, 2} /\ <<x, y>>[1] = x /\ <<x, y>>[2] = y
    OBVIOUS
  <2> QED
    BY <2>1 DEF AllOk
<1>3. <<x, y, z>> \in Seq(CheckType) /\ (AllOk(<<x, y, z>>) <=> x.ok /\ y.ok /\ z.ok)
  <2>1. DOMAIN <<x, y, z>> = {1, 2, 3} /\ <<x, y, z>>[1] = x /\ <<x, y, z>>[2] = y /\ <<x, y, z>>[3] = z
    OBVIOUS
  <2> QED
    BY <2>1 DEF AllOk
<1>4. <<x, y, z, u>> \in Seq(CheckType) /\ (AllOk(<<x, y, z, u>>) <=> x.ok /\ y.ok /\ z.ok /\ u.ok)
  <2>1. /\ DOMAIN <<x, y, z, u>> = {1, 2, 3, 4} /\ <<x, y, z, u>>[1] = x /\ <<x, y, z, u>>[2] = y
        /\ <<x, y, z, u>>[3] = z /\ <<x, y, z, u>>[4] = u
    OBVIOUS
  <2> QED
    BY <2>1 DEF AllOk
<1> QED
  BY <1>1, <1>2, <1>3, <1>4

RefusedBy(why, x, y, z, u) ==
    \/ why = x.why /\ ~x.ok
    \/ why = y.why /\ ~y.ok /\ x.ok
    \/ why = z.why /\ ~z.ok /\ x.ok
    \/ why = u.why /\ ~u.ok /\ x.ok

\* A list refuses with the reason of a check that fails behind ones that pass.
LEMMA FirstOfFour ==
    ASSUME NEW x \in CheckType, NEW y \in CheckType, NEW z \in CheckType, NEW u \in CheckType
    PROVE  /\ Refusal(<<x, y, z, u>>) = "" <=> x.ok /\ y.ok /\ z.ok /\ u.ok
           /\ Refusal(<<x, y, z, u>>) # "" => RefusedBy(Refusal(<<x, y, z, u>>), x, y, z, u)
<1> DEFINE t == <<x, y, z, u>>
<1>1. t \in Seq(CheckType) /\ (AllOk(t) <=> x.ok /\ y.ok /\ z.ok /\ u.ok)
  BY ShortLists
<1>2. t[1] = x /\ t[2] = y /\ t[3] = z /\ t[4] = u /\ Len(t) = 4
  OBVIOUS
<1> HIDE DEF t
<1>3. Named(t)
  BY <1>1, ChecksNamed
<1>4. /\ Refusal(t) = "" <=> AllOk(t)
      /\ ~AllOk(t) => \E i \in 1..Len(t) :
           ~t[i].ok /\ Refusal(t) = t[i].why /\ \A j \in 1..(i - 1) : t[j].ok
  BY <1>1, <1>3, RefusalIs
<1>5. ASSUME ~AllOk(t)
      PROVE  RefusedBy(Refusal(t), x, y, z, u)
  <2>1. PICK i \in 1..4 : ~t[i].ok /\ Refusal(t) = t[i].why /\ \A j \in 1..(i - 1) : t[j].ok
    BY <1>2, <1>4, <1>5, Zenon
  <2>2. i = 1 \/ (i \in {2, 3, 4} /\ 1 \in 1..(i - 1))
    OBVIOUS
  <2>3. i = 1 \/ i = 2 \/ i = 3 \/ i = 4
    OBVIOUS
  <2> QED
    BY <1>2, <2>1, <2>2, <2>3, Zenon DEF RefusedBy
<1> QED
  BY <1>1, <1>4, <1>5 DEF t

\* What build_state and the policy check.
LEMMA StateChecks ==
    ASSUME NEW c
    PROVE  LET r == Refusal(BuildState(c) \o Managed(c))
           IN /\ r # "" => \/ ~CpClientOk(c) \/ Unusable(c, "upstream_tls") \/ Refusal(BuildRuntime(c)) # ""
                           \/ ~TrustedHeaderOk(c) \/ c.boot = "typo" \/ (EnforceQuota(c) /\ ~c.managed)
              /\ r = "" => /\ ~Unusable(c, "upstream_tls") /\ TrustedHeaderOk(c) /\ c.boot # "typo"
                           /\ AuthOk(c) /\ (c.mode = "mtls" => AsksForCert(c))
<1>1. PICK b1 \in BOOLEAN, b2 \in BOOLEAN, b3 \in BOOLEAN, b4 \in BOOLEAN :
        /\ b1 = CpClientOk(c) /\ b2 = TrustedHeaderOk(c) /\ b3 = (c.boot # "typo")
        /\ b4 = (EnforceQuota(c) => c.managed)
  <2>1. CpClientOk(c) \in BOOLEAN /\ TrustedHeaderOk(c) \in BOOLEAN
    BY DEF CpClientOk, TrustedHeaderOk
  <2>2. (c.boot # "typo") \in BOOLEAN /\ (EnforceQuota(c) => c.managed) \in BOOLEAN
    OBVIOUS
  <2> QED
    BY <2>1, <2>2, Zenon
<1> DEFINE x == Check("control_plane", b1)
           y == Loads(c, "upstream_tls")
           z == Loads(c, "connect_timeout")
           h == Check("header", b2)
           p == Check("boot_without_policy", b3)
           q == Check("enforce_quota", b4)
           d == BuildRuntime(c)
<1>2. BuildState(c) = <<x, y, z>> \o d \o <<h>> /\ Managed(c) = <<p, q>>
  BY <1>1, Zenon DEF BuildState, Managed
<1>3. /\ "control_plane" \in Reasons /\ "upstream_tls" \in Reasons /\ "connect_timeout" \in Reasons
      /\ "header" \in Reasons /\ "boot_without_policy" \in Reasons /\ "enforce_quota" \in Reasons
  BY DEF Reasons
<1>4. /\ x \in CheckType /\ y \in CheckType /\ z \in CheckType /\ h \in CheckType /\ p \in CheckType /\ q \in CheckType
      /\ (x.ok <=> CpClientOk(c)) /\ (y.ok <=> ~Unusable(c, "upstream_tls")) /\ (z.ok <=> ~Unusable(c, "connect_timeout"))
      /\ (h.ok <=> TrustedHeaderOk(c)) /\ (p.ok <=> c.boot # "typo") /\ (q.ok <=> (EnforceQuota(c) => c.managed))
  <2>1. x \in CheckType /\ h \in CheckType /\ p \in CheckType /\ q \in CheckType
        /\ (x.ok <=> b1) /\ (h.ok <=> b2) /\ (p.ok <=> b3) /\ (q.ok <=> b4)
    BY <1>3, CheckIs, Zenon
  <2>2. y \in CheckType /\ z \in CheckType /\ (y.ok <=> ~Unusable(c, "upstream_tls")) /\ (z.ok <=> ~Unusable(c, "connect_timeout"))
    BY <1>3, LoadsIs, Zenon
  <2> HIDE DEF x, y, z, h, p, q
  <2> QED
    BY <1>1, <2>1, <2>2, Zenon
<1> HIDE DEF x, y, z, h, p, q
<1>5. /\ <<x, y, z>> \in Seq(CheckType) /\ (AllOk(<<x, y, z>>) <=> x.ok /\ y.ok /\ z.ok)
      /\ <<h>> \in Seq(CheckType) /\ (AllOk(<<h>>) <=> h.ok)
      /\ <<p, q>> \in Seq(CheckType) /\ (AllOk(<<p, q>>) <=> p.ok /\ q.ok)
  BY <1>4, ShortLists, Zenon
<1>6. /\ d \in Seq(CheckType) /\ Named(d)
      /\ AllOk(d) => ~Unusable(c, "connect_timeout") /\ AuthOk(c) /\ (c.mode = "mtls" => AsksForCert(c))
  BY RuntimeChecks
<1>7. Refusal(d) = "" <=> AllOk(d)
  BY <1>6, RefusalIs
<1> HIDE DEF d
<1>8. PICK f \in Seq(CheckType) : f = <<x, y, z>> \o d /\ (AllOk(f) <=> AllOk(<<x, y, z>>) /\ AllOk(d))
  BY <1>5, <1>6, AllOkBehind, Zenon
<1>9. PICK g \in Seq(CheckType) : g = f \o <<h>> /\ (AllOk(g) <=> AllOk(f) /\ AllOk(<<h>>))
  BY <1>5, AllOkBehind, Zenon
<1>10. PICK w \in Seq(CheckType) : w = g \o <<p, q>> /\ (AllOk(w) <=> AllOk(g) /\ AllOk(<<p, q>>))
  BY <1>5, AllOkBehind, Zenon
<1>11. BuildState(c) \o Managed(c) = w
  BY <1>2, <1>8, <1>9, <1>10, Zenon
<1>12. Refusal(w) = "" <=> AllOk(w)
  BY ChecksNamed, RefusalIs
<1>13. AllOk(w) <=> x.ok /\ y.ok /\ z.ok /\ AllOk(d) /\ h.ok /\ p.ok /\ q.ok
  BY <1>5, <1>8, <1>9, <1>10, Zenon
<1>14. Refusal(w) = "" <=> /\ CpClientOk(c) /\ ~Unusable(c, "upstream_tls") /\ ~Unusable(c, "connect_timeout")
                           /\ AllOk(d) /\ TrustedHeaderOk(c) /\ c.boot # "typo" /\ (EnforceQuota(c) => c.managed)
  BY <1>4, <1>12, <1>13, Zenon
<1> QED
  BY <1>6, <1>7, <1>11, <1>14, Zenon DEF d

\* One check before three.
LEMMA OneAndThree ==
    ASSUME NEW x \in CheckType, NEW y \in CheckType, NEW z \in CheckType, NEW u \in CheckType
    PROVE  <<x>> \o <<y, z, u>> = <<x, y, z, u>>
<1>1. <<x>> \in Seq(CheckType) /\ <<y, z, u>> \in Seq(CheckType) /\ <<x, y, z, u>> \in Seq(CheckType)
  OBVIOUS
<1>2. Len(<<x>>) = 1 /\ Len(<<y, z, u>>) = 3 /\ Len(<<x, y, z, u>>) = 4
  OBVIOUS
<1> DEFINE a == <<x>> \o <<y, z, u>>
           b == <<x, y, z, u>>
<1>3. a \in Seq(CheckType) /\ Len(a) = 4
      /\ \A i \in 1..4 : a[i] = IF i <= 1 THEN <<x>>[i] ELSE <<y, z, u>>[i - 1]
  BY <1>1, <1>2, ConcatProperties
<1>4. a[1] = x /\ a[2] = y /\ a[3] = z /\ a[4] = u
  <2> HIDE DEF a
  <2>1. a[1] = <<x>>[1] /\ a[2] = <<y, z, u>>[1] /\ a[3] = <<y, z, u>>[2] /\ a[4] = <<y, z, u>>[3]
    BY <1>3
  <2> QED
    BY <2>1
<1>5. b[1] = x /\ b[2] = y /\ b[3] = z /\ b[4] = u /\ b \in Seq(CheckType) /\ Len(b) = 4
  BY <1>1, <1>2
<1> HIDE DEF a, b
<1>6. \A i \in 1..4 : i = 1 \/ i = 2 \/ i = 3 \/ i = 4
  OBVIOUS
<1>7. a = b
  <2>1. \A i \in 1..Len(a) : a[i] = b[i]
    BY <1>3, <1>4, <1>5, <1>6
  <2> QED
    BY <1>3, <1>5, <2>1, SeqEqual
<1> QED
  BY <1>7 DEF a, b

\* A list of two or of three refuses for the check that fails.
LEMMA FirstOfThree ==
    ASSUME NEW x \in CheckType, NEW y \in CheckType, NEW z \in CheckType
    PROVE  /\ Refusal(<<x>>) = "" <=> x.ok
           /\ Refusal(<<x, y>>) = "" <=> x.ok /\ y.ok
           /\ Refusal(<<x, y>>) # "" => \/ Refusal(<<x, y>>) = x.why /\ ~x.ok
                                        \/ Refusal(<<x, y>>) = y.why /\ ~y.ok
           /\ Refusal(<<x, y, z>>) = "" <=> x.ok /\ y.ok /\ z.ok
<1>1. Refusal(<<x>>) = "" <=> x.ok
  <2> DEFINE t == <<x>>
  <2>1. t \in Seq(CheckType) /\ (AllOk(t) <=> x.ok)
    BY ShortLists
  <2> HIDE DEF t
  <2>2. Refusal(t) = "" <=> AllOk(t)
    BY <2>1, ChecksNamed, RefusalIs
  <2> QED
    BY <2>1, <2>2 DEF t
<1>2. Refusal(<<x, y, z>>) = "" <=> x.ok /\ y.ok /\ z.ok
  <2> DEFINE t == <<x, y, z>>
  <2>1. t \in Seq(CheckType) /\ (AllOk(t) <=> x.ok /\ y.ok /\ z.ok)
    BY ShortLists
  <2> HIDE DEF t
  <2>2. Refusal(t) = "" <=> AllOk(t)
    BY <2>1, ChecksNamed, RefusalIs
  <2> QED
    BY <2>1, <2>2 DEF t
<1>3. /\ Refusal(<<x, y>>) = "" <=> x.ok /\ y.ok
      /\ Refusal(<<x, y>>) # "" => \/ Refusal(<<x, y>>) = x.why /\ ~x.ok
                                   \/ Refusal(<<x, y>>) = y.why /\ ~y.ok
  <2> DEFINE t == <<x, y>>
  <2>1. t \in Seq(CheckType) /\ (AllOk(t) <=> x.ok /\ y.ok)
    BY ShortLists
  <2>2. t[1] = x /\ t[2] = y /\ Len(t) = 2
    OBVIOUS
  <2> HIDE DEF t
  <2>3. /\ Refusal(t) = "" <=> AllOk(t)
        /\ ~AllOk(t) => \E i \in 1..Len(t) : ~t[i].ok /\ Refusal(t) = t[i].why
    BY <2>1, ChecksNamed, RefusalIs
  <2>4. ASSUME ~AllOk(t)
        PROVE  (Refusal(t) = x.why /\ ~x.ok) \/ (Refusal(t) = y.why /\ ~y.ok)
    <3>1. PICK i \in 1..2 : ~t[i].ok /\ Refusal(t) = t[i].why
      BY <2>2, <2>3, <2>4, Zenon
    <3>2. i = 1 \/ i = 2
      OBVIOUS
    <3> QED
      BY <2>2, <3>1, <3>2, Zenon
  <2> QED
    BY <2>1, <2>3, <2>4 DEF t
<1> QED
  BY <1>1, <1>2, <1>3

\* The checks before a start builds anything.
LEMMA StartChecks ==
    ASSUME NEW c
    PROVE  Refusal(<<Check("load", LoadOk(c)), Loads(c, "listener"), Check("client_auth", ClientAuthOk(c))>>) = ""
             <=> LoadOk(c) /\ ~Unusable(c, "listener") /\ ClientAuthOk(c)
<1>1. LoadOk(c) \in BOOLEAN /\ ClientAuthOk(c) \in BOOLEAN
  BY DEF LoadOk, ClientAuthOk
<1>2. PICK a \in BOOLEAN, b \in BOOLEAN : a = LoadOk(c) /\ b = ClientAuthOk(c)
  BY <1>1, Zenon
<1>3. "load" \in Reasons /\ "listener" \in Reasons /\ "client_auth" \in Reasons
  BY DEF Reasons
<1> DEFINE x == Check("load", a)
           y == Loads(c, "listener")
           z == Check("client_auth", b)
<1>4. x \in CheckType /\ y \in CheckType /\ z \in CheckType /\ (x.ok <=> a) /\ (y.ok <=> ~Unusable(c, "listener")) /\ (z.ok <=> b)
  BY <1>3, CheckIs, LoadsIs, Zenon
<1>5. <<Check("load", LoadOk(c)), Loads(c, "listener"), Check("client_auth", ClientAuthOk(c))>> = <<x, y, z>>
  BY <1>2, Zenon
<1> HIDE DEF x, y, z
<1>6. Refusal(<<x, y, z>>) = "" <=> x.ok /\ y.ok /\ z.ok
  BY <1>4, FirstOfThree, Zenon
<1> QED
  BY <1>2, <1>4, <1>5, <1>6, Zenon

\* The check of the collectors.
LEMMA CollectorChecks ==
    ASSUME NEW c
    PROVE  Refusal(<<Check("collectors", CollectorsOk(c))>>) = "" <=> CollectorsOk(c)
<1>1. CollectorsOk(c) \in BOOLEAN
  BY DEF CollectorsOk
<1>2. PICK a \in BOOLEAN : a = CollectorsOk(c)
  BY <1>1, Zenon
<1>3. "collectors" \in Reasons
  BY DEF Reasons
<1> DEFINE x == Check("collectors", a)
<1>4. x \in CheckType /\ (x.ok <=> a)
  BY <1>3, CheckIs, Zenon
<1>5. <<Check("collectors", CollectorsOk(c))>> = <<x>>
  BY <1>2, Zenon
<1> HIDE DEF x
<1>6. Refusal(<<x>>) = "" <=> x.ok
  BY <1>4, FirstOfThree, Zenon
<1> QED
  BY <1>2, <1>4, <1>5, <1>6, Zenon

\* The checks before a certificate is ordered or read.
LEMMA RedirectChecks ==
    ASSUME NEW c
    PROVE  LET r == Refusal(<<Check("redirect_status", RedirectOk(c)), Check("acme", c.acme => ~Unusable(c, "acme"))>>)
           IN /\ r = "" => (c.acme => ~Unusable(c, "acme"))
              /\ r # "" => \/ r = "redirect_status" /\ ~RedirectOk(c)
                           \/ r = "acme" /\ c.acme /\ Unusable(c, "acme")
<1>1. RedirectOk(c) \in BOOLEAN /\ (c.acme => ~Unusable(c, "acme")) \in BOOLEAN
  BY DEF RedirectOk
<1>2. PICK a \in BOOLEAN, b \in BOOLEAN : a = RedirectOk(c) /\ b = (c.acme => ~Unusable(c, "acme"))
  BY <1>1, Zenon
<1>3. "redirect_status" \in Reasons /\ "acme" \in Reasons
  BY DEF Reasons
<1> DEFINE x == Check("redirect_status", a)
           y == Check("acme", b)
<1>4. x \in CheckType /\ y \in CheckType /\ (x.ok <=> a) /\ (y.ok <=> b) /\ x.why = "redirect_status" /\ y.why = "acme"
  BY <1>3, CheckIs, Zenon
<1>5. <<Check("redirect_status", RedirectOk(c)), Check("acme", c.acme => ~Unusable(c, "acme"))>> = <<x, y>>
  BY <1>2, Zenon
<1> HIDE DEF x, y
<1>6. /\ Refusal(<<x, y>>) = "" <=> x.ok /\ y.ok
      /\ Refusal(<<x, y>>) # "" => \/ Refusal(<<x, y>>) = x.why /\ ~x.ok
                                   \/ Refusal(<<x, y>>) = y.why /\ ~y.ok
  BY <1>4, FirstOfThree, Zenon
<1> QED
  BY <1>2, <1>4, <1>5, <1>6, Zenon

\* The checks of an order.
LEMMA OrderChecks ==
    ASSUME NEW c
    PROVE  LET r == Refusal(AcmeChecks(c))
           IN /\ r = "" => c.paths
              /\ r # "" => \/ r = "acme_settings"
                           \/ c.challenge = "typo" \/ (c.wildcard /\ c.challenge # "dns-01")
                           \/ (c.challenge = "dns-01" /\ Unusable(c, "acme.dns"))
<1>1. PICK a1 \in BOOLEAN, a2 \in BOOLEAN, a3 \in BOOLEAN, a4 \in BOOLEAN :
        /\ a1 = (c.domains /\ c.paths) /\ a2 = (c.challenge # "typo") /\ a3 = (c.wildcard => c.challenge = "dns-01")
        /\ a4 = (c.challenge = "dns-01" => ~Unusable(c, "acme.dns"))
  <2>1. /\ (c.domains /\ c.paths) \in BOOLEAN /\ (c.challenge # "typo") \in BOOLEAN
        /\ (c.wildcard => c.challenge = "dns-01") \in BOOLEAN
        /\ (c.challenge = "dns-01" => ~Unusable(c, "acme.dns")) \in BOOLEAN
    OBVIOUS
  <2> QED
    BY <2>1, Zenon
<1>2. "acme_settings" \in Reasons /\ "acme_challenge" \in Reasons
  BY DEF Reasons
<1> DEFINE x == Check("acme_settings", a1)
           y == Check("acme_challenge", a2)
           z == Check("acme_challenge", a3)
           u == Check("acme_challenge", a4)
<1>3. /\ x \in CheckType /\ y \in CheckType /\ z \in CheckType /\ u \in CheckType
      /\ (x.ok <=> a1) /\ (y.ok <=> a2) /\ (z.ok <=> a3) /\ (u.ok <=> a4) /\ x.why = "acme_settings"
  BY <1>2, CheckIs, Zenon
<1>4. AcmeChecks(c) = <<x, y, z, u>>
  BY <1>1, Zenon DEF AcmeChecks
<1> HIDE DEF x, y, z, u
<1>5. /\ Refusal(<<x, y, z, u>>) = "" <=> x.ok /\ y.ok /\ z.ok /\ u.ok
      /\ Refusal(<<x, y, z, u>>) # "" => RefusedBy(Refusal(<<x, y, z, u>>), x, y, z, u)
  BY <1>3, FirstOfFour, Zenon
<1> QED
  BY <1>1, <1>3, <1>4, <1>5, Zenon DEF RefusedBy

\* The checks of the pairs.
LEMMA PairChecks ==
    ASSUME NEW c, NEW pair
    PROVE  LET r == Refusal(<<Check("certificate", c.paths /\ pair \in Loadable)>> \o ExtraChecks(c))
           IN /\ r = "" => c.paths /\ c.extra # "unreadable"
              /\ r # "" => \/ r \in {"certificate", "extra_mismatch"}
                           \/ r = "extra_unreadable" /\ c.paths /\ c.extra = "unreadable"
                           \/ r = "extra_hosts" /\ c.paths /\ c.extra \in {"no_hosts", "bad_host"}
<1>1. PICK a1 \in BOOLEAN, a2 \in BOOLEAN, a3 \in BOOLEAN, a4 \in BOOLEAN :
        /\ a1 = (c.paths /\ pair \in Loadable) /\ a2 = (c.extra # "unreadable") /\ a3 = (c.extra # "mismatch")
        /\ a4 = (c.extra \notin {"no_hosts", "bad_host"})
  <2>1. /\ (c.paths /\ pair \in Loadable) \in BOOLEAN /\ (c.extra # "unreadable") \in BOOLEAN
        /\ (c.extra # "mismatch") \in BOOLEAN /\ (c.extra \notin {"no_hosts", "bad_host"}) \in BOOLEAN
    OBVIOUS
  <2> QED
    BY <2>1, Zenon
<1>2. "certificate" \in Reasons /\ "extra_unreadable" \in Reasons /\ "extra_mismatch" \in Reasons /\ "extra_hosts" \in Reasons
  BY DEF Reasons
<1> DEFINE x == Check("certificate", a1)
           y == Check("extra_unreadable", a2)
           z == Check("extra_mismatch", a3)
           u == Check("extra_hosts", a4)
<1>3. /\ x \in CheckType /\ y \in CheckType /\ z \in CheckType /\ u \in CheckType
      /\ (x.ok <=> a1) /\ (y.ok <=> a2) /\ (z.ok <=> a3) /\ (u.ok <=> a4)
      /\ x.why = "certificate" /\ y.why = "extra_unreadable" /\ z.why = "extra_mismatch" /\ u.why = "extra_hosts"
  BY <1>2, CheckIs, Zenon
<1>4. <<Check("certificate", c.paths /\ pair \in Loadable)>> \o ExtraChecks(c) = <<x, y, z, u>>
  <2>1. Check("certificate", c.paths /\ pair \in Loadable) = x /\ ExtraChecks(c) = <<y, z, u>>
    BY <1>1, Zenon DEF ExtraChecks
  <2> HIDE DEF x, y, z, u
  <2>2. <<x>> \o <<y, z, u>> = <<x, y, z, u>>
    BY <1>3, OneAndThree, SMT
  <2> QED
    BY <2>1, <2>2, Zenon
<1> HIDE DEF x, y, z, u
<1>5. /\ Refusal(<<x, y, z, u>>) = "" <=> x.ok /\ y.ok /\ z.ok /\ u.ok
      /\ Refusal(<<x, y, z, u>>) # "" => RefusedBy(Refusal(<<x, y, z, u>>), x, y, z, u)
  BY <1>3, FirstOfFour, Zenon
<1> QED
  BY <1>1, <1>3, <1>4, <1>5, Zenon DEF RefusedBy

\* What doctor fails a deploy for, of all that a start refuses.
Foretold(c) ==
    \/ ~LoadOk(c) \/ Unusable(c, "listener") \/ ~ClientAuthOk(c)
    \/ ~CpClientOk(c) \/ Unusable(c, "upstream_tls") \/ Refusal(BuildRuntime(c)) # "" \/ ~TrustedHeaderOk(c)
    \/ c.boot = "typo" \/ (EnforceQuota(c) /\ ~c.managed)
    \/ ~CollectorsOk(c)
    \/ c.tls /\ ~RedirectOk(c) /\ c.redirect_status \notin 300..399
    \/ c.acme /\ \/ Unusable(c, "acme") \/ c.challenge = "typo" \/ (c.wildcard /\ c.challenge # "dns-01")
                 \/ (c.challenge = "dns-01" /\ Unusable(c, "acme.dns"))
    \/ c.tls /\ c.self_signed /\ ~c.paths
    \/ c.tls /\ c.paths /\ c.pair \notin {"none", "unreadable"} /\ c.extra \in {"unreadable", "no_hosts", "bad_host"}

\* It does.
LEMMA DoctorFails ==
    ASSUME NEW c \in EdgeConfigs, Foretold(c)
    PROVE  DoctorErrors(c, c.pair) # {}
<1>1. CASE ~LoadOk(c)
  BY <1>1 DEF DoctorErrors
<1>2. CASE LoadOk(c)
  <2> DEFINE e == DoctorErrors(c, c.pair)
  <2>1. e = Lint(c, c.pair) \cup When(~CpClientOk(c), "cp") \cup When(Refusal(BuildRuntime(c)) # "", "runtime")
    BY <1>2, Zenon DEF DoctorErrors
  <2> HIDE DEF e
  <2>2. /\ ~CpClientOk(c) => "cp" \in e
        /\ Refusal(BuildRuntime(c)) # "" => "runtime" \in e
    BY <2>1, Zenon DEF When
  <2>3. /\ LintListener(c) \subseteq e /\ LintUpstreamTls(c) \subseteq e /\ LintTls(c) \subseteq e /\ LintClientAuth(c) \subseteq e
        /\ LintCertExpiry(c, c.pair) \subseteq e /\ LintTrustedHeader(c) \subseteq e /\ LintControlPlane(c) \subseteq e
        /\ LintOutbound(c) \subseteq e
    <3>1. Lint(c, c.pair) \subseteq e
      BY <2>1, Zenon
    <3> QED
      BY <3>1, Zenon DEF Lint
  <2>4. /\ Unusable(c, "listener") => "listener" \in e
        /\ ~ClientAuthOk(c) => "client_auth" \in e
        /\ ~TrustedHeaderOk(c) => "header" \in e
        /\ Unusable(c, "upstream_tls") => "upstream_tls" \in e
        /\ c.boot = "typo" => "boot_without_policy" \in e
        /\ EnforceQuota(c) /\ ~c.managed => "enforce_quota" \in e
    BY <2>3, Zenon DEF LintListener, LintClientAuth, LintTrustedHeader, LintUpstreamTls, LintControlPlane, When
  <2>5. ~CollectorsOk(c) => e # {}
    <3>1. SUFFICES ASSUME ~CollectorsOk(c) PROVE e # {}
      OBVIOUS
    <3>2. PICK s \in c.collectors : s \in c.broken
      BY <3>1 DEF CollectorsOk, Unusable
    <3> QED
      BY <2>3, <3>2 DEF LintOutbound
  <2>6. LintAcme(c) \subseteq e /\ (c.tls => LintRedirect(c) \subseteq e /\ When(c.self_signed /\ ~c.paths, "self_signed_paths") \subseteq e)
    BY <2>3, Zenon DEF LintTls
  <2>7. c.tls /\ ~RedirectOk(c) /\ c.redirect_status \notin 300..399 => e # {}
    <3>1. SUFFICES ASSUME c.tls, ~RedirectOk(c), c.redirect_status \notin 300..399 PROVE LintRedirect(c) # {}
      BY <2>6, Zenon
    <3>2. c.redirect_port # 0
      BY <3>1 DEF RedirectOk
    <3> QED
      BY <3>1, <3>2 DEF LintRedirect, When
  <2>8. c.acme /\ \/ Unusable(c, "acme") \/ c.challenge = "typo" \/ (c.wildcard /\ c.challenge # "dns-01")
                  \/ (c.challenge = "dns-01" /\ Unusable(c, "acme.dns"))
          => e # {}
    <3>1. c.challenge \in {"http-01", "dns-01", "typo"}
      BY ConfigsAssumption
    <3>2. SUFFICES ASSUME c.acme, \/ Unusable(c, "acme") \/ c.challenge = "typo" \/ (c.wildcard /\ c.challenge # "dns-01")
                                  \/ (c.challenge = "dns-01" /\ Unusable(c, "acme.dns"))
                   PROVE  LintAcme(c) # {}
      BY <2>6, Zenon
    <3> QED
      BY <3>1, <3>2 DEF LintAcme, When
  <2>9. c.tls /\ c.self_signed /\ ~c.paths => e # {}
    BY <2>6 DEF When
  <2>10. c.tls /\ c.paths /\ c.pair \notin {"none", "unreadable"} /\ c.extra \in {"unreadable", "no_hosts", "bad_host"} => e # {}
    BY <2>3 DEF LintCertExpiry, When
  <2>11. e # {}
    BY Foretold(c), <1>2, <2>2, <2>4, <2>5, <2>7, <2>8, <2>9, <2>10, Zenon DEF Foretold
  <2> QED
    BY <2>11 DEF e
<1> QED
  BY <1>1, <1>2

Started == {"building", "admin", "collectors", "redirect_status", "acme", "self_signed", "certificates", "redirect", "public", "serving"}
Built == Started \ {"building"}
Collected == Built \ {"admin", "collectors"}
Listening == {"public", "serving"}
Phases == Started \cup {"off", "refused"}

\* What a start that has come this far has passed.
Passed(c, phase) ==
    /\ phase \in Started => LoadOk(c) /\ ~Unusable(c, "listener") /\ ClientAuthOk(c)
    /\ phase \in Built => /\ ~Unusable(c, "upstream_tls") /\ TrustedHeaderOk(c) /\ c.boot # "typo"
                          /\ AuthOk(c) /\ (c.mode = "mtls" => AsksForCert(c))
    /\ phase \in Collected => CollectorsOk(c) /\ (phase \in Listening \/ c.tls)
    /\ phase = "acme" => c.acme
    /\ phase \in Collected \ {"redirect_status"} => (c.tls /\ c.acme => ~Unusable(c, "acme"))
    /\ phase \in {"redirect"} \cup Listening => (c.tls => c.paths /\ c.extra # "unreadable")

\* What doctor prints.
Printed(c) == [run |-> TRUE, errors |-> DoctorErrors(c, c.pair),
               warnings |-> IF LoadOk(c) THEN Warnings(c) ELSE {},
               nudges |-> IF LoadOk(c) THEN Nudges(c) ELSE {}]

\* An edge that serves passed everything that doctor says a start refuses.
LEMMA ServesDespite ==
    ASSUME NEW c, Passed(c, "serving")
    PROVE  DoctorErrors(c, c.pair) \cap SaysRefuses \subseteq (IF c.tls THEN {} ELSE {"acme"})
<1>1. "serving" \in Started /\ "serving" \in Built /\ "serving" \in Collected \ {"redirect_status"}
      /\ "serving" \in {"redirect"} \cup Listening
  BY DEF Started, Built, Collected, Listening
<1>2. /\ LoadOk(c) /\ ~Unusable(c, "listener") /\ ClientAuthOk(c)
      /\ ~Unusable(c, "upstream_tls") /\ TrustedHeaderOk(c) /\ c.boot # "typo"
      /\ CollectorsOk(c)
      /\ (c.tls /\ c.acme => ~Unusable(c, "acme"))
      /\ (c.tls => c.paths /\ c.extra # "unreadable")
  BY <1>1, Zenon DEF Passed
<1> DEFINE allowed == IF c.tls THEN {} ELSE {"acme"}
<1>3. SUFFICES ASSUME NEW e \in DoctorErrors(c, c.pair), e \in SaysRefuses PROVE e \in allowed
  OBVIOUS
<1>4. e \in {"listener", "upstream_tls", "acme", "no_certificate", "client_auth", "header", "extra_unreadable",
             "boot_without_policy", "log.ship", "tracing", "metrics.otlp"}
  BY <1>3 DEF SaysRefuses, Collectors
<1>5. e \in Lint(c, c.pair)
  <2>1. e # "cp" /\ e # "runtime"
    BY <1>4
  <2> QED
    BY <1>2, <1>3, <2>1 DEF DoctorErrors, When
<1>6. e \notin LintListener(c) /\ e \notin LintUpstreamTls(c) /\ e \notin LintClientAuth(c) /\ e \notin LintTrustedHeader(c)
  BY <1>2 DEF LintListener, LintUpstreamTls, LintClientAuth, LintTrustedHeader, When
<1>7. e \notin LintOutbound(c)
  BY <1>2 DEF LintOutbound, CollectorsOk, Unusable
<1>8. e \notin LintAuth(c) /\ e \notin LintRatelimit(c)
  BY <1>4 DEF LintAuth, LintRatelimit, When
<1>9. e \notin LintCors(c) /\ e \notin LintUnknownKeys(c) /\ e \notin LintProxyProtocol(c)
  BY <1>4 DEF LintCors, LintUnknownKeys, LintProxyProtocol, When
<1>10. e \notin LintControlPlane(c)
  BY <1>2, <1>4 DEF LintControlPlane, When
<1>11. e \notin LintCertExpiry(c, c.pair)
  BY <1>2, <1>4 DEF LintCertExpiry, When
<1>12. e \in LintTls(c)
  BY <1>5, <1>6, <1>7, <1>8, <1>9, <1>10, <1>11, Zenon DEF Lint
<1>13. e \notin LintRedirect(c)
  BY <1>4 DEF LintRedirect, When
<1>14. ASSUME c.tls PROVE FALSE
  <2>1. e \notin LintAcme(c)
    BY <1>2, <1>4, <1>14 DEF LintAcme, When
  <2> QED
    BY <1>2, <1>4, <1>12, <1>13, <1>14, <2>1 DEF LintTls, When
<1>15. ASSUME ~c.tls PROVE e = "acme"
  <2>1. e \in LintAcme(c)
    BY <1>12, <1>15 DEF LintTls
  <2> QED
    BY <1>4, <2>1 DEF LintAcme, When
<1> QED
  BY <1>14, <1>15

\* An edge that serves after a clean doctor lets somebody in.
LEMMA DoorIsKnown ==
    ASSUME NEW c \in EdgeConfigs, Passed(c, "serving"), DoctorErrors(c, c.pair) = {}
    PROVE  /\ c.mode = "basic" => c.users \in {"hash", "plain"}
           /\ c.mode = "apikey" => EnvOrFile(c.keys) # "none"
           /\ c.mode = "jwt" => c.jwt_keys # "none"
           /\ c.mode = "mtls" => AsksForCert(c)
           /\ c.mode \in {"none", "basic", "apikey", "jwt", "mtls"}
           /\ c.mode = "none" => "open" \in Printed(c).warnings
<1>1. "serving" \in Started /\ "serving" \in Built
  BY DEF Started, Built
<1>2. LoadOk(c) /\ AuthOk(c) /\ (c.mode = "mtls" => AsksForCert(c))
  BY <1>1, Zenon DEF Passed
<1>3. LintAuth(c) = {}
  BY <1>2, Zenon DEF DoctorErrors, Lint
<1>4. c.users \in {"none", "placeholder", "hash", "plain"}
  BY ConfigsAssumption
<1>5. c.mode = "basic" => c.users \in {"hash", "plain"}
  BY <1>3, <1>4 DEF LintAuth, When
<1>6. c.mode = "apikey" => EnvOrFile(c.keys) # "none"
  BY <1>3 DEF LintAuth, When, Set
<1>7. c.mode = "jwt" => c.jwt_keys # "none"
  BY <1>3 DEF LintAuth, When
<1>8. c.mode \in {"none", "basic", "apikey", "jwt", "mtls"}
  BY <1>2 DEF AuthOk
<1>9. c.mode = "none" => "open" \in Printed(c).warnings
  <2>1. Printed(c).warnings = IF LoadOk(c) THEN Warnings(c) ELSE {}
    BY DEF Printed
  <2> QED
    BY <1>2, <2>1, Zenon DEF Warnings, When
<1> QED
  BY <1>2, <1>5, <1>6, <1>7, <1>8, <1>9

\* A secret that is set and not from the environment is the file's.
LEMMA NudgedIsFile ==
    ASSUME NEW c, NEW s \in Nudges(c)
    PROVE  EnvOrFile(c[s]) = "file"
  BY DEF Nudges, Set, EnvSourced, EnvOrFile

BootShape == /\ DOMAIN boot = {"phase", "why", "bound", "issued", "starts", "effective"}
             /\ boot.phase \in Phases
Informed ==
    \/ printed = Untold /\ disk = conf.pair /\ boot.phase = "off"
    \/ printed = Printed(conf)
Refused == boot.phase = "refused" => Unforetold(conf, boot.why) \/ Foretold(conf)
Issuing == boot.issued = 0 \/ (boot.issued = 1 /\ disk = "good" /\ conf.paths)
StartInv == /\ conf \in EdgeConfigs /\ BootShape /\ Informed /\ Passed(conf, boot.phase) /\ Refused
            /\ Issuing /\ EdgeLocalStays

\* The phases.
LEMMA PhaseSets ==
    /\ \A p \in {"building", "admin", "collectors", "redirect_status", "acme", "self_signed", "certificates", "redirect",
                 "public", "serving", "off", "refused"} : p \in Phases
    /\ \A p \in {"off", "refused"} : p \notin Started /\ p \notin Built /\ p \notin Collected /\ p \notin Listening
    /\ "building" \notin Built /\ "building" \notin Collected
    /\ "admin" \notin Collected /\ "collectors" \notin Collected
  BY DEF Phases, Started, Built, Collected, Listening

\* A process that is off or refused has passed nothing.
LEMMA NothingPassed ==
    ASSUME NEW c, NEW p \in {"off", "refused"}
    PROVE  Passed(c, p)
  BY DEF Passed, Started, Built, Collected, Listening

\* What a step leaves alone: the configuration, what doctor printed and where a start has come.
Kept == conf' = conf /\ printed' = printed

\* A start that is refused, for a reason doctor gave or cannot give.
LEMMA RefusedStep ==
    ASSUME StartInv, NEW why, RefuseStart(why), Kept, disk' = disk, printed.run,
           Unforetold(conf, why) \/ Foretold(conf)
    PROVE  StartInv'
<1> DEFINE c == conf
<1>1. /\ DOMAIN boot' = DOMAIN boot /\ boot'.phase = "refused" /\ boot'.why = why /\ boot'.issued = boot.issued
      /\ boot'.effective = boot.effective
  BY DEF StartInv, BootShape, RefuseStart
<1>2. printed = Printed(conf)
  BY DEF StartInv, Informed, Untold
<1>3. BootShape'
  BY <1>1, PhaseSets DEF StartInv, BootShape
<1>4. Passed(c, "refused")
  BY NothingPassed
<1>5. (Passed(conf, boot.phase))'
  BY <1>1, <1>4 DEF Kept
<1>6. Informed'
  BY <1>2 DEF Informed, Kept
<1>7. Refused'
  BY <1>1 DEF Refused, Kept
<1>8. Issuing' /\ EdgeLocalStays'
  BY <1>1 DEF StartInv, Issuing, EdgeLocalStays, Kept
<1> QED
  BY <1>3, <1>5, <1>6, <1>7, <1>8 DEF StartInv, Kept

\* A start that goes on, having passed what the next phase needs.
LEMMA GoneOn ==
    ASSUME StartInv, NEW next \in Started, Kept, disk' = disk, printed.run, Passed(conf, next),
           DOMAIN boot' = DOMAIN boot, boot'.phase = next, boot'.issued = boot.issued, boot'.effective = boot.effective
    PROVE  StartInv'
<1>1. printed = Printed(conf)
  BY DEF StartInv, Informed, Untold
<1>2. next \in Phases /\ next # "refused"
  BY PhaseSets DEF Phases
<1>3. BootShape' /\ (Passed(conf, boot.phase))'
  BY <1>2 DEF StartInv, BootShape, Kept
<1>4. Informed' /\ Refused'
  BY <1>1, <1>2 DEF Informed, Refused, Kept
<1>5. Issuing' /\ EdgeLocalStays'
  BY DEF StartInv, Issuing, EdgeLocalStays, Kept
<1> QED
  BY <1>3, <1>4, <1>5 DEF StartInv, Kept

\* Go changes the phase.
LEMMA GoIs ==
    ASSUME StartInv, NEW next, Go(next)
    PROVE  DOMAIN boot' = DOMAIN boot /\ boot'.phase = next /\ boot'.issued = boot.issued /\ boot'.effective = boot.effective
  BY DEF StartInv, BootShape, Go

\* A port that is free is bound, one that is held refuses the start.
LEMMA BoundOrRefused ==
    ASSUME StartInv, NEW port, NEW next \in Started, Bind(port, "bind", next), Kept, disk' = disk, printed.run,
           Passed(conf, next)
    PROVE  StartInv'
<1>1. CASE port \in HeldPorts \cup boot.bound
  <2>1. RefuseStart("bind") /\ Unforetold(conf, "bind")
    BY <1>1 DEF Bind, Unforetold
  <2> QED
    BY <2>1, RefusedStep
<1>2. CASE port \notin HeldPorts \cup boot.bound
  <2>1. DOMAIN boot' = DOMAIN boot /\ boot'.phase = next /\ boot'.issued = boot.issued /\ boot'.effective = boot.effective
    BY <1>2 DEF Bind, StartInv, BootShape
  <2> QED
    BY <2>1, GoneOn
<1> QED
  BY <1>1, <1>2

\* The phases after a start began: doctor has run.
LEMMA DoctorRan ==
    ASSUME StartInv, boot.phase # "off"
    PROVE  printed.run /\ printed = Printed(conf)
  BY DEF StartInv, Informed, Printed

\* Init.
LEMMA StartInit ==
    ASSUME StartupInit
    PROVE  StartInv
<1>1. PICK k \in EdgeConfigs : StartupOf(k)
  BY DEF StartupInit
<1>2. /\ conf = k /\ disk = k.pair /\ printed = Untold /\ DOMAIN boot = {"phase", "why", "bound", "issued", "starts", "effective"}
      /\ boot.phase = "off" /\ boot.issued = 0 /\ boot.effective = AllEdge
  BY <1>1 DEF StartupOf
<1>3. Passed(conf, "off")
  BY NothingPassed
<1>4. EdgeLocalStays
  BY <1>2 DEF EdgeLocalStays, AllEdge
<1> QED
  BY <1>2, <1>3, <1>4, PhaseSets DEF StartInv, BootShape, Informed, Refused, Issuing

\* Doctor and the policy.
LEMMA DoctorStep ==
    ASSUME StartInv, Doctor
    PROVE  StartInv'
<1>1. printed = Untold /\ disk = conf.pair /\ boot.phase = "off"
  BY DEF Doctor, StartInv, Informed, Printed
<1>2. printed' = Printed(conf) /\ conf' = conf /\ boot' = boot /\ disk' = disk
  BY <1>1 DEF Doctor, Printed
<1>3. Informed'
  BY <1>2 DEF Informed
<1> QED
  BY <1>2, <1>3 DEF StartInv, BootShape, Refused, Issuing, EdgeLocalStays

\* A pushed policy.
LEMMA PolicyStep ==
    ASSUME StartInv, NEW pushed, ApplyPolicy(pushed)
    PROVE  StartInv'
<1>1. /\ boot.phase = "serving" /\ conf' = conf /\ disk' = disk /\ printed' = printed
      /\ DOMAIN boot' = DOMAIN boot /\ boot'.phase = boot.phase /\ boot'.why = boot.why /\ boot'.issued = boot.issued
      /\ boot'.effective = WithPolicyFrom(pushed)
  BY DEF ApplyPolicy, StartInv, BootShape
<1>2. EdgeLocalStays'
  <2> DEFINE w == WithPolicyFrom(pushed)
  <2>1. \A s \in LocalSections \cup KeptWithin : s \notin PolicySections
    BY DEF LocalSections, KeptWithin, PolicySections
  <2>2. \A s \in PolicySections \cup LocalSections \cup KeptWithin :
          w[s] = IF s \in PolicySections THEN IF s \in pushed THEN "policy" ELSE "default" ELSE "edge"
    BY DEF WithPolicyFrom
  <2> HIDE DEF w
  <2>3. /\ \A s \in LocalSections \cup KeptWithin : w[s] = "edge"
        /\ \A s \in PolicySections : w[s] # "edge"
    BY <2>1, <2>2
  <2> QED
    BY <1>1, <2>3 DEF EdgeLocalStays, w
<1> QED
  BY <1>1, <1>2 DEF StartInv, BootShape, Informed, Refused, Issuing

\* The process starts again.
LEMMA RestartStep ==
    ASSUME StartInv, Restart
    PROVE  StartInv'
<1>1. /\ conf' = conf /\ disk' = disk /\ printed' = printed /\ boot.phase # "off"
      /\ DOMAIN boot' = DOMAIN boot /\ boot'.phase = "off" /\ boot'.issued = boot.issued /\ boot'.effective = boot.effective
  BY DEF Restart, StartInv, BootShape
<1>2. printed = Printed(conf)
  BY <1>1, DoctorRan
<1>3. BootShape' /\ Informed' /\ Refused'
  BY <1>1, <1>2, PhaseSets DEF StartInv, BootShape, Informed, Refused
<1>4. (Passed(conf, boot.phase))'
  <2>1. Passed(conf, "off")
    BY NothingPassed
  <2> QED
    BY <1>1, <2>1
<1> QED
  BY <1>1, <1>3, <1>4 DEF StartInv, Issuing, EdgeLocalStays

\* A start begins.
LEMMA StartStep ==
    ASSUME StartInv, Start
    PROVE  StartInv'
<1> DEFINE r == Refusal(<<Check("load", LoadOk(conf)), Loads(conf, "listener"), Check("client_auth", ClientAuthOk(conf))>>)
<1>1. r = "" <=> LoadOk(conf) /\ ~Unusable(conf, "listener") /\ ClientAuthOk(conf)
  BY StartChecks
<1>2. /\ printed.run /\ Kept /\ disk' = disk
      /\ (r = "" /\ Go("building")) \/ (r # "" /\ RefuseStart(r))
  BY Zenon DEF Start, Pass, Kept
<1> HIDE DEF r
<1>3. CASE r = "" /\ Go("building")
  <2>1. "building" \in Started /\ Passed(conf, "building")
    BY <1>1, <1>3 DEF Passed, Started, Built, Collected, Listening
  <2> QED
    BY <1>2, <1>3, <2>1, GoIs, GoneOn
<1>4. CASE r # "" /\ RefuseStart(r)
  <2>1. Foretold(conf)
    BY <1>1, <1>4 DEF Foretold
  <2> QED
    BY <1>2, <1>4, <2>1, RefusedStep
<1> QED
  BY <1>2, <1>3, <1>4

\* It builds its state.
LEMMA BuildStep ==
    ASSUME StartInv, Build
    PROVE  StartInv'
<1> DEFINE r == Refusal(BuildState(conf) \o Managed(conf))
<1>1. /\ r # "" => \/ ~CpClientOk(conf) \/ Unusable(conf, "upstream_tls") \/ Refusal(BuildRuntime(conf)) # ""
                   \/ ~TrustedHeaderOk(conf) \/ conf.boot = "typo" \/ (EnforceQuota(conf) /\ ~conf.managed)
      /\ r = "" => /\ ~Unusable(conf, "upstream_tls") /\ TrustedHeaderOk(conf) /\ conf.boot # "typo"
                   /\ AuthOk(conf) /\ (conf.mode = "mtls" => AsksForCert(conf))
  BY StateChecks
<1>2. /\ boot.phase = "building" /\ Kept /\ disk' = disk
      /\ (r = "" /\ Go("admin")) \/ (r # "" /\ RefuseStart(r))
  BY Zenon DEF Build, Pass, Kept
<1>3. printed.run
  BY <1>2, DoctorRan
<1> HIDE DEF r
<1>4. CASE r = "" /\ Go("admin")
  <2>1. "admin" \in Started /\ Passed(conf, "admin")
    BY <1>1, <1>2, <1>4 DEF StartInv, Passed, Started, Built, Collected, Listening
  <2> QED
    BY <1>2, <1>3, <1>4, <2>1, GoIs, GoneOn
<1>5. CASE r # "" /\ RefuseStart(r)
  <2>1. Foretold(conf)
    BY <1>1, <1>5, Zenon DEF Foretold
  <2> QED
    BY <1>2, <1>3, <1>5, <2>1, RefusedStep
<1> QED
  BY <1>2, <1>4, <1>5

\* The admin listener.
LEMMA BindAdminStep ==
    ASSUME StartInv, BindAdmin
    PROVE  StartInv'
<1>1. boot.phase = "admin" /\ Kept /\ disk' = disk
  BY DEF BindAdmin, Kept
<1>2. printed.run
  BY <1>1, DoctorRan
<1>3. "collectors" \in Started /\ Passed(conf, "collectors")
  BY <1>1 DEF StartInv, Passed, Started, Built, Collected, Listening
<1>4. CASE Go("collectors")
  BY <1>1, <1>2, <1>3, <1>4, GoIs, GoneOn
<1>5. CASE RefuseStart("admin_addr")
  <2>1. Unforetold(conf, "admin_addr")
    BY DEF Unforetold
  <2> QED
    BY <1>1, <1>2, <1>5, <2>1, RefusedStep
<1>6. CASE Bind(conf.admin_port, "bind", "collectors")
  BY <1>1, <1>2, <1>3, <1>6, BoundOrRefused
<1> QED
  BY <1>4, <1>5, <1>6 DEF BindAdmin

\* The collectors.
LEMMA StartCollectorsStep ==
    ASSUME StartInv, StartCollectors
    PROVE  StartInv'
<1> DEFINE r == Refusal(<<Check("collectors", CollectorsOk(conf))>>)
           next == IF conf.tls THEN "redirect_status" ELSE "public"
<1>1. r = "" <=> CollectorsOk(conf)
  BY CollectorChecks
<1>2. /\ boot.phase = "collectors" /\ Kept /\ disk' = disk
      /\ (r = "" /\ Go(next)) \/ (r # "" /\ RefuseStart(r))
  BY Zenon DEF StartCollectors, Pass, Kept
<1>3. printed.run
  BY <1>2, DoctorRan
<1> HIDE DEF r
<1>4. CASE r = "" /\ Go(next)
  <2>1. next \in Started /\ Passed(conf, next)
    BY <1>1, <1>2, <1>4 DEF StartInv, Passed, Started, Built, Collected, Listening
  <2> HIDE DEF next
  <2> QED
    BY <1>2, <1>3, <1>4, <2>1, GoIs, GoneOn
<1>5. CASE r # "" /\ RefuseStart(r)
  <2>1. Foretold(conf)
    BY <1>1, <1>5, Zenon DEF Foretold
  <2> QED
    BY <1>2, <1>3, <1>5, <2>1, RefusedStep
<1> QED
  BY <1>2, <1>4, <1>5

\* The redirect's status and [tls.acme].
LEMMA CheckRedirectStep ==
    ASSUME StartInv, CheckRedirect
    PROVE  StartInv'
<1> DEFINE r == Refusal(<<Check("redirect_status", RedirectOk(conf)), Check("acme", conf.acme => ~Unusable(conf, "acme"))>>)
           next == IF conf.acme THEN "acme" ELSE "self_signed"
<1>1. /\ r = "" => (conf.acme => ~Unusable(conf, "acme"))
      /\ r # "" => \/ r = "redirect_status" /\ ~RedirectOk(conf)
                   \/ r = "acme" /\ conf.acme /\ Unusable(conf, "acme")
  BY RedirectChecks
<1>2. /\ boot.phase = "redirect_status" /\ Kept /\ disk' = disk
      /\ (r = "" /\ Go(next)) \/ (r # "" /\ RefuseStart(r))
  BY Zenon DEF CheckRedirect, Pass, Kept
<1>3. printed.run
  BY <1>2, DoctorRan
<1>4. conf.tls
  BY <1>2 DEF StartInv, Passed, Started, Built, Collected, Listening
<1> HIDE DEF r
<1>5. CASE r = "" /\ Go(next)
  <2>1. next \in Started /\ Passed(conf, next)
    BY <1>1, <1>2, <1>5 DEF StartInv, Passed, Started, Built, Collected, Listening
  <2> HIDE DEF next
  <2> QED
    BY <1>2, <1>3, <1>5, <2>1, GoIs, GoneOn
<1>6. CASE r # "" /\ RefuseStart(r)
  <2>1. Unforetold(conf, r) \/ Foretold(conf)
    <3>1. CASE r = "redirect_status" /\ ~RedirectOk(conf) /\ conf.redirect_status \in 300..399
      BY <3>1, Zenon DEF Unforetold
    <3>2. CASE r = "redirect_status" /\ ~RedirectOk(conf) /\ conf.redirect_status \notin 300..399
      BY <1>4, <3>2, Zenon DEF Foretold
    <3>3. CASE conf.acme /\ Unusable(conf, "acme")
      BY <3>3, Zenon DEF Foretold
    <3> QED
      BY <1>1, <1>6, <3>1, <3>2, <3>3, Zenon
  <2> QED
    BY <1>2, <1>3, <1>6, <2>1, RefusedStep
<1> QED
  BY <1>2, <1>5, <1>6

\* The first certificate.
LEMMA ObtainStep ==
    ASSUME StartInv, Obtain
    PROVE  StartInv'
<1> DEFINE r == Refusal(AcmeChecks(conf))
<1>1. /\ r = "" => conf.paths
      /\ r # "" => \/ r = "acme_settings"
                   \/ conf.challenge = "typo" \/ (conf.wildcard /\ conf.challenge # "dns-01")
                   \/ (conf.challenge = "dns-01" /\ Unusable(conf, "acme.dns"))
  BY OrderChecks
<1>2. boot.phase = "acme" /\ Kept
  BY DEF Obtain, Kept
<1>3. printed.run /\ printed = Printed(conf)
  BY <1>2, DoctorRan
<1>4. conf.acme /\ "self_signed" \in Started /\ Passed(conf, "self_signed")
  BY <1>2 DEF StartInv, Passed, Started, Built, Collected, Listening
<1>5. \/ Go("self_signed") /\ disk' = disk
      \/ r # "" /\ RefuseStart(r) /\ disk' = disk
      \/ RefuseStart("acme_order") /\ disk' = disk
      \/ /\ ~(conf.paths /\ Present(disk)) /\ r = "" /\ disk' = "good"
         /\ boot' = [boot EXCEPT !.phase = "self_signed", !.issued = @ + 1]
  BY Zenon DEF Obtain
<1> HIDE DEF r
<1>6. CASE Go("self_signed") /\ disk' = disk
  BY <1>2, <1>3, <1>4, <1>6, GoIs, GoneOn
<1>7. CASE r # "" /\ RefuseStart(r) /\ disk' = disk
  <2>1. Unforetold(conf, r) \/ Foretold(conf)
    BY <1>1, <1>4, <1>7 DEF Unforetold, Foretold
  <2> QED
    BY <1>2, <1>3, <1>7, <2>1, RefusedStep
<1>8. CASE RefuseStart("acme_order") /\ disk' = disk
  <2>1. Unforetold(conf, "acme_order")
    BY DEF Unforetold
  <2> QED
    BY <1>2, <1>3, <1>8, <2>1, RefusedStep
<1>9. CASE /\ ~(conf.paths /\ Present(disk)) /\ r = "" /\ disk' = "good"
           /\ boot' = [boot EXCEPT !.phase = "self_signed", !.issued = @ + 1]
  <2>1. boot.issued = 0
    BY <1>9 DEF StartInv, Issuing, Present
  <2>2. /\ DOMAIN boot' = DOMAIN boot /\ boot'.phase = "self_signed" /\ boot'.issued = 1
        /\ boot'.effective = boot.effective
    <3>1. boot.issued + 1 = 1
      BY <2>1
    <3>2. boot' = [boot EXCEPT !.phase = "self_signed", !.issued = 1]
      BY <1>9, <3>1, Zenon
    <3> QED
      BY <3>2 DEF StartInv, BootShape
  <2>3. Issuing'
    BY <1>1, <1>2, <1>9, <2>2 DEF Issuing, Kept
  <2>4. BootShape' /\ Informed' /\ Refused'
    BY <1>2, <1>3, <2>2, PhaseSets DEF StartInv, BootShape, Informed, Refused, Kept
  <2> QED
    BY <1>2, <1>4, <2>2, <2>3, <2>4 DEF StartInv, EdgeLocalStays, Kept
<1> QED
  BY <1>5, <1>6, <1>7, <1>8, <1>9

\* A certificate of its own.
LEMMA EnsureStep ==
    ASSUME StartInv, Ensure
    PROVE  StartInv'
<1>1. boot.phase = "self_signed" /\ Kept
  BY DEF Ensure, Kept
<1>2. printed.run /\ printed = Printed(conf)
  BY <1>1, DoctorRan
<1>3. conf.tls /\ "certificates" \in Started /\ Passed(conf, "certificates")
  BY <1>1 DEF StartInv, Passed, Started, Built, Collected, Listening
<1>4. \/ Go("certificates") /\ disk' = disk
      \/ conf.self_signed /\ ~conf.paths /\ RefuseStart("self_signed_paths") /\ disk' = disk
      \/ Go("certificates") /\ ~Present(disk) /\ disk' = "good"
  BY Zenon DEF Ensure
<1>5. CASE Go("certificates") /\ disk' = disk
  BY <1>1, <1>2, <1>3, <1>5, GoIs, GoneOn
<1>6. CASE conf.self_signed /\ ~conf.paths /\ RefuseStart("self_signed_paths") /\ disk' = disk
  <2>1. Foretold(conf)
    BY <1>3, <1>6, Zenon DEF Foretold
  <2> QED
    BY <1>1, <1>2, <1>6, <2>1, RefusedStep
<1>7. CASE Go("certificates") /\ ~Present(disk) /\ disk' = "good"
  <2>1. DOMAIN boot' = DOMAIN boot /\ boot'.phase = "certificates" /\ boot'.issued = boot.issued /\ boot'.effective = boot.effective
    BY <1>7, GoIs
  <2>2. Issuing'
    BY <1>1, <1>7, <2>1 DEF StartInv, Issuing, Kept
  <2>3. BootShape' /\ Informed' /\ Refused'
    BY <1>1, <1>2, <2>1, PhaseSets DEF StartInv, BootShape, Informed, Refused, Kept
  <2> QED
    BY <1>1, <1>3, <2>1, <2>2, <2>3 DEF StartInv, EdgeLocalStays, Kept
<1> QED
  BY <1>4, <1>5, <1>6, <1>7

\* The pairs.
LEMMA LoadCertificatesStep ==
    ASSUME StartInv, LoadCertificates
    PROVE  StartInv'
<1> DEFINE r == Refusal(<<Check("certificate", conf.paths /\ disk \in Loadable)>> \o ExtraChecks(conf))
<1>1. /\ r = "" => conf.paths /\ conf.extra # "unreadable"
      /\ r # "" => \/ r \in {"certificate", "extra_mismatch"}
                   \/ r = "extra_unreadable" /\ conf.paths /\ conf.extra = "unreadable"
                   \/ r = "extra_hosts" /\ conf.paths /\ conf.extra \in {"no_hosts", "bad_host"}
  BY PairChecks
<1>2. /\ boot.phase = "certificates" /\ Kept /\ disk' = disk
      /\ (r = "" /\ Go("redirect")) \/ (r # "" /\ RefuseStart(r))
  BY Zenon DEF LoadCertificates, Pass, Kept
<1>3. printed.run
  BY <1>2, DoctorRan
<1>4. conf.tls
  BY <1>2 DEF StartInv, Passed, Started, Built, Collected, Listening
<1> HIDE DEF r
<1>5. CASE r = "" /\ Go("redirect")
  <2>1. "redirect" \in Started /\ Passed(conf, "redirect")
    BY <1>1, <1>2, <1>5 DEF StartInv, Passed, Started, Built, Collected, Listening
  <2> QED
    BY <1>2, <1>3, <1>5, <2>1, GoIs, GoneOn
<1>6. CASE r # "" /\ RefuseStart(r)
  <2>1. Unforetold(conf, r) \/ Foretold(conf)
    BY <1>1, <1>4, <1>6 DEF Unforetold, Foretold
  <2> QED
    BY <1>2, <1>3, <1>6, <2>1, RefusedStep
<1> QED
  BY <1>2, <1>5, <1>6

\* The redirect listener and the public one.
LEMMA BindStep ==
    ASSUME StartInv, BindRedirect \/ BindPublic
    PROVE  StartInv'
<1>1. CASE BindRedirect
  <2>1. boot.phase = "redirect" /\ Kept /\ disk' = disk
    BY <1>1 DEF BindRedirect, Kept
  <2>2. printed.run
    BY <2>1, DoctorRan
  <2>3. "public" \in Started /\ Passed(conf, "public")
    BY <2>1 DEF StartInv, Passed, Started, Built, Collected, Listening
  <2>4. CASE Go("public")
    BY <2>1, <2>2, <2>3, <2>4, GoIs, GoneOn
  <2>5. CASE Bind(conf.redirect_port, "bind", "public")
    BY <2>1, <2>2, <2>3, <2>5, BoundOrRefused
  <2> QED
    BY <1>1, <2>4, <2>5 DEF BindRedirect
<1>2. CASE BindPublic
  <2>1. boot.phase = "public" /\ Kept /\ disk' = disk /\ Bind(conf.port, "bind", "serving")
    BY <1>2 DEF BindPublic, Kept
  <2>2. printed.run
    BY <2>1, DoctorRan
  <2>3. "serving" \in Started /\ Passed(conf, "serving")
    BY <2>1 DEF StartInv, Passed, Started, Built, Collected, Listening
  <2> QED
    BY <2>1, <2>2, <2>3, BoundOrRefused
<1> QED
  BY <1>1, <1>2

\* What the invariant says of a start.
LEMMA StartInvGives ==
    ASSUME StartInv
    PROVE  StartIsForetold
<1>1. DoctorForetells
  <2>1. SUFFICES ASSUME boot.phase = "refused", ~Unforetold(conf, boot.why) PROVE printed.errors # {}
    BY DEF DoctorForetells
  <2>2. Foretold(conf) /\ conf \in EdgeConfigs
    BY <2>1 DEF StartInv, Refused
  <2>3. printed.errors = DoctorErrors(conf, conf.pair)
    BY <2>1, DoctorRan DEF Printed
  <2> QED
    BY <2>2, <2>3, DoctorFails
<1>2. RefusalsAreTrue
  <2>1. SUFFICES ASSUME boot.phase = "serving"
                 PROVE  printed.errors \cap SaysRefuses \subseteq (IF conf.tls THEN {} ELSE {"acme"})
    BY DEF RefusalsAreTrue
  <2>2. Passed(conf, "serving")
    BY <2>1 DEF StartInv
  <2>3. printed.errors = DoctorErrors(conf, conf.pair)
    BY <2>1, DoctorRan DEF Printed
  <2>4. DoctorErrors(conf, conf.pair) \cap SaysRefuses \subseteq (IF conf.tls THEN {} ELSE {"acme"})
    BY <2>2, ServesDespite
  <2> QED
    BY <2>3, <2>4
<1>3. SomeoneIsLetIn
  <2>1. CASE boot.phase = "serving" /\ printed.errors = {}
    <3>1. Passed(conf, "serving") /\ conf \in EdgeConfigs
      BY <2>1 DEF StartInv
    <3>2. printed = Printed(conf)
      BY <2>1, DoctorRan
    <3>3. DoctorErrors(conf, conf.pair) = {}
      BY <2>1, <3>2 DEF Printed
    <3>4. /\ conf.mode = "basic" => conf.users \in {"hash", "plain"}
          /\ conf.mode = "apikey" => EnvOrFile(conf.keys) # "none"
          /\ conf.mode = "jwt" => conf.jwt_keys # "none"
          /\ conf.mode = "mtls" => AsksForCert(conf)
          /\ conf.mode \in {"none", "basic", "apikey", "jwt", "mtls"}
          /\ conf.mode = "none" => "open" \in Printed(conf).warnings
      BY <3>1, <3>3, DoorIsKnown
    <3>5. conf.mode = "none" => "open" \in printed.warnings
      BY <3>2, <3>4, Zenon
    <3> QED
      BY <3>4, <3>5 DEF SomeoneIsLetIn
  <2>2. CASE ~(boot.phase = "serving" /\ printed.errors = {})
    BY <2>2, Zenon DEF SomeoneIsLetIn
  <2> QED
    BY <2>1, <2>2
<1>4. IssuedOnce
  BY DEF StartInv, Issuing, IssuedOnce
<1>5. EdgeLocalStays
  BY DEF StartInv
<1>6. NudgeIsTrue
  <2>1. SUFFICES ASSUME NEW s \in printed.nudges PROVE EnvOrFile(conf[s]) = "file"
    BY DEF NudgeIsTrue
  <2>2. printed = Printed(conf)
    BY <2>1 DEF StartInv, Informed, Untold
  <2>3. s \in Nudges(conf)
    BY <2>1, <2>2 DEF Printed
  <2> QED
    BY <2>3, NudgedIsFile
<1> QED
  BY <1>1, <1>2, <1>3, <1>4, <1>5, <1>6 DEF StartIsForetold

\* Every start is what `doctor` foretold: it fails every deploy that a start refuses but for the reasons it
\* does not look at, an edge it says will not start does not serve, one that serves after a clean doctor
\* lets somebody in, the first certificate is ordered once whatever is refused behind it, and a pushed
\* policy leaves the edge's own settings alone.  For every configuration and every set of ports in use.
THEOREM StartsAreForetold == StartupSpec => []StartIsForetold
<1>1. StartupInit => StartInv
  BY StartInit
<1>2. StartInv /\ [StartupNext]_startupVars => StartInv'
  <2> SUFFICES ASSUME StartInv, [StartupNext]_startupVars PROVE StartInv'
    OBVIOUS
  <2>1. CASE UNCHANGED startupVars
    BY <2>1 DEF startupVars, StartInv, BootShape, Informed, Refused, Issuing, EdgeLocalStays
  <2>2. CASE StartupNext
    BY <2>2, DoctorStep, StartStep, BuildStep, BindAdminStep, StartCollectorsStep, CheckRedirectStep, ObtainStep,
       EnsureStep, LoadCertificatesStep, BindStep, RestartStep, PolicyStep DEF StartupNext
  <2> QED
    BY <2>1, <2>2
<1>3. StartInv => StartIsForetold
  BY StartInvGives
<1> QED
  BY <1>1, <1>2, <1>3, PTL DEF StartupSpec
=============================================================================
