------------------------------ MODULE Shipper ------------------------------
(***************************************************************************)
(* The bounded queue and background task that ship access-log records      *)
(* (src/logship.rs) and server spans (SpanShipper in src/telemetry.rs).    *)
(* The two differ in how often a batch is posted: twice, or once.          *)
(***************************************************************************)
EXTENDS Process, Sequences, Naturals, FiniteSets

CONSTANTS QueueSize, \* log.ship.queue_size, tracing.queue_size
          Batch      \* log.ship.batch, tracing.batch

VARIABLES posts,     \* how often a batch is tried: 2 for the access log, 1 for spans
          queue,     \* the mpsc channel
          buf,       \* what the task has taken and not flushed
          task,      \* where the task is, the batch it is posting, and the try it is at
          stats,     \* ShipStats, SpanShipStats
          stored     \* the records the collector has, each as often as it got it

shipperVars == <<posts, queue, buf, task, stats, stored>>

ShipperInit ==
    /\ posts \in {1, 2}
    /\ queue = <<>> /\ buf = <<>> /\ stored = <<>>
    /\ task = [pc |-> "select", body |-> <<>>, attempt |-> 0, then |-> "select"]
    /\ stats = [sent |-> 0, full |-> 0, failed |-> 0]

Open == task.pc # "gone"
Running == phase # "exited"

\* LogShipper::record and SpanShipper::record, from the response path: one try_send, which a full
\* queue refuses, and a closed one.
Record(r) ==
    /\ Served(r)
    /\ IF Open /\ Len(queue) < QueueSize
       THEN queue' = Append(queue, r) /\ UNCHANGED stats
       ELSE stats' = [stats EXCEPT !.full = @ + 1] /\ UNCHANGED queue
    /\ UNCHANGED <<posts, buf, task, stored>>

\* flush takes the batch before it posts it.
Flush(batch, then) ==
    /\ buf' = <<>>
    /\ task' = [task EXCEPT !.pc = "post", !.body = batch, !.attempt = 1, !.then = then]

\* One record into the batch, which is flushed when it is full.
Push(then) ==
    /\ queue # <<>> /\ queue' = Tail(queue)
    /\ LET batch == Append(buf, Head(queue))
       IN IF Len(batch) >= Batch
          THEN Flush(batch, then)
          ELSE buf' = batch /\ UNCHANGED task

\* The select is biased: the shutdown first, then the queue, then the timer.
Receive ==
    /\ task.pc = "select" /\ phase = "serving"
    /\ Push("select")
    /\ UNCHANGED <<processVars, posts, stats, stored>>

Timer ==
    /\ task.pc = "select" /\ phase = "serving" /\ queue = <<>> /\ buf # <<>>
    /\ Flush(buf, "select")
    /\ UNCHANGED <<processVars, posts, queue, stats, stored>>

ShutdownSeen ==
    /\ task.pc = "select" /\ phase = "draining"
    /\ task' = [task EXCEPT !.pc = "drain"]
    /\ UNCHANGED <<processVars, posts, queue, buf, stats, stored>>

DrainQueue ==
    /\ task.pc = "drain" /\ Running
    /\ Push("drain")
    /\ UNCHANGED <<processVars, posts, stats, stored>>

\* Nothing left to take: the last partial batch goes out, and the receiver is dropped.
LastFlush ==
    /\ task.pc = "drain" /\ queue = <<>> /\ buf # <<>> /\ Running
    /\ Flush(buf, "end")
    /\ UNCHANGED <<processVars, posts, queue, stats, stored>>

End ==
    /\ task.pc = "end" \/ (task.pc = "drain" /\ queue = <<>> /\ buf = <<>>)
    /\ Running
    /\ task' = [task EXCEPT !.pc = "gone"]
    /\ queue' = <<>>
    /\ UNCHANGED <<processVars, posts, buf, stats, stored>>

\* Mutant: a batch counts as sent once it was posted.
PostAssumesSent ==
    /\ task.pc = "post" /\ Running
    /\ \E reached \in BOOLEAN : stored' = IF reached THEN stored \o task.body ELSE stored
    /\ stats' = [stats EXCEPT !.sent = @ + Len(task.body)]
    /\ task' = [task EXCEPT !.pc = task.then, !.body = <<>>]
    /\ UNCHANGED <<processVars, posts, queue, buf>>

\* One POST of the batch: the collector stores it and says so, stores it and its answer is refused
\* or lost, or never gets it.  After the last try the batch is dropped, and counted.
Post ==
    /\ task.pc = "post" /\ Running
    /\ \E reached, answered \in BOOLEAN :
          /\ stored' = IF reached THEN stored \o task.body ELSE stored
          /\ IF reached /\ answered
             THEN /\ stats' = [stats EXCEPT !.sent = @ + Len(task.body)]
                  /\ task' = [task EXCEPT !.pc = task.then, !.body = <<>>]
             ELSE IF task.attempt = posts
             THEN /\ stats' = [stats EXCEPT !.failed = @ + Len(task.body)]
                  /\ task' = [task EXCEPT !.pc = task.then, !.body = <<>>]
             ELSE /\ task' = [task EXCEPT !.attempt = @ + 1]
                  /\ UNCHANGED stats
    /\ UNCHANGED <<processVars, posts, queue, buf>>

ShipTask ==
    \/ Receive \/ Timer \/ ShutdownSeen \/ DrainQueue \/ LastFlush \/ End \/ Post

ShipperNext ==
    \/ (\E r \in Requests : Arrives(r)) /\ UNCHANGED shipperVars
    \/ (Signal \/ Exit) /\ UNCHANGED shipperVars
    \/ \E r \in Requests : Record(r)
    \/ ShipTask

----------------------------------------------------------------------------
(* Properties. *)

Handed == Cardinality(Requests \ (unseen \cup open))
Held == Len(queue) + Len(buf) + Len(task.body)
CountedRecords == stats.sent + stats.full + stats.failed

\* Until the task has dropped its receiver, every record a request handed over is held or counted,
\* once: as sent, as refused by the queue or as in a batch that failed.  (A drain that cuts requests
\* off hands nothing over for them.)
RecordsAccounted ==
    (Open /\ phase # "exited") => Handed = Held + CountedRecords

\* What the `sent` counter claims, the collector has; and a record is posted at most twice, and
\* never again once the collector confirmed it.
SentIsStored ==
    /\ stats.sent <= Cardinality({stored[i] : i \in DOMAIN stored})
    /\ \A r \in Requests : Cardinality({i \in DOMAIN stored : stored[i] = r}) <= posts

\* A record that was handed over leaves the process, for the collector or for a counter, whatever
\* the collector does, unless the process exits first: a slow collector never stalls the task.
RecordsLeave == [](Held > 0 => <>(Held = 0 \/ phase = "exited"))

=============================================================================
