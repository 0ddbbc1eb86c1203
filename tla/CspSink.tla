------------------------------ MODULE CspSink ------------------------------
(***************************************************************************)
(* The public sink for CSP violation reports (src/csp_sink.rs, csp_report  *)
(* in src/proxy.rs, flush_csp in src/cp.rs): a budget per client address   *)
(* whose table is pruned and capped, reports folded by pair, and a flush   *)
(* that sends one request per pair.  Requests are served by several        *)
(* threads; the limiter's table, the prune's timestamp and the pending     *)
(* pairs are each updated in one step, but not together.                   *)
(***************************************************************************)
EXTENDS Naturals, FiniteSets, Sequences

CONSTANTS Threads,
          Clients,     \* client addresses
          Pairs,       \* distinct (directive, blocked URI)
          MaxTracked,  \* MAX_TRACKED_CLIENTS
          HardCap,     \* HARD_CAP_CLIENTS
          MaxPending,  \* MAX_PENDING
          MaxCount,    \* MAX_COUNT_PER_PAIR
          PruneInterval, \* PRUNE_INTERVAL, in steps of the clock
          MaxTime,     \* bound: the clock
          MaxReceived  \* bound: reports received

\* The caps of the code: a table that is pruned before it is full, and room for one report at least.
ASSUME SinkAssumption ==
    /\ IsFiniteSet(Threads)
    /\ MaxTracked \in Nat /\ HardCap \in Nat /\ MaxTracked < HardCap
    /\ MaxPending \in Nat /\ MaxCount \in Nat \ {0}
    /\ PruneInterval \in Nat /\ MaxTime \in Nat /\ MaxReceived \in Nat

VARIABLES tracked,  \* the addresses the limiter keeps
          lastPrune,
          prunes,   \* the readings of the clock that the table was pruned by, in turn
          clock,
          threads,  \* what each thread is doing for the report it received
          pending,  \* pairs waiting and their counts
          batch,    \* what a flush took and has not sent
          sink      \* the metrics: received, rate_limited, invalid, overflow, kept, sent, failed; and,
                    \* under no metric, `local`: reports that are not for forwarding

sinkVars == <<tracked, lastPrune, prunes, clock, threads, pending, batch, sink>>

NoPairs == [p \in {} |-> 0]
IdleThread == [pc |-> "idle", client |-> CHOOSE c \in Clients : TRUE, now |-> 0, last |-> 0,
               forward |-> FALSE]

\* The reports folded into a table, one by one.
Reports(f) == UNION {{p} \X (1..f[p]) : p \in DOMAIN f}
Total(f) == Cardinality(Reports(f))

SinkInit ==
    /\ tracked = {} /\ lastPrune = 0 /\ prunes = <<>> /\ clock = 0
    /\ threads = [t \in Threads |-> IdleThread]
    /\ pending = NoPairs /\ batch = NoPairs
    /\ sink = [received |-> 0, limited |-> 0, invalid |-> 0, overflow |-> 0, kept |-> 0,
               local |-> 0, sent |-> 0, failed |-> 0, flushed |-> 0]

Count(m) == sink' = [sink EXCEPT ![m] = @ + 1]
\* A thread that is done with its report forgets it.
Becomes(t, pc) ==
    threads' = [threads EXCEPT ![t] = IF pc = "idle" THEN IdleThread ELSE [@ EXCEPT !.pc = pc]]

\* csp_report: the report is counted, the runtime loaded (a report is forwarded in managed mode with
\* forward_csp), and CspSink::admit asked.
Receive(t) ==
    /\ threads[t].pc = "idle" /\ sink.received < MaxReceived
    /\ \E c \in Clients, forward \in BOOLEAN :
          threads' = [threads EXCEPT ![t] =
              [pc |-> IF Cardinality(tracked) > MaxTracked THEN "prune" ELSE "check",
               client |-> c, now |-> clock, last |-> 0, forward |-> forward]]
    /\ Count("received")
    /\ UNCHANGED <<tracked, lastPrune, prunes, clock, pending, batch>>

\* maybe_prune: the clock was read before the timestamp, and whoever replaces the timestamp prunes.
LoadLast(t) ==
    /\ threads[t].pc = "prune"
    /\ threads' = [threads EXCEPT ![t].last = lastPrune,
           ![t].pc = IF threads[t].now < lastPrune + PruneInterval THEN "cap" ELSE "claim"]
    /\ UNCHANGED <<tracked, lastPrune, prunes, clock, pending, batch, sink>>

\* Mutant: the timestamp is stored without comparing it.
ClaimStores(t) ==
    /\ threads[t].pc = "claim"
    /\ lastPrune' = threads[t].now /\ prunes' = Append(prunes, threads[t].now) /\ Becomes(t, "retain")
    /\ UNCHANGED <<tracked, clock, pending, batch, sink>>

ClaimPrune(t) ==
    /\ threads[t].pc = "claim"
    /\ IF lastPrune = threads[t].last
       THEN lastPrune' = threads[t].now /\ prunes' = Append(prunes, threads[t].now) /\ Becomes(t, "retain")
       ELSE Becomes(t, "cap") /\ UNCHANGED <<lastPrune, prunes>>
    /\ UNCHANGED <<tracked, clock, pending, batch, sink>>

\* retain_recent drops the addresses whose budget has refilled: some of them.
Retain(t) ==
    /\ threads[t].pc = "retain"
    /\ \E kept \in SUBSET tracked : tracked' = kept
    /\ Becomes(t, "cap")
    /\ UNCHANGED <<lastPrune, prunes, clock, pending, batch, sink>>

Cap(t) ==
    /\ threads[t].pc = "cap"
    /\ IF Cardinality(tracked) >= HardCap
       THEN Becomes(t, "idle") /\ Count("limited")
       ELSE Becomes(t, "check") /\ UNCHANGED sink
    /\ UNCHANGED <<tracked, lastPrune, prunes, clock, pending, batch>>

\* check_key tracks the address, within its budget or past it.
CheckKey(t) ==
    /\ threads[t].pc = "check"
    /\ tracked' = tracked \cup {threads[t].client}
    /\ \/ Becomes(t, "parse") /\ UNCHANGED sink
       \/ Becomes(t, "idle") /\ Count("limited")
    /\ UNCHANGED <<lastPrune, prunes, clock, pending, batch>>

\* parse_report: a body that is no report is counted and dropped.
ParseFails(t) ==
    /\ threads[t].pc = "parse"
    /\ Count("invalid") /\ Becomes(t, "idle")
    /\ UNCHANGED <<tracked, lastPrune, prunes, clock, pending, batch>>

Folded(p) == [q \in DOMAIN pending \cup {p} |->
                 IF q \in DOMAIN pending THEN pending[q] + (IF q = p THEN 1 ELSE 0) ELSE 1]

\* A report that parses and is not for forwarding ends here, counted as received and nowhere else.
NotForwarded(t) ==
    /\ threads[t].pc = "parse" /\ ~threads[t].forward
    /\ Count("local") /\ Becomes(t, "idle")
    /\ UNCHANGED <<tracked, lastPrune, prunes, clock, pending, batch>>

\* CspSink::queue: a report is folded into its pair, while there is room for it.
Queue(t) ==
    /\ threads[t].pc = "parse" /\ threads[t].forward
    /\ \E p \in Pairs :
          IF IF p \in DOMAIN pending THEN pending[p] >= MaxCount
                                     ELSE Cardinality(DOMAIN pending) >= MaxPending
          THEN Count("overflow") /\ UNCHANGED pending
          ELSE pending' = Folded(p) /\ Count("kept")
    /\ Becomes(t, "idle")
    /\ UNCHANGED <<tracked, lastPrune, prunes, clock, batch>>

\* flush_csp: everything pending is taken at once, then sent pair by pair, failures counted and not
\* sent again.
Flush ==
    /\ batch = NoPairs /\ pending # NoPairs
    /\ batch' = pending /\ pending' = NoPairs
    /\ sink' = [sink EXCEPT !.flushed = 0]
    /\ UNCHANGED <<tracked, lastPrune, prunes, clock, threads>>

SendPair ==
    \E p \in DOMAIN batch :
        /\ batch' = [q \in DOMAIN batch \ {p} |-> batch[q]]
        /\ \E m \in {"sent", "failed"} :
              sink' = [sink EXCEPT !.flushed = @ + 1, ![m] = @ + batch[p]]
        /\ UNCHANGED <<tracked, lastPrune, prunes, clock, threads, pending>>

Passes ==
    /\ clock < MaxTime /\ clock' = clock + 1
    /\ UNCHANGED <<tracked, lastPrune, prunes, threads, pending, batch, sink>>

SinkNext ==
    \/ \E t \in Threads : \/ Receive(t) \/ LoadLast(t) \/ ClaimPrune(t) \/ Retain(t) \/ Cap(t)
                          \/ CheckKey(t) \/ ParseFails(t) \/ NotForwarded(t) \/ Queue(t)
    \/ Flush \/ SendPair \/ Passes

----------------------------------------------------------------------------
(* Properties. *)

Busy == Cardinality({t \in Threads : threads[t].pc # "idle"})

\* Every report received ends under exactly one reason, is kept, or is not for forwarding (which no
\* metric tells), and every report kept is pending, being sent, sent or failed: what the fold drops,
\* it counts.
ReportsAccounted ==
    /\ sink.received = sink.limited + sink.invalid + sink.overflow + sink.kept + sink.local + Busy
    /\ sink.kept = Total(pending) + Total(batch) + sink.sent + sink.failed

\* Whatever arrives, one flush sends at most MAX_PENDING requests, none with more than the control
\* plane's cap on a count.
FlushBounded ==
    /\ sink.flushed + Cardinality(DOMAIN batch) <= MaxPending
    /\ \A p \in DOMAIN batch : batch[p] <= MaxCount

\* The limiter's table stays within its cap, but for the threads that were past the check when it
\* filled up.
TrackedBounded == Cardinality(tracked) < HardCap + Cardinality(Threads)

\* However many requests find the table too large at the same time, the readings of the clock that it
\* is scanned by are an interval apart, and there are no more scans than intervals have passed.  (A
\* thread can stall between its reading and its scan, so two scans can run closer than that.)
PrunedOncePerInterval ==
    /\ \A i \in 1..(Len(prunes) - 1) : prunes[i] + PruneInterval <= prunes[i + 1]
    /\ Len(prunes) * PruneInterval <= clock

\* The public sink counts what it drops and stays within its bounds, however many threads are between
\* its tables at once.
SinkKept == ReportsAccounted /\ FlushBounded /\ TrackedBounded /\ PrunedOncePerInterval
=============================================================================
