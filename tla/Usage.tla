------------------------------- MODULE Usage -------------------------------
(***************************************************************************)
(* Usage accounting and quota of the managed mode (the accumulators of     *)
(* src/metrics.rs, report_loop and quota_loop of src/cp.rs, the quota      *)
(* check of src/proxy.rs).  The accumulators are separate atomics: a       *)
(* request adds to them one by one while the reporter swaps, and on a      *)
(* failed report restores, them one by one.                                *)
(***************************************************************************)
EXTENDS Process, Sequences, Naturals, FiniteSets

CONSTANTS Kinds,     \* how requests end, each the accumulators it adds to, in order
          MaxReports,\* bound: reports of a behaviour
          MaxVerdicts\* bound: changes of the control plane's mind

\* The order of the fields in drain_usage and restore_usage.  Tokens and cost are added and drained
\* as the bytes are, the WAF's classes as `blocked` is.
Fields == <<"requests", "bytes", "blocked">>
FieldSet == {Fields[i] : i \in DOMAIN Fields}
Zero == [f \in FieldSet |-> 0]

Add(a, b) == [f \in FieldSet |-> a[f] + b[f]]

ASSUME UsageAssumption ==
    Kinds \subseteq Seq(FieldSet) /\ MaxReports \in Nat /\ MaxVerdicts \in Nat

VARIABLES counters, \* the usage_* accumulators
          todo,     \* what each open request has still to add
          added,    \* all that requests have added
          reporter, \* the reporter: pc, the field it is at, what it drained, reports left
          billed,   \* what the control plane recorded
          again,    \* what it recorded and the reporter will report once more
          missed,   \* what the last report of the process failed to deliver
          due,      \* what had been added when the reporter was told of the shutdown
          quota,    \* QuotaState, and the poll that is being applied
          verdict   \* the control plane's verdict, and its changes left

usageVars == <<counters, todo, added, reporter, billed, again, missed, due, quota, verdict>>

NoVerdict == [over |-> FALSE, reset |-> 0]

UsageInit ==
    /\ counters = Zero /\ added = Zero /\ billed = Zero /\ again = Zero /\ missed = Zero
    /\ due = Zero
    /\ todo = [r \in Requests |-> <<>>]
    /\ reporter = [pc |-> "sleep", at |-> 1, drained |-> Zero, last |-> FALSE, left |-> MaxReports]
    /\ quota = [over |-> FALSE, reset |-> 0, new |-> NoVerdict, pc |-> "sleep"]
    /\ verdict = [now |-> NoVerdict, left |-> MaxVerdicts]

Running == phase # "exited"

----------------------------------------------------------------------------
(* The request path. *)

\* The quota check: a refusal is a finished request, counted as one and as blocked.
Begin(r) ==
    /\ Arrives(r)
    /\ \/ /\ quota.over
          /\ todo' = [todo EXCEPT ![r] = <<"requests", "blocked">>]
       \/ /\ ~quota.over
          /\ \E k \in Kinds : todo' = [todo EXCEPT ![r] = k]
    /\ UNCHANGED <<counters, added, reporter, billed, again, missed, due, quota, verdict>>

\* add_usage_request, add_usage_bytes, record_llm_usage, record_waf_hit: one fetch_add each.
AddUsage(r) ==
    /\ r \in open /\ todo[r] # <<>>
    /\ LET one == [Zero EXCEPT ![Head(todo[r])] = 1]
       IN counters' = Add(counters, one) /\ added' = Add(added, one)
    /\ todo' = [todo EXCEPT ![r] = Tail(@)]
    /\ UNCHANGED <<processVars, reporter, billed, again, missed, due, quota, verdict>>

Ends(r) == Served(r) /\ todo[r] = <<>> /\ UNCHANGED usageVars

----------------------------------------------------------------------------
(* report_loop. *)

Goto(pc) == reporter' = [reporter EXCEPT !.pc = pc, !.at = 1]

\* An interval passed, or the shutdown was announced: the last drain follows it.
Wake ==
    /\ reporter.pc = "sleep" /\ Running
    /\ \/ /\ phase = "serving" /\ reporter.left > 0
          /\ reporter' = [reporter EXCEPT !.pc = "drain", !.at = 1, !.left = @ - 1]
          /\ UNCHANGED due
       \/ /\ phase = "draining"
          /\ reporter' = [reporter EXCEPT !.pc = "drain", !.at = 1, !.last = TRUE]
          /\ due' = added
    /\ UNCHANGED <<processVars, counters, todo, added, billed, again, missed, quota, verdict>>

\* drain_usage: swap(0) on one accumulator after another.
DrainUsage ==
    /\ reporter.pc = "drain" /\ Running
    /\ LET f == Fields[reporter.at]
       IN /\ counters' = [counters EXCEPT ![f] = 0]
          /\ reporter' = [reporter EXCEPT !.drained[f] = counters[f], !.at = @ + 1,
                                          !.pc = IF reporter.at = Len(Fields) THEN "send" ELSE @]
    /\ UNCHANGED <<processVars, todo, added, billed, again, missed, due, quota, verdict>>

\* report_usage: an idle report is a heartbeat, but the last one is sent only with something in it.
\* The control plane records it and answers, records it and the answer is lost or late (a timeout of
\* ten seconds), or does not record it.  A failed report is restored, the last one is not.
ReportUsage ==
    /\ reporter.pc = "send" /\ Running
    /\ LET d == reporter.drained
           over(pc) == reporter' = [reporter EXCEPT !.pc = pc, !.at = 1, !.drained = Zero]
       IN \/ /\ reporter.last /\ d = Zero
             /\ over("end") /\ UNCHANGED <<billed, again, missed>>
          \/ /\ ~(reporter.last /\ d = Zero)
             /\ \E recorded, answered \in BOOLEAN :
                   /\ billed' = IF recorded THEN Add(billed, d) ELSE billed
                   /\ IF recorded /\ answered
                      THEN over(IF reporter.last THEN "end" ELSE "sleep") /\ UNCHANGED <<again, missed>>
                      ELSE IF reporter.last
                      THEN /\ over("end")
                           /\ missed' = IF recorded THEN missed ELSE Add(missed, d)
                           /\ UNCHANGED again
                      ELSE /\ again' = IF recorded THEN Add(again, d) ELSE again
                           /\ (IF d = Zero THEN over("sleep") ELSE Goto("restore"))
                           /\ UNCHANGED missed
    /\ UNCHANGED <<processVars, counters, todo, added, due, quota, verdict>>

\* Mutant: what was drained is stored back over what requests added since.
RestoreStores ==
    /\ reporter.pc = "restore" /\ Running
    /\ LET f == Fields[reporter.at]
       IN /\ counters' = [counters EXCEPT ![f] = reporter.drained[f]]
          /\ reporter' = [reporter EXCEPT !.drained[f] = 0, !.at = @ + 1,
                                          !.pc = IF reporter.at = Len(Fields) THEN "sleep" ELSE @]
    /\ UNCHANGED <<processVars, todo, added, billed, again, missed, due, quota, verdict>>

\* restore_usage: fetch_add on one accumulator after another, so that what requests added since
\* stays.
RestoreUsage ==
    /\ reporter.pc = "restore" /\ Running
    /\ LET f == Fields[reporter.at]
       IN /\ counters' = [counters EXCEPT ![f] = @ + reporter.drained[f]]
          /\ reporter' = [reporter EXCEPT !.drained[f] = 0, !.at = @ + 1,
                                          !.pc = IF reporter.at = Len(Fields) THEN "sleep" ELSE @]
    /\ UNCHANGED <<processVars, todo, added, billed, again, missed, due, quota, verdict>>

----------------------------------------------------------------------------
(* quota_loop. *)

ChangesMind ==
    /\ verdict.left > 0
    /\ \E over \in BOOLEAN :
          verdict' = [now |-> [over |-> over, reset |-> verdict.left], left |-> verdict.left - 1]
    /\ UNCHANGED <<processVars, counters, todo, added, reporter, billed, again, missed, due, quota>>

\* Mutant: only a verdict against the edge is published.
PullOverOnly ==
    /\ quota.pc = "sleep" /\ phase = "serving"
    /\ verdict.now.over
    /\ <<quota.over, quota.reset>> # <<verdict.now.over, verdict.now.reset>>
    /\ quota' = [quota EXCEPT !.new = verdict.now, !.over = verdict.now.over, !.pc = "apply"]
    /\ UNCHANGED <<processVars, counters, todo, added, reporter, billed, again, missed, due, verdict>>

\* A poll that fails keeps the last verdict.  QuotaState::apply stores `over_quota` first.
PullQuota ==
    /\ quota.pc = "sleep" /\ phase = "serving"
    /\ <<quota.over, quota.reset>> # <<verdict.now.over, verdict.now.reset>>
    /\ quota' = [quota EXCEPT !.new = verdict.now, !.over = verdict.now.over, !.pc = "apply"]
    /\ UNCHANGED <<processVars, counters, todo, added, reporter, billed, again, missed, due, verdict>>

ApplyReset ==
    /\ quota.pc = "apply" /\ Running
    /\ quota' = [quota EXCEPT !.reset = quota.new.reset, !.pc = "sleep"]
    /\ UNCHANGED <<processVars, counters, todo, added, reporter, billed, again, missed, due, verdict>>

----------------------------------------------------------------------------
Reporter == Wake \/ DrainUsage \/ ReportUsage \/ RestoreUsage
QuotaLoop == PullQuota \/ ApplyReset

RequestPath ==
    \/ \E r \in Requests : Begin(r) \/ AddUsage(r) \/ Ends(r)
    \/ (Signal \/ Exit) /\ UNCHANGED usageVars

UsageNext == RequestPath \/ Reporter
QuotaNext == RequestPath \/ QuotaLoop \/ ChangesMind

----------------------------------------------------------------------------
(* Properties. *)

Unreported == Add(counters, reporter.drained)

\* Usage that a request added is billed, or still in the edge to be reported, while the reporter
\* runs: no report that fails, answers late or races a request loses it.
UsageNotLost ==
    reporter.pc # "end" =>
        \A f \in FieldSet : added[f] <= billed[f] + Unreported[f]

\* The control plane is told more than there was only when it recorded a report whose answer did not
\* arrive, and by no more than that report.
BilledTwiceOnlyUnanswered ==
    \A f \in FieldSet : billed[f] + Unreported[f] <= added[f] + again[f]

\* A reporter that has ended delivered all that had been added when it was told of the shutdown, or
\* failed in its last report.  (What the requests of the drain add after it is in no report.)
LastReportIsAll ==
    reporter.pc = "end" => \A f \in FieldSet : due[f] <= billed[f] + missed[f]

\* The proxy refuses on the control plane's latest verdict in the end: a verdict that stands is
\* enforced, and lifted, unless the process stops.
QuotaFollows ==
    <>[](phase # "serving" \/ (quota.over = verdict.now.over /\ quota.reset = verdict.now.reset))

\* Usage is billed: none is lost by a report that fails or races a request, none is billed twice but
\* by an answer that did not arrive, and the last report has all there was at the signal.
UsageAccounted == UsageNotLost /\ BilledTwiceOnlyUnanswered /\ LastReportIsAll
=============================================================================
