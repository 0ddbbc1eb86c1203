--------------------------- MODULE ReportsProofs ---------------------------
(***************************************************************************)
(* Proofs about the reporters of MCReports, for any requests, threads,     *)
(* names, caps and clocks: usage is billed, records and CSP reports are    *)
(* accounted for, what is counted is exported, and a budget alerts once    *)
(* for each time it enters the alert zone.                                 *)
(***************************************************************************)
EXTENDS MCReports, FiniteSetTheorems, TLAPS

----------------------------------------------------------------------------
(* The invariant of Usage. *)

Amounts == [FieldSet -> Nat]

\* Where a field stands in the order of drain_usage and restore_usage.
Pos == [f \in FieldSet |-> CHOOSE i \in 1..Len(Fields) : Fields[i] = f]

UsageShape ==
    /\ counters \in Amounts /\ added \in Amounts /\ billed \in Amounts
    /\ again \in Amounts /\ missed \in Amounts /\ due \in Amounts
    /\ todo \in [Requests -> Seq(FieldSet)]
    /\ reporter \in [pc : {"sleep", "drain", "send", "restore", "end"}, at : Nat, drained : Amounts,
                     last : BOOLEAN, left : Nat]
    /\ reporter.pc \in {"drain", "restore"} => reporter.at \in 1..Len(Fields)

\* All that was added is billed, still here or missed, and what was billed twice is `again`.
Balance ==
    \A f \in FieldSet :
        added[f] + again[f] = billed[f] + counters[f] + reporter.drained[f] + missed[f]

\* A field is drained when the reporter has passed it, and restored when it has passed it.
Drained ==
    \A f \in FieldSet :
        /\ reporter.pc \in {"sleep", "end"} => reporter.drained[f] = 0
        /\ reporter.pc = "drain" /\ reporter.at <= Pos[f] => reporter.drained[f] = 0
        /\ reporter.pc = "restore" /\ Pos[f] < reporter.at => reporter.drained[f] = 0
        /\ reporter.pc # "end" => missed[f] = 0

\* Where the last report holds what is due.
Due ==
    /\ reporter.last => reporter.pc \in {"drain", "send", "end"}
    /\ reporter.pc = "end" => reporter.last
    /\ reporter.last => \A f \in FieldSet :
          due[f] <= billed[f] + missed[f]
                    + (IF reporter.pc = "drain" /\ reporter.at <= Pos[f] THEN counters[f]
                       ELSE reporter.drained[f])

UsageInv == UsageShape /\ Balance /\ Drained /\ Due

----------------------------------------------------------------------------
(* The invariant of Shipper. *)

Records(q) == {q[i] : i \in 1..Len(q)}
Distinct(q) == \A i, j \in 1..Len(q) : q[i] = q[j] => i = j

\* The requests that have handed over their record, or were cut off.
Over == Requests \ (unseen \cup open)

\* Where a record is in a sequence.
Places(q, r) == {i \in 1..Len(q) : q[i] = r}

ShipShape ==
    /\ posts \in {1, 2}
    /\ queue \in Seq(Requests) /\ buf \in Seq(Requests) /\ stored \in Seq(Requests)
    /\ task \in [pc : {"select", "drain", "post", "end", "gone"}, body : Seq(Requests),
                 attempt : Nat, then : {"select", "drain", "end"}]
    /\ stats \in [sent : Nat, full : Nat, failed : Nat]
    /\ task.pc # "post" => task.body = <<>>
    /\ task.pc = "post" => task.attempt \in 1..posts
    /\ unseen \cap open = {} /\ unseen \cup open \subseteq Requests

\* A record is in one place, and what is queued or waits in the batch was not posted.
Apart ==
    /\ Distinct(queue) /\ Distinct(buf) /\ Distinct(task.body)
    /\ Records(queue) \cap Records(buf) = {}
    /\ Records(queue) \cap Records(task.body) = {}
    /\ Records(buf) \cap Records(task.body) = {}
    /\ Records(queue) \cup Records(buf) \cup Records(task.body) \subseteq Over
    /\ Records(stored) \subseteq Over \ (Records(queue) \cup Records(buf))

Tallied ==
    phase # "exited" =>
        /\ IsFiniteSet(Over)
        /\ task.pc # "gone" =>
              Cardinality(Over) = Len(queue) + Len(buf) + Len(task.body)
                                    + stats.sent + stats.full + stats.failed

\* What counts as sent is stored and no longer being posted.
Confirmed ==
    /\ stats.sent <= Cardinality(Records(stored) \ Records(task.body))
    /\ \A r \in Requests :
          Cardinality(Places(stored, r)) <= (IF r \in Records(task.body) THEN task.attempt - 1 ELSE posts)

ShipInv ==
    IF part = "ship" THEN ShipShape /\ Apart /\ Tallied /\ Confirmed
    ELSE posts \in {1, 2} /\ stored = <<>> /\ stats.sent = 0

----------------------------------------------------------------------------
(* The invariant of CspSink. *)

\* A table of pairs and their counts.
IsTable(f) ==
    /\ IsFiniteSet(DOMAIN f) /\ f \in [DOMAIN f -> 1..MaxCount]
    /\ Cardinality(DOMAIN f) <= MaxPending

At(pc) == {t \in Threads : threads[t].pc = pc}

ThreadState ==
    [pc : {"idle", "prune", "claim", "retain", "cap", "check", "parse"},
     client : Clients \cup {IdleThread.client}, now : Nat, last : Nat, forward : BOOLEAN]

SinkCounts ==
    [received : Nat, limited : Nat, invalid : Nat, overflow : Nat, kept : Nat,
     local : Nat, sent : Nat, failed : Nat, flushed : Nat]

SinkShape ==
    /\ IsFiniteSet(tracked) /\ prunes \in Seq(Nat) /\ lastPrune \in Nat /\ clock \in Nat
    /\ threads \in [Threads -> ThreadState]
    /\ IsTable(pending) /\ IsTable(batch)
    /\ sink \in SinkCounts

\* The threads with a report in hand.
Working == {t \in Threads : threads[t].pc # "idle"}

\* The table has room for the threads that passed the check of its size.
Room == Cardinality(tracked) + Cardinality(At("check")) < HardCap + Cardinality(Threads)

\* Readings an interval apart, of which `last` is the last.
Spread(s, last) ==
    /\ \A i \in 1..(Len(s) - 1) : s[i] + PruneInterval <= s[i + 1]
    /\ Len(s) * PruneInterval <= last
    /\ Len(s) > 0 => s[Len(s)] = last

\* A thread about to replace the timestamp has seen it an interval ago; the timestamp is the last
\* reading that the table was pruned by.
Spaced ==
    /\ lastPrune <= clock
    /\ \A t \in Threads :
          /\ threads[t].now <= clock
          /\ threads[t].pc = "claim" => threads[t].last + PruneInterval <= threads[t].now
    /\ Spread(prunes, lastPrune)

SinkInv ==
    /\ SinkShape /\ ReportsAccounted /\ Room /\ Spaced
    /\ sink.flushed + Cardinality(DOMAIN batch) <= MaxPending

----------------------------------------------------------------------------
(* The invariant of Series. *)

IsMap(m, version) ==
    /\ IsFiniteSet(DOMAIN m) /\ m = [l \in DOMAIN m |-> m[l]]
    /\ \A l \in DOMAIN m : m[l] \in SeriesThreads \X (0..(version - 1))
    /\ \A k, l \in DOMAIN m : m[k] = m[l] => k = l

SeriesShape ==
    /\ cap \in Nat /\ series.version \in Nat /\ IsMap(series.map, series.version)
    /\ series = [map |-> series.map, version |-> series.version]
    /\ DOMAIN callers = SeriesThreads
    /\ \A t \in SeriesThreads :
          /\ callers[t] = [pc |-> callers[t].pc, name |-> callers[t].name, snap |-> callers[t].snap,
                           object |-> callers[t].object]
          /\ callers[t].pc \in {"idle", "load", "swap", "count"}
    /\ Cardinality(Named(series.map)) <= cap

\* A copy of the map is of an earlier version, or the map.
Copies ==
    \A t \in SeriesThreads : callers[t].pc = "swap" =>
        /\ callers[t].snap.version <= series.version
        /\ callers[t].snap.version \in Nat
        /\ callers[t].snap.version = series.version => callers[t].snap = series

\* An object is exported under the name it counts for, or as the overflow once the cap is reached.
Exported(n, o) ==
    \E l \in DOMAIN series.map :
        /\ series.map[l] = o
        /\ l = n \/ (l = Overflow /\ Cardinality(Named(series.map)) = cap)

Objects ==
    /\ \A t \in SeriesThreads : callers[t].pc = "count" => Exported(callers[t].name, callers[t].object)
    /\ \A c \in counted : Exported(c[2], c[3])

ModelsShape ==
    /\ IsFiniteSet(DOMAIN models) /\ models \in [DOMAIN models -> Nat]
    /\ Cardinality(DOMAIN models \ {Overflow}) <= ModelCap
    /\ spent = Cardinality(UNION {{l} \X (1..models[l]) : l \in DOMAIN models})

SeriesInv == SeriesShape /\ Copies /\ Objects /\ ModelsShape

----------------------------------------------------------------------------
(* The invariant of the alerts. *)

\* The last finite sample of a budget was at or past the threshold.
InZone(b) ==
    \E j \in 1..Len(samples) :
        /\ samples[j] = <<b, "over">>
        /\ \A k \in j..Len(samples) : samples[k] # <<b, "below">>

AlertInv ==
    /\ samples \in Seq(AlertBudgets \X Ratios)
    /\ posted \in [AlertBudgets -> Nat]
    /\ \A b \in AlertBudgets :
          /\ WasOver(b) <=> InZone(b)
          /\ posted[b] = Cardinality({i \in 1..Len(samples) : Enters(b, i)})

----------------------------------------------------------------------------
(* Proof of the invariant of Usage. *)

\* The three accumulators, in their order.
LEMMA FieldFacts ==
    /\ Len(Fields) = 3
    /\ \A i \in 1..3 : Fields[i] \in FieldSet /\ Pos[Fields[i]] = i
    /\ \A f \in FieldSet : Pos[f] \in 1..3 /\ Fields[Pos[f]] = f
    /\ "requests" \in FieldSet /\ "bytes" \in FieldSet /\ "blocked" \in FieldSet
<1>1. Len(Fields) = 3 /\ DOMAIN Fields = 1..3
  BY DEF Fields
<1>2. Fields[1] = "requests" /\ Fields[2] = "bytes" /\ Fields[3] = "blocked"
  BY DEF Fields
<1>3. FieldSet = {"requests", "bytes", "blocked"}
  <2>1. FieldSet = {Fields[1], Fields[2], Fields[3]}
    BY <1>1 DEF FieldSet
  <2> QED
    BY <2>1, <1>2
<1>4. \A i, j \in 1..3 : Fields[i] = Fields[j] => i = j
  BY <1>2
<1>5. \A i \in 1..3 : Fields[i] \in FieldSet
  BY <1>1 DEF FieldSet
<1>6. ASSUME NEW f \in FieldSet
      PROVE  Pos[f] \in 1..3 /\ Fields[Pos[f]] = f
  <2>1. \E i \in 1..3 : Fields[i] = f
    BY <1>1 DEF FieldSet
  <2>2. Pos[f] = CHOOSE i \in 1..3 : Fields[i] = f
    BY <1>1 DEF Pos
  <2> QED
    BY <2>1, <2>2
<1>7. \A i \in 1..3 : Pos[Fields[i]] = i
  BY <1>4, <1>5, <1>6
<1> QED
  BY <1>1, <1>3, <1>5, <1>6, <1>7

\* Adding amounts field by field.
LEMMA AddFacts ==
    ASSUME NEW a \in Amounts, NEW b \in Amounts
    PROVE  Add(a, b) \in Amounts /\ \A f \in FieldSet : Add(a, b)[f] = a[f] + b[f]
  BY DEF Add, Amounts

\* Nothing added yet.
LEMMA ZeroFacts == Zero \in Amounts /\ \A f \in FieldSet : Zero[f] = 0
  BY DEF Zero, Amounts

\* The invariant at the start, with nothing added and the reporter asleep.
LEMMA UsageInitInv == UsageInit => UsageInv
<1> SUFFICES ASSUME UsageInit PROVE UsageInv
  OBVIOUS
<1>1. UsageShape
  BY ZeroFacts, UsageAssumption DEF UsageInit, UsageShape
<1>2. Balance /\ Drained /\ Due
  BY ZeroFacts DEF UsageInit, Balance, Drained, Due
<1> QED
  BY <1>1, <1>2 DEF UsageInv

\* A step that leaves the figures and the reporter alone.
LEMMA UsageUntouched ==
    ASSUME UsageInv, UNCHANGED <<counters, added, reporter, billed, again, missed, due>>,
           todo' \in [Requests -> Seq(FieldSet)]
    PROVE  UsageInv'
<1>1. UsageShape'
  BY DEF UsageInv, UsageShape
<1>2. Balance' /\ Drained' /\ Due'
  BY DEF UsageInv, Balance, Drained, Due
<1> QED
  BY <1>1, <1>2 DEF UsageInv

\* A request starts: it is given what it will add.
LEMMA BeginUsage ==
    ASSUME UsageInv, NEW r \in Requests, Begin(r)
    PROVE  UsageInv'
<1>1. todo \in [Requests -> Seq(FieldSet)]
  BY DEF UsageInv, UsageShape
<1>2. <<"requests", "blocked">> \in Seq(FieldSet)
  BY FieldFacts
<1>3. todo' \in [Requests -> Seq(FieldSet)]
  BY <1>1, <1>2, UsageAssumption DEF Begin
<1>4. UNCHANGED <<counters, added, reporter, billed, again, missed, due>>
  BY DEF Begin
<1> QED
  BY <1>3, <1>4, UsageUntouched

\* One fetch_add: the figure grows here and in the total alike.
LEMMA AddUsageStep ==
    ASSUME UsageInv, NEW r \in Requests, AddUsage(r)
    PROVE  UsageInv'
<1> DEFINE g == Head(todo[r])
           one == [Zero EXCEPT ![g] = 1]
<1>1. /\ todo[r] \in Seq(FieldSet) /\ todo[r] # <<>> /\ todo' = [todo EXCEPT ![r] = Tail(@)]
      /\ UNCHANGED <<reporter, billed, again, missed, due>>
      /\ counters' = Add(counters, one) /\ added' = Add(added, one)
      /\ UsageShape
  BY DEF AddUsage, UsageInv, UsageShape
<1>2. g \in FieldSet /\ Tail(todo[r]) \in Seq(FieldSet)
  BY <1>1
<1>3. one \in Amounts /\ \A f \in FieldSet : one[f] \in {0, 1}
  BY <1>2, ZeroFacts DEF Amounts
<1> HIDE DEF one, g
<1>4. /\ counters' \in Amounts /\ added' \in Amounts
      /\ \A f \in FieldSet : counters'[f] = counters[f] + one[f] /\ added'[f] = added[f] + one[f]
  BY <1>1, <1>3, AddFacts DEF UsageShape
<1>5. UsageShape'
  BY <1>1, <1>2, <1>4 DEF UsageShape
<1>6. ASSUME NEW f \in FieldSet
      PROVE  /\ counters[f] \in Nat /\ added[f] \in Nat /\ billed[f] \in Nat /\ again[f] \in Nat
             /\ missed[f] \in Nat /\ due[f] \in Nat /\ reporter.drained[f] \in Nat /\ one[f] \in Nat
  BY <1>1, <1>3 DEF UsageShape, Amounts
<1>7. Balance'
  <2>1. ASSUME NEW f \in FieldSet
        PROVE  added'[f] + again[f] = billed[f] + counters'[f] + reporter.drained[f] + missed[f]
    <3>1. added[f] + again[f] = billed[f] + counters[f] + reporter.drained[f] + missed[f]
      BY DEF UsageInv, Balance
    <3> QED
      BY <3>1, <1>4, <1>6
  <2> QED
    BY <1>1, <2>1 DEF Balance
<1>8. Drained'
  BY <1>1 DEF UsageInv, Drained
<1>9. Due'
  <2>1. ASSUME reporter.last, NEW f \in FieldSet
        PROVE  due[f] <= billed[f] + missed[f]
                    + (IF reporter.pc = "drain" /\ reporter.at <= Pos[f] THEN counters'[f]
                       ELSE reporter.drained[f])
    <3>1. due[f] <= billed[f] + missed[f]
                    + (IF reporter.pc = "drain" /\ reporter.at <= Pos[f] THEN counters[f]
                       ELSE reporter.drained[f])
      BY <2>1 DEF UsageInv, Due
    <3> QED
      BY <3>1, <1>4, <1>6
  <2> QED
    BY <1>1, <2>1 DEF UsageInv, Due
<1> QED
  BY <1>5, <1>7, <1>8, <1>9 DEF UsageInv

\* The numbers the reporter works with.
LEMMA UsageNumbers ==
    ASSUME UsageShape, NEW f \in FieldSet
    PROVE  /\ counters[f] \in Nat /\ added[f] \in Nat /\ billed[f] \in Nat /\ again[f] \in Nat
           /\ missed[f] \in Nat /\ due[f] \in Nat /\ reporter.drained[f] \in Nat /\ Pos[f] \in 1..3
  BY FieldFacts DEF UsageShape, Amounts

\* The reporter wakes with nothing drained; for the last report, all there is falls due.
LEMMA WakeStep ==
    ASSUME UsageInv, Wake
    PROVE  UsageInv'
<1>1. /\ reporter.pc = "sleep" /\ UNCHANGED <<counters, todo, added, billed, again, missed>>
      /\ UsageShape /\ ~reporter.last
      /\ reporter'.pc = "drain" /\ reporter'.at = 1 /\ reporter'.drained = reporter.drained
      /\ reporter' \in [pc : {"sleep", "drain", "send", "restore", "end"}, at : Nat, drained : Amounts,
                        last : BOOLEAN, left : Nat]
      /\ reporter'.last => due' = added
      /\ due' \in {due, added}
  <2>1. /\ reporter.pc = "sleep" /\ UNCHANGED <<counters, todo, added, billed, again, missed>>
        /\ UsageShape /\ ~reporter.last
    BY DEF Wake, UsageInv, Due
  <2>2. CASE /\ reporter.left > 0 /\ UNCHANGED due
             /\ reporter' = [reporter EXCEPT !.pc = "drain", !.at = 1, !.left = @ - 1]
    <3>1. reporter.left - 1 \in Nat
      BY <2>1, <2>2 DEF UsageShape
    <3> DEFINE left == reporter.left - 1
    <3>2. reporter' = [reporter EXCEPT !.pc = "drain", !.at = 1, !.left = left]
      BY <2>2
    <3> HIDE DEF left
    <3>3. left \in Nat
      BY <3>1 DEF left
    <3>4. due' = due
      BY <2>2
    <3>5. /\ reporter'.pc = "drain" /\ reporter'.at = 1 /\ reporter'.drained = reporter.drained
          /\ reporter'.last = reporter.last
          /\ reporter' \in [pc : {"sleep", "drain", "send", "restore", "end"}, at : Nat,
                            drained : Amounts, last : BOOLEAN, left : Nat]
      BY <2>1, <3>2, <3>3 DEF UsageShape
    <3> QED
      BY <2>1, <3>4, <3>5
  <2>3. CASE /\ reporter' = [reporter EXCEPT !.pc = "drain", !.at = 1, !.last = TRUE]
             /\ due' = added
    BY <2>1, <2>3 DEF UsageShape
  <2> QED
    BY <2>2, <2>3 DEF Wake
<1>2. UsageShape'
  BY <1>1, FieldFacts DEF UsageShape
<1>3. Balance' /\ Drained'
  BY <1>1 DEF UsageInv, Balance, Drained
<1>4. Due'
  <2>1. ASSUME reporter'.last, NEW f \in FieldSet
        PROVE  due'[f] <= billed[f] + missed[f] + counters[f] /\ 1 <= Pos[f]
    <3>1. /\ added[f] + again[f] = billed[f] + counters[f] + reporter.drained[f] + missed[f]
          /\ reporter.drained[f] = 0
      BY <1>1 DEF UsageInv, Balance, Drained
    <3> QED
      BY <1>1, <2>1, <3>1, UsageNumbers
  <2> QED
    BY <1>1, <2>1 DEF Due
<1> QED
  BY <1>2, <1>3, <1>4 DEF UsageInv

\* One swap: what the accumulator held moves into the report.
LEMMA DrainStep ==
    ASSUME UsageInv, DrainUsage
    PROVE  UsageInv'
<1> DEFINE g == Fields[reporter.at]
<1>1. /\ reporter.pc = "drain" /\ UNCHANGED <<todo, added, billed, again, missed, due>>
      /\ UsageShape /\ reporter.at \in 1..3
  BY FieldFacts DEF DrainUsage, UsageInv, UsageShape
<1>2. g \in FieldSet /\ Pos[g] = reporter.at
  BY <1>1, FieldFacts
<1>3. /\ counters' = [counters EXCEPT ![g] = 0]
      /\ reporter' = [reporter EXCEPT !.drained[g] = counters[g], !.at = @ + 1,
                                      !.pc = IF reporter.at = Len(Fields) THEN "send" ELSE @]
  BY DEF DrainUsage
<1> HIDE DEF g
<1>4. /\ reporter'.at = reporter.at + 1 /\ reporter'.last = reporter.last
      /\ reporter'.drained = [reporter.drained EXCEPT ![g] = counters[g]]
      /\ reporter'.pc = IF reporter.at = 3 THEN "send" ELSE "drain"
      /\ reporter'.left = reporter.left
  BY <1>1, <1>3, FieldFacts DEF UsageShape
<1>5. UsageShape'
  <2>1. counters' \in Amounts /\ reporter'.drained \in Amounts
    <3>1. counters \in Amounts /\ reporter.drained \in Amounts
      BY <1>1 DEF UsageShape
    <3>2. PICK n : n = counters[g]
      OBVIOUS
    <3>3. n \in Nat
      BY <1>2, <3>1, <3>2 DEF Amounts
    <3>4. reporter'.drained = [reporter.drained EXCEPT ![g] = n]
      BY <1>4, <3>2
    <3>5. counters' \in Amounts
      <4>1. counters' = [counters EXCEPT ![g] = 0]
        BY <1>3
      <4> QED
        BY <3>1, <4>1 DEF Amounts
    <3>6. reporter'.drained \in Amounts
      BY <3>1, <3>3, <3>4 DEF Amounts
    <3> QED
      BY <3>5, <3>6
  <2>2. reporter' \in [pc : {"sleep", "drain", "send", "restore", "end"}, at : Nat, drained : Amounts,
                       last : BOOLEAN, left : Nat]
    <3>1. reporter' = [reporter EXCEPT !.drained = reporter'.drained, !.at = reporter'.at,
                                       !.pc = reporter'.pc]
      BY <1>1, <1>3, <1>4 DEF UsageShape
    <3>2. reporter'.at \in Nat /\ reporter'.pc \in {"drain", "send"}
      BY <1>1, <1>4
    <3> QED
      BY <1>1, <2>1, <3>1, <3>2 DEF UsageShape
  <2> QED
    BY <1>1, <1>4, <2>1, <2>2, FieldFacts DEF UsageShape
<1>6. ASSUME NEW f \in FieldSet
      PROVE  /\ f = g => counters'[f] = 0 /\ reporter'.drained[f] = counters[f]
             /\ f # g => counters'[f] = counters[f] /\ reporter'.drained[f] = reporter.drained[f]
             /\ f = g <=> Pos[f] = reporter.at
  <2>1. counters \in Amounts /\ reporter.drained \in Amounts
    BY <1>1 DEF UsageShape
  <2> QED
    BY <2>1, <1>1, <1>2, <1>3, <1>4, FieldFacts DEF Amounts
<1>7. ASSUME NEW f \in FieldSet
      PROVE  /\ added[f] + again[f] = billed[f] + counters[f] + reporter.drained[f] + missed[f]
             /\ reporter.at <= Pos[f] => reporter.drained[f] = 0
             /\ missed[f] = 0
             /\ reporter.last => due[f] <= billed[f] + missed[f]
                    + (IF reporter.at <= Pos[f] THEN counters[f] ELSE reporter.drained[f])
  BY <1>1 DEF UsageInv, Balance, Drained, Due
<1>8. Balance'
  <2>1. ASSUME NEW f \in FieldSet
        PROVE  added[f] + again[f] = billed[f] + counters'[f] + reporter'.drained[f] + missed[f]
    <3>1. CASE f = g
      BY <1>1, <1>2, <1>6, <1>7, <3>1, UsageNumbers
    <3>2. CASE f # g
      BY <1>6, <1>7, <3>2
    <3> QED
      BY <3>1, <3>2
  <2> QED
    BY <1>1, <2>1 DEF Balance
<1>9. Drained'
  <2>1. ASSUME NEW f \in FieldSet
        PROVE  /\ reporter'.at <= Pos[f] => reporter'.drained[f] = 0
               /\ missed[f] = 0
    BY <1>1, <1>4, <1>6, <1>7, UsageNumbers
  <2> QED
    BY <1>1, <1>4, <2>1 DEF Drained
<1>10. Due'
  <2>1. ASSUME reporter.last, NEW f \in FieldSet
        PROVE  due[f] <= billed[f] + missed[f]
                    + (IF reporter'.pc = "drain" /\ reporter'.at <= Pos[f] THEN counters'[f]
                       ELSE reporter'.drained[f])
    <3>1. CASE f = g
      BY <1>1, <1>4, <1>6, <1>7, <2>1, <3>1, UsageNumbers
    <3>2. CASE f # g
      <4>1. reporter'.pc = "drain" \/ ~(reporter.at <= Pos[f])
        BY <1>1, <1>4, <1>6, <3>2, UsageNumbers
      <4> QED
        BY <1>1, <1>4, <1>6, <1>7, <2>1, <3>2, <4>1, UsageNumbers
    <3> QED
      BY <3>1, <3>2
  <2> QED
    BY <1>1, <1>4, <2>1 DEF Due, UsageInv
<1> QED
  BY <1>5, <1>8, <1>9, <1>10 DEF UsageInv

\* What a report leaves, whatever became of it on the way.
LEMMA ReportStep ==
    ASSUME UsageInv, ReportUsage
    PROVE  UsageInv'
<1> DEFINE d == reporter.drained
           Fin(pc) == reporter' = [reporter EXCEPT !.pc = pc, !.at = 1, !.drained = Zero]
<1>1. /\ reporter.pc = "send" /\ UNCHANGED <<counters, todo, added, due>>
      /\ UsageShape /\ d \in Amounts
  BY DEF ReportUsage, UsageInv, UsageShape
<1>2. ASSUME NEW f \in FieldSet
      PROVE  /\ added[f] + again[f] = billed[f] + counters[f] + d[f] + missed[f]
             /\ missed[f] = 0
             /\ reporter.last => due[f] <= billed[f] + missed[f] + d[f]
  BY <1>1 DEF UsageInv, Balance, Drained, Due
<1>a. \/ Fin("end") /\ reporter.last /\ d = Zero /\ UNCHANGED <<billed, again, missed>>
      \/ /\ Fin("end") /\ reporter.last /\ again' = again
         /\ \/ billed' = Add(billed, d) /\ missed' = missed
            \/ billed' = billed /\ missed' = Add(missed, d)
      \/ /\ Fin("sleep") /\ ~reporter.last /\ missed' = missed
         /\ \/ billed' = Add(billed, d) /\ again' = again
            \/ billed' = Add(billed, d) /\ again' = Add(again, d) /\ d = Zero
            \/ billed' = billed /\ again' = again /\ d = Zero
      \/ /\ Goto("restore") /\ ~reporter.last /\ missed' = missed
         /\ \/ billed' = Add(billed, d) /\ again' = Add(again, d)
            \/ billed' = billed /\ again' = again
  BY DEF ReportUsage
<1>b. /\ Add(billed, d) \in Amounts /\ Add(missed, d) \in Amounts /\ Add(again, d) \in Amounts
      /\ \A f \in FieldSet : /\ Add(billed, d)[f] = billed[f] + d[f]
                             /\ Add(missed, d)[f] = missed[f] + d[f]
                             /\ Add(again, d)[f] = again[f] + d[f]
  BY <1>1, AddFacts DEF UsageShape
<1>3. ASSUME NEW pc \in {"sleep", "end"}, Fin(pc)
      PROVE  /\ reporter' \in [pc : {"sleep", "drain", "send", "restore", "end"}, at : Nat,
                               drained : Amounts, last : BOOLEAN, left : Nat]
             /\ reporter'.pc = pc /\ reporter'.last = reporter.last /\ reporter'.drained = Zero
  BY <1>1, <1>3, ZeroFacts DEF UsageShape
<1>4. ASSUME Goto("restore")
      PROVE  /\ reporter' \in [pc : {"sleep", "drain", "send", "restore", "end"}, at : Nat,
                               drained : Amounts, last : BOOLEAN, left : Nat]
             /\ reporter'.pc = "restore" /\ reporter'.last = reporter.last /\ reporter'.drained = d
             /\ reporter'.at = 1
  BY <1>1, <1>4 DEF UsageShape, Goto
<1> HIDE DEF d, Fin
<1>5. UsageShape'
  <2>1. billed' \in Amounts /\ again' \in Amounts /\ missed' \in Amounts
    BY <1>1, <1>a, <1>b DEF UsageShape
  <2> QED
    BY <1>1, <1>a, <1>3, <1>4, <2>1, FieldFacts DEF UsageShape
<1>6. ASSUME NEW f \in FieldSet
      PROVE  /\ added[f] + again'[f] = billed'[f] + counters[f] + reporter'.drained[f] + missed'[f]
             /\ reporter'.pc # "end" => missed'[f] = 0
             /\ reporter'.last => due[f] <= billed'[f] + missed'[f]
  <2>1. /\ counters[f] \in Nat /\ added[f] \in Nat /\ billed[f] \in Nat /\ again[f] \in Nat
        /\ missed[f] \in Nat /\ due[f] \in Nat /\ d[f] \in Nat
    BY <1>1, UsageNumbers DEF d
  <2>2. Zero[f] = 0
    BY ZeroFacts
  <2>3. CASE Fin("end") /\ reporter.last
    <3>1. reporter'.pc = "end" /\ reporter'.drained[f] = 0
      BY <1>3, <2>2, <2>3
    <3>2. \/ billed'[f] = billed[f] /\ again'[f] = again[f] /\ missed'[f] = missed[f] /\ d[f] = 0
          \/ billed'[f] = billed[f] + d[f] /\ again'[f] = again[f] /\ missed'[f] = missed[f]
          \/ billed'[f] = billed[f] /\ again'[f] = again[f] /\ missed'[f] = missed[f] + d[f]
      BY <1>a, <1>b, <2>2, <2>3
    <3> QED
      BY <3>1, <3>2, <2>1, <1>2, <2>3
  <2>4. CASE Fin("sleep") /\ ~reporter.last
    <3>1. reporter'.pc = "sleep" /\ reporter'.drained[f] = 0 /\ ~reporter'.last
      BY <1>3, <2>2, <2>4
    <3>2. /\ missed'[f] = missed[f]
          /\ \/ billed'[f] = billed[f] + d[f] /\ again'[f] = again[f]
             \/ billed'[f] = billed[f] + d[f] /\ again'[f] = again[f] + d[f] /\ d[f] = 0
             \/ billed'[f] = billed[f] /\ again'[f] = again[f] /\ d[f] = 0
             \/ /\ Goto("restore")
      BY <1>a, <1>b, <2>2, <2>4
    <3>3. ~Goto("restore")
      BY <1>4, <3>1
    <3> QED
      BY <3>1, <3>2, <3>3, <2>1, <1>2
  <2>5. CASE Goto("restore") /\ ~reporter.last
    <3>1. reporter'.pc = "restore" /\ reporter'.drained[f] = d[f] /\ ~reporter'.last
      BY <1>4, <2>5
    <3>2. ~Fin("sleep")
      BY <1>3, <3>1
    <3>3. /\ missed'[f] = missed[f]
          /\ \/ billed'[f] = billed[f] + d[f] /\ again'[f] = again[f] + d[f]
             \/ billed'[f] = billed[f] /\ again'[f] = again[f]
      BY <1>a, <1>b, <2>5, <3>2
    <3> QED
      BY <3>1, <3>3, <2>1, <1>2
  <2> QED
    BY <1>a, <2>3, <2>4, <2>5
<1>7. /\ reporter'.pc \in {"sleep", "restore", "end"} /\ (reporter'.last <=> reporter'.pc = "end")
      /\ reporter'.pc = "restore" => reporter'.at = 1
      /\ reporter'.pc # "restore" => reporter'.drained = Zero
  BY <1>a, <1>3, <1>4
<1>8. Balance'
  BY <1>1, <1>6 DEF Balance
<1>9. Drained'
  <2>1. \A f \in FieldSet : Zero[f] = 0 /\ Pos[f] \in 1..3
    BY ZeroFacts, FieldFacts
  <2> QED
    BY <1>6, <1>7, <2>1 DEF Drained
<1>10. Due'
  <2>1. ASSUME reporter'.last, NEW f \in FieldSet
        PROVE  due[f] <= billed'[f] + missed'[f] + reporter'.drained[f]
    <3>1. reporter'.drained[f] = 0
      BY <1>7, <2>1, ZeroFacts
    <3>2. due[f] \in Nat /\ billed'[f] \in Nat /\ missed'[f] \in Nat
      BY <1>1, <1>5 DEF UsageShape, Amounts
    <3> QED
      BY <3>1, <3>2, <1>6, <2>1
  <2> QED
    BY <1>1, <1>7, <2>1 DEF Due
<1> QED
  BY <1>5, <1>8, <1>9, <1>10 DEF UsageInv

\* One fetch_add of what a failed report held.
LEMMA RestoreStep ==
    ASSUME UsageInv, RestoreUsage
    PROVE  UsageInv'
<1> DEFINE g == Fields[reporter.at]
<1>1. /\ reporter.pc = "restore" /\ UNCHANGED <<todo, added, billed, again, missed, due>>
      /\ UsageShape /\ reporter.at \in 1..3 /\ ~reporter.last
  BY FieldFacts DEF RestoreUsage, UsageInv, UsageShape, Due
<1>2. g \in FieldSet /\ Pos[g] = reporter.at
  BY <1>1, FieldFacts
<1>3. /\ counters' = [counters EXCEPT ![g] = @ + reporter.drained[g]]
      /\ reporter' = [reporter EXCEPT !.drained[g] = 0, !.at = @ + 1,
                                      !.pc = IF reporter.at = Len(Fields) THEN "sleep" ELSE @]
  BY DEF RestoreUsage
<1> HIDE DEF g
<1>4. /\ reporter'.at = reporter.at + 1 /\ reporter'.last = reporter.last
      /\ reporter'.drained = [reporter.drained EXCEPT ![g] = 0]
      /\ reporter'.pc = IF reporter.at = 3 THEN "sleep" ELSE "restore"
      /\ reporter'.left = reporter.left
  BY <1>1, <1>3, FieldFacts DEF UsageShape
<1>5. UsageShape'
  <2>1. counters' \in Amounts /\ reporter'.drained \in Amounts
    <3>1. counters \in Amounts /\ reporter.drained \in Amounts
      BY <1>1 DEF UsageShape
    <3>2. PICK n : n = counters[g] + reporter.drained[g]
      OBVIOUS
    <3>3. n \in Nat
      BY <1>2, <3>1, <3>2 DEF Amounts
    <3>4. counters' = [counters EXCEPT ![g] = n]
      BY <1>3, <3>2
    <3>5. counters' \in Amounts
      BY <3>1, <3>3, <3>4 DEF Amounts
    <3>6. reporter'.drained \in Amounts
      <4>1. PICK d : d = reporter.drained
        OBVIOUS
      <4>2. d \in [FieldSet -> Nat]
        BY <3>1, <4>1 DEF Amounts
      <4>3. PICK e : e = [d EXCEPT ![g] = 0]
        OBVIOUS
      <4>4. e \in [FieldSet -> Nat]
        BY <4>2, <4>3
      <4>5. reporter'.drained = e
        BY <1>4, <4>1, <4>3
      <4> QED
        BY <4>4, <4>5 DEF Amounts
    <3> QED
      BY <3>5, <3>6
  <2>2. reporter' \in [pc : {"sleep", "drain", "send", "restore", "end"}, at : Nat, drained : Amounts,
                       last : BOOLEAN, left : Nat]
    <3>1. reporter' = [reporter EXCEPT !.drained = reporter'.drained, !.at = reporter'.at,
                                       !.pc = reporter'.pc]
      BY <1>1, <1>3, <1>4 DEF UsageShape
    <3>2. reporter'.at \in Nat /\ reporter'.pc \in {"sleep", "restore"}
      BY <1>1, <1>4
    <3> QED
      BY <1>1, <2>1, <3>1, <3>2 DEF UsageShape
  <2> QED
    BY <1>1, <1>4, <2>1, <2>2, FieldFacts DEF UsageShape
<1>6. ASSUME NEW f \in FieldSet
      PROVE  /\ f = g => counters'[f] = counters[f] + reporter.drained[f] /\ reporter'.drained[f] = 0
             /\ f # g => counters'[f] = counters[f] /\ reporter'.drained[f] = reporter.drained[f]
             /\ f = g <=> Pos[f] = reporter.at
  <2>1. counters \in Amounts /\ reporter.drained \in Amounts
    BY <1>1 DEF UsageShape
  <2> QED
    BY <2>1, <1>1, <1>2, <1>3, <1>4, FieldFacts DEF Amounts
<1>7. ASSUME NEW f \in FieldSet
      PROVE  /\ added[f] + again[f] = billed[f] + counters[f] + reporter.drained[f] + missed[f]
             /\ Pos[f] < reporter.at => reporter.drained[f] = 0
             /\ missed[f] = 0
  BY <1>1 DEF UsageInv, Balance, Drained
<1>8. Balance'
  <2>1. ASSUME NEW f \in FieldSet
        PROVE  added[f] + again[f] = billed[f] + counters'[f] + reporter'.drained[f] + missed[f]
    <3>1. CASE f = g
      BY <1>1, <1>6, <1>7, <3>1, UsageNumbers
    <3>2. CASE f # g
      BY <1>6, <1>7, <3>2
    <3> QED
      BY <3>1, <3>2
  <2> QED
    BY <1>1, <2>1 DEF Balance
<1>9. Drained'
  <2>1. ASSUME NEW f \in FieldSet
        PROVE  /\ Pos[f] < reporter'.at => reporter'.drained[f] = 0
               /\ Pos[f] \in 1..3 /\ missed[f] = 0
    BY <1>1, <1>4, <1>6, <1>7, UsageNumbers
  <2>2. reporter'.pc = "sleep" => reporter'.at = 4
    BY <1>4
  <2> QED
    BY <1>1, <1>4, <2>1, <2>2 DEF Drained
<1>10. Due'
  BY <1>1, <1>4 DEF Due
<1> QED
  BY <1>5, <1>8, <1>9, <1>10 DEF UsageInv

\* Every step of the request path, the reporter and the quota loop keeps the invariant.
LEMMA UsageStep ==
    ASSUME UsageInv, UsageNext \/ QuotaNext \/ UNCHANGED usageVars
    PROVE  UsageInv'
<1>1. CASE UNCHANGED <<counters, todo, added, reporter, billed, again, missed, due>>
  BY <1>1, UsageUntouched DEF UsageInv, UsageShape
<1>2. CASE RequestPath
  <2>1. ASSUME NEW r \in Requests, Begin(r) \/ AddUsage(r) PROVE UsageInv'
    BY <2>1, BeginUsage, AddUsageStep
  <2>2. ASSUME NEW r \in Requests, Ends(r) PROVE UsageInv'
    BY <2>2, <1>1 DEF Ends, usageVars
  <2>3. ASSUME UNCHANGED usageVars PROVE UsageInv'
    BY <2>3, <1>1 DEF usageVars
  <2> QED
    BY <1>2, <2>1, <2>2, <2>3 DEF RequestPath
<1>3. CASE Reporter
  BY <1>3, WakeStep, DrainStep, ReportStep, RestoreStep DEF Reporter
<1>4. CASE QuotaLoop \/ ChangesMind \/ UNCHANGED usageVars
  BY <1>1, <1>4 DEF QuotaLoop, PullQuota, ApplyReset, ChangesMind, usageVars
<1> QED
  BY <1>2, <1>3, <1>4 DEF UsageNext, QuotaNext

\* The invariant gives what is promised of usage.
LEMMA UsageInvGives == UsageInv => UsageAccounted
<1> SUFFICES ASSUME UsageInv PROVE UsageAccounted
  OBVIOUS
<1>1. UsageShape
  BY DEF UsageInv
<1>2. ASSUME NEW f \in FieldSet
      PROVE  /\ Unreported[f] = counters[f] + reporter.drained[f]
             /\ added[f] + again[f] = billed[f] + counters[f] + reporter.drained[f] + missed[f]
             /\ reporter.pc # "end" => missed[f] = 0
             /\ reporter.pc = "end" => due[f] <= billed[f] + missed[f]
  <2>1. Unreported[f] = counters[f] + reporter.drained[f]
    BY DEF Unreported, Add
  <2>2. /\ added[f] + again[f] = billed[f] + counters[f] + reporter.drained[f] + missed[f]
        /\ reporter.pc # "end" => missed[f] = 0
    BY DEF UsageInv, Balance, Drained
  <2>3. ASSUME reporter.pc = "end" PROVE due[f] <= billed[f] + missed[f]
    <3>1. reporter.drained[f] = 0 /\ due[f] <= billed[f] + missed[f] + reporter.drained[f]
      BY <2>3 DEF UsageInv, Drained, Due
    <3> QED
      BY <1>1, <3>1, UsageNumbers
  <2> QED
    BY <2>1, <2>2, <2>3
<1>3. UsageNotLost /\ BilledTwiceOnlyUnanswered
  BY <1>1, <1>2, UsageNumbers DEF UsageNotLost, BilledTwiceOnlyUnanswered
<1>4. LastReportIsAll
  BY <1>2 DEF LastReportIsAll
<1> QED
  BY <1>3, <1>4 DEF UsageAccounted

----------------------------------------------------------------------------
(* Sequences of records. *)

\* No record.
LEMMA EmptyRecords == Records(<<>>) = {} /\ Distinct(<<>>) /\ Len(<<>>) = 0
  BY DEF Records, Distinct

\* One record more at the end.
LEMMA AppendRecords ==
    ASSUME NEW S, NEW q \in Seq(S), NEW x \in S
    PROVE  /\ Append(q, x) \in Seq(S) /\ Len(Append(q, x)) = Len(q) + 1
           /\ Records(Append(q, x)) = Records(q) \cup {x}
           /\ Distinct(q) /\ x \notin Records(q) => Distinct(Append(q, x))
<1> DEFINE p == Append(q, x)
<1>1. /\ p \in Seq(S) /\ Len(p) = Len(q) + 1 /\ Len(q) \in Nat
      /\ p[Len(q) + 1] = x /\ \A i \in 1..Len(q) : p[i] = q[i]
  OBVIOUS
<1> HIDE DEF p
<1>2. 1..Len(p) = (1..Len(q)) \cup {Len(q) + 1}
  BY <1>1
<1>3. Records(p) = Records(q) \cup {x}
  <2>1. ASSUME NEW y \in Records(p) PROVE y \in Records(q) \cup {x}
    BY <1>1, <1>2, <2>1 DEF Records
  <2>2. ASSUME NEW y \in Records(q) \cup {x} PROVE y \in Records(p)
    BY <1>1, <1>2, <2>2 DEF Records
  <2> QED
    BY <2>1, <2>2
<1>4. ASSUME Distinct(q), x \notin Records(q) PROVE Distinct(p)
  <2>1. ASSUME NEW i \in 1..Len(p), NEW j \in 1..Len(p), p[i] = p[j] PROVE i = j
    BY <1>1, <1>2, <1>4, <2>1 DEF Distinct, Records
  <2> QED
    BY <2>1 DEF Distinct
<1> QED
  BY <1>1, <1>3, <1>4 DEF p

\* The first record taken off.
LEMMA TailRecords ==
    ASSUME NEW S, NEW q \in Seq(S), q # <<>>
    PROVE  /\ Head(q) \in S /\ Tail(q) \in Seq(S) /\ Len(q) = Len(Tail(q)) + 1
           /\ Records(q) = Records(Tail(q)) \cup {Head(q)}
           /\ Distinct(q) => Distinct(Tail(q)) /\ Head(q) \notin Records(Tail(q))
<1> DEFINE p == Tail(q)
<1>1. /\ Head(q) \in S /\ p \in Seq(S) /\ Len(q) = Len(p) + 1 /\ Len(p) \in Nat
      /\ Head(q) = q[1] /\ \A i \in 1..Len(p) : p[i] = q[i + 1]
  OBVIOUS
<1> HIDE DEF p
<1>2. /\ \A i \in 1..Len(p) : i + 1 \in 1..Len(q)
      /\ \A i \in 1..Len(q) : i = 1 \/ (i - 1 \in 1..Len(p) /\ p[i - 1] = q[i])
      /\ 1 \in 1..Len(q)
  BY <1>1
<1>3. Records(q) = Records(p) \cup {Head(q)}
  <2>1. ASSUME NEW y \in Records(q) PROVE y \in Records(p) \cup {Head(q)}
    <3>1. PICK i \in 1..Len(q) : y = q[i]
      BY <2>1 DEF Records
    <3>2. i = 1 \/ (i - 1 \in 1..Len(p) /\ p[i - 1] = y)
      BY <1>2, <3>1
    <3> QED
      BY <1>1, <3>1, <3>2 DEF Records
  <2>2. ASSUME NEW i \in 1..Len(p) PROVE p[i] \in Records(q)
    <3>1. i + 1 \in 1..Len(q) /\ p[i] = q[i + 1]
      BY <1>1, <1>2
    <3> QED
      BY <3>1 DEF Records
  <2>3. Head(q) \in Records(q) /\ Records(p) \subseteq Records(q)
    BY <1>1, <1>2, <2>2 DEF Records
  <2> QED
    BY <2>1, <2>3
<1>4. ASSUME Distinct(q) PROVE Distinct(p) /\ Head(q) \notin Records(p)
  <2>1. ASSUME NEW i \in 1..Len(p), NEW j \in 1..Len(p), p[i] = p[j] PROVE i = j
    BY <1>1, <1>2, <1>4, <2>1 DEF Distinct
  <2>2. ASSUME NEW i \in 1..Len(p) PROVE p[i] # Head(q)
    BY <1>1, <1>2, <1>4 DEF Distinct
  <2> QED
    BY <2>1, <2>2 DEF Distinct, Records
<1> QED
  BY <1>1, <1>3, <1>4 DEF p

\* One sequence behind another.
LEMMA ConcatRecords ==
    ASSUME NEW S, NEW q \in Seq(S), NEW p \in Seq(S)
    PROVE  /\ q \o p \in Seq(S) /\ Len(q \o p) = Len(q) + Len(p)
           /\ \A i \in 1..Len(q) : (q \o p)[i] = q[i]
           /\ \A i \in 1..Len(p) : (q \o p)[Len(q) + i] = p[i]
           /\ Records(q \o p) = Records(q) \cup Records(p)
<1> DEFINE c == q \o p
<1>1. /\ c \in Seq(S) /\ Len(c) = Len(q) + Len(p) /\ Len(q) \in Nat /\ Len(p) \in Nat
      /\ \A i \in 1..Len(q) : c[i] = q[i]
      /\ \A i \in 1..Len(p) : c[Len(q) + i] = p[i]
  OBVIOUS
<1> HIDE DEF c
<1>2. /\ \A i \in 1..Len(c) : i \in 1..Len(q) \/ (i - Len(q) \in 1..Len(p) /\ c[i] = p[i - Len(q)])
      /\ \A i \in 1..Len(q) : i \in 1..Len(c)
      /\ \A i \in 1..Len(p) : Len(q) + i \in 1..Len(c)
  <2>1. ASSUME NEW i \in 1..Len(c), i \notin 1..Len(q)
        PROVE  i - Len(q) \in 1..Len(p) /\ c[i] = p[i - Len(q)]
    <3>1. i - Len(q) \in 1..Len(p) /\ Len(q) + (i - Len(q)) = i
      BY <1>1, <2>1
    <3> QED
      BY <1>1, <3>1
  <2> QED
    BY <1>1, <2>1
<1>3. ASSUME NEW y \in Records(c) PROVE y \in Records(q) \cup Records(p)
  BY <1>1, <1>2, <1>3 DEF Records
<1>4. ASSUME NEW y \in Records(q) \cup Records(p) PROVE y \in Records(c)
  BY <1>1, <1>2, <1>4 DEF Records
<1> QED
  BY <1>1, <1>3, <1>4 DEF c

\* The records of a sequence are finite; as many as it is long when they are distinct.
LEMMA CountRecords ==
    ASSUME NEW S, NEW q \in Seq(S)
    PROVE  /\ IsFiniteSet(Records(q)) /\ Cardinality(Records(q)) \in Nat
           /\ Distinct(q) => Cardinality(Records(q)) = Len(q)
<1> DEFINE n == Len(q)
<1>0. n \in Nat
  OBVIOUS
<1> DEFINE f == [i \in 1..n |-> q[i]]
<1>2. f \in Surjection(1..n, Records(q))
  BY DEF Surjection, Records
<1>3. ASSUME Distinct(q) PROVE f \in Injection(1..n, Records(q))
  <2>1. f \in [1..n -> Records(q)]
    BY DEF Records
  <2>2. ASSUME NEW i \in 1..n, NEW j \in 1..n, f[i] = f[j] PROVE i = j
    BY <1>3, <2>2 DEF Distinct
  <2> QED
    BY <2>1, <2>2 DEF Injection, IsInjective
<1> HIDE DEF n, f
<1>1. IsFiniteSet(1..n) /\ Cardinality(1..n) = n
  <2>1. 1 \in Int /\ n \in Int /\ n - 1 + 1 = n /\ (1 > n => n = 0)
    BY <1>0
  <2> QED
    BY <2>1, FS_Interval
<1>4. IsFiniteSet(Records(q)) /\ Cardinality(Records(q)) \in Nat
  BY <1>1, <1>2, FS_Surjection, FS_CardinalityType
<1>5. ASSUME Distinct(q) PROVE Cardinality(Records(q)) = n
  BY <1>1, <1>2, <1>3, <1>5, FS_Surjection
<1> QED
  BY <1>4, <1>5 DEF n

----------------------------------------------------------------------------
(* The shipper. *)

\* The parts of ShipInv while the shipper is the part that runs.
ShipCore == ShipShape /\ Apart /\ Tallied /\ Confirmed

\* They are finitely many.
LEMMA FinitePlaces ==
    ASSUME NEW S, NEW q \in Seq(S), NEW r
    PROVE  IsFiniteSet(Places(q, r)) /\ Cardinality(Places(q, r)) \in Nat
<1>1. IsFiniteSet(1..Len(q))
  <2>1. 1 \in Int /\ Len(q) \in Int
    OBVIOUS
  <2> QED
    BY <2>1, FS_Interval
<1>2. Places(q, r) \subseteq 1..Len(q)
  BY DEF Places
<1> QED
  BY <1>1, <1>2, FS_Subset, FS_CardinalityType

\* A batch of distinct records behind what is stored adds one place for each of its records.
LEMMA ConcatPlaces ==
    ASSUME NEW S, NEW q \in Seq(S), NEW p \in Seq(S), Distinct(p), NEW r
    PROVE  /\ r \notin Records(p) => Cardinality(Places(q \o p, r)) = Cardinality(Places(q, r))
           /\ Cardinality(Places(q \o p, r)) <= Cardinality(Places(q, r)) + 1
<1> DEFINE c == q \o p
<1>1. /\ c \in Seq(S) /\ Len(c) = Len(q) + Len(p) /\ Len(q) \in Nat /\ Len(p) \in Nat
      /\ \A i \in 1..Len(q) : c[i] = q[i]
      /\ \A i \in 1..Len(p) : c[Len(q) + i] = p[i]
  BY ConcatRecords
<1> HIDE DEF c
<1>2. ASSUME NEW i \in 1..Len(c), i \notin 1..Len(q)
      PROVE  i - Len(q) \in 1..Len(p) /\ c[i] = p[i - Len(q)]
  <2>1. i - Len(q) \in 1..Len(p) /\ Len(q) + (i - Len(q)) = i
    BY <1>1, <1>2
  <2> QED
    BY <1>1, <2>1
<1>3. Places(q, r) \subseteq Places(c, r)
  BY <1>1 DEF Places
<1>4. ASSUME r \notin Records(p) PROVE Places(c, r) = Places(q, r)
  <2>1. ASSUME NEW i \in Places(c, r) PROVE i \in Places(q, r)
    <3>1. CASE i \in 1..Len(q)
      BY <1>1, <3>1 DEF Places
    <3>2. CASE i \notin 1..Len(q)
      BY <1>2, <1>4, <3>2 DEF Places, Records
    <3> QED
      BY <3>1, <3>2
  <2> QED
    BY <1>3, <2>1
<1>5. ASSUME r \in Records(p)
      PROVE  \E k : Places(c, r) \subseteq Places(q, r) \cup {k}
  <2>1. PICK j \in 1..Len(p) : p[j] = r
    BY <1>5 DEF Records
  <2>2. ASSUME NEW i \in Places(c, r), i \notin 1..Len(q) PROVE i = Len(q) + j
    <3>1. i - Len(q) \in 1..Len(p) /\ p[i - Len(q)] = r
      BY <1>2, <2>2 DEF Places
    <3>2. i - Len(q) = j
      BY <2>1, <3>1 DEF Distinct
    <3> QED
      BY <1>1, <3>2, <2>2 DEF Places
  <2>3. Places(c, r) \subseteq Places(q, r) \cup {Len(q) + j}
    BY <1>1, <2>2 DEF Places
  <2> QED
    BY <2>3
<1>6. /\ IsFiniteSet(Places(q, r)) /\ Cardinality(Places(q, r)) \in Nat
      /\ IsFiniteSet(Places(c, r)) /\ Cardinality(Places(c, r)) \in Nat
  BY <1>1, FinitePlaces
<1>7. Cardinality(Places(c, r)) <= Cardinality(Places(q, r)) + 1
  <2>1. CASE r \notin Records(p)
    BY <1>4, <1>6, <2>1
  <2>2. CASE r \in Records(p)
    <3>1. PICK k : Places(c, r) \subseteq Places(q, r) \cup {k}
      BY <1>5, <2>2
    <3>2. /\ IsFiniteSet(Places(q, r) \cup {k})
          /\ Cardinality(Places(q, r) \cup {k}) \in Nat
          /\ Cardinality(Places(q, r) \cup {k}) <= Cardinality(Places(q, r)) + 1
      <4> DEFINE P == Places(q, r)
      <4> HIDE DEF P
      <4>1. IsFiniteSet(P \cup {k})
            /\ Cardinality(P \cup {k}) = IF k \in P THEN Cardinality(P) ELSE Cardinality(P) + 1
        BY <1>6, FS_AddElement DEF P
      <4>2. Cardinality(P) \in Nat
        BY <1>6 DEF P
      <4> QED
        BY <4>1, <4>2 DEF P
    <3>3. Cardinality(Places(c, r)) <= Cardinality(Places(q, r) \cup {k})
      BY <3>1, <3>2, FS_Subset
    <3> QED
      BY <1>6, <3>2, <3>3
  <2> QED
    BY <2>1, <2>2
<1> QED
  BY <1>4, <1>7 DEF c

\* A batch is taken to be posted: what was queued or waited is queued or in the batch.
LEMMA FlushStep ==
    ASSUME ShipCore, task.pc \in {"select", "drain"}, NEW taken \in Seq(Requests),
           NEW then \in {"select", "drain", "end"}, Ship!Flush(taken, then),
           queue' \in Seq(Requests), Distinct(taken), Distinct(queue'),
           Records(queue') \cup Records(taken) = Records(queue) \cup Records(buf),
           Records(queue') \cap Records(taken) = {},
           Len(queue') + Len(taken) = Len(queue) + Len(buf),
           UNCHANGED <<processVars, posts, stats, stored>>
    PROVE  ShipCore'
<1>1. /\ buf' = <<>> /\ Over' = Over /\ stored' = stored /\ stats' = stats /\ posts' = posts
      /\ unseen' = unseen /\ open' = open /\ phase' = phase
      /\ task'.pc = "post" /\ task'.body = taken /\ task'.attempt = 1 /\ task'.then = then
      /\ task' \in [pc : {"select", "drain", "post", "end", "gone"}, body : Seq(Requests),
                    attempt : Nat, then : {"select", "drain", "end"}]
  BY DEF ShipCore, ShipShape, Ship!Flush, Over, processVars
<1>2. ShipShape'
  BY <1>1 DEF ShipCore, ShipShape
<1>3. Records(buf') = {} /\ Distinct(buf') /\ Len(buf') = 0
  BY <1>1, EmptyRecords
<1>4. task.body = <<>> /\ Records(task.body) = {} /\ Len(task.body) = 0
  BY EmptyRecords DEF ShipCore, ShipShape
<1>5. Apart'
  BY <1>1, <1>3, <1>4 DEF ShipCore, Apart
<1>6. Tallied'
  <2>1. Len(queue) \in Nat /\ Len(buf) \in Nat /\ Len(taken) \in Nat /\ Len(queue') \in Nat
        /\ stats.sent \in Nat /\ stats.full \in Nat /\ stats.failed \in Nat
    BY DEF ShipCore, ShipShape
  <2>2. phase' # "exited" => Cardinality(Over') = Len(queue) + Len(buf) + 0
                                    + stats.sent + stats.full + stats.failed
    BY <1>1, <1>4 DEF ShipCore, Tallied
  <2> QED
    BY <1>1, <1>3, <2>1, <2>2 DEF ShipCore, Tallied
<1>7. Records(stored) \cap Records(taken) = {}
  BY DEF ShipCore, Apart
<1>8. Confirmed'
  <2>1. stats'.sent <= Cardinality(Records(stored') \ Records(task'.body))
    <3>1. Records(stored) \ Records(taken) = Records(stored) \ Records(task.body)
      BY <1>4, <1>7
    <3> QED
      BY <1>1, <3>1 DEF ShipCore, Confirmed
  <2>2. ASSUME NEW r \in Requests
        PROVE  Cardinality(Places(stored', r))
                 <= (IF r \in Records(task'.body) THEN task'.attempt - 1 ELSE posts')
    <3>1. CASE r \in Records(taken)
      <4>1. Places(stored, r) = {}
        BY <1>7, <3>1 DEF Places, Records
      <4> QED
        BY <1>1, <3>1, <4>1, FS_EmptySet
    <3>2. CASE r \notin Records(taken)
      BY <1>1, <1>4, <3>2 DEF ShipCore, Confirmed
    <3> QED
      BY <3>1, <3>2
  <2> QED
    BY <2>1, <2>2 DEF Confirmed
<1> QED
  BY <1>2, <1>5, <1>6, <1>8 DEF ShipCore

\* One record goes from the queue into the batch.
LEMMA PushStep ==
    ASSUME ShipCore, task.pc \in {"select", "drain"}, NEW then \in {"select", "drain", "end"},
           Ship!Push(then), UNCHANGED <<processVars, posts, stats, stored>>
    PROVE  ShipCore'
<1> DEFINE r == Head(queue)
           taken == Append(buf, r)
<1>1. queue # <<>> /\ queue \in Seq(Requests) /\ buf \in Seq(Requests) /\ queue' = Tail(queue)
  BY DEF ShipCore, ShipShape, Ship!Push
<1>2. /\ r \in Requests /\ queue' \in Seq(Requests) /\ Len(queue) = Len(queue') + 1
      /\ Records(queue) = Records(queue') \cup {r}
      /\ Distinct(queue') /\ r \notin Records(queue')
  BY <1>1, TailRecords DEF ShipCore, Apart
<1>3. r \notin Records(buf)
  BY <1>2 DEF ShipCore, Apart
<1> HIDE DEF r
<1>4. /\ taken \in Seq(Requests) /\ Len(taken) = Len(buf) + 1
      /\ Records(taken) = Records(buf) \cup {r} /\ Distinct(taken)
  BY <1>1, <1>2, <1>3, AppendRecords DEF ShipCore, Apart
<1>5. (Ship!Flush(taken, then)) \/ (buf' = taken /\ UNCHANGED task)
  BY DEF Ship!Push, r
<1> HIDE DEF taken
<1>6. Len(queue) \in Nat /\ Len(buf) \in Nat /\ Len(taken) \in Nat /\ Len(queue') \in Nat
  BY <1>1, <1>2, <1>4
<1>7. /\ Records(queue') \cup Records(taken) = Records(queue) \cup Records(buf)
      /\ Records(queue') \cap Records(taken) = {}
      /\ Len(queue') + Len(taken) = Len(queue) + Len(buf)
  BY <1>2, <1>3, <1>4, <1>6 DEF ShipCore, Apart
<1>8. CASE Ship!Flush(taken, then)
  BY <1>2, <1>4, <1>7, <1>8, FlushStep
<1>9. CASE buf' = taken /\ UNCHANGED task
  <2>1. /\ Over' = Over /\ stored' = stored /\ stats' = stats /\ posts' = posts
        /\ unseen' = unseen /\ open' = open /\ phase' = phase /\ task' = task /\ buf' = taken
    BY <1>9 DEF Over, processVars
  <2>2. ShipShape'
    BY <1>2, <1>4, <2>1 DEF ShipCore, ShipShape
  <2>3. Apart'
    BY <1>2, <1>4, <1>7, <2>1 DEF ShipCore, Apart
  <2>4. Tallied'
    <3>1. /\ Len(task.body) \in Nat
          /\ stats.sent \in Nat /\ stats.full \in Nat /\ stats.failed \in Nat
      BY DEF ShipCore, ShipShape
    <3> QED
      BY <1>6, <1>7, <2>1, <3>1 DEF ShipCore, Tallied
  <2>5. Confirmed'
    BY <2>1 DEF ShipCore, Confirmed
  <2> QED
    BY <2>2, <2>3, <2>4, <2>5 DEF ShipCore
<1> QED
  BY <1>5, <1>8, <1>9

\* The batch goes out as it is: after the timer, or for the last time.
LEMMA WholeFlushStep ==
    ASSUME ShipCore, task.pc \in {"select", "drain"}, NEW then \in {"select", "drain", "end"},
           Ship!Flush(buf, then), UNCHANGED <<processVars, posts, queue, stats, stored>>
    PROVE  ShipCore'
<1>1. buf \in Seq(Requests) /\ queue' = queue /\ queue \in Seq(Requests)
  BY DEF ShipCore, ShipShape
<1>2. Distinct(buf) /\ Distinct(queue') /\ Records(queue') \cap Records(buf) = {}
  BY <1>1 DEF ShipCore, Apart
<1> QED
  BY <1>1, <1>2, FlushStep

\* The task is told to stop, or ends and drops its receiver.
LEMMA MoveStep ==
    ASSUME ShipCore, Ship!ShutdownSeen \/ Ship!End
    PROVE  ShipCore'
<1>1. /\ Over' = Over /\ stored' = stored /\ stats' = stats /\ posts' = posts
      /\ unseen' = unseen /\ open' = open /\ phase' = phase /\ buf' = buf
      /\ (queue' = queue /\ task'.pc = "drain") \/ (queue' = <<>> /\ task'.pc = "gone")
      /\ task' \in [pc : {"select", "drain", "post", "end", "gone"}, body : Seq(Requests),
                    attempt : Nat, then : {"select", "drain", "end"}]
      /\ task'.body = task.body /\ task'.attempt = task.attempt
      /\ task.pc # "post" /\ task.pc # "gone" /\ task'.pc # "post"
  <2>1. task \in [pc : {"select", "drain", "post", "end", "gone"}, body : Seq(Requests),
                  attempt : Nat, then : {"select", "drain", "end"}]
    BY DEF ShipCore, ShipShape
  <2>2. CASE Ship!ShutdownSeen
    BY <2>1, <2>2 DEF Ship!ShutdownSeen, Over, Ship!processVars
  <2>3. CASE Ship!End
    BY <2>1, <2>3 DEF Ship!End, Over, Ship!processVars
  <2> QED
    BY <2>2, <2>3
<1>2. /\ queue' \in Seq(Requests) /\ Distinct(queue') /\ Records(queue') \subseteq Records(queue)
  BY <1>1, EmptyRecords DEF ShipCore, ShipShape, Apart
<1>3. ShipShape'
  BY <1>1, <1>2 DEF ShipCore, ShipShape
<1>4. Apart'
  BY <1>1, <1>2 DEF ShipCore, Apart
<1>5. Tallied' /\ Confirmed'
  BY <1>1 DEF ShipCore, Tallied, Confirmed
<1> QED
  BY <1>3, <1>4, <1>5 DEF ShipCore

\* Sums of six counts.
LEMMA SixSums ==
    ASSUME NEW a \in Nat, NEW b \in Nat, NEW c \in Nat, NEW d \in Nat, NEW e \in Nat, NEW f \in Nat
    PROVE  /\ (a + b + c + d + e + f) + 1 = (a + 1) + b + c + d + e + f
           /\ (a + b + c + d + e + f) + 1 = a + b + c + d + (e + 1) + f
           /\ a + b + c + d + e + f = a + b + 0 + (d + c) + e + f
           /\ a + b + c + d + e + f = a + b + 0 + d + e + (f + c)
  OBVIOUS

\* A request hands its record over.
LEMMA RecordStep ==
    ASSUME ShipCore, NEW r \in Requests, Ship!Record(r)
    PROVE  ShipCore'
<1>1. /\ r \in open /\ open' = open \ {r} /\ unseen' = unseen /\ phase' = phase
      /\ posts' = posts /\ buf' = buf /\ task' = task /\ stored' = stored
  BY DEF Ship!Record, Ship!Served
<1>2. unseen \cap open = {} /\ unseen \cup open \subseteq Requests
  BY DEF ShipCore, ShipShape
<1>3. r \notin Over /\ Over' = Over \cup {r}
  BY <1>1, <1>2 DEF Over
<1>4. ASSUME phase' # "exited"
      PROVE  IsFiniteSet(Over') /\ Cardinality(Over') = Cardinality(Over) + 1
             /\ Cardinality(Over) \in Nat
  BY <1>1, <1>3, <1>4, FS_AddElement, FS_CardinalityType DEF ShipCore, Tallied
<1>5. /\ Len(queue) \in Nat /\ Len(buf) \in Nat /\ Len(task.body) \in Nat
      /\ stats.sent \in Nat /\ stats.full \in Nat /\ stats.failed \in Nat
      /\ queue \in Seq(Requests) /\ stats \in [sent : Nat, full : Nat, failed : Nat]
  BY DEF ShipCore, ShipShape
<1>6. r \notin Records(queue) /\ r \notin Records(buf) /\ r \notin Records(task.body)
      /\ r \notin Records(stored)
  BY <1>3 DEF ShipCore, Apart
<1>7. \/ /\ queue' \in Seq(Requests) /\ Distinct(queue') /\ Records(queue') = Records(queue) \cup {r}
         /\ Len(queue') = Len(queue) + 1 /\ stats' = stats
      \/ /\ queue' = queue /\ stats' \in [sent : Nat, full : Nat, failed : Nat]
         /\ stats'.sent = stats.sent /\ stats'.full = stats.full + 1 /\ stats'.failed = stats.failed
  <2>1. CASE queue' = Append(queue, r) /\ UNCHANGED stats
    BY <1>5, <1>6, <2>1, AppendRecords DEF ShipCore, Apart
  <2>2. CASE stats' = [stats EXCEPT !.full = @ + 1] /\ UNCHANGED queue
    BY <1>5, <2>2
  <2> QED
    BY <2>1, <2>2 DEF Ship!Record
<1>8. ShipShape'
  BY <1>1, <1>2, <1>5, <1>7 DEF ShipCore, ShipShape
<1>9. Apart'
  BY <1>1, <1>3, <1>6, <1>7 DEF ShipCore, Apart
<1>10. Tallied'
  <2>1. ASSUME phase' # "exited" PROVE IsFiniteSet(Over')
    BY <1>4, <2>1
  <2>2. ASSUME phase' # "exited", task'.pc # "gone"
        PROVE  Cardinality(Over') = Len(queue') + Len(buf') + Len(task'.body)
                                      + stats'.sent + stats'.full + stats'.failed
    <3>1. Cardinality(Over) = Len(queue) + Len(buf) + Len(task.body)
                                      + stats.sent + stats.full + stats.failed
      BY <1>1, <2>2 DEF ShipCore, Tallied
    <3>2. buf' = buf /\ task'.body = task.body
      BY <1>1
    <3>3. Cardinality(Over') = Cardinality(Over) + 1
      BY <1>4, <2>2
    <3>4. CASE Len(queue') = Len(queue) + 1 /\ stats' = stats
      <4>1. Cardinality(Over') = (Len(queue) + Len(buf) + Len(task.body)
                                    + stats.sent + stats.full + stats.failed) + 1
        BY <3>1, <3>3
      <4>2. Cardinality(Over') = (Len(queue) + 1) + Len(buf) + Len(task.body)
                                    + stats.sent + stats.full + stats.failed
        <5> DEFINE q == Len(queue)  b == Len(buf)  c == Len(task.body)
                   d == stats.sent  e == stats.full  f == stats.failed
        <5>1. q \in Nat /\ b \in Nat /\ c \in Nat /\ d \in Nat /\ e \in Nat /\ f \in Nat
              /\ Cardinality(Over') = (q + b + c + d + e + f) + 1
          BY <1>5, <4>1
        <5> HIDE DEF q, b, c, d, e, f
        <5>2. Cardinality(Over') = (q + 1) + b + c + d + e + f
          BY <5>1
        <5> QED
          BY <5>2 DEF q, b, c, d, e, f
      <4> QED
        BY <3>2, <3>4, <4>2, Zenon
    <3>5. CASE /\ queue' = queue /\ stats'.sent = stats.sent /\ stats'.full = stats.full + 1
               /\ stats'.failed = stats.failed
      <4>1. Cardinality(Over') = (Len(queue) + Len(buf) + Len(task.body)
                                    + stats.sent + stats.full + stats.failed) + 1
        BY <3>1, <3>3
      <4>2. Cardinality(Over') = Len(queue) + Len(buf) + Len(task.body)
                                    + stats.sent + (stats.full + 1) + stats.failed
        <5> DEFINE q == Len(queue)  b == Len(buf)  c == Len(task.body)
                   d == stats.sent  e == stats.full  f == stats.failed
        <5>1. q \in Nat /\ b \in Nat /\ c \in Nat /\ d \in Nat /\ e \in Nat /\ f \in Nat
              /\ Cardinality(Over') = (q + b + c + d + e + f) + 1
          BY <1>5, <4>1
        <5> HIDE DEF q, b, c, d, e, f
        <5>2. Cardinality(Over') = q + b + c + d + (e + 1) + f
          BY <5>1
        <5> QED
          BY <5>2 DEF q, b, c, d, e, f
      <4> QED
        BY <3>2, <3>5, <4>2, Zenon
    <3> QED
      BY <1>7, <3>4, <3>5
  <2> QED
    BY <2>1, <2>2 DEF Tallied
<1>11. Confirmed'
  BY <1>1, <1>7 DEF ShipCore, Confirmed
<1> QED
  BY <1>8, <1>9, <1>10, <1>11 DEF ShipCore

\* Requests come, the signal and the exit.
LEMMA WorldStep ==
    ASSUME ShipCore, UNCHANGED shipVars,
           \/ \E r \in Requests : Arrives(r)
           \/ Signal \/ Exit
    PROVE  ShipCore'
<1>1. /\ posts' = posts /\ queue' = queue /\ buf' = buf /\ task' = task /\ stats' = stats
      /\ stored' = stored
  BY DEF shipVars
<1>2. unseen \cap open = {} /\ unseen \cup open \subseteq Requests
  BY DEF ShipCore, ShipShape
<1>3. /\ unseen' \cap open' = {} /\ unseen' \cup open' \subseteq Requests
      /\ Over \subseteq Over' /\ (phase' # "exited" => phase # "exited" /\ Over' = Over)
  <2>1. ASSUME NEW r \in Requests, Arrives(r) PROVE <1>3!:
    BY <1>2, <2>1 DEF Arrives, Over
  <2>2. CASE Signal
    BY <1>2, <2>2 DEF Signal, Over
  <2>3. CASE Exit
    BY <1>2, <2>3 DEF Exit, Over
  <2> QED
    BY <2>1, <2>2, <2>3
<1>4. ShipShape' /\ Confirmed'
  BY <1>1, <1>3 DEF ShipCore, ShipShape, Confirmed
<1>5. Apart' /\ Tallied'
  BY <1>1, <1>3 DEF ShipCore, Apart, Tallied
<1> QED
  BY <1>4, <1>5 DEF ShipCore

\* One POST of a batch.
LEMMA PostStep ==
    ASSUME ShipCore, Ship!Post
    PROVE  ShipCore'
<1> DEFINE body == task.body
<1>1. /\ Over' = Over /\ posts' = posts /\ queue' = queue /\ buf' = buf
      /\ unseen' = unseen /\ open' = open /\ phase' = phase
      /\ task.pc = "post" /\ task.attempt \in 1..posts /\ posts \in {1, 2}
  BY DEF ShipCore, ShipShape, Ship!Post, Over, Ship!processVars
<1>2. /\ body \in Seq(Requests) /\ stored \in Seq(Requests) /\ Distinct(body)
      /\ Len(queue) \in Nat /\ Len(buf) \in Nat /\ Len(body) \in Nat
      /\ stats.sent \in Nat /\ stats.full \in Nat /\ stats.failed \in Nat
      /\ task \in [pc : {"select", "drain", "post", "end", "gone"}, body : Seq(Requests),
                   attempt : Nat, then : {"select", "drain", "end"}]
      /\ stats \in [sent : Nat, full : Nat, failed : Nat]
  BY DEF ShipCore, ShipShape, Apart
<1> HIDE DEF body
<1>3. PICK reached \in BOOLEAN, answered \in BOOLEAN :
          /\ stored' = IF reached THEN stored \o task.body ELSE stored
          /\ IF reached /\ answered
             THEN /\ stats' = [stats EXCEPT !.sent = @ + Len(task.body)]
                  /\ task' = [task EXCEPT !.pc = task.then, !.body = <<>>]
             ELSE IF task.attempt = posts
             THEN /\ stats' = [stats EXCEPT !.failed = @ + Len(task.body)]
                  /\ task' = [task EXCEPT !.pc = task.then, !.body = <<>>]
             ELSE /\ task' = [task EXCEPT !.attempt = @ + 1]
                  /\ UNCHANGED stats
  BY DEF Ship!Post
\* What is stored after it.
<1>4. /\ stored' \in Seq(Requests)
      /\ Records(stored') \subseteq Records(stored) \cup Records(body)
      /\ Records(stored) \subseteq Records(stored')
      /\ reached => Records(stored') = Records(stored) \cup Records(body)
  <2>1. CASE reached
    BY <1>2, <1>3, <2>1, ConcatRecords DEF body
  <2>2. CASE ~reached
    BY <1>2, <1>3, <2>2
  <2> QED
    BY <2>1, <2>2
<1>5. ASSUME NEW r \in Requests
      PROVE  /\ Cardinality(Places(stored', r)) \in Nat
             /\ r \in Records(body) => Cardinality(Places(stored', r)) <= task.attempt
             /\ r \notin Records(body) => Cardinality(Places(stored', r)) <= posts
  <2>1. Cardinality(Places(stored, r)) \in Nat /\ Cardinality(Places(stored', r)) \in Nat
    BY <1>2, <1>4, FinitePlaces
  <2>2. Cardinality(Places(stored, r)) <= (IF r \in Records(body) THEN task.attempt - 1 ELSE posts)
    BY DEF ShipCore, Confirmed, body
  <2>3. CASE reached
    <3>1. /\ r \notin Records(body) => Cardinality(Places(stored', r)) = Cardinality(Places(stored, r))
          /\ Cardinality(Places(stored', r)) <= Cardinality(Places(stored, r)) + 1
      BY <1>2, <1>3, <2>3, ConcatPlaces DEF body
    <3> QED
      BY <1>1, <2>1, <2>2, <3>1
  <2>4. CASE ~reached
    BY <1>1, <1>3, <2>1, <2>2, <2>4
  <2> QED
    BY <2>3, <2>4
<1>6. Records(body) \subseteq Over /\ Records(body) \cap (Records(queue) \cup Records(buf)) = {}
  BY DEF ShipCore, Apart, body
<1>7. /\ IsFiniteSet(Records(stored')) /\ Cardinality(Records(stored')) \in Nat
      /\ IsFiniteSet(Records(stored)) /\ IsFiniteSet(Records(body))
      /\ Cardinality(Records(body)) = Len(body)
  BY <1>2, <1>4, CountRecords
<1>8. Records(stored') \ Records(body) = Records(stored) \ Records(body)
  BY <1>4
<1>9. stats.sent <= Cardinality(Records(stored) \ Records(body))
  BY DEF ShipCore, Confirmed, body
\* The batch is done with: confirmed, or dropped and counted.
<1>10. ASSUME task' = [task EXCEPT !.pc = task.then, !.body = <<>>],
              \/ reached /\ stats' = [stats EXCEPT !.sent = @ + Len(task.body)]
              \/ stats' = [stats EXCEPT !.failed = @ + Len(task.body)]
       PROVE  ShipCore'
  <2>1. /\ task' \in [pc : {"select", "drain", "post", "end", "gone"}, body : Seq(Requests),
                      attempt : Nat, then : {"select", "drain", "end"}]
        /\ task'.body = <<>> /\ task'.pc # "post" /\ task'.pc # "gone"
    <3> DEFINE e == <<>>
    <3>1. e \in Seq(Requests) /\ task' = [task EXCEPT !.pc = task.then, !.body = e]
      BY <1>10
    <3> HIDE DEF e
    <3>2. task.then \in {"select", "drain", "end"}
      BY <1>2
    <3>3. task'.body = e /\ task'.pc = task.then
          /\ task' \in [pc : {"select", "drain", "post", "end", "gone"}, body : Seq(Requests),
                        attempt : Nat, then : {"select", "drain", "end"}]
      BY <1>2, <3>1, <3>2
    <3> QED
      BY <3>2, <3>3 DEF e
  <2>2. /\ stats' \in [sent : Nat, full : Nat, failed : Nat] /\ stats'.full = stats.full
        /\ \/ reached /\ stats'.sent = stats.sent + Len(body) /\ stats'.failed = stats.failed
           \/ stats'.sent = stats.sent /\ stats'.failed = stats.failed + Len(body)
    <3>1. CASE reached /\ stats' = [stats EXCEPT !.sent = @ + Len(task.body)]
      <4> DEFINE n == stats.sent + Len(body)
      <4>1. stats' = [stats EXCEPT !.sent = n] /\ n \in Nat
        BY <1>2, <3>1 DEF body
      <4> HIDE DEF n
      <4>2. /\ stats' \in [sent : Nat, full : Nat, failed : Nat] /\ stats'.full = stats.full
            /\ stats'.sent = n /\ stats'.failed = stats.failed
        BY <1>2, <4>1
      <4> QED
        BY <3>1, <4>2 DEF n
    <3>2. CASE stats' = [stats EXCEPT !.failed = @ + Len(task.body)]
      <4> DEFINE n == stats.failed + Len(body)
      <4>1. stats' = [stats EXCEPT !.failed = n] /\ n \in Nat
        BY <1>2, <3>2 DEF body
      <4> HIDE DEF n
      <4>2. /\ stats' \in [sent : Nat, full : Nat, failed : Nat] /\ stats'.full = stats.full
            /\ stats'.failed = n /\ stats'.sent = stats.sent
        BY <1>2, <4>1
      <4> QED
        BY <3>2, <4>2 DEF n
    <3> QED
      BY <1>10, <3>1, <3>2
  <2>3. Records(task'.body) = {} /\ Distinct(task'.body) /\ Len(task'.body) = 0
    BY <2>1, EmptyRecords
  <2>4. ShipShape'
    BY <1>1, <1>4, <2>1, <2>2 DEF ShipCore, ShipShape
  <2>5. Apart'
    BY <1>1, <1>4, <1>6, <2>3 DEF ShipCore, Apart
  <2>6. Tallied'
    <3>1. phase' # "exited" => Cardinality(Over') = Len(queue) + Len(buf) + Len(body)
                                      + stats.sent + stats.full + stats.failed
      BY <1>1 DEF ShipCore, Tallied, body
    <3>2. queue' = queue /\ buf' = buf /\ (phase' # "exited" => IsFiniteSet(Over'))
      BY <1>1 DEF ShipCore, Tallied
    <3>3. Len(queue) + Len(buf) + Len(body) + stats.sent + stats.full + stats.failed
            = Len(queue) + Len(buf) + 0 + stats'.sent + stats'.full + stats'.failed
      <4>1. CASE stats'.sent = stats.sent + Len(body) /\ stats'.failed = stats.failed
        BY <1>2, <2>2, <4>1, SixSums
      <4>2. CASE stats'.sent = stats.sent /\ stats'.failed = stats.failed + Len(body)
        BY <1>2, <2>2, <4>2, SixSums
      <4> QED
        BY <2>2, <4>1, <4>2
    <3> QED
      BY <2>3, <3>1, <3>2, <3>3 DEF Tallied
  <2>7. stats'.sent <= Cardinality(Records(stored'))
    <3>1. CASE reached /\ stats'.sent = stats.sent + Len(body)
      <4> DEFINE A == Records(stored) \ Records(body)
                 B == Records(body)
      <4>1. A \cap B = {} /\ A \cup B = Records(stored') /\ IsFiniteSet(A) /\ IsFiniteSet(B)
        BY <1>4, <1>7, <3>1, FS_Difference
      <4> HIDE DEF A, B
      <4>2. Cardinality(A \cup B) = Cardinality(A) + Cardinality(B) - Cardinality(A \cap B)
        BY <4>1, FS_Union
      <4>3. Cardinality(A \cap B) = 0 /\ Cardinality(A) \in Nat /\ Cardinality(B) \in Nat
        BY <4>1, FS_EmptySet, FS_CardinalityType
      <4>4. stats.sent <= Cardinality(A) /\ Len(body) = Cardinality(B)
        BY <1>7, <1>9 DEF A, B
      <4>5. Cardinality(A \cup B) = Cardinality(A) + Cardinality(B)
        BY <4>2, <4>3
      <4>6. Cardinality(Records(stored')) = Cardinality(A) + Cardinality(B)
        BY <4>1, <4>5
      <4> QED
        BY <1>2, <3>1, <4>3, <4>4, <4>6
    <3>2. CASE stats'.sent = stats.sent
      <4>1. IsFiniteSet(Records(stored) \ Records(body))
            /\ Cardinality(Records(stored) \ Records(body)) \in Nat
        BY <1>7, FS_Difference, FS_CardinalityType
      <4>2. Cardinality(Records(stored) \ Records(body)) <= Cardinality(Records(stored'))
        BY <1>4, <1>7, FS_Subset
      <4> QED
        BY <1>2, <1>7, <1>9, <3>2, <4>1, <4>2
    <3> QED
      BY <2>2, <3>1, <3>2
  <2>8. Confirmed'
    <3>1. Records(stored') \ Records(task'.body) = Records(stored')
      BY <2>3
    <3>2. ASSUME NEW r \in Requests
          PROVE  Cardinality(Places(stored', r)) <= posts'
      BY <1>1, <1>5
    <3> QED
      BY <2>3, <2>7, <3>1, <3>2 DEF Confirmed
  <2> QED
    BY <2>4, <2>5, <2>6, <2>8 DEF ShipCore
\* It is tried again.
<1>11. ASSUME task.attempt # posts, task' = [task EXCEPT !.attempt = @ + 1], stats' = stats
       PROVE  ShipCore'
  <2>1. /\ task' \in [pc : {"select", "drain", "post", "end", "gone"}, body : Seq(Requests),
                      attempt : Nat, then : {"select", "drain", "end"}]
        /\ task'.body = body /\ task'.pc = "post" /\ task'.attempt = task.attempt + 1
        /\ task'.attempt \in 1..posts
    <3>1. task' = [task EXCEPT !.attempt = task.attempt + 1] /\ task.attempt \in Nat
      BY <1>2, <1>11
    <3>2. task.attempt + 1 \in Nat /\ task.attempt + 1 \in 1..posts
      BY <1>1, <1>11, <3>1
    <3> QED
      BY <1>1, <1>2, <3>1, <3>2 DEF body
  <2>2. ShipShape'
    BY <1>1, <1>4, <1>11, <2>1 DEF ShipCore, ShipShape
  <2>3. Apart'
    BY <1>1, <1>4, <1>6, <2>1 DEF ShipCore, Apart, body
  <2>4. Tallied'
    BY <1>1, <1>11, <2>1 DEF ShipCore, Tallied, body
  <2>5. Confirmed'
    <3>1. ASSUME NEW r \in Requests
          PROVE  Cardinality(Places(stored', r))
                   <= (IF r \in Records(task'.body) THEN task'.attempt - 1 ELSE posts')
      BY <1>1, <1>5, <2>1
    <3> QED
      BY <1>8, <1>9, <1>11, <2>1, <3>1 DEF Confirmed
  <2> QED
    BY <2>2, <2>3, <2>4, <2>5 DEF ShipCore
<1> QED
  BY <1>3, <1>10, <1>11

\* ShipInv holds at the start.
LEMMA ShipInitInv == MCInit => ShipInv
<1> SUFFICES ASSUME MCInit PROVE ShipInv
  OBVIOUS
<1>1. /\ posts \in {1, 2} /\ queue = <<>> /\ buf = <<>> /\ stored = <<>>
      /\ task = [pc |-> "select", body |-> <<>>, attempt |-> 0, then |-> "select"]
      /\ stats = [sent |-> 0, full |-> 0, failed |-> 0]
      /\ unseen = Requests /\ open = {}
  BY DEF MCInit, Ship!ShipperInit, ProcessInit
<1>2. Over = {} /\ IsFiniteSet(Over) /\ Cardinality(Over) = 0
  BY <1>1, FS_EmptySet DEF Over
<1>3. /\ task.pc = "select" /\ task.body = <<>> /\ stats.sent = 0 /\ stats.full = 0 /\ stats.failed = 0
      /\ task.attempt = 0
      /\ task \in [pc : {"select", "drain", "post", "end", "gone"}, body : Seq(Requests),
                   attempt : Nat, then : {"select", "drain", "end"}]
      /\ stats \in [sent : Nat, full : Nat, failed : Nat]
  BY <1>1
<1>4. ShipShape
  BY <1>1, <1>3 DEF ShipShape
<1>5. /\ Records(queue) = {} /\ Records(buf) = {} /\ Records(task.body) = {} /\ Records(stored) = {}
      /\ Distinct(queue) /\ Distinct(buf) /\ Distinct(task.body)
      /\ Len(queue) = 0 /\ Len(buf) = 0 /\ Len(task.body) = 0 /\ Len(stored) = 0
  BY <1>1, <1>3, EmptyRecords
<1>6. Apart
  BY <1>5 DEF Apart
<1>7. Tallied
  BY <1>2, <1>3, <1>5 DEF Tallied
<1>8. Confirmed
  <2>1. Records(stored) \ Records(task.body) = {} /\ \A r \in Requests : Places(stored, r) = {}
    BY <1>5 DEF Places
  <2>2. 0 <= 0 /\ 0 <= posts
    BY <1>1
  <2> QED
    BY <1>3, <1>5, <2>1, <2>2, FS_EmptySet DEF Confirmed
<1> QED
  BY <1>1, <1>3, <1>4, <1>6, <1>7, <1>8 DEF ShipInv

\* Every step of the shipper, and of any other reporter, keeps ShipInv.
LEMMA ShipStep == ShipInv /\ [MCNext]_vars => ShipInv'
<1> SUFFICES ASSUME ShipInv, [MCNext]_vars PROVE ShipInv'
  OBVIOUS
<1>1. ASSUME part # "ship", part' = part, UNCHANGED shipVars PROVE ShipInv'
  BY <1>1 DEF ShipInv, shipVars
<1>2. ASSUME part = "ship", part' = part, ShipCore' PROVE ShipInv'
  BY <1>2 DEF ShipInv, ShipCore
<1>3. CASE part = "ship" /\ part' = part /\ Ship!ShipperNext
  <2>1. ShipCore
    BY <1>3 DEF ShipInv, ShipCore
  <2>2. ASSUME NEW r \in Requests, Ship!Arrives(r), UNCHANGED shipVars PROVE ShipCore'
    BY <2>1, <2>2, WorldStep DEF Ship!Arrives, Arrives
  <2>3. ASSUME Ship!Signal \/ Ship!Exit, UNCHANGED shipVars PROVE ShipCore'
    BY <2>1, <2>3, WorldStep DEF Ship!Signal, Ship!Exit, Signal, Exit
  <2>4. ASSUME NEW r \in Requests, Ship!Record(r) PROVE ShipCore'
    BY <2>1, <2>4, RecordStep
  <2>5. ASSUME Ship!Receive \/ Ship!DrainQueue PROVE ShipCore'
    <3>1. UNCHANGED <<processVars, posts, stats, stored>>
      BY <2>5 DEF Ship!Receive, Ship!DrainQueue, Ship!processVars, processVars
    <3> QED
      BY <2>1, <2>5, <3>1, PushStep DEF Ship!Receive, Ship!DrainQueue
  <2>6. ASSUME Ship!Timer \/ Ship!LastFlush PROVE ShipCore'
    <3>1. UNCHANGED <<processVars, posts, queue, stats, stored>>
      BY <2>6 DEF Ship!Timer, Ship!LastFlush, Ship!processVars, processVars
    <3> QED
      BY <2>1, <2>6, <3>1, WholeFlushStep DEF Ship!Timer, Ship!LastFlush
  <2>7. ASSUME Ship!ShutdownSeen \/ Ship!End PROVE ShipCore'
    BY <2>1, <2>7, MoveStep
  <2>8. ASSUME Ship!Post PROVE ShipCore'
    BY <2>1, <2>8, PostStep
  <2> HIDE DEF ShipCore
  <2>9. ShipCore'
    BY <1>3, <2>2, <2>3, <2>4, <2>5, <2>6, <2>7, <2>8
       DEF Ship!ShipperNext, Ship!ShipTask, Ship!shipperVars, shipVars
  <2> QED
    BY <1>2, <1>3, <2>9
<1>4. CASE UNCHANGED vars
  <2>1. /\ posts' = posts /\ queue' = queue /\ buf' = buf /\ task' = task /\ stats' = stats
        /\ stored' = stored /\ unseen' = unseen /\ open' = open /\ phase' = phase /\ part' = part
    BY <1>4 DEF vars, shipVars, processVars
  <2>2. ShipShape = ShipShape' /\ Apart = Apart' /\ Confirmed = Confirmed'
    BY <2>1 DEF ShipShape, Apart, Over, Confirmed
  <2>3. Tallied = Tallied'
    BY <2>1 DEF Tallied, Over
  <2> QED
    BY <2>1, <2>2, <2>3 DEF ShipInv
<1>5. CASE MCNext
  BY <1>1, <1>3, <1>5 DEF MCNext
<1> QED
  BY <1>4, <1>5

\* The instance of Shipper counts as this module does.
LEMMA SameCardinality == ASSUME NEW S PROVE Ship!Cardinality(S) = Cardinality(S)
  BY DEF Ship!Cardinality, Cardinality

\* What ShipInv says of the records, as the property of Shipper states it.
LEMMA ShipInvGives == ShipInv => ShippingKept
<1> SUFFICES ASSUME ShipInv PROVE ShippingKept
  OBVIOUS
<1>1. CASE part = "ship"
  <2>1. ShipCore
    BY <1>1 DEF ShipInv, ShipCore
  <2>2. Ship!RecordsAccounted
    <3> DEFINE a == Len(queue)  b == Len(buf)  c == Len(task.body)
               d == stats.sent  e == stats.full  f == stats.failed
    <3>1. a \in Nat /\ b \in Nat /\ c \in Nat /\ d \in Nat /\ e \in Nat /\ f \in Nat
      BY <2>1 DEF ShipCore, ShipShape
    <3>2. (task.pc # "gone" /\ phase # "exited") =>
            Cardinality(Requests \ (unseen \cup open)) = a + b + c + d + e + f
      BY <2>1 DEF ShipCore, Tallied, Over
    <3> HIDE DEF a, b, c, d, e, f
    <3>3. a + b + c + d + e + f = (a + b + c) + (d + e + f)
      BY <3>1
    <3> QED
      BY <3>2, <3>3, SameCardinality
         DEF Ship!RecordsAccounted, Ship!Handed, Ship!Held, Ship!CountedRecords, Ship!Open,
             a, b, c, d, e, f
  <2>3. Ship!SentIsStored
    <3>1. stored \in Seq(Requests) /\ DOMAIN stored = 1..Len(stored) /\ posts \in {1, 2}
          /\ task.body \in Seq(Requests) /\ stats.sent \in Nat
          /\ (task.pc # "post" => task.body = <<>>)
          /\ (task.pc = "post" => task.attempt \in 1..posts)
      BY <2>1 DEF ShipCore, ShipShape
    <3>2. {stored[i] : i \in DOMAIN stored} = Records(stored)
      BY <3>1 DEF Records
    <3>3. IsFiniteSet(Records(stored)) /\ Cardinality(Records(stored)) \in Nat
      BY <3>1, CountRecords
    <3>4. /\ Cardinality(Records(stored) \ Records(task.body)) <= Cardinality(Records(stored))
          /\ Cardinality(Records(stored) \ Records(task.body)) \in Nat
      <4>1. Records(stored) \ Records(task.body) \in SUBSET Records(stored)
        OBVIOUS
      <4> QED
        BY <3>3, <4>1, FS_Subset, FS_CardinalityType
    <3>5. stats.sent <= Cardinality(Records(stored))
      BY <2>1, <3>1, <3>3, <3>4 DEF ShipCore, Confirmed
    <3>6. ASSUME NEW r \in Requests
          PROVE  Cardinality({i \in DOMAIN stored : stored[i] = r}) <= posts
      <4>1. {i \in DOMAIN stored : stored[i] = r} = Places(stored, r)
        BY <3>1 DEF Places
      <4>2. Cardinality(Places(stored, r))
              <= (IF r \in Records(task.body) THEN task.attempt - 1 ELSE posts)
        BY <2>1 DEF ShipCore, Confirmed
      <4>3. r \in Records(task.body) => task.attempt \in 1..posts
        BY <3>1, EmptyRecords
      <4>4. Cardinality(Places(stored, r)) \in Nat
        BY <3>1, FinitePlaces
      <4>5. Cardinality(Places(stored, r)) <= posts
        BY <3>1, <4>2, <4>3, <4>4
      <4> QED
        BY <4>1, <4>5
    <3> QED
      BY <3>2, <3>5, <3>6, SameCardinality DEF Ship!SentIsStored
  <2> QED
    BY <2>2, <2>3 DEF ShippingKept
<1>2. CASE part # "ship"
  <2>1. posts \in {1, 2} /\ stored = <<>> /\ stats.sent = 0
    BY <1>2 DEF ShipInv
  <2>2. {stored[i] : i \in DOMAIN stored} = {} /\ \A r \in Requests : {i \in DOMAIN stored : stored[i] = r} = {}
    BY <2>1
  <2>3. 0 <= 0 /\ 0 <= posts
    BY <2>1
  <2>4. Ship!SentIsStored
    BY <2>1, <2>2, <2>3, FS_EmptySet, SameCardinality DEF Ship!SentIsStored
  <2> QED
    BY <1>2, <2>4 DEF ShippingKept
<1> QED
  BY <1>1, <1>2

----------------------------------------------------------------------------
(* Sets that differ in one element, and tables of counts. *)

\* A set that differs from another in one element at most.
LEMMA OneElement ==
    ASSUME NEW S, NEW T, NEW x, IsFiniteSet(S), S \ {x} = T \ {x}
    PROVE  /\ IsFiniteSet(T) /\ Cardinality(S) \in Nat /\ Cardinality(T) \in Nat
           /\ x \in T /\ x \notin S => Cardinality(T) = Cardinality(S) + 1
           /\ x \notin T /\ x \in S => Cardinality(T) + 1 = Cardinality(S)
           /\ (x \in T <=> x \in S) => Cardinality(T) = Cardinality(S)
<1>1. Cardinality(S) \in Nat
  BY FS_CardinalityType
<1>2. CASE x \in T /\ x \notin S
  <2>1. T = S \cup {x}
    BY <1>2
  <2> QED
    BY <1>1, <1>2, <2>1, FS_AddElement
<1>3. CASE x \notin T /\ x \in S
  <2>1. T = S \ {x}
    BY <1>3
  <2>2. IsFiniteSet(T) /\ Cardinality(T) = Cardinality(S) - 1
    BY <1>3, <2>1, FS_RemoveElement
  <2>3. Cardinality(T) \in Nat
    BY <2>2, FS_CardinalityType
  <2> QED
    BY <1>1, <1>3, <2>2, <2>3
<1>4. CASE x \in T <=> x \in S
  <2>1. T = S
    BY <1>4
  <2> QED
    BY <1>1, <1>4, <2>1
<1> QED
  BY <1>2, <1>3, <1>4

\* What is folded into a table are finitely many reports.
LEMMA FiniteReports ==
    ASSUME NEW f, IsFiniteSet(DOMAIN f), \A p \in DOMAIN f : f[p] \in Nat
    PROVE  IsFiniteSet(Reports(f)) /\ Total(f) \in Nat
<1> DEFINE R(p) == {p} \X (1..f[p])
           T == {R(p) : p \in DOMAIN f}
           g == [p \in DOMAIN f |-> R(p)]
<1>1. g \in Surjection(DOMAIN f, T)
  BY DEF Surjection
<1>2. IsFiniteSet(T)
  BY <1>1, FS_Surjection
<1>3. ASSUME NEW p \in DOMAIN f PROVE IsFiniteSet(R(p))
  <2>1. 1 \in Int /\ f[p] \in Int
    OBVIOUS
  <2>2. IsFiniteSet(1..f[p]) /\ IsFiniteSet({p})
    BY <2>1, FS_Interval, FS_Singleton
  <2> QED
    BY <2>2, FS_Product
<1>4. \A U \in T : IsFiniteSet(U)
  BY <1>3
<1>5. Reports(f) = UNION T
  BY DEF Reports
<1> HIDE DEF T
<1>6. IsFiniteSet(Reports(f))
  BY <1>2, <1>4, <1>5, FS_UNION
<1> QED
  BY <1>6, FS_CardinalityType DEF Total

\* An empty table folds none.
LEMMA NoReports == Reports(NoPairs) = {} /\ Total(NoPairs) = 0 /\ DOMAIN NoPairs = {}
<1>1. DOMAIN NoPairs = {} /\ Reports(NoPairs) = {}
  BY DEF Reports, NoPairs
<1> QED
  BY <1>1, FS_EmptySet DEF Total

\* One report more in a table.
LEMMA OneReportMore ==
    ASSUME NEW f, NEW g, NEW p, NEW n \in Nat,
           IsFiniteSet(DOMAIN f), \A q \in DOMAIN f : f[q] \in Nat,
           DOMAIN g = DOMAIN f \cup {p}, \A q \in DOMAIN f \ {p} : g[q] = f[q],
           g[p] = n + 1, n = (IF p \in DOMAIN f THEN f[p] ELSE 0)
    PROVE  Total(g) = Total(f) + 1
<1> DEFINE x == <<p, n + 1>>
<1>1. x \notin Reports(f)
  <2> SUFFICES ASSUME x \in Reports(f) PROVE FALSE
    OBVIOUS
  <2>1. PICK q \in DOMAIN f : x \in {q} \X (1..f[q])
    BY DEF Reports
  <2>2. q = p /\ n + 1 \in 1..f[p]
    BY <2>1
  <2> QED
    BY <2>1, <2>2
<1>2. x \in Reports(g)
  <2>1. x \in {p} \X (1..g[p])
    OBVIOUS
  <2> QED
    BY <2>1 DEF Reports
<1>3. ASSUME NEW y \in Reports(f) PROVE y \in Reports(g)
  <2>1. PICK q \in DOMAIN f : y \in {q} \X (1..f[q])
    BY <1>3 DEF Reports
  <2>2. 1..f[q] \subseteq 1..g[q]
    <3>1. CASE q = p
      BY <3>1
    <3>2. CASE q # p
      BY <3>2
    <3> QED
      BY <3>1, <3>2
  <2>3. y \in {q} \X (1..g[q]) /\ q \in DOMAIN g
    BY <2>1, <2>2
  <2> QED
    BY <2>3 DEF Reports
<1>4. ASSUME NEW y \in Reports(g), y # x PROVE y \in Reports(f)
  <2>1. PICK q \in DOMAIN g : y \in {q} \X (1..g[q])
    BY <1>4 DEF Reports
  <2>2. PICK k \in 1..g[q] : y = <<q, k>>
    BY <2>1
  <2>3. q \in DOMAIN f /\ k \in 1..f[q]
    <3>1. CASE q = p
      <4>1. k # n + 1 /\ k \in 1..(n + 1)
        BY <1>4, <2>2, <3>1
      <4>2. k \in 1..n
        BY <4>1
      <4> QED
        BY <3>1, <4>2
    <3>2. CASE q # p
      BY <2>1, <2>2, <3>2
    <3> QED
      BY <3>1, <3>2
  <2>4. y \in {q} \X (1..f[q])
    BY <2>2, <2>3
  <2> QED
    BY <2>3, <2>4 DEF Reports
<1> HIDE DEF x
<1>5. Reports(g) = Reports(f) \cup {x}
  BY <1>2, <1>3, <1>4
<1>6. IsFiniteSet(Reports(f))
  BY FiniteReports
<1> QED
  BY <1>1, <1>5, <1>6, FS_AddElement DEF Total

\* The reports of one pair taken out of a table.
LEMMA ReportsTaken ==
    ASSUME NEW f, NEW g, NEW p \in DOMAIN f,
           IsFiniteSet(DOMAIN f), \A q \in DOMAIN f : f[q] \in Nat,
           DOMAIN g = DOMAIN f \ {p}, \A q \in DOMAIN g : g[q] = f[q]
    PROVE  Total(f) = Total(g) + f[p]
<1> DEFINE P == {p} \X (1..f[p])
<1>1. Reports(f) = Reports(g) \cup P
  <2>1. ASSUME NEW y \in Reports(f) PROVE y \in Reports(g) \cup P
    BY <2>1 DEF Reports
  <2>2. ASSUME NEW y \in Reports(g) \cup P PROVE y \in Reports(f)
    BY <2>2 DEF Reports
  <2> QED
    BY <2>1, <2>2
<1>2. Reports(g) \cap P = {}
  <2>1. ASSUME NEW y, y \in Reports(g), y \in P PROVE FALSE
    <3>1. PICK q \in DOMAIN g : y \in {q} \X (1..g[q])
      BY <2>1 DEF Reports
    <3>2. y[1] = q /\ y[1] = p
      BY <2>1, <3>1
    <3> QED
      BY <3>1, <3>2
  <2> QED
    BY <2>1
<1>3. IsFiniteSet(P) /\ Cardinality(P) = f[p]
  <2>1. 1 \in Int /\ f[p] \in Int /\ f[p] \in Nat /\ f[p] - 1 + 1 = f[p] /\ (1 > f[p] => f[p] = 0)
    OBVIOUS
  <2>2. IsFiniteSet(1..f[p]) /\ Cardinality(1..f[p]) = f[p]
    BY <2>1, FS_Interval
  <2>3. IsFiniteSet({p}) /\ Cardinality({p}) = 1
    BY FS_Singleton
  <2>4. IsFiniteSet(P) /\ Cardinality(P) = Cardinality({p}) * Cardinality(1..f[p])
    BY <2>2, <2>3, FS_Product
  <2>5. Cardinality({p}) * Cardinality(1..f[p]) = 1 * f[p]
    BY <2>2, <2>3
  <2>6. 1 * f[p] = f[p]
    BY <2>1
  <2> QED
    BY <2>4, <2>5, <2>6
<1>4. IsFiniteSet(DOMAIN g)
  BY FS_Difference, FS_Subset
<1>5. IsFiniteSet(Reports(g)) /\ Total(g) \in Nat
  BY <1>4, FiniteReports
<1> HIDE DEF P
<1>6. Cardinality(Reports(f)) = Cardinality(Reports(g)) + Cardinality(P) - Cardinality(Reports(g) \cap P)
  BY <1>1, <1>3, <1>5, FS_Union
<1>7. Cardinality(Reports(g) \cap P) = 0
  BY <1>2, FS_EmptySet
<1> QED
  BY <1>3, <1>5, <1>6, <1>7 DEF Total

----------------------------------------------------------------------------
(* The sink. *)

\* One thread moves: what becomes of the threads with a report in hand and of those past the check.
LEMMA ThreadMoves ==
    ASSUME SinkShape, NEW t \in Threads, NEW r \in ThreadState, threads' = [threads EXCEPT ![t] = r]
    PROVE  /\ threads' \in [Threads -> ThreadState] /\ threads'[t] = r
           /\ \A u \in Threads \ {t} : threads'[u] = threads[u]
           /\ Busy \in Nat /\ Busy' \in Nat /\ Cardinality(At("check")) \in Nat
           /\ At("check")' \subseteq Threads /\ Cardinality(At("check")') \in Nat
           /\ Cardinality(At("check")') <= Cardinality(Threads) /\ Cardinality(Threads) \in Nat
           /\ threads[t].pc = "idle" /\ r.pc # "idle" => Busy' = Busy + 1
           /\ threads[t].pc # "idle" /\ r.pc = "idle" => Busy' + 1 = Busy
           /\ threads[t].pc # "idle" /\ r.pc # "idle" => Busy' = Busy
           /\ threads[t].pc # "check" /\ r.pc # "check" =>
                 Cardinality(At("check")') = Cardinality(At("check"))
           /\ threads[t].pc = "check" /\ r.pc # "check" =>
                 Cardinality(At("check")') + 1 = Cardinality(At("check"))
<1>1. /\ threads' \in [Threads -> ThreadState] /\ threads'[t] = r
      /\ \A u \in Threads \ {t} : threads'[u] = threads[u]
  BY DEF SinkShape
<1>2. IsFiniteSet(Threads) /\ Cardinality(Threads) \in Nat
  BY SinkAssumption, FS_CardinalityType
<1>3. /\ Working \subseteq Threads /\ Working' \subseteq Threads
      /\ At("check") \subseteq Threads /\ At("check")' \subseteq Threads
  BY DEF Working, At
<1>4. Working \ {t} = Working' \ {t}
  BY <1>1 DEF Working
<1>5. At("check") \ {t} = At("check")' \ {t}
  BY <1>1 DEF At
<1>6. /\ t \in Working <=> threads[t].pc # "idle"
      /\ t \in Working' <=> r.pc # "idle"
      /\ t \in At("check") <=> threads[t].pc = "check"
      /\ t \in At("check")' <=> r.pc = "check"
  BY <1>1 DEF Working, At
<1>7. IsFiniteSet(Working) /\ IsFiniteSet(At("check")) /\ IsFiniteSet(At("check")')
  BY <1>2, <1>3, FS_Subset
<1>8. Busy = Cardinality(Working) /\ Busy' = Cardinality(Working')
  BY DEF Busy, Working
<1>9. /\ Busy \in Nat /\ Busy' \in Nat
      /\ threads[t].pc = "idle" /\ r.pc # "idle" => Busy' = Busy + 1
      /\ threads[t].pc # "idle" /\ r.pc = "idle" => Busy' + 1 = Busy
      /\ threads[t].pc # "idle" /\ r.pc # "idle" => Busy' = Busy
  BY <1>4, <1>6, <1>7, <1>8, OneElement
<1>10. /\ Cardinality(At("check")) \in Nat /\ Cardinality(At("check")') \in Nat
       /\ threads[t].pc # "check" /\ r.pc # "check" =>
             Cardinality(At("check")') = Cardinality(At("check"))
       /\ threads[t].pc = "check" /\ r.pc # "check" =>
             Cardinality(At("check")') + 1 = Cardinality(At("check"))
  BY <1>5, <1>6, <1>7, OneElement
<1>11. Cardinality(At("check")') <= Cardinality(Threads)
  BY <1>2, <1>3, FS_Subset
<1> QED
  BY <1>1, <1>2, <1>3, <1>9, <1>10, <1>11

\* A thread takes its next step with the report it has.
LEMMA BecomesFacts ==
    ASSUME SinkShape, NEW t \in Threads, Becomes(t, "idle") \/ Becomes(t, "retain") \/ Becomes(t, "cap")
                                         \/ Becomes(t, "check") \/ Becomes(t, "parse")
    PROVE  \E r \in ThreadState :
              /\ threads' = [threads EXCEPT ![t] = r] /\ r.now <= threads[t].now /\ r.pc # "claim"
              /\ Becomes(t, "idle") => r.pc = "idle"
              /\ Becomes(t, "retain") => r.pc = "retain"
              /\ Becomes(t, "cap") => r.pc = "cap"
              /\ Becomes(t, "check") => r.pc = "check"
              /\ Becomes(t, "parse") => r.pc = "parse"
<1>1. threads \in [Threads -> ThreadState] /\ threads[t] \in ThreadState
  BY DEF SinkShape
<1>2. ASSUME NEW pc \in {"idle", "retain", "cap", "check", "parse"}, Becomes(t, pc)
      PROVE  \E r \in ThreadState :
                threads' = [threads EXCEPT ![t] = r] /\ r.now <= threads[t].now /\ r.pc = pc
  <2>1. CASE pc = "idle"
    <3>1. threads' = [threads EXCEPT ![t] = IdleThread]
      BY <1>2, <2>1 DEF Becomes
    <3>2. IdleThread \in ThreadState /\ IdleThread.now = 0 /\ IdleThread.pc = "idle"
      BY DEF IdleThread, ThreadState
    <3>3. threads[t].now \in Nat
      BY <1>1 DEF ThreadState
    <3>4. IdleThread.now <= threads[t].now /\ IdleThread.pc = pc
      BY <2>1, <3>2, <3>3
    <3> QED
      BY <3>1, <3>2, <3>4
  <2>2. CASE pc # "idle"
    <3> DEFINE r == [threads[t] EXCEPT !.pc = pc]
    <3>1. r \in ThreadState /\ r.now = threads[t].now /\ r.pc = pc /\ threads[t].now \in Nat
      BY <1>1 DEF ThreadState
    <3>2. threads' = [threads EXCEPT ![t] = r]
      BY <1>2, <2>2 DEF Becomes
    <3>3. r.now <= threads[t].now
      BY <3>1
    <3> HIDE DEF r
    <3> QED
      BY <3>1, <3>2, <3>3
  <2> QED
    BY <2>1, <2>2
<1>3. ASSUME NEW pc, Becomes(t, pc) PROVE threads'[t].pc = pc
  <2>1. CASE pc = "idle"
    BY <1>1, <1>3, <2>1 DEF Becomes, IdleThread
  <2>2. CASE pc # "idle"
    BY <1>1, <1>3, <2>2 DEF Becomes, ThreadState
  <2> QED
    BY <2>1, <2>2
<1>4. ASSUME NEW pc \in {"idle", "retain", "cap", "check", "parse"}, Becomes(t, pc)
      PROVE  \E r \in ThreadState :
              /\ threads' = [threads EXCEPT ![t] = r] /\ r.now <= threads[t].now /\ r.pc # "claim"
              /\ threads'[t] = r
  BY <1>1, <1>2, <1>4
<1> QED
  BY <1>3, <1>4

\* A counter goes up by one.
LEMMA CountFacts ==
    ASSUME sink \in SinkCounts
    PROVE  /\ Count("received") => /\ sink' \in SinkCounts /\ sink'.received = sink.received + 1
                                   /\ sink'.limited = sink.limited /\ sink'.invalid = sink.invalid
                                   /\ sink'.overflow = sink.overflow /\ sink'.kept = sink.kept
                                   /\ sink'.sent = sink.sent /\ sink'.failed = sink.failed
                                   /\ sink'.flushed = sink.flushed /\ sink'.local = sink.local
           /\ Count("limited") => /\ sink' \in SinkCounts /\ sink'.received = sink.received
                                  /\ sink'.limited = sink.limited + 1 /\ sink'.invalid = sink.invalid
                                  /\ sink'.overflow = sink.overflow /\ sink'.kept = sink.kept
                                  /\ sink'.sent = sink.sent /\ sink'.failed = sink.failed
                                  /\ sink'.flushed = sink.flushed /\ sink'.local = sink.local
           /\ Count("invalid") => /\ sink' \in SinkCounts /\ sink'.received = sink.received
                                  /\ sink'.limited = sink.limited /\ sink'.invalid = sink.invalid + 1
                                  /\ sink'.overflow = sink.overflow /\ sink'.kept = sink.kept
                                  /\ sink'.sent = sink.sent /\ sink'.failed = sink.failed
                                  /\ sink'.flushed = sink.flushed /\ sink'.local = sink.local
           /\ Count("overflow") => /\ sink' \in SinkCounts /\ sink'.received = sink.received
                                   /\ sink'.limited = sink.limited /\ sink'.invalid = sink.invalid
                                   /\ sink'.overflow = sink.overflow + 1 /\ sink'.kept = sink.kept
                                   /\ sink'.sent = sink.sent /\ sink'.failed = sink.failed
                                   /\ sink'.flushed = sink.flushed /\ sink'.local = sink.local
           /\ Count("kept") => /\ sink' \in SinkCounts /\ sink'.received = sink.received
                               /\ sink'.limited = sink.limited /\ sink'.invalid = sink.invalid
                               /\ sink'.overflow = sink.overflow /\ sink'.kept = sink.kept + 1
                               /\ sink'.sent = sink.sent /\ sink'.failed = sink.failed
                               /\ sink'.flushed = sink.flushed /\ sink'.local = sink.local
           /\ Count("local") => /\ sink' \in SinkCounts /\ sink'.received = sink.received
                                /\ sink'.limited = sink.limited /\ sink'.invalid = sink.invalid
                                /\ sink'.overflow = sink.overflow /\ sink'.kept = sink.kept
                                /\ sink'.sent = sink.sent /\ sink'.failed = sink.failed
                                /\ sink'.flushed = sink.flushed /\ sink'.local = sink.local + 1
<1>1. ASSUME NEW n \in Nat
      PROVE  /\ [sink EXCEPT !.received = n] \in SinkCounts
             /\ [sink EXCEPT !.limited = n] \in SinkCounts
             /\ [sink EXCEPT !.invalid = n] \in SinkCounts
             /\ [sink EXCEPT !.overflow = n] \in SinkCounts
             /\ [sink EXCEPT !.kept = n] \in SinkCounts
             /\ [sink EXCEPT !.local = n] \in SinkCounts
  BY DEF SinkCounts
<1>2. /\ sink.received + 1 \in Nat /\ sink.limited + 1 \in Nat /\ sink.invalid + 1 \in Nat
      /\ sink.overflow + 1 \in Nat /\ sink.kept + 1 \in Nat /\ sink.local + 1 \in Nat
  BY DEF SinkCounts
<1> QED
  BY <1>1, <1>2 DEF Count, SinkCounts

\* The sums of ReportsAccounted, in terms of the values they add.
LEMMA SinkSums ==
    ASSUME NEW a \in Nat, NEW b \in Nat, NEW c \in Nat, NEW d \in Nat, NEW h \in Nat, NEW e \in Nat,
           NEW f \in Nat
    PROVE  /\ a + b + c + d + h + (e + 1) = (a + b + c + d + h + e) + 1
           /\ e = f + 1 =>
                /\ a + b + c + d + h + e = (a + 1) + b + c + d + h + f
                /\ a + b + c + d + h + e = a + (b + 1) + c + d + h + f
                /\ a + b + c + d + h + e = a + b + (c + 1) + d + h + f
                /\ a + b + c + d + h + e = a + b + c + (d + 1) + h + f
                /\ a + b + c + d + h + e = a + b + c + d + (h + 1) + f
  OBVIOUS

\* The sums and the bound of SinkInv, by themselves.
Received ==
    sink.received = sink.limited + sink.invalid + sink.overflow + sink.kept + sink.local + Busy
Kept == sink.kept = Total(pending) + Total(batch) + sink.sent + sink.failed
Flushed == sink.flushed + Cardinality(DOMAIN batch) <= MaxPending

\* The parts of SinkInv.
LEMMA SinkParts ==
    SinkInv <=> SinkShape /\ Received /\ Kept /\ Room /\ Spaced /\ Flushed
  BY DEF SinkInv, ReportsAccounted, Received, Kept, Flushed

\* Every counter is a number.
LEMMA SinkNumbers ==
    ASSUME SinkShape
    PROVE  /\ sink.received \in Nat /\ sink.limited \in Nat /\ sink.invalid \in Nat
           /\ sink.overflow \in Nat /\ sink.kept \in Nat /\ sink.sent \in Nat /\ sink.failed \in Nat
           /\ sink.local \in Nat /\ sink.flushed \in Nat /\ lastPrune \in Nat /\ clock \in Nat
           /\ Cardinality(tracked) \in Nat
           /\ \A t \in Threads : threads[t].now \in Nat /\ threads[t].last \in Nat
           /\ Busy \in Nat
<1>1. Cardinality(tracked) \in Nat
  BY FS_CardinalityType DEF SinkShape
<1>2. Busy \in Nat
  <2>1. {t \in Threads : threads[t].pc # "idle"} \subseteq Threads
    OBVIOUS
  <2> QED
    BY <2>1, SinkAssumption, FS_Subset, FS_CardinalityType DEF Busy
<1> QED
  BY <1>1, <1>2 DEF SinkShape, SinkCounts, ThreadState

\* The folded reports stay as they are.
LEMMA KeptKept ==
    ASSUME Kept, Flushed, UNCHANGED <<pending, batch>>,
           sink'.kept = sink.kept, sink'.sent = sink.sent, sink'.failed = sink.failed,
           sink'.flushed = sink.flushed
    PROVE  Kept' /\ Flushed'
  BY DEF Kept, Flushed, Total, Reports

\* csp_report counts a report and asks the limiter.
LEMMA ReceiveStep ==
    ASSUME SinkInv, NEW t \in Threads, Receive(t)
    PROVE  SinkInv'
<1>1. SinkShape /\ Received /\ Kept /\ Room /\ Spaced /\ Flushed
  BY SinkParts
<1>2. PICK c \in Clients, forward \in BOOLEAN :
        threads' = [threads EXCEPT ![t] =
              [pc |-> IF Cardinality(tracked) > MaxTracked THEN "prune" ELSE "check",
               client |-> c, now |-> clock, last |-> 0, forward |-> forward]]
  BY DEF Receive
<1> DEFINE r == [pc |-> IF Cardinality(tracked) > MaxTracked THEN "prune" ELSE "check",
                 client |-> c, now |-> clock, last |-> 0, forward |-> forward]
<1>3. /\ r \in ThreadState /\ r.now = clock
      /\ \/ r.pc = "prune"
         \/ r.pc = "check" /\ ~(Cardinality(tracked) > MaxTracked)
  BY <1>1 DEF SinkShape, ThreadState
<1>4. threads' = [threads EXCEPT ![t] = r] /\ threads[t].pc = "idle"
  BY <1>2 DEF Receive
<1> HIDE DEF r
<1>5. /\ tracked' = tracked /\ lastPrune' = lastPrune /\ prunes' = prunes /\ clock' = clock
      /\ pending' = pending /\ batch' = batch /\ Count("received")
  BY DEF Receive
<1>6. /\ threads' \in [Threads -> ThreadState] /\ threads'[t] = r
      /\ \A u \in Threads \ {t} : threads'[u] = threads[u]
      /\ Busy' = Busy + 1
      /\ Cardinality(At("check")) \in Nat /\ Cardinality(At("check")') \in Nat
      /\ Cardinality(At("check")') <= Cardinality(Threads) /\ Cardinality(Threads) \in Nat
      /\ r.pc # "check" => Cardinality(At("check")') = Cardinality(At("check"))
  BY <1>1, <1>3, <1>4, ThreadMoves
<1>7. /\ sink' \in SinkCounts /\ sink'.received = sink.received + 1
      /\ sink'.limited = sink.limited /\ sink'.invalid = sink.invalid
      /\ sink'.overflow = sink.overflow /\ sink'.local = sink.local /\ sink'.kept = sink.kept
      /\ sink'.sent = sink.sent /\ sink'.failed = sink.failed /\ sink'.flushed = sink.flushed
  BY <1>1, <1>5, CountFacts DEF SinkShape
<1>8. SinkShape'
  BY <1>1, <1>5, <1>6, <1>7 DEF SinkShape, IsTable
<1>9. Received'
  BY <1>1, <1>6, <1>7, SinkNumbers, SinkSums DEF Received
<1>10. Kept' /\ Flushed'
  BY <1>1, <1>5, <1>7, KeptKept
<1>11. Room'
  <2>1. CASE r.pc # "check"
    BY <1>1, <1>5, <1>6, <2>1 DEF Room
  <2>2. CASE ~(Cardinality(tracked) > MaxTracked)
    BY <1>1, <1>5, <1>6, <2>2, SinkNumbers, SinkAssumption DEF Room
  <2> QED
    BY <1>3, <2>1, <2>2
<1>12. Spaced'
  <2>1. ASSUME NEW u \in Threads
        PROVE  /\ threads'[u].now <= clock'
               /\ threads'[u].pc = "claim" => threads'[u].last + PruneInterval <= threads'[u].now
    <3>1. CASE u = t
      BY <1>1, <1>3, <1>5, <1>6, <3>1, SinkNumbers
    <3>2. CASE u # t
      BY <1>1, <1>5, <1>6, <3>2 DEF Spaced
    <3> QED
      BY <3>1, <3>2
  <2> QED
    BY <1>1, <1>5, <2>1 DEF Spaced
<1> QED
  BY <1>8, <1>9, <1>10, <1>11, <1>12 DEF SinkInv, ReportsAccounted, Received, Kept, Flushed

\* A thread that does not prune leaves the timestamps as they are.
LEMMA SpacedKept ==
    ASSUME SinkShape, Spaced, NEW t \in Threads, NEW r \in ThreadState,
           threads' = [threads EXCEPT ![t] = r], r.now <= clock,
           r.pc = "claim" => r.last + PruneInterval <= r.now,
           UNCHANGED <<lastPrune, prunes, clock>>
    PROVE  Spaced'
<1>1. /\ threads' \in [Threads -> ThreadState] /\ threads'[t] = r
      /\ \A u \in Threads \ {t} : threads'[u] = threads[u]
  BY ThreadMoves
<1>2. ASSUME NEW u \in Threads
      PROVE  /\ threads'[u].now <= clock'
             /\ threads'[u].pc = "claim" => threads'[u].last + PruneInterval <= threads'[u].now
  <2>1. CASE u = t
    BY <1>1, <2>1
  <2>2. CASE u # t
    BY <1>1, <2>2 DEF Spaced
  <2> QED
    BY <2>1, <2>2
<1> QED
  BY <1>2 DEF Spaced

\* A thread goes on with its report, or ends it under one of the reasons to drop it.
LEMMA ReportGoesOn ==
    ASSUME SinkShape, Received, Kept, Flushed, NEW t \in Threads, NEW r \in ThreadState,
           threads' = [threads EXCEPT ![t] = r], threads[t].pc # "idle",
           \/ r.pc # "idle" /\ sink' = sink
           \/ r.pc = "idle" /\ (Count("limited") \/ Count("invalid") \/ Count("overflow") \/ Count("local")),
           UNCHANGED <<pending, batch>>
    PROVE  /\ Received' /\ Kept' /\ Flushed' /\ sink' \in SinkCounts
           /\ threads' \in [Threads -> ThreadState] /\ IsTable(pending)' /\ IsTable(batch)'
<1>1. /\ threads' \in [Threads -> ThreadState] /\ Busy \in Nat /\ Busy' \in Nat
      /\ r.pc = "idle" => Busy' + 1 = Busy
      /\ r.pc # "idle" => Busy' = Busy
  BY ThreadMoves
<1>2. IsTable(pending)' /\ IsTable(batch)'
  BY DEF SinkShape, IsTable
<1>3. sink \in SinkCounts
  BY DEF SinkShape
<1>4. CASE r.pc # "idle" /\ sink' = sink
  BY <1>1, <1>2, <1>3, <1>4, KeptKept DEF Received
<1>5. ASSUME r.pc = "idle", Count("limited") \/ Count("invalid") \/ Count("overflow") \/ Count("local")
      PROVE  Received' /\ Kept' /\ Flushed' /\ sink' \in SinkCounts
  <2>1. /\ sink' \in SinkCounts /\ sink'.received = sink.received /\ sink'.kept = sink.kept
        /\ sink'.sent = sink.sent /\ sink'.failed = sink.failed /\ sink'.flushed = sink.flushed
        /\ \/ sink'.limited = sink.limited + 1 /\ sink'.invalid = sink.invalid
              /\ sink'.overflow = sink.overflow /\ sink'.local = sink.local
           \/ sink'.limited = sink.limited /\ sink'.invalid = sink.invalid + 1
              /\ sink'.overflow = sink.overflow /\ sink'.local = sink.local
           \/ sink'.limited = sink.limited /\ sink'.invalid = sink.invalid
              /\ sink'.overflow = sink.overflow + 1 /\ sink'.local = sink.local
           \/ sink'.limited = sink.limited /\ sink'.invalid = sink.invalid
              /\ sink'.overflow = sink.overflow /\ sink'.local = sink.local + 1
    BY <1>3, <1>5, CountFacts
  <2>2. Kept' /\ Flushed'
    BY <2>1, KeptKept
  <2>3. Received'
    <3> DEFINE a == sink.limited  b == sink.invalid  c == sink.overflow  d == sink.kept
               h == sink.local  e == Busy  f == Busy'
    <3>1. /\ a \in Nat /\ b \in Nat /\ c \in Nat /\ d \in Nat /\ h \in Nat /\ e \in Nat /\ f \in Nat
          /\ e = f + 1 /\ sink.received = a + b + c + d + h + e
      BY <1>1, <1>5, SinkNumbers DEF Received
    <3> HIDE DEF a, b, c, d, h, e, f
    <3>2. /\ a + b + c + d + h + e = (a + 1) + b + c + d + h + f
          /\ a + b + c + d + h + e = a + (b + 1) + c + d + h + f
          /\ a + b + c + d + h + e = a + b + (c + 1) + d + h + f
          /\ a + b + c + d + h + e = a + b + c + d + (h + 1) + f
      BY <3>1, SinkSums
    <3> QED
      BY <2>1, <3>1, <3>2 DEF Received, a, b, c, d, h, e, f
  <2> QED
    BY <2>1, <2>2, <2>3
<1> QED
  BY <1>1, <1>2, <1>4, <1>5

\* maybe_prune reads the timestamp.
LEMMA LoadLastStep ==
    ASSUME SinkInv, NEW t \in Threads, LoadLast(t)
    PROVE  SinkInv'
<1>1. SinkShape /\ Received /\ Kept /\ Room /\ Spaced /\ Flushed
  BY SinkParts
<1> DEFINE pc == IF threads[t].now < lastPrune + PruneInterval THEN "cap" ELSE "claim"
           r == [threads[t] EXCEPT !.last = lastPrune, !.pc = pc]
<1>2. threads \in [Threads -> ThreadState] /\ threads[t] \in ThreadState /\ lastPrune \in Nat
  BY <1>1 DEF SinkShape
<1>3. threads' = [threads EXCEPT ![t] = r]
  BY <1>2 DEF LoadLast, ThreadState
<1>4. pc \in {"cap", "claim"} /\ (pc = "claim" => lastPrune + PruneInterval <= threads[t].now)
  BY <1>1, SinkNumbers, SinkAssumption
<1> HIDE DEF pc
<1>5. r \in ThreadState /\ r.now = threads[t].now /\ r.last = lastPrune /\ r.pc = pc
  BY <1>2, <1>4 DEF ThreadState
<1> HIDE DEF r
<1>6. /\ tracked' = tracked /\ lastPrune' = lastPrune /\ prunes' = prunes /\ clock' = clock
      /\ pending' = pending /\ batch' = batch /\ sink' = sink /\ threads[t].pc = "prune"
  BY DEF LoadLast
<1>7. /\ Received' /\ Kept' /\ Flushed' /\ sink' \in SinkCounts
      /\ threads' \in [Threads -> ThreadState] /\ IsTable(pending)' /\ IsTable(batch)'
  BY <1>1, <1>3, <1>4, <1>5, <1>6, ReportGoesOn
<1>8. Spaced'
  BY <1>1, <1>3, <1>4, <1>5, <1>6, SpacedKept DEF Spaced
<1>9. Room'
  <2>1. Cardinality(At("check")') = Cardinality(At("check"))
    BY <1>1, <1>3, <1>4, <1>5, <1>6, ThreadMoves
  <2> QED
    BY <1>1, <1>6, <2>1 DEF Room
<1>10. SinkShape'
  BY <1>1, <1>6, <1>7 DEF SinkShape
<1> QED
  BY <1>7, <1>8, <1>9, <1>10 DEF SinkInv, ReportsAccounted, Received, Kept, Flushed

\* One interval more.
LEMMA OneMoreInterval == ASSUME NEW n \in Nat, NEW p \in Nat PROVE (n + 1) * p = n * p + p /\ n * p \in Nat
  OBVIOUS

\* A reading an interval after the last keeps them apart.
LEMMA OneReadingMore ==
    ASSUME NEW s \in Seq(Nat), NEW last \in Nat, NEW now \in Nat, Spread(s, last),
           last + PruneInterval <= now
    PROVE  Append(s, now) \in Seq(Nat) /\ Spread(Append(s, now), now)
<1> DEFINE a == Append(s, now)  n == Len(s)  p == PruneInterval
<1>1. /\ a \in Seq(Nat) /\ Len(a) = n + 1 /\ a[n + 1] = now /\ n \in Nat
      /\ \A i \in 1..n : a[i] = s[i] /\ s[i] \in Nat
  OBVIOUS
<1>2. p \in Nat
  BY SinkAssumption
<1>3. /\ \A i \in 1..(n - 1) : s[i] + p <= s[i + 1]
      /\ n * p <= last
      /\ n > 0 => s[n] = last
  BY DEF Spread
<1>4. last + p <= now
  OBVIOUS
<1> HIDE DEF a, n, p
<1>5. (n + 1) * p = n * p + p /\ n * p \in Nat
  BY <1>1, <1>2, OneMoreInterval
<1>6. (n + 1) * p <= now
  BY <1>2, <1>3, <1>4, <1>5
<1>7. ASSUME NEW i \in 1..n PROVE a[i] + p <= a[i + 1]
  <2>1. CASE i = n
    BY <1>1, <1>3, <1>4, <2>1
  <2>2. CASE i # n
    <3>1. i \in 1..(n - 1) /\ i + 1 \in 1..n
      BY <1>1, <2>2
    <3> QED
      BY <1>1, <1>3, <3>1
  <2> QED
    BY <2>1, <2>2
<1>8. (n + 1) - 1 = n
  BY <1>1
<1>9. /\ \A i \in 1..(Len(a) - 1) : a[i] + p <= a[i + 1]
      /\ Len(a) * p <= now /\ a[Len(a)] = now
  BY <1>1, <1>6, <1>7, <1>8
<1> QED
  BY <1>1, <1>9 DEF Spread, a, p

\* Whoever replaces the timestamp prunes.
LEMMA ClaimPruneStep ==
    ASSUME SinkInv, NEW t \in Threads, ClaimPrune(t)
    PROVE  SinkInv'
<1>1. SinkShape /\ Received /\ Kept /\ Room /\ Spaced /\ Flushed
  BY SinkParts
<1>2. Becomes(t, "retain") \/ Becomes(t, "cap")
  BY DEF ClaimPrune
<1>3. PICK r \in ThreadState :
         /\ threads' = [threads EXCEPT ![t] = r] /\ r.now <= threads[t].now /\ r.pc # "claim"
         /\ Becomes(t, "retain") => r.pc = "retain"
         /\ Becomes(t, "cap") => r.pc = "cap"
  BY <1>1, <1>2, BecomesFacts
<1>4. /\ tracked' = tracked /\ clock' = clock /\ pending' = pending /\ batch' = batch /\ sink' = sink
      /\ threads[t].pc = "claim"
      /\ \/ lastPrune' = lastPrune /\ prunes' = prunes
         \/ lastPrune = threads[t].last /\ lastPrune' = threads[t].now
            /\ prunes' = Append(prunes, threads[t].now)
  BY DEF ClaimPrune
<1>5. /\ Received' /\ Kept' /\ Flushed' /\ sink' \in SinkCounts
      /\ threads' \in [Threads -> ThreadState] /\ IsTable(pending)' /\ IsTable(batch)'
  BY <1>1, <1>2, <1>3, <1>4, ReportGoesOn
<1>6. Room'
  <2>1. Cardinality(At("check")') = Cardinality(At("check"))
    BY <1>1, <1>2, <1>3, <1>4, ThreadMoves
  <2> QED
    BY <1>1, <1>4, <2>1 DEF Room
<1>7. r.now <= clock
  BY <1>1, <1>3, SinkNumbers DEF Spaced, ThreadState
<1>8. CASE lastPrune' = lastPrune /\ prunes' = prunes
  <2>1. Spaced'
    BY <1>1, <1>3, <1>4, <1>7, <1>8, SpacedKept
  <2>2. SinkShape'
    BY <1>1, <1>4, <1>5, <1>8 DEF SinkShape
  <2> QED
    BY <1>5, <1>6, <2>1, <2>2 DEF SinkInv, ReportsAccounted, Received, Kept, Flushed
<1>9. CASE lastPrune = threads[t].last /\ lastPrune' = threads[t].now
           /\ prunes' = Append(prunes, threads[t].now)
  <2>1. prunes' \in Seq(Nat) /\ Spread(prunes', lastPrune')
    BY <1>1, <1>4, <1>9, OneReadingMore, SinkNumbers DEF SinkShape, Spaced
  <2>2. SinkShape'
    BY <1>1, <1>4, <1>5, <1>9, <2>1, SinkNumbers DEF SinkShape
  <2>4. lastPrune' <= clock'
    BY <1>1, <1>4, <1>9 DEF Spaced
  <2>5. ASSUME NEW u \in Threads
        PROVE  /\ threads'[u].now <= clock'
               /\ threads'[u].pc = "claim" => threads'[u].last + PruneInterval <= threads'[u].now
    <3>1. /\ threads'[t] = r /\ \A v \in Threads \ {t} : threads'[v] = threads[v]
      BY <1>1, <1>3, ThreadMoves
    <3>2. CASE u = t
      BY <1>3, <1>4, <1>7, <3>1, <3>2
    <3>3. CASE u # t
      BY <1>1, <1>4, <3>1, <3>3 DEF Spaced
    <3> QED
      BY <3>2, <3>3
  <2>6. Spaced'
    BY <2>1, <2>4, <2>5 DEF Spaced
  <2> QED
    BY <1>5, <1>6, <2>2, <2>6 DEF SinkInv, ReportsAccounted, Received, Kept, Flushed
<1> QED
  BY <1>4, <1>8, <1>9

\* The table is scanned, its size is checked, the address is tracked, or a body is no report: the
\* thread goes on or drops its report.
LEMMA TableStep ==
    ASSUME SinkInv, NEW t \in Threads, Retain(t) \/ Cap(t) \/ CheckKey(t) \/ ParseFails(t)
                                       \/ NotForwarded(t)
    PROVE  SinkInv'
<1>1. SinkShape /\ Received /\ Kept /\ Room /\ Spaced /\ Flushed
  BY SinkParts
<1>2. /\ lastPrune' = lastPrune /\ prunes' = prunes /\ clock' = clock /\ pending' = pending
      /\ batch' = batch /\ threads[t].pc \in {"retain", "cap", "check", "parse"}
      /\ \/ Becomes(t, "cap") /\ sink' = sink
         \/ Becomes(t, "check") /\ sink' = sink
         \/ Becomes(t, "parse") /\ sink' = sink
         \/ Becomes(t, "idle") /\ (Count("limited") \/ Count("invalid") \/ Count("local"))
  BY DEF Retain, Cap, CheckKey, ParseFails, NotForwarded
<1>3. PICK r \in ThreadState :
         /\ threads' = [threads EXCEPT ![t] = r] /\ r.now <= threads[t].now /\ r.pc # "claim"
         /\ Becomes(t, "idle") => r.pc = "idle"
         /\ Becomes(t, "retain") => r.pc = "retain"
         /\ Becomes(t, "cap") => r.pc = "cap"
         /\ Becomes(t, "check") => r.pc = "check"
         /\ Becomes(t, "parse") => r.pc = "parse"
  BY <1>1, <1>2, BecomesFacts
<1>4. /\ Received' /\ Kept' /\ Flushed' /\ sink' \in SinkCounts
      /\ threads' \in [Threads -> ThreadState] /\ IsTable(pending)' /\ IsTable(batch)'
  <2>1. \/ r.pc # "idle" /\ sink' = sink
        \/ r.pc = "idle" /\ (Count("limited") \/ Count("invalid") \/ Count("overflow") \/ Count("local"))
    BY <1>2, <1>3
  <2> QED
    BY <1>1, <1>2, <1>3, <2>1, ReportGoesOn
<1>5. Spaced'
  <2>1. r.now <= clock
    BY <1>1, <1>3, SinkNumbers DEF Spaced, ThreadState
  <2> QED
    BY <1>1, <1>2, <1>3, <2>1, SpacedKept
<1>6. IsFiniteSet(tracked) /\ Cardinality(tracked) \in Nat
  BY <1>1, SinkNumbers DEF SinkShape
<1>7. /\ Cardinality(At("check")) \in Nat /\ Cardinality(At("check")') \in Nat
      /\ Cardinality(At("check")') <= Cardinality(Threads) /\ Cardinality(Threads) \in Nat
      /\ threads[t].pc # "check" /\ r.pc # "check" =>
            Cardinality(At("check")') = Cardinality(At("check"))
      /\ threads[t].pc = "check" /\ r.pc # "check" =>
            Cardinality(At("check")') + 1 = Cardinality(At("check"))
  BY <1>1, <1>3, ThreadMoves
<1>8. IsFiniteSet(tracked') /\ Room'
  <2>1. CASE Retain(t)
    <3>1. tracked' \in SUBSET tracked /\ threads[t].pc = "retain" /\ r.pc = "cap"
      BY <1>3, <2>1 DEF Retain
    <3>2. IsFiniteSet(tracked') /\ Cardinality(tracked') <= Cardinality(tracked)
          /\ Cardinality(tracked') \in Nat
      BY <1>6, <3>1, FS_Subset, FS_CardinalityType
    <3>3. Cardinality(At("check")') = Cardinality(At("check"))
      BY <1>7, <3>1
    <3> QED
      BY <1>1, <1>6, <1>7, <3>2, <3>3, SinkAssumption DEF Room
  <2>2. CASE Cap(t)
    <3>1. tracked' = tracked /\ threads[t].pc = "cap"
          /\ (r.pc = "idle" \/ (r.pc = "check" /\ ~(Cardinality(tracked) >= HardCap)))
      BY <1>3, <2>2 DEF Cap
    <3>2. CASE r.pc = "idle"
      <4>1. Cardinality(At("check")') = Cardinality(At("check"))
        BY <1>7, <3>1, <3>2
      <4> QED
        BY <1>1, <1>6, <3>1, <4>1 DEF Room
    <3>3. CASE ~(Cardinality(tracked) >= HardCap)
      <4>1. Cardinality(tracked) + Cardinality(At("check")') < HardCap + Cardinality(Threads)
        BY <1>6, <1>7, <3>3, SinkAssumption
      <4> QED
        BY <1>6, <3>1, <4>1 DEF Room
    <3> QED
      BY <3>1, <3>2, <3>3
  <2>3. CASE CheckKey(t)
    <3>1. tracked' = tracked \cup {threads[t].client} /\ threads[t].pc = "check" /\ r.pc # "check"
      BY <1>3, <2>3 DEF CheckKey
    <3>2. IsFiniteSet(tracked') /\ Cardinality(tracked') \in Nat
          /\ Cardinality(tracked') <= Cardinality(tracked) + 1
      <4>1. /\ IsFiniteSet(tracked')
            /\ Cardinality(tracked') = IF threads[t].client \in tracked THEN Cardinality(tracked)
                                       ELSE Cardinality(tracked) + 1
        BY <1>6, <3>1, FS_AddElement
      <4> QED
        BY <1>6, <4>1
    <3>3. Cardinality(At("check")') + 1 = Cardinality(At("check"))
      BY <1>7, <3>1
    <3> QED
      BY <1>1, <1>6, <1>7, <3>2, <3>3, SinkAssumption DEF Room
  <2>4. CASE ParseFails(t) \/ NotForwarded(t)
    <3>1. tracked' = tracked /\ threads[t].pc = "parse" /\ r.pc = "idle"
      BY <1>3, <2>4 DEF ParseFails, NotForwarded
    <3>2. Cardinality(At("check")') = Cardinality(At("check"))
      BY <1>7, <3>1
    <3> QED
      BY <1>1, <1>6, <3>1, <3>2 DEF Room
  <2> QED
    BY <2>1, <2>2, <2>3, <2>4
<1>9. SinkShape'
  BY <1>1, <1>2, <1>4, <1>8 DEF SinkShape
<1> QED
  BY <1>4, <1>5, <1>8, <1>9 DEF SinkInv, ReportsAccounted, Received, Kept, Flushed

\* A table's numbers.
LEMMA TableNumbers ==
    ASSUME NEW f, IsTable(f)
    PROVE  /\ IsFiniteSet(DOMAIN f) /\ Cardinality(DOMAIN f) \in Nat
           /\ \A p \in DOMAIN f : f[p] \in Nat /\ f[p] <= MaxCount
           /\ Total(f) \in Nat
<1>1. IsFiniteSet(DOMAIN f) /\ \A p \in DOMAIN f : f[p] \in 1..MaxCount
  BY DEF IsTable
<1>2. \A p \in DOMAIN f : f[p] \in Nat /\ f[p] <= MaxCount
  BY <1>1, SinkAssumption
<1> QED
  BY <1>1, <1>2, FS_CardinalityType, FiniteReports

\* A report folded into its pair is one report more in the table, which stays within its bounds.
LEMMA FoldedFacts ==
    ASSUME IsTable(pending), NEW p,
           ~(IF p \in DOMAIN pending THEN pending[p] >= MaxCount
                                     ELSE Cardinality(DOMAIN pending) >= MaxPending)
    PROVE  IsTable(Folded(p)) /\ Total(Folded(p)) = Total(pending) + 1
<1> DEFINE g == Folded(p)
           n == IF p \in DOMAIN pending THEN pending[p] ELSE 0
<1>1. /\ DOMAIN g = DOMAIN pending \cup {p}
      /\ g = [q \in DOMAIN g |-> g[q]]
      /\ \A q \in DOMAIN g :
            g[q] = IF q \in DOMAIN pending THEN pending[q] + (IF q = p THEN 1 ELSE 0) ELSE 1
  BY DEF Folded
<1>2. /\ IsFiniteSet(DOMAIN pending) /\ Cardinality(DOMAIN pending) \in Nat
      /\ Cardinality(DOMAIN pending) <= MaxPending
      /\ \A q \in DOMAIN pending : pending[q] \in Nat /\ pending[q] \in 1..MaxCount
  BY TableNumbers DEF IsTable
<1>3. n \in Nat /\ g[p] = n + 1 /\ n < MaxCount
  <2>1. MaxCount \in Nat /\ MaxCount # 0
    BY SinkAssumption
  <2>2. CASE p \in DOMAIN pending
    BY <1>1, <1>2, <2>1, <2>2
  <2>3. CASE p \notin DOMAIN pending
    BY <1>1, <2>1, <2>3
  <2> QED
    BY <2>2, <2>3
<1>4. \A q \in DOMAIN pending \ {p} : g[q] = pending[q]
  BY <1>1, <1>2
<1>5. ASSUME NEW q \in DOMAIN g PROVE g[q] \in 1..MaxCount
  <2>1. CASE q = p
    BY <1>3, <2>1, SinkAssumption
  <2>2. CASE q # p
    BY <1>1, <1>2, <1>4, <2>2
  <2> QED
    BY <2>1, <2>2
<1>6. IsFiniteSet(DOMAIN g) /\ Cardinality(DOMAIN g) <= MaxPending
  <2>1. CASE p \in DOMAIN pending
    <3>1. DOMAIN g = DOMAIN pending
      BY <1>1, <2>1
    <3> QED
      BY <1>2, <3>1
  <2>2. CASE p \notin DOMAIN pending
    <3>1. IsFiniteSet(DOMAIN g) /\ Cardinality(DOMAIN g) = Cardinality(DOMAIN pending) + 1
      BY <1>1, <1>2, <2>2, FS_AddElement
    <3>2. ~(Cardinality(DOMAIN pending) >= MaxPending)
      BY <2>2
    <3> QED
      BY <1>2, <3>1, <3>2, SinkAssumption
  <2> QED
    BY <2>1, <2>2
<1>7. n = IF p \in DOMAIN pending THEN pending[p] ELSE 0
  OBVIOUS
<1> HIDE DEF g, n
<1>8. Total(g) = Total(pending) + 1
  BY <1>1, <1>2, <1>3, <1>4, <1>7, OneReportMore
<1>9. IsTable(g)
  BY <1>1, <1>5, <1>6 DEF IsTable
<1> QED
  BY <1>8, <1>9 DEF g

\* CspSink::queue folds a report, or counts it as too many.
LEMMA QueueStep ==
    ASSUME SinkInv, NEW t \in Threads, Queue(t)
    PROVE  SinkInv'
<1>1. SinkShape /\ Received /\ Kept /\ Room /\ Spaced /\ Flushed
  BY SinkParts
<1>2. /\ tracked' = tracked /\ lastPrune' = lastPrune /\ prunes' = prunes /\ clock' = clock
      /\ batch' = batch /\ threads[t].pc = "parse" /\ Becomes(t, "idle")
  BY DEF Queue
<1>3. PICK r \in ThreadState :
         /\ threads' = [threads EXCEPT ![t] = r] /\ r.now <= threads[t].now /\ r.pc # "claim"
         /\ Becomes(t, "idle") => r.pc = "idle"
  BY <1>1, <1>2, BecomesFacts
<1>4. r.pc = "idle"
  BY <1>2, <1>3
<1>5. Spaced'
  <2>1. r.now <= clock
    BY <1>1, <1>3, SinkNumbers DEF Spaced, ThreadState
  <2> QED
    BY <1>1, <1>2, <1>3, <2>1, SpacedKept
<1>6. Room'
  <2>1. Cardinality(At("check")') = Cardinality(At("check"))
    BY <1>1, <1>2, <1>3, <1>4, ThreadMoves
  <2> QED
    BY <1>1, <1>2, <2>1 DEF Room
<1>7. threads' \in [Threads -> ThreadState] /\ Busy \in Nat /\ Busy' \in Nat /\ Busy' + 1 = Busy
  BY <1>1, <1>2, <1>3, <1>4, ThreadMoves
<1>8. CASE Count("overflow") /\ UNCHANGED pending
  <2>1. /\ Received' /\ Kept' /\ Flushed' /\ sink' \in SinkCounts
        /\ IsTable(pending)' /\ IsTable(batch)'
    BY <1>1, <1>2, <1>3, <1>4, <1>8, ReportGoesOn
  <2>2. SinkShape'
    BY <1>1, <1>2, <1>7, <2>1 DEF SinkShape
  <2> QED
    BY <1>5, <1>6, <2>1, <2>2 DEF SinkInv, ReportsAccounted, Received, Kept, Flushed
<1>9. ASSUME NEW p, Count("kept"), pending' = Folded(p),
             ~(IF p \in DOMAIN pending THEN pending[p] >= MaxCount
                                       ELSE Cardinality(DOMAIN pending) >= MaxPending)
      PROVE  SinkInv'
  <2>1. IsTable(pending') /\ Total(pending') = Total(pending) + 1
    BY <1>1, <1>9, FoldedFacts DEF SinkShape
  <2>2. /\ sink' \in SinkCounts /\ sink'.received = sink.received
        /\ sink'.limited = sink.limited /\ sink'.invalid = sink.invalid
        /\ sink'.overflow = sink.overflow /\ sink'.local = sink.local /\ sink'.kept = sink.kept + 1
        /\ sink'.sent = sink.sent /\ sink'.failed = sink.failed /\ sink'.flushed = sink.flushed
    BY <1>1, <1>9, CountFacts DEF SinkShape
  <2>3. IsTable(batch')
    BY <1>1, <1>2 DEF SinkShape
  <2>4. SinkShape'
    BY <1>1, <1>2, <1>7, <2>1, <2>2, <2>3 DEF SinkShape, IsTable
  <2>5. Received'
    <3> DEFINE a == sink.limited  b == sink.invalid  c == sink.overflow  d == sink.kept
               h == sink.local  e == Busy  f == Busy'
    <3>1. /\ a \in Nat /\ b \in Nat /\ c \in Nat /\ d \in Nat /\ h \in Nat /\ e \in Nat /\ f \in Nat
          /\ e = f + 1 /\ sink.received = a + b + c + d + h + e
      BY <1>1, <1>7, SinkNumbers DEF Received
    <3> HIDE DEF a, b, c, d, h, e, f
    <3>2. a + b + c + d + h + e = a + b + c + (d + 1) + h + f
      BY <3>1, SinkSums
    <3> QED
      BY <2>2, <3>1, <3>2 DEF Received, a, b, c, d, h, e, f
  <2>6. Kept'
    <3> DEFINE a == Total(pending)  b == Total(batch)  c == sink.sent  d == sink.failed
    <3>1. /\ a \in Nat /\ b \in Nat /\ c \in Nat /\ d \in Nat /\ sink.kept = a + b + c + d
      BY <1>1, TableNumbers, SinkNumbers DEF SinkShape, Kept
    <3>2. sink'.kept = sink.kept + 1 /\ Total(pending') = a + 1 /\ Total(batch') = b
          /\ sink'.sent = c /\ sink'.failed = d
      BY <1>2, <2>1, <2>2
    <3> HIDE DEF a, b, c, d
    <3>3. sink.kept + 1 = (a + 1) + b + c + d
      BY <3>1
    <3>4. sink'.kept = Total(pending') + Total(batch') + sink'.sent + sink'.failed
      BY <3>2, <3>3
    <3> QED
      BY <3>4 DEF Kept, Total, Reports
  <2>7. Flushed'
    BY <1>1, <1>2, <2>2 DEF Flushed
  <2> QED
    BY <1>5, <1>6, <2>4, <2>5, <2>6, <2>7 DEF SinkInv, ReportsAccounted, Received, Kept, Flushed
<1> QED
  BY <1>8, <1>9 DEF Queue

\* flush_csp takes all that is pending.
LEMMA FlushTakes ==
    ASSUME SinkInv, Flush
    PROVE  SinkInv'
<1>1. SinkShape /\ Received /\ Kept /\ Room /\ Spaced /\ Flushed
  BY SinkParts
<1>2. /\ tracked' = tracked /\ lastPrune' = lastPrune /\ prunes' = prunes /\ clock' = clock
      /\ threads' = threads /\ batch = NoPairs /\ batch' = pending /\ pending' = NoPairs
      /\ sink' = [sink EXCEPT !.flushed = 0]
  BY DEF Flush
<1>3. /\ sink' \in SinkCounts /\ sink'.received = sink.received
      /\ sink'.limited = sink.limited /\ sink'.invalid = sink.invalid
      /\ sink'.overflow = sink.overflow /\ sink'.local = sink.local /\ sink'.kept = sink.kept
      /\ sink'.sent = sink.sent /\ sink'.failed = sink.failed /\ sink'.flushed = 0
  BY <1>1, <1>2 DEF SinkShape, SinkCounts
<1>4. IsTable(batch') /\ Cardinality(DOMAIN batch') \in Nat
  BY <1>1, <1>2, TableNumbers DEF SinkShape
<1>5. IsTable(pending')
  <2>1. DOMAIN NoPairs = {} /\ NoPairs = [p \in DOMAIN NoPairs |-> NoPairs[p]]
    BY DEF NoPairs
  <2>2. IsFiniteSet(DOMAIN NoPairs) /\ Cardinality(DOMAIN NoPairs) = 0
    BY <2>1, FS_EmptySet
  <2> QED
    BY <1>2, <2>1, <2>2, SinkAssumption DEF IsTable
<1>6. SinkShape'
  BY <1>1, <1>2, <1>3, <1>4, <1>5 DEF SinkShape, IsTable
<1>7. Received' /\ Room' /\ Spaced'
  BY <1>1, <1>2, <1>3 DEF Received, Busy, Room, At, Spaced
<1>8. Kept'
  <2>1. /\ Total(pending) \in Nat /\ Total(batch) = 0 /\ Total(pending') = 0
        /\ Total(batch') = Total(pending) /\ sink.sent \in Nat /\ sink.failed \in Nat
    BY <1>1, <1>2, NoReports, TableNumbers, SinkNumbers DEF SinkShape
  <2>2. sink'.kept = Total(pending') + Total(batch') + sink'.sent + sink'.failed
    BY <1>1, <1>3, <2>1 DEF Kept
  <2> QED
    BY <2>2 DEF Kept, Total, Reports
<1>9. Flushed'
  BY <1>3, <1>4 DEF Flushed, IsTable
<1> QED
  BY <1>6, <1>7, <1>8, <1>9 DEF SinkInv, ReportsAccounted, Received, Kept, Flushed

\* One pair of the batch is sent, or fails.
LEMMA SendStep ==
    ASSUME SinkInv, SendPair
    PROVE  SinkInv'
<1>1. SinkShape /\ Received /\ Kept /\ Room /\ Spaced /\ Flushed
  BY SinkParts
<1>2. PICK p \in DOMAIN batch, m \in {"sent", "failed"} :
        /\ batch' = [q \in DOMAIN batch \ {p} |-> batch[q]]
        /\ sink' = [sink EXCEPT !.flushed = @ + 1, ![m] = @ + batch[p]]
        /\ UNCHANGED <<tracked, lastPrune, prunes, clock, threads, pending>>
  BY DEF SendPair
<1>3. /\ IsFiniteSet(DOMAIN batch) /\ Cardinality(DOMAIN batch) \in Nat
      /\ \A q \in DOMAIN batch : batch[q] \in Nat /\ batch[q] <= MaxCount
      /\ Total(batch) \in Nat /\ Total(pending) \in Nat /\ IsTable(batch)
  BY <1>1, TableNumbers DEF SinkShape
<1>4. /\ DOMAIN batch' = DOMAIN batch \ {p} /\ \A q \in DOMAIN batch' : batch'[q] = batch[q]
      /\ batch' = [q \in DOMAIN batch' |-> batch'[q]]
  BY <1>2
<1>5. /\ IsFiniteSet(DOMAIN batch') /\ Cardinality(DOMAIN batch') = Cardinality(DOMAIN batch) - 1
      /\ Cardinality(DOMAIN batch') \in Nat
  BY <1>3, <1>4, FS_RemoveElement, FS_CardinalityType
<1>6. IsTable(batch')
  <2>1. Cardinality(DOMAIN batch') <= MaxPending
    BY <1>3, <1>5, SinkAssumption DEF IsTable
  <2>2. \A q \in DOMAIN batch' : batch'[q] \in 1..MaxCount
    BY <1>3, <1>4 DEF IsTable
  <2> QED
    BY <1>4, <1>5, <2>1, <2>2 DEF IsTable
<1>7. Total(batch) = Total(batch') + batch[p] /\ Total(batch') \in Nat
  BY <1>3, <1>4, <1>6, ReportsTaken, TableNumbers
<1>8. /\ sink' \in SinkCounts /\ sink'.received = sink.received
      /\ sink'.limited = sink.limited /\ sink'.invalid = sink.invalid
      /\ sink'.overflow = sink.overflow /\ sink'.local = sink.local /\ sink'.kept = sink.kept
      /\ sink'.flushed = sink.flushed + 1
      /\ \/ sink'.sent = sink.sent + batch[p] /\ sink'.failed = sink.failed
         \/ sink'.sent = sink.sent /\ sink'.failed = sink.failed + batch[p]
  <2>1. ASSUME NEW k \in Nat, NEW n \in Nat
        PROVE  /\ [sink EXCEPT !.flushed = k, !.sent = n] \in SinkCounts
               /\ [sink EXCEPT !.flushed = k, !.failed = n] \in SinkCounts
    BY <1>1 DEF SinkShape, SinkCounts
  <2>2. /\ sink.flushed + 1 \in Nat /\ sink.sent + batch[p] \in Nat /\ sink.failed + batch[p] \in Nat
    BY <1>1, <1>3, SinkNumbers
  <2>3. CASE m = "sent"
    <3>1. sink' = [sink EXCEPT !.flushed = sink.flushed + 1, !.sent = sink.sent + batch[p]]
      BY <1>1, <1>2, <2>3 DEF SinkShape, SinkCounts
    <3> QED
      BY <1>1, <2>1, <2>2, <3>1 DEF SinkShape, SinkCounts
  <2>4. CASE m = "failed"
    <3>1. sink' = [sink EXCEPT !.flushed = sink.flushed + 1, !.failed = sink.failed + batch[p]]
      BY <1>1, <1>2, <2>4 DEF SinkShape, SinkCounts
    <3> QED
      BY <1>1, <2>1, <2>2, <3>1 DEF SinkShape, SinkCounts
  <2> QED
    BY <2>3, <2>4
<1>9. /\ tracked' = tracked /\ lastPrune' = lastPrune /\ prunes' = prunes /\ clock' = clock
      /\ threads' = threads /\ pending' = pending
  BY <1>2
<1>10. SinkShape'
  BY <1>1, <1>6, <1>8, <1>9 DEF SinkShape, IsTable
<1>11. Received' /\ Room' /\ Spaced'
  BY <1>1, <1>8, <1>9 DEF Received, Busy, Room, At, Spaced
<1>12. Kept'
  <2> DEFINE a == Total(pending)  b == Total(batch')  k == batch[p]  c == sink.sent  d == sink.failed
  <2>1. /\ a \in Nat /\ b \in Nat /\ k \in Nat /\ c \in Nat /\ d \in Nat
        /\ sink.kept = a + (b + k) + c + d
    BY <1>1, <1>3, <1>7, SinkNumbers DEF Kept
  <2>2. /\ sink'.kept = sink.kept /\ Total(pending') = a /\ Total(batch') = b
        /\ \/ sink'.sent = c + k /\ sink'.failed = d
           \/ sink'.sent = c /\ sink'.failed = d + k
    BY <1>8, <1>9
  <2> HIDE DEF a, b, k, c, d
  <2>3. sink.kept = a + b + (c + k) + d /\ sink.kept = a + b + c + (d + k)
    BY <2>1
  <2>4. sink'.kept = Total(pending') + Total(batch') + sink'.sent + sink'.failed
    BY <2>2, <2>3
  <2> QED
    BY <2>4 DEF Kept, Total, Reports
<1>13. Flushed'
  BY <1>1, <1>3, <1>5, <1>8, SinkNumbers, SinkAssumption DEF Flushed
<1> QED
  BY <1>10, <1>11, <1>12, <1>13 DEF SinkInv, ReportsAccounted, Received, Kept, Flushed

\* SinkInv holds at the start.
LEMMA SinkInitInv == MCInit => SinkInv
<1> SUFFICES ASSUME SinkInit PROVE SinkInv
  BY DEF MCInit
<1>1. /\ tracked = {} /\ lastPrune = 0 /\ prunes = <<>> /\ clock = 0
      /\ threads = [t \in Threads |-> IdleThread] /\ pending = NoPairs /\ batch = NoPairs
      /\ sink = [received |-> 0, limited |-> 0, invalid |-> 0, overflow |-> 0, kept |-> 0,
                 local |-> 0, sent |-> 0, failed |-> 0, flushed |-> 0]
  BY DEF SinkInit
<1>2. IsFiniteSet({}) /\ Cardinality({}) = 0
  BY FS_EmptySet
<1>3. IdleThread \in ThreadState /\ IdleThread.pc = "idle" /\ IdleThread.now = 0
  BY DEF IdleThread, ThreadState
<1>4. IsTable(NoPairs)
  <2>1. DOMAIN NoPairs = {} /\ NoPairs = [p \in DOMAIN NoPairs |-> NoPairs[p]]
    BY DEF NoPairs
  <2> QED
    BY <1>2, <2>1, SinkAssumption DEF IsTable
<1>5. sink \in SinkCounts /\ sink.received = 0 /\ sink.limited = 0 /\ sink.invalid = 0
      /\ sink.overflow = 0 /\ sink.local = 0 /\ sink.kept = 0 /\ sink.sent = 0 /\ sink.failed = 0 /\ sink.flushed = 0
  BY <1>1 DEF SinkCounts
<1>6. SinkShape
  BY <1>1, <1>2, <1>3, <1>4, <1>5 DEF SinkShape
<1>7. Busy = 0 /\ At("check") = {} /\ Cardinality(At("check")) = 0
  <2>1. {t \in Threads : threads[t].pc # "idle"} = {} /\ At("check") = {}
    BY <1>1, <1>3 DEF At
  <2> QED
    BY <1>2, <2>1 DEF Busy
<1>8. Received /\ Kept /\ Flushed
  <2>1. Cardinality(DOMAIN batch) = 0 /\ Total(pending) = 0 /\ Total(batch) = 0
    BY <1>1, <1>2, NoReports
  <2> QED
    BY <1>5, <1>7, <2>1, SinkAssumption DEF Received, Kept, Flushed
<1>9. Room
  <2>1. Cardinality(Threads) \in Nat /\ HardCap \in Nat /\ 0 < HardCap
    BY SinkAssumption, FS_CardinalityType
  <2> QED
    BY <1>1, <1>2, <1>7, <2>1 DEF Room
<1>10. Spaced
  BY <1>1, <1>3, SinkAssumption DEF Spaced, Spread
<1> QED
  BY <1>6, <1>8, <1>9, <1>10, SinkParts

\* Nothing of the sink changes while another reporter runs.
LEMMA SinkStutter == ASSUME SinkInv, UNCHANGED sinkVars PROVE SinkInv'
<1>1. /\ tracked' = tracked /\ lastPrune' = lastPrune /\ prunes' = prunes /\ clock' = clock
      /\ threads' = threads /\ pending' = pending /\ batch' = batch /\ sink' = sink
  BY DEF sinkVars
<1>2. SinkShape /\ Received /\ Kept /\ Room /\ Spaced /\ Flushed
  BY SinkParts
<1>3. SinkShape'
  BY <1>1, <1>2 DEF SinkShape, IsTable
<1>4. Received' /\ Room' /\ Spaced' /\ Kept' /\ Flushed'
  BY <1>1, <1>2 DEF Received, Busy, Room, At, Spaced, Kept, Total, Reports, Flushed
<1> QED
  BY <1>3, <1>4 DEF SinkInv, ReportsAccounted, Received, Kept, Flushed

\* The clock moves.
LEMMA PassesStep == ASSUME SinkInv, Passes PROVE SinkInv'
<1>1. /\ tracked' = tracked /\ lastPrune' = lastPrune /\ prunes' = prunes /\ clock' = clock + 1
      /\ threads' = threads /\ pending' = pending /\ batch' = batch /\ sink' = sink
  BY DEF Passes
<1>2. SinkShape /\ Received /\ Kept /\ Room /\ Spaced /\ Flushed
  BY SinkParts
<1>3. SinkShape'
  BY <1>1, <1>2 DEF SinkShape, IsTable
<1>4. Received' /\ Room' /\ Kept' /\ Flushed'
  BY <1>1, <1>2 DEF Received, Busy, Room, At, Kept, Total, Reports, Flushed
<1>5. Spaced'
  <2>1. ASSUME NEW t \in Threads PROVE threads[t].now <= clock + 1
    BY <1>2, SinkNumbers DEF Spaced
  <2>2. lastPrune <= clock + 1
    BY <1>2, SinkNumbers DEF Spaced
  <2> QED
    BY <1>1, <1>2, <2>1, <2>2 DEF Spaced
<1> QED
  BY <1>3, <1>4, <1>5 DEF SinkInv, ReportsAccounted, Received, Kept, Flushed

\* Every step of the sink, and of any other reporter, keeps SinkInv.
LEMMA SinkStep == SinkInv /\ [MCNext]_vars => SinkInv'
<1> SUFFICES ASSUME SinkInv, [MCNext]_vars PROVE SinkInv'
  OBVIOUS
<1>1. SinkNext \/ UNCHANGED sinkVars
  BY DEF MCNext, vars
<1>2. ASSUME SinkNext PROVE SinkInv'
  BY <1>2, ReceiveStep, LoadLastStep, ClaimPruneStep, TableStep, QueueStep, FlushTakes, SendStep,
     PassesStep DEF SinkNext
<1> QED
  BY <1>1, <1>2, SinkStutter

\* What SinkInv says, as the property of CspSink states it.
LEMMA SinkInvGives == SinkInv => SinkKept
<1> SUFFICES ASSUME SinkInv PROVE SinkKept
  OBVIOUS
<1>1. SinkShape /\ Room /\ Spaced /\ Flushed
  BY SinkParts
<1>2. FlushBounded
  BY <1>1, TableNumbers DEF SinkShape, Flushed, FlushBounded
<1>3. TrackedBounded
  <2>1. At("check") \subseteq Threads
    BY DEF At
  <2>2. Cardinality(At("check")) \in Nat /\ Cardinality(Threads) \in Nat
    BY <2>1, SinkAssumption, FS_Subset, FS_CardinalityType
  <2> QED
    BY <1>1, <2>2, SinkNumbers, SinkAssumption DEF Room, TrackedBounded
<1>4. PrunedOncePerInterval
  <2>1. Len(prunes) \in Nat
    BY <1>1 DEF SinkShape
  <2>2. Len(prunes) * PruneInterval \in Nat
    BY <2>1, SinkAssumption, OneMoreInterval
  <2> QED
    BY <1>1, <2>2, SinkNumbers DEF Spaced, Spread, PrunedOncePerInterval
<1> QED
  BY <1>2, <1>3, <1>4 DEF SinkInv, SinkKept

----------------------------------------------------------------------------
(* The series. *)

\* The object a thread counts on under a label, and the map with it.
Made(t, label, m, version) == IF label \in DOMAIN m THEN m[label] ELSE <<t, version>>
Grown(label, o, m) == [l \in DOMAIN m \cup {label} |-> IF l = label THEN o ELSE m[l]]

\* How the map grows by the label that the closure of rcu settles on: no object is lost, a new one is
\* like none before, and the cap is kept.
LEMMA MapGrows ==
    ASSUME NEW m, NEW version \in Nat, NEW n, NEW t \in SeriesThreads,
           IsMap(m, version), cap \in Nat, Cardinality(Named(m)) <= cap
    PROVE  LET label == Label(n, m)
               o == Made(t, label, m, version)
               M == Grown(label, o, m)
           IN /\ IsMap(M, version + 1)
              /\ \A l \in DOMAIN m : l \in DOMAIN M /\ M[l] = m[l]
              /\ label \in DOMAIN M /\ M[label] = o
              /\ Cardinality(Named(M)) <= cap
              /\ Cardinality(Named(m)) = cap => Cardinality(Named(M)) = cap
              /\ label = n \/ (label = Overflow /\ Cardinality(Named(M)) = cap)
<1> DEFINE label == Label(n, m)
           o == Made(t, label, m, version)
           M == Grown(label, o, m)
<1>0. /\ label = Label(n, m)
      /\ o = (IF label \in DOMAIN m THEN m[label] ELSE <<t, version>>)
      /\ M = [l \in DOMAIN m \cup {label} |-> IF l = label THEN o ELSE m[l]]
  BY DEF Made, Grown
<1> HIDE DEF label, o, M
<1>1. /\ DOMAIN M = DOMAIN m \cup {label} /\ M = [l \in DOMAIN M |-> M[l]]
      /\ M[label] = o /\ \A l \in DOMAIN m : M[l] = m[l]
  BY <1>0
<1>2. /\ IsFiniteSet(DOMAIN m)
      /\ \A l \in DOMAIN m : m[l] \in SeriesThreads \X (0..(version - 1))
      /\ \A k, l \in DOMAIN m : m[k] = m[l] => k = l
  BY DEF IsMap
<1>3. IsFiniteSet(DOMAIN M)
  BY <1>1, <1>2, FS_AddElement
<1>4. ASSUME NEW l \in DOMAIN M PROVE M[l] \in SeriesThreads \X (0..version)
  <2>1. CASE l \in DOMAIN m
    <3>1. 0..(version - 1) \subseteq 0..version
      OBVIOUS
    <3> QED
      BY <1>1, <1>2, <2>1, <3>1
  <2>2. CASE l \notin DOMAIN m
    BY <1>0, <1>1, <2>2
  <2> QED
    BY <2>1, <2>2
<1>5. ASSUME NEW l \in DOMAIN m PROVE m[l] # <<t, version>>
  BY <1>2
<1>6. ASSUME NEW k \in DOMAIN M, NEW l \in DOMAIN M, M[k] = M[l] PROVE k = l
  BY <1>0, <1>1, <1>2, <1>5, <1>6
<1>7. IsMap(M, version + 1)
  <2>1. (version + 1) - 1 = version
    OBVIOUS
  <2> QED
    BY <1>1, <1>3, <1>4, <1>6, <2>1 DEF IsMap
<1>8. IsFiniteSet(Named(m)) /\ Cardinality(Named(m)) \in Nat
  BY <1>2, FS_Difference, FS_CardinalityType DEF Named
<1>9. ASSUME label \in DOMAIN m \/ label \in {Anon, Overflow}
      PROVE  /\ Cardinality(Named(M)) <= cap
             /\ Cardinality(Named(m)) = cap => Cardinality(Named(M)) = cap
             /\ label = n \/ (label = Overflow /\ Cardinality(Named(M)) = cap)
  <2>1. Named(M) = Named(m)
    BY <1>1, <1>9 DEF Named
  <2>2. label = n \/ (label = Overflow /\ Cardinality(Named(M)) = cap)
    BY <1>0, <1>8, <2>1 DEF Label
  <2> QED
    BY <1>1, <1>7, <2>1, <2>2
<1>10. ASSUME label \notin DOMAIN m, label \notin {Anon, Overflow}
      PROVE  /\ Cardinality(Named(M)) <= cap
             /\ Cardinality(Named(m)) = cap => Cardinality(Named(M)) = cap
             /\ label = n \/ (label = Overflow /\ Cardinality(Named(M)) = cap)
  <2>1. label = n /\ Cardinality(Named(m)) < cap
    BY <1>0, <1>10 DEF Label
  <2>2. Named(M) = Named(m) \cup {label} /\ label \notin Named(m)
    BY <1>1, <1>10 DEF Named
  <2>3. Cardinality(Named(M)) = Cardinality(Named(m)) + 1
    BY <1>8, <2>2, FS_AddElement
  <2> QED
    BY <1>1, <1>7, <1>8, <2>1, <2>3
<1>11. /\ IsMap(M, version + 1)
       /\ \A l \in DOMAIN m : l \in DOMAIN M /\ M[l] = m[l]
       /\ label \in DOMAIN M /\ M[label] = o
       /\ Cardinality(Named(M)) <= cap
       /\ Cardinality(Named(m)) = cap => Cardinality(Named(M)) = cap
       /\ label = n \/ (label = Overflow /\ Cardinality(Named(M)) = cap)
  BY <1>1, <1>7, <1>9, <1>10
<1> QED
  BY <1>11 DEF label, o, M

\* An object stays exported under its label while the map grows.
LEMMA StillExported ==
    ASSUME NEW n, NEW o, Exported(n, o), cap' = cap,
           \A l \in DOMAIN series.map : l \in DOMAIN series'.map /\ series'.map[l] = series.map[l],
           Cardinality(Named(series.map)) = cap => Cardinality(Named(series'.map)) = cap
    PROVE  Exported(n, o)'
<1>1. PICK l \in DOMAIN series.map :
        series.map[l] = o /\ (l = n \/ (l = Overflow /\ Cardinality(Named(series.map)) = cap))
  BY DEF Exported
<1>2. l \in DOMAIN series'.map /\ series'.map[l] = o
      /\ (l = n \/ (l = Overflow /\ Cardinality(Named(series'.map)) = cap))
  BY <1>1
<1> QED
  BY <1>2 DEF Exported

\* Nothing of the map or of the counts changes: the invariant speaks of the callers only.
LEMMA CallersStep ==
    ASSUME SeriesInv, NEW t \in SeriesThreads, NEW r, callers' = [callers EXCEPT ![t] = r],
           r = [pc |-> r.pc, name |-> r.name, snap |-> r.snap, object |-> r.object],
           r.pc \in {"idle", "load", "swap", "count"},
           r.pc = "swap" => r.snap = series, r.pc = "count" => Exported(r.name, r.object),
           UNCHANGED <<cap, series, models, spent>>,
           counted' = counted \/ \E k, n, o : counted' = counted \cup {<<k, n, o>>} /\ Exported(n, o)
    PROVE  SeriesInv'
<1>1. /\ callers'[t] = r /\ \A u \in SeriesThreads \ {t} : callers'[u] = callers[u]
      /\ DOMAIN callers' = SeriesThreads
  BY DEF SeriesInv, SeriesShape
<1>2. /\ cap' = cap /\ series' = series /\ models' = models /\ spent' = spent
  OBVIOUS
<1>3. ASSUME NEW u \in SeriesThreads
      PROVE  /\ callers'[u] = [pc |-> callers'[u].pc, name |-> callers'[u].name,
                               snap |-> callers'[u].snap, object |-> callers'[u].object]
             /\ callers'[u].pc \in {"idle", "load", "swap", "count"}
             /\ callers'[u].pc = "swap" =>
                  /\ callers'[u].snap.version <= series.version
                  /\ callers'[u].snap.version \in Nat
                  /\ callers'[u].snap.version = series.version => callers'[u].snap = series
             /\ callers'[u].pc = "count" => Exported(callers'[u].name, callers'[u].object)
  <2>1. CASE u = t
    BY <1>1, <2>1 DEF SeriesInv, SeriesShape
  <2>2. CASE u # t
    BY <1>1, <2>2 DEF SeriesInv, SeriesShape, Copies, Objects
  <2> QED
    BY <2>1, <2>2
<1>4. SeriesShape'
  BY <1>1, <1>2, <1>3 DEF SeriesInv, SeriesShape
<1>5. Copies'
  BY <1>2, <1>3 DEF Copies
<1>6. ASSUME NEW n, NEW o, Exported(n, o) PROVE Exported(n, o)'
  BY <1>2, <1>6 DEF Exported
<1>7. ASSUME NEW c \in counted' PROVE Exported(c[2], c[3])
  <2>1. CASE c \in counted
    BY <2>1 DEF SeriesInv, Objects
  <2>2. ASSUME NEW k, NEW n, NEW o, c = <<k, n, o>>, Exported(n, o) PROVE Exported(c[2], c[3])
    <3>1. c[2] = n /\ c[3] = o
      BY <2>2
    <3> QED
      BY <2>2, <3>1
  <2> QED
    BY <2>1, <2>2
<1>8. Objects'
  BY <1>3, <1>6, <1>7 DEF Objects
<1>9. ModelsShape'
  BY <1>2 DEF SeriesInv, ModelsShape
<1> QED
  BY <1>4, <1>5, <1>8, <1>9 DEF SeriesInv

\* consumer_stats finds a series, or goes to make one.
LEMMA LookStep == ASSUME SeriesInv, NEW t \in SeriesThreads, Look(t) PROVE SeriesInv'
<1> DEFINE m == series.map
<1>1. PICK n \in Names \cup {Anon} :
        callers' = [callers EXCEPT ![t] =
          IF n \in DOMAIN m
          THEN [pc |-> "count", name |-> n, snap |-> IdleCaller.snap, object |-> m[n]]
          ELSE IF n # Anon /\ Cardinality(Named(m)) >= cap /\ Overflow \in DOMAIN m
          THEN [pc |-> "count", name |-> n, snap |-> IdleCaller.snap, object |-> m[Overflow]]
          ELSE [pc |-> "load", name |-> n, snap |-> IdleCaller.snap, object |-> 0]]
  BY DEF Look
<1>2. UNCHANGED <<cap, series, counted, models, spent>>
  BY DEF Look
<1>3. CASE n \in DOMAIN m
  <2> DEFINE r == [pc |-> "count", name |-> n, snap |-> IdleCaller.snap, object |-> m[n]]
  <2>1. /\ r = [pc |-> r.pc, name |-> r.name, snap |-> r.snap, object |-> r.object]
        /\ r.pc = "count" /\ r.name = n /\ r.object = m[n]
    OBVIOUS
  <2>2. Exported(n, m[n])
    BY <1>3 DEF Exported
  <2>3. callers' = [callers EXCEPT ![t] = r]
    BY <1>1, <1>3
  <2> HIDE DEF r, m
  <2> QED
    BY <1>2, <2>1, <2>2, <2>3, CallersStep
<1>4. CASE n \notin DOMAIN m /\ Cardinality(Named(m)) >= cap /\ Overflow \in DOMAIN m /\ n # Anon
  <2> DEFINE r == [pc |-> "count", name |-> n, snap |-> IdleCaller.snap, object |-> m[Overflow]]
  <2>1. /\ r = [pc |-> r.pc, name |-> r.name, snap |-> r.snap, object |-> r.object]
        /\ r.pc = "count" /\ r.name = n /\ r.object = m[Overflow]
    OBVIOUS
  <2>2. Cardinality(Named(m)) = cap
    <3>1. Cardinality(Named(m)) <= cap /\ cap \in Nat /\ IsFiniteSet(DOMAIN m)
      BY DEF SeriesInv, SeriesShape, IsMap
    <3>2. Cardinality(Named(m)) \in Nat
      BY <3>1, FS_Difference, FS_CardinalityType DEF Named
    <3> QED
      BY <1>4, <3>1, <3>2
  <2>3. Exported(n, m[Overflow])
    BY <1>4, <2>2 DEF Exported
  <2>4. callers' = [callers EXCEPT ![t] = r]
    BY <1>1, <1>4
  <2> HIDE DEF r, m
  <2> QED
    BY <1>2, <2>1, <2>3, <2>4, CallersStep
<1>5. CASE n \notin DOMAIN m /\ ~(Cardinality(Named(m)) >= cap /\ Overflow \in DOMAIN m /\ n # Anon)
  <2> DEFINE r == [pc |-> "load", name |-> n, snap |-> IdleCaller.snap, object |-> 0]
  <2>1. /\ r = [pc |-> r.pc, name |-> r.name, snap |-> r.snap, object |-> r.object]
        /\ r.pc = "load"
    OBVIOUS
  <2>2. callers' = [callers EXCEPT ![t] = r]
    BY <1>1, <1>5
  <2> HIDE DEF r, m
  <2> QED
    BY <1>2, <2>1, <2>2, CallersStep
<1> QED
  BY <1>3, <1>4, <1>5

\* A record of a caller with a field replaced, or two.
LEMMA CallerRecord ==
    ASSUME NEW c, NEW pc, NEW v,
           c = [pc |-> c.pc, name |-> c.name, snap |-> c.snap, object |-> c.object]
    PROVE  /\ [c EXCEPT !.pc = pc] = [pc |-> pc, name |-> c.name, snap |-> c.snap, object |-> c.object]
           /\ [c EXCEPT !.pc = pc, !.object = v]
                = [pc |-> pc, name |-> c.name, snap |-> c.snap, object |-> v]
<1> DEFINE x == c.pc  y == c.name  z == c.snap  w == c.object
<1>1. c = [pc |-> x, name |-> y, snap |-> z, object |-> w]
  OBVIOUS
<1> HIDE DEF x, y, z, w
<1>2. [c EXCEPT !.pc = pc] = [pc |-> pc, name |-> y, snap |-> z, object |-> w]
  BY <1>1
<1>3. [c EXCEPT !.pc = pc, !.object = v]
        = [pc |-> pc, name |-> y, snap |-> z, object |-> v]
  <2> DEFINE d == [c EXCEPT !.pc = pc]
  <2>1. d = [pc |-> pc, name |-> y, snap |-> z, object |-> w]
    BY <1>1
  <2> HIDE DEF d
  <2>2. [d EXCEPT !.object = v] = [pc |-> pc, name |-> y, snap |-> z, object |-> v]
    BY <2>1
  <2> QED
    BY <2>2 DEF d
<1> QED
  BY <1>2, <1>3 DEF x, y, z, w

\* A thread copies the map.
LEMMA LoadStep == ASSUME SeriesInv, NEW t \in SeriesThreads, Load(t) PROVE SeriesInv'
<1> DEFINE r == [pc |-> "swap", name |-> callers[t].name, snap |-> series, object |-> callers[t].object]
<1>1. callers' = [callers EXCEPT ![t] = [callers[t] EXCEPT !.snap = series, !.pc = "swap"]]
  BY DEF Load, SeriesInv, SeriesShape
<1>2. callers' = [callers EXCEPT ![t] = r] /\ UNCHANGED <<cap, series, counted, models, spent>>
  <2> DEFINE c == callers[t]
  <2>1. c = [pc |-> c.pc, name |-> c.name, snap |-> c.snap, object |-> c.object]
    BY DEF SeriesInv, SeriesShape
  <2> HIDE DEF c
  <2>2. [c EXCEPT !.snap = series, !.pc = "swap"]
          = [pc |-> "swap", name |-> c.name, snap |-> series, object |-> c.object]
    <3> DEFINE d == [c EXCEPT !.snap = series]
    <3>1. d = [pc |-> c.pc, name |-> c.name, snap |-> series, object |-> c.object]
      BY <2>1
    <3> HIDE DEF d
    <3>2. [d EXCEPT !.pc = "swap"] = [pc |-> "swap", name |-> c.name, snap |-> series, object |-> c.object]
      BY <3>1
    <3> QED
      BY <3>2 DEF d
  <2> QED
    BY <1>1, <2>2, Zenon DEF Load, c
<1>3. /\ r = [pc |-> r.pc, name |-> r.name, snap |-> r.snap, object |-> r.object]
      /\ r.pc = "swap" /\ r.snap = series
  OBVIOUS
<1> HIDE DEF r
<1> QED
  BY <1>2, <1>3, CallersStep

\* A request is counted on the object its thread got.
LEMMA CountOneStep == ASSUME SeriesInv, NEW t \in SeriesThreads, CountOne(t) PROVE SeriesInv'
<1> DEFINE r == IdleCaller
           n == callers[t].name
           o == callers[t].object
<1>1. /\ r = [pc |-> r.pc, name |-> r.name, snap |-> r.snap, object |-> r.object] /\ r.pc = "idle"
  BY DEF IdleCaller
<1>2. /\ callers' = [callers EXCEPT ![t] = r] /\ UNCHANGED <<cap, series, models, spent>>
      /\ counted' = counted \cup {<<Cardinality(counted), n, o>>}
  BY DEF CountOne
<1>3. Exported(n, o)
  BY DEF CountOne, SeriesInv, Objects
<1> HIDE DEF r, n, o
<1> QED
  BY <1>1, <1>2, <1>3, CallersStep

\* The map is swapped, or copied again because another thread swapped it first.
LEMMA SwapStep == ASSUME SeriesInv, NEW t \in SeriesThreads, Swap(t) PROVE SeriesInv'
<1> DEFINE c == callers[t]
           s == c.snap
           label == Label(c.name, s.map)
           o == IF label \in DOMAIN s.map THEN s.map[label] ELSE Fresh(t, s)
           M == [l \in DOMAIN s.map \cup {label} |-> IF l = label THEN o ELSE s.map[l]]
<1>0. c = [pc |-> c.pc, name |-> c.name, snap |-> c.snap, object |-> c.object]
  BY DEF SeriesInv, SeriesShape
<1>1. c.pc = "swap" /\ UNCHANGED <<cap, counted, models, spent>>
  BY DEF Swap
<1>2. CASE series.version # s.version
  <2> DEFINE r == [pc |-> "load", name |-> c.name, snap |-> c.snap, object |-> c.object]
  <2>1. callers' = [callers EXCEPT ![t].pc = "load"] /\ series' = series
    BY <1>2 DEF Swap
  <2>2. callers' = [callers EXCEPT ![t] = [callers[t] EXCEPT !.pc = "load"]]
    BY <2>1 DEF SeriesInv, SeriesShape
  <2>3. callers' = [callers EXCEPT ![t] = r]
    BY <1>0, <2>2, CallerRecord, Zenon
  <2>4. /\ r = [pc |-> r.pc, name |-> r.name, snap |-> r.snap, object |-> r.object]
        /\ r.pc = "load"
    OBVIOUS
  <2> HIDE DEF r
  <2> QED
    BY <1>1, <2>1, <2>3, <2>4, CallersStep
<1>3. CASE series.version = s.version
  <2>1. s = series /\ cap \in Nat /\ series.version \in Nat /\ IsMap(series.map, series.version)
        /\ Cardinality(Named(series.map)) <= cap
    BY <1>1, <1>3 DEF SeriesInv, SeriesShape, Copies
  <2>2. /\ series' = [map |-> M, version |-> series.version + 1]
        /\ callers' = [callers EXCEPT ![t].pc = "count", ![t].object = o]
    BY <1>3 DEF Swap
  <2>3. callers' = [callers EXCEPT ![t] = [callers[t] EXCEPT !.pc = "count", !.object = o]]
    BY <2>2 DEF SeriesInv, SeriesShape
  <2> DEFINE r == [pc |-> "count", name |-> c.name, snap |-> c.snap, object |-> o]
  <2>4. callers' = [callers EXCEPT ![t] = r]
    BY <1>0, <2>3, CallerRecord, Zenon
  <2>5. r.pc = "count" /\ r.name = c.name /\ r.object = o
        /\ r = [pc |-> r.pc, name |-> r.name, snap |-> r.snap, object |-> r.object]
    OBVIOUS
  <2>6. /\ label = Label(c.name, series.map)
        /\ o = (IF label \in DOMAIN series.map THEN series.map[label] ELSE <<t, series.version>>)
        /\ M = [l \in DOMAIN series.map \cup {label} |-> IF l = label THEN o ELSE series.map[l]]
    BY <2>1 DEF Fresh
  <2> HIDE DEF label, o, M, s, r, c
  <2>7. /\ IsMap(M, series.version + 1)
        /\ \A l \in DOMAIN series.map : l \in DOMAIN M /\ M[l] = series.map[l]
        /\ label \in DOMAIN M /\ M[label] = o
        /\ Cardinality(Named(M)) <= cap
        /\ Cardinality(Named(series.map)) = cap => Cardinality(Named(M)) = cap
        /\ label = c.name \/ (label = Overflow /\ Cardinality(Named(M)) = cap)
    <3>1. o = Made(t, label, series.map, series.version) /\ M = Grown(label, o, series.map)
      BY <2>6 DEF Made, Grown
    <3> QED
      BY <2>1, <2>6, <3>1, MapGrows
  <2>8. /\ series'.map = M /\ series'.version = series.version + 1 /\ cap' = cap
        /\ series' = [map |-> series'.map, version |-> series'.version]
        /\ counted' = counted /\ models' = models /\ spent' = spent
    BY <1>1, <2>2
  <2>9. /\ callers'[t] = r /\ \A u \in SeriesThreads \ {t} : callers'[u] = callers[u]
        /\ DOMAIN callers' = SeriesThreads
    BY <2>4 DEF SeriesInv, SeriesShape
  <2>10. ASSUME NEW n, NEW x, Exported(n, x) PROVE Exported(n, x)'
    BY <2>7, <2>8, <2>10, StillExported
  <2>11. ASSUME NEW n, NEW x, n = c.name, x = o PROVE Exported(n, x)'
    BY <2>7, <2>8, <2>11 DEF Exported
  <2>12. SeriesShape'
    <3>1. ASSUME NEW u \in SeriesThreads
          PROVE  /\ callers'[u] = [pc |-> callers'[u].pc, name |-> callers'[u].name,
                                   snap |-> callers'[u].snap, object |-> callers'[u].object]
                 /\ callers'[u].pc \in {"idle", "load", "swap", "count"}
      <4>1. CASE u = t
        BY <2>5, <2>9, <4>1
      <4>2. CASE u # t
        BY <2>9, <4>2 DEF SeriesInv, SeriesShape
      <4> QED
        BY <4>1, <4>2
    <3>2. series.version + 1 \in Nat
      BY <2>1
    <3> QED
      BY <2>1, <2>7, <2>8, <2>9, <3>1, <3>2 DEF SeriesShape
  <2>13. Copies'
    <3>1. ASSUME NEW u \in SeriesThreads, callers'[u].pc = "swap"
          PROVE  /\ callers'[u].snap.version <= series'.version
                 /\ callers'[u].snap.version \in Nat
                 /\ callers'[u].snap.version # series'.version
      <4>1. u # t /\ callers'[u] = callers[u]
        BY <2>5, <2>9, <3>1
      <4>2. callers[u].snap.version <= series.version /\ callers[u].snap.version \in Nat
        BY <3>1, <4>1 DEF SeriesInv, Copies
      <4> QED
        BY <2>1, <2>8, <4>1, <4>2
    <3> QED
      BY <3>1 DEF Copies
  <2>14. Objects'
    <3>1. ASSUME NEW u \in SeriesThreads, callers'[u].pc = "count",
                 NEW n, NEW x, n = callers'[u].name, x = callers'[u].object
          PROVE  Exported(n, x)'
      <4>1. CASE u = t
        BY <2>5, <2>9, <2>11, <3>1, <4>1
      <4>2. CASE u # t
        <5>1. Exported(n, x)
          BY <2>9, <3>1, <4>2 DEF SeriesInv, Objects
        <5> QED
          BY <2>10, <5>1
      <4> QED
        BY <4>1, <4>2
    <3>2. ASSUME NEW d \in counted' PROVE Exported(d[2], d[3])'
      BY <2>8, <2>10 DEF SeriesInv, Objects
    <3>3. ASSUME NEW u \in SeriesThreads, callers'[u].pc = "count"
          PROVE  Exported(callers[u].name, callers[u].object)'
      BY <3>1, <3>3 DEF Exported
    <3> QED
      BY <3>2, <3>3 DEF Objects
  <2>15. ModelsShape'
    BY <2>8 DEF SeriesInv, ModelsShape
  <2> QED
    BY <2>12, <2>13, <2>14, <2>15 DEF SeriesInv
<1> QED
  BY <1>2, <1>3

\* accumulate_bounded adds an amount to a label's, under the map's mutex.
LEMMA AccumulateStep == ASSUME SeriesInv, NEW n, Accumulate(n) PROVE SeriesInv'
<1> DEFINE label == IF n \in DOMAIN models \/ Cardinality(DOMAIN models) < ModelCap
                    THEN n ELSE Overflow
<1>1. /\ models' = [l \in DOMAIN models \cup {label} |->
                      (IF l \in DOMAIN models THEN models[l] ELSE 0) + (IF l = label THEN 1 ELSE 0)]
      /\ spent' = spent + 1 /\ UNCHANGED <<cap, series, callers, counted>>
  BY DEF Accumulate
<1>2. /\ IsFiniteSet(DOMAIN models) /\ \A l \in DOMAIN models : models[l] \in Nat
      /\ Cardinality(DOMAIN models \ {Overflow}) <= ModelCap /\ spent = Total(models)
  BY DEF SeriesInv, ModelsShape, Total, Reports
<1>3. /\ label = Overflow \/ label \in DOMAIN models \/ Cardinality(DOMAIN models) < ModelCap
  OBVIOUS
<1> HIDE DEF label
<1> DEFINE k == IF label \in DOMAIN models THEN models[label] ELSE 0
<1>4. k \in Nat
  BY <1>2
<1>5. /\ DOMAIN models' = DOMAIN models \cup {label}
      /\ \A l \in DOMAIN models \ {label} : models'[l] = models[l]
      /\ models'[label] = k + 1
  <2>1. ASSUME NEW l \in DOMAIN models \ {label} PROVE models'[l] = models[l]
    BY <1>1, <1>2
  <2> QED
    BY <1>1, <1>4, <2>1
<1>6. Total(models') = Total(models) + 1
  <2>1. k = (IF label \in DOMAIN models THEN models[label] ELSE 0)
    OBVIOUS
  <2> HIDE DEF k
  <2> QED
    BY <1>2, <1>4, <1>5, <2>1, OneReportMore
<1>7. IsFiniteSet(DOMAIN models') /\ Cardinality(DOMAIN models' \ {Overflow}) <= ModelCap
  <2>1. IsFiniteSet(DOMAIN models')
    BY <1>2, <1>5, FS_AddElement
  <2>2. CASE label = Overflow \/ label \in DOMAIN models
    <3>1. DOMAIN models' \ {Overflow} = DOMAIN models \ {Overflow}
      BY <1>5, <2>2
    <3> QED
      BY <1>2, <2>1, <3>1
  <2>3. CASE label \notin DOMAIN models /\ Cardinality(DOMAIN models) < ModelCap
    <3>1. Cardinality(DOMAIN models') = Cardinality(DOMAIN models) + 1 /\ Cardinality(DOMAIN models) \in Nat
      BY <1>2, <1>5, <2>3, FS_AddElement, FS_CardinalityType
    <3>2. DOMAIN models' \ {Overflow} \in SUBSET DOMAIN models'
      OBVIOUS
    <3>3. Cardinality(DOMAIN models' \ {Overflow}) <= Cardinality(DOMAIN models')
          /\ Cardinality(DOMAIN models' \ {Overflow}) \in Nat
      BY <2>1, <3>2, FS_Subset, FS_CardinalityType
    <3> QED
      BY <2>1, <2>3, <3>1, <3>3, SeriesAssumption
  <2> QED
    BY <1>3, <2>2, <2>3
<1>8. ASSUME NEW l \in DOMAIN models' PROVE models'[l] \in Nat
  BY <1>2, <1>4, <1>5
<1>9. models' \in [DOMAIN models' -> Nat]
  <2>1. models' = [l \in DOMAIN models' |-> models'[l]]
    BY <1>1
  <2> QED
    BY <1>8, <2>1
<1>10. ModelsShape'
  <2>1. spent' = Total(models')
    BY <1>1, <1>2, <1>6
  <2>2. spent' = Cardinality(UNION {{l} \X (1..models'[l]) : l \in DOMAIN models'})
    BY <2>1 DEF Total, Reports
  <2> QED
    BY <1>7, <1>9, <2>2 DEF ModelsShape
<1>11. SeriesShape' /\ Copies' /\ Objects'
  BY <1>1 DEF SeriesInv, SeriesShape, Copies, Objects, Exported
<1> QED
  BY <1>10, <1>11 DEF SeriesInv

\* SeriesInv holds at the start.
LEMMA SeriesInitInv == MCInit => SeriesInv
<1> SUFFICES ASSUME SeriesInit PROVE SeriesInv
  BY DEF MCInit
<1>1. /\ cap \in Nat /\ series = [map |-> Empty, version |-> 0]
      /\ callers = [t \in SeriesThreads |-> IdleCaller]
      /\ counted = {} /\ models = Empty /\ spent = 0
  BY SeriesAssumption DEF SeriesInit
<1>2. DOMAIN Empty = {} /\ Empty = [l \in DOMAIN Empty |-> Empty[l]]
  BY DEF Empty
<1>3. IsFiniteSet({}) /\ Cardinality({}) = 0
  BY FS_EmptySet
<1>4. series.map = Empty /\ series.version = 0 /\ series = [map |-> series.map, version |-> series.version]
  BY <1>1
<1>5. IsMap(Empty, 0)
  BY <1>2, <1>3 DEF IsMap
<1>6. Cardinality(Named(Empty)) = 0
  <2>1. Named(Empty) = {}
    BY <1>2 DEF Named
  <2> QED
    BY <1>3, <2>1
<1>7. ASSUME NEW t \in SeriesThreads
      PROVE  /\ callers[t] = [pc |-> callers[t].pc, name |-> callers[t].name, snap |-> callers[t].snap,
                              object |-> callers[t].object]
             /\ callers[t].pc = "idle"
  BY <1>1 DEF IdleCaller
<1>8. SeriesShape
  <2>1. DOMAIN callers = SeriesThreads
    BY <1>1
  <2> QED
    BY <1>1, <1>4, <1>5, <1>6, <1>7, <2>1 DEF SeriesShape
<1>9. Copies /\ Objects
  BY <1>1, <1>7 DEF Copies, Objects
<1>10. ModelsShape
  <2>1. DOMAIN models = {} /\ models \in [DOMAIN models -> Nat]
    BY <1>1, <1>2
  <2>2. DOMAIN models \ {Overflow} = {} /\ UNION {{l} \X (1..models[l]) : l \in DOMAIN models} = {}
    BY <2>1
  <2> QED
    <3>1. 0 <= ModelCap
      BY SeriesAssumption
    <3>2. /\ IsFiniteSet(DOMAIN models) /\ Cardinality(DOMAIN models \ {Overflow}) <= ModelCap
          /\ Cardinality(UNION {{l} \X (1..models[l]) : l \in DOMAIN models}) = 0
      BY <1>3, <2>1, <2>2, <3>1, Zenon
    <3> QED
      BY <1>1, <2>1, <3>2 DEF ModelsShape
<1> QED
  BY <1>8, <1>9, <1>10 DEF SeriesInv

\* Every step of the registries, and of any other reporter, keeps SeriesInv.
LEMMA SeriesStep == SeriesInv /\ [MCNext]_vars => SeriesInv'
<1> SUFFICES ASSUME SeriesInv, [MCNext]_vars PROVE SeriesInv'
  OBVIOUS
<1>1. SeriesNext \/ ModelsNext \/ UNCHANGED seriesVars
  BY DEF MCNext, vars
<1>2. ASSUME SeriesNext PROVE SeriesInv'
  BY <1>2, LookStep, LoadStep, SwapStep, CountOneStep DEF SeriesNext
<1>3. ASSUME ModelsNext PROVE SeriesInv'
  BY <1>3, AccumulateStep DEF ModelsNext
<1>4. ASSUME UNCHANGED seriesVars PROVE SeriesInv'
  BY <1>4 DEF seriesVars, SeriesInv, SeriesShape, Copies, Objects, Exported, ModelsShape
<1> QED
  BY <1>1, <1>2, <1>3, <1>4

\* What SeriesInv says, as the properties of Series state it.
LEMMA SeriesInvGives == SeriesInv => SeriesKept
<1> SUFFICES ASSUME SeriesInv PROVE SeriesKept
  OBVIOUS
<1>1. CountsExported
  BY DEF SeriesInv, Objects, Exported, CountsExported
<1>2. SeriesBounded
  <2>1. ASSUME NEW c \in counted, NEW l \in DOMAIN series.map, series.map[l] = c[3]
        PROVE  l = c[2] \/ (l = Overflow /\ Cardinality(Named(series.map)) = cap)
    <3>1. PICK k \in DOMAIN series.map :
            /\ series.map[k] = c[3]
            /\ k = c[2] \/ (k = Overflow /\ Cardinality(Named(series.map)) = cap)
      BY DEF SeriesInv, Objects, Exported
    <3>2. k = l
      BY <2>1, <3>1 DEF SeriesInv, SeriesShape, IsMap
    <3> QED
      BY <3>1, <3>2
  <2> QED
    BY <2>1 DEF SeriesInv, SeriesShape, SeriesBounded
<1>3. ModelsAddUp
  <2> DEFINE D == DOMAIN models
  <2>1. IsFiniteSet(D) /\ Cardinality(D \ {Overflow}) <= ModelCap
    BY DEF SeriesInv, ModelsShape
  <2>2. /\ Cardinality(D) \in Nat
        /\ Cardinality(D \ {Overflow}) = IF Overflow \in D THEN Cardinality(D) - 1 ELSE Cardinality(D)
    BY <2>1, FS_RemoveElement, FS_CardinalityType
  <2> HIDE DEF D
  <2>3. Cardinality(D) <= ModelCap + 1
    BY <2>1, <2>2, SeriesAssumption
  <2> QED
    BY <2>3 DEF SeriesInv, ModelsShape, ModelsAddUp, D
<1> QED
  BY <1>1, <1>2, <1>3 DEF SeriesKept

----------------------------------------------------------------------------
(* The alerts. *)

\* The samples at which a budget enters the alert zone.
Entries(b) == {i \in 1..Len(samples) : Enters(b, i)}

\* One sample more: a budget enters with it if it is past the threshold and was not in the zone.
LEMMA SampleFacts ==
    ASSUME NEW b \in AlertBudgets, NEW ratio \in Ratios, samples \in Seq(AlertBudgets \X Ratios),
           samples' = Append(samples, <<b, ratio>>), NEW c \in AlertBudgets
    PROVE  /\ samples' \in Seq(AlertBudgets \X Ratios)
           /\ InZone(c)' <=> \/ c = b /\ ratio = "over"
                             \/ InZone(c) /\ ~(c = b /\ ratio = "below")
           /\ IF c = b /\ ratio = "over" /\ ~InZone(c)
              THEN Entries(c)' = Entries(c) \cup {Len(samples) + 1}
              ELSE Entries(c)' = Entries(c)
<1>0. PICK n \in Nat : n = Len(samples)
  OBVIOUS
<1>1. /\ n \in Nat /\ Len(samples') = n + 1 /\ samples' \in Seq(AlertBudgets \X Ratios)
      /\ samples'[n + 1] = <<b, ratio>> /\ \A i \in 1..n : samples'[i] = samples[i]
  BY <1>0
<1>2. samples'[n + 1] = <<c, "over">> <=> c = b /\ ratio = "over"
  BY <1>1
<1>3. samples'[n + 1] = <<c, "below">> <=> c = b /\ ratio = "below"
  BY <1>1
<1>4. InZone(c)' <=> \E j \in 1..(n + 1) :
                        /\ samples'[j] = <<c, "over">>
                        /\ \A k \in j..(n + 1) : samples'[k] # <<c, "below">>
  BY <1>1 DEF InZone
<1>5. InZone(c) <=> \E j \in 1..n :
                        /\ samples[j] = <<c, "over">>
                        /\ \A k \in j..n : samples[k] # <<c, "below">>
  BY <1>0 DEF InZone
<1>6. ASSUME InZone(c)' PROVE (c = b /\ ratio = "over") \/ (InZone(c) /\ ~(c = b /\ ratio = "below"))
  <2>1. PICK j \in 1..(n + 1) : /\ samples'[j] = <<c, "over">>
                                /\ \A k \in j..(n + 1) : samples'[k] # <<c, "below">>
    BY <1>4, <1>6
  <2>2. CASE j = n + 1
    BY <1>2, <2>1, <2>2
  <2>3. CASE j # n + 1
    <3>1. j \in 1..n /\ n + 1 \in j..(n + 1) /\ \A k \in j..n : k \in 1..n /\ k \in j..(n + 1)
      BY <1>1, <2>3
    <3>2. samples[j] = <<c, "over">> /\ \A k \in j..n : samples[k] # <<c, "below">>
      BY <1>1, <2>1, <3>1
    <3> QED
      BY <1>3, <1>5, <2>1, <3>1, <3>2
  <2> QED
    BY <2>2, <2>3
<1>7. ASSUME c = b, ratio = "over" PROVE InZone(c)'
  <2>1. n + 1 \in 1..(n + 1) /\ \A k \in (n + 1)..(n + 1) : k = n + 1
    BY <1>1
  <2>2. samples'[n + 1] = <<c, "over">> /\ samples'[n + 1] # <<c, "below">>
    BY <1>1, <1>7
  <2> QED
    BY <1>4, <2>1, <2>2
<1>8. ASSUME InZone(c), ~(c = b /\ ratio = "below") PROVE InZone(c)'
  <2>1. PICK j \in 1..n : /\ samples[j] = <<c, "over">>
                          /\ \A k \in j..n : samples[k] # <<c, "below">>
    BY <1>5, <1>8
  <2>2. j \in 1..(n + 1) /\ samples'[j] = <<c, "over">>
    BY <1>1, <2>1
  <2>3. ASSUME NEW k \in j..(n + 1) PROVE samples'[k] # <<c, "below">>
    <3>1. CASE k = n + 1
      BY <1>3, <1>8, <3>1
    <3>2. CASE k # n + 1
      <4>1. k \in j..n /\ k \in 1..n
        BY <1>1, <3>2
      <4> QED
        BY <1>1, <2>1, <4>1
    <3> QED
      BY <3>1, <3>2
  <2> QED
    BY <1>4, <2>2, <2>3
<1>9. ASSUME NEW i \in 1..n PROVE Enters(c, i)' <=> Enters(c, i)
  <2>1. /\ \A j \in 1..(i - 1) : j \in 1..n /\ \A k \in j..(i - 1) : k \in 1..n
    BY <1>1
  <2>2. samples'[i] = samples[i] /\ \A j \in 1..(i - 1) : samples'[j] = samples[j]
        /\ \A k \in j..(i - 1) : samples'[k] = samples[k]
    BY <1>1, <2>1
  <2> QED
    BY <2>2 DEF Enters
<1>10. Enters(c, n + 1)' <=> c = b /\ ratio = "over" /\ ~InZone(c)
  <2>1. (n + 1) - 1 = n
    BY <1>1
  <2>2. Enters(c, n + 1)' <=> /\ samples'[n + 1] = <<c, "over">>
                              /\ \A j \in 1..n : samples'[j] = <<c, "over">> =>
                                    \E k \in j..n : samples'[k] = <<c, "below">>
    BY <2>1 DEF Enters
  <2>3. \A j \in 1..n : samples'[j] = samples[j] /\ \A k \in j..n : samples'[k] = samples[k]
    BY <1>1
  <2> QED
    BY <1>2, <1>5, <2>2, <2>3
<1>11. /\ Entries(c) = {i \in 1..n : Enters(c, i)}
       /\ Entries(c)' = {i \in 1..(n + 1) : Enters(c, i)'}
  BY <1>0, <1>1 DEF Entries
<1>12. 1..(n + 1) = (1..n) \cup {n + 1} /\ n + 1 \notin 1..n
  BY <1>1
<1>13. IF c = b /\ ratio = "over" /\ ~InZone(c)
       THEN Entries(c)' = Entries(c) \cup {Len(samples) + 1}
       ELSE Entries(c)' = Entries(c)
  BY <1>0, <1>9, <1>10, <1>11, <1>12
<1> QED
  BY <1>1, <1>6, <1>7, <1>8, <1>13

\* Where a budget enters is finite, and within the samples.
LEMMA FiniteEntries ==
    ASSUME samples \in Seq(AlertBudgets \X Ratios), NEW b
    PROVE  /\ IsFiniteSet(Entries(b)) /\ Cardinality(Entries(b)) \in Nat
           /\ Len(samples) + 1 \notin Entries(b)
<1>1. Len(samples) \in Int /\ 1 \in Int /\ Len(samples) + 1 \notin 1..Len(samples)
  OBVIOUS
<1>2. Entries(b) \subseteq 1..Len(samples)
  BY DEF Entries
<1> QED
  BY <1>1, <1>2, FS_Interval, FS_Subset, FS_CardinalityType

\* fire_budget_alert and decide_budget.
LEMMA SampleStep ==
    ASSUME AlertInv, NEW b \in AlertBudgets, NEW ratio \in Ratios, Sample(b, ratio)
    PROVE  AlertInv'
<1>1. /\ samples \in Seq(AlertBudgets \X Ratios) /\ posted \in [AlertBudgets -> Nat]
      /\ samples' = Append(samples, <<b, ratio>>)
  BY DEF AlertInv, Sample
<1>2. posted' \in [AlertBudgets -> Nat]
      /\ \A c \in AlertBudgets :
            posted'[c] = IF c = b /\ ratio = "over" /\ ~WasOver(b) THEN posted[c] + 1 ELSE posted[c]
  <2>1. CASE ratio = "over" /\ ~WasOver(b) /\ posted' = [posted EXCEPT ![b] = @ + 1]
    BY <1>1, <2>1
  <2>2. CASE ~(ratio = "over" /\ ~WasOver(b)) /\ UNCHANGED posted
    BY <1>1, <2>2
  <2> QED
    BY <2>1, <2>2 DEF Sample, Ratios
<1>3. ASSUME NEW c \in AlertBudgets
      PROVE  WasOver(c)' <=> \/ c = b /\ ratio = "over"
                             \/ WasOver(c) /\ ~(c = b /\ ratio = "below")
  <2>1. CASE ratio = "over" /\ ~WasOver(b) /\ Mark(b, TRUE)
    BY <2>1 DEF Mark, WasOver
  <2>2. CASE ratio = "below" /\ Mark(b, FALSE)
    BY <2>2 DEF Mark, WasOver
  <2>3. CASE ratio = "nan" /\ UNCHANGED alerting
    BY <2>3 DEF WasOver
  <2>4. CASE ratio = "over" /\ WasOver(b) /\ UNCHANGED alerting
    BY <2>4 DEF WasOver
  <2> QED
    BY <2>1, <2>2, <2>3, <2>4 DEF Sample
<1>4. ASSUME NEW c \in AlertBudgets
      PROVE  (WasOver(c)' <=> InZone(c)') /\ posted'[c] = Cardinality(Entries(c)')
  <2>1. (WasOver(c) <=> InZone(c)) /\ posted[c] = Cardinality(Entries(c)) /\ (WasOver(b) <=> InZone(b))
    BY DEF AlertInv, Entries
  <2>2. /\ InZone(c)' <=> \/ c = b /\ ratio = "over"
                          \/ InZone(c) /\ ~(c = b /\ ratio = "below")
        /\ IF c = b /\ ratio = "over" /\ ~InZone(c)
           THEN Entries(c)' = Entries(c) \cup {Len(samples) + 1}
           ELSE Entries(c)' = Entries(c)
    BY <1>1, SampleFacts
  <2>3. IsFiniteSet(Entries(c)) /\ Cardinality(Entries(c)) \in Nat
        /\ Len(samples) + 1 \notin Entries(c)
    BY <1>1, FiniteEntries
  <2>4. CASE c = b /\ ratio = "over" /\ ~WasOver(b)
    <3>1. Cardinality(Entries(c)') = Cardinality(Entries(c)) + 1
      BY <2>1, <2>2, <2>3, <2>4, FS_AddElement
    <3> QED
      BY <1>2, <1>3, <2>1, <2>2, <2>4, <3>1
  <2>5. CASE ~(c = b /\ ratio = "over" /\ ~WasOver(b))
    BY <1>2, <1>3, <2>1, <2>2, <2>5
  <2> QED
    BY <2>4, <2>5
<1>5. samples' \in Seq(AlertBudgets \X Ratios)
  BY <1>1
<1> QED
  BY <1>2, <1>4, <1>5 DEF AlertInv, Entries

\* A runtime that has seen nothing has posted nothing.
LEMMA NothingSeen == AlertInit => AlertInv
<1> SUFFICES ASSUME alerting = [b \in {} |-> FALSE], samples = <<>>, posted = [b \in AlertBudgets |-> 0]
             PROVE  AlertInv
  BY DEF AlertInit
<1>1. samples \in Seq(AlertBudgets \X Ratios) /\ posted \in [AlertBudgets -> Nat] /\ Len(samples) = 0
      /\ 1..Len(samples) = {}
  OBVIOUS
<1>2. ASSUME NEW b \in AlertBudgets
      PROVE  (WasOver(b) <=> InZone(b)) /\ posted[b] = Cardinality({i \in 1..Len(samples) : Enters(b, i)})
  <2>1. ~WasOver(b) /\ ~InZone(b)
    BY <1>1 DEF WasOver, InZone
  <2>2. {i \in 1..Len(samples) : Enters(b, i)} = {} /\ posted[b] = 0
    BY <1>1
  <2> QED
    BY <2>1, <2>2, FS_EmptySet
<1> QED
  BY <1>1, <1>2 DEF AlertInv

\* The same of the state after a step.
LEMMA NothingSeenYet == AlertInit' => AlertInv'
  BY NothingSeen, PTL

\* Every step of the alerts, and of any other reporter, keeps AlertInv.
LEMMA AlertStep == AlertInv /\ [MCNext]_vars => AlertInv'
<1> SUFFICES ASSUME AlertInv, [MCNext]_vars PROVE AlertInv'
  OBVIOUS
<1>1. AlertNext \/ UNCHANGED alertVars
  BY DEF MCNext, vars
<1>2. ASSUME NEW b \in AlertBudgets, NEW ratio \in Ratios, Sample(b, ratio) PROVE AlertInv'
  BY <1>2, SampleStep
<1>3. ASSUME BuildAlerts PROVE AlertInv'
  BY <1>3, NothingSeenYet DEF BuildAlerts, AlertInit
<1>4. ASSUME UNCHANGED alertVars PROVE AlertInv'
  BY <1>4 DEF alertVars, AlertInv, InZone, WasOver, Enters
<1> QED
  BY <1>1, <1>2, <1>3, <1>4 DEF AlertNext

\* What AlertInv says, as the property of Series states it.
LEMMA AlertInvGives == AlertInv => OneAlertPerCrossing
<1> SUFFICES ASSUME AlertInv PROVE OneAlertPerCrossing
  OBVIOUS
<1>1. DOMAIN samples = 1..Len(samples)
  BY DEF AlertInv
<1> QED
  BY <1>1 DEF AlertInv, OneAlertPerCrossing

----------------------------------------------------------------------------
(* The theorems. *)

\* Usage is never lost and billed twice only for a report whose answer was lost: what drain_usage
\* takes out of the accumulators is billed, put back by restore_usage or missed at the exit, and the
\* last report of the shutdown has all that was due, whatever requests are counted in between.
THEOREM UsageIsBilled == MCSpec => []UsageAccounted
<1>1. MCInit => UsageInv
  BY UsageInitInv DEF MCInit
<1>2. UsageInv /\ [MCNext]_vars => UsageInv'
  <2>1. [MCNext]_vars => UsageNext \/ QuotaNext \/ UNCHANGED usageVars
    BY DEF MCNext, vars
  <2> QED
    BY <2>1, UsageStep
<1> QED
  BY <1>1, <1>2, UsageInvGives, PTL DEF MCSpec

\* Every record handed to LogShipper or SpanShipper is held or counted once until its task ends, and
\* what is counted as sent the collector has, no record more often than it may be posted.
THEOREM RecordsAreShipped == MCSpec => []ShippingKept
  BY ShipInitInv, ShipStep, ShipInvGives, PTL DEF MCSpec

\* The public CSP sink counts every report that it was to forward and drops, stays within its caps, and
\* scans its table by readings of the clock that are an interval apart, with any number of threads
\* between its tables.
THEOREM SinkIsBounded == MCSpec => []SinkKept
  BY SinkInitInv, SinkStep, SinkInvGives, PTL DEF MCSpec

\* What is counted is exported, under its own label or the overflow's and within the caps, however
\* many threads make series at once; and a runtime posts one alert for each time a budget enters the
\* alert zone.
THEOREM ShownAsItIs == MCSpec => []ShownIsTrue
<1>1. MCInit => AlertInv
  BY NothingSeen DEF MCInit
<1>2. SeriesInv /\ AlertInv => ShownIsTrue
  BY SeriesInvGives, AlertInvGives DEF ShownIsTrue
<1> QED
  BY <1>1, <1>2, SeriesInitInv, SeriesStep, AlertStep, PTL DEF MCSpec

=============================================================================
