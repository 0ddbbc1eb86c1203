------------------------------- MODULE Series -------------------------------
(***************************************************************************)
(* The bounded label registries of src/metrics.rs.  Series of routes,      *)
(* upstreams and consumers live in a copy-on-write map: a thread that does *)
(* not find its name copies the map, adds a new object and swaps the map,  *)
(* again if another thread swapped it first (ArcSwap::rcu), and counts on  *)
(* the object it got.  Models, teams and keys are added up under a mutex.  *)
(* The second half is the latch of the budget alerts (src/alert.rs).       *)
(***************************************************************************)
EXTENDS Naturals, FiniteSets, Sequences

CONSTANTS SeriesThreads,
          Names,       \* consumers (or routes, or upstreams, or models)
          Caps,        \* values of metrics.consumer_series_max; the size of Names is no cap at all
          ModelCap,    \* MAX_LLM_MODEL_SERIES
          MaxCalls     \* bound: requests counted

Anon == "_anon"
Overflow == "_over_cap"

ASSUME SeriesAssumption == Caps \subseteq Nat /\ ModelCap \in Nat /\ MaxCalls \in Nat

VARIABLES cap,
          series,     \* [map, version]: label -> object, and which map this is
          callers,    \* what each thread is doing
          counted,    \* <<name, object>> of every request counted, with a serial number
          models,     \* label -> amount, of the mutex-protected maps
          spent       \* the amounts given to those maps

seriesVars == <<cap, series, callers, counted, models, spent>>

Empty == [n \in {} |-> 0]
Named(m) == DOMAIN m \ {Anon, Overflow}
IdleCaller == [pc |-> "idle", name |-> Anon, snap |-> [map |-> Empty, version |-> 0], object |-> 0]

SeriesInit ==
    /\ cap \in Caps
    /\ series = [map |-> Empty, version |-> 0]
    /\ callers = [t \in SeriesThreads |-> IdleCaller]
    /\ counted = {} /\ models = Empty /\ spent = 0

\* Objects are told apart by the thread that made them and the map it made them for.
Fresh(t, snap) == <<t, snap.version>>

\* consumer_stats (route_stats, upstream_stats): the name's own series, or past the cap the overflow
\* series as it stands.
Look(t) ==
    /\ callers[t].pc = "idle" /\ Cardinality(counted) < MaxCalls
    /\ \E n \in Names \cup {Anon} :
          LET m == series.map
              found(o) == [pc |-> "count", name |-> n, snap |-> IdleCaller.snap, object |-> o]
          IN callers' = [callers EXCEPT ![t] =
                 IF n \in DOMAIN m THEN found(m[n])
                 ELSE IF n # Anon /\ Cardinality(Named(m)) >= cap /\ Overflow \in DOMAIN m
                 THEN found(m[Overflow])
                 ELSE [pc |-> "load", name |-> n, snap |-> IdleCaller.snap, object |-> 0]]
    /\ UNCHANGED <<cap, series, counted, models, spent>>

Load(t) ==
    /\ callers[t].pc = "load"
    /\ callers' = [callers EXCEPT ![t].snap = series, ![t].pc = "swap"]
    /\ UNCHANGED <<cap, series, counted, models, spent>>

\* The label the closure of rcu settles on, for the map it was given.
Label(n, m) == IF n = Anon \/ Cardinality(Named(m)) < cap THEN n ELSE Overflow

\* Mutant: the map is stored whatever became of it since it was copied.
SwapBlindly(t) ==
    /\ callers[t].pc = "swap"
    /\ LET s == callers[t].snap
           label == Label(callers[t].name, s.map)
           o == IF label \in DOMAIN s.map THEN s.map[label] ELSE Fresh(t, s)
       IN /\ series' = [map |-> [l \in DOMAIN s.map \cup {label} |->
                                    IF l = label THEN o ELSE s.map[l]],
                        version |-> series.version + 1]
          /\ callers' = [callers EXCEPT ![t].pc = "count", ![t].object = o]
    /\ UNCHANGED <<cap, counted, models, spent>>

Swap(t) ==
    /\ callers[t].pc = "swap"
    /\ LET s == callers[t].snap
           label == Label(callers[t].name, s.map)
           o == IF label \in DOMAIN s.map THEN s.map[label] ELSE Fresh(t, s)
       IN IF series.version = s.version
          THEN /\ series' = [map |-> [l \in DOMAIN s.map \cup {label} |->
                                          IF l = label THEN o ELSE s.map[l]],
                             version |-> series.version + 1]
               /\ callers' = [callers EXCEPT ![t].pc = "count", ![t].object = o]
          ELSE callers' = [callers EXCEPT ![t].pc = "load"] /\ UNCHANGED series
    /\ UNCHANGED <<cap, counted, models, spent>>

\* RouteStats::record, UpstreamStats::record, ConsumerStats::record and add_bytes.
CountOne(t) ==
    /\ callers[t].pc = "count"
    /\ counted' = counted \cup {<<Cardinality(counted), callers[t].name, callers[t].object>>}
    /\ callers' = [callers EXCEPT ![t] = IdleCaller]
    /\ UNCHANGED <<cap, series, models, spent>>

\* accumulate_bounded, under the map's mutex.
Accumulate(n) ==
    /\ spent < MaxCalls
    /\ LET label == IF n \in DOMAIN models \/ Cardinality(DOMAIN models) < ModelCap
                    THEN n ELSE Overflow
       IN models' = [l \in DOMAIN models \cup {label} |->
                        (IF l \in DOMAIN models THEN models[l] ELSE 0) + (IF l = label THEN 1 ELSE 0)]
    /\ spent' = spent + 1
    /\ UNCHANGED <<cap, series, callers, counted>>

SeriesNext == \E t \in SeriesThreads : Look(t) \/ Load(t) \/ Swap(t) \/ CountOne(t)
ModelsNext == \E n \in Names : Accumulate(n)

----------------------------------------------------------------------------
(* Properties. *)

\* A request is counted on a series that is exported, however many threads made a series for the
\* same name at once: no count goes to an object the map lost.
CountsExported ==
    \A c \in counted : \E l \in DOMAIN series.map : series.map[l] = c[3]

\* A consumer is counted under its own label or, once the cap was reached, under the overflow: never
\* under another consumer's, and never beyond the cap.
SeriesBounded ==
    /\ Cardinality(Named(series.map)) <= cap
    /\ \A c \in counted : \A l \in DOMAIN series.map :
          series.map[l] = c[3] =>
              l = c[2] \/ (l = Overflow /\ Cardinality(Named(series.map)) = cap)

\* The per-model figures add up to all that was metered, and there are at most the cap's labels and
\* the overflow.
ModelsAddUp ==
    /\ Cardinality(DOMAIN models) <= ModelCap + 1
    /\ spent = Cardinality(UNION {{l} \X (1..models[l]) : l \in DOMAIN models})

\* The figures exported are all that was counted, under the right labels and within the caps.
SeriesKept == CountsExported /\ SeriesBounded /\ ModelsAddUp

-----------------------------------------------------------------------------
(***************************************************************************)
(* Budget alerts (src/alert.rs): each admitted request gives the consumed  *)
(* ratio of the budgets it was counted against, and an alert is posted     *)
(* when a budget enters the alert zone.  The state is the runtime's, which *)
(* a reload replaces.                                                      *)
(***************************************************************************)

CONSTANTS AlertBudgets,
          MaxSamples   \* bound: samples of a behaviour

\* A ratio is at or past the threshold, below it, or not a finite number.
Ratios == {"over", "below", "nan"}

VARIABLES alerting, \* budget -> whether it is in the alert zone; absent until its first sample
          samples,  \* what the runtime has seen, as <<budget, ratio>>
          posted    \* the alerts posted by this runtime, per budget

alertVars == <<alerting, samples, posted>>

AlertInit ==
    /\ alerting = [b \in {} |-> FALSE]
    /\ samples = <<>> /\ posted = [b \in AlertBudgets |-> 0]

WasOver(b) == b \in DOMAIN alerting /\ alerting[b]
Mark(b, over) == alerting' = [c \in DOMAIN alerting \cup {b} |-> IF c = b THEN over ELSE alerting[c]]

\* Mutant: an alert that was posted is never reset.
SampleLatches(b, ratio) ==
    /\ Len(samples) < MaxSamples
    /\ samples' = Append(samples, <<b, ratio>>)
    /\ \/ /\ ratio = "over" /\ ~WasOver(b)
          /\ Mark(b, TRUE) /\ posted' = [posted EXCEPT ![b] = @ + 1]
       \/ ~(ratio = "over" /\ ~WasOver(b)) /\ UNCHANGED <<alerting, posted>>

\* fire_budget_alert and decide_budget, under the state's mutex.
Sample(b, ratio) ==
    /\ Len(samples) < MaxSamples
    /\ samples' = Append(samples, <<b, ratio>>)
    /\ \/ /\ ratio = "over" /\ ~WasOver(b)
          /\ Mark(b, TRUE) /\ posted' = [posted EXCEPT ![b] = @ + 1]
       \/ ratio = "below" /\ Mark(b, FALSE) /\ UNCHANGED posted
       \/ ratio = "nan" /\ UNCHANGED <<alerting, posted>>
       \/ ratio = "over" /\ WasOver(b) /\ UNCHANGED <<alerting, posted>>

\* AlertRuntime::build, on every reload.
BuildAlerts ==
    /\ samples # <<>>
    /\ alerting' = [b \in {} |-> FALSE]
    /\ samples' = <<>> /\ posted' = [b \in AlertBudgets |-> 0]

AlertNext ==
    \/ \E b \in AlertBudgets, ratio \in Ratios : Sample(b, ratio)
    \/ BuildAlerts

----------------------------------------------------------------------------
(* Properties. *)

\* A sample that enters the alert zone: since any earlier one in the zone, there was one below it.
Enters(b, i) ==
    /\ samples[i] = <<b, "over">>
    /\ \A j \in 1..(i - 1) :
          samples[j] = <<b, "over">> => \E k \in j..(i - 1) : samples[k] = <<b, "below">>

\* A runtime posts one alert for each time a budget enters the alert zone: as many as the stretches
\* of samples at or past the threshold, whatever other budgets and senseless ratios come between.
OneAlertPerCrossing ==
    \A b \in AlertBudgets :
        posted[b] = Cardinality({i \in DOMAIN samples : Enters(b, i)})
=============================================================================
