----------------------------- MODULE MCReports -----------------------------
(***************************************************************************)
(* What the edge reports of itself, one reporter at a time: the usage it   *)
(* is billed for, the records it ships, the CSP reports it folds, the      *)
(* series it exports and the alerts it posts.  A behaviour is a behaviour  *)
(* of one part; the others stay as they are.                               *)
(***************************************************************************)
EXTENDS Usage, CspSink, Series

CONSTANTS QueueSize, Batch

VARIABLES part,
          posts, queue, buf, task, stats, stored   \* of Shipper

Ship == INSTANCE Shipper
shipVars == <<posts, queue, buf, task, stats, stored>>

\* A request is denied, answered from a buffer, or streamed: its bytes are known before or after it
\* is counted.
RequestKinds == {<<"requests", "blocked">>, <<"bytes", "requests">>, <<"requests", "bytes">>}

Parts == {"usage", "quota", "ship", "csp", "series", "models", "alerts"}

vars == <<part, processVars, usageVars, shipVars, sinkVars, seriesVars, alertVars>>

MCInit ==
    /\ part \in Parts
    /\ ProcessInit /\ UsageInit /\ SinkInit /\ AlertInit
    /\ (IF part = "ship" THEN Ship!ShipperInit ELSE Ship!ShipperInit /\ posts = 1)
    /\ (IF part = "series" THEN SeriesInit ELSE SeriesInit /\ cap = CHOOSE c \in Caps : TRUE)

MCNext ==
    /\ UNCHANGED part
    /\ \/ /\ \/ part = "usage" /\ UsageNext
             \/ part = "quota" /\ QuotaNext
          /\ UNCHANGED <<shipVars, sinkVars, seriesVars, alertVars>>
       \/ /\ part = "ship" /\ Ship!ShipperNext
          /\ UNCHANGED <<usageVars, sinkVars, seriesVars, alertVars>>
       \/ /\ part = "csp" /\ SinkNext
          /\ UNCHANGED <<processVars, usageVars, shipVars, seriesVars, alertVars>>
       \/ /\ part = "series" /\ SeriesNext
          /\ UNCHANGED <<processVars, usageVars, shipVars, sinkVars, alertVars>>
       \/ /\ part = "models" /\ ModelsNext
          /\ UNCHANGED <<processVars, usageVars, shipVars, sinkVars, alertVars>>
       \/ /\ part = "alerts" /\ AlertNext
          /\ UNCHANGED <<processVars, usageVars, shipVars, sinkVars, seriesVars>>

\* The tasks of the runtime are scheduled; a control plane that is polled answers in the end.
Fairness ==
    /\ WF_vars(part = "ship" /\ Ship!ShipTask /\ UNCHANGED <<part, usageVars, sinkVars, seriesVars, alertVars>>)
    /\ WF_vars(part = "quota" /\ QuotaLoop
               /\ UNCHANGED <<part, shipVars, sinkVars, seriesVars, alertVars>>)

MCSpec == MCInit /\ [][MCNext]_vars /\ Fairness

\* Records and spans are accounted for, and what is counted as sent is with the collector (of Shipper).
ShippingKept == (part = "ship" => Ship!RecordsAccounted) /\ Ship!SentIsStored

\* What an operator is shown is so: the series that are exported, and one alert for each crossing (of
\* Series).
ShownIsTrue == SeriesKept /\ OneAlertPerCrossing

\* The background tasks go on whatever collectors and control plane do: records leave the process,
\* and the quota's verdict comes to be the control plane's (of Shipper and Usage).
ReportersGoOn == Ship!RecordsLeave /\ QuotaFollows
=============================================================================
