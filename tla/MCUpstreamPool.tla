--------------------------- MODULE MCUpstreamPool ---------------------------
(***************************************************************************)
(* Instances of UpstreamPool for TLC.                                      *)
(***************************************************************************)
EXTENDS UpstreamPool

CONSTANTS a, b,       \* targets
          r1, r2      \* requests

TwoTargets   == {a, b}
NoRequests   == {}
OneRequest   == {r1}
TwoRequests  == {r1, r2}

Base == [targets |-> <<a, b>>, backup |-> {}, weight |-> [t \in Targets |-> 1],
         balance |-> "priority", managed |-> TRUE, check |-> FALSE,
         healthy_after |-> 1, unhealthy_after |-> 1, interval |-> 1,
         eject_after |-> 0, eject_after_5xx |-> 0, eject_for |-> 1, eject_for_max |-> 1]

\* Checks: a reload asks for less, the next drops the checks, the last brings them back.
Checks    == [Base EXCEPT !.check = TRUE, !.healthy_after = 2, !.unhealthy_after = 2]
Reloads   == <<Checks,
               [Checks EXCEPT !.unhealthy_after = 1],
               [Base EXCEPT !.targets = <<a>>],
               Checks>>

\* Checks and ejection, with a request in flight while a backup is added.
Ejecting    == [Checks EXCEPT !.eject_after = 1, !.balance = "least_conn", !.healthy_after = 1,
                              !.unhealthy_after = 1]
BackupAdded == <<[Ejecting EXCEPT !.targets = <<a>>], [Ejecting EXCEPT !.backup = {b}]>>

\* Ejected on the first 5xx; failed connections are only retried.
FirstAnswer == <<[Base EXCEPT !.eject_after_5xx = 1]>>
=============================================================================
