------------------------------ MODULE Process ------------------------------
(***************************************************************************)
(* The life of the edge process as its background tasks see it             *)
(* (src/main.rs): it serves, a signal starts the drain (the public         *)
(* listener finishes the requests it has, takes new ones only for          *)
(* server.drain_delay, and the tasks that hold a shutdown receiver are     *)
(* told at the same moment), and it exits once the listener has drained or *)
(* given up.  Nothing waits for those tasks: the exit ends them wherever   *)
(* they are.                                                               *)
(***************************************************************************)

CONSTANT Requests   \* the requests of a behaviour; each is served once

VARIABLES phase,    \* "serving", "draining" or "exited"
          unseen,   \* requests that have not arrived
          open      \* requests being served

processVars == <<phase, unseen, open>>

ProcessInit == phase = "serving" /\ unseen = Requests /\ open = {}

\* The listener still accepts for server.drain_delay after the signal.
Arrives(r) ==
    /\ phase # "exited" /\ r \in unseen
    /\ unseen' = unseen \ {r} /\ open' = open \cup {r}
    /\ UNCHANGED phase

\* The task that waits for Ctrl-C or SIGTERM: `draining`, then shutdown_tx.
Signal ==
    /\ phase = "serving"
    /\ phase' = "draining"
    /\ UNCHANGED <<unseen, open>>

\* The listener returned, with its connections closed or its grace period over, and run() with it.
Exit ==
    /\ phase = "draining"
    /\ phase' = "exited" /\ open' = {}
    /\ UNCHANGED unseen

Served(r) == r \in open /\ open' = open \ {r} /\ UNCHANGED <<phase, unseen>>

ProcessNext == (\E r \in Requests : Arrives(r) \/ Served(r)) \/ Signal \/ Exit

ProcessSpec == ProcessInit /\ [][ProcessNext]_processVars
=============================================================================
