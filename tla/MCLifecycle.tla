---------------------------- MODULE MCLifecycle ----------------------------
(***************************************************************************)
(* Listeners with and without TLS, PROXY headers, a cap, a head timeout    *)
(* and a drain delay, and a wrapped app behind the plain one.              *)
(***************************************************************************)
EXTENDS Lifecycle, TLC

Opts(max, tls, pp, head, delay, drain) ==
    [max |-> max, tls |-> tls, pp |-> pp, head |-> head, delay |-> delay, drain |-> drain]

Plain == Opts(1, FALSE, FALSE, 1, 0, 1)
Listeners == {Plain, Opts(0, FALSE, TRUE, 2, 1, 1), Opts(1, TRUE, TRUE, 2, 0, 0),
              Opts(0, TRUE, FALSE, 0, 0, 1)}

MCInit == LifeInit /\ (wrapped => opts = Plain)
MCSpec == MCInit /\ [][LifeNext]_lifeVars /\ LifeFairness
=============================================================================
