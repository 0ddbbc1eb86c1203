--------------------------- MODULE MCCertificates ---------------------------
(* Certificates for TLC: every source of the listener's certificate. *)
EXTENDS Certificates

Plain == [acme |-> FALSE, self_signed |-> FALSE, renew |-> TRUE, rotate |-> FALSE, watch |-> TRUE,
          ari |-> FALSE, managed |-> FALSE, budget |-> TRUE, port80 |-> FALSE, dns |-> FALSE,
          operator |-> FALSE]
Acme == [Plain EXCEPT !.acme = TRUE]

MCSettings ==
    {[Plain EXCEPT !.operator = TRUE],
     [Plain EXCEPT !.self_signed = TRUE], [Plain EXCEPT !.self_signed = TRUE, !.rotate = TRUE],
     [Acme EXCEPT !.self_signed = TRUE], [Acme EXCEPT !.port80 = TRUE, !.ari = TRUE],
     [Acme EXCEPT !.managed = TRUE, !.watch = FALSE], [Acme EXCEPT !.dns = TRUE],
     [Acme EXCEPT !.ari = TRUE, !.budget = FALSE]}

\* Two orders at once, then one for each two steps of the clock.
MCCaLimit == FromRate([count |-> 1, period |-> 2, burst |-> 2])
=============================================================================
