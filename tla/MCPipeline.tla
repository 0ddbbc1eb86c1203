----------------------------- MODULE MCPipeline -----------------------------
(***************************************************************************)
(* The exchanges that TLC tries: every way to read a request's body under  *)
(* every inspection, and every way to give an answer under every           *)
(* inspection and every part of the LLM gateway.                           *)
(***************************************************************************)
EXTENDS Pipeline

Bare == [stream_requests |-> FALSE, inspect |-> FALSE, stream_responses |-> FALSE,
         passthrough |-> FALSE, waf |-> "off", waf_body |-> FALSE, dlp |-> "off",
         scan_request |-> FALSE, scan_response |-> FALSE, stream_redact |-> FALSE,
         reversible |-> FALSE, metering |-> FALSE, vault |-> FALSE, budgets |-> FALSE]

Llm(c) == {c, [c EXCEPT !.metering = TRUE], [c EXCEPT !.vault = TRUE],
           [c EXCEPT !.vault = TRUE, !.metering = TRUE, !.budgets = TRUE]}

RequestSide ==
    UNION {Llm([Bare EXCEPT !.stream_requests = s[1], !.inspect = s[2], !.waf = w[1],
                            !.waf_body = w[2], !.dlp = d, !.scan_request = TRUE]) :
              s \in {<<FALSE, FALSE>>, <<TRUE, FALSE>>, <<TRUE, TRUE>>},
              w \in {<<"off", TRUE>>, <<"report", TRUE>>, <<"block", TRUE>>, <<"block", FALSE>>},
              d \in {"off", "report", "redact", "block"}}

ResponseSide ==
    UNION {Llm([Bare EXCEPT !.stream_responses = s, !.passthrough = p, !.dlp = d[1],
                            !.scan_request = d[2], !.scan_response = d[3],
                            !.stream_redact = d[4], !.reversible = d[5]]) :
              s \in BOOLEAN, p \in BOOLEAN,
              d \in {<<"off", TRUE, TRUE, FALSE, FALSE>>, <<"report", TRUE, TRUE, FALSE, FALSE>>,
                     <<"redact", TRUE, TRUE, FALSE, FALSE>>, <<"redact", FALSE, TRUE, TRUE, FALSE>>,
                     <<"redact", TRUE, TRUE, TRUE, TRUE>>, <<"redact", TRUE, FALSE, TRUE, FALSE>>,
                     <<"block", FALSE, TRUE, FALSE, FALSE>>, <<"block", TRUE, FALSE, FALSE, FALSE>>}}

Plain == [upgrade |-> FALSE, model |-> FALSE, len |-> 1, big |-> FALSE, declared |-> FALSE,
          hit |-> {}, by |-> "dlp"]

Handshakes == {[Plain EXCEPT !.upgrade = TRUE, !.hit = h, !.by = "waf"] : h \in {{}, {0}}}

Prompts == {[Plain EXCEPT !.model = m, !.hit = h] : m \in BOOLEAN, h \in {{}, {1}}}

Posts == {c \in [upgrade : {FALSE}, model : {FALSE}, len : {1, 3}, big : BOOLEAN, declared : BOOLEAN,
                 hit : {{}, {0}, {1}, {2}, {3}, {1, 2}, {2, 3}}, by : {"waf", "dlp"}] :
             /\ c.hit \subseteq 0..c.len
             /\ 0 \in c.hit => c.by = "waf"
             /\ c.hit = {} => c.by = "dlp"
             /\ c.declared => c.big}

ManyExchanges ==
    [policy : RequestSide, client : Handshakes \union Posts]
        \union [policy : ResponseSide, client : Handshakes \union Prompts]
=============================================================================
