---------------------------- MODULE MCDecisions ----------------------------
(***************************************************************************)
(* What the edge decides on the way of one request and of one start, one   *)
(* question at a time: the order of a pool's targets, the clients and      *)
(* connections it opens, what it screens, masks, meters and answers, the   *)
(* keys of its file and whether it starts.  A behaviour is a behaviour of  *)
(* one part; the others stay as they are.                                  *)
(***************************************************************************)
EXTENDS Balancing, Outbound, Masking, Metering, Screening, Answers, UnknownKeys, Startup, TLC

CONSTANTS tA, tB, tC, tD, tE   \* the targets of Balancing

VARIABLE part

allVars == <<part, vars, outVars, upVars, mask, meter, screen, answerVars, keyVars, startupVars>>

----------------------------------------------------------------------------
(* Balancing: weights 3, 1, 2 as in the comment of `weighted_turn`, and a   *)
(* backup; three targets and two backups, hashed.                          *)
RoundRobinPool ==
    [targets |-> <<tA, tB, tC, tD>>, backup |-> {tD}, managed |-> TRUE,
     weight |-> (tA :> 3 @@ tB :> 1 @@ tC :> 2 @@ tD :> 1), balance |-> "round_robin"]
HashPool ==
    [targets |-> <<tA, tB, tC, tD, tE>>, backup |-> {tD, tE}, managed |-> TRUE,
     weight |-> (tA :> 1 @@ tB :> 2 @@ tC :> 1 @@ tD :> 1 @@ tE :> 1), balance |-> "hash"]
TwoPools == {RoundRobinPool, HashPool}
SomeRanks == {NoKey, <<tB, tE, tC, tD, tA>>, <<tE, tC, tA, tB, tD>>}
AnyStuck == {NoTarget, tA, tD}

----------------------------------------------------------------------------
(* Outbound: sections of their own and inherited, over https or not.       *)
SectionOf(on, https, ca, pair, proxy) == [on |-> on, https |-> https, ca |-> ca, pair |-> pair, proxy |-> proxy]
OutConfigOf(extra, pair, proxy, cp, alerts, up0) ==
    [extra |-> extra, pair |-> pair, proxy |-> proxy, of |-> [cp |-> cp, alerts |-> alerts, up |-> up0]]
SectionOff == SectionOf(FALSE, TRUE, "", "", "")
SomeOutConfigs ==
    {OutConfigOf("corp", "p1", "via", SectionOf(TRUE, TRUE, "own", "p1", ""), SectionOf(TRUE, FALSE, "", "", ""),
                 SectionOf(TRUE, TRUE, "own", "p2", "none")),
     OutConfigOf("corp", "p1", "via", SectionOf(TRUE, TRUE, "", "", "none"), SectionOf(TRUE, TRUE, "", "p2", ""),
                 SectionOf(TRUE, TRUE, "", "p1", "none")),
     OutConfigOf("corp", "", "", SectionOff, SectionOf(TRUE, TRUE, "", "p1", "bad"), SectionOf(TRUE, TRUE, "", "", "none")),
     OutConfigOf("", "p1", "", SectionOf(TRUE, TRUE, "", "", ""), SectionOf(TRUE, FALSE, "own", "", ""),
                 SectionOf(TRUE, TRUE, "", "", "none")),
     OutConfigOf("", "half", "", SectionOff, SectionOff, SectionOff)}
SomeSections == <<"cp", "up", "alerts">>

----------------------------------------------------------------------------
(* Upstream: an https target with an entry of its own and an http one,     *)
(* another entry, and checks on other ports, hosts and schemes; then       *)
(* bodies of checks, and chains of errors.                                 *)
Url(scheme, host, port) == [scheme |-> scheme, host |-> host, port |-> port]
TargetAt(url, host) == [url |-> url, check_host |-> host]
EntryFor(url, ca, pair, name) == [url |-> url, ca |-> ca, pair |-> pair, name |-> name]
CheckBy(kind, port, scheme) == [kind |-> kind, port |-> port, scheme |-> scheme]
Answering(body, regex, chain) == [body |-> body, regex |-> regex, chain |-> chain]
TlsConfig(pair, entries, targets, check, does) ==
    [ca |-> "corp", pair |-> pair, name |-> "", entries |-> entries, targets |-> targets, check |-> check,
     body |-> does.body, regex |-> does.regex, chain |-> does.chain]

\* The last two do not start: an entry for an http URL, and half a pair.
SomeEntries ==
    {EntryFor(Url("https", "a", 8443), "own", "p1", ""), EntryFor(Url("https", "b", 80), "", "", "b.int"),
     EntryFor(Url("https", "b", 9000), "", "", "b.int"), EntryFor(Url("http", "b", 0), "", "", ""),
     EntryFor(Url("https", "a", 0), "", "half", "")}
SomeChecks == {CheckBy("none", 0, ""), CheckBy("tcp", 9000, ""), CheckBy("http", 0, "https"), CheckBy("http", 9000, ""),
               CheckBy("http", 9000, "https"), CheckBy("http", 9000, "http")}
BothTargets(host) == <<TargetAt(Url("https", "a", 0), host), TargetAt(Url("http", "b", 0), "")>>
SomeBodies == UNION {[1..n -> {"o", "k"}] : n \in 0..4}
SomeChains == {outer \o <<cause>> :
    outer \in {<<>>, <<"client_connect">>, <<"hyper">>, <<"client_connect", "hyper">>, <<"hyper_incomplete">>},
    cause \in {"tls", "io_tls", "io_reset", "io_timeout", "hyper_incomplete"}}
SomeUpConfigs ==
    {TlsConfig(pair, <<EntryFor(Url("https", "a", 443), "own", "p2", ""), entry>>, BothTargets(host), check,
               Answering(<<>>, FALSE, <<"io_timeout">>)) :
        pair \in {"", "p1"}, host \in {"", "hc"}, entry \in SomeEntries, check \in SomeChecks}
    \cup {TlsConfig("", <<>>, <<TargetAt(Url("http", "b", 0), "")>>, CheckBy("http", 0, ""),
                    Answering(body, regex, <<"hyper">>)) : body \in SomeBodies, regex \in BOOLEAN}
    \cup {TlsConfig("", <<>>, <<TargetAt(Url("https", "b", 0), "")>>, CheckBy("none", 0, ""),
                    Answering(<<>>, FALSE, chain)) : chain \in SomeChains}
Ok == <<"o", "k">>

----------------------------------------------------------------------------
(* Masking: two or three findings that overlap in every way, and streamed  *)
(* replies of whole, cut and foreign placeholders.                         *)
Detected(family, start, end, category, score, valid) ==
    [family |-> family, start |-> start, end |-> end, category |-> category, score |-> score, valid |-> valid]
Email(start, end) == Detected("signature", start, end, "email", 2, TRUE)
SpansOf(n) == {s \in (0..(n - 1)) \X (1..n) : s[1] < s[2]}
SomeDetected ==
    {Email(s[1], s[2]) : s \in SpansOf(4)} \cup {Detected("ner", s[1], s[2], "person", 1, TRUE) : s \in SpansOf(4)}
    \cup {Detected("signature", 0, 4, "card", 2, FALSE), Detected("ner", 1, 9, "org", 1, TRUE),
          Detected("entropy", 1, 3, "high_entropy", 2, TRUE)}
ThreeDetected == {<<Detected("ner", p, q, "person", 1, TRUE), Detected("ner", r, s, "org", 2, TRUE), Email(t, 4)>> :
                    p \in 0..1, q \in 2..3, r \in 0..1, s \in 3..4, t \in 1..3}
Plain == <<"a", "b", "c", "d">>
Twice == <<"a", "b", "a">>
Streamed == <<"p", "q">>
SomeTexts == {Plain, Twice, Streamed}
SomeDetections ==
    [t \in SomeTexts |-> CASE t = Streamed -> {<<Email(0, 1)>>}
                           [] t = Twice -> {<<Email(0, 1), Email(2, 3)>>}
                           [] OTHER -> {<<>>} \cup {<<x>> : x \in SomeDetected} \cup (SomeDetected \X SomeDetected) \cup ThreeDetected]
Pieces == {<<"<", "e", "0", ">">>, <<"<", "e", "1", ">">>, <<"<", "e">>, <<"<">>, <<">">>, <<"x">>, <<"u1", "u2">>, <<"u1">>}
SomeReplies == [t \in SomeTexts |-> IF t = Streamed THEN {p \o q \o r : p, q \in Pieces, r \in Pieces \cup {<<>>}} ELSE {}]

----------------------------------------------------------------------------
(* Metering: usages with and without cached and reasoning tokens, and      *)
(* price books with names that a provider's prefix tells apart.            *)
UsageOf(fresh, read, write, out, thought) == [fresh |-> fresh, read |-> read, write |-> write, out |-> out, thought |-> thought]
SomeUsages == {UsageOf(3, 2, 1, 4, 3), UsageOf(1, 0, 0, 1, 0), UsageOf(0, 3, 0, 2, 2)}
PriceOf(input, output, cached, reasoning) == [input |-> input, output |-> output, cached |-> cached, reasoning |-> reasoning]
SomeBooks == {<<>>, <<"g">> :> PriceOf(3, 3, 0, 0), (<<"g">> :> PriceOf(2, 5, 1, 7)) @@ (<<"p", "g">> :> PriceOf(5, 5, 5, 5))}
SomeModels == {<<"g">>, <<"p", "g">>, <<"q", "g">>}

----------------------------------------------------------------------------
(* Screening: paths with every choice of escaped characters, hosts in      *)
(* every place HTTP/1 and HTTP/2 have for them, forged forwarding headers, *)
(* cookies and hop-by-hop lists, and virtual keys and tokens.              *)
SomeHex == [hi \in {"2", "E"} |-> [lo \in {"2", "E"} |-> IF hi = "2" /\ lo = "E" THEN "." ELSE "?"]]
SomeHop == {"connection", "upgrade", "te"}
ListLine(name, items) == [HeaderNamed(name, "") EXCEPT !.items = items]
HostOf(name, port) == [name |-> name, caps |-> FALSE, port |-> port]
HostLineOf(h) == HostNamed("host", h)
Dots == <<".", ".">>
EscapedAt(plain, at) ==
    LET upto[i \in 0..Len(plain)] ==
          IF i = 0 THEN <<>> ELSE upto[i - 1] \o (IF i \in at THEN <<"%", "2", "E">> ELSE <<plain[i]>>)
    IN upto[Len(plain)]
NoToken == [signed |-> FALSE, issuer |-> "", audience |-> "", claims |-> <<>>]
TokenFor(audience, team) == [signed |-> TRUE, issuer |-> "us", audience |-> audience, claims |-> [team |-> {team}]]
BaseAsked ==
    [plain |-> <<"x">>, path |-> <<"x">>, version |-> "1.1", scheme |-> "http", authority |-> NoHost,
     headers |-> <<HostLineOf(HostOf("app", 0))>>, body |-> <<"x">>, upgrade |-> FALSE, bearer |-> "none", token |-> NoToken,
     model |-> "m", ip |-> "client", sampled |-> FALSE, spoken |-> "http"]
Asking(plain, path) == [BaseAsked EXCEPT !.plain = plain, !.path = path]
PathAsked == {Asking(<<"x">> \o Dots, EscapedAt(<<"x">> \o Dots, at)) : at \in SUBSET {2, 3}}
             \cup {Asking(<<"%", "2", "%", ".", "%">>, <<"%", "2", "%", ".", "%">>)}
SomeHostNames == {NoHost, HostOf("app", 0), HostOf("app", 80), HostOf("bad", 0), HostOf("bad", 443),
                  [name |-> "bad", caps |-> TRUE, port |-> 0]}
HostAsked ==
    {[BaseAsked EXCEPT !.version = version, !.scheme = scheme, !.authority = at, !.headers = lines, !.upgrade = upgrade] :
        version \in {"1.0", "2"}, scheme \in {"http", "https"}, at \in SomeHostNames, upgrade \in BOOLEAN,
        lines \in {<<>>} \cup {<<HostLineOf(h)>> : h \in SomeHostNames}
                         \cup {<<HostLineOf(HostOf("app", 0)), HostLineOf(HostOf("bad", 0))>>}}
BodyAsked == {[BaseAsked EXCEPT !.body = body, !.upgrade = upgrade] : body \in {<<>>, Dots}, upgrade \in BOOLEAN}
ClientLines ==
    {<<>>,
     <<HeaderNamed("x-forwarded-for", "forged"), HeaderNamed("x-real-ip", "forged"), HeaderNamed("true-client-ip", "forged"),
       HeaderNamed("forwarded", "forged"), HostNamed("x-forwarded-host", HostOf("bad", 0)), HeaderNamed("x", "1"),
       HeaderNamed("x", "2")>>,
     <<ListLine("connection", <<"x-forwarded-for", "cookie", "x">>), HeaderNamed("te", "t"),
       HeaderNamed("x-forwarded-for", "forged"), ListLine("cookie", <<"a">>), HeaderNamed("x", "1")>>,
     <<ListLine("cookie", <<"a", "s">>), HeaderNamed("traceparent", "theirs"), HeaderNamed("tracestate", "theirs"),
       ListLine("cookie", <<"b">>)>>,
     <<ListLine("connection", <<"upgrade">>), HeaderNamed("upgrade", "websocket"), ListLine("cookie", <<"s">>)>>}
HeaderAsked == {[BaseAsked EXCEPT !.headers = BaseAsked.headers \o lines, !.upgrade = upgrade, !.sampled = sampled] :
                  lines \in ClientLines, upgrade \in BOOLEAN, sampled \in BOOLEAN}

\* The nearest proxy, where one is trusted, writes what was spoken last.
ProtoAsked ==
    {[BaseAsked EXCEPT !.spoken = proto, !.headers = BaseAsked.headers \o lines \o <<HeaderNamed("x-forwarded-proto", proto)>>] :
        proto \in {"http", "https"},
        lines \in {<<>>, <<HeaderNamed("x-forwarded-proto", "https")>>, <<HeaderNamed("x-forwarded-proto", "http")>>}}
KeyAsked ==
    {[BaseAsked EXCEPT !.bearer = bearer, !.token = token, !.model = model, !.upgrade = upgrade,
                       !.headers = IF bearer = "none" THEN @ ELSE Append(@, HeaderNamed("authorization", bearer))] :
        bearer \in {"none", "", "v1", "v2", "stranger"}, model \in {"m", "n"}, upgrade \in BOOLEAN,
        token \in {NoToken, TokenFor("edge", <<"red", "a">>), TokenFor("other", <<"red", "a">>), TokenFor("edge", <<"blue">>)}}

RuleOf(target, text, header, host, custom) ==
    [target |-> target, text |-> text, header |-> header, host |-> host, custom |-> custom]
Everywhere == {"path", "headers", "body"}
VaultKey(virtual, who, provider, models) == [virtual |-> virtual, claims |-> who, provider |-> provider, models |-> models]
SomeVault == <<VaultKey("v1", <<>>, "p1", {}), VaultKey("", [team |-> {[text |-> <<"red">>, prefix |-> TRUE]}], "p2", {"m"}),
               VaultKey("v2", <<>>, "p3", {"n"})>>
BaseGuard ==
    [mode |-> "block", inspect |-> Everywhere,
     rules |-> <<RuleOf(Everywhere, Dots, "none", "", FALSE), RuleOf({"headers"}, <<"zz">>, "host", "bad", TRUE)>>,
     tls |-> FALSE, trusted |-> FALSE, vault |-> <<>>, issuer |-> "", audience |-> "", sticky |-> "s"]
Walled == {BaseGuard, [BaseGuard EXCEPT !.mode = "report"], [BaseGuard EXCEPT !.mode = "off"],
           [BaseGuard EXCEPT !.inspect = {"path", "headers"}],
           [BaseGuard EXCEPT !.rules = <<RuleOf({"path"}, Dots, "none", "", TRUE)>>, !.sticky = ""]}
Proxied == {[BaseGuard EXCEPT !.trusted = TRUE]}
Vaulted == {[BaseGuard EXCEPT !.vault = SomeVault, !.issuer = "us", !.audience = audience] : audience \in {"edge", ""}}
SomeGuards == Walled \cup Proxied \cup Vaulted
WalledAsked == PathAsked \cup HostAsked \cup BodyAsked \cup HeaderAsked
SomeAsked == WalledAsked \cup ProtoAsked \cup KeyAsked

\* Each kind of request goes to the guards it is about.
AskedOfItsGuard == \/ screen.guard \in Walled /\ screen.req \in WalledAsked
                   \/ screen.guard \in Proxied /\ screen.req \in ProtoAsked
                   \/ screen.guard \in Vaulted /\ screen.req \in KeyAsked

----------------------------------------------------------------------------
(* Answers: policies of which two do not load, origins that differ in case *)
(* only, cookies whose values look like attributes, and one that is not    *)
(* text.                                                                   *)
OriginOf(name) == [name |-> name, caps |-> FALSE]
SomeOrigins == {NoOrigin, OriginOf("a"), OriginOf("b"), [name |-> "a", caps |-> TRUE], OriginOf("c")}
Attribute(name, value) == [name |-> name, value |-> value]
SomeUpAnswers ==
    {[headers |-> {"server"}, vary |-> FALSE,
      cookies |-> <<<<Attribute("sid", "secure")>>,
                    <<Attribute("csrf", "1"), Attribute("samesite", "none"), Attribute("secure", "")>>>>],
     [headers |-> {}, vary |-> TRUE,
      cookies |-> <<<<Attribute("sid", "1"), Attribute("httponly", "")>>, <<Attribute("sid", NotAscii)>>>>]}
CorsOf(enabled, any, origins, credentials, headers, strip) ==
    [enabled |-> enabled, any |-> any, origins |-> origins, credentials |-> credentials, exposed |-> {"x-e"}, headers |-> headers,
     set |-> {"hsts", "csp"}, strip |-> strip, secure_cookies |-> TRUE, httponly |-> TRUE, exempt |-> {"csrf"}]
SomeCors ==
    {CorsOf(TRUE, FALSE, {"a", "b"}, TRUE, {}, {"server", "vary"}), CorsOf(TRUE, FALSE, {"a"}, FALSE, {"x-a"}, {}),
     CorsOf(TRUE, TRUE, {}, FALSE, {}, {"server", "set-cookie"}), CorsOf(TRUE, TRUE, {}, TRUE, {}, {}), CorsOf(TRUE, FALSE, {}, TRUE, {}, {}),
     CorsOf(FALSE, FALSE, {}, FALSE, {}, {}), [CorsOf(FALSE, FALSE, {}, FALSE, {}, {}) EXCEPT !.secure_cookies = FALSE]}

----------------------------------------------------------------------------
(* UnknownKeys: a struct with a flattening table, a table of the user's    *)
(* own keys and fields whose names are a few edits apart.                  *)
LeafType(kind) == [kind |-> kind, fields |-> <<>>, of |-> ""]
StructType(kind, fields) == [kind |-> kind, fields |-> fields, of |-> ""]
SomeSchema ==
    [text |-> LeafType("text"), num |-> LeafType("num"), users |-> [LeafType("map") EXCEPT !.of = "num"],
     root |-> StructType("struct", <<"a", "b", "c">> :> "sec" @@ <<"c", "a", "b">> :> "users" @@ <<"a", "b">> :> "num"),
     sec |-> StructType("flatten", <<"c", "a">> :> "num" @@ <<"c", "b">> :> "text" @@ <<"a", "a", "a">> :> "num")]
SomeOutboundKeys == {<<"b", "b", "a">>}
SomeEdits ==
    LET users == <<"c", "a", "b">>
        sec == <<"a", "b", "c">>
        wrong == <<"b", "a">>
    IN <<<<"a", "b">>>> :> "num" @@ <<wrong>> :> "table" @@ <<wrong, <<"a">>>> :> "num"
       @@ <<users>> :> "table" @@ <<users, <<"a">>>> :> "num" @@ <<users, <<"c", "b", "b">>>> :> "text"
       @@ <<sec>> :> "table" @@ <<sec, <<"c", "a">>>> :> "num" @@ <<sec, <<"c", "c">>>> :> "text"
       @@ <<sec, <<"a", "a">>>> :> "num" @@ <<sec, <<"b", "b", "a">>>> :> "text" @@ <<sec, <<"b", "b", "c">>>> :> "text"
       @@ <<sec, <<"a", "c">>>> :> "text" @@ <<<<"c", "c", "c", "c">>>> :> "num"

----------------------------------------------------------------------------
(* Startup: edges that start, plain, over TLS and with ACME, and every     *)
(* change of one of their settings, or of two of the one over TLS.         *)
SecretOf(file, var, mount) == [file |-> file, var |-> var, mount |-> mount]
PlainEdge ==
    [broken |-> {}, keys |-> SecretOf(TRUE, "", ""), token |-> SecretOf(FALSE, "env", ""), quota_env |-> "",
     enforce_quota |-> FALSE, unknown |-> FALSE, managed |-> FALSE, boot |-> "local", ratelimit |-> TRUE,
     store |-> "local", redis_url |-> FALSE, mode |-> "apikey", users |-> "none", jwt_keys |-> "none",
     header |-> "off", forward |-> FALSE, client_auth |-> "off", cors |-> "off", dlp |-> FALSE,
     proxy_protocol |-> FALSE, forwarders |-> "off", collectors |-> {}, port |-> 443, admin_port |-> 9090,
     redirect_port |-> 0, redirect_status |-> 308, tls |-> FALSE, acme |-> FALSE, self_signed |-> FALSE,
     challenge |-> "http-01", wildcard |-> FALSE, domains |-> TRUE, paths |-> TRUE, extra |-> "none", pair |-> "good"]
TlsEdge == [PlainEdge EXCEPT !.tls = TRUE, !.redirect_port = 80, !.managed = TRUE]
AcmeEdge == [TlsEdge EXCEPT !.acme = TRUE, !.pair = "none"]
Breakable ==
    {"file", "listener", "client_auth", "control_plane", "header", "rates", "api_key_header", "jwt", "allowed", "dlp",
     "outbound", "forwarders", "upstreams", "upstream", "connect_timeout", "waf", "access", "validation", "llm", "telemetry",
     "alerts", "upstream_tls", "log.ship", "tracing", "metrics.otlp", "acme", "acme.dns", "admin_addr"}
Choices ==
    [broken |-> {{s} : s \in Breakable},
     keys |-> {SecretOf(FALSE, "", ""), SecretOf(TRUE, "blank", ""), SecretOf(TRUE, "", "mount"), SecretOf(FALSE, "", "unreadable")},
     token |-> {SecretOf(FALSE, "", "")}, quota_env |-> {"on", "typo"}, enforce_quota |-> {TRUE}, unknown |-> {TRUE},
     managed |-> BOOLEAN, boot |-> {"refuse", "typo"}, ratelimit |-> {FALSE}, store |-> {"redis", "typo"},
     mode |-> {"none", "basic", "jwt", "mtls", "typo"}, users |-> {"hash", "placeholder", "plain"}, jwt_keys |-> {"static"},
     header |-> {"proxies", "names"}, forward |-> {TRUE}, client_auth |-> {"required"},
     cors |-> {"any", "any_credentials", "no_origins"}, dlp |-> {TRUE}, proxy_protocol |-> {TRUE},
     forwarders |-> {"anyone", "balancer"}, collectors |-> {{"log.ship"}, {"tracing", "metrics.otlp"}},
     port |-> {8443}, admin_port |-> {0, 80, 443}, redirect_port |-> {80, 443, 9090}, redirect_status |-> {200, 304},
     tls |-> BOOLEAN, acme |-> {TRUE}, self_signed |-> {TRUE}, challenge |-> {"dns-01", "typo"}, wildcard |-> {TRUE},
     domains |-> {FALSE}, paths |-> {FALSE}, extra |-> {"good", "unreadable", "mismatch", "no_hosts"},
     pair |-> {"none", "ending", "mismatch", "unreadable"}]
Changed(edge) == UNION {{[edge EXCEPT ![k] = v] : v \in Choices[k]} : k \in DOMAIN Choices}
SomeSettings == UNION {Changed(edge) : edge \in {PlainEdge, AcmeEdge, [AcmeEdge EXCEPT !.tls = FALSE], TlsEdge} \cup Changed(TlsEdge)}

----------------------------------------------------------------------------
Parts == {"order", "outbound", "upstream", "masking", "metering", "screening", "answers", "keys", "startup"}

\* A part that stays as it is starts in one state.
MCInit ==
    /\ part \in Parts
    /\ (IF part = "order" THEN TRUE ELSE pool = RoundRobinPool) /\ Init
    /\ OutInit
    /\ IF part = "upstream" THEN UpInit
       ELSE UpstreamOf(TlsConfig("", <<>>, <<>>, CheckBy("none", 0, ""), Answering(<<>>, FALSE, <<>>)))
    /\ (IF part = "answers" THEN TRUE ELSE rules = CorsOf(FALSE, FALSE, {}, FALSE, {}, {})) /\ AnswersInit
    /\ KeysInit
    /\ IF part = "startup" THEN StartupInit ELSE StartupOf(PlainEdge)
    /\ IF part = "masking" THEN MaskInit ELSE mask = [NoReply EXCEPT !.text = Plain, !.style = "full"]
    /\ IF part = "metering" THEN MeterInit ELSE meter = [pc |-> "parked"]
    /\ IF part = "screening" THEN ScreenInit /\ AskedOfItsGuard ELSE screen = [pc |-> "parked"]

MCNext ==
    /\ UNCHANGED part
    /\ \/ /\ part = "order" /\ Next
          /\ UNCHANGED <<outVars, upVars, mask, meter, screen, answerVars, keyVars, startupVars>>
       \/ /\ part = "outbound" /\ OutNext
          /\ UNCHANGED <<vars, upVars, mask, meter, screen, answerVars, keyVars, startupVars>>
       \/ /\ part = "upstream" /\ UpNext
          /\ UNCHANGED <<vars, outVars, mask, meter, screen, answerVars, keyVars, startupVars>>
       \/ /\ part = "masking" /\ MaskNext
          /\ UNCHANGED <<vars, outVars, upVars, meter, screen, answerVars, keyVars, startupVars>>
       \/ /\ part = "metering" /\ MeterNext
          /\ UNCHANGED <<vars, outVars, upVars, mask, screen, answerVars, keyVars, startupVars>>
       \/ /\ part = "screening" /\ ScreenNext
          /\ UNCHANGED <<vars, outVars, upVars, mask, meter, answerVars, keyVars, startupVars>>
       \/ /\ part = "answers" /\ AnswersNext
          /\ UNCHANGED <<vars, outVars, upVars, mask, meter, screen, keyVars, startupVars>>
       \/ /\ part = "keys" /\ KeysNext
          /\ UNCHANGED <<vars, outVars, upVars, mask, meter, screen, answerVars, startupVars>>
       \/ /\ part = "startup" /\ StartupNext
          /\ UNCHANGED <<vars, outVars, upVars, mask, meter, screen, answerVars, keyVars>>

\* The watchers of client certificates are scheduled.
Fairness ==
    /\ WF_outVars(part = "outbound" /\ WatchIdentities)
    /\ \A p \in Pairs : WF_outVars(part = "outbound" /\ Reread(p))

MCSpec == MCInit /\ [][MCNext]_allVars /\ Fairness

----------------------------------------------------------------------------
\* What the edge makes of texts that others wrote: what it hides, gives back and bills of a body does not
\* depend on the pieces it came in (Masking, Metering), what it screens is what it sends on (Screening),
\* and it tells of exactly the keys it ignores (UnknownKeys).
TextsKept == MaskingKept /\ MeteringKept /\ ScreenedIsSent /\ IgnoredKeysTold

\* What takes several decisions: targets get their turns as weights, cookies and keys promise
\* (Balancing), and a rotated certificate reaches the clients that present it (Outbound).
TurnsKept == TargetsInOrder /\ RotationReaches
=============================================================================
