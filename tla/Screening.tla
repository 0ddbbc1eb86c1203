------------------------------ MODULE Screening ------------------------------
(***************************************************************************)
(* A request on its way to the upstream: the host it is for                *)
(* (src/proxy.rs), what the WAF reads of it (src/waf.rs), the vault entry  *)
(* it is given (src/keyvault.rs) and the headers it is sent on with.       *)
(*                                                                         *)
(* A path or a body is a sequence of characters; a host is a name, whether *)
(* it is written in capitals, and a port, 0 when none is written; a header *)
(* line is a name and a value, the items that a Connection line or a       *)
(* Cookie line lists, and the host that a Host line carries.  A list of    *)
(* values on another line stands as several lines.                         *)
(***************************************************************************)
EXTENDS Integers, Sequences, FiniteSets

CONSTANTS Guards,   \* configurations: the WAF, the vault, the listener
          Asked,    \* requests as they arrive
          Hex,      \* Hex[d][e]: the character that the digits d and e stand for
          HopByHop  \* HOP_BY_HOP

ASSUME ScreenAssumption == /\ \A d \in DOMAIN Hex : DOMAIN Hex[d] = DOMAIN Hex
                           /\ {"connection", "upgrade"} \subseteq HopByHop

VARIABLES screen    \* one request

----------------------------------------------------------------------------
(* The host. *)

NoHost == [name |-> "", caps |-> FALSE, port |-> 0]
DefaultPort(q) == IF q.scheme = "https" THEN 443 ELSE 80
Bare(q, h) == IF h.port = DefaultPort(q) THEN [h EXCEPT !.port = 0] ELSE h

LinesOf(headers, name) == SelectSeq(headers, LAMBDA l : l.name = name)
HostLine(q) == LET l == LinesOf(q.headers, "host") IN IF l = <<>> THEN NoHost ELSE l[1].host

\* Up to capitals, and the scheme's default port written on one side only
SameHost(q, a, h) == [Bare(q, a) EXCEPT !.caps = FALSE] = [Bare(q, h) EXCEPT !.caps = FALSE]

\* request_host: whether the request names one host, or may do without (HTTP/1.0)
HostOk(q) ==
    /\ Len(LinesOf(q.headers, "host")) <= 1
    /\ q.authority.name # "" /\ HostLine(q).name # "" => SameHost(q, q.authority, HostLine(q))
    /\ q.version = "1.0" \/ q.authority.name # "" \/ HostLine(q).name # ""

\* effective_host: Host as sent, or the authority without its default port
EffectiveHost(q) == IF HostLine(q).name # "" THEN HostLine(q) ELSE Bare(q, q.authority)

----------------------------------------------------------------------------
(* The WAF. *)

Within(text, s) == \E i \in 0..(Len(s) - Len(text)) : SubSeq(s, i + 1, i + Len(text)) = text

Escape(s, i) == s[i] = "%" /\ i + 2 <= Len(s) /\ s[i + 1] \in DOMAIN Hex /\ s[i + 2] \in DOMAIN Hex

\* percent_decode_lossy, one pass
PercentDecode(s) ==
    LET from[i \in 1..(Len(s) + 1)] ==
            IF i > Len(s) THEN <<>>
            ELSE IF Escape(s, i) THEN <<Hex[s[i + 1]][s[i + 2]]>> \o from[i + 3]
            ELSE <<s[i]>> \o from[i + 1]
    IN from[1]

\* join_header_values, as `screen` calls it: the effective host in place of Host
HeaderLines(q) ==
    {[name |-> l.name, host |-> l.host, value |-> l.value] :
         l \in {q.headers[i] : i \in {i \in DOMAIN q.headers : q.headers[i].name # "host"}}}
      \cup {[name |-> "host", host |-> EffectiveHost(q), value |-> ""]}

\* A rule is its targets, the text it looks for and the header line it looks for.
RuleHits(g, q, rule, body) ==
    \/ "path" \in g.inspect \cap rule.target /\ (Within(rule.text, q.path) \/ Within(rule.text, PercentDecode(q.path)))
    \/ "headers" \in g.inspect \cap rule.target /\ \E l \in HeaderLines(q) : l.name = rule.header /\ l.host.name = rule.host
    \/ "body" \in g.inspect \cap rule.target /\ body # <<>> /\ Within(rule.text, body)

\* evaluate
Evaluate(g, q, body) == g.mode # "off" /\ \E i \in DOMAIN g.rules : RuleHits(g, q, g.rules[i], body)

\* needs_body
NeedsBody(g) == g.mode # "off" /\ "body" \in g.inspect /\ \E i \in DOMAIN g.rules : "body" \in g.rules[i].target

----------------------------------------------------------------------------
(* The vault.  An entry is chosen by its virtual key or by its claims: the values of each, each a text
   and whether it ends in `*`. *)

\* KeyVault::build and check_claims_auth
VaultOk(g) ==
    /\ \A i \in DOMAIN g.vault : (g.vault[i].virtual = "") # (DOMAIN g.vault[i].claims = {})
    /\ \A i, j \in DOMAIN g.vault : g.vault[i].virtual = g.vault[j].virtual /\ g.vault[i].virtual # "" => i = j
    /\ (\E i \in DOMAIN g.vault : DOMAIN g.vault[i].claims # {}) => g.issuer # "" /\ g.audience # ""

\* auth: the token is verified, as of the issuer and the audience that are configured
Verified(g, token) == /\ token.signed
                      /\ g.issuer \in {"", token.issuer}
                      /\ g.audience \in {"", token.audience}

\* claim_matches
ClaimMatches(values, wanted) ==
    \E v \in values, w \in wanted : IF w.prefix THEN Len(w.text) <= Len(v) /\ SubSeq(v, 1, Len(w.text)) = w.text ELSE v = w.text

\* lookup
Lookup(g, key) == {i \in DOMAIN g.vault : g.vault[i].virtual # "" /\ g.vault[i].virtual = key}

\* lookup_claims: the first entry whose every claim matches
LookupClaims(g, claims) ==
    LET match == {i \in DOMAIN g.vault : /\ DOMAIN g.vault[i].claims # {}
                                        /\ \A c \in DOMAIN g.vault[i].claims :
                                             c \in DOMAIN claims /\ ClaimMatches(claims[c], g.vault[i].claims[c])}
    IN {i \in match : \A j \in match : i <= j}

\* Of the bearer token's text, and else of its verified claims; an upgrade's model is not known.
EntriesFor(g, q) ==
    LET keyed == IF q.bearer = "none" THEN {} ELSE Lookup(g, q.bearer)
    IN IF keyed # {} THEN keyed ELSE IF Verified(g, q.token) THEN LookupClaims(g, q.token.claims) ELSE {}
ModelAllowed(e, q) == e.models = {} \/ (~q.upgrade /\ q.model \in e.models)

----------------------------------------------------------------------------
(* The headers sent on. *)

HeaderNamed(name, value) == [name |-> name, value |-> value, items |-> <<>>, host |-> NoHost]
HostNamed(name, h) == [name |-> name, value |-> "", items |-> <<>>, host |-> h]

\* The items of several lines, in order
Items(lines) == LET upto[i \in 0..Len(lines)] == IF i = 0 THEN <<>> ELSE upto[i - 1] \o lines[i].items IN upto[Len(lines)]

\* strip_hop_by_hop
StripHopByHop(headers) ==
    LET connection == Items(LinesOf(headers, "connection"))
        listed == {connection[i] : i \in DOMAIN connection}
    IN SelectSeq(headers, LAMBDA l : l.name \notin HopByHop \cup listed)

CookieLine(cookies) == IF cookies = <<>> THEN <<>> ELSE <<[HeaderNamed("cookie", "") EXCEPT !.items = cookies]>>
NotNamed(headers, names) == SelectSeq(headers, LAMBDA l : l.name \notin names)

\* strip_sticky_cookie: what is left of the lines goes as one
StripSticky(g, headers) ==
    LET cookies == Items(LinesOf(headers, "cookie"))
    IN IF g.sticky = "" \/ \A i \in DOMAIN cookies : cookies[i] # g.sticky THEN headers
       ELSE NotNamed(headers, {"cookie"}) \o CookieLine(SelectSeq(cookies, LAMBDA c : c # g.sticky))

\* forward_headers: every line but Host, and the Cookie lines joined into one
ForwardHeaders(headers) == NotNamed(headers, {"host", "cookie"}) \o CookieLine(Items(LinesOf(headers, "cookie")))

Inserted(headers, line) == Append(NotNamed(headers, {line.name}), line)

\* forwarded_proto
ForwardedProto(g, q) ==
    LET told == LinesOf(q.headers, "x-forwarded-proto")
    IN IF g.tls \/ (g.trusted /\ told # <<>> /\ told[Len(told)].value = "https") THEN "https" ELSE "http"

EdgeHeaders == {"x-forwarded-for", "x-real-ip", "x-forwarded-proto", "true-client-ip", "forwarded", "x-forwarded-host"}

\* Mutant: the edge's own headers are added to the client's.
SetForwardingAppended(g, q, headers) ==
    headers \o <<HeaderNamed("x-forwarded-for", q.ip), HeaderNamed("x-real-ip", q.ip), HeaderNamed("forwarded", q.ip),
                 HeaderNamed("x-forwarded-proto", ForwardedProto(g, q)), HostNamed("x-forwarded-host", EffectiveHost(q))>>

\* set_forwarding_headers
SetForwarding(g, q, headers) ==
    NotNamed(headers, EdgeHeaders)
      \o <<HeaderNamed("x-forwarded-for", q.ip), HeaderNamed("x-real-ip", q.ip), HeaderNamed("forwarded", q.ip),
           HeaderNamed("x-forwarded-proto", ForwardedProto(g, q))>>
      \o (IF EffectiveHost(q) = NoHost THEN <<>> ELSE <<HostNamed("x-forwarded-host", EffectiveHost(q))>>)

\* The trace context that the edge records under replaces the client's; an upgrade keeps the client's.
SetTrace(q, headers) ==
    IF ~q.sampled THEN headers
    ELSE NotNamed(Inserted(headers, HeaderNamed("traceparent", "edge")), {"tracestate"})

\* The key goes in before the headers are stripped for an upgrade, and last for any other request.
Sent(g, q, entry) ==
    LET keyed(headers) == IF g.vault = <<>> THEN headers ELSE Inserted(headers, HeaderNamed("authorization", entry.provider))
        handshake == <<HeaderNamed("connection", "upgrade"), HeaderNamed("upgrade", "websocket")>>
    IN IF q.upgrade THEN Inserted(SetForwarding(g, q, ForwardHeaders(StripSticky(g, StripHopByHop(keyed(q.headers)))) \o handshake),
                                  HeaderNamed("x-request-id", "id"))
       ELSE keyed(SetTrace(q, Inserted(SetForwarding(g, q, ForwardHeaders(StripSticky(g, StripHopByHop(q.headers)))),
                                       HeaderNamed("x-request-id", "id"))))

----------------------------------------------------------------------------
(* The steps. *)

ScreenInit == \E g \in {g \in Guards : VaultOk(g)}, q \in Asked :
    screen = [pc |-> "arrived", guard |-> g, req |-> q, hit |-> FALSE, entry |-> 0, sent |-> <<>>]

Arrives == /\ screen.pc = "arrived"
           /\ screen' = [screen EXCEPT !.pc = IF HostOk(screen.req) THEN "hosted" ELSE "refused"]

\* screen: the body is there when something reads it, and never on an upgrade
Screens ==
    LET g == screen.guard
        q == screen.req
        hit == Evaluate(g, q, IF NeedsBody(g) /\ ~q.upgrade THEN q.body ELSE <<>>)
    IN /\ screen.pc = "hosted"
       /\ screen' = [screen EXCEPT !.hit = hit, !.pc = IF hit /\ g.mode = "block" THEN "forbidden" ELSE "screened"]

\* The vault: no entry, no request
Keys ==
    LET found == EntriesFor(screen.guard, screen.req)
    IN /\ screen.pc = "screened"
       /\ \/ screen.guard.vault = <<>> /\ screen' = [screen EXCEPT !.pc = "keyed"]
          \/ /\ screen.guard.vault # <<>> /\ found = {}
             /\ screen' = [screen EXCEPT !.pc = "denied"]
          \/ \E i \in (IF screen.guard.vault = <<>> THEN {} ELSE found) :
               screen' = [screen EXCEPT !.entry = i,
                             !.pc = IF ModelAllowed(screen.guard.vault[i], screen.req) THEN "keyed" ELSE "denied"]

Sends == /\ screen.pc = "keyed"
         /\ screen' = [screen EXCEPT !.pc = "sent",
                          !.sent = Sent(screen.guard, screen.req,
                                        IF screen.entry = 0 THEN [provider |-> ""] ELSE screen.guard.vault[screen.entry])]

ScreenNext == Arrives \/ Screens \/ Keys \/ Sends

----------------------------------------------------------------------------
(* Properties. *)

Told(name) == LinesOf(screen.sent, name)

\* In block mode no request goes on whose path, read by the application, holds what a rule for paths looks
\* for, whichever of its characters the client escaped.
SeenDecoded ==
    screen.pc = "sent" /\ screen.guard.mode = "block" =>
        \A i \in DOMAIN screen.guard.rules :
            "path" \in screen.guard.inspect \cap screen.guard.rules[i].target => ~Within(screen.guard.rules[i].text, screen.req.plain)

\* Not reading a body changes no verdict: a request streams past the WAF only if its body could not matter.
UnreadBodyIsIdle ==
    screen.pc \in {"screened", "forbidden", "keyed", "sent"} /\ ~screen.req.upgrade =>
        screen.hit = Evaluate(screen.guard, screen.req, screen.req.body)

\* A rule for Host decides about the very host that the upstream is told, whatever the protocol: one that is
\* told is not one that a rule blocks.
HostScreenedIsHostTold ==
    screen.pc = "sent" /\ screen.guard.mode = "block" /\ "headers" \in screen.guard.inspect =>
        \A i \in DOMAIN screen.guard.rules, l \in {Told("x-forwarded-host")[k] : k \in DOMAIN Told("x-forwarded-host")} :
            screen.guard.rules[i].header = "host" /\ "headers" \in screen.guard.rules[i].target => screen.guard.rules[i].host # l.host.name

\* The upstream learns who the client is from the edge alone: one value of each header, the edge's, whatever
\* the client wrote there and whatever it listed in Connection; what is left of the client's is end to end.
UpstreamToldByEdge ==
    screen.pc = "sent" =>
        /\ \A name \in {"x-forwarded-for", "x-real-ip", "forwarded"} : Told(name) = <<HeaderNamed(name, screen.req.ip)>>
        /\ Told("true-client-ip") = <<>> /\ Told("host") = <<>>
        /\ Told("x-forwarded-host") = IF EffectiveHost(screen.req) = NoHost THEN <<>>
                                      ELSE <<HostNamed("x-forwarded-host", EffectiveHost(screen.req))>>
        /\ \A i \in DOMAIN screen.sent : screen.sent[i].name \in HopByHop => screen.req.upgrade /\ screen.sent[i].name \in {"connection", "upgrade"}

\* Every cookie of the client's but the edge's own arrives, once and in order, on one line, however many lines
\* the client used, unless the client calls its cookies a matter of the connection.
CookiesArrive ==
    screen.pc = "sent" =>
        LET wanted == SelectSeq(Items(LinesOf(screen.req.headers, "cookie")), LAMBDA c : c # screen.guard.sticky)
            listed == Items(LinesOf(screen.req.headers, "connection"))
        IN Told("cookie") = IF \E i \in DOMAIN listed : listed[i] = "cookie" THEN <<>> ELSE CookieLine(wanted)

\* The protocol it is told is the one the client spoke to the first proxy that the edge trusts.
ProtoIsTheClients == screen.pc = "sent" => Told("x-forwarded-proto") = <<HeaderNamed("x-forwarded-proto", screen.req.spoken)>>

\* A provider's key goes only with a request that presents the entry's virtual key, or a token of this
\* gateway's issuer and audience with all of its claims; and no virtual key goes on in its place.
KeyIsEarned ==
    screen.pc = "sent" /\ screen.guard.vault # <<>> =>
        \A k \in DOMAIN screen.sent : screen.sent[k].name = "authorization" =>
            \E i \in DOMAIN screen.guard.vault :
                LET e == screen.guard.vault[i]
                    t == screen.req.token
                IN /\ screen.sent[k].value = e.provider
                   /\ \/ e.virtual # "" /\ e.virtual = screen.req.bearer
                      \/ /\ t.signed /\ t.issuer = "us" /\ t.audience = "edge"
                         /\ \A c \in DOMAIN e.claims : c \in DOMAIN t.claims /\ ClaimMatches(t.claims[c], e.claims[c])
                   /\ e.models = {} \/ screen.req.model \in e.models

\* What the edge decides by is what the upstream will read: the path, the host, the body and the
\* credential it screened, and the client it vouches for.
ScreenedIsSent ==
    /\ SeenDecoded /\ UnreadBodyIsIdle /\ HostScreenedIsHostTold
    /\ UpstreamToldByEdge /\ CookiesArrive /\ ProtoIsTheClients /\ KeyIsEarned
=============================================================================
