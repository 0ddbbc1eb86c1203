------------------------------- MODULE Answers -------------------------------
(***************************************************************************)
(* An answer on its way to a browser, through a cache that several         *)
(* browsers share: its cross-origin headers (src/cors.rs), its security    *)
(* headers and its cookies (harden_response in src/proxy.rs).              *)
(*                                                                         *)
(* An origin is a name and whether it is written in capitals.  A cookie is *)
(* its parts in order: the first is its name and value, each a word, the   *)
(* rest are attributes.                                                    *)
(***************************************************************************)
EXTENDS Integers, Sequences, FiniteSets

CONSTANTS CorsPolicies,   \* [cors] and [headers]
          Origins,        \* the origins of the browsers; NoOrigin among them
          UpAnswers       \* what the upstream may answer

\* A cookie's parts, and what is split has a first one.
CookieParts(cookie) == {cookie[k] : k \in DOMAIN cookie}
IsCookie(cookie) == cookie \in Seq(CookieParts(cookie)) \ {<<>>}

\* CorsPolicy::build takes `*` out of the origins that it lists.
ASSUME AnswersAssumption ==
    /\ \A c \in CorsPolicies : "*" \notin c.origins
    /\ \A a \in UpAnswers : a.vary \in BOOLEAN /\ \A i \in DOMAIN a.cookies : IsCookie(a.cookies[i])

VARIABLES rules,    \* the configuration
          cache,    \* the answers the cache keeps, each with the origin it was asked from
          got       \* what the last browser to ask was given
answerVars == <<rules, cache, got>>

NoOrigin == [name |-> "", caps |-> FALSE]
Star == [name |-> "*", caps |-> FALSE]

----------------------------------------------------------------------------
(* src/cors.rs *)

\* CorsPolicy::build
CorsOk(c) == c.enabled => /\ c.any \/ c.origins # {}
                          /\ ~(c.any /\ c.credentials)

\* allow_origin_value: the origin as it was written, compared without capitals
AllowOrigin(c, o) == IF c.any THEN Star ELSE IF o.name \in c.origins THEN o ELSE NoOrigin

\* Mutant: no Vary.
SetOriginBare(c, a, allow) == [a EXCEPT !.allow = allow, !.credentials = c.credentials]

\* set_origin
SetOrigin(c, a, allow) == [a EXCEPT !.allow = allow, !.credentials = c.credentials, !.vary = @ \/ ~c.any]

\* decorate_origin
Decorate(c, o, a) ==
    IF ~c.enabled \/ o = NoOrigin \/ AllowOrigin(c, o) = NoOrigin THEN a
    ELSE [SetOrigin(c, a, AllowOrigin(c, o)) EXCEPT !.exposed = c.exposed]

\* preflight_response: the headers asked for are listed, or granted as asked when none are
Preflight(c, o, wanted) ==
    IF AllowOrigin(c, o) = NoOrigin THEN [allow |-> NoOrigin, granted |-> {}]
    ELSE [allow |-> AllowOrigin(c, o), granted |-> IF c.headers = {} THEN wanted ELSE c.headers]

----------------------------------------------------------------------------
(* src/proxy.rs *)

\* security_headers
SecurityHeaders(c) == {"x-content-type-options"} \cup c.set

\* harden_cookie: the attributes are the parts after the first
Attributes(cookie) == {cookie[i] : i \in 2..Len(cookie)}

HardenCookie(c, cookie) ==
    LET attrs == {a.name : a \in Attributes(cookie)}
        attr(a) == IF a \in attrs THEN <<>> ELSE <<[name |-> a, value |-> ""]>>
    IN cookie \o attr("secure") \o (IF c.httponly /\ cookie[1].name \notin c.exempt THEN attr("httponly") ELSE <<>>) \o attr("samesite")

\* to_str takes a header value of visible ASCII only; a word with any other byte stands for the rest.
NotAscii == "not ascii"
ToStr(cookie) == \A k \in DOMAIN cookie : NotAscii \notin {cookie[k].name, cookie[k].value}

\* harden_response: what `strip` names goes, the headers set here and the cookies too; a cookie that is
\* no text goes on as it came
Harden(c, a) ==
    [a EXCEPT !.headers = (@ \cup SecurityHeaders(c)) \ c.strip,
              !.vary = @ /\ "vary" \notin c.strip,
              !.cookies = IF "set-cookie" \in c.strip THEN <<>>
                          ELSE IF c.secure_cookies
                          THEN [i \in DOMAIN @ |-> IF ToStr(@[i]) THEN HardenCookie(c, @[i]) ELSE @[i]]
                          ELSE @]

\* handle: an upstream's answer is hardened, then every answer is decorated
Answered(c, o, up) == Decorate(c, o, Harden(c, up))

BareAnswer == [headers |-> {}, vary |-> FALSE, cookies |-> <<>>, allow |-> NoOrigin, credentials |-> FALSE, exposed |-> {}]
UpAnswer(a) == [BareAnswer EXCEPT !.headers = a.headers, !.vary = a.vary, !.cookies = a.cookies]

\* An answer of the edge's own (401, 403, 429...) is decorated only.
EdgeAnswer(c, o) == Decorate(c, o, BareAnswer)

----------------------------------------------------------------------------
(* The cache (external) gives a kept answer to whoever asks, unless it says Vary: Origin. *)

Kept(o) == {k \in cache : k.answer.vary => k.from = o}

Give(o, a, edge, cached) == got' = [to |-> o, answer |-> a, edge |-> edge, cached |-> cached, granted |-> {}, preflight |-> FALSE]

AskUpstream(o) ==
    /\ Kept(o) = {}
    /\ \E up \in UpAnswers : LET a == Answered(rules, o, UpAnswer(up))
                             IN Give(o, a, FALSE, FALSE) /\ cache' = cache \cup {[from |-> o, answer |-> a]}
    /\ UNCHANGED rules

Refused(o) == Give(o, EdgeAnswer(rules, o), TRUE, FALSE) /\ UNCHANGED <<rules, cache>>

FromCache(o) == \E k \in Kept(o) : Give(o, k.answer, FALSE, TRUE) /\ UNCHANGED <<rules, cache>>

\* A preflight is not cached by a shared cache.
AskPreflight(o) ==
    /\ rules.enabled /\ o # NoOrigin
    /\ \E wanted \in {{}, {"x-a"}, {"x-a", "x-b"}} :
         LET p == Preflight(rules, o, wanted)
         IN got' = [to |-> o, answer |-> [BareAnswer EXCEPT !.allow = p.allow], edge |-> TRUE, cached |-> FALSE,
                    granted |-> p.granted, preflight |-> TRUE]
    /\ UNCHANGED <<rules, cache>>

AnswersInit == /\ rules \in {c \in CorsPolicies : CorsOk(c)} /\ cache = {}
               /\ got = [to |-> NoOrigin, answer |-> BareAnswer, edge |-> TRUE, cached |-> FALSE, granted |-> {}, preflight |-> FALSE]
AnswersNext == \E o \in Origins : AskUpstream(o) \/ Refused(o) \/ FromCache(o) \/ AskPreflight(o)

AnswersSpec == AnswersInit /\ [][AnswersNext]_answerVars

----------------------------------------------------------------------------
(* Properties. *)

\* A browser (external) lets the page read an answer that allows its origin, letter for letter, or any.
Readable(o, a, credentialed) == a.allow = o \/ (a.allow = Star /\ ~credentialed)

\* Through any sharing of answers, a browser is never shown that another origin is allowed, never told that
\* an origin that is not listed is, and never offered credentials for any origin.
CorsIsolated ==
    /\ got.answer.allow \in {NoOrigin, Star, got.to}
    /\ got.answer.allow # NoOrigin => rules.any \/ got.to.name \in rules.origins
    /\ ~(got.answer.allow = Star /\ got.answer.credentials)

\* What a preflight promises an origin, the request itself keeps: an answer straight from the edge, an
\* upstream's or the edge's own refusal, can be read by exactly the origins whose preflight passes.
PreflightIsKept ==
    got.to # NoOrigin /\ rules.enabled /\ ~got.preflight /\ ~got.cached =>
        LET allowed == Preflight(rules, got.to, {}).allow # NoOrigin
        IN allowed <=> Readable(got.to, got.answer, rules.credentials)

\* The places of an attribute in a cookie.
AttributeAt(cookie, attribute) == {k \in 2..Len(cookie) : cookie[k].name = attribute}

\* An attribute is where the upstream wrote it, or was added once.
AddedOnce(sent, cookie, attribute) ==
    IF AttributeAt(sent, attribute) # {} THEN AttributeAt(cookie, attribute) = AttributeAt(sent, attribute)
    ELSE \E k \in (Len(sent) + 1)..Len(cookie) : AttributeAt(cookie, attribute) = {k}

\* Every cookie that reaches a browser, through any cache, is one that an upstream set: its parts are the
\* upstream's, and Secure and SameSite, and HttpOnly unless its name is exempt, are behind them once each
\* where the upstream left them out, whatever its value looks like, as long as it is visible ASCII.  A
\* cookie with any other byte is the upstream's letter for letter, and nothing hardens it.
CookiesHardened ==
    rules.secure_cookies =>
        \A i \in DOMAIN got.answer.cookies : \E up \in UpAnswers :
            LET cookie == got.answer.cookies[i]
                sent == up.cookies[i]
            IN /\ i \in DOMAIN up.cookies
               /\ Len(sent) <= Len(cookie) /\ \A k \in 1..Len(sent) : cookie[k] = sent[k]
               /\ IF ToStr(sent)
                  THEN /\ AddedOnce(sent, cookie, "secure") /\ AddedOnce(sent, cookie, "samesite")
                       /\ rules.httponly /\ cookie[1].name \notin rules.exempt =>
                             AddedOnce(sent, cookie, "httponly")
                  ELSE cookie = sent

\* A browser is told the edge's policy for its own origin, through any cache, and the cookies that are
\* text are hardened.
AnswersKept == CorsIsolated /\ PreflightIsKept /\ CookiesHardened
=============================================================================
