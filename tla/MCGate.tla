------------------------------- MODULE MCGate -------------------------------
(***************************************************************************)
(* Who a request is from and whether it may come in, one question at a     *)
(* time: its address, its client certificate, its credentials, its rate.   *)
(* A behaviour is a behaviour of one part; the others stay as they are.    *)
(***************************************************************************)
EXTENDS Address, ClientCerts, Auth, Limiter

VARIABLE part

vars == <<part, addressVars, certVars, authVars, limiterVars>>

----------------------------------------------------------------------------
V4(n) == [fam |-> "v4", n |-> n]
Mapped(n) == [fam |-> "mapped", n |-> n]
V6(n) == [fam |-> "v6", n |-> n]
Cidr4(base, prefix) == [fam |-> "v4", base |-> base, prefix |-> prefix]
Cidr6(base, prefix) == [fam |-> "v6", base |-> base, prefix |-> prefix]
Host(role, at) == [role |-> role, at |-> at]

\* Two proxies share a range; one of them and one client show up as mapped IPv6 addresses.
SomeHosts == {Host("client", V4(0)), Host("client", Mapped(1)), Host("client", V6(2)),
              Host("proxy", V4(2)), Host("proxy", Mapped(3)), Host("balancer", V6(0))}

Server(pp, list, hops, allow, deny) ==
    [pp |-> pp, balancers |-> {Cidr6(0, 2)}, expect |-> TRUE, trust |-> list # {}, auto |-> hops = 0,
     hops |-> hops, list |-> list, allow |-> allow, deny |-> deny]

\* The last two do not start: every address trusted, and more hops than are allowed.
SomeServers ==
    {Server(FALSE, {Cidr4(2, 1)}, 0, {}, {Cidr4(1, 2)}),
     Server(TRUE, {Cidr4(2, 1)}, 0, {Cidr4(0, 0)}, {Cidr4(1, 2), Cidr6(2, 2)}),
     Server(TRUE, {Cidr4(2, 1)}, 2, {}, {Cidr6(2, 1)}),
     Server(TRUE, {}, 1, {}, {Cidr4(1, 2)}),
     Server(TRUE, {Cidr4(0, 0)}, 1, {}, {}),
     Server(TRUE, {}, 3, {}, {})}

SomeWritten == {<<>>, <<V4(0)>>, <<Nowhere>>, <<V6(2), V4(3)>>, <<V4(2)>>}

SomeOpenings ==
    {<<>>, <<Token("P"), Token("ROXY")>>, <<Token("P"), Token("ROXY"), Token("UNKNOWN"), Token("CRLF")>>,
     <<Token("P"), Token("ROXY"), [is |-> "TCP4", of |-> V4(0)], Token("CRLF")>>,
     <<Token("SIG"), [is |-> "PROXY", of |-> Nowhere, family |-> "inet", len |-> 1], [is |-> "addresses", of |-> V4(0)]>>}

----------------------------------------------------------------------------
Cert(of, ca, names) == [of |-> of, ca |-> ca, names |-> names]
SomeCerts == {Cert("ann", "ca1", <<<<"svc", "ann">>, <<"x">>>>), Cert("bob", "ca2", <<>>), Cert("lb", "ca1", <<<<"lb", "a">>>>)}

Pattern(text, prefix) == [text |-> text, prefix |-> prefix]
Policy(mode, format, proxies, names, verify, forward, allowed) ==
    [mode |-> mode, header |-> format # "none", format |-> format, proxies |-> proxies, names |-> names,
     verify |-> verify, forward |-> forward, allowed |-> allowed]

\* Three do not start: no certificate to forward, nobody trusted, a hop that shows no certificate.
SomePolicies ==
    {Policy("required", "none", {}, {}, FALSE, TRUE, {Pattern(<<"svc">>, TRUE)}),
     Policy("optional", "xfcc", {"lb"}, {Pattern(<<"lb">>, TRUE)}, FALSE, TRUE, {}),
     Policy("off", "pem", {"lb"}, {}, TRUE, FALSE, {}),
     Policy("optional", "xfcc", {}, {Pattern(<<"lb", "a">>, FALSE)}, TRUE, FALSE, {Pattern(<<"x">>, FALSE)}),
     Policy("off", "none", {}, {}, FALSE, TRUE, {}),
     Policy("off", "pem", {}, {}, FALSE, FALSE, {}),
     Policy("off", "pem", {}, {Pattern(<<"lb">>, TRUE)}, FALSE, FALSE, {}),
     Policy("off", "none", {}, {}, FALSE, FALSE, {})}

SomeBundles == {{}, {"ca1"}, {"ca1", "ca2"}}
SomeCrls == {{}, {c \in SomeCerts : c.of = "ann"}}

----------------------------------------------------------------------------
Key(kid, gen) == [kid |-> kid, gen |-> gen]
Engine(mode, jwks) ==
    [mode |-> mode, users |-> {"u"}, keys |-> {"k"}, alg |-> "RS", jwks |-> jwks, static |-> Key("a", 0)]
SomeEngines == {Engine(m, FALSE) : m \in {"none", "basic", "apikey", "jwt"}} \cup {Engine("jwt", TRUE)}
SomeKeys == {Key("a", 0)}

Value(scheme, v) == [scheme |-> scheme, value |-> v]
SomeAuth == {<<>>, <<Value("Basic", "u")>>, <<Value("Bearer", "k")>>, <<Value("Bearer", "k"), Value("Bearer", "z")>>,
             <<Value("Basic", "u"), Value("Basic", "z")>>}
SomeKeyHeaders == {<<>>, <<"k">>, <<"unreadable">>, <<"k", "z">>}

\* Signed with the first key, with a rotated one, without a key id, under another algorithm.
TokenOf(alg, kid, key) == [alg |-> alg, kid |-> kid, key |-> key, valid |-> TRUE]
SomeTokens == {NoToken, TokenOf("RS", "a", Key("a", 0)), TokenOf("RS", "b", Key("b", 1)),
               TokenOf("RS", "none", Key("a", 0)), TokenOf("RS", "a", Key("a", 1)), TokenOf("HS", "a", Key("a", 0))}

----------------------------------------------------------------------------
RateOf(count, period, burst) == [count |-> count, period |-> period, burst |-> burst]
LimitOf(store, global, routes, per_key) == [store |-> store, global |-> global, routes |-> routes, per_key |-> per_key]
SomeLimits ==
    {LimitOf("memory", RateOf(2, 5, 2), <<>>, <<>>), LimitOf("redis", RateOf(2, 7, 2), <<>>, <<>>),
     LimitOf("redis", RateOf(1, 1, 1),
             <<[path |-> <<"a", "b">>, rate |-> RateOf(1, 3, 1)], [path |-> <<"a">>, rate |-> RateOf(1, 3, 1)],
               [path |-> <<"a", "b">>, rate |-> RateOf(1, 4, 2)]>>, <<>>),
     LimitOf("redis", RateOf(1, 1, 1), <<>>, RateOf(2, 4, 3))}
SomePaths == {<<"a", "b">>}

----------------------------------------------------------------------------
Parts == {"address", "certs", "auth", "limiter"}

\* The parts that stay as they are start in one state of theirs.
Parked(on, chosen) == on \/ chosen

MCInit ==
    /\ part \in Parts
    /\ AddressInit /\ Parked(part = "address", server = CHOOSE s \in Servers : ProxyProtocolOk(s) /\ ForwardersOk(s))
    /\ CertsInit
    /\ Parked(part = "certs", /\ policy = CHOOSE p \in CertPolicies : PolicyOk(p) /\ HeaderOk(p)
                              /\ disk.ca = CHOOSE b \in Bundles : b # {}
                              /\ disk.crl = {})
    /\ AuthInit /\ Parked(part = "auth", engine = CHOOSE e \in Engines : TRUE)
    /\ LimiterInit /\ Parked(part = "limiter", limits = CHOOSE l \in Limits : TRUE)

MCNext ==
    /\ UNCHANGED part
    /\ \/ part = "address" /\ AddressNext /\ UNCHANGED <<certVars, authVars, limiterVars>>
       \/ part = "certs" /\ CertsNext /\ UNCHANGED <<addressVars, authVars, limiterVars>>
       \/ part = "auth" /\ AuthNext /\ UNCHANGED <<addressVars, certVars, limiterVars>>
       \/ part = "limiter" /\ LimiterNext /\ UNCHANGED <<addressVars, certVars, authVars>>

\* The CA watcher is scheduled; tokio's lock is first come, first served.
Fairness ==
    /\ WF_vars(part = "certs" /\ Reloads /\ UNCHANGED <<part, addressVars, authVars, limiterVars>>)
    /\ \A r \in Requests : SF_vars(part = "auth" /\ Gate(r) /\ UNCHANGED <<part, addressVars, certVars, limiterVars>>)

MCSpec == MCInit /\ [][MCNext]_vars /\ Fairness

\* The gate goes on while its files and its issuer change: a revoked certificate stays out, a reload
\* catches up with the files, and every request is decided (of ClientCerts and Auth).
GateGoesOn == RevokedStaysOut /\ ReloadCatchesUp /\ GateDecides
=============================================================================
