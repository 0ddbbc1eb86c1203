------------------------------ MODULE Outbound ------------------------------
(***************************************************************************)
(* The clients the edge opens itself (src/outbound.rs): what each takes    *)
(* from its own section and what from [outbound], the client certificates  *)
(* they present, kept in one store per file pair for the whole process,    *)
(* and the reloads that rebuild them.  Module Certificates says how one    *)
(* store follows its files; here a file pair is a generation, 0 when it    *)
(* does not load.  The second half is about connections to upstreams.      *)
(***************************************************************************)
EXTENDS Integers, Sequences, FiniteSets

CONSTANTS OutConfigs,  \* what the config file may say
          Sections,    \* the sections with a client, in the order they are built
          Once,        \* those built at startup only
          Upstreams,   \* those of [upstream_tls], which [outbound] does not reach
          Pairs,       \* certificate and key file pairs
          MaxGen,      \* bound: generations of a pair
          MaxReads     \* bound: configurations read

\* No CA bundle has the name of the public roots.
ASSUME OutboundAssumption ==
    /\ Once \cup Upstreams \subseteq {Sections[i] : i \in DOMAIN Sections}
    /\ \A c \in OutConfigs : DOMAIN c = {"extra", "pair", "proxy", "of"} /\ c.extra # "public"
    /\ MaxGen \in Nat /\ MaxReads \in Nat

VARIABLES draft,     \* the build under way: its configuration, what is still to build, what is built
          clients,   \* the clients that exist, in use or retired and still held by requests
          files,     \* the generation of each pair on disk
          stores,    \* Identities.stores: the generation each loaded pair presents
          claims,    \* Identities.claims
          watched,   \* the pairs whose files are watched
          watching,  \* watch_identities has been called
          reads,     \* configurations read so far
          phase,     \* "starting", "serving", or "refused": a first build that fails ends the process
          shown      \* the last request: who asked, and the certificate it showed
outVars == <<draft, clients, files, stores, claims, watched, watching, reads, phase, shown>>

----------------------------------------------------------------------------
(* One client's settings.  A configuration c has [outbound]'s extra, pair and proxy, and for each
   section s in c.of whether it is on and https, and its own ca, pair and proxy; "" is an empty key,
   "half" a pair with one of its two files, "bad" a bundle or a proxy that does not load. *)

Defaults(c, s) == IF s \in Upstreams THEN [extra |-> "", pair |-> "", proxy |-> ""]
                  ELSE [extra |-> c.extra, pair |-> c.pair, proxy |-> c.proxy]
WithoutDefaults(c) == [c EXCEPT !.extra = "", !.pair = "", !.proxy = ""]

\* Settings::of and Trust::roots, as the set of roots.
TrustOf(c, s) ==
    LET own == c.of[s] d == Defaults(c, s)
    IN IF own.ca # "" THEN {own.ca}
       ELSE {"public"} \cup (IF own.https /\ d.extra # "" THEN {d.extra} ELSE {})

PairOf(c, s) ==
    LET own == c.of[s]
    IN IF own.pair # "" THEN own.pair ELSE IF own.https THEN Defaults(c, s).pair ELSE ""

ProxyOf(c, s) == IF c.of[s].proxy = "" THEN Defaults(c, s).proxy ELSE c.of[s].proxy

SettingsOf(c, s) == [trust |-> TrustOf(c, s), pair |-> PairOf(c, s), proxy |-> ProxyOf(c, s)]

\* Settings::inherited
Inherited(c, s) ==
    {k \in {"extra_ca_path", "client_cert_path", "proxy"} :
        CASE k = "extra_ca_path" -> c.extra # "" /\ c.of[s].ca = "" /\ c.of[s].https
          [] k = "client_cert_path" -> c.of[s].pair = "" /\ c.of[s].https /\ c.pair # ""
          [] OTHER -> c.of[s].proxy = "" /\ c.proxy # ""}

Enabled(c) == {i \in DOMAIN Sections : c.of[Sections[i]].on}
EnabledSet(c) == {Sections[i] : i \in Enabled(c)}

\* inheritors, for the startup log and `doctor`
Inheritors(c) == {s \in EnabledSet(c) \ Upstreams : Inherited(c, s) # {}}

\* client_cert_paths: the certificates whose expiry `doctor` looks at
ClientCertPaths(c) == ({PairOf(c, s) : s \in EnabledSet(c) \ Upstreams} \cup {c.of[s].pair : s \in Upstreams}) \ {""}

\* check_defaults
DefaultsOk(c) == /\ c.extra # "bad" /\ c.proxy # "bad"
                 /\ c.pair = "" \/ (c.pair \in Pairs /\ files[c.pair] > 0)

\* The refusals of `builder_trusting` before and after it takes the certificate.
ShapeOk(c, s) == /\ ((c.of[s].ca # "" \/ c.of[s].pair # "") => c.of[s].https) /\ c.of[s].pair # "half"
                 /\ PairOf(c, s) # "half"
RestOk(c, s) == "bad" \notin TrustOf(c, s) /\ ProxyOf(c, s) # "bad"

----------------------------------------------------------------------------
(* Client certificates. *)

Claim(client) == [build |-> client.build, by |-> client.section, pair |-> client.pair]
ClaimsOf(cs) == {Claim(k) : k \in {k \in cs : k.pair # ""}}

\* in_use: the certificates reported, and alerted on as they near their end
InUse == {<<k.pair, k.by>> : k \in claims}

IdentityLoads(p) == p \in DOMAIN stores \/ (p \in Pairs /\ files[p] > 0)

\* Mutant: only the certificates of the startup are watched.
IdentityUnwatched(p) ==
    /\ stores' = IF p = "" \/ p \in DOMAIN stores THEN stores
                 ELSE [q \in DOMAIN stores \cup {p} |-> IF q = p THEN files[p] ELSE stores[q]]
    /\ UNCHANGED watched

\* identity: the pair's store, loaded and watched the first time
Identity(p) ==
    IF p = "" \/ p \in DOMAIN stores THEN UNCHANGED <<stores, watched>>
    ELSE /\ stores' = [q \in DOMAIN stores \cup {p} |-> IF q = p THEN files[p] ELSE stores[q]]
         /\ watched' = IF watching THEN watched \cup {p} ELSE watched

WatchIdentities ==
    /\ ~watching /\ watching' = TRUE
    /\ watched' = watched \cup DOMAIN stores
    /\ UNCHANGED <<draft, clients, files, stores, claims, reads, phase, shown>>

----------------------------------------------------------------------------
(* Builds: at startup every client, on a reload those of the runtime. *)

NoDraft == [on |-> FALSE, cfg |-> CHOOSE c \in OutConfigs : TRUE, todo |-> {}, built |-> {}]
Fails == phase' = IF phase = "starting" THEN "refused" ELSE phase

\* build_state and build_runtime begin; [outbound] itself is checked first.
BeginBuild ==
    /\ watching /\ ~draft.on /\ reads < MaxReads /\ phase # "refused"
    /\ reads' = reads + 1
    /\ \E c \in OutConfigs :
         IF DefaultsOk(c)
         THEN /\ draft' = [on |-> TRUE, cfg |-> c, built |-> {},
                           todo |-> {i \in Enabled(c) : phase = "serving" => Sections[i] \notin Once}]
              /\ UNCHANGED phase
         ELSE Fails /\ UNCHANGED draft
    /\ UNCHANGED <<clients, files, stores, claims, watched, watching, shown>>

Built(s) == [section |-> s, build |-> reads, pair |-> PairOf(draft.cfg, s), cfg |-> draft.cfg, held |-> 0, live |-> TRUE]

\* Mutant: a build that fails leaves its claims.
DropDraftLeaks == UNCHANGED claims

\* The claims of a build that fails are dropped with what was built; its stores stay.
DropDraft == claims' = claims \ ClaimsOf(draft.built)

\* builder_trusting for the next section, in order
BuildClient ==
    /\ draft.on
    /\ \E i \in draft.todo :
         LET s == Sections[i]
             p == PairOf(draft.cfg, s)
             ok == ShapeOk(draft.cfg, s) /\ (p # "" => IdentityLoads(p))
         IN /\ \A j \in draft.todo : i <= j
            /\ IF ok /\ RestOk(draft.cfg, s)
               THEN /\ Identity(p)
                    /\ draft' = [draft EXCEPT !.todo = @ \ {i}, !.built = @ \cup {Built(s)}]
                    /\ claims' = claims \cup ClaimsOf({Built(s)})
                    /\ UNCHANGED phase
               ELSE /\ IF ok THEN Identity(p) ELSE UNCHANGED <<stores, watched>>
                    /\ draft' = NoDraft /\ DropDraft /\ Fails
    /\ UNCHANGED <<clients, files, watching, reads, shown>>

\* The runtime is swapped in.  Requests may still hold the clients of the old one.
Publish ==
    /\ draft.on /\ draft.todo = {}
    /\ clients' = {IF k.section \in Once THEN k ELSE [k EXCEPT !.live = FALSE] : k \in clients} \cup draft.built
    /\ draft' = NoDraft /\ phase' = "serving"
    /\ UNCHANGED <<files, stores, claims, watched, watching, reads, shown>>

\* The last holder of a retired client is done with it: Claim::drop.
Release ==
    /\ \E k \in clients : /\ ~k.live
                          /\ clients' = clients \ {k}
                          /\ claims' = claims \ ClaimsOf({k})
    /\ UNCHANGED <<draft, files, stores, watched, watching, reads, phase, shown>>

\* A pair is replaced on disk, or broken.
Replace ==
    /\ \E p \in Pairs : \E g \in {0, files[p] + 1} :
         g <= MaxGen /\ g # files[p] /\ files' = [files EXCEPT ![p] = g]
    /\ UNCHANGED <<draft, clients, stores, claims, watched, watching, reads, phase, shown>>

\* The watcher re-reads a pair that loads.
Reread(p) ==
    /\ p \in watched /\ files[p] > 0 /\ stores[p] # files[p]
    /\ stores' = [stores EXCEPT ![p] = files[p]]
    /\ UNCHANGED <<draft, clients, files, claims, watched, watching, reads, phase, shown>>

\* pool_max_idle_per_host(0) with a certificate; hyper's client for upstreams pools
PoolsOf(k) == k.section \in Upstreams \/ k.pair = ""

\* A request of a client, over a pooled connection or a new one.  No session is resumed, so a new
\* connection shows the store's certificate.
Ask ==
    /\ \E k \in clients, fresh \in BOOLEAN :
         /\ k.pair # ""
         /\ ~fresh => PoolsOf(k) /\ k.held # 0
         /\ LET gen == IF fresh THEN stores[k.pair] ELSE k.held
            IN /\ shown' = [by |-> k.section, gen |-> gen, current |-> stores[k.pair], fresh |-> fresh]
               /\ clients' = (clients \ {k}) \cup {[k EXCEPT !.held = IF PoolsOf(k) THEN gen ELSE 0]}
    /\ UNCHANGED <<draft, files, stores, claims, watched, watching, reads, phase>>

OutInit ==
    /\ draft = NoDraft /\ clients = {} /\ claims = {} /\ reads = 0
    /\ files = [p \in Pairs |-> 1] /\ stores = <<>> /\ watched = {} /\ watching = FALSE /\ phase = "starting"
    /\ shown = [by |-> "", gen |-> 0, current |-> 0, fresh |-> TRUE]

OutNext == \/ WatchIdentities \/ BeginBuild \/ BuildClient \/ Publish \/ Release \/ Replace \/ Ask
           \/ \E p \in Pairs : Reread(p)

OutSpec == OutInit /\ [][OutNext]_outVars

OutFair == /\ WF_outVars(WatchIdentities) /\ \A p \in Pairs : WF_outVars(Reread(p))

----------------------------------------------------------------------------
(* Properties. *)

\* A certificate is reported, and alerted on, for as long as some client presents it and no longer:
\* through reloads that fail midway, and while requests hold clients of an older runtime.
ReportedIsPresented == InUse = {<<k.pair, k.by>> : k \in ClaimsOf(clients \cup draft.built)}

\* What the edge's own clients show is the certificate as last read, however long they have run and
\* whichever runtime they are of; an upstream's pooled connections alone keep an older one.
PresentsCurrent == shown.fresh \/ shown.by \notin Upstreams => shown.gen = shown.current

\* What [outbound] says adds CAs for the sections without their own, and changes nothing that a
\* section says itself: neither its CA, nor its certificate, nor its proxy.
OwnSettingsHold ==
    \A k \in clients :
        LET bare == SettingsOf(WithoutDefaults(k.cfg), k.section) all == SettingsOf(k.cfg, k.section)
        IN /\ bare.trust \subseteq all.trust
           /\ bare.trust # {"public"} => all.trust = bare.trust
           /\ bare.pair # "" => all.pair = bare.pair
           /\ bare.proxy # "" => all.proxy = bare.proxy

\* The startup log and `doctor` name exactly the clients that would change were [outbound] empty, and
\* look at the expiry of every certificate that a client presents.
OutboundToldTrue ==
    \A k \in clients :
        /\ k.section \in Inheritors(k.cfg) <=> SettingsOf(k.cfg, k.section) # SettingsOf(WithoutDefaults(k.cfg), k.section)
        /\ k.pair # "" => k.pair \in ClientCertPaths(k.cfg)

\* A rotated certificate reaches the clients that present it with no reload, also one first loaded by
\* a reload, or by a reload that failed.
RotationReaches ==
    \A p \in Pairs : p \in DOMAIN stores ~> (p \in DOMAIN stores /\ files[p] \in {0, stores[p]})

\* Every client of the edge is what its section says, presents the current certificate, and is
\* reported as it is.
ClientsAsConfigured == ReportedIsPresented /\ PresentsCurrent /\ OwnSettingsHold /\ OutboundToldTrue

-----------------------------------------------------------------------------
(***************************************************************************)
(* The connections to upstreams: the TLS settings of [upstream_tls] each   *)
(* is opened with (src/upstream.rs), for a request or for a health check   *)
(* that goes to another port or host (src/pool.rs), the check's reading of *)
(* an answer, and the name given to what went wrong.                       *)
(*                                                                         *)
(* A URL is a scheme, a host and a port, 0 when it is not written.         *)
(***************************************************************************)

CONSTANTS UpConfigs,   \* [upstream_tls], the targets and the health check; and what the targets do: the
                       \* body they answer a check with, the error chain of a failed exchange
          Expected,    \* the text a check looks for
          BodyLimit    \* CHECK_BODY_LIMIT

\* A check looks for some text, and an error of TLS has no further cause.
ASSUME UpstreamAssumption ==
    /\ BodyLimit \in Nat /\ Expected \in Seq({Expected[k] : k \in DOMAIN Expected}) \ {<<>>}
    /\ \A c \in UpConfigs :
         /\ \A i \in DOMAIN c.targets : c.targets[i].url.scheme \in {"http", "https"}
         /\ c.check.scheme \in {"", "http", "https"}
         /\ c.body \in Seq({c.body[k] : k \in DOMAIN c.body})
         /\ c.chain \in Seq({c.chain[k] : k \in DOMAIN c.chain})
         /\ \A i \in 1..(Len(c.chain) - 1) : c.chain[i] \notin {"tls", "io_tls"}

VARIABLES upconf,   \* the configuration
          opened,   \* the connections opened so far
          probe,    \* a health check reading a body
          failed    \* the last failed exchange, and the result it counts as
upVars == <<upconf, opened, probe, failed>>

----------------------------------------------------------------------------
(* [upstream_tls]. *)

DialledAt(url) == [host |-> url.host, port |-> IF url.port # 0 THEN url.port ELSE IF url.scheme = "https" THEN 443 ELSE 80]

\* target_key: refused for a URL that is not https
HasTlsKey(url) == url.scheme = "https"

Or(own, global) == IF own = "" THEN global ELSE own

\* An entry with the fields it leaves empty taken from [upstream_tls]; a pair is one field.
ProfileOfEntry(c, e) == [ca |-> Or(e.ca, c.ca), pair |-> Or(e.pair, c.pair), name |-> Or(e.name, c.name)]

\* from_cfg
UpstreamTlsOk(c) ==
    /\ \A i \in DOMAIN c.entries : HasTlsKey(c.entries[i].url)
    /\ \A i, j \in DOMAIN c.entries : DialledAt(c.entries[i].url) = DialledAt(c.entries[j].url) => i = j
    /\ \A k \in {c.pair} \cup {c.entries[i].pair : i \in DOMAIN c.entries} : k # "half"

\* profile
EntriesAt(c, at) == {i \in DOMAIN c.entries : DialledAt(c.entries[i].url) = at}
ProfileAt(c, at) ==
    IF EntriesAt(c, at) = {} THEN [ca |-> c.ca, pair |-> c.pair, name |-> c.name]
    ELSE ProfileOfEntry(c, c.entries[CHOOSE i \in EntriesAt(c, at) : TRUE])

\* UpstreamConnector::call: `as` is the address whose settings and name are taken, that of the URL
\* but for a check with `tls_as`.
ConnectAs(c, url, as) ==
    LET p == ProfileAt(c, as)
    IN IF url.scheme = "http" THEN [tls |-> FALSE, at |-> DialledAt(url), entry |-> {}]
       ELSE [tls |-> TRUE, at |-> DialledAt(url), ca |-> p.ca, pair |-> p.pair,
             verified |-> Or(p.name, as.host), entry |-> EntriesAt(c, as)]

----------------------------------------------------------------------------
(* Health checks. *)

\* rebase: the port is always written, that of the target's own scheme when it wrote none.
Rebase(t, hc) ==
    [scheme |-> IF hc.scheme = "" THEN t.url.scheme ELSE hc.scheme,
     host |-> IF t.check_host = "" THEN t.url.host ELSE t.check_host,
     port |-> IF hc.port # 0 THEN hc.port ELSE DialledAt(t.url).port]

\* base_for
BaseFor(t, hc) == IF hc.port = 0 /\ hc.scheme = "" /\ t.check_host = "" THEN t.url ELSE Rebase(t, hc)

\* Mutant: a check's settings are those of where it dials.
CheckAsDialled(t, hc) == DialledAt(BaseFor(t, hc))

\* with_tls_of: on another port or host, TLS is still the target's
CheckAs(t, hc) ==
    LET at == BaseFor(t, hc)
    IN IF at # t.url /\ t.url.scheme = "https" /\ at.scheme = "https" THEN DialledAt(t.url) ELSE DialledAt(at)

RequestTo(c, t) == ConnectAs(c, t.url, DialledAt(t.url))
CheckOf(c, t) == ConnectAs(c, BaseFor(t, c.check), CheckAs(t, c.check))
TargetsOf(c) == {c.targets[i] : i \in DOMAIN c.targets}

\* lint_upstream_tls: the addresses whose entries are used
LintedKeys(c) ==
    LET checks == IF c.check.kind # "http" THEN {}
                  ELSE {BaseFor(t, c.check) : t \in {t \in TargetsOf(c) : t.url.scheme # "https"}}
        urls == {t.url : t \in TargetsOf(c)} \cup checks
    IN {DialledAt(u) : u \in {u \in urls : HasTlsKey(u)}}
WarnedEntries(c) == {i \in DOMAIN c.entries : DialledAt(c.entries[i].url) \notin LintedKeys(c)}

Idle0 == [on |-> FALSE, seen |-> <<>>, rest |-> <<>>, verdict |-> "none"]

ForwardTo(t) ==
    /\ opened' = opened \cup {[of |-> t, check |-> FALSE, conn |-> RequestTo(upconf, t)]}
    /\ UNCHANGED <<upconf, probe, failed>>

\* A check connects; an HTTP one then reads the body, if the status passes.  A TCP one hangs up.
BeginCheck(t) ==
    /\ upconf.check.kind # "none" /\ ~probe.on
    /\ IF upconf.check.kind = "http"
       THEN /\ opened' = opened \cup {[of |-> t, check |-> TRUE, conn |-> CheckOf(upconf, t)]}
            /\ probe' \in {[Idle0 EXCEPT !.on = TRUE, !.rest = upconf.body], [Idle0 EXCEPT !.verdict = "status"]}
       ELSE UNCHANGED <<opened, probe>>
    /\ UNCHANGED <<upconf, failed>>

Head0(s, n) == SubSeq(s, 1, IF n < Len(s) THEN n ELSE Len(s))
Contained(text, s) == \E i \in 0..(Len(s) - Len(text)) : SubSeq(s, i + 1, i + Len(text)) = text

\* Where the bytes that could complete the text begin.
SearchFrom(before) == IF before > Len(Expected) - 1 THEN before - (Len(Expected) - 1) ELSE 0

\* The regular expression `text$` stands for one that a longer body may stop matching.
MatchesEnd(s) == Len(s) >= Len(Expected) /\ SubSeq(s, Len(s) - Len(Expected) + 1, Len(s)) = Expected

Verdict(of) == probe' = [Idle0 EXCEPT !.verdict = of]

\* check_http: the next frame of the body, or its end
ReadFrame(n) ==
    /\ probe.on /\ Len(probe.seen) < BodyLimit /\ n <= Len(probe.rest)
    /\ LET seen == Head0(probe.seen \o Head0(probe.rest, n), BodyLimit)
           from == SearchFrom(Len(probe.seen))
       IN IF ~upconf.regex /\ Contained(Expected, SubSeq(seen, from + 1, Len(seen))) THEN Verdict("pass")
          ELSE probe' = [probe EXCEPT !.seen = seen, !.rest = SubSeq(@, n + 1, Len(@))]
    /\ UNCHANGED <<upconf, opened, failed>>

EndOfBody ==
    /\ probe.on /\ (probe.rest = <<>> \/ Len(probe.seen) >= BodyLimit)
    /\ Verdict(IF upconf.regex /\ MatchesEnd(probe.seen) THEN "pass" ELSE "fail")
    /\ UNCHANGED <<upconf, opened, failed>>

BodyBreaks ==
    /\ probe.on /\ Len(probe.seen) < BodyLimit
    /\ Verdict("broken")
    /\ UNCHANGED <<upconf, opened, failed>>

----------------------------------------------------------------------------
(* What went wrong. *)

Has(chain, kinds) == \E i \in DOMAIN chain : chain[i] \in kinds

\* UpstreamResult::classify
Classify(chain) == IF Has(chain, {"tls", "io_tls"}) THEN "tls_error"
                   ELSE IF Has(chain, {"client_connect"}) THEN "connect_error"
                   ELSE IF Has(chain, {"io_reset", "hyper_incomplete"}) THEN "reset" ELSE "error"

Fail == /\ failed.chain = <<>>
        /\ failed' = [chain |-> upconf.chain, result |-> Classify(upconf.chain)]
        /\ UNCHANGED <<upconf, opened, probe>>

UpstreamOf(c) == /\ upconf = c /\ opened = {} /\ probe = Idle0
                 /\ failed = [chain |-> <<>>, result |-> "none"]

UpInit == \E c \in {c \in UpConfigs : UpstreamTlsOk(c)} : UpstreamOf(c)

UpNext == \/ \E t \in TargetsOf(upconf) : ForwardTo(t) \/ BeginCheck(t)
          \/ \E n \in 0..BodyLimit : ReadFrame(n)
          \/ EndOfBody \/ BodyBreaks \/ Fail

UpSpec == UpInit /\ [][UpNext]_upVars

----------------------------------------------------------------------------
(* Properties. *)

\* A check of a target over TLS verifies and presents as the requests to that target do, whatever
\* port or host it dials: a target that passes its checks is one that requests can reach.
CheckedAsRequested ==
    \A q, k \in opened : (q.of = k.of /\ ~q.check /\ k.check /\ q.conn.tls /\ k.conn.tls) =>
        <<q.conn.ca, q.conn.pair, q.conn.verified>> = <<k.conn.ca, k.conn.pair, k.conn.verified>>

\* `doctor` says that an entry's settings are never used exactly when no request and no check of this
\* configuration opens a connection with them.
UnusedEntriesWarned ==
    LET conns == {RequestTo(upconf, t) : t \in TargetsOf(upconf)}
                   \cup (IF upconf.check.kind = "http" THEN {CheckOf(upconf, t) : t \in TargetsOf(upconf)} ELSE {})
    IN /\ WarnedEntries(upconf) = DOMAIN upconf.entries \ UNION {k.entry : k \in conns}
       /\ \A k \in opened : k.conn.entry \cap WarnedEntries(upconf) = {}

\* A check's verdict on a body does not depend on the frames it came in: the text is within the
\* body's first BodyLimit bytes, or those bytes, all read, match the expression.
VerdictIgnoresFrames ==
    probe.verdict \in {"pass", "fail"} =>
        LET head == Head0(upconf.body, BodyLimit)
        IN probe.verdict = "pass" <=> IF upconf.regex THEN MatchesEnd(head) ELSE Contained(Expected, head)

\* A handshake that fails is told apart from a target that cannot be reached and from one that hangs
\* up, however the layers above have wrapped it and whenever it shows.
CauseIsNamed ==
    LET chain == failed.chain
    IN chain # <<>> => /\ chain[Len(chain)] \in {"tls", "io_tls"} <=> failed.result = "tls_error"
                       /\ (failed.result = "reset" => "client_connect" \notin {chain[i] : i \in DOMAIN chain})

\* Requests and checks meet a target under the same settings, and a failure is what it is called.
TargetsAsConfigured == CheckedAsRequested /\ UnusedEntriesWarned /\ VerdictIgnoresFrames /\ CauseIsNamed

\* What the edge connects to, for itself or for a request, it meets as the configuration says.
ConnectsAsConfigured == ClientsAsConfigured /\ TargetsAsConfigured
=============================================================================
