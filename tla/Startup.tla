------------------------------ MODULE Startup ------------------------------
(***************************************************************************)
(* A start of the edge (src/main.rs `run`, src/lib.rs), the `doctor` that  *)
(* is run before it to gate a deploy (src/doctor.rs), and the              *)
(* configuration both load (src/config.rs).                                *)
(*                                                                         *)
(* A configuration is a record of the settings that decide whether the     *)
(* edge starts.  Its `broken` is the set of sections whose own text does   *)
(* not load: a pattern, a duration, a CIDR, a file.                        *)
(***************************************************************************)
EXTENDS Integers, Sequences, FiniteSets

CONSTANTS EdgeConfigs,   \* the configurations
          HeldPorts,     \* ports that other processes hold
          MaxStarts      \* bound: starts of the process

ASSUME StartupAssumption == MaxStarts \in Nat

\* The values that the parsers of [tls.acme] and [auth] tell apart.
ASSUME ConfigsAssumption ==
    \A c \in EdgeConfigs : /\ c.challenge \in {"http-01", "dns-01", "typo"}
                           /\ c.users \in {"none", "placeholder", "hash", "plain"}

VARIABLES conf,      \* the configuration, with the environment it is loaded in
          disk,      \* the certificate and key at tls.cert_path and tls.key_path
          printed,   \* what `doctor` printed
          boot       \* the process
startupVars == <<conf, disk, printed, boot>>

----------------------------------------------------------------------------
(* Loading. *)

\* env_or_file: where a secret comes from.  A list of keys that is only commas counts as none.
EnvOrFile(s) ==
    IF s.var = "env" THEN "env"
    ELSE IF s.var = "" /\ s.mount \notin {"", "empty"} THEN "mount"
    ELSE IF s.file THEN "file" ELSE "none"
SecretOk(s) == s.var = "" => s.mount # "unreadable"

\* env_sourced, as `doctor` asks it
EnvSourced(s) == s.var # "" \/ s.mount # ""

Unusable(c, section) == section \in c.broken
Set(c, secret) == EnvOrFile(c[secret]) # "none"

\* Config::load
LoadOk(c) == ~Unusable(c, "file") /\ SecretOk(c.keys) /\ SecretOk(c.token) /\ c.quota_env # "typo"
EnforceQuota(c) == c.quota_env = "on" \/ (c.quota_env = "" /\ c.enforce_quota)

\* The sections of a pushed policy, and the parts of them that stay the edge's own
PolicySections == {"auth", "ratelimit", "validation", "headers", "waf", "access", "cors", "llm"}
KeptWithin == {"auth.jwt.outbound", "llm.telemetry"}
LocalSections == {"server", "tls", "control_plane", "upstreams", "upstream_tls", "alerts", "log", "tracing", "metrics",
                  "trusted_client_cert_header", "outbound", "unknown_keys"}

\* with_policy_from: what the document does not set is at its default, not at the edge's value
WithPolicyFrom(pushed) ==
    [s \in PolicySections \cup LocalSections \cup KeptWithin |->
        IF s \in PolicySections THEN IF s \in pushed THEN "policy" ELSE "default" ELSE "edge"]

----------------------------------------------------------------------------
(* What a start builds, in order. *)

Check(why, ok) == [why |-> why, ok |-> ok]
Loads(c, section) == Check(section, ~Unusable(c, section))

\* The first check that fails, or "".
Refusal(checks) ==
    LET failed == {i \in DOMAIN checks : ~checks[i].ok}
    IN IF failed = {} THEN "" ELSE checks[CHOOSE i \in failed : \A j \in failed : i <= j].why

\* ClientAuth::from_cfg
ClientAuthOk(c) == c.client_auth = "off" \/ (c.tls /\ ~Unusable(c, "client_auth"))

\* CpClient::from_cfg
CpClientOk(c) == c.managed => Set(c, "token") /\ ~Unusable(c, "control_plane")

\* TrustedHeader::from_cfg
HeaderOn(c) == c.header # "off"
TrustedHeaderOk(c) == HeaderOn(c) => ~Unusable(c, "header")

\* StoreMode::parse, DistributedLimiter::build and the local limiters' quotas
RateLimitOk(c) ==
    /\ c.store # "typo"
    /\ c.ratelimit => ~Unusable(c, "rates") /\ (c.store = "redis" => c.redis_url)

\* AuthEngine::build
AuthOk(c) ==
    \/ c.mode \in {"none", "basic"}
    \/ c.mode = "apikey" /\ ~Unusable(c, "api_key_header")
    \/ c.mode = "jwt" /\ c.jwt_keys # "none" /\ ~Unusable(c, "jwt")
    \/ c.mode = "mtls" /\ ~Unusable(c, "allowed")

\* ForwardPolicy::from_cfg
AsksForCert(c) == c.client_auth # "off" \/ HeaderOn(c)
ForwardPolicyOk(c) == c.forward => AsksForCert(c)

\* CorsPolicy::build
CorsBuilds(c) == c.cors \notin {"any_credentials", "no_origins"}

\* DlpEngine::build and build_ner: a mode of `off` builds nothing
DlpOk(c) == c.dlp => ~Unusable(c, "dlp")

\* build_runtime
BuildRuntime(c) == <<
    Loads(c, "outbound"), Loads(c, "forwarders"), Check("ratelimit", RateLimitOk(c)),
    Loads(c, "upstreams"), Loads(c, "upstream"), Loads(c, "connect_timeout"),
    Check("auth", AuthOk(c)), Check("forward", ForwardPolicyOk(c)),
    Check("mtls", c.mode = "mtls" => AsksForCert(c)),
    Check("proxy_names", c.header = "names" => c.client_auth # "off"),
    Loads(c, "waf"), Check("cors", CorsBuilds(c)), Loads(c, "access"), Loads(c, "validation"),
    Loads(c, "llm"), Check("dlp", DlpOk(c)), Loads(c, "telemetry"), Loads(c, "alerts")>>

\* build_state
BuildState(c) == <<Check("control_plane", CpClientOk(c)), Loads(c, "upstream_tls"), Loads(c, "connect_timeout")>>
                 \o BuildRuntime(c) \o <<Check("header", TrustedHeaderOk(c))>>

\* Policy::new, and the quota gate
Managed(c) == <<Check("boot_without_policy", c.boot # "typo"), Check("enforce_quota", EnforceQuota(c) => c.managed)>>

\* logship::spawn, spawn_span_shipper, spawn_exporter: one without a URL only warns
Collectors == {"log.ship", "tracing", "metrics.otlp"}
CollectorsOk(c) == \A s \in c.collectors : ~Unusable(c, s)

\* parse_redirect_status
RedirectOk(c) == c.redirect_port # 0 => c.redirect_status \in {301, 302, 303, 307, 308}

\* acme::http_client, and what obtain_certificate asks before it spends an order
AcmeChecks(c) == <<
    Check("acme_settings", c.domains /\ c.paths), Check("acme_challenge", c.challenge # "typo"),
    Check("acme_challenge", c.wildcard => c.challenge = "dns-01"),
    Check("acme_challenge", c.challenge = "dns-01" => ~Unusable(c, "acme.dns"))>>

Loadable == {"good", "ending"}

\* CertStore::load of each [[tls.certs]] pair, and SniResolver::new
ExtraChecks(c) == <<
    Check("extra_unreadable", c.extra # "unreadable"), Check("extra_mismatch", c.extra # "mismatch"),
    Check("extra_hosts", c.extra \notin {"no_hosts", "bad_host"})>>

----------------------------------------------------------------------------
(* `doctor`. *)

When(condition, why) == IF condition THEN {why} ELSE {}

\* lint_auth
LintAuth(c) ==
    When(c.mode = "basic" /\ c.users \in {"none", "placeholder"}, "users")
    \cup When(c.mode = "apikey" /\ ~Set(c, "keys"), "keys")
    \cup When(c.mode = "jwt" /\ c.jwt_keys = "none", "jwt")

\* lint_ratelimit
LintRatelimit(c) == When(c.ratelimit /\ c.store = "redis" /\ ~c.redis_url, "redis_url")

\* lint_acme_challenge
LintAcme(c) ==
    IF ~c.acme THEN {}
    ELSE When(Unusable(c, "acme"), "acme")
         \cup (IF c.challenge = "typo" THEN {"acme_challenge"}
               ELSE When(c.challenge = "http-01" /\ c.wildcard, "acme_wildcard")
                    \cup When(c.challenge = "dns-01" /\ Unusable(c, "acme.dns"), "acme_dns"))

\* lint_tls: the redirect listener's ports and status
LintRedirect(c) ==
    CASE c.redirect_port = 0 -> {}
      [] c.redirect_port = c.port -> {"redirect_port"}
      [] c.redirect_port = c.admin_port -> {"redirect_admin"}
      [] OTHER -> When(c.redirect_status \notin 300..399, "redirect_status")

\* lint_tls
LintTls(c) ==
    LintAcme(c)
    \cup (IF ~c.tls THEN {}
          ELSE When(~c.self_signed /\ ~c.acme /\ ~c.paths, "no_certificate")
               \cup When(c.self_signed /\ ~c.paths, "self_signed_paths") \cup LintRedirect(c))

\* cert_expiry_findings
Expiring(pair) == pair = "ending"

\* lint_cert_expiry: it ends at a primary certificate that cannot be read
LintCertExpiry(c, pair) ==
    IF ~c.tls \/ ~c.paths \/ pair \in {"none", "unreadable"} THEN {}
    ELSE When(Expiring(pair), "expiry")
         \cup When(c.extra \in {"no_hosts", "bad_host"}, "extra_hosts") \cup When(c.extra = "unreadable", "extra_unreadable")

\* lint_cors
LintCors(c) == When(c.cors = "any_credentials", "cors")

\* lint_listener, lint_client_auth, lint_trusted_header: what `doctor` builds because a start does
LintListener(c) == When(Unusable(c, "listener"), "listener")
LintClientAuth(c) == When(~ClientAuthOk(c), "client_auth")
LintTrustedHeader(c) == When(~TrustedHeaderOk(c), "header")
LintUpstreamTls(c) == When(Unusable(c, "upstream_tls"), "upstream_tls")

\* lint_unknown_keys
LintUnknownKeys(c) == When(c.unknown, "unknown_keys")

\* lint_proxy_protocol: a PROXY balancer that is also a forwarder
LintProxyProtocol(c) == When(c.proxy_protocol /\ c.forwarders = "balancer", "forwarders_shared")

\* Mutant: asked of an edge that is managed only.
LintControlPlaneManaged(c) ==
    IF ~c.managed THEN {} ELSE When(c.boot = "typo", "boot_without_policy")

\* lint_control_plane
LintControlPlane(c) ==
    When(EnforceQuota(c) /\ ~c.managed, "enforce_quota") \cup When(c.boot = "typo", "boot_without_policy")

\* lint_outbound
LintOutbound(c) == c.collectors \cap c.broken

\* lint: the errors
Lint(c, pair) ==
    LintListener(c) \cup LintUpstreamTls(c) \cup LintAuth(c) \cup LintRatelimit(c) \cup LintTls(c) \cup LintClientAuth(c)
    \cup LintCertExpiry(c, pair) \cup LintTrustedHeader(c) \cup LintCors(c) \cup LintUnknownKeys(c)
    \cup LintProxyProtocol(c) \cup LintControlPlane(c) \cup LintOutbound(c)

\* lint_auth, lint_ratelimit, lint_cors, lint_forwarded: the warnings about a door left open
Warnings(c) ==
    When(c.mode = "none", "open") \cup When(c.mode = "basic" /\ c.users = "plain", "plaintext")
    \cup When(~c.ratelimit, "unlimited") \cup When(c.cors = "any", "any_origin")
    \cup When(c.forwarders = "anyone", "forwarders")

\* lint_secrets
Nudges(c) == {s \in {"keys", "token"} : Set(c, s) /\ ~EnvSourced(c[s])}

\* The findings that say the edge will refuse to start, or will not start.
SaysRefuses == {"listener", "upstream_tls", "acme", "no_certificate", "client_auth", "header", "extra_unreadable",
                "boot_without_policy"} \cup Collectors

\* run_doctor: the lints, and the same clients and runtime as a start builds
DoctorErrors(c, pair) ==
    IF ~LoadOk(c) THEN {"load"}
    ELSE Lint(c, pair) \cup When(~CpClientOk(c), "cp") \cup When(Refusal(BuildRuntime(c)) # "", "runtime")

Untold == [run |-> FALSE, errors |-> {}, warnings |-> {}, nudges |-> {}]

Doctor ==
    /\ ~printed.run
    /\ printed' = [run |-> TRUE, errors |-> DoctorErrors(conf, disk),
                   warnings |-> IF LoadOk(conf) THEN Warnings(conf) ELSE {},
                   nudges |-> IF LoadOk(conf) THEN Nudges(conf) ELSE {}]
    /\ UNCHANGED <<conf, disk, boot>>

----------------------------------------------------------------------------
(* run. *)

RefuseStart(why) == boot' = [boot EXCEPT !.phase = "refused", !.why = why, !.bound = {}]
Go(next) == boot' = [boot EXCEPT !.phase = next]

\* A phase whose checks pass, or refuse the start.
Pass(checks, next) == LET why == Refusal(checks) IN IF why = "" THEN Go(next) ELSE RefuseStart(why)

Start ==
    /\ printed.run /\ boot.phase = "off"
    /\ Pass(<<Check("load", LoadOk(conf)), Loads(conf, "listener"), Check("client_auth", ClientAuthOk(conf))>>, "building")
    /\ UNCHANGED <<conf, disk, printed>>

Build ==
    /\ boot.phase = "building"
    /\ Pass(BuildState(conf) \o Managed(conf), "admin")
    /\ UNCHANGED <<conf, disk, printed>>

Bind(port, what, next) ==
    IF port \in HeldPorts \cup boot.bound THEN RefuseStart(what)
    ELSE boot' = [boot EXCEPT !.phase = next, !.bound = @ \cup {port}]

BindAdmin ==
    /\ boot.phase = "admin"
    /\ IF conf.admin_port = 0 THEN Go("collectors")
       ELSE IF Unusable(conf, "admin_addr") THEN RefuseStart("admin_addr")
       ELSE Bind(conf.admin_port, "bind", "collectors")
    /\ UNCHANGED <<conf, disk, printed>>

StartCollectors ==
    /\ boot.phase = "collectors"
    /\ Pass(<<Check("collectors", CollectorsOk(conf))>>, IF conf.tls THEN "redirect_status" ELSE "public")
    /\ UNCHANGED <<conf, disk, printed>>

CheckRedirect ==
    /\ boot.phase = "redirect_status"
    /\ Pass(<<Check("redirect_status", RedirectOk(conf)), Check("acme", conf.acme => ~Unusable(conf, "acme"))>>,
            IF conf.acme THEN "acme" ELSE "self_signed")
    /\ UNCHANGED <<conf, disk, printed>>

\* selfsigned::path_present of both files
Present(pair) == pair # "none"

\* The first certificate is ordered unless there is one, and kept on disk.
Obtain ==
    /\ boot.phase = "acme"
    /\ IF conf.paths /\ Present(disk) THEN Go("self_signed") /\ UNCHANGED disk
       ELSE IF Refusal(AcmeChecks(conf)) # "" THEN RefuseStart(Refusal(AcmeChecks(conf))) /\ UNCHANGED disk
       ELSE \/ /\ boot' = [boot EXCEPT !.phase = "self_signed", !.issued = @ + 1]
               /\ disk' = "good"
            \/ /\ RefuseStart("acme_order")       \* the order failed, or the budget defers it
               /\ UNCHANGED disk
    /\ UNCHANGED <<conf, printed>>

\* selfsigned::ensure
Ensure ==
    /\ boot.phase = "self_signed"
    /\ IF ~conf.self_signed THEN Go("certificates") /\ UNCHANGED disk
       ELSE IF ~conf.paths THEN RefuseStart("self_signed_paths") /\ UNCHANGED disk
       ELSE Go("certificates") /\ disk' = IF Present(disk) THEN disk ELSE "good"
    /\ UNCHANGED <<conf, printed>>

LoadCertificates ==
    /\ boot.phase = "certificates"
    /\ Pass(<<Check("certificate", conf.paths /\ disk \in Loadable)>> \o ExtraChecks(conf), "redirect")
    /\ UNCHANGED <<conf, disk, printed>>

BindRedirect ==
    /\ boot.phase = "redirect"
    /\ IF conf.redirect_port = 0 THEN Go("public") ELSE Bind(conf.redirect_port, "bind", "public")
    /\ UNCHANGED <<conf, disk, printed>>

BindPublic ==
    /\ boot.phase = "public"
    /\ Bind(conf.port, "bind", "serving")
    /\ UNCHANGED <<conf, disk, printed>>

\* Whoever started the process starts it again.
Restart ==
    /\ boot.phase \in {"refused", "serving"} /\ boot.starts < MaxStarts
    /\ boot' = [boot EXCEPT !.phase = "off", !.why = "", !.bound = {}, !.starts = @ + 1]
    /\ UNCHANGED <<conf, disk, printed>>

\* A control plane pushes a policy that sets some sections.
ApplyPolicy(pushed) ==
    /\ boot.phase = "serving" /\ conf.managed
    /\ boot' = [boot EXCEPT !.effective = WithPolicyFrom(pushed)]
    /\ UNCHANGED <<conf, disk, printed>>

AllEdge == [s \in PolicySections \cup LocalSections \cup KeptWithin |-> "edge"]

StartupOf(k) ==
    /\ conf = k /\ disk = k.pair /\ printed = Untold
    /\ boot = [phase |-> "off", why |-> "", bound |-> {}, issued |-> 0, starts |-> 1, effective |-> AllEdge]

StartupInit == \E k \in EdgeConfigs : StartupOf(k)

StartupNext ==
    \/ Doctor \/ Start \/ Build \/ BindAdmin \/ StartCollectors \/ CheckRedirect \/ Obtain \/ Ensure
    \/ LoadCertificates \/ BindRedirect \/ BindPublic \/ Restart
    \/ \E pushed \in {{"auth", "log"}, {"waf", "outbound", "llm.telemetry"}} : ApplyPolicy(pushed)

StartupSpec == StartupInit /\ [][StartupNext]_startupVars

----------------------------------------------------------------------------
(* Properties. *)

\* What a start refuses and `doctor` does not look at: the admin address, ports in use, the listener's
\* own pair and keys of [[tls.certs]], these pairs at all when the listener's cannot be read, 3xx
\* statuses that do not redirect, and what only an order can show.
Unforetold(c, why) ==
    \/ why \in {"admin_addr", "bind", "certificate", "extra_mismatch", "acme_settings", "acme_order"}
    \/ why = "redirect_status" /\ c.redirect_status \in 300..399
    \/ why \in {"extra_unreadable", "extra_hosts"} /\ c.pair \in {"none", "unreadable"}

\* `doctor` fails a deploy that would not start, for every reason but those.
DoctorForetells == (boot.phase = "refused" /\ ~Unforetold(conf, boot.why)) => printed.errors # {}

\* An edge that `doctor` said would refuse to start does refuse, whatever the other settings are: but
\* for [tls.acme] while [tls] is off, which no start reads.
RefusalsAreTrue == boot.phase = "serving" => printed.errors \cap SaysRefuses \subseteq (IF conf.tls THEN {} ELSE {"acme"})

\* An edge that starts after a clean `doctor` asks for credentials that some client can have, and one
\* whose door is open was told so.
SomeoneIsLetIn ==
    (boot.phase = "serving" /\ printed.errors = {}) =>
        CASE conf.mode = "basic" -> conf.users \in {"hash", "plain"}
          [] conf.mode = "apikey" -> EnvOrFile(conf.keys) # "none"
          [] conf.mode = "jwt" -> conf.jwt_keys # "none"
          [] conf.mode = "mtls" -> AsksForCert(conf)
          [] OTHER -> "open" \in printed.warnings

\* Starts that are refused after the certificate was issued (a port in use, another pair that does not
\* load) do not order it again: a restart loop spends one order.
IssuedOnce == boot.issued <= 1

\* What decides where the edge listens, whom it trusts and where its logs and spans go is never a
\* pushed document's, and a policy section is never a mix of the edge's and the document's.
EdgeLocalStays == /\ \A s \in LocalSections \cup KeptWithin : boot.effective[s] = "edge"
                  /\ (\E s \in PolicySections : boot.effective[s] # "edge") => \A s \in PolicySections : boot.effective[s] # "edge"

\* `doctor` asks to move a secret out of the file only when the file's is the one in use.
NudgeIsTrue == \A secret \in printed.nudges : EnvOrFile(conf[secret]) = "file"

\* A start is what `doctor` said it would be, lets somebody in, orders once, and keeps the edge's own
\* settings the edge's.
StartIsForetold ==
    DoctorForetells /\ RefusalsAreTrue /\ SomeoneIsLetIn /\ IssuedOnce /\ EdgeLocalStays /\ NudgeIsTrue
=============================================================================
