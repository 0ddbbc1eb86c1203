---------------------------- MODULE ClientCerts ----------------------------
(***************************************************************************)
(* Client certificates: the listener's verifier and its reload             *)
(* (src/client_auth.rs), the header a load balancer forwards a certificate *)
(* in (src/client_cert_header.rs), what reaches the app, and the principal *)
(* auth.mode = "mtls" takes.                                               *)
(*                                                                         *)
(* A connection comes from a client, or from the balancer on behalf of     *)
(* one.  The client writes what it likes into both headers; the balancer   *)
(* replaces the configured header, or in Envoy's format appends to it.     *)
(***************************************************************************)
EXTENDS Naturals, Sequences, SequencesExt, FiniteSets

CONSTANTS Certs,    \* the certificates: [of : whose, ca : its issuer, names : its identities in order]
          Clients,  \* who may connect; Balancer may as well
          Balancer,
          CertPolicies, \* [tls.client_auth], [trusted_client_cert_header] and [auth.mtls]
          Bundles,  \* what ca_path may hold: sets of CAs, {} when it does not load
          Crls,     \* what crl_paths may hold: sets of revoked certificates
          MaxWrites \* how often the files are replaced

ASSUME CertsAssumption ==
    /\ MaxWrites \in Nat /\ Balancer \notin Clients
    /\ \A c \in Certs : c.of \in Clients \cup {Balancer}
    /\ \A p \in CertPolicies : p.mode \in {"off", "optional", "required"}

VARIABLES policy,    \* the settings of a behaviour
          disk,      \* the CA bundle and the CRLs, and how often they were replaced
          events,    \* a change event is queued
          reloading, \* the reload in progress: "no", or what it has read so far
          current,   \* the verifier: the CAs and the revoked certificates it checks against
          loaded,    \* the bytes it was built from
          ticket,    \* the certificate of the last session that presented one, which its client could resume
          conn,      \* the connection: who it is from, and the certificate its handshake presented
          got        \* the last request: whose it was, its certificate, the header's result, what the app saw,
                     \* the principal, and whether an XFCC that was read had a quote left open

certVars == <<policy, disk, events, reloading, current, loaded, ticket, conn, got>>

NoCert == [of |-> "nobody", ca |-> "none", names |-> <<>>]

----------------------------------------------------------------------------
(* Building and reloading the verifier. *)

Built(ca, crl) == [cas |-> ca, revoked |-> crl]

\* A certificate from outside the bundle or in a CRL is refused.
Verifies(c) == c.ca \in current.cas /\ c \notin current.revoked

\* The CA bundle or the CRLs are replaced, in either order; a bundle may not load.
Replace ==
    /\ disk.writes < MaxWrites
    /\ \/ \E ca \in Bundles \ {disk.ca} : disk' = [disk EXCEPT !.ca = ca, !.writes = @ + 1]
       \/ \E crl \in Crls \ {disk.crl} : disk' = [disk EXCEPT !.crl = crl, !.writes = @ + 1]
    /\ events' = TRUE
    /\ UNCHANGED <<policy, reloading, current, loaded, ticket, conn, got>>

Reading(ca) == [at |-> "crl", ca |-> ca]
NoReload == [at |-> "no", ca |-> {}]

\* watch_paths: the burst settles, the queue is emptied, and only then the bundle is read.
Settled ==
    /\ reloading = NoReload /\ events
    /\ events' = FALSE /\ reloading' = Reading(disk.ca)
    /\ UNCHANGED <<policy, disk, current, loaded, ticket, conn, got>>

\* The hourly backstop, whatever the events.
Hourly ==
    /\ reloading = NoReload
    /\ reloading' = Reading(disk.ca)
    /\ UNCHANGED <<policy, disk, events, current, loaded, ticket, conn, got>>

\* Mutant: the files are read again for the comparison.
FinishReadTwice ==
    /\ reloading # NoReload
    /\ reloading' = NoReload
    /\ IF reloading.ca = {} \/ loaded = Built(disk.ca, disk.crl) THEN UNCHANGED <<current, loaded>>
       ELSE current' = Built(reloading.ca, disk.crl) /\ loaded' = Built(disk.ca, disk.crl)
    /\ UNCHANGED <<policy, disk, events, ticket, conn, got>>

\* Then the CRLs; the verifier is swapped when what was read differs from what is loaded, and
\* stays when it does not load.
FinishReload ==
    /\ reloading # NoReload
    /\ reloading' = NoReload
    /\ LET new == Built(reloading.ca, disk.crl)
       IN IF reloading.ca = {} \/ loaded = new THEN UNCHANGED <<current, loaded>>
          ELSE current' = new /\ loaded' = new
    /\ UNCHANGED <<policy, disk, events, ticket, conn, got>>

----------------------------------------------------------------------------
(* A connection. *)

NoConn == [from |-> "nobody", cert |-> NoCert]
NoGot == [for |-> "nobody", cert |-> NoCert, result |-> "none", app |-> "none", principal |-> <<>>,
          open |-> FALSE, done |-> FALSE]

\* tls.rs turns resumption off while client certificates are verified.
Resumable == policy.mode = "off"

\* A full handshake: the certificate verifies, or none is presented where none is required.
Handshake ==
    /\ conn = NoConn
    /\ \E h \in Clients \cup {Balancer}, c \in Certs \cup {NoCert} :
         /\ c = NoCert \/ c.of = h
         /\ CASE policy.mode = "off" -> c = NoCert
              [] policy.mode = "optional" -> c = NoCert \/ Verifies(c)
              [] policy.mode = "required" -> c # NoCert /\ Verifies(c)
         /\ conn' = [from |-> h, cert |-> c]
         /\ ticket' = IF c = NoCert THEN ticket ELSE c
    /\ UNCHANGED <<policy, disk, events, reloading, current, loaded, got>>

Resume ==
    /\ conn = NoConn /\ Resumable
    /\ \E c \in {ticket, NoCert}, h \in Clients \cup {Balancer} :
         c.of \in {"nobody", h} /\ conn' = [from |-> h, cert |-> c]
    /\ UNCHANGED <<policy, disk, events, reloading, current, loaded, ticket, got>>

Disconnect ==
    /\ conn # NoConn
    /\ conn' = NoConn /\ got' = NoGot
    /\ UNCHANGED <<policy, disk, events, reloading, current, loaded, ticket>>

----------------------------------------------------------------------------
(* The header. *)

\* A header value is a sequence of elements (one, but in XFCC): a certificate with its chain, only the
\* names of one, or nothing readable; an element can leave a double quote open.
Element(c, as, open) == [cert |-> c, as |-> as, open |-> open]
Garbage(open) == Element(NoCert, "garbage", open)
Elements == {Element(c, as, open) : c \in Certs, as \in {"chain", "names"}, open \in BOOLEAN}
            \cup {Garbage(open) : open \in BOOLEAN}

\* The balancer speaks for a client that it authenticated, or for one without a certificate; what the
\* client wrote is gone but in XFCC, where the balancer's element comes last, its own quotes closed.
Forwards(written, c) ==
    IF policy.format = "xfcc"
    THEN {<<written \o <<Element(c, as, FALSE)>>>> : as \in {"chain", "names"}}
    ELSE LET own == <<Element(c, "chain", FALSE)>>
         IN {<<own>>} \cup {<<w, own>> : w \in {written} \ {<<>>}}

\* What a client may write: nothing, a value, or the same value twice.
AnyValues == {<<>>} \cup UNION {{<<<<e>>>>, <<<<e>>, <<e>>>>} : e \in Elements}

Matches(pattern, name) == IsPrefix(pattern.text, name) /\ (pattern.prefix \/ pattern.text = name)
AnyName(c, patterns) == {i \in DOMAIN c.names : \E p \in patterns : Matches(p, c.names[i])}

\* TrustedHeader::trusts: by address and by name, each where it is set.
HopTrusted ==
    /\ policy.header
    /\ policy.proxies = {} \/ conn.from \in policy.proxies
    /\ policy.names = {} \/ AnyName(conn.cert, policy.names) # {}

\* split_quoted: a comma separates where no quote is open, so the elements up to the end that no
\* separator stands before are one with the element they follow.
Quoted(v, i) == Cardinality({j \in 1..(i - 1) : v[j].open}) % 2 = 1
LastPieces(v) == {j \in DOMAIN v : \A i \in (j + 1)..Len(v) : Quoted(v, i)}

\* xfcc reads the last element.  Where that is made of several, what is read comes from any of them, as
\* their own quotes fall, or is nothing readable.
ReadElements(v) ==
    {v[j] : j \in LastPieces(v)} \cup {e \in {Garbage(TRUE)} : LastPieces(v) # {Len(v)}}

Refuse(why) == [cert |-> NoCert, result |-> why]

ReadElement(e) ==
    IF e.as = "garbage" \/ (e.as = "names" /\ policy.format # "xfcc") THEN Refuse("invalid")
    ELSE IF policy.verify /\ (e.as = "names" \/ ~Verifies(e.cert)) THEN Refuse("unverified")
    ELSE [cert |-> e.cert, result |-> "accepted"]

\* TrustedHeader::read
ReadHeader(values) ==
    IF Len(values) > 1 THEN {Refuse("invalid")} ELSE {ReadElement(e) : e \in ReadElements(values[1])}

\* Mutant: the hop's own certificate stays unless the header brought one.
ApplyKeeps(values) ==
    IF ~policy.header \/ values = <<>> THEN {[cert |-> conn.cert, result |-> "none"]}
    ELSE IF ~HopTrusted THEN {[cert |-> conn.cert, result |-> "untrusted_peer"]}
    ELSE {IF r.result = "accepted" THEN r ELSE [r EXCEPT !.cert = conn.cert] : r \in ReadHeader(values)}

\* TrustedHeader::apply: from a trusted hop the request has the header's certificate or none.
Apply(values) ==
    IF ~policy.header THEN {[cert |-> conn.cert, result |-> "none"]}
    ELSE IF HopTrusted THEN IF values = <<>> THEN {Refuse("none")} ELSE ReadHeader(values)
    ELSE {[cert |-> conn.cert, result |-> IF values = <<>> THEN "none" ELSE "untrusted_peer"]}

\* An XFCC that is read has an element that leaves a quote open.
LeftOpen(values) ==
    /\ policy.format = "xfcc" /\ HopTrusted
    /\ \E i \in DOMAIN values : \E j \in DOMAIN values[i] : values[i][j].open

----------------------------------------------------------------------------
(* What the app sees, and the principal. *)

\* ForwardPolicy::from_cfg
Strips == policy.mode # "off" \/ policy.header
PolicyOk(p) == p.forward => p.mode # "off" \/ p.header

\* TrustedHeader::from_cfg, and the runtime's check of it: somebody is named, not everybody, and a hop
\* can only be known by a certificate that the listener asks for.
HeaderOk(p) ==
    p.header => /\ p.proxies # {} \/ p.names # {}
                /\ ~\E n \in p.names : n.prefix /\ n.text = <<>>
                /\ p.names # {} => p.mode # "off"

\* X-Forwarded-Client-Cert on the way to the app.
SeenByApp(c, own) == IF policy.forward /\ c # NoCert THEN c.of ELSE IF Strips THEN "none" ELSE own

\* principal: the first allowed name, or the first name or the fingerprint when all are; empty when
\* the request is denied.
Principal(c) ==
    LET ok == IF policy.allowed = {} THEN DOMAIN c.names ELSE AnyName(c, policy.allowed)
    IN IF c = NoCert THEN <<>>
       ELSE IF ok # {} THEN c.names[CHOOSE i \in ok : \A j \in ok : i <= j]
       ELSE IF policy.allowed = {} THEN <<"sha256", c.of>> ELSE <<>>

\* What arrives in the header with a request of k's: from the client itself, or from the balancer.
Arriving(k) ==
    IF conn.from = Balancer
    THEN {<<>>} \cup UNION {Forwards(written, c) : written \in {<<>>} \cup {<<e>> : e \in Elements},
                                                   c \in {d \in Certs : d.of = k}}
    ELSE IF k = conn.from THEN AnyValues ELSE {}

\* A request, with a client's own XFCC or without.
ServeRequest ==
    /\ conn # NoConn /\ ~got.done
    /\ \E k \in Clients, own \in {"none", "own"} :
         \E values \in Arriving(k) : \E a \in Apply(values) :
             got' = [for |-> k, cert |-> a.cert, result |-> a.result, app |-> SeenByApp(a.cert, own),
                     principal |-> Principal(a.cert), open |-> LeftOpen(values), done |-> TRUE]
    /\ UNCHANGED <<policy, disk, events, reloading, current, loaded, ticket, conn>>

CertsInit ==
    /\ policy \in {p \in CertPolicies : PolicyOk(p) /\ HeaderOk(p)}
    /\ \E ca \in Bundles \ {{}}, crl \in Crls :
         disk = [ca |-> ca, crl |-> crl, writes |-> 0] /\ current = Built(ca, crl)
    /\ loaded = current /\ events = FALSE /\ reloading = NoReload
    /\ ticket = NoCert /\ conn = NoConn /\ got = NoGot

Reloads == Settled \/ FinishReload

CertsNext ==
    \/ Replace \/ Hourly \/ Reloads
    \/ Handshake \/ Resume \/ Disconnect \/ ServeRequest

CertsSpec == CertsInit /\ [][CertsNext]_certVars /\ WF_certVars(Reloads)

----------------------------------------------------------------------------
(* Properties. *)

\* The settings are the deployment's: the header is the balancer's, which is the only one that
\* trusted_proxies and trusted_proxy_names match.
CertsDeployed ==
    /\ conn.from = Balancer => policy.header
    /\ policy.proxies \subseteq {Balancer}
    /\ \A c \in Certs : AnyName(c, policy.names) # {} <=> policy.names # {} /\ c.of = Balancer

\* A request's certificate is its client's own, never the balancer's, and never one that a client wrote
\* into the header; and so is the principal.  In Envoy's format that is so while the quotes of the value
\* that the balancer appends to are closed: the last element is the balancer's own only then.
CertIsTheClients ==
    (got.done /\ CertsDeployed /\ ~got.open) =>
        /\ got.cert # NoCert => got.cert.of = got.for
        /\ got.principal # <<>> => \E c \in Certs : c.of = got.for /\ got.principal = Principal(c)

\* While client certificates are on, the app reads of no certificate but the client's own (with the
\* same condition on an appended XFCC): what the client wrote into X-Forwarded-Client-Cert is gone
\* whether or not the edge writes one.
AppSeesTheClient ==
    (got.done /\ CertsDeployed /\ Strips /\ ~got.open) => got.app \in {"none", got.for}

\* A new connection's certificate passes the verifier in force: a certificate revoked by a CRL that is
\* loaded does not come back on a session from before.
RevokedStaysOut == [][conn' # conn => conn'.cert = NoCert \/ Verifies(conn'.cert)]_certVars

\* Once the files are at rest and load, the verifier is built from them, whenever they were replaced:
\* between the reading of one and of the other too.
ReloadCatchesUp == <>[](disk.ca # {} => current = Built(disk.ca, disk.crl))

\* The certificate that the edge and the app act on is the client's own, whoever wrote a header, unless
\* the balancer appended to an XFCC with a quote left open.
CertificateIsTheClients == CertIsTheClients /\ AppSeesTheClient
=============================================================================
