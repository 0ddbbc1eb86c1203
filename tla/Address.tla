------------------------------ MODULE Address ------------------------------
(***************************************************************************)
(* Which address a request is served as: the PROXY protocol header of a    *)
(* connection (src/proxy_protocol.rs), X-Forwarded-For with the trusted    *)
(* forwarders (src/proxy.rs, Forwarders) and the [access] lists            *)
(* (src/access.rs).                                                        *)
(*                                                                         *)
(* A request travels from a client through hosts to the edge.  The client  *)
(* writes what it likes; an HTTP proxy on the way appends the address it   *)
(* accepted the connection from, an L4 balancer puts a PROXY header in     *)
(* front and passes the rest through.                                      *)
(***************************************************************************)
EXTENDS Naturals, Sequences, SequencesExt, FiniteSets

CONSTANTS Hosts,        \* the hosts: [role : {"client", "proxy", "balancer"}, at : an address]
          Servers,     \* the [server] and [access] settings of a behaviour
          Width,        \* the bits of an address
          Written,      \* the X-Forwarded-For lists a client may write
          Openings,     \* the PROXY headers a client may open its connection with
          MaxPath,      \* the hosts between a client and the edge
          MaxHops,      \* MAX_FORWARDED_HOPS
          MaxWalk,      \* MAX_FORWARDED_WALK
          MaxV1,        \* V1_MAX, in tokens
          MaxV2         \* V2_MAX, in tokens of length

\* An address, or in a header what is none.
Addresses == [fam : {"v4", "v6", "mapped", "junk"}, n : Nat]

\* A header of either version fits its limit.
ASSUME AddressAssumption ==
    /\ Width \in Nat /\ MaxPath \in Nat /\ MaxHops \in Nat \ {0} /\ MaxWalk \in Nat \ {0}
    /\ MaxV1 \in Nat /\ MaxV1 >= 4 /\ MaxV2 \in Nat \ {0}
    /\ \A h \in Hosts : h.role \in {"client", "proxy", "balancer"} /\ h.at \in Addresses /\ h.at.fam # "junk"
    /\ Written \subseteq Seq(Addresses)

\* A v2 signature comes with the rest of its fixed part.
IsOpening(o) ==
    /\ o \in Seq({o[i] : i \in DOMAIN o})
    /\ (o # <<>> /\ o[1].is = "SIG") => Len(o) > 1 /\ o[2].len \in Nat

ASSUME OpeningsAssumption == \A o \in Openings : IsOpening(o)

VARIABLES server,  \* the settings, compiled
          stage,   \* where the request is
          path,    \* the hosts it came through, the client first
          wire,    \* what the last host sends: its first bytes (as they were sent, and unread), and X-Forwarded-For
          read,    \* what read_header has read of the first bytes
          result   \* the outcome of the PROXY stage, the connection's client, the request's, and the verdict

addressVars == <<server, stage, path, wire, read, result>>

----------------------------------------------------------------------------
(* Addresses and CIDR ranges. *)

\* An IPv4 address may arrive as an IPv6 one, from a dual-stack socket or in a header.
Canonical(a) == IF a.fam = "mapped" THEN [a EXCEPT !.fam = "v4"] ELSE a

\* The high prefix bits: what base & mask keeps.
Network(n, prefix) == n \div 2^(Width - prefix)

IsEverything(c) == c.prefix = 0

Covers(c, a) == c.fam = a.fam /\ Network(c.base, c.prefix) = Network(a.n, c.prefix)

Overlaps(c, d) ==
    LET p == IF c.prefix < d.prefix THEN c.prefix ELSE d.prefix
    IN c.fam = d.fam /\ Network(c.base, p) = Network(d.base, p)

In(list, a) == \E c \in list : Covers(c, a)

----------------------------------------------------------------------------
(* Servers.  What from_cfg refuses never starts. *)

\* ProxyProtocol::from_cfg
ProxyProtocolOk(s) == s.pp => s.balancers # {} /\ ~\E c \in s.balancers : IsEverything(c)

\* Forwarders::from_cfg
ForwardersOk(s) ==
    /\ s.auto \/ s.hops \in 1..MaxHops
    /\ ~\E c \in s.list : IsEverything(c)
    /\ s.list # {} => s.trust
    /\ s.auto => s.list # {}

----------------------------------------------------------------------------
(* The PROXY header. *)

Nowhere == [fam |-> "junk", n |-> 0]  \* what is no address

\* Header: what a connection started with.
NoHeader == [is |-> "none", of |-> Nowhere]
Local == [is |-> "local", of |-> Nowhere]
Proxy(a) == [is |-> "proxy", of |-> a]
Invalid == [is |-> "invalid", of |-> Nowhere]

Need == [is |-> "need", header |-> NoHeader, used |-> 0]
NotProxy == [is |-> "not_proxy", header |-> NoHeader, used |-> 0]
Done(header, used) == [is |-> "done", header |-> header, used |-> used]

LineEnd(buf) == SelectInSeq(buf, LAMBDA t : t.is = "CRLF")

\* A v1 line: its fields as one token, then CRLF.  The claimed family has to be the address's.
ParseV1(buf) ==
    LET end == LineEnd(buf)
        line == buf[3]
        ipv4 == line.of.fam = "v4"
    IN IF end = 0 THEN IF Len(buf) >= MaxV1 THEN Done(Invalid, Len(buf)) ELSE Need
       ELSE IF end > MaxV1 THEN Done(Invalid, end)
       ELSE Done(CASE line.is = "UNKNOWN" -> Local
                   [] line.is \in {"TCP4", "TCP6"} /\ end = 4 /\ line.of # Nowhere /\ ipv4 = (line.is = "TCP4") ->
                        Proxy(line.of)
                   [] OTHER -> Invalid, end)

\* A v2 header: the signature, a token with command, family and length, then the addresses.
ParseV2(buf) ==
    LET h == buf[2]
        used == 2 + h.len
    IN IF h.len > MaxV2 THEN Done(Invalid, Len(buf))
       ELSE IF Len(buf) < used THEN Need
       ELSE Done(CASE h.is = "LOCAL" -> Local
                   [] h.is = "PROXY" /\ h.family = "inet" /\ h.len > 0 -> Proxy(buf[3].of)
                   [] h.is = "PROXY" /\ h.family \in {"unspec", "unix"} -> Local
                   [] OTHER -> Invalid, used)

Parse(buf) ==
    IF buf = <<>> THEN Need
    ELSE IF buf[1].is = "SIG" THEN IF Len(buf) < 2 THEN Need ELSE ParseV2(buf)
    ELSE IF buf[1].is = "P" THEN IF Len(buf) < 2 THEN Need ELSE IF buf[2].is = "ROXY" THEN ParseV1(buf) ELSE NotProxy
    ELSE NotProxy

\* ProxyProtocol::accept, of a header that has been read.
Trusts(a) == In(server.balancers, Canonical(a))

Outcome(header, peer) ==
    CASE header = NoHeader -> [is |-> IF Trusts(peer) /\ server.expect THEN "missing" ELSE "direct", client |-> peer]
      [] header # NoHeader /\ ~Trusts(peer) -> [is |-> "untrusted", client |-> peer]
      [] header = Invalid /\ Trusts(peer) -> [is |-> "invalid", client |-> peer]
      [] header = Local /\ Trusts(peer) -> [is |-> "local", client |-> peer]
      [] OTHER -> [is |-> "proxied", client |-> header.of]

Serves(o) == o \in {"proxied", "local", "missing", "direct"}

----------------------------------------------------------------------------
(* X-Forwarded-For. *)

Fallback(peer, why) == [ip |-> Canonical(peer), result |-> why]
Used(a) == [ip |-> Canonical(a), result |-> "used"]

Listed(a) == In(server.list, Canonical(a))
Believes(hop) == server.trust /\ (server.list = {} \/ Listed(hop))

\* The entry hops from the right; what stands left of it is never looked at.
Nth(xff, peer, hops) ==
    LET n == IF hops > MaxHops THEN MaxHops ELSE hops
    IN IF Len(xff) < n THEN Fallback(peer, "short")
       ELSE IF xff[Len(xff) - n + 1] = Nowhere THEN Fallback(peer, "invalid")
       ELSE Used(xff[Len(xff) - n + 1])

\* Mutant: the walk starts with the first entry.
WalkFromLeft(xff, peer) ==
    LET stop == SelectInSeq(xff, LAMBDA e : e = Nowhere \/ ~Listed(e))
    IN IF xff = <<>> THEN Fallback(peer, "short")
       ELSE IF stop = 0 THEN Used(xff[1])
       ELSE IF xff[stop] = Nowhere THEN Fallback(peer, "invalid") ELSE Used(xff[stop])

\* The last entry that is not of a listed proxy.
LastUnlisted(xff) == SelectLastInSeq(xff, LAMBDA e : e = Nowhere \/ ~Listed(e))

\* forwarded_hops = "auto": from the right past the listed entries.
Walk(xff, peer) ==
    LET stop == LastUnlisted(xff)
        walked == Len(xff) - stop
    IN IF xff = <<>> THEN Fallback(peer, "short")
       ELSE IF walked >= MaxWalk /\ Len(xff) > MaxWalk THEN Fallback(peer, "invalid")
       ELSE IF stop = 0 THEN Used(xff[1])
       ELSE IF xff[stop] = Nowhere THEN Fallback(peer, "invalid")
       ELSE Used(xff[stop])

\* Forwarders::resolve: hop is the TCP peer, which wrote the header; peer the connection's client.
Resolve(xff, peer, hop) ==
    IF ~server.trust THEN Fallback(peer, "off")
    ELSE IF ~Believes(hop) THEN Fallback(peer, IF xff.lines > 0 THEN "untrusted_peer" ELSE "absent")
    ELSE IF xff.lines = 0 THEN Fallback(peer, "absent")
    ELSE IF server.auto THEN Walk(xff.entries, peer) ELSE Nth(xff.entries, peer, server.hops)

----------------------------------------------------------------------------
(* [access] *)

Allowed(a) == ~In(server.deny, a) /\ (server.allow = {} \/ In(server.allow, a))

----------------------------------------------------------------------------
(* The journey. *)

Peer == path[Len(path)]

NoResult == [outcome |-> "none", client |-> Nowhere, ip |-> Nowhere, how |-> "none", verdict |-> "none"]

AddressInit ==
    /\ server \in {s \in Servers : ProxyProtocolOk(s) /\ ForwardersOk(s)}
    /\ stage = "start" /\ path = <<>>
    /\ wire = [sent |-> <<>>, bytes |-> <<>>, xff |-> [lines |-> 0, entries |-> <<>>]]
    /\ read = <<>> /\ result = NoResult

Token(is) == [is |-> is, of |-> Nowhere]
Payload == {<<Token("x")>>, <<Token("P"), Token("x")>>}  \* a request or a ClientHello; POST begins like PROXY

\* A client opens a connection with a header or none, and writes any X-Forwarded-For.
Sends ==
    /\ stage = "start"
    /\ \E h \in Hosts, opening \in Openings, p \in Payload, xff \in Written :
         /\ h.role = "client"
         /\ path' = <<h>>
         /\ wire' = [sent |-> <<>>, bytes |-> opening \o p, xff |-> [lines |-> IF xff = <<>> THEN 0 ELSE 1, entries |-> xff]]
    /\ stage' = "way"
    /\ UNCHANGED <<server, read, result>>

\* An HTTP proxy: a connection of its own, and the address it was called from appended.
ThroughProxy ==
    /\ stage = "way" /\ Len(path) <= MaxPath
    /\ \E h \in Hosts, p \in Payload :
         /\ h.role = "proxy"
         /\ path' = Append(path, h)
         /\ wire' = [sent |-> <<>>, bytes |-> p, xff |-> [lines |-> 1, entries |-> Append(wire.xff.entries, Peer.at)]]
    /\ UNCHANGED <<server, stage, read, result>>

\* An L4 balancer: what it is sent goes through behind a header that names where it came from.
BalancerHeaders(a) ==
    {<<Token("P"), Token("ROXY"), [is |-> IF a.fam = "v4" THEN "TCP4" ELSE "TCP6", of |-> a], Token("CRLF")>>,
     <<Token("SIG"), [is |-> "PROXY", of |-> Nowhere, family |-> "inet", len |-> 1], [is |-> "addresses", of |-> a]>>}

ThroughBalancer ==
    /\ stage = "way" /\ Len(path) <= MaxPath /\ Peer.role # "balancer"
    /\ \E h \in Hosts, header \in BalancerHeaders(Peer.at) :
         /\ h.role = "balancer"
         /\ path' = Append(path, h)
         /\ wire' = [wire EXCEPT !.bytes = header \o @]
    /\ UNCHANGED <<server, stage, read, result>>

\* The edge accepts the connection.
Arrive ==
    /\ stage = "way"
    /\ stage' = IF server.pp THEN "header" ELSE "request"
    /\ result' = [result EXCEPT !.client = Peer.at, !.outcome = "off"]
    /\ wire' = [wire EXCEPT !.sent = wire.bytes]
    /\ UNCHANGED <<server, path, read>>

\* read_header: as much as the next read returns, until what was read decides.
ReadMore ==
    /\ stage = "header" /\ Parse(read).is = "need"
    /\ \E n \in 1..Len(wire.bytes) :
         /\ read' = read \o SubSeq(wire.bytes, 1, n)
         /\ wire' = [wire EXCEPT !.bytes = SubSeq(@, n + 1, Len(@))]
    /\ UNCHANGED <<server, stage, path, result>>

\* The peer closes: inside a header that is an invalid one, before any byte there was none.
ClosesEarly ==
    /\ stage = "header" /\ Parse(read).is = "need"
    /\ LET o == Outcome(IF read = <<>> THEN NoHeader ELSE Invalid, Peer.at)
       IN result' = [result EXCEPT !.outcome = o.is]
    /\ stage' = "closed"
    /\ UNCHANGED <<server, path, wire, read>>

\* What was read past the header goes back in front of what is unread.
Rest(p) == SubSeq(read, p.used + 1, Len(read))

HeaderRead ==
    /\ stage = "header" /\ Parse(read).is # "need"
    /\ LET p == Parse(read)
           o == Outcome(IF p.is = "not_proxy" THEN NoHeader ELSE p.header, Peer.at)
       IN /\ result' = [result EXCEPT !.outcome = o.is, !.client = o.client]
          /\ stage' = IF Serves(o.is) THEN "request" ELSE "refused"
          /\ wire' = [wire EXCEPT !.bytes = IF Serves(o.is) THEN Rest(p) \o @ ELSE @]
    /\ UNCHANGED <<server, path, read>>

\* hyper takes a request; bytes that are none end the connection.  handle resolves the client once
\* and everything after it uses that address.
TakeRequest ==
    /\ stage = "request"
    /\ IF wire.bytes \in Payload
       THEN LET r == Resolve(wire.xff, result.client, Peer.at)
            IN /\ result' = [result EXCEPT !.ip = r.ip, !.how = r.result,
                                           !.verdict = IF Allowed(r.ip) THEN "allowed" ELSE "denied"]
               /\ stage' = "answered"
       ELSE stage' = "closed" /\ UNCHANGED result
    /\ UNCHANGED <<server, path, wire, read>>

AddressNext ==
    \/ Sends \/ ThroughProxy \/ ThroughBalancer \/ Arrive
    \/ ReadMore \/ ClosesEarly \/ HeaderRead \/ TakeRequest

AddressSpec == AddressInit /\ [][AddressNext]_addressVars

----------------------------------------------------------------------------
(* Properties. *)

\* The settings are the deployment's: headers are believed from proxies only, and a balancer, which
\* passes X-Forwarded-For through as it came, is no forwarder (doctor.rs flags the overlap).
AddressDeployed ==
    /\ server.trust => server.list # {}
    /\ \A h \in Hosts : /\ In(server.list, Canonical(h.at)) => h.role = "proxy"
                        /\ In(server.balancers, Canonical(h.at)) <=> h.role = "balancer"

\* How many proxies of the list end the path; forwarded_hops counts them, or is "auto".
Proxies == CHOOSE n \in 0..(Len(path) - 1) :
    /\ \A i \in (Len(path) - n + 1)..Len(path) : Listed(path[i].at)
    /\ ~Listed(path[Len(path) - n].at)

Counted ==
    /\ stage = "answered" /\ AddressDeployed
    /\ Proxies \in IF server.auto THEN 0..MaxWalk ELSE {0, server.hops}

\* The host behind them; behind a balancer whose header was read, the one the balancer accepted from.
TrueClient == IF server.pp /\ Peer.role = "balancer" THEN path[Len(path) - 1] ELSE path[Len(path) - Proxies]

\* A request is served as the client that sent it to the first of the trusted proxies, whatever that
\* client wrote into X-Forwarded-For or in front of its connection, and never as an address it chose.
ServedAsItsClient == Counted => result.ip = Canonical(TrueClient.at)

\* So a client that [access] denies stays out behind any number of proxies, in whatever form its
\* address shows up, and when allow names it as well.
DeniedStaysOut == Counted /\ In(server.deny, Canonical(TrueClient.at)) => result.verdict = "denied"

\* However the bytes are cut into reads, the PROXY stage decides what the whole would, and the request
\* behind the header comes through to its last byte.
ReadsDoNotMatter ==
    (stage \in {"request", "refused", "answered"} /\ server.pp) =>
        LET p == Parse(wire.sent)
            o == Outcome(IF p.is = "not_proxy" THEN NoHeader ELSE p.header, Peer.at)
        IN /\ result.outcome = o.is /\ result.client = o.client
           /\ Serves(o.is) => wire.bytes = SubSeq(wire.sent, p.used + 1, Len(wire.sent))

\* The address is the client's: whatever it wrote, whatever the pieces its bytes came in, and so a
\* denied client stays out.
AddressIsTheClients == ServedAsItsClient /\ DeniedStaysOut /\ ReadsDoNotMatter
=============================================================================
