-------------------------------- MODULE Auth --------------------------------
(***************************************************************************)
(* The authentication gate (src/auth.rs): the modes that read a header,    *)
(* and the JWKS cache that JWT verification takes its keys from.           *)
(* auth.mode = "mtls" is ClientCerts' Principal.                           *)
(***************************************************************************)
EXTENDS Naturals, Sequences, FiniteSets

CONSTANTS Requests,     \* the requests of a behaviour
          Engines,      \* AuthEngine: [mode, users, keys], and for JWT [alg, jwks, static]
          Kids,         \* key ids; a key is [kid, gen], and "" is the id of a key without one
          FirstKeys,    \* what the issuer publishes at first
          CacheTtl,          \* jwks_cache_secs
          FetchLimit,   \* the HTTP client's timeout
          MaxTime, MaxRotations, \* bounds of a behaviour
          AuthHeaders,  \* the Authorization values, and
          KeyHeaders,   \* the values of the API key's header, that requests carry
          Tokens        \* the bearer tokens of JWT requests

Nobody == "nobody"

ASSUME AuthAssumption ==
    /\ CacheTtl \in Nat /\ FetchLimit \in Nat \ {0} /\ MaxTime \in Nat /\ MaxRotations \in Nat
    /\ FirstKeys \subseteq [kid : Kids, gen : {0}] /\ "none" \notin Kids
    /\ \A e \in Engines : /\ e.mode \in {"none", "basic", "apikey", "jwt"} /\ e.jwks \in BOOLEAN
                           /\ "none" \notin e.users \cup e.keys
    /\ AuthHeaders \subseteq Seq([scheme : STRING, value : STRING]) /\ KeyHeaders \subseteq Seq(STRING)
    /\ Nobody \notin Requests

VARIABLES engine,  \* the AuthEngine
          clock,     \* the clock
          issuer,  \* the keys the issuer publishes, when it withdrew the others, and the rotations so far
          cache,   \* JwksCache::inner, and whether a refresh has failed since it was filled
          writer,  \* who holds the write lock: a request, or Nobody
          reqs     \* the requests: where each is, what it carries, what was fetched for it, the decision

authVars == <<engine, clock, issuer, cache, writer, reqs>>

----------------------------------------------------------------------------
(* Reading the credentials. *)

Repeated(values) == Len(values) > 1

\* The key's header when it is there and readable, else a bearer value of Authorization.
KeyHeaderReadable(r) == r.key # <<>> /\ r.key[1] # "unreadable"

\* repeated_credential
RepeatedCredential(r) ==
    CASE engine.mode \in {"basic", "jwt"} -> Repeated(r.auth)
      [] engine.mode = "apikey" -> Repeated(r.key) \/ (~KeyHeaderReadable(r) /\ Repeated(r.auth))
      [] OTHER -> FALSE

\* The value of an Authorization header of one scheme; "none" when there is none.
Credential(r, scheme) == IF r.auth # <<>> /\ r.auth[1].scheme = scheme THEN r.auth[1].value ELSE "none"

\* verify_api_key and check_basic_auth.
ApiKey(r) == IF KeyHeaderReadable(r) THEN r.key[1] ELSE Credential(r, "Bearer")
Accepts(r) ==
    CASE engine.mode = "none" -> TRUE
      [] engine.mode = "basic" -> Credential(r, "Basic") \in engine.users
      [] engine.mode = "apikey" -> ApiKey(r) \in engine.keys
      [] OTHER -> FALSE

----------------------------------------------------------------------------
(* The JWKS cache. *)

NoToken == [alg |-> "none", kid |-> "none", key |-> [kid |-> "none", gen |-> 0], valid |-> FALSE]
NewRequest == [pc |-> "new", auth |-> <<>>, key |-> <<>>, token |-> NoToken, got |-> {}, left |-> 0,
          kept |-> TRUE, decision |-> "none", with |-> NoToken.key, at |-> 0, failed |-> FALSE]

\* select_key: by kid; without one the sole key, else the key without an id.
Select(keys, kid) ==
    IF kid # "none" THEN {k \in keys : k.kid = kid}
    ELSE IF Cardinality(keys) = 1 THEN keys ELSE {k \in keys : k.kid = ""}

Stale == clock - cache.at > CacheTtl

\* Mutant: a key that is cached is used however old it is.
CachedAtAnyAge(kid) == IF cache.filled THEN Select(cache.keys, kid) ELSE {}

\* lookup_fresh
Cached(kid) == IF cache.filled /\ ~Stale THEN Select(cache.keys, kid) ELSE {}

NeedsFetch(kid) == ~cache.filled \/ Stale \/ Select(cache.keys, kid) = {}

Becomes(r, changes) == reqs' = [reqs EXCEPT ![r] = changes]

\* verify_claims with the key found: the signature and the claims.
Verified(q, keys) ==
    [q EXCEPT !.pc = "decided", !.at = clock, !.left = 0, !.failed = cache.failed,
              !.with = IF keys = {} THEN NoToken.key ELSE CHOOSE k \in keys : TRUE,
              !.decision = IF q.token.key \in keys /\ q.token.valid THEN "allow" ELSE "deny"]

----------------------------------------------------------------------------
(* Actions. *)

\* authorize_with_cert, up to the JWKS.
Authorize(r) ==
    /\ reqs[r].pc = "new"
    /\ \E auth \in AuthHeaders, key \in IF engine.mode = "apikey" THEN KeyHeaders ELSE {<<>>}, token \in Tokens :
         LET q == [reqs[r] EXCEPT !.auth = auth, !.key = key, !.token = token]
             jwt == engine.mode = "jwt" /\ Credential(q, "Bearer") # "none"
         IN /\ Becomes(r, IF RepeatedCredential(q) \/ (engine.mode = "jwt" /\ ~jwt) \/ (jwt /\ token.alg # engine.alg)
                      THEN [q EXCEPT !.pc = "decided", !.decision = "deny"]
                      ELSE IF ~jwt THEN [q EXCEPT !.pc = "decided",
                                                  !.decision = IF Accepts(q) THEN "allow" ELSE "deny"]
                      ELSE IF ~engine.jwks THEN Verified(q, {engine.static})
                      ELSE [q EXCEPT !.pc = "lookup", !.kept = token.key \in issuer.keys])
            /\ jwt \/ token = NoToken
    /\ UNCHANGED <<engine, clock, issuer, cache, writer>>

\* The read lock waits for a writer.
Lookup(r) ==
    /\ reqs[r].pc = "lookup" /\ writer = Nobody
    /\ LET keys == Cached(reqs[r].token.kid)
       IN Becomes(r, IF keys # {} THEN Verified(reqs[r], keys) ELSE [reqs[r] EXCEPT !.pc = "lock"])
    /\ UNCHANGED <<engine, clock, issuer, cache, writer>>

\* The write lock, held over the fetch: who waited for it looks again.
Lock(r) ==
    /\ reqs[r].pc = "lock" /\ writer = Nobody
    /\ writer' = r
    /\ Becomes(r, IF NeedsFetch(reqs[r].token.kid) THEN [reqs[r] EXCEPT !.pc = "fetch", !.left = FetchLimit]
              ELSE [reqs[r] EXCEPT !.pc = "select"])
    /\ UNCHANGED <<engine, clock, issuer, cache>>

\* The issuer answers with the keys of this moment; the answer takes its time.
IssuerAnswers(r) ==
    /\ reqs[r].pc = "fetch" /\ issuer.keys # {}
    /\ Becomes(r, [reqs[r] EXCEPT !.pc = "answer", !.got = issuer.keys])
    /\ UNCHANGED <<engine, clock, issuer, cache, writer>>

Refill(r) ==
    /\ reqs[r].pc = "answer"
    /\ cache' = [filled |-> TRUE, at |-> clock, keys |-> reqs[r].got, failed |-> FALSE]
    /\ Becomes(r, [reqs[r] EXCEPT !.pc = "select", !.got = {}])
    /\ UNCHANGED <<engine, clock, issuer, writer>>

Selected(r) ==
    /\ reqs[r].pc = "select"
    /\ Becomes(r, Verified(reqs[r], Select(cache.keys, reqs[r].token.kid)))
    /\ writer' = Nobody
    /\ UNCHANGED <<engine, clock, issuer, cache>>

\* An error or the timeout: the cached keys are used on, or the request is denied.
FetchFails(r) ==
    /\ reqs[r].pc \in {"fetch", "answer"}
    /\ cache' = [cache EXCEPT !.failed = TRUE]
    /\ IF cache.filled
       THEN Becomes(r, [reqs[r] EXCEPT !.pc = "select", !.got = {}]) /\ UNCHANGED writer
       ELSE Becomes(r, [reqs[r] EXCEPT !.pc = "decided", !.decision = "deny", !.got = {}, !.left = 0, !.failed = TRUE])
            /\ writer' = Nobody
    /\ UNCHANGED <<engine, clock, issuer>>

\* The issuer publishes a new generation of a key, and withdraws keys.
Rotate ==
    /\ engine.jwks /\ issuer.rotations < MaxRotations
    /\ \E kid \in Kids, gone \in SUBSET issuer.keys :
         LET new == [kid |-> kid, gen |-> issuer.rotations + 1]
             keys == {k \in issuer.keys \ gone : k.kid # kid} \cup {new}
         IN /\ issuer' = [keys |-> keys, rotations |-> issuer.rotations + 1,
                          gone |-> [k \in DOMAIN issuer.gone \cup (issuer.keys \ keys) |->
                                       IF k \in DOMAIN issuer.gone THEN issuer.gone[k] ELSE clock]]
            /\ reqs' = [r \in Requests |-> [reqs[r] EXCEPT !.kept = @ /\ reqs[r].token.key \in keys]]
    /\ UNCHANGED <<engine, clock, cache, writer>>

AuthTime ==
    /\ engine.jwks /\ clock < MaxTime
    /\ \A r \in Requests : reqs[r].pc \in {"fetch", "answer"} => reqs[r].left > 0
    /\ \A r \in Requests : reqs[r].pc # "select" /\ ~(reqs[r].pc = "lookup" /\ writer = Nobody)
    /\ clock' = clock + 1
    /\ reqs' = [r \in Requests |-> IF reqs[r].pc \in {"fetch", "answer"} THEN [reqs[r] EXCEPT !.left = @ - 1]
                                   ELSE reqs[r]]
    /\ UNCHANGED <<engine, issuer, cache, writer>>

AuthInit ==
    /\ engine \in Engines
    /\ clock = 0 /\ writer = Nobody
    /\ issuer = [keys |-> FirstKeys, gone |-> <<>>, rotations |-> 0]
    /\ cache = [filled |-> FALSE, at |-> 0, keys |-> {}, failed |-> FALSE]
    /\ reqs = [r \in Requests |-> NewRequest]

Gate(r) == Lookup(r) \/ Lock(r) \/ Refill(r) \/ Selected(r) \/ FetchFails(r)

AuthNext ==
    \/ Rotate \/ AuthTime
    \/ \E r \in Requests : Authorize(r) \/ IssuerAnswers(r) \/ Gate(r)

\* tokio's lock is first come, first served, so nobody waits for it for ever.
AuthFair == \A r \in Requests : SF_authVars(Gate(r))

AuthSpec == AuthInit /\ [][AuthNext]_authVars /\ AuthFair

----------------------------------------------------------------------------
(* Properties. *)

\* An app behind the edge reads the very credential the edge has checked: of a request that passes,
\* the header it was taken from has no other value.
NoOtherCredential ==
    \A r \in Requests : reqs[r].decision = "allow" =>
        CASE engine.mode \in {"basic", "jwt"} -> Len(reqs[r].auth) = 1
          [] engine.mode = "apikey" -> /\ Len(reqs[r].key) <= 1
                                       /\ \/ \E i \in DOMAIN reqs[r].key : reqs[r].key[i] \in engine.keys
                                          \/ Len(reqs[r].auth) = 1
          [] OTHER -> TRUE

\* Requests that miss together wait for one fetch: nobody fetches what the last fetch has brought and
\* what is not too old.
OneFetchForAll ==
    \A r \in Requests : reqs[r].pc \in {"fetch", "answer"} =>
        \/ ~cache.filled
        \/ Select(cache.keys, reqs[r].token.kid) = {}
        \/ clock - (FetchLimit - reqs[r].left) - cache.at > CacheTtl

\* A key that the issuer has withdrawn lets nobody in once the cache and one fetch have run their time,
\* but while the issuer fails to answer.
WithdrawnKeyExpires ==
    \A r \in Requests : (engine.mode = "jwt" /\ engine.jwks /\ reqs[r].decision = "allow"
                            /\ reqs[r].with \in DOMAIN issuer.gone) =>
        reqs[r].at <= issuer.gone[reqs[r].with] + CacheTtl + FetchLimit \/ reqs[r].failed

\* A token signed with a published key is let in, newly rotated or not, unless a fetch fails: a key id
\* that the cache does not know is fetched at once.
PublishedKeyAccepted ==
    \A r \in Requests :
        LET q == reqs[r]
        IN (q.pc = "decided" /\ engine.mode = "jwt" /\ engine.jwks /\ q.decision = "deny"
              /\ ~Repeated(q.auth) /\ Credential(q, "Bearer") # "none" /\ q.token.alg = engine.alg) =>
              \/ ~q.token.valid \/ ~q.kept \/ q.failed
              \/ q.token.kid # q.token.key.kid     \* a token that does not name its key
              \/ q.with.gen # q.token.key.gen /\ q.with.kid = q.token.kid \* cached under the same id

\* Every request is decided, though the issuer never answers.
GateDecides == \A r \in Requests : reqs[r].pc = "lookup" ~> reqs[r].pc = "decided"

\* The gate lets in what the issuer stands behind and the app will read, and nothing else, with one
\* fetch for all that wait: neither rotation, withdrawal nor a failing issuer opens or shuts it beyond
\* its cache's time.
CredentialsChecked == NoOtherCredential /\ OneFetchForAll /\ WithdrawnKeyExpires /\ PublishedKeyAccepted
=============================================================================
