-------------------------------- MODULE Jwks --------------------------------
(***************************************************************************)
(* OidcVerifier (libs/common/sovereign/idp/oidc.py): threads that verify   *)
(* tokens against the identity provider's key set, through a discovery     *)
(* document and a JWKS cache that are refreshed outside the lock.  The key *)
(* set is its generation: the provider rotates by publishing the next one. *)
(* The PyJWT client keeps no key set of its own (its fetch_data is the     *)
(* verifier's _fetch_jwks_data), so it is not part of the state.           *)
(***************************************************************************)
EXTENDS Clock

CONSTANTS
    Verifiers,        \* threads that verify tokens
    CacheTtl,         \* cache_ttl: of the discovery document and, by default, the keys
    MaxAge,           \* Cache-Control max-age the provider sends; 0: none, or zero
    Grace,            \* stale_grace
    Latency,          \* bound: ticks from the provider's answer to its being stored,
                      \* the HTTP timeout and the thread's scheduling together
    MaxGeneration     \* bound: rotations

ASSUME JwksAssumption ==
    /\ CacheTtl \in Nat /\ MaxAge \subseteq Nat /\ Grace \in Nat /\ Latency \in Nat
    /\ MaxGeneration \in Nat \ {0}

VARIABLES
    published,    \* the provider: its current generation
    withdrawn,    \* history: when each generation was replaced
    discovery,    \* [loaded, uri, at]: uri, whether the document names a jwks_uri
    jwks,         \* [gen, at, ttl]; gen = 0 means no keys
    client,       \* _jwks_client: whether there is one
    verify,       \* per thread: [pc, build, gen, ttl, at]: build while the client is
                  \* being built; the keys it has fetched, and when
    outcome       \* [gen, at, error]: the key set the last verification used, and when;
                  \* gen = 0 and what was raised if the token was refused

jwksVars == <<published, withdrawn, discovery, jwks, client, verify, outcome>>

Generation == 1..MaxGeneration
Errors == {"none", "HTTPError", "ValueError", "RuntimeError"}
Waiting == [pc |-> "idle", build |-> FALSE, gen |-> 0, ttl |-> 0, at |-> 0]

JwksInit ==
    /\ published = 1
    /\ withdrawn = [g \in Generation |-> 0]
    /\ discovery = [loaded |-> FALSE, uri |-> FALSE, at |-> 0]
    /\ jwks = [gen |-> 0, at |-> 0, ttl |-> CacheTtl]
    /\ client = FALSE
    /\ verify = [t \in Verifiers |-> Waiting]
    /\ outcome = [gen |-> 0, at |-> 0, error |-> "none"]

At(t, pc) == verify[t].pc = pc
Move(t, pc) == verify' = [verify EXCEPT ![t].pc = pc]

\* The verification ends with a key set, or with the token refused.
Verified(t, g) ==
    /\ outcome' = [gen |-> g, at |-> now, error |-> "none"]
    /\ verify' = [verify EXCEPT ![t] = Waiting]

Raise(t, error) ==
    /\ outcome' = [gen |-> 0, at |-> 0, error |-> error]
    /\ verify' = [verify EXCEPT ![t] = Waiting]

publish ==
    /\ published < MaxGeneration
    /\ published' = published + 1
    /\ withdrawn' = [withdrawn EXCEPT ![published] = now]
    /\ UNCHANGED <<discovery, jwks, client, verify, outcome>>

-----------------------------------------------------------------------------
(* _get_jwks_client and the _get_discovery it and _fetch_jwks_data call.      *)

get_jwks_client(t) ==
    /\ At(t, "idle")
    /\ verify' = [verify EXCEPT ![t].pc = "lookup", ![t].build = ~client]
    /\ UNCHANGED <<published, withdrawn, discovery, jwks, client, outcome>>

\* With a document in hand, the client is built or the keys are looked up; one
\* without a jwks_uri is a RuntimeError in either place.
HasDocument(t, uri, built) ==
    /\ client' = IF verify[t].build /\ uri THEN TRUE ELSE built
    /\ IF uri
       THEN /\ verify' = [verify EXCEPT ![t].pc = IF verify[t].build THEN "lookup" ELSE "keys",
                                        ![t].build = FALSE]
            /\ UNCHANGED outcome
       ELSE Raise(t, "RuntimeError")

get_discovery(t) ==
    /\ At(t, "lookup")
    /\ IF discovery.loaded /\ now - discovery.at < CacheTtl
       THEN HasDocument(t, discovery.uri, client)
       ELSE Move(t, "discover") /\ UNCHANGED <<client, outcome>>
    /\ UNCHANGED <<published, withdrawn, discovery, jwks>>

\* A new document, whatever is in it, takes the place of the old one and drops
\* the client.
discovery_answers(t, uri) ==
    /\ At(t, "discover")
    /\ discovery' = [loaded |-> TRUE, uri |-> uri, at |-> now]
    /\ HasDocument(t, uri, FALSE)
    /\ UNCHANGED <<published, withdrawn, jwks>>

\* Mutant: the document is not kept.
discovery_forgotten(t) ==
    /\ At(t, "discover")
    /\ Raise(t, "HTTPError")
    /\ UNCHANGED <<published, withdrawn, discovery, jwks, client>>

\* httpx.HTTPError.  A document once loaded is kept for as long as the refresh
\* fails; without one the token is refused.
discovery_fails(t) ==
    /\ At(t, "discover")
    /\ IF discovery.loaded THEN HasDocument(t, discovery.uri, client)
                           ELSE Raise(t, "HTTPError") /\ UNCHANGED client
    /\ UNCHANGED <<published, withdrawn, discovery, jwks>>

\* A 200 whose body is not JSON: a ValueError, which nobody catches here.
discovery_garbled(t) ==
    /\ At(t, "discover")
    /\ Raise(t, "ValueError")
    /\ UNCHANGED <<published, withdrawn, discovery, jwks, client>>

-----------------------------------------------------------------------------
(* The rest of _fetch_jwks_data.                                             *)

cache_fresh == now - jwks.at < jwks.ttl

\* Mutant: the grace window never closes.
cache_kept_forever == TRUE

cache_stale_but_usable == now - jwks.at < jwks.ttl + Grace

keys_cached(t) ==
    /\ At(t, "keys") /\ jwks.gen # 0 /\ cache_fresh
    /\ Verified(t, jwks.gen)
    /\ UNCHANGED <<published, withdrawn, discovery, jwks, client>>

keys_fetch(t) ==
    /\ At(t, "keys") /\ ~(jwks.gen # 0 /\ cache_fresh)
    /\ Move(t, "fetch")
    /\ UNCHANGED <<published, withdrawn, discovery, jwks, client, outcome>>

\* max-age=0 is falsy: the default TTL applies.
response_ttl(age) == IF age = 0 THEN CacheTtl ELSE age

fetch_answers(t, age) ==
    /\ At(t, "fetch")
    /\ verify' = [verify EXCEPT ![t] = [pc |-> "store", build |-> FALSE, gen |-> published,
                                        ttl |-> response_ttl(age), at |-> now]]
    /\ UNCHANGED <<published, withdrawn, discovery, jwks, client, outcome>>

fetch_fails(t, error) ==
    /\ At(t, "fetch")
    /\ IF jwks.gen # 0 /\ cache_stale_but_usable THEN Verified(t, jwks.gen)
                                              ELSE Raise(t, error)
    /\ UNCHANGED <<published, withdrawn, discovery, jwks, client>>

\* Answers are stored in the order they arrive; the keys are dated when they are
\* stored.
fetch_stores(t) ==
    /\ At(t, "store")
    /\ jwks' = [gen |-> verify[t].gen, at |-> now, ttl |-> verify[t].ttl]
    /\ Verified(t, verify[t].gen)
    /\ UNCHANGED <<published, withdrawn, discovery, client>>

-----------------------------------------------------------------------------

jwksStep ==
    \/ publish
    \/ \E t \in Verifiers :
        \/ get_jwks_client(t) \/ get_discovery(t) \/ discovery_fails(t) \/ discovery_garbled(t)
        \/ \E uri \in BOOLEAN : discovery_answers(t, uri)
        \/ keys_cached(t) \/ keys_fetch(t) \/ fetch_stores(t)
        \/ \E error \in {"HTTPError", "ValueError"} : fetch_fails(t, error)
        \/ \E age \in MaxAge : fetch_answers(t, age)

\* Time does not pass an answer by more than Latency before it is stored.
JwksTick ==
    /\ \A t \in Verifiers : At(t, "store") => now < verify[t].at + Latency
    /\ Tick
    /\ UNCHANGED jwksVars

JwksNext == (jwksStep /\ UNCHANGED now) \/ JwksTick

JwksSpec == now = 0 /\ JwksInit /\ [][JwksNext]_<<now, jwksVars>>

-----------------------------------------------------------------------------
(* Properties.                                                               *)

\* Types of the verifier's state.
JwksTypeOK ==
    /\ published \in Generation
    /\ withdrawn \in [Generation -> Nat]
    /\ discovery \in [loaded : BOOLEAN, uri : BOOLEAN, at : Nat]
    /\ jwks \in [gen : 0..MaxGeneration, at : Nat, ttl : Nat]
    /\ client \in BOOLEAN
    /\ verify \in [Verifiers -> [pc : {"idle", "lookup", "discover", "keys", "fetch", "store"},
                                 build : BOOLEAN, gen : 0..MaxGeneration, ttl : Nat, at : Nat]]
    /\ outcome \in [gen : 0..MaxGeneration, at : Nat, error : Errors]

Ttls == {response_ttl(age) : age \in MaxAge} \cup {CacheTtl}

\* A token is never verified with keys the provider withdrew longer ago than one
\* TTL, the grace window and the latency of one fetch, whatever the order in
\* which concurrent fetches store their answers and however long the provider is
\* out of reach.
KeysNotTooOld ==
    outcome.gen # 0 =>
        \/ outcome.gen = published
        \/ \E ttl \in Ttls : outcome.at - withdrawn[outcome.gen] <= ttl + Grace + Latency

\* Thread t refuses its token; and the verifier has what it takes to verify one:
\* a discovery document, and keys within TTL and grace.
Refused(t) == verify[t] # Waiting /\ verify'[t] = Waiting /\ outcome'.gen = 0

HasKeys == discovery.loaded /\ jwks.gen # 0 /\ now - jwks.at < jwks.ttl + Grace

\* A verifier that has a discovery document and keys within TTL and grace refuses
\* a token for want of keys only because of what the provider says: a document
\* that is not JSON, or one without a jwks_uri.  No failing request, no lost race
\* with another thread's refresh and no expired document is a reason.
RefusedForAReason ==
    [][\A t \in Verifiers :
          Refused(t) /\ HasKeys =>
              \/ outcome'.error = "RuntimeError" /\ ~discovery'.uri
              \/ outcome'.error = "ValueError" /\ At(t, "discover")]_jwksVars

\* "on a fetch failure mid-cache the old keys keep working until they expire"
\* (oidc.py:10-11), taken to the letter.
OldKeysKeepWorking == [][\A t \in Verifiers : Refused(t) => ~HasKeys]_jwksVars
=============================================================================
