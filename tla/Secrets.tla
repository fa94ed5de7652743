------------------------------ MODULE Secrets -------------------------------
(***************************************************************************)
(* Managed secrets in one process: the secrets backend that rotates them,  *)
(* the process-wide provider (libs/common/sovereign/secrets.py) that caches*)
(* them for a TTL, the threads that read through it, and the rotation      *)
(* webhook (rotation.py), which runs refresh_managed_secrets on the event  *)
(* loop to re-resolve the Settings fields.  The value of a secret is its   *)
(* version: 1, 2, ... in the order of rotation.                            *)
(***************************************************************************)
EXTENDS Clock, Sequences, FiniteSets

CONSTANTS
    Threads,        \* threads that read secrets
    Names,          \* logical secret names
    FieldOrder,     \* the order of _MANAGED_SECRET_FIELDS
    Ttl,            \* SECRETS_TTL_SECONDS; 0: the backend is not wrapped
    MaxVersion,     \* bound: rotations of a secret
    Loop,           \* the event loop, as a reader
    NoProvider, Transient

Readers == Threads \cup {Loop}
Providers == Threads      \* a provider is named after the thread that built it

ASSUME SecretsAssumption ==
    /\ Ttl \in Nat /\ MaxVersion \in Nat \ {0}
    /\ FieldOrder \in Seq(Names) /\ FieldOrder # <<>>
    /\ Loop \notin Threads
    /\ NoProvider \notin Threads \cup {Transient} /\ Transient \notin Threads

VARIABLES
    backend,      \* the backend: the current version of every secret
    retired,      \* history: when each version was rotated away
    installed,    \* the module's _provider
    cache,        \* per provider, _cache: [at, val]; val = 0 means no entry
    reader,       \* per reader: [pc, prov, name, at, val]
    field,        \* Settings: the value of every managed field
    todo,         \* fields refresh_managed_secrets has still to resolve
    run,          \* history: this refresh: the versions current when it began,
                  \* whether no other get was about to store, what it resolved
    got           \* history: what the last get to return gave: [name, val, at]

secretsVars == <<backend, retired, installed, cache, reader, field, todo, run, got>>

Version == 1..MaxVersion
Empty == [at |-> 0, val |-> 0]
Resting(p) == [pc |-> "idle", prov |-> p, name |-> FieldOrder[1], at |-> 0, val |-> 0]

SecretsInit ==
    /\ backend = [n \in Names |-> 1]
    /\ retired = [n \in Names |-> [v \in Version |-> 0]]
    /\ installed = NoProvider
    /\ cache = [p \in Providers |-> [n \in Names |-> Empty]]
    /\ reader = [r \in Readers |-> Resting(NoProvider)]
    /\ field = [n \in Names |-> 1]
    /\ todo = <<>>
    /\ run = [began |-> backend, quiet |-> TRUE, resolved |-> {}]
    /\ got = [name |-> FieldOrder[1], val |-> 0, at |-> 0]

Rest(r) == reader' = [reader EXCEPT ![r] = Resting(@.prov)]

-----------------------------------------------------------------------------
(* The backend.                                                              *)

rotate(n) ==
    /\ backend[n] < MaxVersion
    /\ backend' = [backend EXCEPT ![n] = @ + 1]
    /\ retired' = [retired EXCEPT ![n][backend[n]] = now]
    /\ UNCHANGED <<installed, cache, reader, field, todo, run, got>>

-----------------------------------------------------------------------------
(* The process-wide provider: get_secrets_provider looks, builds outside the *)
(* lock, and looks again before it installs.                                 *)

get_secrets_provider(t) ==
    /\ reader[t].pc = "idle" /\ reader[t].prov = NoProvider
    /\ reader' = [reader EXCEPT ![t] = IF installed # NoProvider
                                       THEN [@ EXCEPT !.prov = installed]
                                       ELSE [@ EXCEPT !.pc = "built"]]
    /\ UNCHANGED <<backend, retired, installed, cache, field, todo, run, got>>

install_provider(t) ==
    /\ reader[t].pc = "built"
    /\ installed' = IF installed = NoProvider THEN t ELSE installed
    /\ reader' = [reader EXCEPT ![t] = [@ EXCEPT !.pc = "idle", !.prov = installed']]
    /\ UNCHANGED <<backend, retired, cache, field, todo, run, got>>

-----------------------------------------------------------------------------
(* RotatingSecretsProvider.get: the clock, the look-up under the lock, the    *)
(* backend's read outside it, the store under it.  A transient provider, built *)
(* for one call, has an empty cache.                                         *)

Entry(p, n) == IF p \in Providers THEN cache[p][n] ELSE Empty

Fresh(e, at) == e.val # 0 /\ at - e.at < Ttl

\* What get hands back, and for a refresh the setattr that follows it.
Return(r, n, v, at) ==
    /\ got' = [name |-> n, val |-> v, at |-> at]
    /\ field' = IF r = Loop THEN [field EXCEPT ![n] = v] ELSE field
    /\ todo' = IF r = Loop THEN Tail(todo) ELSE todo
    /\ run' = IF r = Loop THEN [run EXCEPT !.resolved = @ \cup {n}] ELSE run

\* The clock is read before the lock is taken.
get(r, n) ==
    /\ reader[r].pc = "idle" /\ reader[r].prov # NoProvider
    /\ r = Loop => todo # <<>> /\ n = Head(todo)
    /\ reader' = [reader EXCEPT ![r] = [@ EXCEPT !.pc = "look", !.name = n, !.at = now]]
    /\ UNCHANGED <<backend, retired, installed, cache, field, todo, run, got>>

get_hit(r) ==
    /\ reader[r].pc = "look"
    /\ LET e == Entry(reader[r].prov, reader[r].name)
       IN  Fresh(e, reader[r].at) /\ Return(r, reader[r].name, e.val, reader[r].at)
    /\ Rest(r)
    /\ UNCHANGED <<backend, retired, installed, cache>>

get_miss(r) ==
    /\ reader[r].pc = "look"
    /\ ~Fresh(Entry(reader[r].prov, reader[r].name), reader[r].at)
    /\ reader' = [reader EXCEPT ![r].pc = "read"]
    /\ UNCHANGED <<backend, retired, installed, cache, field, todo, run, got>>

backend_get(r) ==
    /\ reader[r].pc = "read"
    /\ reader' = [reader EXCEPT ![r] = [@ EXCEPT !.pc = "store",
                                                 !.val = backend[reader[r].name]]]
    /\ UNCHANGED <<backend, retired, installed, cache, field, todo, run, got>>

\* Any error of the backend is SecretNotFoundError; get_optional turns it into
\* no value, and the field keeps the one it has.
backend_get_fails(r) ==
    /\ reader[r].pc = "read"
    /\ Rest(r)
    /\ todo' = IF r = Loop THEN Tail(todo) ELSE todo
    /\ UNCHANGED <<backend, retired, installed, cache, field, run, got>>

\* Mutant: the entry is stamped when it is stored.
stamp_late(r) == now

\* The entry is stamped with the time get began, not with the time it ends.
stamp(r) == reader[r].at

get_store(r) ==
    /\ reader[r].pc = "store"
    /\ LET p == reader[r].prov
           n == reader[r].name
       IN  /\ cache' = IF p \in Providers
                       THEN [cache EXCEPT ![p][n] = [at |-> stamp(r), val |-> reader[r].val]]
                       ELSE cache
           /\ Return(r, n, reader[r].val, reader[r].at)
    /\ Rest(r)
    /\ UNCHANGED <<backend, retired, installed>>

-----------------------------------------------------------------------------
(* refresh_managed_secrets, on the event loop.                               *)

\* force_expire clears the installed provider's cache.
force_expire(p) == IF p \in Providers
                   THEN [cache EXCEPT ![p] = [n \in Names |-> Empty]]
                   ELSE cache

\* provider_for_settings: the installed provider, or one built for this call.
provider_for_settings == IF installed # NoProvider THEN installed ELSE Transient

refresh_managed_secrets ==
    /\ todo = <<>> /\ reader[Loop].pc = "idle"
    /\ reader' = [reader EXCEPT ![Loop].prov = NoProvider]
    /\ cache' = force_expire(provider_for_settings)
    /\ todo' = FieldOrder
    /\ run' = [began |-> backend, resolved |-> {},
               quiet |-> \A t \in Threads : reader[t].pc # "store"]
    /\ UNCHANGED <<backend, retired, installed, field, got>>

\* It asks for the provider again before it reads the fields.
resolve_managed_secrets ==
    /\ todo # <<>> /\ reader[Loop].prov = NoProvider
    /\ reader' = [reader EXCEPT ![Loop].prov = provider_for_settings]
    /\ UNCHANGED <<backend, retired, installed, cache, field, todo, run, got>>

-----------------------------------------------------------------------------

secretsStep ==
    \/ \E n \in Names : rotate(n)
    \/ \E t \in Threads : get_secrets_provider(t) \/ install_provider(t)
    \/ \E r \in Readers, n \in Names : get(r, n)
    \/ \E r \in Readers : \/ get_hit(r) \/ get_miss(r)
                           \/ backend_get(r) \/ backend_get_fails(r) \/ get_store(r)
    \/ refresh_managed_secrets \/ resolve_managed_secrets

SecretsNext == \/ secretsStep /\ UNCHANGED now
               \/ Tick /\ UNCHANGED secretsVars

SecretsSpec == now = 0 /\ SecretsInit /\ [][SecretsNext]_<<now, secretsVars>>

-----------------------------------------------------------------------------
(* Properties.                                                               *)

\* Types of the secrets component's state.
SecretsTypeOK ==
    /\ now \in Nat
    /\ backend \in [Names -> Version]
    /\ retired \in [Names -> [Version -> Nat]]
    /\ installed \in Providers \cup {NoProvider}
    /\ cache \in [Providers -> [Names -> [at : Nat, val : 0..MaxVersion]]]
    /\ reader \in [Readers -> [pc : {"idle", "built", "look", "read", "store"},
                               prov : Providers \cup {NoProvider, Transient},
                               name : Names, at : Nat, val : 0..MaxVersion]]
    /\ field \in [Names -> Version]
    /\ todo \in Seq(Names)
    /\ got \in [name : Names, val : 0..MaxVersion, at : Nat]

\* Version v of n was the backend's value at some moment at or after time x.
CurrentSince(n, v, x) == v = backend[n] \/ retired[n][v] >= x

\* "every service picks up the new one within one TTL without a restart"
\* (secrets.py:215): whatever a get returns, from the cache or the backend, was
\* the backend's value at some moment no more than one TTL before the get began,
\* however long the backend took and whoever stored the entry.
StaleByOneTtl ==
    got.val # 0 => CurrentSince(got.name, got.val, got.at - Ttl)

\* Two threads that race through get_secrets_provider end up with the same
\* provider, the installed one, so that a force_expire reaches every reader.
OneProvider ==
    \A t \in Threads : reader[t].prov # NoProvider => reader[t].prov = installed

\* A refresh that no other get straddles resolves every field to the value
\* current when it began or to a later one: "Expires the rotating provider's
\* cache first so the re-resolution reads fresh values" (settings.py:384).
RefreshIsFresh ==
    run.quiet => \A n \in run.resolved : field[n] >= run.began[n]

\* The same without the proviso, as the docstring has it.
RefreshAlwaysFresh == \A n \in run.resolved : field[n] >= run.began[n]
=============================================================================
