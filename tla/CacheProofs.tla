---------------------------- MODULE CacheProofs -----------------------------
(***************************************************************************)
(* How old a secret and a signing key may be, that readers share one       *)
(* provider, and that a refresh resolves fresh values, for any threads,    *)
(* secrets, TTLs and rotations.                                            *)
(***************************************************************************)
EXTENDS Secrets, Jwks, TLAPS

-----------------------------------------------------------------------------
(* The secrets provider (Secrets).                                         *)

\* An entry or a reader holds a value that was current no earlier than its stamp,
\* and no stamp lies ahead of the clock.
ValuesDated ==
    /\ \A p \in Providers, n \in Names :
         /\ cache[p][n].at <= now
         /\ cache[p][n].val # 0 => CurrentSince(n, cache[p][n].val, cache[p][n].at)
    /\ \A r \in Readers :
         /\ reader[r].at <= now
         /\ reader[r].pc = "store" =>
              /\ reader[r].val # 0
              /\ CurrentSince(reader[r].name, reader[r].val, reader[r].at)
    /\ got.at <= now

\* Only the installed provider is ever read through or stored to.
OneCache ==
    /\ reader[Loop].prov \in {NoProvider, Transient, installed}
    /\ \A p \in Providers, n \in Names : cache[p][n].val # 0 => p = installed

\* Since a refresh began that no get straddled, nothing older than what was current
\* then is cached or on its way into the cache.
NothingOlder ==
    /\ \A n \in Names : run.began[n] <= backend[n]
    /\ run.quiet =>
         /\ \A p \in Providers, n \in Names :
              cache[p][n].val # 0 => cache[p][n].val >= run.began[n]
         /\ \A r \in Readers : reader[r].pc = "store" => reader[r].val >= run.began[reader[r].name]

RunType == run \in [began : [Names -> Version], quiet : BOOLEAN, resolved : SUBSET Names]

SecretsTypes == SecretsTypeOK /\ RunType

ReaderType ==
    [Readers -> [pc : {"idle", "built", "look", "read", "store"},
                 prov : Providers \cup {NoProvider, Transient},
                 name : Names, at : Nat, val : 0..MaxVersion]]

USE DEF ReaderType

SecretsInv ==
    /\ SecretsTypes /\ ValuesDated /\ OneCache /\ NothingOlder
    /\ StaleByOneTtl /\ OneProvider /\ RefreshIsFresh

-----------------------------------------------------------------------------

\* What the proofs use of the constants.
LEMMA ConstantFacts ==
    /\ FieldOrder[1] \in Names
    /\ \A s \in Seq(Names) : Tail(s) \in Seq(Names)
    /\ Loop \in Readers /\ Threads \subseteq Readers
    /\ 1 \in Version /\ Version \subseteq Nat
  <1>1. FieldOrder[1] \in Names
    BY SecretsAssumption
  <1>2. ASSUME NEW s \in Seq(Names) PROVE Tail(s) \in Seq(Names)
    <2>1. CASE s = <<>>
      BY <2>1
    <2>2. CASE s # <<>>
      BY <2>2
    <2> QED BY <2>1, <2>2, Zenon
  <1>3. 1 \in Version /\ Version \subseteq Nat
    BY SecretsAssumption DEF Version
  <1> QED BY <1>1, <1>2, <1>3, Zenon DEF Readers

\* SecretsInit establishes the invariant.
LEMMA InitInv == now = 0 /\ SecretsInit => SecretsInv
  <1> SUFFICES ASSUME now = 0, SecretsInit PROVE SecretsInv
    BY Zenon
  <1> USE ConstantFacts, SecretsAssumption DEF SecretsInit
  <1>1. SecretsTypes
    BY DEF SecretsTypes, SecretsTypeOK, RunType, Empty, Resting
  <1>2. ValuesDated
    BY DEF ValuesDated, Empty, Resting
  <1>3. OneCache /\ OneProvider
    BY Zenon DEF OneCache, OneProvider, Empty, Resting
  <1>4. NothingOlder /\ RefreshIsFresh
    BY DEF NothingOlder, RefreshIsFresh, Empty, Resting
  <1>5. StaleByOneTtl
    BY Zenon DEF StaleByOneTtl
  <1> QED BY <1>1, <1>2, <1>3, <1>4, <1>5, Zenon DEF SecretsInv

\* A rotation dates the value it retires with the present: whatever was current since
\* a moment that is past stays so (rotate).
LEMMA RotateDates ==
    ASSUME SecretsTypes, NEW n \in Names, rotate(n),
           NEW m \in Names, NEW v \in Version, NEW x \in Int, x <= now, CurrentSince(m, v, x)
    PROVE  CurrentSince(m, v, x)'
  <1>1. /\ backend' = [backend EXCEPT ![n] = @ + 1]
        /\ retired' = [retired EXCEPT ![n][backend[n]] = now]
    BY Zenon DEF rotate
  <1>2. backend \in [Names -> Version] /\ retired \in [Names -> [Version -> Nat]] /\ now \in Nat
    BY Zenon DEF SecretsTypes, SecretsTypeOK
  <1>3. /\ m # n => backend'[m] = backend[m] /\ retired'[m] = retired[m]
        /\ retired'[n] = [retired[n] EXCEPT ![backend[n]] = now]
    BY <1>1, <1>2, Zenon
  <1>4. CASE m # n
    BY <1>3, <1>4, Zenon DEF CurrentSince
  <1>5. CASE m = n /\ v = backend[n]
    BY <1>2, <1>3, <1>5 DEF CurrentSince
  <1>6. CASE m = n /\ v # backend[n]
    BY <1>2, <1>3, <1>6, Zenon DEF CurrentSince
  <1> QED BY <1>4, <1>5, <1>6, Zenon

\* What is said of the types of the cache, the readers and the last answer.
LEMMA TypeFacts ==
    ASSUME SecretsTypes
    PROVE  /\ now \in Nat
           /\ \A n \in Names : backend[n] \in Version /\ run.began[n] \in Version
           /\ \A p \in Providers, n \in Names :
                cache[p][n].at \in Nat /\ cache[p][n].val \in 0..MaxVersion
           /\ \A r \in Readers : /\ reader[r].at \in Nat /\ reader[r].val \in 0..MaxVersion
                                 /\ reader[r].name \in Names
           /\ got.at \in Nat /\ got.val \in 0..MaxVersion /\ got.name \in Names
           /\ \A v \in 0..MaxVersion : v # 0 => v \in Version
  <1>1. /\ now \in Nat
        /\ backend \in [Names -> Version]
        /\ cache \in [Providers -> [Names -> [at : Nat, val : 0..MaxVersion]]]
        /\ reader \in ReaderType
        /\ got \in [name : Names, val : 0..MaxVersion, at : Nat]
        /\ run \in [began : [Names -> Version], quiet : BOOLEAN, resolved : SUBSET Names]
    BY Zenon DEF SecretsTypes, SecretsTypeOK, RunType
  <1>2. \A v \in 0..MaxVersion : v # 0 => v \in Version
    BY SecretsAssumption DEF Version
  <1> QED BY <1>1, <1>2

\* A rotation keeps the invariant.
LEMMA RotateKeeps ==
    ASSUME SecretsInv, NEW n \in Names, rotate(n), UNCHANGED now
    PROVE  SecretsInv'
  <1>0. SecretsTypes /\ ValuesDated /\ OneCache /\ NothingOlder
        /\ StaleByOneTtl /\ OneProvider /\ RefreshIsFresh
    BY Zenon DEF SecretsInv
  <1>1. /\ UNCHANGED <<installed, cache, reader, field, todo, run, got, now>>
        /\ backend[n] < MaxVersion
        /\ backend' = [backend EXCEPT ![n] = @ + 1]
        /\ retired' = [retired EXCEPT ![n][backend[n]] = now]
    BY Zenon DEF rotate
  <1>2. SecretsTypes'
    <2>1. backend \in [Names -> Version] /\ retired \in [Names -> [Version -> Nat]] /\ now \in Nat
      BY <1>0, Zenon DEF SecretsTypes, SecretsTypeOK
    <2>2. backend[n] + 1 \in Version
      <3>1. MaxVersion \in Nat /\ backend[n] \in Version /\ backend[n] < MaxVersion
        BY <1>1, <2>1, SecretsAssumption, Zenon
      <3> QED BY <3>1 DEF Version
    <2>3. backend' \in [Names -> Version] /\ retired' \in [Names -> [Version -> Nat]]
      BY <1>1, <2>1, <2>2, Zenon
    <2> QED BY <1>0, <1>1, <2>3, Zenon DEF SecretsTypes, SecretsTypeOK, RunType
  <1>4. ValuesDated'
    <2>1. ASSUME NEW p \in Providers, NEW m \in Names, cache[p][m].val # 0
          PROVE  CurrentSince(m, cache[p][m].val, cache[p][m].at)'
      BY <1>0, <1>1, <2>1, TypeFacts, RotateDates DEF ValuesDated, CurrentSince
    <2>2. ASSUME NEW r \in Readers, reader[r].pc = "store"
          PROVE  CurrentSince(reader[r].name, reader[r].val, reader[r].at)'
      BY <1>0, <1>1, <2>2, TypeFacts, RotateDates DEF ValuesDated, CurrentSince
    <2> QED BY <1>0, <1>1, <2>1, <2>2, Zenon DEF ValuesDated, CurrentSince
  <1>5. StaleByOneTtl'
    <2>1. got.at - Ttl \in Int /\ got.at - Ttl <= now
      BY <1>0, TypeFacts, SecretsAssumption DEF ValuesDated
    <2> QED BY <1>0, <1>1, <2>1, TypeFacts, RotateDates, Zenon DEF StaleByOneTtl, CurrentSince
  <1>6. OneCache' /\ OneProvider' /\ RefreshIsFresh'
    BY <1>0, <1>1, Zenon DEF OneCache, OneProvider, RefreshIsFresh
  <1>7. NothingOlder'
    <2>1. \A m \in Names : backend'[m] >= backend[m] /\ backend'[m] \in Int
      BY <1>0, <1>1, TypeFacts DEF Version
    <2>2. \A m \in Names : run.began[m] <= backend'[m]
      BY <1>0, <2>1, TypeFacts DEF NothingOlder, Version
    <2> QED BY <1>0, <1>1, <2>2, Zenon DEF NothingOlder
  <1> QED BY <1>2, <1>4, <1>5, <1>6, <1>7, Zenon DEF SecretsInv

\* A tick of the clock keeps the invariant.
LEMMA SecretsTick == SecretsInv /\ Tick /\ UNCHANGED secretsVars => SecretsInv'
  <1> SUFFICES ASSUME SecretsInv, Tick, UNCHANGED secretsVars PROVE SecretsInv'
    BY Zenon
  <1>0. SecretsTypes /\ ValuesDated /\ OneCache /\ NothingOlder
        /\ StaleByOneTtl /\ OneProvider /\ RefreshIsFresh
    BY Zenon DEF SecretsInv
  <1>1. UNCHANGED <<backend, retired, installed, cache, reader, field, todo, run, got>>
        /\ now' = now + 1
    BY Zenon DEF Tick, secretsVars
  <1>2. SecretsTypes'
    <2>1. now' \in Nat
      BY <1>0, <1>1, TypeFacts
    <2> QED BY <1>0, <1>1, <2>1, Zenon DEF SecretsTypes, SecretsTypeOK, RunType
  <1>3. ValuesDated'
    BY <1>0, <1>1, TypeFacts DEF ValuesDated, CurrentSince
  <1>4. OneCache' /\ OneProvider' /\ RefreshIsFresh' /\ NothingOlder' /\ StaleByOneTtl'
    BY <1>0, <1>1, Zenon DEF OneCache, OneProvider, RefreshIsFresh, NothingOlder, StaleByOneTtl,
         CurrentSince
  <1> QED BY <1>2, <1>3, <1>4, Zenon DEF SecretsInv

\* A reader that moves on without storing or returning: the invariant asks of it only
\* where it reads and what it is about to store.
LEMMA ReaderMoves ==
    ASSUME SecretsInv, NEW r \in Readers,
           UNCHANGED <<now, backend, retired, installed, cache, field, run, got>>,
           todo' \in Seq(Names),
           reader' \in ReaderType,
           \A q \in Readers : q # r => reader'[q] = reader[q],
           reader'[r].at <= now,
           reader'[r].pc = "store" =>
             \/ reader'[r].val = backend[reader'[r].name]
             \/ /\ reader[r].pc = "store" /\ reader'[r].at = reader[r].at
                /\ reader'[r].name = reader[r].name /\ reader'[r].val = reader[r].val,
           \/ reader'[r].prov = reader[r].prov
           \/ reader'[r].prov = installed
           \/ r = Loop /\ reader'[r].prov \in {NoProvider, Transient}
    PROVE  SecretsInv'
  <1>0. SecretsTypes /\ ValuesDated /\ OneCache /\ NothingOlder
        /\ StaleByOneTtl /\ OneProvider /\ RefreshIsFresh
    BY Zenon DEF SecretsInv
  <1>1. SecretsTypes'
    BY <1>0, Zenon DEF SecretsTypes, SecretsTypeOK, RunType
  <1>2. ValuesDated'
    <2>1. ASSUME NEW q \in Readers
          PROVE  /\ reader'[q].at <= now
                 /\ reader'[q].pc = "store" =>
                      /\ reader'[q].val # 0
                      /\ CurrentSince(reader'[q].name, reader'[q].val, reader'[q].at)
      <3>1. CASE q # r
        BY <1>0, <3>1, Zenon DEF ValuesDated
      <3>2. CASE q = r
        <4>1. reader'[r].name \in Names
          BY Zenon
        <4>2. backend[reader'[r].name] # 0
          BY <1>0, <4>1, TypeFacts DEF Version
        <4> QED BY <1>0, <3>2, <4>2, Zenon DEF CurrentSince, ValuesDated
      <3> QED BY <3>1, <3>2, Zenon
    <2> QED BY <1>0, <2>1, Zenon DEF ValuesDated, CurrentSince
  <1>3. OneCache' /\ OneProvider'
    BY <1>0, ConstantFacts, SecretsAssumption, ZenonT(30) DEF OneCache, OneProvider
  <1>4. NothingOlder'
    <2>1. ASSUME NEW q \in Readers, run.quiet, reader'[q].pc = "store"
          PROVE  reader'[q].val >= run.began[reader'[q].name]
      <3>1. CASE q # r
        BY <1>0, <2>1, <3>1, Zenon DEF NothingOlder
      <3>2. CASE q = r
        <4>1. reader'[r].name \in Names
          BY Zenon
        <4> QED BY <1>0, <2>1, <3>2, <4>1, TypeFacts, Zenon DEF NothingOlder, Version
      <3> QED BY <3>1, <3>2, Zenon
    <2> QED BY <1>0, <2>1, Zenon DEF NothingOlder
  <1>5. RefreshIsFresh' /\ StaleByOneTtl'
    BY <1>0, Zenon DEF RefreshIsFresh, StaleByOneTtl, CurrentSince
  <1> QED BY <1>1, <1>2, <1>3, <1>4, <1>5, Zenon DEF SecretsInv

\* An answer of get: what is returned was current since the reader's stamp less one
\* TTL, and it is not older than a quiet refresh.
LEMMA ReturnKeeps ==
    ASSUME SecretsInv, UNCHANGED now, NEW r \in Readers, NEW v \in Version,
           CurrentSince(reader[r].name, v, reader[r].at - Ttl),
           run.quiet => v >= run.began[reader[r].name],
           Return(r, reader[r].name, v, reader[r].at), UNCHANGED <<backend, retired>>
    PROVE  /\ StaleByOneTtl' /\ RefreshIsFresh'
           /\ got' \in [name : Names, val : 0..MaxVersion, at : Nat] /\ got'.at <= now
           /\ field' \in [Names -> Version] /\ todo' \in Seq(Names)
           /\ RunType' /\ run'.began = run.began /\ run'.quiet = run.quiet
  <1>0. SecretsTypes /\ ValuesDated /\ RefreshIsFresh
    BY Zenon DEF SecretsInv
  <1>1. /\ field \in [Names -> Version] /\ todo \in Seq(Names)
        /\ run \in [began : [Names -> Version], quiet : BOOLEAN, resolved : SUBSET Names]
    BY <1>0, Zenon DEF SecretsTypes, SecretsTypeOK, RunType
  <1>2. v \in 0..MaxVersion
    BY SecretsAssumption DEF Version
  <1>3. got' \in [name : Names, val : 0..MaxVersion, at : Nat] /\ got'.at <= now
    BY <1>0, <1>2, TypeFacts, Zenon DEF Return, ValuesDated
  <1>4. StaleByOneTtl'
    BY Zenon DEF Return, StaleByOneTtl, CurrentSince
  <1>5. field' \in [Names -> Version] /\ todo' \in Seq(Names)
    BY <1>0, <1>1, TypeFacts, ConstantFacts, Zenon DEF Return
  <1>6. RunType' /\ run'.began = run.began /\ run'.quiet = run.quiet
    BY <1>0, <1>1, TypeFacts, Zenon DEF Return, RunType
  <1>7. RefreshIsFresh'
    <2>1. CASE r = Loop
      BY <1>0, <1>1, <2>1, TypeFacts, Zenon DEF Return, RefreshIsFresh
    <2>2. CASE r # Loop
      BY <1>0, <2>2, Zenon DEF Return, RefreshIsFresh
    <2> QED BY <2>1, <2>2, Zenon
  <1> QED BY <1>3, <1>4, <1>5, <1>6, <1>7, Zenon

\* A reader that comes to rest.
LEMMA RestFacts ==
    ASSUME SecretsTypes, NEW r \in Readers, Rest(r)
    PROVE  /\ reader' \in ReaderType
           /\ \A q \in Readers : q # r => reader'[q] = reader[q]
           /\ reader'[r].at = 0 /\ reader'[r].pc = "idle" /\ reader'[r].prov = reader[r].prov
  <1>1. reader \in ReaderType
    BY Zenon DEF SecretsTypes, SecretsTypeOK
  <1>2. FieldOrder[1] \in Names /\ 0 \in 0..MaxVersion
    BY ConstantFacts, SecretsAssumption
  <1> QED BY <1>1, <1>2, Zenon DEF Rest, Resting

\* What a reader finds in the cache: current since the entry's stamp, and in a quiet
\* refresh no older than its beginning.
LEMMA HitFacts ==
    ASSUME SecretsInv, NEW r \in Readers,
           Fresh(Entry(reader[r].prov, reader[r].name), reader[r].at)
    PROVE  LET v == Entry(reader[r].prov, reader[r].name).val
           IN  /\ v \in Version
               /\ CurrentSince(reader[r].name, v, reader[r].at - Ttl)
               /\ run.quiet => v >= run.began[reader[r].name]
  <1> DEFINE p == reader[r].prov
             n == reader[r].name
  <1>0. SecretsTypes /\ ValuesDated /\ NothingOlder
    BY Zenon DEF SecretsInv
  <1>1. p \in Providers /\ n \in Names
    BY <1>0, TypeFacts, Zenon DEF Fresh, Entry, Empty
  <1>2. /\ cache[p][n].val # 0 /\ reader[r].at - cache[p][n].at < Ttl
        /\ Entry(p, n) = cache[p][n]
    BY <1>1, Zenon DEF Fresh, Entry
  <1>3. cache[p][n].val \in Version
    BY <1>0, <1>1, <1>2, TypeFacts, Zenon
  <1>4. CurrentSince(n, cache[p][n].val, cache[p][n].at)
    BY <1>0, <1>1, <1>2, ZenonT(30) DEF ValuesDated
  <1>5. retired[n][cache[p][n].val] \in Nat
    <2>1. retired \in [Names -> [Version -> Nat]]
      BY <1>0, Zenon DEF SecretsTypes, SecretsTypeOK
    <2> QED BY <1>1, <1>3, <2>1, Zenon
  <1>6. cache[p][n].at \in Nat /\ reader[r].at \in Nat /\ Ttl \in Nat
    BY <1>0, <1>1, TypeFacts, SecretsAssumption, Zenon
  <1>7. CurrentSince(n, cache[p][n].val, reader[r].at - Ttl)
    <2>1. ASSUME NEW x \in Nat, NEW e \in Nat, NEW at \in Nat, NEW ttl \in Nat,
                 at - e < ttl, x >= e
          PROVE  x >= at - ttl
      BY <2>1
    <2> QED BY <1>2, <1>4, <1>5, <1>6, <2>1, Zenon DEF CurrentSince
  <1>8. run.quiet => cache[p][n].val >= run.began[n]
    BY <1>0, <1>1, <1>2, Zenon DEF NothingOlder
  <1> QED BY <1>2, <1>3, <1>7, <1>8, Zenon

\* Looking for the provider, building and installing one keep the invariant: it is
\* installed only where there was none, and then no thread had one.
LEMMA ProviderKeeps ==
    ASSUME SecretsInv, UNCHANGED now, NEW t \in Threads,
           get_secrets_provider(t) \/ install_provider(t)
    PROVE  SecretsInv'
  <1>0. SecretsTypes /\ ValuesDated /\ OneCache /\ NothingOlder
        /\ StaleByOneTtl /\ OneProvider /\ RefreshIsFresh
    BY Zenon DEF SecretsInv
  <1>1. t \in Readers /\ t # Loop /\ t # NoProvider
    BY ConstantFacts, SecretsAssumption, Zenon
  <1>2. /\ reader \in ReaderType
        /\ installed \in Providers \cup {NoProvider} /\ todo \in Seq(Names)
    BY <1>0, Zenon DEF SecretsTypes, SecretsTypeOK
  <1>3. reader[t].at <= now
    BY <1>0, <1>1, Zenon DEF ValuesDated
  <1>4. CASE get_secrets_provider(t)
    <2>1. /\ reader' = [reader EXCEPT ![t] = IF installed # NoProvider
                                            THEN [@ EXCEPT !.prov = installed]
                                            ELSE [@ EXCEPT !.pc = "built"]]
          /\ reader[t].pc = "idle"
          /\ UNCHANGED <<backend, retired, installed, cache, field, todo, run, got>>
      BY <1>4, Zenon DEF get_secrets_provider
    <2> DEFINE me == IF installed # NoProvider THEN [reader[t] EXCEPT !.prov = installed]
                     ELSE [reader[t] EXCEPT !.pc = "built"]
    <2>a. reader' = [reader EXCEPT ![t] = me]
      BY <2>1, Zenon
    <2>b. /\ me \in [pc : {"idle", "built", "look", "read", "store"},
                     prov : Providers \cup {NoProvider, Transient},
                     name : Names, at : Nat, val : 0..MaxVersion]
          /\ me.at = reader[t].at /\ me.pc # "store"
          /\ me.prov = reader[t].prov \/ me.prov = installed
      <3>1. CASE installed # NoProvider
        BY <1>1, <1>2, <2>1, <3>1, Zenon
      <3>2. CASE installed = NoProvider
        BY <1>1, <1>2, <2>1, <3>2, Zenon
      <3> QED BY <3>1, <3>2, Zenon
    <2> HIDE DEF me
    <2>2. reader' \in ReaderType
      BY <1>1, <1>2, <2>a, <2>b, Zenon
    <2>3. /\ \A q \in Readers : q # t => reader'[q] = reader[q]
          /\ reader'[t].at = reader[t].at /\ reader'[t].pc # "store"
          /\ reader'[t].prov = reader[t].prov \/ reader'[t].prov = installed
      BY <1>1, <1>2, <2>a, <2>b, Zenon
    <2> QED BY <1>1, <1>2, <1>3, <2>1, <2>2, <2>3, ReaderMoves, Zenon
  <1>5. CASE install_provider(t)
    <2>1. /\ installed' = IF installed = NoProvider THEN t ELSE installed
          /\ reader' = [reader EXCEPT ![t] = [@ EXCEPT !.pc = "idle", !.prov = installed']]
          /\ UNCHANGED <<now, backend, retired, cache, field, todo, run, got>>
      BY <1>5, Zenon DEF install_provider
    <2>2. installed' \in Providers
      BY <1>2, <2>1, Zenon DEF Providers
    <2>3. reader' \in ReaderType
      <3>1. ASSUME NEW i \in Providers
            PROVE  [reader EXCEPT ![t] = [@ EXCEPT !.pc = "idle", !.prov = i]] \in ReaderType
        BY <1>1, <1>2, ZenonT(30)
      <3> QED BY <2>1, <2>2, <3>1, Zenon
    <2>4. /\ \A q \in Readers : q # t => reader'[q] = reader[q]
          /\ reader'[t].at = reader[t].at /\ reader'[t].pc = "idle"
          /\ reader'[t].prov = installed'
      BY <1>1, <1>2, <2>1, Zenon
    <2>5. SecretsTypes'
      BY <1>0, <2>1, <2>2, <2>3, Zenon DEF SecretsTypes, SecretsTypeOK, RunType
    <2>6. ValuesDated'
      BY <1>0, <1>3, <2>1, <2>4 DEF ValuesDated, CurrentSince
    <2>7. OneCache'
      <3>1. installed = NoProvider => \A p \in Providers, n \in Names : cache[p][n].val = 0
        BY <1>0, SecretsAssumption, Zenon DEF OneCache, Providers
      <3>2. reader'[Loop].prov \in {NoProvider, Transient, installed'}
        BY <1>0, <1>1, <2>1, <2>4, ConstantFacts, Zenon DEF OneCache
      <3> QED BY <1>0, <2>1, <3>1, <3>2, Zenon DEF OneCache
    <2>8. OneProvider'
      BY <1>0, <1>1, <2>1, <2>4, ConstantFacts, Zenon DEF OneProvider
    <2>9. NothingOlder' /\ StaleByOneTtl' /\ RefreshIsFresh'
      BY <1>0, <2>1, <2>4 DEF NothingOlder, StaleByOneTtl, CurrentSince, RefreshIsFresh
    <2> QED BY <2>5, <2>6, <2>7, <2>8, <2>9, Zenon DEF SecretsInv
  <1> QED BY <1>4, <1>5, Zenon

\* The steps of get that neither store nor return keep the invariant.
LEMMA GetKeeps ==
    ASSUME SecretsInv, UNCHANGED now, NEW r \in Readers,
           \/ \E n \in Names : get(r, n)
           \/ get_miss(r) \/ backend_get(r) \/ backend_get_fails(r)
    PROVE  SecretsInv'
  <1>0. SecretsTypes /\ ValuesDated
    BY Zenon DEF SecretsInv
  <1>1. /\ reader \in ReaderType
        /\ todo \in Seq(Names) /\ now \in Nat /\ reader[r].at <= now
    BY <1>0, Zenon DEF SecretsTypes, SecretsTypeOK, ValuesDated
  <1>2. ASSUME NEW n \in Names, get(r, n) PROVE SecretsInv'
    <2>1. /\ reader' = [reader EXCEPT ![r] = [@ EXCEPT !.pc = "look", !.name = n, !.at = now]]
          /\ UNCHANGED <<backend, retired, installed, cache, field, todo, run, got>>
      BY <1>2, Zenon DEF get
    <2>2. /\ reader' \in ReaderType
          /\ \A q \in Readers : q # r => reader'[q] = reader[q]
          /\ reader'[r].at = now /\ reader'[r].pc = "look" /\ reader'[r].prov = reader[r].prov
      BY <1>1, <2>1, ZenonT(30)
    <2> QED BY <1>1, <2>1, <2>2, ReaderMoves
  <1>3. CASE get_miss(r)
    <2>1. /\ reader' = [reader EXCEPT ![r].pc = "read"]
          /\ UNCHANGED <<backend, retired, installed, cache, field, todo, run, got>>
      BY <1>3, Zenon DEF get_miss
    <2>2. /\ reader' \in ReaderType
          /\ \A q \in Readers : q # r => reader'[q] = reader[q]
          /\ reader'[r].at = reader[r].at /\ reader'[r].pc = "read"
          /\ reader'[r].prov = reader[r].prov
      BY <1>1, <2>1, Zenon
    <2> QED BY <1>1, <2>1, <2>2, ReaderMoves, Zenon
  <1>4. CASE backend_get(r)
    <2>1. /\ reader' = [reader EXCEPT ![r] = [@ EXCEPT !.pc = "store",
                                                      !.val = backend[reader[r].name]]]
          /\ UNCHANGED <<backend, retired, installed, cache, field, todo, run, got>>
      BY <1>4, Zenon DEF backend_get
    <2>2. backend[reader[r].name] \in 0..MaxVersion
      BY <1>0, TypeFacts, SecretsAssumption DEF Version
    <2>3. /\ reader' \in ReaderType
          /\ \A q \in Readers : q # r => reader'[q] = reader[q]
          /\ reader'[r].at = reader[r].at /\ reader'[r].name = reader[r].name
          /\ reader'[r].val = backend[reader[r].name]
          /\ reader'[r].prov = reader[r].prov
      BY <1>1, <2>1, <2>2, ZenonT(30)
    <2> QED BY <1>1, <2>1, <2>3, ReaderMoves, Zenon
  <1>5. CASE backend_get_fails(r)
    <2>1. /\ Rest(r) /\ todo' = IF r = Loop THEN Tail(todo) ELSE todo
          /\ UNCHANGED <<backend, retired, installed, cache, field, run, got>>
      BY <1>5, Zenon DEF backend_get_fails
    <2>2. todo' \in Seq(Names)
      BY <1>1, <2>1, ConstantFacts, Zenon
    <2>3. reader'[r].at <= now
      BY <1>0, <1>1, <2>1, RestFacts
    <2> QED BY <1>0, <2>1, <2>2, <2>3, RestFacts, ReaderMoves, Zenon
  <1> QED BY <1>2, <1>3, <1>4, <1>5, Zenon

\* A hit returns what the cache holds and keeps the invariant.
LEMMA HitKeeps ==
    ASSUME SecretsInv, UNCHANGED now, NEW r \in Readers, get_hit(r)
    PROVE  SecretsInv'
  <1> DEFINE v == Entry(reader[r].prov, reader[r].name).val
  <1>0. SecretsTypes /\ ValuesDated /\ OneCache /\ NothingOlder /\ OneProvider
    BY Zenon DEF SecretsInv
  <1>1. /\ Return(r, reader[r].name, v, reader[r].at) /\ Rest(r)
        /\ UNCHANGED <<backend, retired, installed, cache>>
        /\ Fresh(Entry(reader[r].prov, reader[r].name), reader[r].at)
    BY Zenon DEF get_hit
  <1>2. /\ v \in Version /\ CurrentSince(reader[r].name, v, reader[r].at - Ttl)
        /\ run.quiet => v >= run.began[reader[r].name]
    BY <1>1, HitFacts, Zenon
  <1>3. /\ StaleByOneTtl' /\ RefreshIsFresh'
        /\ got' \in [name : Names, val : 0..MaxVersion, at : Nat] /\ got'.at <= now
        /\ field' \in [Names -> Version] /\ todo' \in Seq(Names)
        /\ RunType' /\ run'.began = run.began /\ run'.quiet = run.quiet
    BY <1>1, <1>2, ReturnKeeps, Zenon
  <1>4. SecretsTypes'
    BY <1>0, <1>1, <1>3, RestFacts, Zenon DEF SecretsTypes, SecretsTypeOK
  <1>5. ValuesDated'
    <2>1. \A q \in Readers :
            /\ reader'[q].at <= now
            /\ reader'[q].pc = "store" =>
                 /\ reader'[q].val # 0
                 /\ CurrentSince(reader'[q].name, reader'[q].val, reader'[q].at)
      <3>1. /\ \A q \in Readers : q # r => reader'[q] = reader[q]
            /\ reader'[r].at = 0 /\ reader'[r].pc = "idle" /\ now \in Nat
        BY <1>0, <1>1, RestFacts, TypeFacts, Zenon
      <3>2. \A q \in Readers :
              /\ reader[q].at <= now
              /\ reader[q].pc = "store" =>
                   /\ reader[q].val # 0
                   /\ CurrentSince(reader[q].name, reader[q].val, reader[q].at)
        BY <1>0, Zenon DEF ValuesDated
      <3> QED BY <3>1, <3>2
    <2> QED BY <1>0, <1>1, <1>3, <2>1, Zenon DEF ValuesDated, CurrentSince
  <1>6. OneCache' /\ OneProvider'
    BY <1>0, <1>1, RestFacts, ConstantFacts DEF OneCache, OneProvider
  <1>7. NothingOlder'
    BY <1>0, <1>1, <1>3, RestFacts, Zenon DEF NothingOlder
  <1> QED BY <1>3, <1>4, <1>5, <1>6, <1>7, Zenon DEF SecretsInv

\* A store puts into the installed provider's cache what was read after the stamp it
\* is given, returns it, and keeps the invariant.
LEMMA StoreKeeps ==
    ASSUME SecretsInv, UNCHANGED now, NEW r \in Readers, get_store(r)
    PROVE  SecretsInv'
  <1> DEFINE p == reader[r].prov
             n == reader[r].name
             v == reader[r].val
  <1>0. SecretsTypes /\ ValuesDated /\ OneCache /\ NothingOlder /\ OneProvider
    BY Zenon DEF SecretsInv
  <1>1. /\ cache' = IF p \in Providers
                    THEN [cache EXCEPT ![p][n] = [at |-> reader[r].at, val |-> v]] ELSE cache
        /\ Return(r, n, v, reader[r].at) /\ Rest(r) /\ reader[r].pc = "store"
        /\ UNCHANGED <<backend, retired, installed>>
    BY Zenon DEF get_store, stamp
  <1>2. /\ n \in Names /\ v \in Version /\ reader[r].at \in Nat /\ reader[r].at <= now
        /\ CurrentSince(n, v, reader[r].at) /\ (run.quiet => v >= run.began[n])
    BY <1>0, <1>1, TypeFacts, Zenon DEF ValuesDated, NothingOlder
  <1>3. CurrentSince(n, v, reader[r].at - Ttl)
    <2>1. retired[n][v] \in Nat /\ Ttl \in Nat
      BY <1>0, <1>2, SecretsAssumption DEF SecretsTypes, SecretsTypeOK
    <2>2. ASSUME NEW x \in Nat, NEW at \in Nat, NEW ttl \in Nat, x >= at PROVE x >= at - ttl
      BY <2>2
    <2> QED BY <1>2, <2>1, <2>2, Zenon DEF CurrentSince
  <1>4. /\ StaleByOneTtl' /\ RefreshIsFresh'
        /\ got' \in [name : Names, val : 0..MaxVersion, at : Nat] /\ got'.at <= now
        /\ field' \in [Names -> Version] /\ todo' \in Seq(Names)
        /\ RunType' /\ run'.began = run.began /\ run'.quiet = run.quiet
    BY <1>1, <1>2, <1>3, ReturnKeeps, Zenon
  <1>5. p \in Providers => p = installed
    BY <1>0, ConstantFacts, SecretsAssumption, Zenon DEF OneCache, OneProvider, Providers, Readers
  <1>6. /\ cache' \in [Providers -> [Names -> [at : Nat, val : 0..MaxVersion]]]
        /\ \A q \in Providers, m \in Names :
             cache'[q][m] = IF q = p /\ m = n THEN [at |-> reader[r].at, val |-> v]
                            ELSE cache[q][m]
    <2>1. cache \in [Providers -> [Names -> [at : Nat, val : 0..MaxVersion]]]
      BY <1>0, Zenon DEF SecretsTypes, SecretsTypeOK
    <2>2. v \in 0..MaxVersion
      BY <1>0, TypeFacts, Zenon
    <2> QED BY <1>1, <1>2, <2>1, <2>2, Zenon
  <1>7. SecretsTypes'
    BY <1>0, <1>1, <1>4, <1>6, RestFacts, Zenon DEF SecretsTypes, SecretsTypeOK
  <1>8. ValuesDated'
    <2>1. ASSUME NEW q \in Providers, NEW m \in Names
          PROVE  /\ cache'[q][m].at <= now
                 /\ cache'[q][m].val # 0 => CurrentSince(m, cache'[q][m].val, cache'[q][m].at)
      <3>1. CASE q = p /\ m = n
        BY <1>2, <1>6, <3>1
      <3>2. CASE ~(q = p /\ m = n)
        BY <1>0, <1>6, <3>2, Zenon DEF ValuesDated
      <3> QED BY <3>1, <3>2, ZenonT(30)
    <2>2. \A q \in Readers :
            /\ reader'[q].at <= now
            /\ reader'[q].pc = "store" =>
                 /\ reader'[q].val # 0
                 /\ CurrentSince(reader'[q].name, reader'[q].val, reader'[q].at)
      BY <1>0, <1>1, RestFacts, TypeFacts DEF ValuesDated
    <2> QED BY <1>1, <1>4, <2>1, <2>2, ZenonT(30) DEF ValuesDated, CurrentSince
  <1>9. OneCache' /\ OneProvider'
    <2>1. \A q \in Providers, m \in Names : cache'[q][m].val # 0 => q = installed
      BY <1>0, <1>5, <1>6 DEF OneCache
    <2> QED BY <1>0, <1>1, <2>1, RestFacts, ConstantFacts, ZenonT(30) DEF OneCache, OneProvider
  <1>10. NothingOlder'
    <2>1. run.quiet => \A q \in Providers, m \in Names :
                          cache'[q][m].val # 0 => cache'[q][m].val >= run.began[m]
      BY <1>0, <1>2, <1>6 DEF NothingOlder
    <2> QED BY <1>0, <1>1, <1>4, <2>1, RestFacts, ZenonT(30) DEF NothingOlder
  <1> QED BY <1>4, <1>7, <1>8, <1>9, <1>10, Zenon DEF SecretsInv

\* A refresh empties the one cache that holds anything; if no get is about to store,
\* nothing older than the present is left anywhere (refresh_managed_secrets).
LEMMA RefreshKeeps ==
    ASSUME SecretsInv, UNCHANGED now, refresh_managed_secrets
    PROVE  SecretsInv'
  <1>0. SecretsTypes /\ ValuesDated /\ OneCache /\ NothingOlder
        /\ StaleByOneTtl /\ OneProvider /\ RefreshIsFresh
    BY Zenon DEF SecretsInv
  <1>1. /\ reader[Loop].pc = "idle"
        /\ reader' = [reader EXCEPT ![Loop].prov = NoProvider]
        /\ cache' = force_expire(provider_for_settings)
        /\ todo' = FieldOrder
        /\ run' = [began |-> backend, resolved |-> {},
                   quiet |-> \A t \in Threads : reader[t].pc # "store"]
        /\ UNCHANGED <<now, backend, retired, installed, field, got>>
    BY Zenon DEF refresh_managed_secrets
  <1>2. /\ reader \in ReaderType
        /\ cache \in [Providers -> [Names -> [at : Nat, val : 0..MaxVersion]]]
        /\ backend \in [Names -> Version] /\ Loop \in Readers
    BY <1>0, ConstantFacts, Zenon DEF SecretsTypes, SecretsTypeOK
  <1>3. /\ reader' \in ReaderType
        /\ \A q \in Readers : /\ q # Loop => reader'[q] = reader[q]
                              /\ reader'[q].pc = reader[q].pc /\ reader'[q].at = reader[q].at
                              /\ reader'[q].name = reader[q].name /\ reader'[q].val = reader[q].val
        /\ reader'[Loop].prov = NoProvider
    BY <1>1, <1>2
  <1>4. /\ cache' \in [Providers -> [Names -> [at : Nat, val : 0..MaxVersion]]]
        /\ \A q \in Providers, m \in Names : cache'[q][m] \in {Empty, cache[q][m]}
        /\ installed \in Providers => \A m \in Names : cache'[installed][m] = Empty
    <2>1. Empty \in [at : Nat, val : 0..MaxVersion]
      BY SecretsAssumption DEF Empty
    <2>2. installed \in Providers => provider_for_settings = installed
      BY SecretsAssumption, Zenon DEF provider_for_settings, Providers
    <2> QED BY <1>1, <1>2, <2>1, <2>2, Zenon DEF force_expire
  <1>5. \A q \in Providers, m \in Names : cache'[q][m].val = 0
    BY <1>0, <1>4 DEF OneCache, Empty
  <1>6. SecretsTypes'
    <2>1. FieldOrder \in Seq(Names)
      BY SecretsAssumption, Zenon
    <2>2. run' \in [began : [Names -> Version], quiet : BOOLEAN, resolved : SUBSET Names]
      BY <1>1, <1>2, Zenon
    <2> QED BY <1>0, <1>1, <1>3, <1>4, <2>1, <2>2, ZenonT(30) DEF SecretsTypes, SecretsTypeOK,
                                        RunType
  <1>7. ValuesDated'
    <2>1. \A q \in Providers, m \in Names : cache'[q][m].at <= now
      BY <1>0, <1>4, TypeFacts DEF ValuesDated, Empty
    <2> QED BY <1>0, <1>1, <1>3, <1>5, <2>1 DEF ValuesDated, CurrentSince
  <1>8. OneCache' /\ OneProvider'
    BY <1>0, <1>1, <1>3, <1>5, SecretsAssumption, ConstantFacts DEF OneCache, OneProvider
  <1>9. NothingOlder'
    <2>1. \A m \in Names : backend[m] <= backend[m]
      BY <1>0, TypeFacts DEF Version
    <2>2. run'.quiet => \A q \in Readers : reader'[q].pc # "store"
      BY <1>1, <1>3, Zenon DEF Readers
    <2> QED BY <1>1, <1>5, <2>1, <2>2, Zenon DEF NothingOlder
  <1>10. StaleByOneTtl' /\ RefreshIsFresh'
    BY <1>0, <1>1, Zenon DEF StaleByOneTtl, CurrentSince, RefreshIsFresh
  <1> QED BY <1>6, <1>7, <1>8, <1>9, <1>10, Zenon DEF SecretsInv

\* The refresh takes the provider it finds and keeps the invariant.
LEMMA ResolveKeeps ==
    ASSUME SecretsInv, UNCHANGED now, resolve_managed_secrets
    PROVE  SecretsInv'
  <1>0. SecretsTypes /\ ValuesDated /\ NothingOlder
    BY Zenon DEF SecretsInv
  <1>1. /\ reader' = [reader EXCEPT ![Loop].prov = provider_for_settings]
        /\ UNCHANGED <<backend, retired, installed, cache, field, todo, run, got>>
    BY Zenon DEF resolve_managed_secrets
  <1>2. /\ reader \in ReaderType
        /\ Loop \in Readers /\ todo \in Seq(Names) /\ reader[Loop].at <= now
        /\ provider_for_settings \in (Providers \cup {Transient}) \cap {installed, Transient}
    BY <1>0, ConstantFacts, Zenon DEF SecretsTypes, SecretsTypeOK, ValuesDated,
                                      provider_for_settings
  <1>3. /\ reader' \in ReaderType
        /\ \A q \in Readers : q # Loop => reader'[q] = reader[q]
        /\ reader'[Loop].pc = reader[Loop].pc /\ reader'[Loop].at = reader[Loop].at
        /\ reader'[Loop].name = reader[Loop].name /\ reader'[Loop].val = reader[Loop].val
        /\ reader'[Loop].prov \in {installed, Transient}
    BY <1>1, <1>2, Zenon
  <1> QED BY <1>1, <1>2, <1>3, ReaderMoves, Zenon

\* Every step keeps the invariant.
LEMMA StepInv == SecretsInv /\ [SecretsNext]_<<now, secretsVars>> => SecretsInv'
  <1> SUFFICES ASSUME SecretsInv, [SecretsNext]_<<now, secretsVars>> PROVE SecretsInv'
    BY Zenon
  <1>1. CASE secretsStep /\ UNCHANGED now
    BY <1>1, RotateKeeps, ProviderKeeps, GetKeeps, HitKeeps, StoreKeeps, RefreshKeeps,
       ResolveKeeps, Zenon DEF secretsStep
  <1>2. CASE Tick /\ UNCHANGED secretsVars
    BY <1>2, SecretsTick, Zenon
  <1>3. CASE UNCHANGED <<now, secretsVars>>
    BY <1>3, Zenon DEF secretsVars, SecretsInv, SecretsTypes, SecretsTypeOK, RunType,
                       ValuesDated, OneCache,
         NothingOlder, StaleByOneTtl, CurrentSince, OneProvider, RefreshIsFresh
  <1> QED BY <1>1, <1>2, <1>3, Zenon DEF SecretsNext

-----------------------------------------------------------------------------

\* The invariant holds throughout.
THEOREM SecretsInvariant == SecretsSpec => []SecretsInv
  BY InitInv, StepInv, PTL DEF SecretsSpec

\* No reader is given a value that was rotated away more than one TTL before it asked
\* (RotatingSecretsProvider.get).
THEOREM NeverStalerThanTtl == SecretsSpec => []StaleByOneTtl
  <1>1. SecretsInv => StaleByOneTtl
    BY Zenon DEF SecretsInv
  <1> QED BY <1>1, SecretsInvariant, PTL

\* All threads read through the provider that is installed (get_secrets_provider).
THEOREM ReadersShareProvider == SecretsSpec => []OneProvider
  <1>1. SecretsInv => OneProvider
    BY Zenon DEF SecretsInv
  <1> QED BY <1>1, SecretsInvariant, PTL

\* A refresh that no get straddles leaves no field older than its beginning
\* (refresh_managed_secrets).
THEOREM QuietRefreshFresh == SecretsSpec => []RefreshIsFresh
  <1>1. SecretsInv => RefreshIsFresh
    BY Zenon DEF SecretsInv
  <1> QED BY <1>1, SecretsInvariant, PTL

-----------------------------------------------------------------------------
(* The token verifier's key cache (Jwks).                                  *)

\* Keys dated at are the provider's own, or were until then.
CurrentAt(gen, at) == gen = published \/ withdrawn[gen] >= at

\* The cache holds keys that were the provider's at most Latency before they were
\* dated, under a TTL the provider or the settings gave.
CacheDated ==
    /\ jwks.at <= now /\ jwks.ttl \in Ttls
    /\ jwks.gen # 0 => CurrentAt(jwks.gen, jwks.at - Latency)

\* So does a thread that is about to store its answer, which is not older than that.
AnswersDated ==
    \A t \in Verifiers : verify[t].pc = "store" =>
        /\ verify[t].gen # 0 /\ verify[t].ttl \in Ttls
        /\ verify[t].at <= now /\ now <= verify[t].at + Latency
        /\ CurrentAt(verify[t].gen, verify[t].at)

JwksInv ==
    /\ JwksTypeOK /\ now \in Nat
    /\ CacheDated /\ AnswersDated /\ outcome.at <= now /\ KeysNotTooOld

\* The answer or its default: every TTL is one of Ttls, and a number.
LEMMA TtlFacts ==
    /\ CacheTtl \in Ttls /\ Ttls \subseteq Nat
    /\ \A age \in MaxAge : response_ttl(age) \in Ttls
  BY JwksAssumption, Zenon DEF Ttls, response_ttl

\* A token verified with keys that were the provider's Latency before a date not older
\* than TTL and grace is not verified with keys withdrawn too long ago.
LEMMA NotTooOld ==
    ASSUME JwksTypeOK, now \in Nat, NEW g \in Generation, NEW at \in Nat, NEW ttl \in Ttls,
           CurrentAt(g, at - Latency), now - at <= ttl + Grace,
           outcome'.gen = g, outcome'.at = now, UNCHANGED <<published, withdrawn>>
    PROVE  KeysNotTooOld'
  <1>1. withdrawn[g] \in Nat /\ ttl \in Nat /\ Grace \in Nat /\ Latency \in Nat
    BY TtlFacts, JwksAssumption, Zenon DEF JwksTypeOK
  <1>2. CASE g = published
    BY <1>2, Zenon DEF KeysNotTooOld
  <1>3. CASE withdrawn[g] >= at - Latency
    <2>1. now - withdrawn[g] <= ttl + Grace + Latency
      BY <1>1, <1>3
    <2> QED BY <2>1, Zenon DEF KeysNotTooOld, Ttls, response_ttl
  <1> QED BY <1>2, <1>3, Zenon DEF CurrentAt

\* A verification that is refused has used no keys.
LEMMA RefusedIsFine ==
    ASSUME outcome'.gen = 0
    PROVE  KeysNotTooOld'
  BY Zenon DEF KeysNotTooOld

\* The provider may rotate: what was current is so no longer as of now.
LEMMA PublishKeeps ==
    ASSUME JwksInv, publish, UNCHANGED now
    PROVE  JwksInv'
  <1> USE DEF JwksInv, publish
  <1>1. JwksTypeOK'
    BY JwksAssumption DEF JwksTypeOK, Generation
  <1>2. ASSUME NEW g \in Generation, NEW at \in Int, at <= now, CurrentAt(g, at)
        PROVE  CurrentAt(g, at)'
    BY <1>2, Zenon DEF CurrentAt, JwksTypeOK, Generation
  <1>3. CacheDated'
    <2>1. jwks.at - Latency \in Int /\ jwks.at - Latency <= now
      BY JwksAssumption DEF JwksTypeOK, CacheDated
    <2>2. jwks.gen # 0 => jwks.gen \in Generation
      BY DEF JwksTypeOK, Generation
    <2>3. jwks.gen # 0 => CurrentAt(jwks.gen, jwks.at - Latency)'
      <3>1. jwks.gen # 0 => CurrentAt(jwks.gen, jwks.at - Latency)
        BY Zenon DEF CacheDated
      <3> QED BY <3>1, <2>1, <2>2, <1>2, Zenon DEF CurrentAt
    <2> QED BY <2>3, Zenon DEF CacheDated, Ttls, response_ttl
  <1>4. AnswersDated'
    <2> SUFFICES ASSUME NEW t \in Verifiers, verify[t].pc = "store"
                 PROVE  CurrentAt(verify[t].gen, verify[t].at)'
      BY Zenon DEF AnswersDated, Ttls, response_ttl
    <2>1. verify[t].gen \in Generation /\ verify[t].at \in Int
      BY DEF AnswersDated, JwksTypeOK, Generation
    <2> QED BY <2>1, <1>2, Zenon DEF AnswersDated, CurrentAt
  <1>5. KeysNotTooOld'
    <2> SUFFICES ASSUME outcome.gen # 0, outcome.gen # published'
                 PROVE  \E ttl \in Ttls : outcome.at - withdrawn'[outcome.gen] <= ttl + Grace + Latency
      BY Zenon DEF KeysNotTooOld, Ttls, response_ttl
    <2>1. CASE outcome.gen = published
      <3>1. withdrawn'[outcome.gen] = now /\ outcome.at \in Nat
        BY <2>1, Zenon DEF JwksTypeOK
      <3>2. outcome.at - now <= CacheTtl + Grace + Latency
        BY <3>1, JwksAssumption
      <3> QED BY <3>1, <3>2, TtlFacts, Zenon
    <2>2. CASE outcome.gen # published
      BY <2>2 DEF KeysNotTooOld, JwksTypeOK
    <2> QED BY <2>1, <2>2, Zenon
  <1> QED BY <1>1, <1>3, <1>4, <1>5, Zenon

\* A step of the clock keeps the answers on their way young.
LEMMA KeysTick ==
    ASSUME JwksInv, JwksTick
    PROVE  JwksInv'
  <1> USE DEF JwksInv, JwksTick, Tick, jwksVars
  <1>1. JwksTypeOK' /\ now' \in Nat
    BY DEF JwksTypeOK, Generation
  <1>2. now' = now + 1 /\ now \in Nat
    BY Zenon
  <1>3. CacheDated'
    BY <1>2 DEF CacheDated, JwksTypeOK, CurrentAt, Ttls, response_ttl
  <1>4. AnswersDated'
    <2> SUFFICES ASSUME NEW t \in Verifiers, verify[t].pc = "store"
                 PROVE  verify[t].at <= now' /\ now' <= verify[t].at + Latency
      BY Zenon DEF AnswersDated, CurrentAt, Ttls, response_ttl
    <2>1. now < verify[t].at + Latency /\ verify[t].at <= now
      BY Zenon DEF At, AnswersDated
    <2>2. verify[t].at \in Nat /\ Latency \in Nat
      BY JwksAssumption, Zenon DEF JwksTypeOK
    <2> QED BY <2>1, <2>2, <1>2
  <1>5. KeysNotTooOld' /\ outcome'.at <= now'
    BY <1>2 DEF KeysNotTooOld, JwksTypeOK, Ttls, response_ttl
  <1> QED BY <1>1, <1>3, <1>4, <1>5, Zenon

\* A step that stores nothing and verifies nothing keeps the invariant, if the
\* thread's record is not one about to be stored.
LEMMA PlainStep ==
    ASSUME JwksInv, NEW t \in Verifiers, JwksTypeOK',
           UNCHANGED <<now, published, withdrawn, jwks>>,
           \A u \in Verifiers \ {t} : verify'[u] = verify[u], verify'[t].pc # "store",
           outcome' = outcome \/ (outcome'.gen = 0 /\ outcome'.at = 0)
    PROVE  JwksInv'
  <1>1. CacheDated'
    BY Zenon DEF JwksInv, CacheDated, CurrentAt, Ttls, response_ttl
  <1>2. AnswersDated'
    <2> SUFFICES ASSUME NEW u \in Verifiers, verify'[u].pc = "store"
                 PROVE  /\ verify[u] = verify'[u] /\ verify[u].pc = "store"
      BY Zenon DEF JwksInv, AnswersDated, CurrentAt, Ttls, response_ttl
    <2> QED BY Zenon
  <1>3. KeysNotTooOld' /\ outcome'.at <= now'
    <2>1. CASE outcome' = outcome
      BY <2>1, Zenon DEF JwksInv, KeysNotTooOld, Ttls, response_ttl
    <2>2. CASE outcome'.gen = 0 /\ outcome'.at = 0
      BY <2>2 DEF JwksInv, KeysNotTooOld
    <2> QED BY <2>1, <2>2, Zenon
  <1> QED BY <1>1, <1>2, <1>3, Zenon DEF JwksInv

\* The steps of one thread.
Verify(t) ==
    \/ get_jwks_client(t) \/ get_discovery(t) \/ discovery_fails(t) \/ discovery_garbled(t)
    \/ \E uri \in BOOLEAN : discovery_answers(t, uri)
    \/ keys_cached(t) \/ keys_fetch(t) \/ fetch_stores(t)
    \/ \E error \in {"HTTPError", "ValueError"} : fetch_fails(t, error)
    \/ \E age \in MaxAge : fetch_answers(t, age)

\* The record of a thread, and that of an outcome.
Verification == [pc : {"idle", "lookup", "discover", "keys", "fetch", "store"},
                 build : BOOLEAN, gen : 0..MaxGeneration, ttl : Nat, at : Nat]

Outcome == [gen : 0..MaxGeneration, at : Nat, error : Errors]

\* A verification that ends is waiting for the next token.
LEMMA EndEffect ==
    ASSUME JwksInv, NEW t \in Verifiers, verify' = [verify EXCEPT ![t] = Waiting]
    PROVE  /\ verify' \in [Verifiers -> Verification] /\ verify'[t] = Waiting
           /\ verify'[t].pc = "idle" /\ \A u \in Verifiers \ {t} : verify'[u] = verify[u]
  <1>1. verify \in [Verifiers -> Verification]
    BY Zenon DEF JwksInv, JwksTypeOK, Verification
  <1>2. Waiting \in Verification
    BY JwksAssumption DEF Waiting, Verification
  <1>3. verify' \in [Verifiers -> Verification] /\ verify'[t] = Waiting
    BY <1>1, <1>2, Zenon
  <1>4. \A u \in Verifiers \ {t} : verify'[u] = verify[u]
    BY <1>1, Zenon
  <1> QED BY <1>3, <1>4, Zenon DEF Waiting

\* A verification that raises is one of no keys.
LEMMA RaiseEffect ==
    ASSUME JwksInv, NEW t \in Verifiers, NEW error \in Errors, Raise(t, error)
    PROVE  /\ verify' \in [Verifiers -> Verification] /\ verify'[t] = Waiting
           /\ verify'[t].pc = "idle" /\ \A u \in Verifiers \ {t} : verify'[u] = verify[u]
           /\ outcome' \in Outcome
           /\ outcome'.gen = 0 /\ outcome'.at = 0 /\ outcome'.error = error
  <1>1. outcome' = [gen |-> 0, at |-> 0, error |-> error]
    BY Zenon DEF Raise
  <1>2. 0 \in 0..MaxGeneration /\ 0 \in Nat
    BY JwksAssumption
  <1>3. outcome' \in Outcome /\ outcome'.gen = 0 /\ outcome'.at = 0 /\ outcome'.error = error
    BY <1>1, <1>2, Zenon DEF Outcome
  <1> QED BY <1>3, EndEffect, Zenon DEF Raise

\* With the document in hand a thread builds the client or goes for the keys, or it
\* raises for want of a jwks_uri.
LEMMA DocumentEffect ==
    ASSUME JwksInv, NEW t \in Verifiers, NEW uri \in BOOLEAN, NEW built \in BOOLEAN,
           HasDocument(t, uri, built)
    PROVE  /\ client' \in BOOLEAN /\ verify' \in [Verifiers -> Verification]
           /\ outcome' \in Outcome
           /\ \A u \in Verifiers \ {t} : verify'[u] = verify[u]
           /\ \/ /\ uri /\ outcome' = outcome /\ verify'[t].pc \in {"lookup", "keys"}
              \/ /\ ~uri /\ verify'[t].pc = "idle"
                 /\ outcome'.gen = 0 /\ outcome'.at = 0 /\ outcome'.error = "RuntimeError"
  <1>0. verify \in [Verifiers -> Verification] /\ client \in BOOLEAN /\ outcome \in Outcome
    BY Zenon DEF JwksInv, JwksTypeOK, Verification, Outcome
  <1>1. client' \in BOOLEAN
    BY <1>0, Zenon DEF HasDocument
  <1>2. CASE uri /\ verify[t].build
    <2>1. UNCHANGED outcome /\ verify' = [verify EXCEPT ![t].pc = "lookup", ![t].build = FALSE]
      BY <1>2, Zenon DEF HasDocument
    <2> QED BY <1>0, <1>1, <1>2, <2>1, ZenonT(30) DEF Verification
  <1>3. CASE uri /\ ~verify[t].build
    <2>1. UNCHANGED outcome /\ verify' = [verify EXCEPT ![t].pc = "keys", ![t].build = FALSE]
      BY <1>3, Zenon DEF HasDocument
    <2> QED BY <1>0, <1>1, <1>3, <2>1, ZenonT(30) DEF Verification
  <1>4. CASE ~uri
    <2>1. Raise(t, "RuntimeError")
      BY <1>4, Zenon DEF HasDocument
    <2> QED BY <1>1, <1>4, <2>1, RaiseEffect, Zenon DEF Errors
  <1> QED BY <1>2, <1>3, <1>4, Zenon

\* Every step of a thread keeps the types.
LEMMA VerifyTypes ==
    ASSUME JwksInv, NEW t \in Verifiers, Verify(t), UNCHANGED now
    PROVE  /\ JwksTypeOK'
           /\ \A u \in Verifiers \ {t} : verify'[u] = verify[u]
  <1> DEFINE R == Verification
  <1>0. /\ verify \in [Verifiers -> R] /\ now \in Nat /\ Waiting \in R
        /\ published \in Generation /\ Generation \subseteq 0..MaxGeneration
        /\ jwks.gen \in 0..MaxGeneration /\ 0 \in 0..MaxGeneration
    BY JwksAssumption DEF JwksInv, JwksTypeOK, Waiting, Generation, Verification
  <1>d. discovery.uri \in BOOLEAN /\ client \in BOOLEAN /\ FALSE \in BOOLEAN
    BY Zenon DEF JwksInv, JwksTypeOK
  <1>1. CASE get_jwks_client(t)
    BY <1>0, <1>1, ZenonT(30) DEF get_jwks_client, JwksInv, JwksTypeOK, Verification
  <1>2. CASE get_discovery(t)
    <2>1. CASE HasDocument(t, discovery.uri, client)
      <3>1. /\ client' \in BOOLEAN /\ verify' \in [Verifiers -> Verification] /\ outcome' \in Outcome
            /\ \A u \in Verifiers \ {t} : verify'[u] = verify[u]
        BY <1>d, <2>1, DocumentEffect, Zenon
      <3> QED BY <1>2, <3>1, Zenon DEF get_discovery, JwksInv, JwksTypeOK, Verification, Outcome
    <2>2. CASE Move(t, "discover") /\ UNCHANGED <<client, outcome>>
      BY <1>0, <1>2, <2>2 DEF get_discovery, Move, JwksInv, JwksTypeOK, Verification
    <2> QED BY <1>2, <2>1, <2>2, Zenon DEF get_discovery
  <1>3. ASSUME NEW uri \in BOOLEAN, discovery_answers(t, uri)
        PROVE  /\ JwksTypeOK' /\ \A u \in Verifiers \ {t} : verify'[u] = verify[u]
    <2>1. HasDocument(t, uri, FALSE) /\ discovery' \in [loaded : BOOLEAN, uri : BOOLEAN, at : Nat]
      BY <1>0, <1>3, Zenon DEF discovery_answers
    <2>2. UNCHANGED <<published, withdrawn, jwks>>
      BY <1>3, Zenon DEF discovery_answers
    <2>3. /\ client' \in BOOLEAN /\ verify' \in [Verifiers -> Verification] /\ outcome' \in Outcome
          /\ \A u \in Verifiers \ {t} : verify'[u] = verify[u]
      BY <1>d, <2>1, DocumentEffect, Zenon
    <2> QED BY <2>1, <2>2, <2>3, Zenon DEF JwksInv, JwksTypeOK, Verification, Outcome
  <1>4. CASE discovery_fails(t)
    <2>1. CASE HasDocument(t, discovery.uri, client)
      <3>1. /\ client' \in BOOLEAN /\ verify' \in [Verifiers -> Verification] /\ outcome' \in Outcome
            /\ \A u \in Verifiers \ {t} : verify'[u] = verify[u]
        BY <1>d, <2>1, DocumentEffect, Zenon
      <3> QED BY <1>4, <3>1, Zenon DEF discovery_fails, JwksInv, JwksTypeOK, Verification, Outcome
    <2>2. CASE Raise(t, "HTTPError") /\ UNCHANGED client
      BY <1>4, <2>2, RaiseEffect, Zenon DEF discovery_fails, JwksInv, JwksTypeOK, Verification,
                                            Outcome, Errors
    <2> QED BY <1>4, <2>1, <2>2, Zenon DEF discovery_fails
  <1>5. CASE discovery_garbled(t)
    BY <1>5, RaiseEffect, Zenon DEF discovery_garbled, JwksInv, JwksTypeOK, Verification, Outcome,
                                    Errors
  <1>6. CASE keys_cached(t)
    <2>1. outcome' \in Outcome
      BY <1>0, <1>6, Zenon DEF keys_cached, Verified, Outcome, Errors
    <2> QED BY <1>6, <2>1, EndEffect, Zenon DEF keys_cached, Verified, JwksInv, JwksTypeOK,
                                                Verification, Outcome
  <1>7. CASE keys_fetch(t)
    BY <1>0, <1>7, Zenon DEF keys_fetch, Move, JwksInv, JwksTypeOK, Verification
  <1>8. CASE fetch_stores(t)
    <2>1. verify[t] \in R
      BY <1>0, Zenon
    <2>2. outcome' \in Outcome /\ jwks' \in [gen : 0..MaxGeneration, at : Nat, ttl : Nat]
      BY <1>0, <1>8, <2>1, Zenon DEF fetch_stores, Verified, Verification, Outcome, Errors
    <2> QED BY <1>8, <2>2, EndEffect, Zenon DEF fetch_stores, Verified, JwksInv, JwksTypeOK,
                                                Verification, Outcome
  <1>10. ASSUME NEW error \in {"HTTPError", "ValueError"}, fetch_fails(t, error)
         PROVE  /\ JwksTypeOK' /\ \A u \in Verifiers \ {t} : verify'[u] = verify[u]
    <2>1. CASE Verified(t, jwks.gen)
      <3>1. outcome' \in Outcome
        BY <1>0, <2>1, Zenon DEF Verified, Outcome, Errors
      <3> QED BY <1>10, <2>1, <3>1, EndEffect, Zenon DEF fetch_fails, Verified, JwksInv, JwksTypeOK,
                                                         Verification, Outcome
    <2>2. CASE Raise(t, error)
      <3>1. error \in Errors
        BY Zenon DEF Errors
      <3>2. /\ verify' \in [Verifiers -> Verification] /\ outcome' \in Outcome
            /\ \A u \in Verifiers \ {t} : verify'[u] = verify[u]
        BY <2>2, <3>1, RaiseEffect, Zenon
      <3> QED BY <1>10, <3>2, Zenon DEF fetch_fails, JwksInv, JwksTypeOK, Verification, Outcome
    <2> QED BY <1>10, <2>1, <2>2, Zenon DEF fetch_fails
  <1>9. ASSUME NEW age \in MaxAge, fetch_answers(t, age)
        PROVE  /\ JwksTypeOK' /\ \A u \in Verifiers \ {t} : verify'[u] = verify[u]
    <2>1. response_ttl(age) \in Nat
      BY TtlFacts, Zenon
    <2> QED BY <1>0, <1>9, <2>1, Zenon DEF fetch_answers, JwksInv, JwksTypeOK, Verification
  <1> QED BY <1>1, <1>2, <1>3, <1>4, <1>5, <1>6, <1>7, <1>8, <1>9, <1>10, Zenon DEF Verify

\* Every step of a thread keeps the invariant: what it verifies with was dated when it
\* was stored, and is used no later than TTL and grace after that.
LEMMA VerifyKeeps ==
    ASSUME JwksInv, NEW t \in Verifiers, Verify(t), UNCHANGED now
    PROVE  JwksInv'
  <1>0. /\ JwksTypeOK' /\ JwksTypeOK /\ now \in Nat
        /\ \A u \in Verifiers \ {t} : verify'[u] = verify[u]
        /\ \A pc : (verify' = [verify EXCEPT ![t].pc = pc]) => verify'[t].pc = pc
        /\ (verify' = [verify EXCEPT ![t] = Waiting]) => verify'[t] = Waiting
    BY VerifyTypes DEF JwksInv, JwksTypeOK
  <1>d. discovery.uri \in BOOLEAN /\ client \in BOOLEAN /\ FALSE \in BOOLEAN
    BY Zenon DEF JwksInv, JwksTypeOK
  <1>1. CASE get_jwks_client(t)
    <2>1. verify'[t].pc = "lookup"
      BY <1>0, <1>1 DEF get_jwks_client, JwksTypeOK
    <2> QED BY <1>0, <1>1, <2>1, PlainStep, Zenon DEF get_jwks_client
  <1>2. CASE get_discovery(t)
    <2>1. CASE HasDocument(t, discovery.uri, client)
      BY <1>0, <1>d, <1>2, <2>1, DocumentEffect, PlainStep, Zenon DEF get_discovery
    <2>2. CASE Move(t, "discover") /\ UNCHANGED <<client, outcome>>
      <3>1. verify'[t].pc = "discover"
        BY <1>0, <2>2, Zenon DEF Move
      <3> QED BY <1>0, <1>2, <2>2, <3>1, PlainStep, Zenon DEF get_discovery
    <2> QED BY <1>2, <2>1, <2>2, Zenon DEF get_discovery
  <1>3. ASSUME NEW uri \in BOOLEAN, discovery_answers(t, uri)
        PROVE  JwksInv'
    <2>1. HasDocument(t, uri, FALSE) /\ UNCHANGED <<published, withdrawn, jwks>>
      BY <1>3, Zenon DEF discovery_answers
    <2> QED BY <1>0, <1>d, <2>1, DocumentEffect, PlainStep, Zenon
  <1>4. CASE discovery_fails(t)
    <2>1. CASE HasDocument(t, discovery.uri, client)
      BY <1>0, <1>d, <1>4, <2>1, DocumentEffect, PlainStep, Zenon DEF discovery_fails
    <2>2. CASE Raise(t, "HTTPError") /\ UNCHANGED client
      BY <1>0, <1>4, <2>2, RaiseEffect, PlainStep, Zenon DEF discovery_fails, Errors
    <2> QED BY <1>4, <2>1, <2>2, Zenon DEF discovery_fails
  <1>10. CASE discovery_garbled(t)
    BY <1>0, <1>10, RaiseEffect, PlainStep, Zenon DEF discovery_garbled, Errors
  <1>5. CASE keys_fetch(t)
    <2>1. verify'[t].pc = "fetch"
      BY <1>0, <1>5, Zenon DEF keys_fetch, Move
    <2> QED BY <1>0, <1>5, <2>1, PlainStep, Zenon DEF keys_fetch
  <1>6. ASSUME UNCHANGED <<published, withdrawn, discovery, jwks, client>>,
               Verified(t, jwks.gen), jwks.gen # 0, cache_fresh \/ cache_stale_but_usable
        PROVE  JwksInv'
    <2>1. /\ UNCHANGED <<published, withdrawn, discovery, jwks, client>>
          /\ outcome'.gen = jwks.gen /\ outcome'.at = now /\ jwks.gen # 0
          /\ verify' = [verify EXCEPT ![t] = Waiting]
      BY <1>6 DEF Verified
    <2>2. /\ jwks.at \in Nat /\ jwks.ttl \in Nat /\ jwks.ttl \in Ttls /\ Grace \in Nat
          /\ jwks.gen \in Generation
      BY <2>1, JwksAssumption, TtlFacts DEF JwksInv, JwksTypeOK, CacheDated, Generation
    <2>n. now \in Nat
      BY <1>0, Zenon
    <2>3. now - jwks.at <= jwks.ttl + Grace
      BY <1>6, <2>2, <2>n DEF cache_fresh, cache_stale_but_usable
    <2>4. CurrentAt(jwks.gen, jwks.at - Latency)
      BY <2>1, Zenon DEF JwksInv, CacheDated
    <2>5. KeysNotTooOld'
      BY <1>0, <2>1, <2>2, <2>3, <2>4, NotTooOld, Zenon
    <2>6. CacheDated' /\ AnswersDated' /\ outcome'.at <= now'
      BY <1>0, <2>1 DEF JwksInv, CacheDated, AnswersDated, CurrentAt, Waiting, Ttls, response_ttl
    <2> QED BY <1>0, <2>5, <2>6, Zenon DEF JwksInv
  <1>7. ASSUME keys_cached(t) \/ \E error \in {"HTTPError", "ValueError"} : fetch_fails(t, error)
        PROVE  JwksInv'
    <2>1. CASE keys_cached(t)
      BY <1>6, <2>1, Zenon DEF keys_cached
    <2>2. ASSUME NEW error \in {"HTTPError", "ValueError"}, fetch_fails(t, error)
          PROVE  JwksInv'
      <3>1. CASE Raise(t, error)
        BY <1>0, <2>2, <3>1, RaiseEffect, PlainStep, Zenon DEF fetch_fails, Errors
      <3> QED BY <1>6, <2>2, <3>1, Zenon DEF fetch_fails
    <2> QED BY <1>7, <2>1, <2>2, Zenon
  <1>8. CASE fetch_stores(t)
    <2>1. /\ verify[t].pc = "store" /\ UNCHANGED <<published, withdrawn, discovery, client>>
          /\ jwks' = [gen |-> verify[t].gen, at |-> now, ttl |-> verify[t].ttl]
          /\ outcome'.gen = verify[t].gen /\ outcome'.at = now
          /\ verify' = [verify EXCEPT ![t] = Waiting]
      BY <1>8, Zenon DEF fetch_stores, Verified, At
    <2>2. /\ verify[t].at \in Nat /\ verify[t].gen \in Generation /\ verify[t].ttl \in Ttls
          /\ verify[t].ttl \in Nat /\ Grace \in Nat /\ Latency \in Nat
          /\ verify[t].at <= now /\ now <= verify[t].at + Latency
          /\ CurrentAt(verify[t].gen, verify[t].at) /\ withdrawn[verify[t].gen] \in Nat
      BY <2>1, JwksAssumption, TtlFacts DEF JwksInv, JwksTypeOK, AnswersDated, Generation
    <2>3. CurrentAt(verify[t].gen, now - Latency)
      BY <2>2, <1>0 DEF CurrentAt
    <2>4. now - now <= verify[t].ttl + Grace
      BY <1>0, <2>2
    <2>5. KeysNotTooOld'
      BY <1>0, <2>1, <2>2, <2>3, <2>4, NotTooOld, Zenon
    <2>6. CacheDated'
      BY <1>0, <2>1, <2>2, <2>3 DEF CacheDated, CurrentAt, Ttls, response_ttl
    <2>7. AnswersDated' /\ outcome'.at <= now'
      BY <1>0, <2>1 DEF JwksInv, AnswersDated, CurrentAt, Waiting, Ttls, response_ttl
    <2> QED BY <1>0, <2>5, <2>6, <2>7, Zenon DEF JwksInv
  <1>9. ASSUME NEW age \in MaxAge, fetch_answers(t, age)
        PROVE  JwksInv'
    <2>1. /\ verify'[t] = [pc |-> "store", build |-> FALSE, gen |-> published,
                           ttl |-> response_ttl(age), at |-> now]
          /\ UNCHANGED <<published, withdrawn, discovery, jwks, client, outcome>>
      BY <1>0, <1>9, Zenon DEF fetch_answers, JwksTypeOK
    <2>2. published # 0 /\ response_ttl(age) \in Ttls /\ now <= now + Latency
      <3>1. published # 0
        BY <1>0, JwksAssumption DEF JwksTypeOK, Generation
      <3>2. now <= now + Latency
        BY <1>0, JwksAssumption
      <3> QED BY <3>1, <3>2, TtlFacts, Zenon
    <2>3. AnswersDated'
      <3> SUFFICES ASSUME NEW u \in Verifiers, verify'[u].pc = "store"
                   PROVE  /\ verify'[u].gen # 0 /\ verify'[u].ttl \in Ttls
                          /\ verify'[u].at <= now /\ now <= verify'[u].at + Latency
                          /\ CurrentAt(verify'[u].gen, verify'[u].at)
        BY <2>1, Zenon DEF AnswersDated, CurrentAt, Ttls, response_ttl
      <3>1. CASE u = t
        BY <3>1, <2>1, <2>2, <1>0 DEF CurrentAt
      <3>2. CASE u # t
        BY <3>2, <1>0, Zenon DEF JwksInv, AnswersDated
      <3> QED BY <3>1, <3>2, Zenon
    <2>4. CacheDated' /\ KeysNotTooOld' /\ outcome'.at <= now'
      BY <2>1, Zenon DEF JwksInv, CacheDated, KeysNotTooOld, CurrentAt, Ttls, response_ttl
    <2> QED BY <1>0, <2>3, <2>4, Zenon DEF JwksInv
  <1> QED BY <1>1, <1>2, <1>3, <1>4, <1>5, <1>6, <1>7, <1>8, <1>9, <1>10, Zenon DEF Verify

\* JwksInv is an inductive invariant.
LEMMA JwksInvariant == JwksSpec => []JwksInv
  <1>1. now = 0 /\ JwksInit => JwksInv
    <2> SUFFICES ASSUME now = 0, JwksInit PROVE JwksInv
      BY Zenon
    <2>1. JwksTypeOK
      <3>1. 0 \in 0..MaxGeneration /\ published \in Generation
        BY JwksAssumption DEF JwksInit, Generation
      <3>2. Waiting \in Verification
        BY <3>1, Zenon DEF Waiting, Verification
      <3>3. verify \in [Verifiers -> Verification]
        BY <3>2, Zenon DEF JwksInit
      <3>4. jwks \in [gen : 0..MaxGeneration, at : Nat, ttl : Nat]
        BY <3>1, JwksAssumption, Zenon DEF JwksInit
      <3> QED BY <3>1, <3>3, <3>4, Zenon DEF JwksInit, JwksTypeOK, Verification, Errors
    <2>2. CacheDated /\ AnswersDated
      BY TtlFacts DEF JwksInit, CacheDated, AnswersDated, Waiting
    <2> QED BY <2>1, <2>2 DEF JwksInit, JwksInv, KeysNotTooOld
  <1>2. JwksInv /\ [JwksNext]_<<now, jwksVars>> => JwksInv'
    <2> SUFFICES ASSUME JwksInv, [JwksNext]_<<now, jwksVars>> PROVE JwksInv'
      BY Zenon
    <2>1. CASE UNCHANGED <<now, jwksVars>>
      BY <2>1, Zenon DEF jwksVars, JwksInv, JwksTypeOK, CacheDated, AnswersDated, KeysNotTooOld,
                  CurrentAt, Ttls, response_ttl
    <2>2. CASE JwksTick
      BY <2>2, KeysTick, Zenon
    <2>3. ASSUME jwksStep, UNCHANGED now PROVE JwksInv'
      <3>1. publish \/ \E t \in Verifiers : Verify(t)
        BY <2>3, Zenon DEF jwksStep, Verify
      <3> QED BY <3>1, <2>3, PublishKeeps, VerifyKeeps, Zenon
    <2> QED BY <2>1, <2>2, <2>3, Zenon DEF JwksNext
  <1> QED BY <1>1, <1>2, PTL DEF JwksSpec

\* A token is never verified with keys withdrawn longer ago than one TTL, the grace
\* window and the latency of a fetch (OidcVerifier._fetch_jwks_data), for any number of
\* verifying threads, any TTLs and any pattern of rotations and outages.
THEOREM KeysExpire == JwksSpec => []KeysNotTooOld
  <1>1. JwksInv => KeysNotTooOld
    BY Zenon DEF JwksInv
  <1> QED BY <1>1, JwksInvariant, PTL

\* No failing request, no lost race with another thread's refresh and no expired
\* document costs a verifier that has a document and keys within TTL and grace a token
\* (_fetch_jwks_data, _get_discovery): it refuses one only when the provider serves a
\* discovery document that is not JSON or names no jwks_uri.
THEOREM StaleKeysServe == JwksSpec => RefusedForAReason
  <1> DEFINE Reason(t) == \/ outcome'.error = "RuntimeError" /\ ~discovery'.uri
                          \/ outcome'.error = "ValueError" /\ At(t, "discover")
             Good == \A t \in Verifiers : Refused(t) /\ HasKeys => Reason(t)
  <1>1. JwksInv /\ [JwksNext]_<<now, jwksVars>> => [Good]_jwksVars
    <2> SUFFICES ASSUME JwksInv, JwksNext, NEW t \in Verifiers, Refused(t), HasKeys
                 PROVE  Reason(t)
      BY Zenon DEF jwksVars
    <2>1. PICK u \in Verifiers : Verify(u) /\ UNCHANGED now
      BY Zenon DEF JwksNext, JwksTick, jwksStep, jwksVars, publish, Verify, Refused
    <2>2. u = t
      BY <2>1, VerifyTypes, Zenon DEF Refused
    <2>3. verify'[t].pc = "idle" /\ outcome'.gen = 0 /\ discovery.loaded /\ jwks.gen # 0
      BY DEF Refused, HasKeys, Waiting
    <2>4. client \in BOOLEAN /\ discovery.uri \in BOOLEAN
      BY Zenon DEF JwksInv, JwksTypeOK
    <2>5. ~(get_jwks_client(t) \/ keys_fetch(t)) /\ \A age \in MaxAge : ~fetch_answers(t, age)
      BY <2>3 DEF get_jwks_client, keys_fetch, fetch_answers, Move, JwksInv, JwksTypeOK
    <2>6. ASSUME get_discovery(t) \/ discovery_fails(t)
          PROVE  Reason(t)
      <3>1. ~Move(t, "discover")
        BY <2>3 DEF Move, JwksInv, JwksTypeOK
      <3>2. HasDocument(t, discovery.uri, client) /\ UNCHANGED discovery
        BY <2>3, <2>6, <3>1, Zenon DEF get_discovery, discovery_fails
      <3> QED BY <2>3, <2>4, <3>2, DocumentEffect
    <2>7. ASSUME NEW uri \in BOOLEAN, discovery_answers(t, uri)
          PROVE  Reason(t)
      <3>1. HasDocument(t, uri, FALSE) /\ discovery'.uri = uri
        BY <2>7, Zenon DEF discovery_answers
      <3> QED BY <2>3, <3>1, DocumentEffect, Zenon
    <2>8. CASE discovery_garbled(t)
      BY <2>8, RaiseEffect, Zenon DEF discovery_garbled, Errors
    <2>9. ~(keys_cached(t) \/ fetch_stores(t))
      BY <2>3 DEF keys_cached, fetch_stores, Verified, At, JwksInv, AnswersDated
    <2>10. cache_stale_but_usable
      BY DEF cache_stale_but_usable, HasKeys
    <2>11. \A error \in {"HTTPError", "ValueError"} : ~fetch_fails(t, error)
      BY <2>3, <2>10 DEF fetch_fails, Verified
    <2> QED BY <2>1, <2>2, <2>5, <2>6, <2>7, <2>8, <2>9, <2>11, Zenon DEF Verify
  <1> QED BY <1>1, JwksInvariant, PTL DEF JwksSpec, RefusedForAReason
=============================================================================
