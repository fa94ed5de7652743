--------------------------- MODULE TenancyProofs ----------------------------
(***************************************************************************)
(* The tenant tree and the role bindings, for any tenants, any content of  *)
(* the tables and any writes meanwhile: what the walks over the tree find, *)
(* what a decision and a listing rest on, and what a sync of a token's     *)
(* groups achieves.                                                        *)
(***************************************************************************)
EXTENDS Tenancy, FiniteSetTheorems, TLAPS

-----------------------------------------------------------------------------
(* Loops.                                                                    *)

\* What holds of no round and passes from each round to the next holds of every round:
\* the induction the loops of get_ancestors and get_descendants need, said of a set.
LEMMA Induct ==
    ASSUME NEW T, 0 \in T, \A n \in Nat : n \in T => n + 1 \in T
    PROVE  Nat \subseteq T
  <1> SUFFICES ASSUME NEW k \in Nat, k \notin T PROVE FALSE
    BY Zenon
  <1> DEFINE U == {X \in FiniteSubsetsOf(Nat) : \E n \in Nat \ T : X = 0..n}
  <1>1. \A n \in Nat : 0..n \in FiniteSubsetsOf(Nat)
    BY FS_Interval DEF FiniteSubsetsOf
  <1>2. U # {} /\ U \subseteq FiniteSubsetsOf(Nat)
    BY <1>1, Zenon
  <1>3. IsWellFoundedOn(StrictSubsetOrdering(Nat), FiniteSubsetsOf(Nat))
    BY FS_StrictSubsetOrderingWellFounded, Zenon
  <1>4. PICK X \in U : \A Y \in U : ~(<<Y, X>> \in StrictSubsetOrdering(Nat))
    BY <1>2, <1>3, WFMin, Zenon
  <1>5. PICK n \in Nat \ T : X = 0..n
    BY <1>4, Zenon
  <1>6. n - 1 \in Nat /\ n - 1 \notin T
    <2>1. n # 0
      BY <1>5, Zenon
    <2>2. n - 1 \in Nat /\ (n - 1) + 1 = n
      BY <2>1
    <2> QED BY <1>5, <2>2, Zenon
  <1>7. 0..(n - 1) \in U
    BY <1>1, <1>6, Zenon
  <1>8. 0..(n - 1) \subseteq X /\ 0..(n - 1) # X
    BY <1>5, <1>6
  <1>9. <<0..(n - 1), X>> \in StrictSubsetOrdering(Nat)
    <2>1. X \in SUBSET Nat
      BY <1>4, Zenon DEF FiniteSubsetsOf
    <2> QED BY <1>8, <2>1, Zenon DEF StrictSubsetOrdering
  <1> QED BY <1>4, <1>7, <1>9, Zenon

\* g lists what a loop starts with and what its first n rounds make of it.
Runs(h, x, n, g) == g[0] = x /\ \A i \in 1..n : g[i] = h[g[i - 1]]

\* There is such a list, however many rounds a walk of the tree takes.
LEMMA RunExists ==
    ASSUME NEW h, NEW x
    PROVE  \A n \in Nat : \E g : Runs(h, x, n, g)
  <1> DEFINE T == {n \in Nat : \E g : Runs(h, x, n, g)}
  <1>1. 0 \in T
    <2>1. Runs(h, x, 0, [i \in {0} |-> x])
      BY DEF Runs
    <2> QED BY <2>1, Zenon
  <1>2. ASSUME NEW n \in Nat, n \in T PROVE n + 1 \in T
    <2>1. PICK g : Runs(h, x, n, g)
      BY <1>2, Zenon
    <2> DEFINE k == [i \in 0..(n + 1) |-> IF i = n + 1 THEN h[g[n]] ELSE g[i]]
    <2>2. Runs(h, x, n + 1, k)
      <3>1. k[0] = x
        BY <2>1 DEF Runs
      <3>2. ASSUME NEW i \in 1..(n + 1) PROVE k[i] = h[k[i - 1]]
        <4>1. k[i - 1] = g[i - 1]
          OBVIOUS
        <4>2. CASE i = n + 1
          BY <4>1, <4>2
        <4>3. CASE i \in 1..n
          <5>1. k[i] = g[i] /\ g[i] = h[g[i - 1]]
            BY <2>1, <4>3 DEF Runs
          <5> QED BY <4>1, <5>1, Zenon
        <4> QED BY <4>2, <4>3
      <3> HIDE DEF k
      <3> QED BY <3>1, <3>2, Zenon DEF Runs
    <2> HIDE DEF k
    <2> QED BY <2>2
  <1> HIDE DEF T
  <1>3. Nat \subseteq T
    BY <1>1, <1>2, Induct, Zenon
  <1> QED BY <1>3, Zenon DEF T

\* And only one: a round of the walks leaves no choice.
LEMMA RunUnique ==
    ASSUME NEW h, NEW x, NEW n \in Nat, NEW g, NEW k, Runs(h, x, n, g), Runs(h, x, n, k)
    PROVE  \A i \in 0..n : g[i] = k[i]
  <1> DEFINE T == {i \in Nat : i \in 0..n => g[i] = k[i]}
  <1>1. 0 \in T
    BY Zenon DEF Runs
  <1>2. ASSUME NEW i \in Nat, i \in T PROVE i + 1 \in T
    <2> SUFFICES ASSUME i + 1 \in 0..n PROVE g[i + 1] = k[i + 1]
      OBVIOUS
    <2>1. i + 1 \in 1..n /\ (i + 1) - 1 = i /\ i \in 0..n
      OBVIOUS
    <2>2. g[i + 1] = h[g[i]] /\ k[i + 1] = h[k[i]]
      BY <2>1, Zenon DEF Runs
    <2> QED BY <1>2, <2>1, <2>2, Zenon
  <1> HIDE DEF T
  <1>3. Nat \subseteq T
    BY <1>1, <1>2, Induct, Zenon
  <1> QED BY <1>3 DEF T

\* Iterate is what the while loops of get_ancestors and get_descendants do: no round
\* changes nothing, and one more round is one more application.
LEMMA IterateFacts ==
    ASSUME NEW h, NEW x
    PROVE  /\ Iterate(h, x, 0) = x
           /\ \A n \in Nat : Iterate(h, x, n + 1) = h[Iterate(h, x, n)]
  <1> DEFINE run(n) == CHOOSE g : Runs(h, x, n, g)
             F == [n \in Nat |-> run(n)[n]]
             Equation(f) == f = [i \in Nat |-> IF i = 0 THEN x ELSE h[f[i - 1]]]
             chosen == CHOOSE f : f = [i \in Nat |-> IF i = 0 THEN x ELSE h[f[i - 1]]]
  <1>1. \A n \in Nat : Runs(h, x, n, run(n))
    BY RunExists, Zenon
  <1> HIDE DEF run
  <1>2. F[0] = x
    BY <1>1, Zenon DEF Runs
  <1>3. ASSUME NEW n \in Nat PROVE F[n + 1] = h[F[n]]
    <2>1. Runs(h, x, n, run(n + 1))
      BY <1>1 DEF Runs
    <2>2. run(n + 1)[n] = run(n)[n]
      BY <1>1, <2>1, RunUnique, n \in 0..n
    <2>3. run(n + 1)[n + 1] = h[run(n + 1)[(n + 1) - 1]]
      BY <1>1, n + 1 \in Nat, n + 1 \in 1..(n + 1), Zenon DEF Runs
    <2> QED BY <2>2, <2>3
  <1>4. Equation(F)
    <2>1. ASSUME NEW i \in Nat PROVE F[i] = IF i = 0 THEN x ELSE h[F[i - 1]]
      BY <1>2, <1>3
    <2>2. DOMAIN F = Nat /\ F = [i \in Nat |-> F[i]]
      BY Zenon
    <2> HIDE DEF F
    <2> QED BY <2>1, <2>2, Zenon
  <1>5. chosen = [i \in Nat |-> IF i = 0 THEN x ELSE h[chosen[i - 1]]]
    BY <1>4, Zenon
  <1> HIDE DEF chosen
  <1>6. chosen[0] = x /\ \A n \in Nat : chosen[n + 1] = h[chosen[n]]
    <2>1. \A i \in Nat : chosen[i] = IF i = 0 THEN x ELSE h[chosen[i - 1]]
      BY <1>5, Zenon
    <2>2. chosen[0] = x
      BY <2>1, 0 \in Nat, Zenon
    <2>3. ASSUME NEW n \in Nat PROVE chosen[n + 1] = h[chosen[n]]
      <3>1. n + 1 \in Nat /\ n + 1 # 0 /\ (n + 1) - 1 = n
        OBVIOUS
      <3>2. chosen[n + 1] = h[chosen[(n + 1) - 1]]
        BY <2>1, <3>1, Zenon
      <3> QED BY <3>1, <3>2, Zenon
    <2> QED BY <2>2, <2>3, Zenon
  <1>7. \A n : Iterate(h, x, n) = chosen[n]
    BY Zenon DEF Iterate, chosen
  <1> QED BY <1>6, <1>7, ZenonT(30)

\* What every round keeps, the whole walk keeps (the lists and stacks of the loops hold
\* tenants only).
LEMMA IterateTyped ==
    ASSUME NEW S, NEW h \in [S -> S], NEW x \in S
    PROVE  \A n \in Nat : Iterate(h, x, n) \in S
  <1> DEFINE T == {n \in Nat : Iterate(h, x, n) \in S}
  <1>1. 0 \in T
    BY IterateFacts, Zenon
  <1>2. ASSUME NEW n \in Nat, n \in T PROVE n + 1 \in T
    <2>1. Iterate(h, x, n + 1) = h[Iterate(h, x, n)]
      BY IterateFacts, ZenonT(30)
    <2> QED BY <1>2, <2>1
  <1> HIDE DEF T
  <1>3. Nat \subseteq T
    BY <1>1, <1>2, Induct, Zenon
  <1> QED BY <1>3, Zenon DEF T

\* The first round may be split off as well as the last: from a tenant on is from its
\* parent on, one link less.
LEMMA IterateShifts ==
    ASSUME NEW h, NEW x
    PROVE  \A n \in Nat : Iterate(h, x, n + 1) = Iterate(h, h[x], n)
  <1> DEFINE T == {n \in Nat : Iterate(h, x, n + 1) = Iterate(h, h[x], n)}
  <1>1. 0 \in T
    <2>1. Iterate(h, x, 0 + 1) = h[Iterate(h, x, 0)]
      BY IterateFacts, 0 \in Nat, Zenon
    <2>2. Iterate(h, x, 0) = x /\ Iterate(h, h[x], 0) = h[x]
      BY IterateFacts, Zenon
    <2> QED BY <2>1, <2>2, Zenon
  <1>2. ASSUME NEW n \in Nat, n \in T PROVE n + 1 \in T
    <2>1. /\ Iterate(h, x, (n + 1) + 1) = h[Iterate(h, x, n + 1)]
          /\ Iterate(h, h[x], n + 1) = h[Iterate(h, h[x], n)]
      BY IterateFacts, n + 1 \in Nat, ZenonT(30)
    <2> QED BY <1>2, <2>1
  <1> HIDE DEF T
  <1>3. Nat \subseteq T
    BY <1>1, <1>2, Induct, Zenon
  <1> QED BY <1>3, Zenon DEF T

-----------------------------------------------------------------------------
(* The walks of TenantStore.                                                 *)

\* What the table of tenants may hold, and where a link may lead.
Table == [Tenants -> Tenants \cup {Root, Absent}]
Tenant == Tenants \cup {Absent}

\* A link leads to the parent if the table has it, and nowhere otherwise
\* (get_ancestors stops at a parent that is not in by_id).
LEMMA LinkFacts ==
    ASSUME NEW p \in Table
    PROVE  /\ link(p) \in [Tenant -> Tenant] /\ link(p)[Absent] = Absent
           /\ \A t \in Tenants : link(p)[t] = IF Exists(p, p[t]) THEN p[t] ELSE Absent
  <1>1. Absent \notin Tenants
    BY TenancyAssumption, Zenon
  <1>2. \A t \in Tenants : Exists(p, p[t]) => Exists(p, t)
    BY <1>1, Zenon DEF Exists
  <1>3. \A t \in Tenants : link(p)[t] = IF Exists(p, p[t]) THEN p[t] ELSE Absent
    BY <1>2, Zenon DEF link
  <1>4. link(p)[Absent] = Absent
    BY <1>1, Zenon DEF link, Exists
  <1>5. link(p) \in [Tenant -> Tenant]
    BY Zenon DEF link, Exists, Tenant
  <1> QED BY <1>3, <1>4, <1>5, Zenon

\* The links followed from a tenant, one by one, as get_ancestors follows them.
LEMMA UpFacts ==
    ASSUME NEW p \in Table, NEW t \in Tenant
    PROVE  /\ Up(p, t, 0) = t
           /\ \A n \in Nat : /\ Up(p, t, n) \in Tenant
                             /\ Up(p, t, n + 1) = link(p)[Up(p, t, n)]
                             /\ Up(p, t, n + 1) = Up(p, link(p)[t], n)
  <1> DEFINE h == link(p)
  <1>1. h \in [Tenant -> Tenant]
    BY LinkFacts, Zenon
  <1> HIDE DEF h
  <1>2. \A n \in Nat : Iterate(h, t, n) \in Tenant
    BY <1>1, IterateTyped, Zenon
  <1>3. /\ Iterate(h, t, 0) = t
        /\ \A n \in Nat : Iterate(h, t, n + 1) = h[Iterate(h, t, n)]
    BY IterateFacts, ZenonT(30)
  <1>4. \A n \in Nat : Iterate(h, t, n + 1) = Iterate(h, h[t], n)
    BY IterateShifts, Zenon
  <1> QED BY <1>2, <1>3, <1>4, Zenon DEF Up, h

\* From a tenant that is not there, no link leads anywhere.
LEMMA NothingAbove ==
    ASSUME NEW p \in Table
    PROVE  \A n \in Nat : Up(p, Absent, n) = Absent
  <1>1. link(p) \in [Tenant -> Tenant] /\ link(p)[Absent] = Absent /\ Absent \in Tenant
    BY LinkFacts, Zenon DEF Tenant
  <1> DEFINE T == {n \in Nat : Up(p, Absent, n) = Absent}
  <1>2. 0 \in T
    BY <1>1, UpFacts, Zenon
  <1>3. ASSUME NEW n \in Nat, n \in T PROVE n + 1 \in T
    BY <1>1, <1>3, UpFacts
  <1> HIDE DEF T
  <1>4. Nat \subseteq T
    BY <1>2, <1>3, Induct, Zenon
  <1> QED BY <1>4, Zenon DEF T

\* The list is what the links lead to, one by one and none twice, and when a round has
\* added nothing the next link leads to one of them or to none.
Climbed(p, t, n, s) ==
    /\ s \in Seq(Tenants) /\ Len(s) <= n
    /\ \A i \in 1..Len(s) : s[i] = Up(p, t, i)
    /\ \A i, j \in 1..Len(s) : s[i] = s[j] => i = j
    /\ Len(s) = n \/ Up(p, t, Len(s) + 1) \in Range(s) \cup {Absent}

\* The elements of get_ancestors' list are those at its positions.
LEMMA RangeOf == ASSUME NEW s \in Seq(Tenants)
                 PROVE  \A u : u \in Range(s) <=> \E i \in 1..Len(s) : u = s[i]
  BY DEF Range

\* A round of get_ancestors adds the next tenant the links lead to, unless there is none
\* or the list has it already (the cycle guard).
LEMMA ClimbRound ==
    ASSUME NEW p \in Table, NEW t \in Tenants, NEW s \in Seq(Tenants),
           \A i \in 1..Len(s) : s[i] = Up(p, t, i)
    PROVE  climb(p, t)[s] = IF Up(p, t, Len(s) + 1) \notin Range(s) \cup {Absent}
                            THEN Append(s, Up(p, t, Len(s) + 1)) ELSE s
  <1> DEFINE u == Up(p, t, Len(s) + 1)
             c == IF s = <<>> THEN t ELSE s[Len(s)]
  <1>0. Absent \notin Tenants /\ Root \notin Tenants /\ t \in Tenant
    BY TenancyAssumption, Zenon DEF Tenant
  <1>1. Len(s) \in Nat /\ (s = <<>> => Len(s) = 0) /\ (s # <<>> => Len(s) \in 1..Len(s))
    OBVIOUS
  <1>2. c \in Tenants /\ c = Up(p, t, Len(s))
    <2>1. CASE s = <<>>
      BY <1>0, <1>1, <2>1, UpFacts, Zenon
    <2>2. CASE s # <<>>
      <3>1. s[Len(s)] \in Tenants
        BY <1>1, <2>2
      <3> QED BY <1>1, <2>2, <3>1, Zenon
    <2> QED BY <2>1, <2>2, Zenon
  <1>3. u = link(p)[c]
    <2>1. \A n \in Nat : Up(p, t, n + 1) = link(p)[Up(p, t, n)]
      BY <1>0, UpFacts, Zenon
    <2> HIDE DEF c
    <2> QED BY <1>1, <1>2, <2>1, Zenon
  <1>4. u = IF Exists(p, p[c]) THEN p[c] ELSE Absent
    BY <1>2, <1>3, LinkFacts, Zenon
  <1>5. climb(p, t)[s] = IF /\ Exists(p, c) /\ p[c] # Root /\ p[c] \notin Range(s)
                            /\ Exists(p, p[c])
                         THEN Append(s, p[c]) ELSE s
    BY Zenon DEF climb
  <1> HIDE DEF u, c
  <1>6. Exists(p, p[c]) => Exists(p, c) /\ p[c] # Root /\ p[c] # Absent
    BY <1>0, <1>2, Zenon DEF Exists
  <1>7. climb(p, t)[s] = IF u \notin Range(s) \cup {Absent} THEN Append(s, u) ELSE s
    BY <1>4, <1>5, <1>6, Zenon
  <1> QED BY <1>7, Zenon DEF u

\* A round of get_ancestors keeps what its list is.
LEMMA ClimbStep ==
    ASSUME NEW p \in Table, NEW t \in Tenants, NEW n \in Nat, NEW s, Climbed(p, t, n, s)
    PROVE  Climbed(p, t, n + 1, climb(p, t)[s])
  <1> DEFINE u == Up(p, t, Len(s) + 1)
             r == Append(s, u)
  <1>0. /\ s \in Seq(Tenants) /\ Len(s) <= n /\ Len(s) \in Nat
        /\ \A i \in 1..Len(s) : s[i] = Up(p, t, i)
        /\ \A i, j \in 1..Len(s) : s[i] = s[j] => i = j
        /\ Len(s) = n \/ u \in Range(s) \cup {Absent}
    BY DEF Climbed
  <1>1. climb(p, t)[s] = IF u \notin Range(s) \cup {Absent} THEN r ELSE s
    <2>1. s \in Seq(Tenants) /\ \A i \in 1..Len(s) : s[i] = Up(p, t, i)
      BY <1>0, Zenon
    <2> QED BY <2>1, ClimbRound, Zenon
  <1>2. u \in Tenant
    BY <1>0, UpFacts, Len(s) + 1 \in Nat, Zenon DEF Tenant
  <1>3. CASE u \in Range(s) \cup {Absent}
    BY <1>0, <1>1, <1>3 DEF Climbed
  <1>4. CASE u \notin Range(s) \cup {Absent}
    <2>1. Len(s) = n /\ u \in Tenants
      BY <1>0, <1>2, <1>4, Zenon DEF Tenant
    <2> HIDE DEF u
    <2>2. /\ r \in Seq(Tenants) /\ Len(r) = n + 1 /\ r[n + 1] = u
          /\ \A i \in 1..n : r[i] = s[i]
      BY <1>0, <2>1
    <2> HIDE DEF r
    <2>3. \A i \in 1..(n + 1) : i = n + 1 \/ i \in 1..n
      OBVIOUS
    <2>4. u = Up(p, t, n + 1)
      BY <2>1, Zenon DEF u
    <2>5. \A i \in 1..n : s[i] # u
      BY <1>0, <1>4, <2>1, RangeOf, Zenon
    <2>6. \A i \in 1..(n + 1) : r[i] = Up(p, t, i)
      BY <1>0, <2>1, <2>2, <2>3, <2>4, Zenon
    <2>7. \A i, j \in 1..(n + 1) : r[i] = r[j] => i = j
      BY <1>0, <2>1, <2>2, <2>3, <2>5
    <2>8. Len(r) <= n + 1
      BY <2>2
    <2>9. Climbed(p, t, n + 1, r)
      BY <2>2, <2>6, <2>7, <2>8, Zenon DEF Climbed
    <2> QED BY <1>1, <1>4, <2>9, Zenon
  <1> QED BY <1>3, <1>4, Zenon

\* So its list is that after any number of rounds.
LEMMA AncestorsClimbed ==
    ASSUME NEW p \in Table, NEW t \in Tenants
    PROVE  \A n \in Nat : Climbed(p, t, n, Iterate(climb(p, t), <<>>, n))
  <1> DEFINE s(n) == Iterate(climb(p, t), <<>>, n)
             T == {n \in Nat : Climbed(p, t, n, s(n))}
  <1>0. s(0) = <<>> /\ \A n \in Nat : s(n + 1) = climb(p, t)[s(n)]
    BY IterateFacts, ZenonT(30)
  <1> HIDE DEF s
  <1>1. 0 \in T
    <2>1. Climbed(p, t, 0, <<>>)
      BY DEF Climbed
    <2> QED BY <1>0, <2>1, Zenon
  <1>2. ASSUME NEW n \in Nat, n \in T PROVE n + 1 \in T
    <2>1. Climbed(p, t, n + 1, s(n + 1))
      BY <1>0, <1>2, ClimbStep, Zenon
    <2> QED BY <2>1
  <1> HIDE DEF T
  <1>3. Nat \subseteq T
    BY <1>1, <1>2, Induct, Zenon
  <1> QED BY <1>3, Zenon DEF T, s

\* Every tenant the links lead to, in however many steps, is in get_ancestors' list.
LEMMA AncestorsComplete ==
    ASSUME NEW p \in Table, NEW t \in Tenants
    PROVE  \A n \in Nat : Up(p, t, n + 1) \in Range(get_ancestors(p, t)) \cup {Absent}
  <1> DEFINE C == Cardinality(Tenants)
             s == get_ancestors(p, t)
             T == {n \in Nat : Up(p, t, n + 1) \in Range(s) \cup {Absent}}
  <1>0. C \in Nat /\ t \in Tenant
    BY FS_CardinalityType, TenancyAssumption, Zenon DEF Tenant
  <1>1. Climbed(p, t, C, s)
    BY <1>0, AncestorsClimbed, Zenon DEF get_ancestors
  <1> HIDE DEF C, s
  <1>2. /\ s \in Seq(Tenants) /\ Len(s) \in Nat
        /\ \A i \in 1..Len(s) : s[i] = Up(p, t, i)
    BY <1>1 DEF Climbed
  <1>3. \A n \in Nat : Up(p, t, n) \in Tenant /\ Up(p, t, n + 1) = link(p)[Up(p, t, n)]
    BY <1>0, UpFacts, Zenon
  <1>4. Up(p, t, Len(s) + 1) \in Range(s) \cup {Absent}
    <2>1. CASE Len(s) = C
      <3>1. Range(s) = Tenants
        <4>1. s \in Injection(1..C, Tenants)
          <5>1. s \in [1..C -> Tenants] /\ \A i, j \in 1..C : s[i] = s[j] => i = j
            BY <1>1, <2>1 DEF Climbed
          <5> QED BY <5>1, Zenon DEF Injection, IsInjective
        <4>2. Cardinality(1..C) = C
          BY <1>0, FS_Interval
        <4>3. s \in Surjection(1..C, Tenants)
          BY <4>1, <4>2, FS_Injection, TenancyAssumption, Zenon DEF C
        <4>4. \A u \in Tenants : \E i \in 1..Len(s) : u = s[i]
          BY <2>1, <4>3, Zenon DEF Surjection
        <4>5. \A i \in 1..Len(s) : s[i] \in Tenants
          BY <1>2
        <4>6. \A u : u \in Range(s) <=> \E i \in 1..Len(s) : u = s[i]
          BY <1>2, RangeOf, Zenon
        <4> QED BY <4>4, <4>5, <4>6, ZenonT(30)
      <3> QED BY <1>2, <1>3, <3>1 DEF Tenant
    <2> QED BY <1>1, <2>1, Zenon DEF Climbed
  <1>5. ASSUME NEW u \in Range(s) \cup {Absent}
        PROVE  link(p)[u] \in Range(s) \cup {Absent}
    <2>1. CASE u = Absent
      BY <2>1, LinkFacts, Zenon
    <2>2. CASE u \in Range(s)
      <3>0. \E i \in 1..Len(s) : u = s[i]
        BY <1>2, <2>2, RangeOf, ZenonT(30)
      <3>1. PICK i \in 1..Len(s) : u = Up(p, t, i)
        BY <1>2, <3>0, Zenon
      <3>2. link(p)[u] = Up(p, t, i + 1)
        <4>1. i \in Nat
          OBVIOUS
        <4> QED BY <1>3, <3>1, <4>1, Zenon
      <3>3. CASE i = Len(s)
        BY <1>4, <3>2, <3>3, Zenon
      <3>4. CASE i # Len(s)
        <4>1. i + 1 \in 1..Len(s)
          BY <1>2, <3>4
        <4> QED BY <1>2, <3>2, <4>1, RangeOf, Zenon
      <3> QED BY <3>3, <3>4, Zenon
    <2> QED BY <2>1, <2>2, Zenon
  <1>6. 0 \in T
    <2>1. CASE Len(s) = 0
      BY <1>4, <2>1, Zenon
    <2>2. CASE Len(s) # 0
      <3>1. 1 \in 1..Len(s) /\ 0 + 1 = 1
        BY <1>2, <2>2
      <3> QED BY <1>2, <3>1, RangeOf, Zenon
    <2> QED BY <2>1, <2>2, Zenon
  <1>7. ASSUME NEW n \in Nat, n \in T PROVE n + 1 \in T
    BY <1>3, <1>5, <1>7, n + 1 \in Nat, Zenon
  <1> HIDE DEF T
  <1>8. Nat \subseteq T
    BY <1>6, <1>7, Induct, Zenon
  <1> QED BY <1>8, Zenon DEF T, s

\* get_ancestors finds the tenants above its tenant, each once, and its loop is over.
LEMMA AncestorsAreAbove ==
    ASSUME NEW p \in Table, NEW t \in Tenants
    PROVE  /\ Range(get_ancestors(p, t)) = Above(p, t)
           /\ get_ancestors(p, t) \in Seq(Tenants)
           /\ climb(p, t)[get_ancestors(p, t)] = get_ancestors(p, t)
           /\ IsFiniteSet(Above(p, t))
           /\ Cardinality(Above(p, t)) = Len(get_ancestors(p, t))
  <1> DEFINE C == Cardinality(Tenants)
             s == get_ancestors(p, t)
  <1>0. C \in Nat /\ Absent \notin Tenants
    BY FS_CardinalityType, TenancyAssumption, Zenon
  <1>1. Climbed(p, t, C, s)
    BY <1>0, AncestorsClimbed, Zenon DEF get_ancestors
  <1> HIDE DEF C
  <1>2. \A n \in Nat : Up(p, t, n + 1) \in Range(s) \cup {Absent}
    BY AncestorsComplete, Zenon
  <1> HIDE DEF s
  <1>3. /\ s \in Seq(Tenants) /\ Len(s) \in Nat /\ Len(s) <= C
        /\ \A i \in 1..Len(s) : s[i] = Up(p, t, i) /\ s[i] \in Tenants
        /\ \A i, j \in 1..Len(s) : s[i] = s[j] => i = j
    BY <1>1 DEF Climbed
  <1>4. Range(s) \subseteq Above(p, t)
    <2>1. \A i \in 1..Len(s) : i \in 1..C
      BY <1>0, <1>3
    <2>2. \A i \in 1..Len(s) : s[i] \in Above(p, t)
      BY <1>0, <1>3, <2>1, Zenon DEF Above, C
    <2>3. \A u : u \in Range(s) <=> \E i \in 1..Len(s) : u = s[i]
      BY <1>3, RangeOf, Zenon
    <2> QED BY <2>2, <2>3, Zenon
  <1>5. Above(p, t) \subseteq Range(s)
    <2>1. ASSUME NEW n \in 1..C PROVE Up(p, t, n) \in Range(s) \cup {Absent}
      <3>1. n - 1 \in Nat /\ (n - 1) + 1 = n
        BY <1>0
      <3> QED BY <1>2, <3>1, Zenon
    <2> QED BY <2>1, Zenon DEF Above, C
  <1>6. climb(p, t)[s] = s
    <2>1. Up(p, t, Len(s) + 1) \in Range(s) \cup {Absent}
      BY <1>2, <1>3, Zenon
    <2> QED BY <1>3, <2>1, ClimbRound
  <1>7. IsFiniteSet(Range(s)) /\ Cardinality(Range(s)) = Len(s)
    <2>1. s \in Bijection(1..Len(s), Range(s))
      <3>1. \A u : u \in Range(s) <=> \E i \in 1..Len(s) : u = s[i]
        BY <1>3, RangeOf, Zenon
      <3>2. s \in [1..Len(s) -> Range(s)]
        BY <1>3, <3>1
      <3> QED BY <1>3, <3>1, <3>2, Zenon DEF Bijection, Injection, IsInjective, Surjection
    <2>2. IsFiniteSet(1..Len(s)) /\ Cardinality(1..Len(s)) = Len(s)
      <3>1. 1 \in Int /\ Len(s) \in Int
        BY <1>3
      <3>2. /\ IsFiniteSet(1..Len(s))
            /\ Cardinality(1..Len(s)) = IF 1 > Len(s) THEN 0 ELSE Len(s) - 1 + 1
        BY <3>1, FS_Interval, Zenon
      <3> QED BY <1>3, <3>2
    <2>3. ExistsBijection(1..Len(s), Range(s))
      BY <2>1, Zenon DEF ExistsBijection
    <2> DEFINE I == 1..Len(s)
               R == Range(s)
    <2>4. IsFiniteSet(I) /\ ExistsBijection(I, R) /\ Cardinality(I) = Len(s)
      BY <2>2, <2>3, Zenon
    <2> HIDE DEF I, R
    <2>5. IsFiniteSet(R) /\ Cardinality(R) = Cardinality(I)
      BY <2>4, FS_Bijection, Zenon
    <2> QED BY <2>4, <2>5, Zenon DEF R
  <1>8. Range(s) = Above(p, t)
    BY <1>4, <1>5, Zenon
  <1> QED BY <1>3, <1>6, <1>7, <1>8, Zenon DEF s

\* The tenants get_ancestors finds are those the links lead to in any number of steps.
LEMMA AboveIsReached ==
    ASSUME NEW p \in Table, NEW u \in Tenants, NEW t \in Tenants
    PROVE  t \in Above(p, u) <=> \E n \in Nat : Up(p, u, n + 1) = t
  <1>1. Absent \notin Tenants /\ Cardinality(Tenants) \in Nat
    BY FS_CardinalityType, TenancyAssumption, Zenon
  <1>2. ASSUME NEW n \in Nat, Up(p, u, n + 1) = t PROVE t \in Above(p, u)
    <2>1. t \in Range(get_ancestors(p, u)) \cup {Absent}
      BY <1>2, AncestorsComplete, Zenon
    <2> QED BY <1>1, <2>1, AncestorsAreAbove, Zenon
  <1>3. ASSUME t \in Above(p, u) PROVE \E n \in Nat : Up(p, u, n + 1) = t
    <2>1. PICK m \in 1..Cardinality(Tenants) : Up(p, u, m) = t
      BY <1>3, Zenon DEF Above
    <2>2. m - 1 \in Nat /\ (m - 1) + 1 = m
      BY <1>1
    <2> QED BY <2>1, <2>2, Zenon
  <1> QED BY <1>2, <1>3, Zenon

\* The tenants that have t above them.
Below(p, t) == {u \in Tenants : t \in Above(p, u)}

\* The children get_descendants puts on its stack are below the tenant, as theirs are.
LEMMA ChildrenBelow ==
    ASSUME NEW p \in Table, NEW t \in Tenants, Exists(p, t)
    PROVE  /\ get_children(p, t) \subseteq Below(p, t)
           /\ \A u \in Below(p, t) : get_children(p, u) \subseteq Below(p, t)
  <1>0. Absent \notin Tenants /\ Tenants \subseteq Tenant
    BY TenancyAssumption, Zenon DEF Tenant
  <1>1. ASSUME NEW u \in Tenants, Exists(p, u), NEW c \in get_children(p, u)
        PROVE  c \in Tenants /\ link(p)[c] = u
    BY <1>1, LinkFacts, Zenon DEF get_children
  <1>2. ASSUME NEW c \in get_children(p, t) PROVE c \in Below(p, t)
    <2>1. c \in Tenants /\ link(p)[c] = t
      BY <1>1, Zenon
    <2>2. Up(p, c, 0) = c /\ Up(p, c, 0 + 1) = link(p)[Up(p, c, 0)]
      BY <1>0, <2>1, UpFacts, 0 \in Nat, Zenon
    <2>3. Up(p, c, 0 + 1) = t
      BY <2>1, <2>2, Zenon
    <2> QED BY <2>1, <2>3, AboveIsReached, 0 \in Nat, Zenon DEF Below
  <1>3. ASSUME NEW u \in Below(p, t), NEW c \in get_children(p, u) PROVE c \in Below(p, t)
    <2>1. u \in Tenants /\ t \in Above(p, u)
      BY Zenon DEF Below
    <2>2. PICK n \in Nat : Up(p, u, n + 1) = t
      BY <2>1, AboveIsReached, ZenonT(30)
    <2>3. Up(p, link(p)[u], n) = t
      BY <1>0, <2>1, <2>2, UpFacts, ZenonT(30)
    <2>4. Exists(p, u)
      <3>1. link(p)[u] # Absent
        BY <1>0, <2>3, NothingAbove, Zenon
      <3> QED BY <2>1, <3>1, Zenon DEF link, Exists
    <2>5. c \in Tenants /\ link(p)[c] = u
      BY <1>1, <2>1, <2>4, Zenon
    <2>6. Up(p, c, (n + 1) + 1) = t
      BY <1>0, <2>2, <2>5, UpFacts, n + 1 \in Nat, ZenonT(30)
    <2> QED BY <2>5, <2>6, AboveIsReached, n + 1 \in Nat, Zenon DEF Below
  <1> QED BY <1>2, <1>3, Zenon

\* What the search has found and what it still has on its stack.
Searched(p, t, w) ==
    /\ w \in [stack : SUBSET Tenants, seen : SUBSET Tenants]
    /\ w.stack \cup w.seen \subseteq Below(p, t)
    /\ get_children(p, t) \subseteq w.stack \cup w.seen
    /\ \A n \in w.seen : get_children(p, n) \subseteq w.stack \cup w.seen

\* How many rounds it has left at most.
Left(p, w) == Cardinality(w.stack) + Cardinality({u \in Tenants : p[u] \notin w.seen})

\* With its stack empty, get_descendants has found all there is.
LEMMA SearchComplete ==
    ASSUME NEW p \in Table, NEW t \in Tenants, NEW w, Searched(p, t, w), w.stack = {}
    PROVE  w.seen = Below(p, t)
  <1> DEFINE T == {n \in Nat : \A u \in Tenants : Up(p, u, n + 1) = t => u \in w.seen}
  <1>0. Absent \notin Tenants /\ Tenants \subseteq Tenant /\ Tenant \ {Absent} \subseteq Tenants
    BY TenancyAssumption, Zenon DEF Tenant
  <1>1. /\ w.seen \subseteq Below(p, t) /\ get_children(p, t) \subseteq w.seen
        /\ \A n \in w.seen : get_children(p, n) \subseteq w.seen
    BY Zenon DEF Searched
  <1>2. ASSUME NEW u \in Tenants, link(p)[u] \in Tenants
        PROVE  u \in get_children(p, link(p)[u])
    BY <1>0, <1>2, LinkFacts, Zenon DEF get_children
  <1>3. 0 \in T
    <2>1. ASSUME NEW u \in Tenants, Up(p, u, 0 + 1) = t PROVE u \in w.seen
      <3>0. u \in Tenant /\ 0 \in Nat
        BY <1>0, Zenon
      <3>1. Up(p, u, 0) = u /\ Up(p, u, 0 + 1) = link(p)[Up(p, u, 0)]
        BY <3>0, UpFacts, ZenonT(30)
      <3>2. link(p)[u] = t
        BY <2>1, <3>1, Zenon
      <3> QED BY <1>1, <1>2, <3>2, Zenon
    <2> QED BY <2>1, 0 \in Nat, Zenon
  <1>4. ASSUME NEW n \in Nat, n \in T PROVE n + 1 \in T
    <2>1. ASSUME NEW u \in Tenants, Up(p, u, (n + 1) + 1) = t PROVE u \in w.seen
      <3> DEFINE v == link(p)[u]
      <3>1. v \in Tenant
        BY <1>0, LinkFacts, Zenon
      <3>2. Up(p, v, n + 1) = t
        <4>1. \A m \in Nat : Up(p, u, m + 1) = Up(p, link(p)[u], m)
          <5>1. u \in Tenant
            BY <1>0, Zenon
          <5> QED BY <5>1, UpFacts
        <4> QED BY <2>1, <4>1, n + 1 \in Nat, Zenon
      <3>3. v \in Tenants
        BY <1>0, <3>1, <3>2, NothingAbove, n + 1 \in Nat, Zenon
      <3>4. v \in w.seen
        BY <1>4, <3>2, <3>3, Zenon
      <3> QED BY <1>1, <1>2, <3>3, <3>4, Zenon
    <2> QED BY <2>1, n + 1 \in Nat, Zenon
  <1> HIDE DEF T
  <1>5. Nat \subseteq T
    BY <1>3, <1>4, Induct, Zenon
  <1>6. \A u \in Below(p, t) : u \in w.seen
    BY <1>5, AboveIsReached, ZenonT(30) DEF Below, T
  <1> QED BY <1>1, <1>6, Zenon

\* A round of get_descendants keeps this, and leaves it fewer rounds.
LEMMA SearchStep ==
    ASSUME NEW p \in Table, NEW t \in Tenants, Exists(p, t), NEW w, Searched(p, t, w),
           w.stack # {}
    PROVE  /\ Searched(p, t, descend(p)[w]) /\ Left(p, w) \in Nat \ {0}
           /\ Left(p, descend(p)[w]) \in 0..(Left(p, w) - 1)
  <1> DEFINE node == CHOOSE n \in w.stack : TRUE
             K == get_children(p, node)
             todo(seen) == {u \in Tenants : p[u] \notin seen}
             stack == w.stack
             seen == w.seen
  <1>1. w \in [stack : SUBSET Tenants, seen : SUBSET Tenants] /\ node \in stack
    BY Zenon DEF Searched
  <1>2. stack \subseteq Tenants /\ seen \subseteq Tenants /\ K \subseteq Tenants
    BY <1>1, Zenon DEF get_children
  <1>3. descend(p)[w] = IF node \in seen THEN [stack |-> stack \ {node}, seen |-> seen]
                        ELSE [stack |-> (stack \ {node}) \cup K, seen |-> seen \cup {node}]
    BY <1>1, Zenon DEF descend
  <1>4. /\ stack \cup seen \subseteq Below(p, t)
        /\ get_children(p, t) \subseteq stack \cup seen
        /\ \A n \in seen : get_children(p, n) \subseteq stack \cup seen
        /\ K \subseteq Below(p, t)
    <2>1. node \in Below(p, t)
      BY <1>1, Zenon DEF Searched
    <2> QED BY <2>1, ChildrenBelow, Zenon DEF Searched
  <1> HIDE DEF node, K, stack, seen
  <1>5. /\ IsFiniteSet(stack) /\ Cardinality(stack) \in Nat
        /\ IsFiniteSet(K) /\ Cardinality(K) \in Nat
        /\ IsFiniteSet(todo(seen)) /\ Cardinality(todo(seen)) \in Nat
    <2>1. todo(seen) \subseteq Tenants
      BY Zenon
    <2> HIDE DEF todo
    <2> QED BY <1>2, <2>1, TenancyAssumption, FS_Subset, FS_CardinalityType, Zenon
  <1>6. /\ IsFiniteSet(stack \ {node}) /\ Cardinality(stack \ {node}) = Cardinality(stack) - 1
        /\ Cardinality(stack \ {node}) \in Nat
    BY <1>1, <1>5, FS_RemoveElement, FS_CardinalityType, Zenon
  <1>7. Left(p, w) = Cardinality(stack) + Cardinality(todo(seen))
    BY Zenon DEF Left, stack, seen
  <1>8. CASE node \in seen
    <2> DEFINE v == [stack |-> stack \ {node}, seen |-> seen]
    <2>1. descend(p)[w] = v /\ v.stack = stack \ {node} /\ v.seen = seen
          /\ v \in [stack : SUBSET Tenants, seen : SUBSET Tenants]
      BY <1>2, <1>3, <1>8, Zenon
    <2> HIDE DEF v
    <2>2. Searched(p, t, v)
      BY <1>4, <1>8, <2>1, Zenon DEF Searched
    <2>3. Left(p, v) = Cardinality(stack \ {node}) + Cardinality(todo(seen))
      BY <2>1, Zenon DEF Left
    <2> HIDE DEF todo
    <2> QED BY <1>5, <1>6, <1>7, <2>1, <2>2, <2>3
  <1>9. CASE node \notin seen
    <2> DEFINE v == [stack |-> (stack \ {node}) \cup K, seen |-> seen \cup {node}]
    <2>1. descend(p)[w] = v /\ v.stack = (stack \ {node}) \cup K /\ v.seen = seen \cup {node}
      BY <1>3, <1>9, Zenon
    <2>2. v \in [stack : SUBSET Tenants, seen : SUBSET Tenants]
      BY <1>1, <1>2, Zenon
    <2> HIDE DEF v
    <2>3. Searched(p, t, v)
      <3>1. v.stack \cup v.seen \subseteq Below(p, t)
        BY <1>1, <1>4, <2>1, Zenon
      <3>2. stack \cup seen \subseteq v.stack \cup v.seen /\ K \subseteq v.stack
        BY <2>1, Zenon
      <3>3. \A n \in v.seen : get_children(p, n) \subseteq v.stack \cup v.seen
        BY <1>4, <2>1, <3>2, Zenon DEF K
      <3> QED BY <1>4, <2>2, <3>1, <3>2, <3>3, Zenon DEF Searched
    <2>4. K \subseteq todo(seen) /\ todo(seen \cup {node}) = todo(seen) \ K
      BY <1>9, Zenon DEF K, get_children
    <2>5. Left(p, v) = Cardinality((stack \ {node}) \cup K) + Cardinality(todo(seen \cup {node}))
      BY <2>1, Zenon DEF Left
    <2> HIDE DEF todo
    <2> DEFINE A == stack \ {node}
               M == todo(seen)
    <2>6. /\ Cardinality(A \cup K) = Cardinality(A) + Cardinality(K) - Cardinality(A \cap K)
          /\ IsFiniteSet(A \cup K)
      BY <1>5, <1>6, FS_Union, Zenon
    <2>7. Cardinality(M \ K) = Cardinality(M) - Cardinality(M \cap K) /\ M \cap K = K
      BY <1>5, <2>4, FS_Difference, Zenon
    <2>8. Cardinality(A \cap K) \in Nat /\ Cardinality(A \cup K) \in Nat
          /\ Cardinality(M \ K) \in Nat
      BY <1>5, <1>6, <2>6, FS_Intersection, FS_Difference, FS_CardinalityType, Zenon
    <2>9. Left(p, v) = Cardinality(A \cup K) + Cardinality(M \ K)
      BY <2>4, <2>5, Zenon
    <2> HIDE DEF A, M
    <2>10. Cardinality(A) = Cardinality(stack) - 1 /\ Cardinality(M) \in Nat
           /\ Left(p, w) = Cardinality(stack) + Cardinality(M) /\ Cardinality(A) \in Nat
      BY <1>5, <1>6, <1>7, Zenon DEF A, M
    <2>11. Cardinality(M \ K) = Cardinality(M) - Cardinality(K)
      BY <2>7, Zenon
    <2>12. Left(p, v) \in 0..(Left(p, w) - 1) /\ Left(p, w) \in Nat \ {0}
      BY <1>5, <2>6, <2>8, <2>9, <2>10, <2>11
    <2> QED BY <2>1, <2>3, <2>12, Zenon
  <1> QED BY <1>8, <1>9, Zenon

\* get_descendants' loop ends, and has found the tenants below its tenant.
LEMMA DescendantsAreBelow ==
    ASSUME NEW p \in Table, NEW t \in Tenants, Exists(p, t)
    PROVE  search(p, t).stack = {} /\ get_descendants(p, t) = Below(p, t)
  <1> DEFINE C == Cardinality(Tenants)
             w0 == [stack |-> get_children(p, t), seen |-> {}]
             w(n) == Iterate(descend(p), w0, n)
             T == {n \in Nat : /\ Searched(p, t, w(n)) /\ Left(p, w(n)) \in Nat
                               /\ w(n).stack = {} \/ Left(p, w(n)) + n <= 2 * C}
  <1>0. C \in Nat /\ 2 * C \in Nat
    BY FS_CardinalityType, TenancyAssumption
  <1>1. w(0) = w0 /\ \A n \in Nat : w(n + 1) = descend(p)[w(n)]
    BY IterateFacts, ZenonT(30)
  <1>2. Searched(p, t, w0)
    BY ChildrenBelow, Zenon DEF Searched, get_children
  <1>3. Left(p, w0) \in 0..(2 * C)
    <2> DEFINE K == get_children(p, t)
               M == {u \in Tenants : p[u] \notin {}}
    <2>1. K \subseteq Tenants /\ M \subseteq Tenants
      BY Zenon DEF get_children
    <2>2. Left(p, w0) = Cardinality(K) + Cardinality(M)
      BY Zenon DEF Left
    <2> HIDE DEF K, M
    <2>3. Cardinality(K) \in Nat /\ Cardinality(M) \in Nat
          /\ Cardinality(K) <= C /\ Cardinality(M) <= C
      BY <2>1, TenancyAssumption, FS_Subset, FS_CardinalityType, Zenon
    <2> HIDE DEF C
    <2> QED BY <1>0, <2>2, <2>3
  <1> HIDE DEF C, w, w0
  <1>4. 0 \in T
    BY <1>0, <1>1, <1>2, <1>3
  <1>5. ASSUME NEW n \in Nat, n \in T PROVE n + 1 \in T
    <2>1. CASE w(n).stack = {}
      <3>1. descend(p)[w(n)] = w(n)
        BY <1>5, <2>1, Zenon DEF descend, Searched
      <3>2. w(n + 1) = w(n)
        BY <1>1, <3>1, Zenon
      <3> QED BY <1>5, <2>1, <3>2, n + 1 \in Nat, Zenon
    <2>2. CASE w(n).stack # {}
      <3>1. Searched(p, t, w(n)) /\ Left(p, w(n)) + n <= 2 * C
        BY <1>5, <2>2, Zenon
      <3>2. /\ Searched(p, t, w(n + 1)) /\ Left(p, w(n)) \in Nat \ {0}
            /\ Left(p, w(n + 1)) \in 0..(Left(p, w(n)) - 1)
        BY <1>1, <2>2, <3>1, SearchStep, Zenon
      <3>3. Left(p, w(n + 1)) \in Nat /\ Left(p, w(n + 1)) + (n + 1) <= 2 * C
        BY <1>0, <3>1, <3>2
      <3> QED BY <3>2, <3>3, n + 1 \in Nat, Zenon
    <2> QED BY <2>1, <2>2, Zenon
  <1> HIDE DEF T
  <1>6. 2 * C \in T
    BY <1>0, <1>4, <1>5, Induct, Zenon
  <1>7. Searched(p, t, w(2 * C)) /\ w(2 * C).stack = {}
    <2>1. ASSUME w(2 * C).stack # {} PROVE FALSE
      <3>1. /\ Searched(p, t, w(2 * C)) /\ Left(p, w(2 * C)) + 2 * C <= 2 * C
        BY <1>6, <2>1, Zenon DEF T
      <3>2. Left(p, w(2 * C)) \in Nat \ {0}
        BY <2>1, <3>1, SearchStep, Zenon
      <3> QED BY <1>0, <3>1, <3>2
    <2> QED BY <1>6, <2>1, Zenon DEF T
  <1>8. w(2 * C).seen = Below(p, t)
    BY <1>7, SearchComplete, Zenon
  <1> QED BY <1>7, <1>8, Zenon DEF search, get_descendants, w, w0, C

-----------------------------------------------------------------------------
(* Decisions.                                                                *)

\* Roles bound at the tenants of S.
BoundAt(S) == {h[2] : h \in {x \in Held(binding) : x[1] \in S}}

\* The tenants whose bindings a decision has read.
ReadSoFar == {check.tenant} \cup {check.scan[k] : k \in DOMAIN check.scan \ check.unread}

\* What a role of a decision may come from.
Source(h) == h[1] \in {check.tenant} \cup Range(check.scan) \/ h[2] = "platform_admin"

\* A decision has seen the bindings as they are, and each of its roles comes from one
\* it has seen.
RolesBound ==
    check.pc # "idle" =>
      /\ Held(binding) \subseteq was.held
      /\ \A r \in check.roles : \E h \in was.held : h[2] = r /\ Source(h)

\* As long as nothing is written, the roles are those of the tenants read so far, and
\* the ancestors are those of the tree.
QuietRoles ==
    check.pc # "idle" /\ was.quiet =>
      /\ check.roles = BoundAt(ReadSoFar) \cup
           (IF check.pc \in {"decided", "listed"} THEN platform_admin_anywhere ELSE {})
      /\ check.pc # "tree" => check.scan = get_ancestors(parent, check.tenant)

CheckShape ==
    /\ check = [pc |-> check.pc, tenant |-> check.tenant, action |-> check.action,
                roles |-> check.roles, scan |-> check.scan, unread |-> check.unread,
                allowed |-> check.allowed, visible |-> check.visible]
    /\ check.unread \subseteq DOMAIN check.scan
    /\ check.pc \in {"idle", "tree"} => check.scan = <<>> /\ check.unread = {}
    /\ check.pc \in {"decided", "listed"} =>
         check.unread = {} /\ check.allowed = can(check.roles, check.action)

DecisionInv == CheckShape /\ RolesBound /\ QuietRoles

\* A write of anyone, seen by the decision under way, keeps the invariant.
LEMMA BecomeKeeps ==
    ASSUME DecisionInv, NEW p, NEW b, Become(p, b), check' = check
    PROVE  DecisionInv'
  <1>1. CheckShape'
    BY Zenon DEF DecisionInv, CheckShape, can
  <1>2. CASE check.pc = "idle"
    BY <1>1, <1>2, Zenon DEF DecisionInv, RolesBound, QuietRoles
  <1>3. CASE check.pc # "idle"
    <2>1. was'.held = was.held \cup Held(b) /\ was'.quiet = FALSE /\ binding' = b
      BY <1>3, Zenon DEF Become
    <2>2. Held(binding)' = Held(b)
      BY <2>1, Zenon DEF Held
    <2>3. RolesBound'
      BY <2>1, <2>2 DEF DecisionInv, RolesBound, Source
    <2> QED BY <1>1, <2>1, <2>3, Zenon DEF DecisionInv, QuietRoles
  <1> QED BY <1>2, <1>3, Zenon

\* So does a step that touches neither the tables nor the decision.
LEMMA ElsewhereKeeps ==
    ASSUME DecisionInv, UNCHANGED <<parent, binding, check, was>>
    PROVE  DecisionInv'
  <1>1. CheckShape'
    BY Zenon DEF DecisionInv, CheckShape, can
  <1>2. RolesBound'
    BY DEF DecisionInv, RolesBound, Source, Held
  <1>3. /\ ReadSoFar' = ReadSoFar /\ platform_admin_anywhere' = platform_admin_anywhere
        /\ \A S : BoundAt(S)' = BoundAt(S)
    BY Zenon DEF ReadSoFar, platform_admin_anywhere, BoundAt, roles_for, Held
  <1>4. QuietRoles'
    <2>1. BoundAt(ReadSoFar)' = BoundAt(ReadSoFar)
      BY <1>3, Zenon DEF BoundAt, Held
    <2> QED BY <1>3, <2>1, Zenon DEF DecisionInv, QuietRoles
  <1> QED BY <1>1, <1>2, <1>4, Zenon DEF DecisionInv

\* The reads of a decision up to its verdict (effective_roles_at, authorize).
LEMMA DecisionSteps ==
    ASSUME DecisionInv
    PROVE  /\ \A t \in Tenants, a \in Actions : effective_roles_at(t, a) => DecisionInv'
           /\ scan_tree => DecisionInv'
           /\ read_ancestor => DecisionInv'
           /\ authorize => DecisionInv'
           /\ visible_tenants => DecisionInv'
  <1>1. ASSUME NEW t \in Tenants, NEW a \in Actions, effective_roles_at(t, a) PROVE DecisionInv'
    <2>1. /\ check' = [pc |-> "tree", tenant |-> t, action |-> a,
                       roles |-> {h[2] : h \in {x \in Held(binding) : x[1] = t}},
                       scan |-> <<>>, unread |-> {}, allowed |-> FALSE, visible |-> {}]
          /\ was'.held = Held(binding) /\ binding' = binding
      BY <1>1, Zenon DEF effective_roles_at, NoCheck, roles_for
    <2>2. /\ check'.pc = "tree" /\ check'.tenant = t /\ check'.scan = <<>> /\ check'.unread = {}
          /\ check'.roles = {h[2] : h \in {x \in Held(binding) : x[1] = t}}
      BY <2>1, Zenon
    <2>3. CheckShape'
      BY <2>1, Zenon DEF CheckShape
    <2>4. Held(binding)' = Held(binding)
      BY <2>1, Zenon DEF Held
    <2>5. RolesBound'
      BY <2>1, <2>2, <2>4, Zenon DEF RolesBound, Source
    <2>6. ReadSoFar' = {t}
      BY <2>2 DEF ReadSoFar
    <2>7. QuietRoles'
      BY <2>2, <2>4, <2>6, Zenon DEF QuietRoles, BoundAt
    <2> QED BY <2>3, <2>5, <2>7, Zenon DEF DecisionInv
  <1>2. CASE scan_tree
    <2> DEFINE up == get_ancestors(parent, check.tenant)
    <2>1. /\ check.pc = "tree" /\ check.scan = <<>> /\ check.unread = {}
          /\ check' = [pc |-> "inherit", tenant |-> check.tenant, action |-> check.action,
                       roles |-> check.roles, scan |-> up, unread |-> DOMAIN up,
                       allowed |-> check.allowed, visible |-> check.visible]
          /\ UNCHANGED <<parent, binding, was>>
      BY <1>2, Zenon DEF scan_tree, DecisionInv, CheckShape
    <2> HIDE DEF up
    <2>2. /\ check'.pc = "inherit" /\ check'.tenant = check.tenant /\ check'.roles = check.roles
          /\ check'.scan = up /\ check'.unread = DOMAIN up
      BY <2>1, Zenon
    <2>3. CheckShape'
      BY <2>1, Zenon DEF CheckShape
    <2>4. RolesBound'
      BY <2>1, <2>2 DEF DecisionInv, RolesBound, Source, Held, Range
    <2>5. ReadSoFar' = {check.tenant} /\ ReadSoFar = {check.tenant}
      BY <2>1, <2>2 DEF ReadSoFar
    <2>6. QuietRoles'
      <3>1. BoundAt(ReadSoFar)' = BoundAt(ReadSoFar)
        BY <2>1, <2>5, Zenon DEF BoundAt, Held
      <3> QED BY <2>1, <2>2, <3>1, Zenon DEF DecisionInv, QuietRoles, up
    <2> QED BY <2>3, <2>4, <2>6, Zenon DEF DecisionInv
  <1>3. CASE read_ancestor
    <2>1. PICK k \in check.unread :
             check' = [check EXCEPT !.unread = @ \ {k},
                                    !.roles = @ \cup inherited(check.scan[k])]
      BY <1>3, Zenon DEF read_ancestor
    <2> DEFINE a == check.scan[k]
    <2>2. /\ check.pc = "inherit"
          /\ check' = [pc |-> "inherit", tenant |-> check.tenant, action |-> check.action,
                       roles |-> check.roles \cup inherited(a), scan |-> check.scan,
                       unread |-> check.unread \ {k},
                       allowed |-> check.allowed, visible |-> check.visible]
          /\ UNCHANGED <<parent, binding, was>>
      BY <1>3, <2>1, Zenon DEF read_ancestor, DecisionInv, CheckShape
    <2>3. /\ check'.pc = "inherit" /\ check'.tenant = check.tenant /\ check'.scan = check.scan
          /\ check'.roles = check.roles \cup inherited(a) /\ check'.unread = check.unread \ {k}
      BY <2>2, Zenon
    <2>4. CheckShape'
      BY <2>2, Zenon DEF DecisionInv, CheckShape
    <2>5. inherited(a) = BoundAt({a})
      BY Zenon DEF inherited, roles_for, BoundAt
    <2>6. k \in DOMAIN check.scan
      BY Zenon DEF DecisionInv, CheckShape
    <2>7. RolesBound'
      <3>1. ASSUME NEW r \in inherited(a) PROVE \E h \in was.held : h[2] = r /\ Source(h)
        <4>1. PICK h \in Held(binding) : h[1] = a /\ h[2] = r
          BY Zenon DEF inherited, roles_for
        <4>2. a \in Range(check.scan)
          BY <2>6, Zenon DEF Range
        <4> QED BY <2>2, <4>1, <4>2, Zenon DEF DecisionInv, RolesBound, Source
      <3>2. \A h : Source(h)' <=> Source(h)
        BY <2>3, Zenon DEF Source
      <3> QED BY <2>2, <2>3, <3>1, <3>2, ZenonT(30) DEF DecisionInv, RolesBound, Held
    <2>8. ReadSoFar' = ReadSoFar \cup {a}
      BY <2>3, <2>6, Zenon DEF ReadSoFar
    <2>9. QuietRoles'
      <3>1. BoundAt(ReadSoFar)' = BoundAt(ReadSoFar) \cup BoundAt({a})
        BY <2>2, <2>8, Zenon DEF BoundAt, Held
      <3> QED BY <2>2, <2>3, <2>5, <3>1, ZenonT(30) DEF DecisionInv, QuietRoles
    <2> QED BY <2>4, <2>7, <2>9, Zenon DEF DecisionInv
  <1>4. CASE authorize
    <2> DEFINE roles == check.roles \cup platform_admin_anywhere
    <2>1. /\ check.pc = "inherit" /\ check.unread = {}
          /\ check' = [pc |-> "decided", tenant |-> check.tenant, action |-> check.action,
                       roles |-> roles, scan |-> check.scan, unread |-> {},
                       allowed |-> can(roles, check.action), visible |-> check.visible]
          /\ UNCHANGED <<parent, binding, was>>
      BY <1>4, Zenon DEF authorize, DecisionInv, CheckShape
    <2>2. /\ check'.pc = "decided" /\ check'.tenant = check.tenant /\ check'.scan = check.scan
          /\ check'.roles = roles /\ check'.unread = check.unread
      BY <2>1, Zenon
    <2>3. CheckShape'
      BY <2>1, Zenon DEF CheckShape, can
    <2>4. RolesBound'
      <3>1. ASSUME NEW r \in platform_admin_anywhere
            PROVE  \E h \in was.held : h[2] = r /\ Source(h)
        BY <2>1 DEF platform_admin_anywhere, roles_for, DecisionInv, RolesBound, Source
      <3>2. \A h : Source(h)' <=> Source(h)
        BY <2>2, Zenon DEF Source
      <3> QED BY <2>1, <2>2, <3>1, <3>2 DEF DecisionInv, RolesBound, Held
    <2>5. ReadSoFar' = ReadSoFar /\ platform_admin_anywhere' = platform_admin_anywhere
      BY <2>1, <2>2 DEF ReadSoFar, platform_admin_anywhere, roles_for, Held
    <2>6. QuietRoles'
      <3>1. BoundAt(ReadSoFar)' = BoundAt(ReadSoFar)
        BY <2>1, <2>5, Zenon DEF BoundAt, Held
      <3> QED BY <2>1, <2>2, <2>5, <3>1, Zenon DEF DecisionInv, QuietRoles
    <2> QED BY <2>3, <2>4, <2>6, Zenon DEF DecisionInv
  <1>5. CASE visible_tenants
    <2>1. /\ check.pc = "decided"
          /\ check' = [pc |-> "listed", tenant |-> check.tenant, action |-> check.action,
                       roles |-> check.roles, scan |-> check.scan, unread |-> check.unread,
                       allowed |-> check.allowed, visible |-> visible]
          /\ UNCHANGED <<parent, binding, was>>
      BY <1>5, Zenon DEF visible_tenants, DecisionInv, CheckShape
    <2>2. /\ check'.pc = "listed" /\ check'.tenant = check.tenant /\ check'.scan = check.scan
          /\ check'.roles = check.roles /\ check'.unread = check.unread
          /\ check'.allowed = check.allowed /\ check'.action = check.action
      BY <2>1, Zenon
    <2>3. CheckShape'
      BY <2>1, <2>2, Zenon DEF DecisionInv, CheckShape, can
    <2>4. RolesBound'
      <3>1. Held(binding)' = Held(binding) /\ \A h : Source(h)' <=> Source(h)
        BY <2>1, <2>2, Zenon DEF Held, Source
      <3> QED BY <2>1, <2>2, <3>1, Zenon DEF DecisionInv, RolesBound
    <2>5. ReadSoFar' = ReadSoFar /\ platform_admin_anywhere' = platform_admin_anywhere
      BY <2>1, <2>2, ZenonT(30) DEF ReadSoFar, platform_admin_anywhere, roles_for, Held
    <2>6. QuietRoles'
      <3>1. BoundAt(ReadSoFar)' = BoundAt(ReadSoFar)
        BY <2>1, <2>5, Zenon DEF BoundAt, Held
      <3> QED BY <2>1, <2>2, <2>5, <3>1, Zenon DEF DecisionInv, QuietRoles
    <2> QED BY <2>3, <2>4, <2>6, Zenon DEF DecisionInv
  <1> QED BY <1>1, <1>2, <1>3, <1>4, <1>5, Zenon

\* The decision's invariant through every step, those of writers and of a sync included.
LEMMA DecisionStep == DecisionInv /\ [TenancyNext]_tenancyVars => DecisionInv'
  <1> SUFFICES ASSUME DecisionInv, [TenancyNext]_tenancyVars PROVE DecisionInv'
    BY Zenon
  <1>1. CASE tenancyWrite
    <2>1. \E p, b : Write(p, b)
      BY <1>1, Zenon DEF tenancyWrite, tenancyRoleWrite, delete_tenant, put_tenant, delete_role,
                         put_role
    <2> QED BY <2>1, BecomeKeeps, Zenon DEF Write
  <1>2. CASE tenancyCheck
    BY <1>2, DecisionSteps, Zenon DEF tenancyCheck
  <1>3. CASE tenancySync
    <2>1. ASSUME NEW gs, NEW tid, sync_begin(gs, tid) PROVE DecisionInv'
      BY <2>1, ElsewhereKeeps, Zenon DEF sync_begin
    <2>2. CASE sync_put
      <3>1. \/ UNCHANGED <<parent, binding, check, was>>
            \/ check' = check /\ \E p, b : Become(p, b)
        BY <2>2, Zenon DEF sync_put
      <3> QED BY <3>1, ElsewhereKeeps, BecomeKeeps, Zenon
    <2>3. CASE sync_return
      BY <2>3, ElsewhereKeeps, Zenon DEF sync_return
    <2> QED BY <1>3, <2>1, <2>2, <2>3, Zenon DEF tenancySync
  <1>4. CASE UNCHANGED tenancyVars
    BY <1>4, ElsewhereKeeps, Zenon DEF tenancyVars
  <1> QED BY <1>1, <1>2, <1>3, <1>4, Zenon DEF TenancyNext

\* It holds throughout.
LEMMA DecisionInvariant == TenancySpec => []DecisionInv
  <1>1. TenancyInit => DecisionInv
    BY DEF TenancyInit, NoCheck, DecisionInv, CheckShape, RolesBound, QuietRoles
  <1> QED BY <1>1, DecisionStep, PTL DEF TenancySpec

\* Whatever is written during a decision, it grants an action only on a role that was
\* bound at some moment of it, at the tenant, at an ancestor its scan of the tree found,
\* or as platform_admin (effective_roles_at and authorize).
THEOREM GrantsRestOnBindings == TenancySpec => []GrantRestsOnBinding
  <1>1. DecisionInv => GrantRestsOnBinding
    BY DEF DecisionInv, CheckShape, RolesBound, GrantRestsOnBinding, Source, can
  <1> QED BY <1>1, DecisionInvariant, PTL

\* The parents in the table are tenants or none, a decision is about a tenant, and a
\* list is that of a read: nothing for a refusal, else as in the tree.
TablesTyped ==
    /\ parent \in Table
    /\ check.pc # "idle" => check.tenant \in Tenants
    /\ check.pc = "listed" =>
         /\ check.action = "read" /\ (~check.allowed => check.visible = {})
         /\ was.quiet => check.visible \subseteq
                            {check.tenant} \cup get_descendants(parent, check.tenant)

\* Writes, decisions, listings and syncs keep this (put_tenant, delete_tenant,
\* visible_tenants).
LEMMA TablesStep ==
    DecisionInv /\ TablesTyped /\ [TenancyNext]_tenancyVars => TablesTyped'
  <1> SUFFICES ASSUME DecisionInv, TablesTyped, [TenancyNext]_tenancyVars PROVE TablesTyped'
    BY Zenon
  <1>0. ASSUME UNCHANGED <<parent, check, was>> PROVE TablesTyped'
    BY <1>0, Zenon DEF TablesTyped
  <1>1. ASSUME NEW p \in Table, NEW b, Become(p, b), check' = check PROVE TablesTyped'
    <2>1. parent' = p /\ (check.pc # "idle" => was'.quiet = FALSE)
      BY <1>1, Zenon DEF Become
    <2> QED BY <1>1, <2>1, Zenon DEF TablesTyped
  <1>2. CASE tenancyWrite
    <2>1. ASSUME NEW t \in Tenants, NEW up \in Tenants \cup {Root, Absent}
          PROVE  [parent EXCEPT ![t] = up] \in Table
      BY Zenon DEF TablesTyped, Table
    <2>2. \E p \in Table : \E b : Write(p, b)
      <3>1. CASE tenancyRoleWrite
        BY <3>1, Zenon DEF tenancyRoleWrite, delete_role, put_role, TablesTyped
      <3>2. ASSUME NEW t \in Tenants, delete_tenant(t) PROVE \E p \in Table : \E b : Write(p, b)
        BY <2>1, <3>2, Zenon DEF delete_tenant
      <3>3. ASSUME NEW t \in Tenants, NEW up \in Tenants \cup {Root}, put_tenant(t, up)
            PROVE  \E p \in Table : \E b : Write(p, b)
        BY <2>1, <3>3, Zenon DEF put_tenant
      <3> QED BY <1>2, <3>1, <3>2, <3>3, Zenon DEF tenancyWrite
    <2> QED BY <1>1, <2>2, Zenon DEF Write
  <1>3. CASE tenancyCheck
    <2>0. check = [pc |-> check.pc, tenant |-> check.tenant, action |-> check.action,
                   roles |-> check.roles, scan |-> check.scan, unread |-> check.unread,
                   allowed |-> check.allowed, visible |-> check.visible]
      BY Zenon DEF DecisionInv, CheckShape
    <2>1. ASSUME NEW t \in Tenants, NEW a \in Actions, effective_roles_at(t, a)
          PROVE  TablesTyped'
      <3>1. parent' = parent /\ check'.pc = "tree" /\ check'.tenant = t
        BY <2>1, Zenon DEF effective_roles_at, NoCheck
      <3> QED BY <3>1, Zenon DEF TablesTyped
    <2>2. CASE scan_tree \/ read_ancestor \/ authorize
      <3>1. /\ parent' = parent /\ check.pc # "idle" /\ check'.tenant = check.tenant
            /\ check'.pc \in {"inherit", "decided"}
        <4>1. CASE scan_tree
          BY <2>0, <4>1, Zenon DEF scan_tree
        <4>2. CASE read_ancestor
          BY <2>0, <4>2, Zenon DEF read_ancestor
        <4>3. CASE authorize
          BY <2>0, <4>3, Zenon DEF authorize
        <4> QED BY <2>2, <4>1, <4>2, <4>3, Zenon
      <3> QED BY <3>1, Zenon DEF TablesTyped
    <2>3. CASE visible_tenants
      <3>1. /\ parent' = parent /\ check.pc = "decided" /\ check.action = "read"
            /\ check'.tenant = check.tenant /\ check'.action = check.action
            /\ check'.allowed = check.allowed /\ check'.visible = visible
        BY <2>0, <2>3, Zenon DEF visible_tenants
      <3> QED BY <3>1, Zenon DEF TablesTyped, visible
    <2> QED BY <1>3, <2>1, <2>2, <2>3, Zenon DEF tenancyCheck
  <1>4. CASE tenancySync
    <2>1. CASE sync_put
      <3>1. \/ UNCHANGED <<parent, check, was>>
            \/ check' = check /\ \E b : Become(parent, b)
        BY <2>1, Zenon DEF sync_put
      <3> QED BY <1>0, <1>1, <3>1, Zenon DEF TablesTyped
    <2>2. CASE ~sync_put
      BY <1>0, <1>4, <2>2, Zenon DEF tenancySync, sync_begin, sync_return
    <2> QED BY <2>1, <2>2, Zenon
  <1>5. CASE UNCHANGED tenancyVars
    BY <1>0, <1>5, Zenon DEF tenancyVars
  <1> QED BY <1>2, <1>3, <1>4, <1>5, Zenon DEF TenancyNext

\* It holds throughout.
LEMMA TablesInvariant == TenancySpec => []TablesTyped
  <1>1. TenancyInit => TablesTyped
    BY DEF TenancyInit, NoCheck, TablesTyped, Table
  <1> QED BY <1>1, TablesStep, DecisionInvariant, PTL DEF TenancySpec

\* On every table the stores can hold, of any number of tenants, with parents missing or
\* in a cycle, get_ancestors and get_descendants end and find exactly the tenants the
\* links lead to, and path has one more tenant than there are ancestors.
THEOREM TreeWalks == TenancySpec => []TreeWalksAgree
  <1>1. ASSUME parent \in Table, NEW t \in Tenants, Exists(parent, t)
        PROVE  LET up == get_ancestors(parent, t)
               IN  /\ Range(up) = Above(parent, t) /\ climb(parent, t)[up] = up
                   /\ get_descendants(parent, t) = {u \in Tenants : t \in Above(parent, u)}
                   /\ search(parent, t).stack = {}
                   /\ Len(path(parent, t)) = 1 + Cardinality(Above(parent, t))
    <2> DEFINE up == get_ancestors(parent, t)
               n == Len(up) + 1
               q == [i \in 1..n |-> IF i = n THEN t ELSE up[n - i]]
    <2>1. /\ Range(up) = Above(parent, t) /\ climb(parent, t)[up] = up
          /\ up \in Seq(Tenants) /\ Cardinality(Above(parent, t)) = Len(up)
      BY <1>1, AncestorsAreAbove, Zenon
    <2>2. /\ search(parent, t).stack = {}
          /\ get_descendants(parent, t) = {u \in Tenants : t \in Above(parent, u)}
      BY <1>1, DescendantsAreBelow, Zenon DEF Below
    <2>3. path(parent, t) = q
      BY <1>1, Zenon DEF path
    <2> HIDE DEF up
    <2>4. Len(q) = 1 + Len(up)
      <3>1. Len(up) \in Nat
        BY <2>1
      <3>2. n \in Nat /\ n = 1 + Len(up)
        BY <3>1
      <3> HIDE DEF n
      <3>3. Len(q) = n
        BY <3>2
      <3> QED BY <3>2, <3>3, Zenon
    <2> HIDE DEF q
    <2>5. Len(path(parent, t)) = 1 + Cardinality(Above(parent, t))
      BY <2>1, <2>3, <2>4, Zenon
    <2> QED BY <2>1, <2>2, <2>5, Zenon DEF up
  <1>2. TablesTyped => TreeWalksAgree
    BY <1>1, Zenon DEF TablesTyped, TreeWalksAgree
  <1> QED BY <1>2, TablesInvariant, PTL

\* A decision during which nothing is written has the roles of the inheritance rule
\* (effective_roles_at, authorize).
LEMMA QuietRolesExact ==
    ASSUME DecisionInv, TablesTyped, check.pc \in {"decided", "listed"}, was.quiet
    PROVE  check.roles = RolesAt(parent, binding, check.tenant)
  <1> DEFINE t == check.tenant
             A == {t} \cup Above(parent, t)
  <1>1. ReadSoFar = A
    <2>1. Range(get_ancestors(parent, t)) = Above(parent, t)
      BY AncestorsAreAbove, Zenon DEF TablesTyped
    <2> QED BY <2>1, Zenon DEF ReadSoFar, DecisionInv, CheckShape, QuietRoles, Range
  <1>2. check.roles = BoundAt(A) \cup platform_admin_anywhere
    BY <1>1, Zenon DEF DecisionInv, QuietRoles
  <1>3. t \in A
    BY Zenon
  <1> HIDE DEF A
  <1>0. \A h : h \in Held(binding) <=>
             \E u \in Tenants : binding[u] # Absent /\ h = <<u, binding[u]>>
    BY Zenon DEF Held
  <1>4. BoundAt(A) = {binding[u] : u \in {v \in Tenants : binding[v] # Absent /\ v \in A}}
    <2>1. ASSUME NEW h \in Held(binding), h[1] \in A
          PROVE  \E u \in Tenants : binding[u] # Absent /\ u \in A /\ h[2] = binding[u]
      BY <1>0, <2>1
    <2>2. ASSUME NEW u \in Tenants, binding[u] # Absent, u \in A
          PROVE  \E h \in Held(binding) : h[1] \in A /\ h[2] = binding[u]
      <3>1. <<u, binding[u]>> \in Held(binding)
        BY <1>0, <2>2, Zenon
      <3> QED BY <2>2, <3>1, Zenon
    <2> QED BY <2>1, <2>2 DEF BoundAt
  <1>5. platform_admin_anywhere =
          {binding[u] : u \in {v \in Tenants : /\ binding[v] # Absent /\ v # t
                                               /\ binding[v] = "platform_admin"}}
    <2>1. ASSUME NEW h \in Held(binding), h[1] # t, h[2] = "platform_admin"
          PROVE  \E u \in Tenants : binding[u] # Absent /\ u # t /\ h[2] = binding[u]
      BY <1>0, <2>1
    <2>2. ASSUME NEW u \in Tenants, binding[u] # Absent, u # t
          PROVE  \E h \in Held(binding) : h[1] # t /\ h[2] = binding[u]
      <3>1. <<u, binding[u]>> \in Held(binding)
        BY <1>0, <2>2, Zenon
      <3> QED BY <2>2, <3>1, Zenon
    <2> QED BY <2>1, <2>2 DEF platform_admin_anywhere, roles_for
  <1>6. RolesAt(parent, binding, t) =
          {binding[u] : u \in {v \in Tenants : /\ binding[v] # Absent
                                               /\ v \in A \/ binding[v] = "platform_admin"}}
    BY Zenon DEF RolesAt, A
  <1>7. check.roles = RolesAt(parent, binding, t)
    BY <1>2, <1>3, <1>4, <1>5, <1>6
  <1> QED BY <1>7, Zenon

\* A decision during which nothing is written is the one the inheritance rule gives,
\* whatever the tables hold (effective_roles_at, get_ancestors, authorize).
THEOREM DecisionsExact == TenancySpec => []ExactWhenQuiet
  <1>1. DecisionInv /\ TablesTyped => ExactWhenQuiet
    BY QuietRolesExact, Zenon DEF ExactWhenQuiet, DecisionInv, CheckShape, Entitled
  <1> QED BY <1>1, DecisionInvariant, TablesInvariant, PTL

\* What is above a tenant is above those below it (get_ancestors, get_descendants).
LEMMA AboveIsTransitive ==
    ASSUME NEW p \in Table, NEW t \in Tenants, NEW u \in Below(p, t)
    PROVE  {t} \cup Above(p, t) \subseteq Above(p, u)
  <1>0. u \in Tenants /\ t \in Above(p, u) /\ Tenants \subseteq Tenant
    BY Zenon DEF Below, Tenant
  <1>1. PICK m \in Nat : Up(p, u, m + 1) = t
    BY <1>0, AboveIsReached, Zenon
  <1>2. ASSUME NEW q \in Tenants PROVE Above(p, q) \subseteq Tenants
    <2> DEFINE s == get_ancestors(p, q)
    <2>1. Range(s) = Above(p, q) /\ s \in Seq(Tenants)
      BY AncestorsAreAbove, Zenon
    <2> HIDE DEF s
    <2>2. Range(s) \subseteq Tenants
      BY <2>1 DEF Range
    <2> QED BY <2>1, <2>2, Zenon
  <1> DEFINE T == {n \in Nat : Up(p, t, n + 1) \in Above(p, u) \cup {Absent}}
  <1>3. ASSUME NEW v \in Above(p, u) \cup {Absent}
        PROVE  link(p)[v] \in Above(p, u) \cup {Absent}
    <2>1. CASE v = Absent
      BY <2>1, LinkFacts, Zenon
    <2>2. CASE v \in Above(p, u)
      <3>1. v \in Tenants
        BY <1>0, <1>2, <2>2, Zenon
      <3>2. PICK n \in Nat : Up(p, u, n + 1) = v
        BY <1>0, <2>2, <3>1, AboveIsReached, Zenon
      <3>3. /\ Up(p, u, (n + 1) + 1) = link(p)[v] /\ Up(p, u, (n + 1) + 1) \in Tenant
        BY <1>0, <3>2, UpFacts, n + 1 \in Nat, (n + 1) + 1 \in Nat, ZenonT(30)
      <3>4. link(p)[v] \in Tenants \cup {Absent}
        BY <3>3, Zenon DEF Tenant
      <3> QED BY <1>0, <3>3, <3>4, AboveIsReached, n + 1 \in Nat, Zenon
    <2> QED BY <2>1, <2>2, Zenon
  <1>4. Up(p, t, 0) = t /\ \A n \in Nat : Up(p, t, n + 1) = link(p)[Up(p, t, n)]
    BY <1>0, UpFacts, ZenonT(30)
  <1>5. 0 \in T
    BY <1>0, <1>3, <1>4, 0 \in Nat, Zenon
  <1>6. ASSUME NEW n \in Nat, n \in T PROVE n + 1 \in T
    BY <1>3, <1>4, <1>6, n + 1 \in Nat, Zenon
  <1> HIDE DEF T
  <1>7. Nat \subseteq T
    BY <1>5, <1>6, Induct, Zenon
  <1>8. ASSUME NEW v \in Above(p, t) PROVE v \in Above(p, u)
    <2>1. v \in Tenants /\ v # Absent
      BY <1>2, <1>8, TenancyAssumption, Zenon
    <2>2. PICK n \in Nat : Up(p, t, n + 1) = v
      BY <1>8, <2>1, AboveIsReached, ZenonT(30)
    <2> QED BY <1>7, <2>1, <2>2, Zenon DEF T
  <1> QED BY <1>0, <1>8, Zenon

\* A tenant that visible_tenants lists is one the principal may read, if nothing is
\* written meanwhile and the tenant asked about exists (visible_tenants,
\* get_descendants): what a principal may do at a tenant they may do at all below it.
THEOREM ListedAreReadable == TenancySpec => []VisibleIsReadable
  <1>1. ASSUME DecisionInv, TablesTyped, check.pc = "listed", was.quiet,
               Exists(parent, check.tenant), NEW u \in check.visible
        PROVE  Entitled(parent, binding, u, "read")
    <2> DEFINE t == check.tenant
    <2>1. parent \in Table /\ t \in Tenants /\ check.action = "read" /\ check.allowed
      BY <1>1, Zenon DEF TablesTyped
    <2>2. u = t \/ u \in Below(parent, t)
      BY <1>1, <2>1, DescendantsAreBelow, Zenon DEF TablesTyped
    <2>3. {t} \cup Above(parent, t) \subseteq {u} \cup Above(parent, u)
      BY <2>1, <2>2, AboveIsTransitive, Zenon
    <2>4. check.roles = RolesAt(parent, binding, t)
      BY <1>1, QuietRolesExact, Zenon
    <2>5. can(check.roles, "read")
      BY <1>1, <2>1, Zenon DEF DecisionInv, CheckShape
    <2>6. RolesAt(parent, binding, t) \subseteq RolesAt(parent, binding, u)
      BY <2>3, Zenon DEF RolesAt
    <2> QED BY <2>4, <2>5, <2>6, Zenon DEF can, Entitled
  <1>2. DecisionInv /\ TablesTyped => VisibleIsReadable
    BY <1>1, Zenon DEF VisibleIsReadable
  <1> QED BY <1>2, DecisionInvariant, TablesInvariant, PTL

-----------------------------------------------------------------------------
(* The sync of a token's groups.                                            *)

\* The groups of the token that have a role and a tenant.
Placed == {g \in Range(sync.groups) : g \in DOMAIN group_role_map /\ sync_tenant(g) # Absent}

\* No other of them maps to the same tenant.
Alone(g) == \A h \in Placed \ {g} : sync_tenant(h) # sync_tenant(g)

SyncShape ==
    /\ sync = [pc |-> sync.pc, groups |-> sync.groups, todo |-> sync.todo, tid |-> sync.tid,
               written |-> sync.written, quiet |-> sync.quiet]
    /\ sync.todo \in Seq(Groups) /\ sync.tid \in Tenants \cup {Absent}
    /\ Range(sync.todo) \subseteq Range(sync.groups)
    /\ sync.pc = "done" => sync.todo = <<>>
    /\ binding = [t \in Tenants |-> binding[t]]

\* The groups the sync is done with have their roles.
SyncedSoFar ==
    sync.pc # "idle" /\ sync.quiet =>
      \A g \in Placed \ Range(sync.todo) :
        Alone(g) => binding[sync_tenant(g)] = group_role_map[g]

SyncInv == SyncShape /\ SyncedSoFar

\* The elements of a sequence are its head and those of its tail.
LEMMA HeadAndTail ==
    ASSUME NEW s \in Seq(Groups), s # <<>>
    PROVE  /\ Tail(s) \in Seq(Groups) /\ Head(s) \in Groups
           /\ Range(s) = Range(Tail(s)) \cup {Head(s)}
  <1> DEFINE r == Tail(s)
             n == Len(s)
  <1>1. /\ r \in Seq(Groups) /\ DOMAIN r = 1..(n - 1)
        /\ DOMAIN s = 1..n /\ n \in Nat /\ n # 0
        /\ Head(s) \in Groups /\ Head(s) = s[1]
        /\ \A i \in 1..(n - 1) : r[i] = s[i + 1]
    OBVIOUS
  <1> HIDE DEF r, n
  <1>2. \A i \in DOMAIN r : i + 1 \in DOMAIN s
    BY <1>1
  <1>3. 1 \in DOMAIN s /\ \A i \in DOMAIN s : i # 1 => i - 1 \in DOMAIN r /\ s[i] = r[i - 1]
    BY <1>1
  <1>4. Range(s) \subseteq Range(r) \cup {Head(s)}
    BY <1>1, <1>3 DEF Range
  <1>5. Range(r) \subseteq Range(s) /\ Head(s) \in Range(s)
    BY <1>1, <1>2, <1>3 DEF Range
  <1> QED BY <1>1, <1>4, <1>5, Zenon DEF r

\* Writes, decisions and the sync's own steps keep what it has achieved
\* (sync_groups_to_roles).
LEMMA SyncStep == SyncInv /\ [TenancyNext]_tenancyVars => SyncInv'
  <1> SUFFICES ASSUME SyncInv, [TenancyNext]_tenancyVars PROVE SyncInv'
    BY Zenon
  <1>0. ASSUME UNCHANGED <<sync, binding>> PROVE SyncInv'
    BY <1>0, ZenonT(30) DEF SyncInv, SyncShape, SyncedSoFar, Placed, Alone, sync_tenant
  <1>1. CASE tenancyWrite
    <2>1. PICK p, b : Write(p, b) /\ b = [t \in Tenants |-> b[t]]
      <3>1. binding = [t \in Tenants |-> binding[t]]
        BY Zenon DEF SyncInv, SyncShape
      <3>2. ASSUME NEW t \in Tenants, NEW r
            PROVE  [binding EXCEPT ![t] = r] = [u \in Tenants |-> [binding EXCEPT ![t] = r][u]]
        BY <3>1, Zenon
      <3>3. ASSUME NEW t \in Tenants, delete_role(t) \/ \E r \in Role : put_role(t, r)
            PROVE  \E r : Write(parent, [binding EXCEPT ![t] = r])
        BY <3>3, Zenon DEF delete_role, put_role
      <3>4. ASSUME NEW t \in Tenants, delete_tenant(t) \/ \E up : put_tenant(t, up)
            PROVE  \E p : Write(p, binding)
        BY <3>4, Zenon DEF delete_tenant, put_tenant
      <3>5. CASE tenancyRoleWrite
        <4>1. PICK t \in Tenants : delete_role(t) \/ \E r \in Role : put_role(t, r)
          BY <3>5, Zenon DEF tenancyRoleWrite
        <4>2. PICK r : Write(parent, [binding EXCEPT ![t] = r])
          BY <3>3, <4>1, Zenon
        <4> DEFINE b == [binding EXCEPT ![t] = r]
        <4>3. Write(parent, b) /\ b = [u \in Tenants |-> b[u]]
          BY <3>2, <4>2, Zenon
        <4> HIDE DEF b
        <4> QED BY <4>3, Zenon
      <3>6. CASE \E t \in Tenants :
                   delete_tenant(t) \/ \E up \in Tenants \cup {Root} : put_tenant(t, up)
        BY <3>1, <3>4, <3>6, Zenon
      <3> QED BY <1>1, <3>5, <3>6, Zenon DEF tenancyWrite
    <2>2. binding' = b
      BY <2>1, Zenon DEF Write, Become
    <2>3. CASE sync.pc = "idle"
      <3>1. sync' = sync
        BY <2>1, <2>3, Zenon DEF Write
      <3> QED BY <2>1, <2>2, <2>3, <3>1, Zenon DEF SyncInv, SyncShape, SyncedSoFar
    <2>4. CASE sync.pc # "idle"
      <3>1. sync' = [pc |-> sync.pc, groups |-> sync.groups, todo |-> sync.todo, tid |-> sync.tid,
                     written |-> sync.written, quiet |-> FALSE]
        BY <2>1, <2>4, Zenon DEF Write, SyncInv, SyncShape
      <3> QED BY <2>1, <2>2, <3>1, Zenon DEF SyncInv, SyncShape, SyncedSoFar
    <2> QED BY <2>3, <2>4, Zenon
  <1>2. CASE tenancyCheck
    BY <1>0, <1>2, Zenon DEF tenancyCheck, effective_roles_at, scan_tree, read_ancestor, authorize,
                      visible_tenants
  <1>3. ASSUME NEW gs \in UNION {Injection(1..n, Groups) : n \in 0..MaxGroups},
               NEW tid \in Tenants \cup {Absent}, sync_begin(gs, tid)
        PROVE  SyncInv'
    <2>1. gs \in Seq(Groups)
      <3>1. PICK n \in 0..MaxGroups : gs \in Injection(1..n, Groups)
        BY Zenon
      <3>2. gs \in [1..n -> Groups] /\ n \in Nat
        BY <3>1, TenancyAssumption DEF Injection
      <3> QED BY <3>2
    <2>2. /\ sync' = [pc |-> "put", groups |-> gs, todo |-> gs, tid |-> tid, written |-> <<>>,
                      quiet |-> TRUE]
          /\ binding' = binding
      BY <1>3, Zenon DEF sync_begin
    <2>3. SyncShape'
      BY <2>1, <2>2, Zenon DEF SyncInv, SyncShape
    <2>4. Placed' \subseteq Range(sync'.todo)
      BY <2>2, Zenon DEF Placed
    <2> QED BY <2>3, <2>4, Zenon DEF SyncInv, SyncedSoFar
  <1>4. CASE sync_put
    <2> DEFINE g == Head(sync.todo)
               t == sync_tenant(g)
               skips == g \notin DOMAIN group_role_map \/ t = Absent
    <2>1. /\ sync.pc = "put" /\ sync.todo # <<>> /\ sync.todo \in Seq(Groups)
          /\ sync.tid \in Tenants \cup {Absent}
          /\ binding = [u \in Tenants |-> binding[u]]
          /\ Range(sync.todo) \subseteq Range(sync.groups)
      BY <1>4, Zenon DEF sync_put, SyncInv, SyncShape
    <2>2. /\ Tail(sync.todo) \in Seq(Groups) /\ g \in Groups
          /\ Range(sync.todo) = Range(Tail(sync.todo)) \cup {g}
      BY <2>1, HeadAndTail, Zenon
    <2>3. \E w : sync' = [pc |-> "put", groups |-> sync.groups, todo |-> Tail(sync.todo),
                          tid |-> sync.tid, written |-> w, quiet |-> sync.quiet]
      <3>1. sync = [pc |-> "put", groups |-> sync.groups, todo |-> sync.todo, tid |-> sync.tid,
                    written |-> sync.written, quiet |-> sync.quiet]
        BY <2>1, Zenon DEF SyncInv, SyncShape
      <3>2. CASE skips
        BY <1>4, <3>1, <3>2, Zenon DEF sync_put, skipped
      <3>3. CASE ~skips
        BY <1>4, <3>1, <3>3, Zenon DEF sync_put
      <3> QED BY <3>2, <3>3, Zenon
    <2>4. /\ skips => binding' = binding
          /\ ~skips => binding' = [binding EXCEPT ![t] = group_role_map[g]]
      BY <1>4, Zenon DEF sync_put, Become
    <2>5. /\ sync'.pc = "put" /\ sync'.groups = sync.groups /\ sync'.todo = Tail(sync.todo)
          /\ sync'.tid = sync.tid /\ sync'.quiet = sync.quiet
          /\ sync' = [pc |-> sync'.pc, groups |-> sync'.groups, todo |-> sync'.todo,
                      tid |-> sync'.tid, written |-> sync'.written, quiet |-> sync'.quiet]
      BY <2>3
    <2>6. SyncShape'
      <3>1. binding' = [u \in Tenants |-> binding'[u]]
        BY <2>1, <2>4, Zenon
      <3> QED BY <2>1, <2>2, <2>5, <3>1, Zenon DEF SyncShape
    <2>7. /\ \A h : sync_tenant(h)' = sync_tenant(h)
          /\ \A h \in Placed : sync_tenant(h) \in Tenants
          /\ Placed' = Placed
      BY <2>1, <2>5, TenancyAssumption, Zenon DEF sync_tenant, Placed
    <2>8. g \in Placed <=> ~skips
      BY <2>1, <2>2, Zenon DEF Placed
    <2>9. SyncedSoFar'
      <3> SUFFICES ASSUME sync.quiet, NEW h \in Placed, h \notin Range(Tail(sync.todo)),
                          \A i \in Placed \ {h} : sync_tenant(i) # sync_tenant(h)
                   PROVE  binding'[sync_tenant(h)] = group_role_map[h]
        BY <2>5, <2>7, Zenon DEF SyncedSoFar, Alone
      <3>1. CASE h = g
        BY <2>1, <2>4, <2>7, <2>8, <3>1, Zenon
      <3>2. CASE h # g
        <4>1. binding[sync_tenant(h)] = group_role_map[h]
          BY <2>1, <2>2, <3>2, Zenon DEF SyncInv, SyncedSoFar, Alone
        <4>2. ~skips => sync_tenant(h) # t
          BY <2>8, <3>2, Zenon
        <4> QED BY <2>1, <2>4, <2>7, <4>1, <4>2, Zenon
      <3> QED BY <3>1, <3>2, Zenon
    <2> QED BY <2>6, <2>9, Zenon DEF SyncInv
  <1>5. CASE sync_return
    <2>1. /\ sync.pc = "put" /\ sync.todo = <<>> /\ binding' = binding
          /\ sync' = [pc |-> "done", groups |-> sync.groups, todo |-> sync.todo, tid |-> sync.tid,
                      written |-> sync.written, quiet |-> sync.quiet]
      BY <1>5, Zenon DEF sync_return, SyncInv, SyncShape
    <2>2. SyncShape'
      BY <2>1, Zenon DEF SyncInv, SyncShape
    <2>3. SyncedSoFar'
      BY <2>1 DEF SyncInv, SyncedSoFar, Placed, Alone, sync_tenant
    <2> QED BY <2>2, <2>3, Zenon DEF SyncInv
  <1>6. CASE UNCHANGED tenancyVars
    BY <1>0, <1>6, Zenon DEF tenancyVars
  <1> QED BY <1>1, <1>2, <1>3, <1>4, <1>5, <1>6, ZenonT(30) DEF TenancyNext, tenancySync

\* A sync that no other write disturbs gives the principal the role of every group of
\* the token that has a role and a tenant of its own, decisions going on meanwhile
\* (sync_groups_to_roles).
THEOREM SyncsComplete == TenancySpec => []SyncComplete
  <1>1. ASSUME TenancyInit PROVE SyncInv
    <2>1. /\ sync = [pc |-> "idle", groups |-> <<>>, todo |-> <<>>, tid |-> Absent,
                     written |-> <<>>, quiet |-> TRUE]
          /\ binding = [t \in Tenants |-> binding[t]]
      BY <1>1, Zenon DEF TenancyInit, NoSync
    <2>2. sync.pc = "idle" /\ sync.todo = <<>> /\ sync.groups = <<>>
      BY <2>1, Zenon
    <2> QED BY <2>1, <2>2 DEF SyncInv, SyncShape, SyncedSoFar
  <1>2. SyncInv => SyncComplete
    <2> SUFFICES ASSUME SyncInv, sync.pc = "done", sync.quiet, NEW g \in Placed, Alone(g)
                 PROVE  binding[sync_tenant(g)] = group_role_map[g]
      BY Zenon DEF SyncComplete, Placed, Alone
    <2>1. Range(sync.todo) = {}
      BY DEF SyncInv, SyncShape, Range
    <2> QED BY <2>1, Zenon DEF SyncInv, SyncedSoFar
  <1> QED BY <1>1, <1>2, SyncStep, PTL DEF TenancySpec
=============================================================================
