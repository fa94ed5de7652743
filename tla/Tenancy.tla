------------------------------ MODULE Tenancy -------------------------------
(***************************************************************************)
(* The tenant tree, the role bindings and what is decided from them        *)
(* (libs/common/sovereign/tenancy and idp/group_sync.py).  Both stores are *)
(* DynamoDB tables whose items are written one at a time, by operators and *)
(* by the group sync, with no check on what they say: a parent may be      *)
(* missing, or lie below its child.  A decision reads the tables several   *)
(* times, and anything may be written in between.                          *)
(***************************************************************************)
EXTENDS Integers, Sequences, Functions, FiniteSets

CONSTANTS
    Tenants,          \* tenant ids
    Root,             \* parent_id None
    Absent,           \* no such tenant, or no such binding
    Groups,           \* IdP groups
    group_role_map,   \* group -> Role; a group outside its domain is skipped
    group_tenant_map, \* group -> tenant id
    MaxWrites,        \* bound: writes while a decision or a sync is under way
    MaxBindings,      \* bound: bindings there are at the start
    MaxGroups         \* bound: groups of a token

ASSUME TenancyAssumption ==
    /\ IsFiniteSet(Tenants)
    /\ {Root, Absent} \cap Tenants = {} /\ Root # Absent
    /\ DOMAIN group_role_map \subseteq Groups /\ DOMAIN group_tenant_map \subseteq Groups
    /\ \A g \in DOMAIN group_tenant_map : group_tenant_map[g] \in Tenants
    /\ MaxWrites \in Nat /\ MaxBindings \in Nat /\ MaxGroups \in Nat

VARIABLES
    parent,      \* sovereign_tenants: per tenant its parent_id, Root, or Absent
    binding,     \* sovereign_role_bindings of one principal: per tenant a role
    writes,      \* writes so far
    check,       \* the decision under way
    sync,        \* the group sync under way
    was          \* history of the decision: the bindings there were at some moment
                 \* of it, the verdicts the rule gave at its moments, and whether
                 \* nothing was written since it began

tenancyVars == <<parent, binding, writes, check, sync, was>>

\* DEFAULT_ROLE_ACTIONS, without the actions every admin role has alike.
DEFAULT_ROLE_ACTIONS ==
    [platform_admin |-> {"provision", "read", "read-audit", "manage-tenant"},
     agency_admin   |-> {"provision", "read", "read-audit", "manage-tenant"},
     bureau_admin   |-> {"provision", "read", "read-audit"},
     program_team   |-> {"provision", "read"},
     auditor        |-> {"read", "read-audit"}]

Role == DOMAIN DEFAULT_ROLE_ACTIONS
Actions == UNION {DEFAULT_ROLE_ACTIONS[r] : r \in Role}

\* EffectiveAuthz.can
can(roles, action) == \E r \in roles : action \in DEFAULT_ROLE_ACTIONS[r]

-----------------------------------------------------------------------------
(* TenantStore: the walks over one scan of the table.                        *)

Exists(p, t) == t \in Tenants /\ p[t] # Absent

\* Mutant: roles are inherited from the parent alone.
parent_only(p, t) == IF Exists(p, t) /\ Exists(p, p[t]) THEN <<p[t]>> ELSE <<>>

\* What n rounds of a loop make of x, one round making h[x] of it.
Iterate(h, x, n) ==
    LET f[i \in Nat] == IF i = 0 THEN x ELSE h[f[i - 1]]
    IN  f[n]

\* One round of get_ancestors, which leaves the list as it is when the loop is over.
climb(p, t) ==
    [ancestors \in Seq(Tenants) |->
       LET current == IF ancestors = <<>> THEN t ELSE ancestors[Len(ancestors)]
       IN  IF /\ Exists(p, current) /\ p[current] # Root
              /\ p[current] \notin Range(ancestors) /\ Exists(p, p[current])
           THEN Append(ancestors, p[current]) ELSE ancestors]

\* The ancestors of t, the nearest first.
get_ancestors(p, t) == Iterate(climb(p, t), <<>>, Cardinality(Tenants))

get_children(p, t) == {c \in Tenants : p[c] = t}

\* One round of get_descendants.
descend(p) ==
    [w \in [stack : SUBSET Tenants, seen : SUBSET Tenants] |->
       IF w.stack = {} THEN w
       ELSE LET node == CHOOSE n \in w.stack : TRUE
            IN  IF node \in w.seen THEN [stack |-> w.stack \ {node}, seen |-> w.seen]
                ELSE [stack |-> (w.stack \ {node}) \cup get_children(p, node),
                      seen |-> w.seen \cup {node}]]

\* A tenant is on the stack as a child of t, and again when its parent is reached.
search(p, t) ==
    Iterate(descend(p), [stack |-> get_children(p, t), seen |-> {}], 2 * Cardinality(Tenants))

get_descendants(p, t) == search(p, t).seen

\* Root-to-tenant chain; two reads, of the tenant and of the table.
path(p, t) ==
    LET up == get_ancestors(p, t)
        n == Len(up) + 1
    IN  IF Exists(p, t) THEN [i \in 1..n |-> IF i = n THEN t ELSE up[n - i]] ELSE <<>>

-----------------------------------------------------------------------------
(* The rule the walks and reads implement, for reference.                     *)

\* The tenant a link leads to, as long as there are both.
link(p) == [t \in Tenants \cup {Absent} |->
              IF Exists(p, t) /\ Exists(p, p[t]) THEN p[t] ELSE Absent]

\* The n-th tenant above t.
Up(p, t, n) == Iterate(link(p), t, n)

Above(p, t) == {Up(p, t, n) : n \in 1..Cardinality(Tenants)} \ {Absent}

\* What the inheritance rule gives the principal at t: the roles bound there and at
\* every ancestor, and platform_admin wherever it is bound.
RolesAt(p, b, t) ==
    {b[u] : u \in {v \in Tenants : /\ b[v] # Absent
                                  /\ \/ v \in {t} \cup Above(p, t)
                                     \/ b[v] = "platform_admin"}}

Entitled(p, b, t, action) == can(RolesAt(p, b, t), action)

-----------------------------------------------------------------------------
(* Writes: items put and deleted by operators, tenants and bindings alike.    *)

\* scan: the ancestors; unread: the positions in it whose bindings are still to be read.
NoCheck == [pc |-> "idle", tenant |-> Root, action |-> "read", roles |-> {}, scan |-> <<>>,
            unread |-> {}, allowed |-> FALSE, visible |-> {}]
\* quiet, a history: no one else has written since the sync began.
NoSync == [pc |-> "idle", groups |-> <<>>, todo |-> <<>>, tid |-> Absent, written |-> <<>>,
           quiet |-> TRUE]

Held(b) == {<<t, b[t]>> : t \in {u \in Tenants : b[u] # Absent}}

TenancyInit ==
    /\ parent \in [Tenants -> Tenants \cup {Root, Absent}]
    /\ binding \in [Tenants -> Role \cup {Absent}]
    /\ Cardinality(Held(binding)) <= MaxBindings
    /\ writes = 0
    /\ check = NoCheck /\ sync = NoSync
    /\ was = [held |-> {}, could |-> {}, quiet |-> TRUE]

\* The tables become p and b, and the decision under way has seen them so.
Become(p, b) ==
    /\ parent' = p /\ binding' = b
    /\ was' = IF check.pc = "idle" THEN was
              ELSE [held |-> was.held \cup Held(b), quiet |-> FALSE,
                    could |-> was.could \cup {Entitled(p, b, check.tenant, check.action)}]

Write(p, b) ==
    /\ writes < MaxWrites /\ writes' = writes + 1
    /\ Become(p, b)
    /\ sync' = IF sync.pc = "idle" THEN sync ELSE [sync EXCEPT !.quiet = FALSE]
    /\ UNCHANGED check

put_tenant(t, up) == Write([parent EXCEPT ![t] = up], binding)
delete_tenant(t) == Exists(parent, t) /\ Write([parent EXCEPT ![t] = Absent], binding)

\* One item per principal and tenant: a new role replaces the one there is.
put_role(t, r) == Write(parent, [binding EXCEPT ![t] = r])
delete_role(t) == binding[t] # Absent /\ Write(parent, [binding EXCEPT ![t] = Absent])

-----------------------------------------------------------------------------
(* effective_roles_at, read by read, for authorize and visible_tenants.       *)

roles_for(b) == Held(b)

\* The direct bindings.
effective_roles_at(t, action) ==
    /\ check.pc = "idle"
    /\ check' = [NoCheck EXCEPT !.pc = "tree", !.tenant = t, !.action = action,
                                !.roles = {h[2] : h \in {x \in roles_for(binding) : x[1] = t}}]
    /\ was' = [held |-> Held(binding), could |-> {Entitled(parent, binding, t, action)},
               quiet |-> TRUE]
    /\ UNCHANGED <<parent, binding, writes, sync>>

scan_tree ==
    /\ check.pc = "tree"
    /\ LET up == get_ancestors(parent, check.tenant)
       IN  check' = [check EXCEPT !.pc = "inherit", !.scan = up, !.unread = DOMAIN up]
    /\ UNCHANGED <<parent, binding, writes, sync, was>>

\* Mutant: every role counts, wherever it is bound.
inherited_everywhere(a) == {h[2] : h \in roles_for(binding)}

inherited(a) == {h[2] : h \in {x \in roles_for(binding) : x[1] = a}}

read_ancestor ==
    /\ check.pc = "inherit"
    /\ \E k \in check.unread :
         /\ \A j \in check.unread : k <= j
         /\ check' = [check EXCEPT !.unread = @ \ {k},
                                   !.roles = @ \cup inherited(check.scan[k])]
    /\ UNCHANGED <<parent, binding, writes, sync, was>>

\* Mutant: a platform admin is bound by the tree.
platform_admin_here == {}

\* A platform admin's binding counts wherever else it is.
platform_admin_anywhere ==
    {h[2] : h \in {x \in roles_for(binding) : x[1] # check.tenant}} \cap {"platform_admin"}

\* The last read, and the decision of authorize.
authorize ==
    /\ check.pc = "inherit" /\ check.unread = {}
    /\ LET roles == check.roles \cup platform_admin_anywhere
       IN  check' = [check EXCEPT !.pc = "decided", !.roles = roles,
                                 !.allowed = can(roles, check.action)]
    /\ UNCHANGED <<parent, binding, writes, sync, was>>

admin_or_audit == {"platform_admin", "agency_admin", "bureau_admin", "auditor"}

\* The tenant, and its descendants for an admin or an auditor.
visible ==
    IF ~check.allowed THEN {}
    ELSE IF check.roles \cap admin_or_audit # {}
    THEN {check.tenant} \cup get_descendants(parent, check.tenant)
    ELSE {check.tenant}

visible_tenants ==
    /\ check.pc = "decided" /\ check.action = "read"
    /\ check' = [check EXCEPT !.pc = "listed", !.visible = visible]
    /\ UNCHANGED <<parent, binding, writes, sync, was>>

-----------------------------------------------------------------------------
(* sync_groups_to_roles: one put per group, in the token's order.             *)

\* tid: the token's claim, or else the caller's default; Absent if neither.
sync_begin(groups, tid) ==
    /\ sync.pc = "idle"
    /\ sync' = [pc |-> "put", groups |-> groups, todo |-> groups, tid |-> tid, written |-> <<>>,
                quiet |-> TRUE]
    /\ UNCHANGED <<parent, binding, writes, check, was>>

sync_tenant(g) == IF g \in DOMAIN group_tenant_map THEN group_tenant_map[g] ELSE sync.tid

\* Mutant: a group without a tenant stops the sync, not just itself.
skipped_stops(g) == <<>>

\* A group without a role, or without a tenant, is skipped.
skipped(g) == Tail(sync.todo)

sync_put ==
    /\ sync.pc = "put" /\ sync.todo # <<>>
    /\ LET g == Head(sync.todo)
           t == sync_tenant(g)
       IN  IF g \notin DOMAIN group_role_map \/ t = Absent
           THEN /\ sync' = [sync EXCEPT !.todo = skipped(g)]
                /\ UNCHANGED <<parent, binding, was>>
           ELSE /\ sync' = [sync EXCEPT !.todo = Tail(@),
                                        !.written = Append(@, <<t, group_role_map[g]>>)]
                /\ Become(parent, [binding EXCEPT ![t] = group_role_map[g]])
    /\ UNCHANGED <<writes, check>>

sync_return ==
    /\ sync.pc = "put" /\ sync.todo = <<>>
    /\ sync' = [sync EXCEPT !.pc = "done"]
    /\ UNCHANGED <<parent, binding, writes, check, was>>

-----------------------------------------------------------------------------

tenancyRoleWrite == \E t \in Tenants : delete_role(t) \/ \E r \in Role : put_role(t, r)

tenancyWrite ==
    \/ \E t \in Tenants : delete_tenant(t) \/ \E up \in Tenants \cup {Root} : put_tenant(t, up)
    \/ tenancyRoleWrite

tenancyCheck ==
    \/ \E t \in Tenants, a \in Actions : effective_roles_at(t, a)
    \/ scan_tree \/ read_ancestor \/ authorize \/ visible_tenants

\* The token's groups, each once (_unique).
tenancySync ==
    \/ /\ sync.pc = "idle"
       /\ \E gs \in UNION {Injection(1..n, Groups) : n \in 0..MaxGroups},
             tid \in Tenants \cup {Absent} : sync_begin(gs, tid)
    \/ sync_put \/ sync_return

TenancyNext == tenancyWrite \/ tenancyCheck \/ tenancySync

TenancySpec == TenancyInit /\ [][TenancyNext]_tenancyVars

-----------------------------------------------------------------------------
(* Properties.                                                               *)

\* get_ancestors, get_descendants and the links followed one by one agree on
\* every table the stores can hold, with parents missing or in a cycle; both loops
\* are over by then; and a path ends at its tenant.  (Every content of the table is
\* an initial state.)
TreeWalksAgree ==
    check.pc = "idle" => \A t \in Tenants : Exists(parent, t) =>
        LET up == get_ancestors(parent, t)
        IN  /\ Range(up) = Above(parent, t) /\ climb(parent, t)[up] = up
            /\ get_descendants(parent, t) = {u \in Tenants : t \in Above(parent, u)}
            /\ search(parent, t).stack = {}
            /\ Len(path(parent, t)) = 1 + Cardinality(Above(parent, t))

\* A decision during which nothing is written is the one the inheritance rule
\* gives: "a role at an ancestor tenant grants the same role at every descendant
\* tenant" (tenancy/models.py:123-124), and no other role does.
ExactWhenQuiet ==
    (check.pc = "decided" /\ was.quiet) =>
        (check.allowed <=> Entitled(parent, binding, check.tenant, check.action))

\* Whatever is written during a decision, it grants an action only on a role that
\* was bound at some moment of it, at the tenant, at one of the ancestors its scan
\* of the tree found, or as platform_admin.
GrantRestsOnBinding ==
    (check.pc = "decided" /\ check.allowed) =>
        \E h \in was.held :
            /\ can({h[2]}, check.action)
            /\ h[1] \in {check.tenant} \cup Range(check.scan) \/ h[2] = "platform_admin"

\* A tenant that visible_tenants lists is one the principal may read, if nothing is
\* written meanwhile and the tenant asked about exists.
VisibleIsReadable ==
    (check.pc = "listed" /\ was.quiet /\ Exists(parent, check.tenant)) =>
        \A t \in check.visible : Entitled(parent, binding, t, "read")

\* The same for any tenant asked about.
VisibleAlwaysReadable ==
    (check.pc = "listed" /\ was.quiet) =>
        \A t \in check.visible : Entitled(parent, binding, t, "read")

\* "A read-only snapshot of what a principal can do at a tenant" (authz.py:31): a
\* decision is the one the rule gives on the tables as they stood at some moment
\* of it.
DecisionIsSnapshot == check.pc = "decided" => check.allowed \in was.could

\* A sync that no other write disturbs gives the principal the role of every group
\* of the token that has a role and a tenant, at that tenant, wherever no other of
\* its groups maps to the same one; a group it cannot place costs no other group
\* its role.
SyncComplete ==
    (sync.pc = "done" /\ sync.quiet) =>
        LET placed == {g \in Range(sync.groups) : g \in DOMAIN group_role_map
                                                   /\ sync_tenant(g) # Absent}
        IN  \A g \in placed :
                (\A h \in placed \ {g} : sync_tenant(h) # sync_tenant(g))
                    => binding[sync_tenant(g)] = group_role_map[g]

\* "Returns the list of written bindings (already persisted to the RoleStore)"
\* (idp/group_sync.py:44-45).
SyncAllPersisted ==
    (sync.pc = "done" /\ sync.quiet) =>
        \A i \in DOMAIN sync.written : binding[sync.written[i][1]] = sync.written[i][2]
=============================================================================
