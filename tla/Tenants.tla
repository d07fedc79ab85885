------------------------------ MODULE Tenants ------------------------------
(***************************************************************************)
(* Workspaces and their members: the handlers of internal/api/tenants over *)
(* _tenants and _tenant_members (internal/tenant/store.go), and the roles  *)
(* a tenant's owners assign through internal/rbac.                         *)
(*                                                                         *)
(* A handler first reads the caller's own role (MyRole) and acts on it     *)
(* later; UpdateMemberRole, RemoveMember and AcceptInvite read and write   *)
(* in one transaction at READ COMMITTED, which takes no lock on what it    *)
(* reads.  Every statement is a step; a transaction's writes happen with   *)
(* its commit, since the rows it wrote are locked until then.              *)
(*                                                                         *)
(* A membership row belongs to a user, <<u, "user">>, or is a pending      *)
(* invitation for the user's address, <<u, "mail">>: pendingUserID derives *)
(* the key of the latter from the tenant and the address.                  *)
(***************************************************************************)
EXTENDS Naturals, Sequences, SequencesExt, FiniteSets

CONSTANTS
    Tenant,     \* ids of workspaces
    Person,     \* people, each with one address
    Slug,       \* slugs that pass slugRE
    Req,        \* requests handled at the same time
    Nil,        \* no user, tenant or slug
    Instances   \* the bounds to explore

(* An instance says which handlers are called, for which tenants and by    *)
(* whom, who has an account from the start, how many requests begin, and   *)
(* whether lookups of users fail.                                          *)
Kind == {"update", "delete", "invite", "role", "remove", "accept", "assign", "unassign"}
Instance == [kinds : SUBSET Kind, tenants : SUBSET Tenant, users : SUBSET Person,
             signed : SUBSET Person, requests : Nat, failing : BOOLEAN]

ASSUME TenantsAssumption ==
    /\ Nil \notin Tenant \cup Person \cup Slug
    /\ IsFiniteSet(Person)
    /\ Instances \subseteq Instance

VARIABLES
    bound,      \* the instance being explored
    signed,     \* users with a row in the auth collection
    tenant,     \* tenant[t]: _tenants
    member,     \* member[t][k]: _tenant_members
    inbox,      \* inbox[u]: tenants with a pending invitation, by invited_at
    grants,     \* _user_roles: <<u, t>> holds a tenant-scoped role on t
    handler,    \* handler[r]: where request r is, and what it has read
    requests,   \* requests begun
    overlap,    \* overlap[t]: an owner guard decided on a count that changed
    stale,      \* <<t, u>>: accepted on an invitation changed meanwhile
    strangers,  \* <<u, t>>: granted to somebody who was not a member
    left        \* <<u, t>>: removed while holding grants

tables == <<tenant, member, inbox, grants>>
history == <<overlap, stale, strangers, left>>
tenantsVars == <<bound, signed, tables, handler, requests, history>>

Key == Person \X {"user", "mail"}
Account(u) == <<u, "user">>
pendingUserID(u) == <<u, "mail">>

Role == {"owner", "admin", "member"}
NoRow == [role |-> "none", accepted |-> FALSE]
Row(role, accepted) == [role |-> role, accepted |-> accepted]
Present(t, k) == member[t][k] # NoRow

Live(t) == tenant[t].st = "live"
SlugFree(t, s) == \A x \in Tenant \ {t} : Live(x) => tenant[x].slug # s

\* Mutant: deleted tenants are not left out.
MyRoleOfAny(t, u) == IF member[t][Account(u)].accepted THEN member[t][Account(u)].role ELSE "none"

\* MyRole: accepted members of live tenants only.
MyRole(t, u) == IF Live(t) /\ member[t][Account(u)].accepted
                THEN member[t][Account(u)].role
                ELSE "none"
IsOwner(role) == role \in {"owner", "admin"}

\* SELECT count(*) ... role = 'owner' AND accepted_at IS NOT NULL
Owners(t) == {k \in Key : member[t][k] = Row("owner", TRUE)}

\* Mutant: admins may grant every role.
AssignableByAnyAdmin(role, mine) == IsOwner(mine)

isAllowedAssignableRole(role, mine) ==
    IF role = "owner" THEN mine = "owner" ELSE IsOwner(mine)

----------------------------------------------------------------------------
(* Requests.                                                               *)

Idle == [st |-> "idle", kind |-> "update", by |-> Nil, t |-> Nil, key |-> Nil,
         role |-> "none", want |-> Nil, mine |-> "none", seen |-> NoRow, count |-> 0,
         known |-> FALSE, since |-> "none"]

Finish(r) == handler' = [handler EXCEPT ![r] = Idle]
InState(r, kind, st) == handler[r].st = st /\ handler[r].kind = kind

Signup(u) ==
    /\ u \in bound.users \ signed
    /\ signed' = signed \cup {u}
    /\ UNCHANGED <<tables, handler, requests, history>>

\* POST /api/tenants: the row and its owner in one transaction; a slug in use
\* by a live tenant makes it fail.
Create(u, t, s) ==
    /\ u \in signed
    /\ t \in bound.tenants
    /\ tenant[t].st = "none"
    /\ SlugFree(t, s)
    /\ tenant' = [tenant EXCEPT ![t] = [st |-> "live", slug |-> s]]
    /\ member' = [member EXCEPT ![t][Account(u)] = Row("owner", TRUE)]
    /\ UNCHANGED <<signed, inbox, grants, handler, requests, history>>

\* What a handler requires of the caller's role before it goes on.
Permits(kind, mine, u, key, role) ==
    CASE kind = "delete" -> mine = "owner"
      [] kind \in {"invite", "role"} -> IsOwner(mine) /\ isAllowedAssignableRole(role, mine)
      [] kind = "remove" -> mine # "none" /\ (key = Account(u) \/ IsOwner(mine))
      [] OTHER -> IsOwner(mine)

Starts(r) == handler[r].st = "idle" /\ requests < bound.requests /\ requests' = requests + 1

\* A handler reads the caller's role and is past its early returns.  A refused
\* request changes nothing.
Begin(r, kind, u, t, key, role) ==
    /\ Starts(r)
    /\ kind \in bound.kinds \ {"accept"}
    /\ Permits(kind, MyRole(t, u), u, key, role)
    /\ handler' = [handler EXCEPT
           ![r] = [Idle EXCEPT !.st = "checked", !.kind = kind, !.by = u, !.t = t, !.key = key,
                               !.role = role, !.mine = MyRole(t, u), !.since = tenant[t].st]]
    /\ UNCHANGED <<signed, tables, history>>

\* PATCH: the partial unique index refuses a slug in use.
Update(r, s) ==
    LET t == handler[r].t
    IN  /\ InState(r, "update", "checked")
        /\ tenant' = IF Live(t) /\ SlugFree(t, s)
                     THEN [tenant EXCEPT ![t].slug = s]
                     ELSE tenant
        /\ Finish(r)
        /\ UNCHANGED <<signed, member, inbox, grants, requests, history>>

\* DELETE: soft; membership rows survive.
Delete(r) ==
    LET t == handler[r].t
    IN  /\ InState(r, "delete", "checked")
        /\ tenant' = IF Live(t) THEN [tenant EXCEPT ![t].st = "deleted"] ELSE tenant
        /\ Finish(r)
        /\ UNCHANGED <<signed, member, inbox, grants, requests, history>>

----------------------------------------------------------------------------
(* Invitations.                                                            *)

\* lookupUserByEmail: a query that fails counts as "no such user".
LookupUser(r) ==
    /\ InState(r, "invite", "checked")
    /\ \E known \in {~bound.failing /\ handler[r].key[1] \in signed, handler[r].key[1] \in signed} :
           handler' = [handler EXCEPT ![r].st = "invite", ![r].known = known]
    /\ UNCHANGED <<signed, tables, requests, history>>

\* Store.Invite for a known user: an accepted row, or ErrMemberExists.
InviteDirect(r) ==
    LET q == handler[r]
        k == Account(q.key[1])
    IN  /\ InState(r, "invite", "invite")
        /\ q.known
        /\ member' = IF Present(q.t, k) THEN member
                     ELSE [member EXCEPT ![q.t][k] = Row(q.role, TRUE)]
        /\ Finish(r)
        /\ UNCHANGED <<signed, tenant, inbox, grants, requests, history>>

\* ... and for an address: a pending row; a second invitation replaces role and
\* time of the first.
InvitePending(r) ==
    LET q == handler[r]
        u == q.key[1]
    IN  /\ InState(r, "invite", "invite")
        /\ ~q.known
        /\ member' = [member EXCEPT ![q.t][pendingUserID(u)] = Row(q.role, FALSE)]
        /\ inbox' = [inbox EXCEPT ![u] = Append(Remove(@, q.t), q.t)]
        /\ Finish(r)
        /\ UNCHANGED <<signed, tenant, grants, requests, history>>

\* Mutant: the newest invitation wherever it is, although a tenant was named.
OfferedAnywhere(u, want) == DOMAIN inbox[u]

\* The invitations AcceptInvite chooses the newest of: all of the address, or
\* those of the named tenant.
Offered(u, want) == {i \in DOMAIN inbox[u] : want \in {Nil, inbox[u][i]}}

Newest(t, u, want) ==
    \E i \in Offered(u, want) : inbox[u][i] = t /\ \A j \in Offered(u, want) : j <= i

\* AcceptInvite, its SELECT.  Whether the tenant is live is not asked.
AcceptSelect(r, u, want) ==
    /\ Starts(r)
    /\ "accept" \in bound.kinds
    /\ u \in signed
    /\ \E t \in Tenant :
           /\ Newest(t, u, want)
           /\ handler' = [handler EXCEPT
                  ![r] = [Idle EXCEPT !.st = "selected", !.kind = "accept", !.by = u, !.t = t,
                                      !.key = pendingUserID(u), !.want = want,
                                      !.since = tenant[t].st,
                                      !.seen = member[t][pendingUserID(u)]]]
    /\ UNCHANGED <<signed, tables, history>>

\* AcceptInvite, DELETE, INSERT and COMMIT.  How many rows were deleted is not
\* looked at; a member already there makes the INSERT fail and brings the
\* invitation back.
AcceptWrite(r) ==
    LET q == handler[r]
    IN  /\ InState(r, "accept", "selected")
        /\ IF Present(q.t, Account(q.by))
           THEN UNCHANGED <<member, inbox, stale>>
           ELSE /\ member' = [member EXCEPT ![q.t][q.key] = NoRow,
                                            ![q.t][Account(q.by)] = Row(q.seen.role, TRUE)]
                /\ inbox' = [inbox EXCEPT ![q.by] = Remove(@, q.t)]
                /\ stale' = IF member[q.t][q.key] = q.seen THEN stale
                            ELSE stale \cup {<<q.t, q.by>>}
        /\ Finish(r)
        /\ UNCHANGED <<signed, tenant, grants, requests, overlap, strangers, left>>

----------------------------------------------------------------------------
(* Roles and removal.                                                      *)

\* The first SELECT of UpdateMemberRole and RemoveMember; ErrNotFound ends.
ReadTarget(r) ==
    LET q == handler[r]
    IN  /\ handler[r].st = "checked"
        /\ q.kind \in {"role", "remove"}
        /\ handler' = [handler EXCEPT
               ![r] = IF Present(q.t, q.key)
                      THEN [q EXCEPT !.st = "read", !.seen = member[q.t][q.key]]
                      ELSE Idle]
        /\ UNCHANGED <<signed, tables, requests, history>>

\* When the owners are counted: a demotion of any owner row, pending ones
\* included, but a removal of accepted ones only.
Guarded(q) == \/ q.kind = "role" /\ q.seen.role = "owner" /\ q.role # "owner"
              \/ q.kind = "remove" /\ q.seen = Row("owner", TRUE)

\* Mutant: one remaining owner too few.
LastOwnerNever(n) == n < 1

LastOwner(n) == n <= 1

CountOwners(r) ==
    LET q == handler[r]
        n == Cardinality(Owners(q.t))
    IN  /\ q.st = "read"
        /\ handler' = [handler EXCEPT ![r] =
               CASE ~Guarded(q) -> [q EXCEPT !.st = "write"]
                 [] Guarded(q) /\ LastOwner(n) -> Idle
                 [] OTHER -> [q EXCEPT !.st = "write", !.count = n]]
        /\ UNCHANGED <<signed, tables, requests, history>>

\* The guard of request q decided on other rows than the ones it now changes.
Outdated(q) == \/ member[q.t][q.key] # q.seen
               \/ Guarded(q) /\ Cardinality(Owners(q.t)) # q.count

NowOverlapping(q) == overlap' = IF Outdated(q) THEN overlap \cup {q.t} ELSE overlap

\* UpdateMemberRole, UPDATE and COMMIT; a row gone meanwhile is ErrNotFound.
UpdateMemberRole(r) ==
    LET q == handler[r]
    IN  /\ InState(r, "role", "write")
        /\ IF Present(q.t, q.key)
           THEN /\ member' = [member EXCEPT ![q.t][q.key].role = q.role]
                /\ NowOverlapping(q)
           ELSE UNCHANGED <<member, overlap>>
        /\ Finish(r)
        /\ UNCHANGED <<signed, tenant, inbox, grants, requests, stale, strangers, left>>

\* RemoveMember, DELETE and COMMIT: the row only, not the roles.
RemoveMember(r) ==
    LET q == handler[r]
        u == q.key[1]
    IN  /\ InState(r, "remove", "write")
        /\ IF Present(q.t, q.key)
           THEN /\ member' = [member EXCEPT ![q.t][q.key] = NoRow]
                /\ inbox' = IF q.key = pendingUserID(u)
                            THEN [inbox EXCEPT ![u] = Remove(@, q.t)]
                            ELSE inbox
                /\ left' = IF q.key = Account(u) /\ <<u, q.t>> \in grants
                           THEN left \cup {<<u, q.t>>}
                           ELSE left
                /\ NowOverlapping(q)
           ELSE UNCHANGED <<member, inbox, left, overlap>>
        /\ Finish(r)
        /\ UNCHANGED <<signed, tenant, grants, requests, stale, strangers>>

\* Mutant: the tenant comes from the body and not from the URL.
AssignAnywhere(r) ==
    LET u == handler[r].key[1]
    IN  /\ InState(r, "assign", "checked")
        /\ \E t \in Tenant : grants' = grants \cup {<<u, t>>}
        /\ strangers' = IF member[handler[r].t][Account(u)].accepted
                        THEN strangers ELSE strangers \cup {<<u, handler[r].t>>}
        /\ Finish(r)
        /\ UNCHANGED <<signed, tenant, member, inbox, requests, overlap, stale, left>>

\* assignMemberRole: whether the target is a member is not looked up.
AssignMemberRole(r) ==
    LET q == handler[r]
        g == <<q.key[1], q.t>>
    IN  /\ InState(r, "assign", "checked")
        /\ grants' = grants \cup {g}
        /\ strangers' = IF g \in grants \/ member[q.t][Account(q.key[1])].accepted
                        THEN strangers ELSE strangers \cup {g}
        /\ Finish(r)
        /\ UNCHANGED <<signed, tenant, member, inbox, requests, overlap, stale, left>>

UnassignMemberRole(r) ==
    /\ InState(r, "unassign", "checked")
    /\ grants' = grants \ {<<handler[r].key[1], handler[r].t>>}
    /\ Finish(r)
    /\ UNCHANGED <<signed, tenant, member, inbox, requests, history>>

----------------------------------------------------------------------------

TenantsInit ==
    /\ bound \in Instances
    /\ signed = bound.signed
    /\ tenant = [t \in Tenant |-> [st |-> "none", slug |-> Nil]]
    /\ member = [t \in Tenant |-> [k \in Key |-> NoRow]]
    /\ inbox = [u \in Person |-> << >>]
    /\ grants = {}
    /\ handler = [r \in Req |-> Idle]
    /\ requests = 0
    /\ overlap = {} /\ stale = {} /\ strangers = {} /\ left = {}

Handle(r) ==
    \/ \E kind \in {"update", "delete"}, u \in bound.users, t \in bound.tenants :
           Begin(r, kind, u, t, Account(u), "none")
    \/ \E kind \in {"invite", "role"}, u, v \in bound.users, t \in bound.tenants, role \in Role :
           \E k \in {Account(v), pendingUserID(v)} :
               /\ kind = "invite" => k = Account(v)
               /\ Begin(r, kind, u, t, k, role)
    \/ \E u, v \in bound.users, t \in bound.tenants :
           \E k \in {Account(v), pendingUserID(v)} : Begin(r, "remove", u, t, k, "none")
    \/ \E kind \in {"assign", "unassign"}, u, v \in bound.users, t \in bound.tenants :
           Begin(r, kind, u, t, Account(v), "none")
    \/ \E u \in bound.users, want \in bound.tenants \cup {Nil} : AcceptSelect(r, u, want)
    \/ \E s \in Slug : Update(r, s)
    \/ Delete(r) \/ LookupUser(r) \/ InviteDirect(r) \/ InvitePending(r) \/ AcceptWrite(r)
    \/ ReadTarget(r) \/ CountOwners(r) \/ UpdateMemberRole(r) \/ RemoveMember(r)
    \/ AssignMemberRole(r) \/ UnassignMemberRole(r)

TenantsNext ==
    /\ UNCHANGED bound
    /\ \/ \E u \in Person : Signup(u)
       \/ \E u \in Person, t \in Tenant, s \in Slug : Create(u, t, s)
       \/ \E r \in Req : Handle(r)

TenantsSpec == TenantsInit /\ [][TenantsNext]_tenantsVars

----------------------------------------------------------------------------
(* Properties.                                                             *)

\* A tenant keeps an owner: the guard in the transactions of UpdateMemberRole
\* and RemoveMember fails only when the rows it read were changed before it
\* wrote, which READ COMMITTED permits.
OwnerRemains == \A t \in Tenant : Live(t) => Owners(t) # {} \/ t \in overlap

\* Whoever holds a tenant's role is a member of it, or was granted it as a
\* stranger, or has left: neither does the assignment look for a membership nor
\* does a removal take the roles along.
GrantsExplained == \A g \in grants :
    \/ member[g[2]][Account(g[1])].accepted
    \/ g \in strangers
    \/ g \in left

\* Request r ends by taking up an invitation of u to t.
TakesUp(r, t, u) ==
    /\ handler[r].kind = "accept" /\ handler[r].by = u /\ handler'[r] = Idle
    /\ member'[t][Account(u)] # member[t][Account(u)]

\* An invitation is taken up as it stands, in the tenant the user named: what a
\* user gains is the invited role, unless the invitation was changed or revoked
\* between the SELECT and the DELETE, whose count of rows nobody looks at.
InviteHonoured == \A t \in Tenant, u \in Person, r \in Req :
    TakesUp(r, t, u) => /\ handler[r].want \in {Nil, t}
                        /\ \/ <<t, u>> \in stale'
                           \/ member'[t][Account(u)].role = member[t][pendingUserID(u)].role

\* The rows of a deleted tenant are left alone: only requests that were let in
\* while it was live still change them, and those who accept an invitation to
\* it, which AcceptInvite permits.
DeletedIsQuiet == \A t \in Tenant :
    (tenant[t].st = "deleted" /\ member'[t] # member[t])
        => \E r \in Req : /\ handler[r].t = t
                           /\ \/ handler[r].since = "live"
                              \/ handler[r].kind = "accept"

\* Owners are made by owners: nobody who was never more than an admin when
\* asking leaves an owner row behind, accepted or pending.
OwnersMakeOwners == \A t \in Tenant, k \in Key :
    (member'[t][k].role = "owner" /\ member[t][k].role # "owner")
        => \/ tenant[t].st = "none"
           \/ \E r \in Req : /\ handler[r].t = t
                             /\ \/ handler[r].mine = "owner"
                                \/ handler[r].kind = "accept" /\ handler[r].seen.role = "owner"

\* Memberships and the roles that hang on them are accounted for, in every state
\* and over every step, although callers are checked before and outside of the
\* transactions that act for them, and the guards read rows they do not lock.
MembershipGoverned == /\ [](OwnerRemains /\ GrantsExplained)
                      /\ [][InviteHonoured /\ DeletedIsQuiet /\ OwnersMakeOwners]_tenantsVars
============================================================================
