----------------------------- MODULE Memberships -----------------------------
(***************************************************************************)
(* The members of one organisation and of one of its locations.  Owners    *)
(* manage members through the tenant routes, Seatd staff manage owners     *)
(* through the platform routes.  Every request reads in one statement and  *)
(* writes in a later one, at READ COMMITTED: the row it changes is locked  *)
(* in between for some operations, the owners it counts never are.  A      *)
(* platform request keeps its own transaction open, for the audit event,   *)
(* while the identity service does the work in a second one, on a second   *)
(* connection of the same pool.                                            *)
(***************************************************************************)
EXTENDS Naturals, FiniteSets

CONSTANTS
    Users,      \* users who may become members of the organisation
    Staff,      \* users who may become members of the location
    Requests,   \* requests in progress at the same time
    PoolSize    \* MaxConns of the connection pool

\* Nothing bounds the requests by the connections.
ASSUME MembershipsConfiguration ==
    /\ IsFiniteSet(Users) /\ IsFiniteSet(Requests)
    /\ PoolSize \in Nat \ {0}

VARIABLES
    rows,       \* organisation_memberships and location_memberships
    slot        \* the transactions of each request

vars == <<rows, slot>>

-----------------------------------------------------------------------------
(* Rows and requests                                                       *)

\* A user has one row in each table: member_ref is unique there.
Keys == {<<"organisation", u>> : u \in Users} \cup {<<"location", u>> : u \in Staff}
Scope(k) == k[1]
OrgKey(u) == <<"organisation", u>>
NoKey == <<"none", "none">>

Owner == "organisation_owner"
validMembershipRole(scope, role) ==
    \/ scope = "organisation" /\ role \in {Owner, "read_only"}
    \/ scope = "location" /\ role \in {"location_manager", "waiter"}
Roles == {Owner, "read_only", "location_manager", "waiter"}

ManagedMembership == [role : Roles \cup {"none"}, enabled : BOOLEAN]
NoRow == [role |-> "none", enabled |-> FALSE]
Enabled(role) == [role |-> role, enabled |-> TRUE]

TenantKinds == {"create", "update", "disable"}
PlatformKinds == {"invite", "suspend", "reactivate", "reassign"}

\* to: who the ownership goes to.  found: a row was there to be enabled.
\* stale: another request has committed since this one has read (history).
Slot == [stage : {"idle", "outer", "write", "audit"}, kind : TenantKinds \cup PlatformKinds \cup {"none"},
         key : Keys \cup {NoKey}, to : Keys \cup {NoKey}, role : Roles \cup {"none"},
         found : BOOLEAN, stale : BOOLEAN]
Idle == [stage |-> "idle", kind |-> "none", key |-> NoKey, to |-> NoKey, role |-> "none",
         found |-> FALSE, stale |-> FALSE]

Writing(kind, k, to, role, found) ==
    [stage |-> "write", kind |-> kind, key |-> k, to |-> to, role |-> role, found |-> found, stale |-> FALSE]

\* PlatformProvisionTenant creates the organisation with its first owner.
Init ==
    /\ \E u \in Users : rows = [k \in Keys |-> IF k = OrgKey(u) THEN Enabled(Owner) ELSE NoRow]
    /\ slot = [r \in Requests |-> Idle]

Owners == {u \in Users : rows[OrgKey(u)] = Enabled(Owner)}

\* The only role with organisation.manage.
ActorHasOrganisationPermission == Owners # {}

\* SELECT ... FOR UPDATE keeps the row until the transaction ends.
LocksRow == {"update", "disable", "suspend", "reactivate", "reassign"}
LockFree(r, k) ==
    \A q \in Requests \ {r} : ~(slot[q].stage = "write" /\ slot[q].kind \in LocksRow /\ slot[q].key = k)

-----------------------------------------------------------------------------
(* The connection pool                                                     *)

\* Mutant: the session lookup of a platform request keeps its connection.
MutantTwoOuter(q) ==
    CASE slot[q].stage = "idle" -> 0
      [] slot[q].stage = "write" /\ slot[q].kind \in PlatformKinds -> 3
      [] OTHER -> IF slot[q].kind \in PlatformKinds THEN 2 ELSE 1

\* A platform request writes in a second transaction, inside its own.
Held(q) ==
    CASE slot[q].stage = "idle" -> 0
      [] slot[q].stage = "write" /\ slot[q].kind \in PlatformKinds -> 2
      [] OTHER -> 1

ConnectionFree ==
    LET holding(n) == {q \in Requests : Held(q) >= n}
    IN  Cardinality(holding(1)) + Cardinality(holding(2)) + Cardinality(holding(3)) < PoolSize

-----------------------------------------------------------------------------
(* What the service reads                                                  *)

\* Somebody else than the owner about to go.
requireAnotherOrganisationOwner == Cardinality(Owners) > 1

\* The row is there and enabled; an owner who would stop being one is not
\* the last.
mayDisable(k) ==
    /\ rows[k].enabled
    /\ rows[k].role = Owner => requireAnotherOrganisationOwner
mayUpdate(k, role) ==
    /\ rows[k].enabled
    /\ rows[k].role = Owner /\ role # Owner => requireAnotherOrganisationOwner

\* A row that is enabled already answers ErrAlreadyExists.
getMembershipByProfile(k) == rows[k].role # "none"
mayCreateOrReactivate(k) == ~rows[k].enabled

-----------------------------------------------------------------------------
(* Tenant requests: one transaction, permission and reads, then the write  *)

CreateMembership(r, k, role) ==
    /\ slot[r] = Idle /\ ConnectionFree
    /\ ActorHasOrganisationPermission
    /\ validMembershipRole(Scope(k), role)
    /\ mayCreateOrReactivate(k)
    /\ slot' = [slot EXCEPT ![r] = Writing("create", k, NoKey, role, getMembershipByProfile(k))]
    /\ UNCHANGED rows

UpdateMembershipRole(r, k, role) ==
    /\ slot[r] = Idle /\ ConnectionFree
    /\ ActorHasOrganisationPermission
    /\ validMembershipRole(Scope(k), role)
    /\ LockFree(r, k) /\ mayUpdate(k, role)
    /\ slot' = [slot EXCEPT ![r] = Writing("update", k, NoKey, role, TRUE)]
    /\ UNCHANGED rows

DisableMembership(r, k) ==
    /\ slot[r] = Idle /\ ConnectionFree
    /\ ActorHasOrganisationPermission
    /\ LockFree(r, k) /\ mayDisable(k)
    /\ slot' = [slot EXCEPT ![r] = Writing("disable", k, NoKey, "none", TRUE)]
    /\ UNCHANGED rows

-----------------------------------------------------------------------------
(* Platform requests: the outer transaction, then the service's own        *)

\* The caller's platform permission has been checked in the transaction that
\* will record the audit event.
inAuthorizedPlatformTx(r, kind, u, to) ==
    /\ slot[r] = Idle /\ ConnectionFree
    /\ slot' = [slot EXCEPT ![r] = [Idle EXCEPT !.stage = "outer", !.kind = kind, !.key = OrgKey(u),
                                                !.to = IF kind = "reassign" THEN OrgKey(to) ELSE NoKey]]
    /\ UNCHANGED rows

\* The service opens a transaction of its own on another connection.
InnerBegin(r, kind) == slot[r].stage = "outer" /\ slot[r].kind = kind /\ ConnectionFree
Decide(r, to, found) ==
    slot' = [slot EXCEPT ![r] = Writing(slot[r].kind, slot[r].key, to, Owner, found)]
Refuse(r) == slot' = [slot EXCEPT ![r] = Idle]

PlatformInviteOwner(r) ==
    /\ InnerBegin(r, "invite")
    /\ IF mayCreateOrReactivate(slot[r].key)
         THEN Decide(r, NoKey, getMembershipByProfile(slot[r].key))
         ELSE Refuse(r)
    /\ UNCHANGED rows

PlatformDisableOwnerMembership(r) ==
    /\ InnerBegin(r, "suspend") /\ LockFree(r, slot[r].key)
    /\ IF rows[slot[r].key] = Enabled(Owner) /\ requireAnotherOrganisationOwner
         THEN Decide(r, NoKey, TRUE)
         ELSE Refuse(r)
    /\ UNCHANGED rows

PlatformReactivateOwnerMembership(r) ==
    /\ InnerBegin(r, "reactivate") /\ LockFree(r, slot[r].key)
    /\ IF rows[slot[r].key].role = Owner THEN Decide(r, NoKey, TRUE) ELSE Refuse(r)
    /\ UNCHANGED rows

\* Whoever is a member already is taken as the next owner as it stands.
PlatformReassignOwnership(r) ==
    LET to == slot[r].to
    IN  /\ InnerBegin(r, "reassign") /\ LockFree(r, slot[r].key)
        /\ IF rows[slot[r].key] = Enabled(Owner) /\ to # slot[r].key
             THEN Decide(r, IF rows[to].enabled THEN NoKey ELSE to, getMembershipByProfile(to))
             ELSE Refuse(r)
        /\ UNCHANGED rows

-----------------------------------------------------------------------------
(* The writes                                                              *)

updateMembershipEnabled(k, role) == [rows EXCEPT ![k] = Enabled(role)]
updateMembershipRole(k, role) == [rows EXCEPT ![k] = [role |-> role, enabled |-> @.enabled]]
disableMembership(k) == [rows EXCEPT ![k] = [role |-> @.role, enabled |-> FALSE]]

\* A platform request goes on to its audit event.  The others that have
\* read before this commit now hold stale results.
Commit(r, written) ==
    /\ rows' = written
    /\ slot' = [q \in Requests |->
                  IF q = r THEN IF slot[r].kind \in PlatformKinds
                                  THEN [Idle EXCEPT !.stage = "audit", !.kind = slot[r].kind]
                                  ELSE Idle
                  ELSE IF slot[q].stage = "write" THEN [slot[q] EXCEPT !.stale = TRUE] ELSE slot[q]]

\* The row found earlier is enabled whatever has become of it; where none was
\* found one is inserted, unless somebody else has done so.
createOrReactivateOrganisationMembership(r, k) ==
    \/ /\ slot[r].found \/ rows[k] = NoRow
       /\ LockFree(r, k)
       /\ Commit(r, updateMembershipEnabled(k, slot[r].role))
    \/ /\ ~slot[r].found /\ rows[k] # NoRow
       /\ Refuse(r)
       /\ UNCHANGED rows

writeMembership(r) ==
    LET s == slot[r]
    IN  /\ s.stage = "write"
        /\ \/ s.kind \in {"create", "invite"} /\ createOrReactivateOrganisationMembership(r, s.key)
           \/ s.kind = "update" /\ Commit(r, updateMembershipRole(s.key, s.role))
           \/ s.kind \in {"disable", "suspend"} /\ Commit(r, disableMembership(s.key))
           \/ s.kind = "reactivate" /\ Commit(r, updateMembershipEnabled(s.key, Owner))

\* The next owner's row is written first, then the previous owner's, in one
\* transaction.
reassignWrite(r) ==
    LET s == slot[r]
    IN  /\ s.stage = "write" /\ s.kind = "reassign"
        /\ \/ s.to = NoKey /\ Commit(r, disableMembership(s.key))
           \/ /\ s.to # NoKey /\ (s.found \/ rows[s.to] = NoRow) /\ LockFree(r, s.to)
              /\ Commit(r, [disableMembership(s.key) EXCEPT ![s.to] = Enabled(Owner)])
           \/ /\ s.to # NoKey /\ ~s.found /\ rows[s.to] # NoRow
              /\ Refuse(r) /\ UNCHANGED rows

\* The outer transaction commits with the audit event.
recordPlatformAudit(r) ==
    /\ slot[r].stage = "audit"
    /\ Refuse(r)
    /\ UNCHANGED rows

\* A statement fails, the client goes away or the process dies: what is not
\* committed is undone, the audit event of what is committed never written.
rollback(r) ==
    /\ slot[r] # Idle
    /\ Refuse(r)
    /\ UNCHANGED rows

-----------------------------------------------------------------------------
\* A request in progress goes on by itself.
Step(r) ==
    \/ PlatformInviteOwner(r) \/ PlatformDisableOwnerMembership(r)
    \/ PlatformReactivateOwnerMembership(r) \/ PlatformReassignOwnership(r)
    \/ writeMembership(r) \/ reassignWrite(r) \/ recordPlatformAudit(r)

Send(r) ==
    \/ \E k \in Keys, role \in Roles : CreateMembership(r, k, role) \/ UpdateMembershipRole(r, k, role)
    \/ \E k \in Keys : DisableMembership(r, k)
    \/ \E kind \in PlatformKinds, u, to \in Users : inAuthorizedPlatformTx(r, kind, u, to)

Next == \E r \in Requests : Send(r) \/ Step(r) \/ rollback(r)

Spec == Init /\ [][Next]_vars

-----------------------------------------------------------------------------
(* Properties                                                              *)

\* Every row is one of its table, every request in a stage of the protocol.
TypeOK ==
    /\ rows \in [Keys -> ManagedMembership]
    /\ slot \in [Requests -> Slot]

WaitsForConnection(r) == slot[r].stage = "outer" /\ ~ConnectionFree
WaitsForRow(r) ==
    \/ slot[r].stage = "outer" /\ slot[r].kind \in LocksRow /\ ~LockFree(r, slot[r].key)
    \/ slot[r].stage = "write" /\ slot[r].kind \in {"create", "invite"} /\ ~LockFree(r, slot[r].key)
    \/ slot[r].stage = "write" /\ slot[r].to # NoKey /\ ~LockFree(r, slot[r].to)

\* Every connection is held by a platform request that waits for its second.
PoolExhausted == Cardinality({r \in Requests : slot[r].stage = "outer"}) >= PoolSize

\* Row locks never stop every request, not even while connections are scarce:
\* some request in progress can go on, unless the outer transactions of
\* platform requests alone have taken the whole pool.
SomeoneGoesOn ==
    (\E r \in Requests : slot[r] # Idle) =>
        \/ PoolExhausted
        \/ \E r \in Requests : slot[r] # Idle /\ ~WaitsForConnection(r) /\ ~WaitsForRow(r)
=============================================================================
