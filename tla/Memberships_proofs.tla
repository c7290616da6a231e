-------------------------- MODULE Memberships_proofs --------------------------
(***************************************************************************)
(* The last-owner rule of Memberships, for any number of people and        *)
(* requests.  What a request has read is still so unless another request   *)
(* has committed since, because rows change at commits only and a commit   *)
(* marks every other writer as stale.  A writer that is not stale and      *)
(* takes an owner away therefore leaves another one.  Requests never all   *)
(* wait for each other, because a reassignment waits only for the row of   *)
(* one that has read later.                                                *)
(***************************************************************************)
EXTENDS Memberships, FiniteSetTheorems, WellFoundedInduction, TLAPS

OrgKeys == {OrgKey(u) : u \in Users}

\* If the row is an owner's, somebody else owns the organisation as well.
Spare(k) == rows[k] = Enabled(Owner) => \E u \in Owners : OrgKey(u) # k

\* A platform request is about owners.
OuterInv(r) ==
    slot[r].stage = "outer" =>
        /\ slot[r].kind \in PlatformKinds /\ slot[r].key \in OrgKeys
        /\ slot[r].kind = "reassign" => slot[r].to \in OrgKeys

WriteInv(r) ==
    slot[r].stage = "write" =>
        /\ slot[r].key \in Keys
        /\ slot[r].kind \in {"create", "invite", "update"} => slot[r].role \in Roles
        /\ slot[r].kind = "reactivate" => slot[r].key \in OrgKeys /\ slot[r].role = Owner
        /\ slot[r].to # NoKey => slot[r].to \in OrgKeys

\* What a request that is not stale has read still holds.
FreshInv(r) ==
    slot[r].stage = "write" /\ ~slot[r].stale =>
        /\ slot[r].kind \in {"create", "invite"} => ~rows[slot[r].key].enabled
        /\ slot[r].kind \in {"disable", "suspend"} => Spare(slot[r].key)
        /\ slot[r].kind = "update" => slot[r].role = Owner \/ Spare(slot[r].key)

Inv == TypeOK /\ \A r \in Requests : OuterInv(r) /\ WriteInv(r) /\ FreshInv(r)

-----------------------------------------------------------------------------
(* Keys and owners                                                         *)

\* A key of the organisation is a key, and tells its user.
LEMMA OrgKeyFacts ==
    /\ OrgKeys \subseteq Keys /\ NoKey \notin Keys
    /\ \A u, v \in Users : OrgKey(u) = OrgKey(v) => u = v
    /\ \A k \in Keys : k \in OrgKeys \/ Scope(k) = "location"
  BY DEF OrgKeys, Keys, OrgKey, NoKey, Scope

\* The count of owners leaves one beside any given row.
LEMMA AnotherOwner ==
    ASSUME requireAnotherOrganisationOwner, NEW k
    PROVE  Spare(k)
  <1> SUFFICES ASSUME \A u \in Owners : OrgKey(u) = k PROVE FALSE
    BY DEF Spare
  <1>1. Owners # {} BY FS_EmptySet DEF requireAnotherOrganisationOwner
  <1>2. PICK u \in Owners : TRUE BY <1>1
  <1>3. Owners = {u} BY <1>2, OrgKeyFacts DEF Owners
  <1>4. Cardinality({u}) = 1 BY FS_Singleton
  <1>5. Cardinality(Owners) = 1 BY <1>3, <1>4
  <1> QED BY <1>5 DEF requireAnotherOrganisationOwner

-----------------------------------------------------------------------------
(* The invariant                                                           *)

\* The first owner is there, nobody is doing anything.
LEMMA InitInv == Init => Inv
  <1> SUFFICES ASSUME Init PROVE Inv OBVIOUS
  <1>1. rows \in [Keys -> ManagedMembership]
    BY DEF Init, ManagedMembership, NoRow, Enabled, Roles, Owner
  <1>2. \A r \in Requests : slot[r] = Idle BY DEF Init
  <1>3. Idle \in Slot BY DEF Idle, Slot
  <1>4. slot \in [Requests -> Slot] BY <1>2, <1>3 DEF Init
  <1> QED BY <1>1, <1>2, <1>4 DEF Inv, TypeOK, OuterInv, WriteInv, FreshInv, Idle

\* A request that takes a step of its own and leaves the rows alone keeps the
\* invariant if what it now holds is right.
LEMMA LocalStep ==
    ASSUME Inv, NEW r \in Requests, NEW s \in Slot,
           slot' = [slot EXCEPT ![r] = s], rows' = rows,
           OuterInv(r)', WriteInv(r)', FreshInv(r)'
    PROVE  Inv'
  <1>1. \A q \in Requests \ {r} : slot'[q] = slot[q] BY DEF Inv, TypeOK
  <1>2. TypeOK' BY DEF Inv, TypeOK
  <1>3. ASSUME NEW q \in Requests \ {r} PROVE OuterInv(q)' /\ WriteInv(q)' /\ FreshInv(q)'
    <2>1. OuterInv(q) /\ WriteInv(q) /\ FreshInv(q) BY DEF Inv
    <2>2. slot'[q] = slot[q] BY <1>1
    <2> QED BY <2>1, <2>2 DEF OuterInv, WriteInv, FreshInv, Spare, Owners
  <1> QED BY <1>2, <1>3 DEF Inv

\* Giving up, or coming to the end without a write.
LEMMA RefuseStep ==
    ASSUME Inv, NEW r \in Requests, Refuse(r), rows' = rows
    PROVE  Inv'
  <1>1. Idle \in Slot BY DEF Idle, Slot
  <1>2. slot'[r] = Idle BY DEF Refuse, Inv, TypeOK
  <1>3. OuterInv(r)' /\ WriteInv(r)' /\ FreshInv(r)' BY <1>2 DEF OuterInv, WriteInv, FreshInv, Idle
  <1> QED BY <1>1, <1>3, LocalStep DEF Refuse

\* The rows as they are decide what is about to be written.
LEMMA ReadStep ==
    ASSUME Inv, NEW r \in Requests, NEW kind \in TenantKinds \cup PlatformKinds,
           NEW k \in Keys, NEW to \in OrgKeys \cup {NoKey}, NEW role \in Roles \cup {"none"},
           NEW found \in BOOLEAN,
           slot' = [slot EXCEPT ![r] = Writing(kind, k, to, role, found)], rows' = rows,
           kind \in {"create", "invite", "update"} => role \in Roles,
           kind = "reactivate" => k \in OrgKeys /\ role = Owner,
           kind \in {"create", "invite"} => ~rows[k].enabled,
           kind \in {"disable", "suspend"} => Spare(k),
           kind = "update" => role = Owner \/ Spare(k)
    PROVE  Inv'
  <1>1. Writing(kind, k, to, role, found) \in Slot
    BY OrgKeyFacts DEF Writing, Slot
  <1>2. slot'[r] = Writing(kind, k, to, role, found) BY DEF Inv, TypeOK
  <1>3. OuterInv(r)' BY <1>2 DEF OuterInv, Writing
  <1>4. WriteInv(r)' BY <1>2 DEF WriteInv, Writing
  <1>5. FreshInv(r)' BY <1>2 DEF FreshInv, Writing, Spare, Owners
  <1> QED BY <1>1, <1>3, <1>4, <1>5, LocalStep

\* A commit leaves no writer that could rely on what it has read before.
LEMMA CommitStep ==
    ASSUME Inv, NEW r \in Requests, NEW written \in [Keys -> ManagedMembership], Commit(r, written)
    PROVE  Inv'
  <1> DEFINE next(q) ==
        IF q = r THEN IF slot[r].kind \in PlatformKinds
                        THEN [Idle EXCEPT !.stage = "audit", !.kind = slot[r].kind]
                        ELSE Idle
        ELSE IF slot[q].stage = "write" THEN [slot[q] EXCEPT !.stale = TRUE] ELSE slot[q]
  <1>1. slot' = [q \in Requests |-> next(q)] /\ rows' = written BY DEF Commit
  <1>2. ASSUME NEW q \in Requests PROVE next(q) \in Slot
    BY DEF Inv, TypeOK, Slot, Idle, PlatformKinds
  <1>3. TypeOK' BY <1>1, <1>2 DEF TypeOK
  <1>4. ASSUME NEW q \in Requests PROVE OuterInv(q)' /\ WriteInv(q)' /\ FreshInv(q)'
    <2>1. slot'[q] = next(q) BY <1>1
    <2>2. OuterInv(q) /\ WriteInv(q) /\ slot[q] \in Slot BY DEF Inv, TypeOK
    <2>3. CASE q = r BY <2>1, <2>3 DEF OuterInv, WriteInv, FreshInv, Idle
    <2>4. CASE q # r /\ slot[q].stage = "write"
      BY <2>1, <2>2, <2>4 DEF OuterInv, WriteInv, FreshInv, Slot
    <2>5. CASE q # r /\ slot[q].stage # "write"
      BY <2>1, <2>2, <2>5 DEF OuterInv, WriteInv, FreshInv
    <2> QED BY <2>3, <2>4, <2>5
  <1> QED BY <1>3, <1>4 DEF Inv
-----------------------------------------------------------------------------
(* What each kind of request writes                                        *)

\* The value a writer installs, if it commits: the row it creates, reactivates,
\* updates or disables, and for a reassignment the next owner's as well.
Writes(r, written) ==
    LET s == slot[r]
    IN  \/ s.kind \in {"create", "invite"} /\ written = updateMembershipEnabled(s.key, s.role)
        \/ s.kind = "update" /\ written = updateMembershipRole(s.key, s.role)
        \/ s.kind \in {"disable", "suspend"} /\ written = disableMembership(s.key)
        \/ s.kind = "reactivate" /\ written = updateMembershipEnabled(s.key, Owner)
        \/ s.kind = "reassign" /\ s.to = NoKey /\ written = disableMembership(s.key)
        \/ /\ s.kind = "reassign" /\ s.to # NoKey
           /\ written = [disableMembership(s.key) EXCEPT ![s.to] = Enabled(Owner)]

\* A write either commits one of these or is given up.
LEMMA WriteCases ==
    ASSUME NEW r \in Requests, writeMembership(r) \/ reassignWrite(r)
    PROVE  /\ slot[r].stage = "write"
           /\ \/ Refuse(r) /\ rows' = rows
              \/ \E written : Writes(r, written) /\ Commit(r, written)
  BY DEF writeMembership, reassignWrite, createOrReactivateOrganisationMembership, Writes

\* They are rows of the tables.
LEMMA WritesType ==
    ASSUME Inv, NEW r \in Requests, slot[r].stage = "write", NEW written, Writes(r, written)
    PROVE  written \in [Keys -> ManagedMembership]
  <1>1. /\ slot[r].key \in Keys /\ (slot[r].to # NoKey => slot[r].to \in Keys)
        /\ slot[r].kind \in {"create", "invite", "update"} => slot[r].role \in Roles
    BY OrgKeyFacts DEF Inv, WriteInv
  <1>2. rows \in [Keys -> ManagedMembership] BY DEF Inv, TypeOK
  <1>3. \A role \in Roles : Enabled(role) \in ManagedMembership BY DEF Enabled, ManagedMembership
  <1>4. Owner \in Roles BY DEF Roles
  <1>5. \A k \in Keys, role \in Roles : updateMembershipEnabled(k, role) \in [Keys -> ManagedMembership]
    BY <1>2, <1>3 DEF updateMembershipEnabled
  <1>6. \A k \in Keys, role \in Roles : updateMembershipRole(k, role) \in [Keys -> ManagedMembership]
    BY <1>2 DEF updateMembershipRole, ManagedMembership
  <1>7. \A k \in Keys : disableMembership(k) \in [Keys -> ManagedMembership]
    BY <1>2 DEF disableMembership, ManagedMembership
  <1>8. \A k, to \in Keys : [disableMembership(k) EXCEPT ![to] = Enabled(Owner)] \in [Keys -> ManagedMembership]
    BY <1>3, <1>4, <1>7
  <1>9. CASE slot[r].kind \in {"create", "invite", "reactivate"}
    BY <1>1, <1>4, <1>5, <1>9 DEF Writes
  <1>10. CASE slot[r].kind = "update" BY <1>1, <1>6, <1>10 DEF Writes
  <1>11. CASE slot[r].kind \in {"disable", "suspend"} BY <1>1, <1>7, <1>11 DEF Writes
  <1>12. CASE slot[r].kind = "reassign" /\ slot[r].to = NoKey BY <1>1, <1>7, <1>12 DEF Writes
  <1>13. CASE slot[r].kind = "reassign" /\ slot[r].to # NoKey
    <2>1. written = [disableMembership(slot[r].key) EXCEPT ![slot[r].to] = Enabled(Owner)]
      BY <1>13 DEF Writes
    <2> QED BY <1>1, <1>8, <1>13, <2>1
  <1> QED BY <1>9, <1>10, <1>11, <1>12, <1>13 DEF Writes

\* A write that is not stale leaves an owner, unless ownership goes to
\* somebody who is a member already.
LEMMA WritesKeepOwner ==
    ASSUME Inv, NEW r \in Requests, slot[r].stage = "write", ~slot[r].stale,
           NEW written, Writes(r, written), rows' = written,
           ~(slot[r].kind = "reassign" /\ slot[r].to = NoKey), Owners # {}
    PROVE  Owners' # {}
  <1> DEFINE s == slot[r]
  <1>1. s.key \in Keys /\ rows \in [Keys -> ManagedMembership] /\ WriteInv(r) /\ FreshInv(r)
    BY DEF Inv, TypeOK, WriteInv
  <1>2. \A u \in Users : OrgKey(u) \in Keys BY OrgKeyFacts DEF OrgKeys
  <1>3. PICK u \in Users : rows[OrgKey(u)] = Enabled(Owner) BY DEF Owners
  <1>4. CASE s.kind \in {"create", "invite"}
    <2>1. rows[s.key] # Enabled(Owner) BY <1>1, <1>4 DEF FreshInv, Enabled
    <2>2. rows'[OrgKey(u)] = rows[OrgKey(u)]
      BY <1>1, <1>2, <1>3, <1>4, <2>1 DEF Writes, updateMembershipEnabled
    <2> QED BY <1>3, <2>2 DEF Owners
  <1>5. CASE s.kind = "update"
    <2>1. \A v \in Users : OrgKey(v) # s.key => rows'[OrgKey(v)] = rows[OrgKey(v)]
      BY <1>1, <1>2, <1>5 DEF Writes, updateMembershipRole
    <2>2. CASE OrgKey(u) # s.key BY <1>3, <2>1, <2>2 DEF Owners
    <2>3. CASE OrgKey(u) = s.key /\ s.role = Owner
      <3>1. rows'[s.key] = [role |-> Owner, enabled |-> TRUE]
        BY <1>1, <1>3, <1>5, <2>3 DEF Writes, updateMembershipRole, Enabled
      <3> QED BY <1>3, <2>3, <3>1 DEF Owners, Enabled
    <2>4. CASE OrgKey(u) = s.key /\ s.role # Owner
      <3>1. PICK v \in Owners : OrgKey(v) # s.key BY <1>1, <1>3, <1>5, <2>4 DEF FreshInv, Spare
      <3> QED BY <2>1, <3>1 DEF Owners
    <2> QED BY <2>2, <2>3, <2>4
  <1>6. CASE s.kind \in {"disable", "suspend"}
    <2>1. \A v \in Users : OrgKey(v) # s.key => rows'[OrgKey(v)] = rows[OrgKey(v)]
      BY <1>1, <1>2, <1>6 DEF Writes, disableMembership
    <2>2. \E v \in Owners : OrgKey(v) # s.key BY <1>1, <1>3, <1>6 DEF FreshInv, Spare, Owners
    <2> QED BY <2>1, <2>2 DEF Owners
  <1>7. CASE s.kind = "reactivate"
    <2>1. PICK v \in Users : s.key = OrgKey(v) BY <1>1, <1>7 DEF WriteInv, OrgKeys
    <2>2. rows'[OrgKey(v)] = Enabled(Owner)
      BY <1>1, <1>7, <2>1 DEF Writes, updateMembershipEnabled
    <2> QED BY <2>2 DEF Owners
  <1>8. CASE s.kind = "reassign" /\ s.to # NoKey
    <2>1. PICK v \in Users : s.to = OrgKey(v) BY <1>1, <1>8 DEF WriteInv, OrgKeys
    <2>2. rows'[OrgKey(v)] = Enabled(Owner)
      BY <1>1, <1>2, <1>8, <2>1 DEF Writes, disableMembership
    <2> QED BY <2>2 DEF Owners
  <1> QED BY <1>4, <1>5, <1>6, <1>7, <1>8 DEF Writes
-----------------------------------------------------------------------------
(* The steps                                                               *)

\* Tenant requests: what they check is what they rely on.
LEMMA TenantStep ==
    ASSUME Inv, NEW r \in Requests, NEW k \in Keys, NEW role \in Roles,
           CreateMembership(r, k, role) \/ UpdateMembershipRole(r, k, role) \/ DisableMembership(r, k)
    PROVE  Inv'
  <1>1. {"create", "update", "disable"} \subseteq TenantKinds \cup PlatformKinds BY DEF TenantKinds
  <1>2. CASE CreateMembership(r, k, role)
    <2>1. getMembershipByProfile(k) \in BOOLEAN BY DEF getMembershipByProfile
    <2>2. /\ ~rows[k].enabled /\ rows' = rows
          /\ slot' = [slot EXCEPT ![r] = Writing("create", k, NoKey, role, getMembershipByProfile(k))]
      BY <1>2 DEF CreateMembership, mayCreateOrReactivate
    <2> QED BY <1>1, <2>1, <2>2, ReadStep
  <1>3. CASE UpdateMembershipRole(r, k, role)
    <2>1. /\ mayUpdate(k, role) /\ rows' = rows
          /\ slot' = [slot EXCEPT ![r] = Writing("update", k, NoKey, role, TRUE)]
      BY <1>3 DEF UpdateMembershipRole
    <2>2. role = Owner \/ Spare(k)
      <3>1. CASE rows[k].role # Owner BY <3>1 DEF Spare, Enabled
      <3>2. CASE rows[k].role = Owner /\ role # Owner
        <4>1. requireAnotherOrganisationOwner BY <2>1, <3>2 DEF mayUpdate
        <4> QED BY <4>1, AnotherOwner
      <3> QED BY <3>1, <3>2
    <2> QED BY <1>1, <2>1, <2>2, ReadStep
  <1>4. CASE DisableMembership(r, k)
    <2>1. /\ mayDisable(k) /\ rows' = rows
          /\ slot' = [slot EXCEPT ![r] = Writing("disable", k, NoKey, "none", TRUE)]
      BY <1>4 DEF DisableMembership
    <2>2. Spare(k)
      <3>1. CASE rows[k].role # Owner BY <3>1 DEF Spare, Enabled
      <3>2. CASE rows[k].role = Owner
        <4>1. requireAnotherOrganisationOwner BY <2>1, <3>2 DEF mayDisable
        <4> QED BY <4>1, AnotherOwner
      <3> QED BY <3>1, <3>2
    <2> QED BY <1>1, <2>1, <2>2, ReadStep
  <1> QED BY <1>2, <1>3, <1>4

\* The outer transaction of a platform request begins.
LEMMA OuterStep ==
    ASSUME Inv, NEW r \in Requests, NEW kind \in PlatformKinds, NEW u \in Users, NEW to \in Users,
           inAuthorizedPlatformTx(r, kind, u, to)
    PROVE  Inv'
  <1> DEFINE s == [Idle EXCEPT !.stage = "outer", !.kind = kind, !.key = OrgKey(u),
                               !.to = IF kind = "reassign" THEN OrgKey(to) ELSE NoKey]
  <1>1. OrgKey(u) \in OrgKeys /\ OrgKey(to) \in OrgKeys /\ OrgKeys \subseteq Keys
    BY OrgKeyFacts DEF OrgKeys
  <1>2. s \in Slot BY <1>1 DEF Slot, Idle
  <1>3. slot' = [slot EXCEPT ![r] = s] /\ rows' = rows BY DEF inAuthorizedPlatformTx
  <1>4. slot'[r] = s BY <1>3 DEF Inv, TypeOK
  <1>5. OuterInv(r)' BY <1>1, <1>4 DEF OuterInv, Idle
  <1>6. WriteInv(r)' /\ FreshInv(r)' BY <1>4 DEF WriteInv, FreshInv, Idle
  <1> QED BY <1>2, <1>3, <1>5, <1>6, LocalStep

\* The service's own transaction reads.
LEMMA InnerStep ==
    ASSUME Inv, NEW r \in Requests,
           \/ PlatformInviteOwner(r) \/ PlatformDisableOwnerMembership(r)
           \/ PlatformReactivateOwnerMembership(r) \/ PlatformReassignOwnership(r)
    PROVE  Inv'
  <1> DEFINE s == slot[r]
  <1>1. rows' = rows /\ s.stage = "outer"
    BY DEF PlatformInviteOwner, PlatformDisableOwnerMembership, PlatformReactivateOwnerMembership,
           PlatformReassignOwnership, InnerBegin
  <1>2. /\ s.kind \in PlatformKinds /\ s.key \in OrgKeys /\ s.key \in Keys
        /\ s.kind = "reassign" => s.to \in OrgKeys
    BY <1>1, OrgKeyFacts DEF Inv, OuterInv
  <1>3. CASE Refuse(r) BY <1>1, <1>3, RefuseStep
  <1>4. Owner \in Roles BY DEF Roles
  <1>5. \A k : getMembershipByProfile(k) \in BOOLEAN BY DEF getMembershipByProfile
  <1>6. CASE PlatformInviteOwner(r) /\ ~Refuse(r)
    <2>1. s.kind = "invite" /\ ~rows[s.key].enabled /\ Decide(r, NoKey, getMembershipByProfile(s.key))
      BY <1>6 DEF PlatformInviteOwner, InnerBegin, mayCreateOrReactivate
    <2> QED BY <1>1, <1>2, <1>4, <1>5, <2>1, ReadStep DEF Decide
  <1>7. CASE PlatformDisableOwnerMembership(r) /\ ~Refuse(r)
    <2>1. s.kind = "suspend" /\ requireAnotherOrganisationOwner /\ Decide(r, NoKey, TRUE)
      BY <1>7 DEF PlatformDisableOwnerMembership, InnerBegin
    <2>2. Spare(s.key) BY <2>1, AnotherOwner
    <2> QED BY <1>1, <1>2, <1>4, <2>1, <2>2, ReadStep DEF Decide
  <1>8. CASE PlatformReactivateOwnerMembership(r) /\ ~Refuse(r)
    <2>1. s.kind = "reactivate" /\ Decide(r, NoKey, TRUE)
      BY <1>8 DEF PlatformReactivateOwnerMembership, InnerBegin
    <2> QED BY <1>1, <1>2, <1>4, <2>1, ReadStep DEF Decide
  <1>9. CASE PlatformReassignOwnership(r) /\ ~Refuse(r)
    <2> DEFINE to == IF rows[s.to].enabled THEN NoKey ELSE s.to
    <2>1. s.kind = "reassign" /\ Decide(r, to, getMembershipByProfile(s.to))
      BY <1>9 DEF PlatformReassignOwnership, InnerBegin
    <2>2. to \in OrgKeys \cup {NoKey} BY <1>2, <2>1
    <2> HIDE DEF to
    <2> QED BY <1>1, <1>2, <1>4, <1>5, <2>1, <2>2, ReadStep DEF Decide
  <1> QED BY <1>3, <1>6, <1>7, <1>8, <1>9

\* Every step keeps the invariant.
LEMMA NextInv == Inv /\ [Next]_vars => Inv'
  <1> SUFFICES ASSUME Inv, [Next]_vars PROVE Inv' OBVIOUS
  <1>1. CASE UNCHANGED vars
    BY <1>1 DEF vars, Inv, TypeOK, OuterInv, WriteInv, FreshInv, Spare, Owners
  <1>2. ASSUME NEW r \in Requests, Send(r) PROVE Inv'
    <2>1. \A k \in Keys : Owner \in Roles BY DEF Roles
    <2> QED BY <1>2, <2>1, TenantStep, OuterStep DEF Send
  <1>3. ASSUME NEW r \in Requests, writeMembership(r) \/ reassignWrite(r) PROVE Inv'
    <2>1. CASE Refuse(r) /\ rows' = rows BY <2>1, RefuseStep
    <2>2. CASE \E written : Writes(r, written) /\ Commit(r, written)
      <3>1. PICK written : Writes(r, written) /\ Commit(r, written) BY <2>2
      <3>2. written \in [Keys -> ManagedMembership] BY <1>3, <3>1, WriteCases, WritesType
      <3> QED BY <3>1, <3>2, CommitStep
    <2> QED BY <1>3, <2>1, <2>2, WriteCases
  <1>4. ASSUME NEW r \in Requests, recordPlatformAudit(r) \/ rollback(r) PROVE Inv'
    BY <1>4, RefuseStep DEF recordPlatformAudit, rollback
  <1> QED BY <1>1, <1>2, <1>3, <1>4, InnerStep DEF Next, Step

\* Rows change only when a writer commits, and it is then no longer writing.
LEMMA RowsChangeAtCommit ==
    ASSUME Inv, Next, rows' # rows
    PROVE  \E r \in Requests :
             /\ slot[r].stage = "write" /\ slot'[r].stage # "write"
             /\ \E written : Writes(r, written) /\ rows' = written
  <1>1. PICK r \in Requests : writeMembership(r) \/ reassignWrite(r)
    BY DEF Next, Send, Step, CreateMembership, UpdateMembershipRole, DisableMembership, inAuthorizedPlatformTx,
           PlatformInviteOwner, PlatformDisableOwnerMembership, PlatformReactivateOwnerMembership,
           PlatformReassignOwnership, recordPlatformAudit, rollback
  <1>2. PICK written : Writes(r, written) /\ Commit(r, written) BY <1>1, WriteCases
  <1>3. slot'[r].stage # "write" BY <1>2 DEF Commit, Idle
  <1> QED BY <1>1, <1>2, <1>3, WriteCases DEF Commit

-----------------------------------------------------------------------------
(* Row locks and connections                                               *)

Writer(q) == slot[q].stage = "write"
Locker(q) == Writer(q) /\ slot[q].kind \in LocksRow
Reassigner(q) == Writer(q) /\ slot[q].kind = "reassign"

\* A row has one lock.  Only a reassignment goes on to a second row, and the
\* row it has locked stays an owner's.
LockInv ==
    /\ \A q \in Requests : Writer(q) /\ slot[q].to # NoKey => slot[q].kind = "reassign"
    /\ \A p, q \in Requests : Locker(p) /\ Locker(q) /\ slot[p].key = slot[q].key => p = q
    /\ \A q \in Requests : Reassigner(q) => rows[slot[q].key] = Enabled(Owner)

\* A reassignment waits only for one that has read later.
Ranked(f) ==
    \A p, q \in Requests : Reassigner(p) /\ Reassigner(q) /\ slot[p].to = slot[q].key => f[q] < f[p]
NoCycle == \E f \in [Requests -> Nat] : Ranked(f)

\* A request stops writing, or does not begin to; rows locked by others stay.
LEMMA LocksFreed ==
    ASSUME Inv, LockInv, NoCycle, NEW r \in Requests, slot'[r].stage # "write",
           \A q \in Requests \ {r} :
             slot'[q].stage = slot[q].stage /\ slot'[q].kind = slot[q].kind
             /\ slot'[q].key = slot[q].key /\ slot'[q].to = slot[q].to,
           \A q \in Requests \ {r} : Locker(q) => rows'[slot[q].key] = rows[slot[q].key]
    PROVE  LockInv' /\ NoCycle'
<1>1. ~Writer(r)' /\ ~Locker(r)' /\ ~Reassigner(r)'
  BY DEF Writer, Locker, Reassigner
<1>2. ASSUME NEW q \in Requests, Writer(q)'
      PROVE  /\ q # r /\ Writer(q) /\ slot'[q].to = slot[q].to /\ slot'[q].key = slot[q].key
             /\ slot'[q].kind = slot[q].kind
             /\ (Locker(q)' <=> Locker(q)) /\ (Reassigner(q)' <=> Reassigner(q))
  <2>1. q # r
    BY <1>1, <1>2
  <2>2. slot'[q].stage = slot[q].stage /\ slot'[q].kind = slot[q].kind
        /\ slot'[q].key = slot[q].key /\ slot'[q].to = slot[q].to
    BY <2>1
  <2> QED
    BY <1>2, <2>1, <2>2 DEF Writer, Locker, Reassigner
<1>3. \A q \in Requests : Writer(q)' /\ slot'[q].to # NoKey => slot'[q].kind = "reassign"
  BY <1>2 DEF LockInv
<1>4. \A q \in Requests : (Locker(q)' => Writer(q)') /\ (Reassigner(q)' => Writer(q)') /\ (Reassigner(q) => Locker(q))
  BY DEF Locker, Reassigner, LocksRow
<1>5. ASSUME NEW p \in Requests, NEW q \in Requests, Locker(p)', Locker(q)', slot'[p].key = slot'[q].key PROVE p = q
  <2>1. Locker(p) /\ Locker(q) /\ slot[p].key = slot[q].key
    BY <1>2, <1>4, <1>5
  <2> QED
    BY <2>1 DEF LockInv
<1>6. ASSUME NEW q \in Requests, Reassigner(q)' PROVE rows'[slot'[q].key] = Enabled(Owner)
  <2>1. q # r /\ Reassigner(q) /\ Locker(q) /\ slot'[q].key = slot[q].key
    BY <1>2, <1>4, <1>6
  <2> QED
    BY <2>1 DEF LockInv
<1>7. PICK f \in [Requests -> Nat] : Ranked(f)
  BY DEF NoCycle
<1>8. ASSUME NEW p \in Requests, NEW q \in Requests, Reassigner(p)', Reassigner(q)', slot'[p].to = slot'[q].key
      PROVE  f[q] < f[p]
  <2>1. Reassigner(p) /\ Reassigner(q) /\ slot[p].to = slot[q].key
    BY <1>2, <1>4, <1>8
  <2> QED
    BY <1>7, <2>1 DEF Ranked
<1>9. Ranked(f)'
  BY <1>8 DEF Ranked
<1>10. NoCycle'
  BY <1>7, <1>9 DEF NoCycle
<1> QED
  BY <1>3, <1>5, <1>6, <1>10 DEF LockInv

\* A request has read and is about to write: it waits for no reassignment,
\* since the row it is to give the ownership to is not an owner's.
LEMMA LocksTaken ==
    ASSUME Inv, LockInv, NoCycle, NEW r \in Requests, NEW kind, NEW k \in Keys, NEW to, NEW role, NEW found,
           slot' = [slot EXCEPT ![r] = Writing(kind, k, to, role, found)], rows' = rows,
           kind \in LocksRow => LockFree(r, k),
           to # NoKey => kind = "reassign" /\ ~rows[to].enabled /\ to # k,
           kind = "reassign" => rows[k] = Enabled(Owner)
    PROVE  LockInv' /\ NoCycle'
<1>1. /\ slot'[r].stage = "write" /\ slot'[r].kind = kind /\ slot'[r].key = k /\ slot'[r].to = to
      /\ \A q \in Requests \ {r} : slot'[q] = slot[q]
  BY DEF Inv, TypeOK, Writing
<1>2. \A q \in Requests \ {r} : /\ Writer(q)' <=> Writer(q)
                                /\ Locker(q)' <=> Locker(q)
                                /\ Reassigner(q)' <=> Reassigner(q)
  BY <1>1 DEF Writer, Locker, Reassigner
<1>3. /\ Locker(r)' <=> kind \in LocksRow
      /\ Reassigner(r)' <=> kind = "reassign"
  BY <1>1 DEF Writer, Locker, Reassigner
<1>4. \A q \in Requests : Writer(q)' /\ slot'[q].to # NoKey => slot'[q].kind = "reassign"
  BY <1>1, <1>2 DEF LockInv
<1>5. \A q \in Requests \ {r} : kind \in LocksRow /\ Locker(q) => slot[q].key # k
  BY DEF LockFree, Locker, Writer
<1>6. ASSUME NEW p \in Requests, NEW q \in Requests, Locker(p)', Locker(q)', slot'[p].key = slot'[q].key PROVE p = q
  <2>1. CASE p # r /\ q # r
    BY <1>1, <1>2, <1>6, <2>1 DEF LockInv
  <2>2. CASE p = r \/ q = r
    BY <1>1, <1>2, <1>3, <1>5, <1>6, <2>2
  <2> QED
    BY <2>1, <2>2
<1>7. ASSUME NEW q \in Requests, Reassigner(q)' PROVE rows'[slot'[q].key] = Enabled(Owner)
  BY <1>1, <1>2, <1>3, <1>7 DEF LockInv
<1>8. PICK f \in [Requests -> Nat] : Ranked(f)
  BY DEF NoCycle
<1>9. PICK g : g = [q \in Requests |-> IF q = r THEN 0 ELSE f[q] + 1]
  OBVIOUS
<1>10. g \in [Requests -> Nat] /\ g[r] = 0 /\ \A q \in Requests \ {r} : g[q] = f[q] + 1
  BY <1>8, <1>9
<1>11. ASSUME NEW p \in Requests, NEW q \in Requests, Reassigner(p)', Reassigner(q)', slot'[p].to = slot'[q].key
       PROVE  g[q] < g[p]
  <2>1. rows[slot'[q].key].enabled /\ slot'[q].key \in Keys /\ NoKey \notin Keys
    <3>1. slot'[q].key \in Keys
      BY <1>1, <1>2, <1>11 DEF Inv, WriteInv, Reassigner, Writer
    <3> QED
      BY <1>7, <1>11, <3>1, OrgKeyFacts DEF Enabled
  <2>2. CASE p = r
    <3>1. to = slot'[q].key
      BY <1>1, <1>11, <2>2
    <3> QED
      BY <2>1, <3>1
  <2>3. CASE p # r /\ q = r
    <3>1. g[q] = 0 /\ g[p] = f[p] + 1 /\ f[p] \in Nat
      BY <1>10, <2>3
    <3> QED
      BY <3>1
  <2>4. CASE p # r /\ q # r
    <3>1. f[q] < f[p]
      BY <1>1, <1>2, <1>8, <1>11, <2>4 DEF Ranked
    <3>2. g[q] = f[q] + 1 /\ g[p] = f[p] + 1 /\ f[p] \in Nat /\ f[q] \in Nat
      BY <1>10, <2>4
    <3> QED
      BY <3>1, <3>2
  <2> QED
    BY <2>2, <2>3, <2>4
<1>12. Ranked(g)'
  BY <1>11 DEF Ranked
<1>13. NoCycle'
  BY <1>10, <1>12 DEF NoCycle
<1> QED
  BY <1>4, <1>6, <1>7, <1>13 DEF LockInv

\* Giving up frees what was locked.
LEMMA LocksRefused ==
    ASSUME Inv, LockInv, NoCycle, NEW r \in Requests, Refuse(r), rows' = rows
    PROVE  LockInv' /\ NoCycle'
<1>1. slot'[r] = Idle /\ \A q \in Requests \ {r} : slot'[q] = slot[q]
  BY DEF Refuse, Inv, TypeOK
<1>2. slot'[r].stage # "write"
  BY <1>1 DEF Idle
<1> QED
  BY <1>1, <1>2, LocksFreed

\* A writer commits: no row that another one has locked is touched.
LEMMA LocksCommitted ==
    ASSUME Inv, LockInv, NoCycle, NEW r \in Requests, writeMembership(r) \/ reassignWrite(r)
    PROVE  LockInv' /\ NoCycle'
<1>1. CASE Refuse(r) /\ rows' = rows
  BY <1>1, LocksRefused
<1>2. CASE ~(Refuse(r) /\ rows' = rows)
  <2>1. PICK written : Writes(r, written) /\ Commit(r, written)
    BY <1>2, WriteCases
  <2>2. /\ slot[r].stage = "write" /\ slot[r].key \in Keys /\ (slot[r].to # NoKey => slot[r].to \in Keys)
        /\ rows \in [Keys -> ManagedMembership]
    BY WriteCases, OrgKeyFacts DEF Inv, TypeOK, WriteInv
  <2>3. /\ slot[r].kind \in {"create", "invite"} => LockFree(r, slot[r].key)
        /\ slot[r].kind = "reassign" /\ slot[r].to # NoKey => LockFree(r, slot[r].to)
    BY <1>2 DEF writeMembership, reassignWrite, createOrReactivateOrganisationMembership
  <2>4. ASSUME NEW q \in Requests \ {r}, Locker(q) PROVE rows'[slot[q].key] = rows[slot[q].key]
    <3>1. PICK k : k = slot[q].key
      OBVIOUS
    <3>2. k \in Keys
      BY <2>4, <3>1 DEF Inv, WriteInv, Locker, Writer
    <3>3. k # slot[r].key
      <4>1. CASE slot[r].kind \in {"create", "invite"}
        BY <2>3, <2>4, <3>1, <4>1 DEF LockFree, Locker, Writer
      <4>2. CASE slot[r].kind \notin {"create", "invite"}
        <5>1. Locker(r)
          BY <2>1, <2>2, <4>2 DEF Locker, Writer, Writes, LocksRow
        <5> QED
          BY <2>4, <3>1, <5>1 DEF LockInv
      <4> QED
        BY <4>1, <4>2
    <3>4. slot[r].kind = "reassign" /\ slot[r].to # NoKey => k # slot[r].to
      BY <2>3, <2>4, <3>1 DEF LockFree, Locker, Writer
    <3>5. rows' = written
      BY <2>1 DEF Commit
    <3>6. CASE slot[r].kind = "reassign" /\ slot[r].to # NoKey
      <4>1. rows' = [disableMembership(slot[r].key) EXCEPT ![slot[r].to] = Enabled(Owner)]
        BY <2>1, <3>5, <3>6 DEF Writes
      <4>2. disableMembership(slot[r].key)[k] = rows[k] /\ DOMAIN disableMembership(slot[r].key) = Keys
        BY <2>2, <3>2, <3>3 DEF disableMembership
      <4> QED
        BY <3>1, <3>2, <3>4, <3>6, <4>1, <4>2
    <3>7. CASE ~(slot[r].kind = "reassign" /\ slot[r].to # NoKey)
      BY <2>1, <2>2, <3>1, <3>2, <3>3, <3>5, <3>7
         DEF Writes, disableMembership, updateMembershipEnabled, updateMembershipRole
    <3> QED
      BY <3>6, <3>7
  <2>5. slot'[r].stage # "write"
    BY <2>1 DEF Commit, Idle
  <2>6. ASSUME NEW q \in Requests \ {r}
        PROVE  slot'[q].stage = slot[q].stage /\ slot'[q].kind = slot[q].kind
               /\ slot'[q].key = slot[q].key /\ slot'[q].to = slot[q].to
    <3>1. slot'[q] = IF slot[q].stage = "write" THEN [slot[q] EXCEPT !.stale = TRUE] ELSE slot[q]
      BY <2>1 DEF Commit
    <3>2. slot[q] \in Slot
      BY DEF Inv, TypeOK
    <3> QED
      BY <3>1, <3>2 DEF Slot
  <2> QED
    BY <2>4, <2>5, <2>6, LocksFreed
<1> QED
  BY <1>1, <1>2

\* Requests of the tenant routes and of the platform read under their locks.
LEMMA LocksRead ==
    ASSUME Inv, LockInv, NoCycle, NEW r \in Requests,
           Send(r) \/ PlatformInviteOwner(r) \/ PlatformDisableOwnerMembership(r)
           \/ PlatformReactivateOwnerMembership(r) \/ PlatformReassignOwnership(r)
    PROVE  LockInv' /\ NoCycle'
<1>0. "create" \notin LocksRow /\ "invite" \notin LocksRow
  BY DEF LocksRow
<1>1. ASSUME NEW k \in Keys, NEW role \in Roles, CreateMembership(r, k, role) PROVE LockInv' /\ NoCycle'
  BY <1>0, <1>1, LocksTaken DEF CreateMembership
<1>2. ASSUME NEW k \in Keys, NEW role \in Roles, UpdateMembershipRole(r, k, role) PROVE LockInv' /\ NoCycle'
  <2>0. PICK kind : kind = "update"
    OBVIOUS
  <2>1. /\ slot' = [slot EXCEPT ![r] = Writing(kind, k, NoKey, role, TRUE)]
        /\ rows' = rows /\ LockFree(r, k) /\ kind # "reassign"
    BY <2>0, <1>2 DEF UpdateMembershipRole
  <2> QED
    BY <2>1, LocksTaken
<1>3. ASSUME NEW k \in Keys, DisableMembership(r, k) PROVE LockInv' /\ NoCycle'
  <2>0. PICK kind : kind = "disable"
    OBVIOUS
  <2>1. /\ slot' = [slot EXCEPT ![r] = Writing(kind, k, NoKey, "none", TRUE)]
        /\ rows' = rows /\ LockFree(r, k) /\ kind # "reassign"
    BY <2>0, <1>3 DEF DisableMembership
  <2> QED
    BY <2>1, LocksTaken
<1>4. ASSUME NEW kind \in PlatformKinds, NEW u \in Users, NEW to \in Users, inAuthorizedPlatformTx(r, kind, u, to)
      PROVE  LockInv' /\ NoCycle'
  <2>1. rows' = rows /\ slot'[r].stage = "outer" /\ \A q \in Requests \ {r} : slot'[q] = slot[q]
    BY <1>4 DEF inAuthorizedPlatformTx, Inv, TypeOK, Idle
  <2> QED
    BY <2>1, LocksFreed
<1>5. ASSUME slot[r].stage = "outer" PROVE slot[r].key \in Keys /\ (slot[r].kind = "reassign" => slot[r].to \in Keys)
  BY <1>5, OrgKeyFacts DEF Inv, OuterInv
<1>6. CASE PlatformInviteOwner(r)
  <2>1. CASE Refuse(r)
    BY <1>6, <2>1, LocksRefused DEF PlatformInviteOwner
  <2>2. CASE ~Refuse(r)
    <3>1. slot[r].stage = "outer" /\ slot[r].kind = "invite" /\ rows' = rows
          /\ Decide(r, NoKey, getMembershipByProfile(slot[r].key))
      BY <1>6, <2>2 DEF PlatformInviteOwner, InnerBegin
    <3> QED
      BY <1>0, <1>5, <3>1, LocksTaken DEF Decide
  <2> QED
    BY <2>1, <2>2
<1>7. CASE PlatformDisableOwnerMembership(r)
  <2>1. CASE Refuse(r)
    BY <1>7, <2>1, LocksRefused DEF PlatformDisableOwnerMembership
  <2>2. CASE ~Refuse(r)
    <3>1. slot[r].stage = "outer" /\ slot[r].kind = "suspend" /\ rows' = rows
          /\ LockFree(r, slot[r].key) /\ Decide(r, NoKey, TRUE)
      BY <1>7, <2>2 DEF PlatformDisableOwnerMembership, InnerBegin
    <3> QED
      BY <1>5, <3>1, LocksTaken DEF Decide
  <2> QED
    BY <2>1, <2>2
<1>8. CASE PlatformReactivateOwnerMembership(r)
  <2>1. CASE Refuse(r)
    BY <1>8, <2>1, LocksRefused DEF PlatformReactivateOwnerMembership
  <2>2. CASE ~Refuse(r)
    <3>1. slot[r].stage = "outer" /\ slot[r].kind = "reactivate" /\ rows' = rows
          /\ LockFree(r, slot[r].key) /\ Decide(r, NoKey, TRUE)
      BY <1>8, <2>2 DEF PlatformReactivateOwnerMembership, InnerBegin
    <3> QED
      BY <1>5, <3>1, LocksTaken DEF Decide
  <2> QED
    BY <2>1, <2>2
<1>9. CASE PlatformReassignOwnership(r)
  <2>1. CASE Refuse(r)
    BY <1>9, <2>1, LocksRefused DEF PlatformReassignOwnership
  <2>2. CASE ~Refuse(r)
    <3>1. PICK to : to = IF rows[slot[r].to].enabled THEN NoKey ELSE slot[r].to
      OBVIOUS
    <3>2. /\ slot[r].stage = "outer" /\ slot[r].kind = "reassign" /\ rows' = rows
          /\ LockFree(r, slot[r].key) /\ Decide(r, to, getMembershipByProfile(slot[r].to))
          /\ rows[slot[r].key] = Enabled(Owner) /\ slot[r].to # slot[r].key
      BY <1>9, <2>2, <3>1 DEF PlatformReassignOwnership, InnerBegin
    <3>3. to # NoKey => ~rows[to].enabled /\ to # slot[r].key
      BY <3>1, <3>2
    <3> QED
      BY <1>5, <3>2, <3>3, LocksTaken DEF Decide
  <2> QED
    BY <2>1, <2>2
<1> QED
  BY <1>1, <1>2, <1>3, <1>4, <1>6, <1>7, <1>8, <1>9 DEF Send

\* Every step keeps the locks in order.
LEMMA NextLocks == Inv /\ LockInv /\ NoCycle /\ [Next]_vars => LockInv' /\ NoCycle'
<1> SUFFICES ASSUME Inv, LockInv, NoCycle, [Next]_vars PROVE LockInv' /\ NoCycle'
  OBVIOUS
<1>1. CASE UNCHANGED vars
  BY <1>1 DEF vars, LockInv, NoCycle, Ranked, Writer, Locker, Reassigner
<1>2. ASSUME NEW r \in Requests, recordPlatformAudit(r) \/ rollback(r) PROVE LockInv' /\ NoCycle'
  BY <1>2, LocksRefused DEF recordPlatformAudit, rollback
<1> QED
  BY <1>1, <1>2, LocksRead, LocksCommitted DEF Next, Step

\* Among requests with ranks one has the least.
LEMMA LeastRank ==
    ASSUME NEW S, S # {}, NEW f, \A q \in S : f[q] \in Nat
    PROVE  \E p \in S : \A q \in S : ~(f[q] < f[p])
<1> DEFINE R == OpToRel(<, Nat)
           ranks == {f[q] : q \in S}
<1>1. ranks \subseteq Nat /\ ranks # {}
  OBVIOUS
<1>2. PICK x \in ranks : \A y \in ranks : ~(<<y, x>> \in R)
  <2> HIDE DEF ranks
  <2> QED
    BY <1>1, NatLessThanWellFounded, WFMin
<1>3. \A a, b \in Nat : a < b => <<a, b>> \in R
  BY DEF OpToRel
<1>4. PICK p \in S : x = f[p]
  BY <1>2
<1>5. ASSUME NEW q \in S PROVE ~(f[q] < f[p])
  BY <1>1, <1>2, <1>3, <1>4
<1> QED
  BY <1>5

\* A pool without a free connection and without a writer is full of outer
\* transactions, unless one of them is about to end: each holds one.
LEMMA NoWriterConnection ==
    ASSUME \A q \in Requests : slot[q].stage \in {"idle", "outer"}, ~ConnectionFree
    PROVE  PoolExhausted
<1> DEFINE one == {q \in Requests : Held(q) >= 1}
<1>1. \A q \in Requests : Held(q) = IF slot[q].stage = "outer" THEN 1 ELSE 0
  BY DEF Held
<1>2. {q \in Requests : Held(q) >= 2} = {} /\ {q \in Requests : Held(q) >= 3} = {}
  BY <1>1
<1>3. one = {q \in Requests : slot[q].stage = "outer"}
  BY <1>1
<1>4. one \in SUBSET Requests
  OBVIOUS
<1>5. Cardinality({}) = 0
  BY FS_EmptySet
<1>6. ~(Cardinality(one) + 0 + 0 < PoolSize)
  BY <1>2, <1>5 DEF ConnectionFree
<1> HIDE DEF one
<1>7. IsFiniteSet(one)
  BY <1>4, MembershipsConfiguration, FS_Subset
<1>8. Cardinality(one) \in Nat
  BY <1>7, FS_CardinalityType
<1>9. Cardinality(one) >= PoolSize
  BY <1>6, <1>8, MembershipsConfiguration
<1> QED
  BY <1>3, <1>9 DEF PoolExhausted

\* Some request in progress waits for nothing, or the pool is exhausted.
LEMMA LocksGoOn ==
    ASSUME Inv, LockInv, NoCycle
    PROVE  SomeoneGoesOn
<1> SUFFICES ASSUME NEW r \in Requests, slot[r] # Idle
             PROVE  \/ PoolExhausted
                    \/ \E q \in Requests : slot[q] # Idle /\ ~WaitsForConnection(q) /\ ~WaitsForRow(q)
  BY DEF SomeoneGoesOn
<1>1. \A q \in Requests : Writer(q) => slot[q] # Idle /\ ~WaitsForConnection(q)
  BY DEF Writer, Idle, WaitsForConnection
<1>2. CASE \A q \in Requests : ~Writer(q)
  <2>1. \A q \in Requests : ~WaitsForRow(q)
    BY <1>2 DEF LockFree, WaitsForRow, Writer
  <2>2. CASE ConnectionFree
    BY <2>1, <2>2 DEF WaitsForConnection
  <2>3. CASE \E q \in Requests : slot[q].stage = "audit"
    <3>1. PICK q \in Requests : slot[q].stage = "audit"
      BY <2>3
    <3> QED
      BY <2>1, <3>1 DEF WaitsForConnection, Idle
  <2>4. CASE ~ConnectionFree /\ \A q \in Requests : slot[q].stage # "audit"
    <3>1. \A q \in Requests : slot[q].stage \in {"idle", "outer"}
      BY <1>2, <2>4 DEF Inv, TypeOK, Slot, Writer
    <3> QED
      BY <2>4, <3>1, NoWriterConnection
  <2> QED
    BY <2>2, <2>3, <2>4
<1>3. CASE \E q \in Requests : Locker(q) /\ ~Reassigner(q)
  <2>1. PICK q \in Requests : Locker(q) /\ ~Reassigner(q)
    BY <1>3
  <2>2. slot[q].stage = "write" /\ slot[q].kind \notin {"create", "invite"} /\ slot[q].to = NoKey /\ Writer(q)
    BY <2>1 DEF LockInv, Locker, Reassigner, Writer, LocksRow
  <2>3. ~WaitsForRow(q)
    BY <2>2 DEF WaitsForRow
  <2> QED
    BY <1>1, <2>2, <2>3
<1>4. CASE (\A q \in Requests : Locker(q) => Reassigner(q)) /\ \E q \in Requests : Reassigner(q)
  <2>1. PICK f \in [Requests -> Nat] : Ranked(f)
    BY DEF NoCycle
  <2>2. PICK S : S = {q \in Requests : Reassigner(q)}
    OBVIOUS
  <2>3. S # {} /\ \A q \in S : f[q] \in Nat
    BY <1>4, <2>1, <2>2
  <2>4. PICK p \in S : \A q \in S : ~(f[q] < f[p])
    BY <2>3, LeastRank
  <2>5. p \in Requests /\ Reassigner(p) /\ Writer(p)
    BY <2>2, <2>4 DEF Reassigner
  <2>6. LockFree(p, slot[p].to)
    <3> SUFFICES ASSUME NEW q \in Requests, Locker(q), slot[q].key = slot[p].to PROVE FALSE
      BY DEF LockFree, Locker, Writer
    <3>1. Reassigner(q)
      BY <1>4
    <3>2. f[q] < f[p]
      BY <2>1, <2>5, <3>1 DEF Ranked
    <3> QED
      BY <2>2, <2>4, <3>1, <3>2
  <2>7. ~WaitsForRow(p)
    BY <2>5, <2>6 DEF WaitsForRow, Reassigner, Writer
  <2> QED
    BY <1>1, <2>5, <2>7
<1>5. CASE (\A q \in Requests : ~Locker(q)) /\ \E q \in Requests : Writer(q)
  <2>1. PICK q \in Requests : Writer(q)
    BY <1>5
  <2>2. \A k : LockFree(q, k)
    BY <1>5 DEF LockFree, Locker, Writer
  <2>3. ~WaitsForRow(q)
    BY <2>1, <2>2 DEF WaitsForRow, Writer
  <2> QED
    BY <1>1, <2>1, <2>3
<1> QED
  BY <1>2, <1>3, <1>4, <1>5 DEF Reassigner, Locker

-----------------------------------------------------------------------------
(* Theorems                                                                *)

\* Every row and every request keeps its shape, and what a request that is
\* not stale has read about its row and about other owners still holds
\* (memberships.go, requireAnotherOrganisationOwner).
THEOREM Invariance == Spec => []Inv
  BY InitInv, NextInv, PTL DEF Spec

\* Every row is one of its table, every request in a stage of the protocol.
THEOREM TypeCorrect == Spec => []TypeOK
  <1>1. Inv => TypeOK BY DEF Inv
  <1> QED BY <1>1, Invariance, PTL

\* The two ways in which an organisation loses its last owner: a request
\* commits what it decided before another one committed (the owners are counted
\* without a lock), or ownership is reassigned to somebody who is a member
\* already and not an owner.
OwnerLossExplained ==
    [][Owners # {} /\ Owners' = {} =>
         \E r \in Requests :
            /\ slot[r].stage = "write" /\ slot'[r].stage # "write"
            /\ \/ slot[r].stale
               \/ slot[r].kind = "reassign" /\ slot[r].to = NoKey]_vars

\* However many people and requests there are, there is no third way: each
\* request that decides on a count nobody has changed since keeps an owner
\* (DisableMembership, UpdateMembershipRole, the platform's requests).
THEOREM LastOwner == Spec => OwnerLossExplained
  <1> DEFINE Explained ==
        Owners # {} /\ Owners' = {} =>
          \E r \in Requests :
             /\ slot[r].stage = "write" /\ slot'[r].stage # "write"
             /\ \/ slot[r].stale
                \/ slot[r].kind = "reassign" /\ slot[r].to = NoKey
  <1>1. Inv /\ [Next]_vars => [Explained]_vars
    <2> SUFFICES ASSUME Inv, Next, Owners # {}, Owners' = {} PROVE Explained
      BY DEF vars
    <2>1. rows' # rows BY DEF Owners
    <2>2. PICK r \in Requests : /\ slot[r].stage = "write" /\ slot'[r].stage # "write"
                                /\ \E written : Writes(r, written) /\ rows' = written
      BY <2>1, RowsChangeAtCommit
    <2>3. slot[r].stale \in BOOLEAN BY DEF Inv, TypeOK, Slot
    <2>4. slot[r].stale \/ (slot[r].kind = "reassign" /\ slot[r].to = NoKey)
      BY <2>2, <2>3, WritesKeepOwner
    <2> QED BY <2>2, <2>4
  <1> QED BY <1>1, Invariance, PTL DEF Spec, OwnerLossExplained

\* However many requests and connections there are, row locks never stop every
\* request: a reassignment waits for the next owner's row only while a request
\* that has read later holds it (the FOR UPDATE of PlatformReassignOwnership).
\* They all stand still only when outer transactions of platform requests have
\* taken the whole pool (inAuthorizedPlatformTx, pool.go).
THEOREM NoDeadlock == Spec => []SomeoneGoesOn
<1>1. Init => LockInv /\ NoCycle
  <2> SUFFICES ASSUME Init PROVE LockInv /\ NoCycle
    OBVIOUS
  <2>1. \A q \in Requests : ~Writer(q)
    BY DEF Init, Idle, Writer
  <2>2. LockInv
    BY <2>1 DEF LockInv, Locker, Reassigner
  <2>3. PICK f \in [Requests -> Nat] : f = [q \in Requests |-> 0]
    OBVIOUS
  <2>4. Ranked(f)
    BY <2>1 DEF Ranked, Reassigner
  <2> QED
    BY <2>2, <2>4 DEF NoCycle
<1>2. Inv /\ LockInv /\ NoCycle => SomeoneGoesOn
  BY LocksGoOn
<1> QED
  BY <1>1, <1>2, NextLocks, Invariance, PTL DEF Spec

\* With more connections than requests at a time the pool is never exhausted,
\* and some request in progress can always go on (pool.go, MaxConns).
THEOREM PoolSuffices ==
    ASSUME Cardinality(Requests) < PoolSize
    PROVE  Spec => []((\E r \in Requests : slot[r] # Idle) =>
                        \E r \in Requests : slot[r] # Idle /\ ~WaitsForConnection(r) /\ ~WaitsForRow(r))
<1>1. SomeoneGoesOn =>
        ((\E r \in Requests : slot[r] # Idle) =>
           \E r \in Requests : slot[r] # Idle /\ ~WaitsForConnection(r) /\ ~WaitsForRow(r))
  <2> DEFINE outer == {q \in Requests : slot[q].stage = "outer"}
  <2>1. IsFiniteSet(outer) /\ Cardinality(outer) <= Cardinality(Requests)
    BY MembershipsConfiguration, FS_Subset
  <2>2. Cardinality(outer) \in Nat /\ Cardinality(Requests) \in Nat
    BY <2>1, MembershipsConfiguration, FS_CardinalityType
  <2>3. ~PoolExhausted
    BY <2>1, <2>2, MembershipsConfiguration DEF PoolExhausted
  <2> QED
    BY <2>3 DEF SomeoneGoesOn
<1> QED
  BY <1>1, NoDeadlock, PTL
=============================================================================
