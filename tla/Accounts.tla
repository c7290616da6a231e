------------------------------- MODULE Accounts -------------------------------
(***************************************************************************)
(* Web logins, web sessions and the administrators of the platform.  A     *)
(* login resolves the person's identity and consumes an invitation in one  *)
(* transaction and makes the session in another.  A rotation validates,    *)
(* creates and revokes in three.  An administrator's status is read, then  *)
(* written, then checked by a deferred trigger while the transaction is    *)
(* committing; two transactions may both be past that check.               *)
(***************************************************************************)
EXTENDS Naturals, FiniteSets

CONSTANTS
    People,         \* persons, each with one verified address
    Founder,        \* the first platform administrator
    Nobody,
    Requests,       \* API requests in progress at the same time
    MaxRows,        \* bound: rows of platform_memberships
    MaxSessions     \* bound: rows of web_sessions

ASSUME AccountsBounds ==
    /\ Founder \in People /\ Nobody \notin People
    /\ IsFiniteSet(Requests)
    /\ MaxRows \in Nat \ {0} /\ MaxSessions \in Nat \ {0}

VARIABLES
    linked,     \* persons whose external identity has a user profile
    staff,      \* platform_memberships
    pending,    \* role of the pending platform_admin_grants row of an address
    sessions,   \* web_sessions
    slot        \* what each request is doing

vars == <<linked, staff, pending, sessions, slot>>

-----------------------------------------------------------------------------
(* Rows                                                                    *)

Admin == "platform_admin"
Roles == {Admin, "support"}
RowIds == 1..MaxRows
SessionIds == 1..MaxSessions

NoRow == [user |-> Nobody, role |-> "none", active |-> FALSE]
Row(p, role) == [user |-> p, role |-> role, active |-> TRUE]

NoSession == [user |-> Nobody, ended |-> FALSE]
End(s) == [sessions EXCEPT ![s].ended = TRUE]
Live(s) == sessions[s].user # Nobody /\ ~sessions[s].ended

\* stale: another transaction has committed since the trigger looked (history).
Idle == [stage |-> "idle", kind |-> "none", actor |-> Nobody, verified |-> FALSE, first |-> FALSE,
         row |-> 0, role |-> "none", sess |-> 0, stale |-> FALSE]

\* The first administrator is put in by hand.
Init ==
    /\ linked = {Founder}
    /\ staff = [i \in RowIds |-> IF i = 1 THEN Row(Founder, Admin) ELSE NoRow]
    /\ pending = [p \in People |-> "none"]
    /\ sessions = [s \in SessionIds |-> NoSession]
    /\ slot = [r \in Requests |-> Idle]

Step(r, change) == slot' = [slot EXCEPT ![r] = change]
Refuse(r) == Step(r, Idle) /\ UNCHANGED <<linked, staff, pending, sessions>>
Keeps == UNCHANGED <<linked, staff, pending, sessions>>

ActiveRow(table, p) == {i \in RowIds : table[i].user = p /\ table[i].active}
AdminsOf(table) == {i \in RowIds : table[i].role = Admin /\ table[i].active}
CountActivePlatformAdmins == Cardinality(AdminsOf(staff))
ActorHasPlatformPermission(p) == \E i \in ActiveRow(staff, p) : staff[i].role = Admin

\* Lowest free key of a table.
FreeKey(keys, free(_)) == CHOOSE i \in keys : free(i) /\ \A j \in keys : free(j) => i <= j
FreeRow == FreeKey(RowIds, LAMBDA i : staff[i] = NoRow)
\* Bound: a row is left beside those about to be inserted.
RowLeft(r) ==
    Cardinality({i \in RowIds : staff[i] = NoRow})
        > Cardinality({q \in Requests \ {r} : slot[q].role # "none" /\ slot[q].row = 0})
FreeSession == FreeKey(SessionIds, LAMBDA s : sessions[s] = NoSession)

-----------------------------------------------------------------------------
(* Locks: an uncommitted write keeps others from the rows of that person   *)
(* (the row itself, or the unique index on active rows) and from the       *)
(* invitation it consumes.                                                 *)

Uncommitted(q) == slot[q].stage \in {"written", "checked"}
Writes(q) == Uncommitted(q) /\ (slot[q].row # 0 \/ slot[q].role # "none")
Target(q) == IF slot[q].kind = "login" THEN slot[q].actor ELSE staff[slot[q].row].user
RowsFree(r, p) ==
    \A q \in Requests \ {r} : ~(Writes(q) /\ Target(q) = p)
\* Mutant: the invitation is looked up without a lock.
MutantNoGrantLock(r, p) == TRUE
GrantFree(r, p) ==
    \A q \in Requests \ {r} : ~(Writes(q) /\ slot[q].kind = "login" /\ slot[q].actor = p)

-----------------------------------------------------------------------------
(* Login                                                                   *)

ResolveExternalIdentity(r, p, verified) ==
    /\ slot[r] = Idle
    /\ Step(r, [Idle EXCEPT !.stage = "read", !.kind = "login", !.actor = p,
                            !.verified = verified, !.first = (p \notin linked)])
    /\ Keeps

\* A first login makes the profile and links the identity; the unique keys
\* let one of two simultaneous first logins through.
LinkExternalIdentity(r) ==
    \/ ~slot[r].first
    \/ /\ slot[r].actor \notin linked
       /\ \A q \in Requests \ {r} : ~(Uncommitted(q) /\ slot[q].first /\ slot[q].actor = slot[r].actor)

\* A verified address consumes the invitation pending for it.
ConsumePlatformAdminGrant(r) == slot[r].verified /\ pending[slot[r].actor] # "none"

consumePendingPlatformGrant(r) ==
    LET p == slot[r].actor
        row == IF ActiveRow(staff, p) # {} THEN CHOOSE i \in ActiveRow(staff, p) : TRUE ELSE 0
    IN  /\ slot[r].stage = "read" /\ slot[r].kind = "login"
        /\ \/ slot[r].first /\ p \in linked /\ Refuse(r)
           \/ /\ LinkExternalIdentity(r)
              /\ slot[r].verified => GrantFree(r, p)
              /\ IF ConsumePlatformAdminGrant(r)
                   THEN /\ RowsFree(r, p) /\ (row = 0 => RowLeft(r))
                        /\ Step(r, [slot[r] EXCEPT !.stage = "written", !.verified = FALSE,
                                                   !.role = pending[p], !.row = row])
                   ELSE Step(r, [slot[r] EXCEPT !.stage = "written", !.verified = FALSE])
              /\ Keeps

-----------------------------------------------------------------------------
(* Platform requests                                                       *)

GetWebSessionByPrefix(s) == Live(s)

\* The session is validated in a transaction of its own.
platformRequestContext(r, s) ==
    /\ slot[r] = Idle /\ GetWebSessionByPrefix(s)
    /\ Step(r, [Idle EXCEPT !.stage = "validated", !.kind = "platform", !.actor = sessions[s].user])
    /\ Keeps

inAuthorizedPlatformTx(r) ==
    /\ slot[r].stage = "validated" /\ slot[r].kind = "platform"
    /\ ActorHasPlatformPermission(slot[r].actor)

forbidden(r) ==
    /\ slot[r].stage = "validated" /\ slot[r].kind = "platform"
    /\ ~ActorHasPlatformPermission(slot[r].actor)
    /\ Refuse(r)

\* A second invitation of an address replaces the role of the pending one.
invitePlatformAdmin(r, p, role) ==
    /\ inAuthorizedPlatformTx(r) /\ GrantFree(r, p)
    /\ pending' = [pending EXCEPT ![p] = role]
    /\ Step(r, Idle)
    /\ UNCHANGED <<linked, staff, sessions>>

revokePlatformAdminInvitation(r, p) ==
    /\ inAuthorizedPlatformTx(r) /\ GrantFree(r, p)
    /\ pending[p] # "none"
    /\ pending' = [pending EXCEPT ![p] = "none"]
    /\ Step(r, Idle)
    /\ UNCHANGED <<linked, staff, sessions>>

\* The status is read, and for an administrator who is to go the number of
\* administrators, without a lock.
changePlatformAdminStatus(r, i, active) ==
    /\ inAuthorizedPlatformTx(r) /\ staff[i] # NoRow
    /\ ~active /\ staff[i].role = Admin => CountActivePlatformAdmins > 1
    /\ Step(r, [Idle EXCEPT !.stage = "read", !.row = i,
                            !.kind = IF active THEN "reactivate" ELSE "disable"])
    /\ Keeps

DisablePlatformMembership(r) ==
    /\ slot[r].stage = "read" /\ slot[r].kind = "disable" /\ RowsFree(r, Target(r))
    /\ IF staff[slot[r].row].active
         THEN Step(r, [slot[r] EXCEPT !.stage = "written"]) /\ Keeps
         ELSE Refuse(r)

\* A person has one active row at most.
ReactivatePlatformMembership(r) ==
    /\ slot[r].stage = "read" /\ slot[r].kind = "reactivate" /\ RowsFree(r, Target(r))
    /\ IF ActiveRow(staff, Target(r)) \subseteq {slot[r].row}
         THEN Step(r, [slot[r] EXCEPT !.stage = "written"]) /\ Keeps
         ELSE Refuse(r)

-----------------------------------------------------------------------------
(* Commit                                                                  *)

\* The table as the transaction sees it: what is committed and what it wrote.
Written(r) ==
    LET s == slot[r]
    IN  CASE s.kind = "disable" -> [staff EXCEPT ![s.row].active = FALSE]
          [] s.kind = "reactivate" -> [staff EXCEPT ![s.row].active = TRUE]
          [] s.kind = "login" /\ s.role # "none" /\ s.row # 0 -> [staff EXCEPT ![s.row].role = s.role]
          [] s.kind = "login" /\ s.role # "none" /\ s.row = 0 -> [staff EXCEPT ![FreeRow] = Row(s.actor, s.role)]
          [] OTHER -> staff

\* The deferred trigger looks after an UPDATE, not after an INSERT.
platform_admin_lockout_guard(r) == slot[r].row # 0 => AdminsOf(Written(r)) # {}

CheckConstraints(r) ==
    /\ slot[r].stage = "written"
    /\ IF platform_admin_lockout_guard(r)
         THEN Step(r, [slot[r] EXCEPT !.stage = "checked"]) /\ Keeps
         ELSE Refuse(r)

Commit(r) ==
    LET s == slot[r]
        login == s.kind = "login"
    IN  /\ s.stage = "checked"
        /\ staff' = Written(r)
        /\ linked' = IF login THEN linked \cup {s.actor} ELSE linked
        /\ pending' = IF login /\ s.role # "none" THEN [pending EXCEPT ![s.actor] = "none"] ELSE pending
        /\ slot' = [q \in Requests |->
                      IF q = r THEN IF login THEN [Idle EXCEPT !.stage = "session", !.kind = "login",
                                                               !.actor = s.actor]
                                             ELSE Idle
                      ELSE IF slot[q].stage = "checked" THEN [slot[q] EXCEPT !.stale = TRUE] ELSE slot[q]]
        /\ UNCHANGED <<sessions>>

-----------------------------------------------------------------------------
(* Web sessions                                                            *)

ValidateWebSession(r, s) ==
    /\ slot[r] = Idle /\ GetWebSessionByPrefix(s)
    /\ Step(r, [Idle EXCEPT !.stage = "session", !.kind = "rotate", !.actor = sessions[s].user, !.sess = s])
    /\ Keeps

\* The last step of a login, the second of a rotation.
CreateWebSession(r) ==
    /\ slot[r].stage = "session" /\ \E s \in SessionIds : sessions[s] = NoSession
    /\ sessions' = [sessions EXCEPT ![FreeSession] = [user |-> slot[r].actor, ended |-> FALSE]]
    /\ Step(r, IF slot[r].kind = "login" THEN Idle ELSE [slot[r] EXCEPT !.stage = "revoking"])
    /\ UNCHANGED <<linked, staff, pending>>

\* The third: the old session may be over by now, which is no error.
RotateWebSession(r) ==
    /\ slot[r].stage = "revoking"
    /\ sessions' = IF Live(slot[r].sess) THEN End(slot[r].sess) ELSE sessions
    /\ Step(r, Idle)
    /\ UNCHANGED <<linked, staff, pending>>

\* RevokeWebSession finds the session by its secret, and does nothing when it
\* is over; what it was rotated into has a secret of its own.
logoutWebSession(s) ==
    /\ Live(s)
    /\ sessions' = End(s)
    /\ UNCHANGED <<linked, staff, pending, slot>>

expire(s) ==
    /\ Live(s)
    /\ sessions' = End(s)
    /\ UNCHANGED <<linked, staff, pending, slot>>

\* A statement fails, the client goes away or the process dies.
rollback(r) == slot[r] # Idle /\ Refuse(r)

-----------------------------------------------------------------------------
Next ==
    \/ \E r \in Requests :
        \/ \E p \in People, verified \in BOOLEAN : ResolveExternalIdentity(r, p, verified)
        \/ consumePendingPlatformGrant(r)
        \/ \E s \in SessionIds : platformRequestContext(r, s) \/ ValidateWebSession(r, s)
        \/ forbidden(r)
        \/ \E p \in People, role \in Roles : invitePlatformAdmin(r, p, role)
        \/ \E p \in People : revokePlatformAdminInvitation(r, p)
        \/ \E i \in RowIds, active \in BOOLEAN : changePlatformAdminStatus(r, i, active)
        \/ DisablePlatformMembership(r) \/ ReactivatePlatformMembership(r)
        \/ CheckConstraints(r) \/ Commit(r)
        \/ CreateWebSession(r) \/ RotateWebSession(r) \/ rollback(r)
    \/ \E s \in SessionIds : logoutWebSession(s) \/ expire(s)

Spec == Init /\ [][Next]_vars

-----------------------------------------------------------------------------
(* Properties                                                              *)

\* Nobody gets a platform role by an invitation that was revoked or replaced
\* while the login was under way: what a login consumes is still pending,
\* with that role, until the login commits.
InvitationHeld ==
    \A r \in Requests : Writes(r) /\ slot[r].kind = "login" =>
        pending[slot[r].actor] = slot[r].role
=============================================================================
