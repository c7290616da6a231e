--------------------------- MODULE Accounts_proofs ---------------------------
(***************************************************************************)
(* Proofs about logins, administrators and web sessions, for any number of *)
(* people and of requests.  What the deferred trigger has seen is so until *)
(* another transaction commits, which marks it stale; an invitation that a *)
(* login is about to consume is locked.                                    *)
(***************************************************************************)
EXTENDS Accounts, FiniteSetTheorems, WellFoundedInduction, TLAPS

-----------------------------------------------------------------------------
(* The invariant                                                           *)

RowType == [user : People \cup {Nobody}, role : Roles \cup {"none"}, active : BOOLEAN]
SessionType == [user : People \cup {Nobody}, ended : BOOLEAN]
SlotType == [stage : {"idle", "read", "written", "checked", "validated", "session", "revoking"},
             kind : {"none", "login", "platform", "disable", "reactivate", "rotate"},
             actor : People \cup {Nobody}, verified : BOOLEAN, first : BOOLEAN,
             row : 0..MaxRows, role : Roles \cup {"none"},
             sess : 0..MaxSessions, stale : BOOLEAN]

\* The types of the variables.
TypeInv ==
    /\ linked \subseteq People
    /\ staff \in [RowIds -> RowType]
    /\ pending \in [People -> Roles \cup {"none"}]
    /\ sessions \in [SessionIds -> SessionType]
    /\ slot \in [Requests -> SlotType]

\* The fields a request has set, by stage and kind.
ShapeInv(r) ==
    /\ slot[r].stage \in {"idle", "validated", "session", "revoking"} => slot[r].role = "none"
    /\ slot[r].stage \in {"read", "written", "checked"} => slot[r].kind \in {"login", "disable", "reactivate"}
    /\ slot[r].stage \in {"session", "revoking"} =>
         slot[r].actor \in People /\ slot[r].kind \in {"login", "rotate"}
    /\ slot[r].kind = "login" =>
         /\ slot[r].actor \in People /\ slot[r].sess = 0
         /\ slot[r].stage = "read" => slot[r].role = "none" /\ slot[r].row = 0
         /\ slot[r].row # 0 => slot[r].role # "none"
    /\ slot[r].kind \in {"disable", "reactivate"} => slot[r].role = "none" /\ slot[r].row # 0
    /\ slot[r].row # 0 => slot[r].row \in RowIds /\ staff[slot[r].row].user \in People

\* A row in use is somebody's.
StaffInv == \A i \in RowIds : staff[i] # NoRow => staff[i].user \in People

\* What the trigger has seen still holds, unless somebody has committed since.
CheckedInv(r) ==
    slot[r].stage = "checked" /\ ~slot[r].stale /\ slot[r].row # 0 => AdminsOf(Written(r)) # {}

\* A login that consumes an invitation.
Consumes(r) == Writes(r) /\ slot[r].kind = "login"

\* An invitation is consumed by one login at a time, and is still there.
GrantInv(r) ==
    Consumes(r) => /\ pending[slot[r].actor] = slot[r].role
                   /\ \A q \in Requests : Consumes(q) /\ slot[q].actor = slot[r].actor => q = r

\* Every login that is to insert a row finds one.
FreeRows == {i \in RowIds : staff[i] = NoRow}
Inserters == {q \in Requests : slot[q].role # "none" /\ slot[q].row = 0}
RowsInv == Cardinality(Inserters) <= Cardinality(FreeRows)

Inv ==
    /\ TypeInv /\ StaffInv /\ RowsInv
    /\ \A r \in Requests : ShapeInv(r) /\ CheckedInv(r) /\ GrantInv(r)

-----------------------------------------------------------------------------
(* Rows, keys and slots                                                    *)

\* The rows and slots the actions start from.
LEMMA EmptyTypes ==
    /\ Idle \in SlotType /\ Idle.stage = "idle" /\ Idle.kind = "none" /\ Idle.role = "none" /\ Idle.row = 0
    /\ NoRow \in RowType /\ NoSession \in SessionType
    /\ NoSession.user = Nobody
    /\ \A p \in People : \A role \in Roles : Row(p, role) \in RowType
BY AccountsBounds DEF Idle, SlotType, NoRow, RowType, NoSession, SessionType, Row

\* A nonempty set of naturals has a least element.
LEMMA LeastKey ==
    ASSUME NEW keys, keys \subseteq Nat, keys # {}
    PROVE  \E i \in keys : \A j \in keys : i <= j
<1> DEFINE R == OpToRel(<, Nat)
<1>1. PICK x \in keys : \A y \in keys : ~(<<y, x>> \in R)
  BY NatLessThanWellFounded, WFMin
<1>2. \A a, b \in Nat : a < b => <<a, b>> \in R
  BY DEF OpToRel
<1>3. ASSUME NEW y \in keys PROVE x <= y
  <2>1. x \in Nat /\ y \in Nat
    OBVIOUS
  <2>2. ~(y < x)
    BY <1>1, <1>2, <2>1
  <2> QED
    BY <2>1, <2>2
<1> QED
  BY <1>3

\* A row is found wherever one is free.
LEMMA FreeRowType ==
    ASSUME FreeRows # {}
    PROVE  FreeRow \in RowIds /\ staff[FreeRow] = NoRow
<1>1. FreeRows \subseteq Nat
  BY DEF FreeRows, RowIds
<1>2. PICK i \in FreeRows : \A j \in FreeRows : i <= j
  BY <1>1, LeastKey
<1>3. \E k \in RowIds : staff[k] = NoRow /\ \A j \in RowIds : staff[j] = NoRow => k <= j
  BY <1>2 DEF FreeRows
<1> QED
  BY <1>3 DEF FreeRow, FreeKey

\* A session is found wherever one is free.
LEMMA FreeSessionType ==
    ASSUME \E s \in SessionIds : sessions[s] = NoSession
    PROVE  FreeSession \in SessionIds /\ sessions[FreeSession] = NoSession
<1> DEFINE free == {s \in SessionIds : sessions[s] = NoSession}
<1>1. free \subseteq Nat /\ free # {}
  BY DEF SessionIds
<1>2. \E i \in free : \A j \in free : i <= j
  <2> HIDE DEF free
  <2> QED
    BY <1>1, LeastKey
<1>3. \E k \in SessionIds : sessions[k] = NoSession /\ \A j \in SessionIds : sessions[j] = NoSession => k <= j
  BY <1>2
<1> QED
  BY <1>3 DEF FreeSession, FreeKey

\* The rows that are free and the requests about to insert can be counted.
LEMMA Finite ==
    /\ IsFiniteSet(FreeRows) /\ Cardinality(FreeRows) \in Nat
    /\ IsFiniteSet(Inserters) /\ Cardinality(Inserters) \in Nat
<1>1. IsFiniteSet(RowIds)
  BY AccountsBounds, FS_Interval DEF RowIds
<1>2. FreeRows \in SUBSET RowIds /\ Inserters \in SUBSET Requests
  BY DEF FreeRows, Inserters
<1>3. IsFiniteSet(FreeRows) /\ IsFiniteSet(Inserters)
  BY <1>1, <1>2, AccountsBounds, FS_Subset
<1> QED
  BY <1>3, FS_CardinalityType

\* One administrator, and nobody logged in.
LEMMA InitInv == Init => Inv
<1> SUFFICES ASSUME Init PROVE Inv
  OBVIOUS
<1>1. TypeInv
  <2>1. Row(Founder, Admin) \in RowType
    BY EmptyTypes, AccountsBounds DEF Roles
  <2> QED
    BY <2>1, EmptyTypes, AccountsBounds DEF Init, TypeInv
<1>2. \A r \in Requests : slot[r] = Idle
  BY DEF Init
<1>2a. StaffInv
  BY AccountsBounds DEF Init, StaffInv, Row
<1>3. RowsInv
  <2>1. Inserters = {}
    BY <1>2, EmptyTypes DEF Inserters
  <2>2. Cardinality(Inserters) = 0
    BY <2>1, FS_EmptySet
  <2> QED
    BY <2>2, Finite DEF RowsInv
<1>4. \A r \in Requests : ShapeInv(r) /\ CheckedInv(r) /\ GrantInv(r)
  BY <1>2, EmptyTypes DEF ShapeInv, CheckedInv, GrantInv, Consumes, Writes, Uncommitted
<1> QED
  BY <1>1, <1>2a, <1>3, <1>4 DEF Inv

\* Fewer requests are about to insert, the rows are the same.
LEMMA FewerInserters ==
    ASSUME Inv, staff' = staff, Inserters' \subseteq Inserters
    PROVE  RowsInv'
<1>1. FreeRows' = FreeRows
  BY DEF FreeRows
<1>2. PICK a, b : a = Inserters' /\ b = Inserters
  OBVIOUS
<1>3. IsFiniteSet(b) /\ a \in SUBSET b
  BY <1>2, Finite
<1>4. Cardinality(a) <= Cardinality(b)
  BY <1>3, FS_Subset
<1>5. IsFiniteSet(a)
  BY <1>3, FS_Subset
<1>6. Cardinality(a) \in Nat /\ Cardinality(b) \in Nat
  BY <1>3, <1>5, FS_CardinalityType
<1>7. Cardinality(b) <= Cardinality(FreeRows) /\ Cardinality(FreeRows) \in Nat
  BY <1>2, Finite DEF Inv, RowsInv
<1>8. Cardinality(a) <= Cardinality(FreeRows)
  BY <1>4, <1>6, <1>7
<1> QED
  BY <1>1, <1>2, <1>8 DEF RowsInv

\* A step that changes nothing but where one request is.
LEMMA OneSlot ==
    ASSUME Inv, NEW r \in Requests, NEW s \in SlotType, slot' = [slot EXCEPT ![r] = s], Keeps,
           RowsInv', ShapeInv(r)', CheckedInv(r)',
           Consumes(r)' => /\ pending[s.actor] = s.role
                           /\ \A q \in Requests \ {r} : Consumes(q) => slot[q].actor # s.actor
    PROVE  Inv'
<1>1. UNCHANGED <<linked, staff, pending, sessions>>
  BY DEF Keeps
<1>2. slot'[r] = s /\ \A q \in Requests \ {r} : slot'[q] = slot[q]
  BY DEF Inv, TypeInv
<1>3. TypeInv' /\ StaffInv'
  BY <1>1 DEF Inv, TypeInv, StaffInv
<1>4. ASSUME NEW q \in Requests \ {r} PROVE ShapeInv(q)' /\ CheckedInv(q)'
  <2>1. slot'[q] = slot[q]
    BY <1>2
  <2>2. Written(q)' = Written(q)
    BY <1>1, <2>1 DEF Written, FreeRow, FreeKey
  <2>3. AdminsOf(Written(q))' = AdminsOf(Written(q))
    BY <2>2 DEF AdminsOf
  <2>4. ShapeInv(q)'
    BY <1>1, <2>1 DEF Inv, ShapeInv
  <2>5. CheckedInv(q)'
    BY <2>1, <2>3 DEF Inv, CheckedInv
  <2> QED
    BY <2>4, <2>5
<1>5. \A q \in Requests \ {r} : Consumes(q)' <=> Consumes(q)
  BY <1>2 DEF Consumes, Writes, Uncommitted
<1>6. ASSUME NEW q \in Requests PROVE GrantInv(q)'
  <2>1. CASE q = r
    BY <1>1, <1>2, <1>5, <2>1 DEF GrantInv
  <2>2. CASE q # r
    <3>1. slot'[q] = slot[q] /\ (Consumes(q)' <=> Consumes(q))
      BY <1>2, <1>5, <2>2
    <3>2. GrantInv(q)
      BY DEF Inv
    <3>3. Consumes(q) => pending'[slot'[q].actor] = slot'[q].role
      BY <1>1, <3>1, <3>2 DEF GrantInv
    <3>4. ASSUME NEW p \in Requests, Consumes(q), Consumes(p)', slot'[p].actor = slot'[q].actor PROVE p = q
      <4>1. CASE p = r
        BY <1>2, <2>2, <3>1, <3>4, <4>1
      <4>2. CASE p # r
        <5>1. slot'[p] = slot[p] /\ Consumes(p)
          BY <1>2, <1>5, <3>4, <4>2
        <5> QED
          BY <3>1, <3>2, <3>4, <5>1 DEF GrantInv
      <4> QED
        BY <4>1, <4>2
    <3> QED
      BY <3>1, <3>3, <3>4 DEF GrantInv
  <2> QED
    BY <2>1, <2>2
<1> QED
  BY <1>3, <1>4, <1>6 DEF Inv

\* A request is given up.
LEMMA RefuseInv ==
    ASSUME Inv, NEW r \in Requests, Refuse(r)
    PROVE  Inv'
<1>1. slot' = [slot EXCEPT ![r] = Idle] /\ Keeps
  BY DEF Refuse, Step, Keeps
<1>2. slot'[r] = Idle /\ \A q \in Requests \ {r} : slot'[q] = slot[q]
  BY <1>1 DEF Inv, TypeInv
<1>3. RowsInv'
  <2>1. Inserters' \subseteq Inserters
    BY <1>2, EmptyTypes DEF Inserters
  <2> QED
    BY <1>1, <2>1, FewerInserters DEF Keeps
<1>4. ShapeInv(r)' /\ CheckedInv(r)' /\ ~Consumes(r)'
  BY <1>2, EmptyTypes DEF ShapeInv, CheckedInv, Consumes, Writes, Uncommitted
<1> QED
  BY <1>1, <1>3, <1>4, EmptyTypes, OneSlot

-----------------------------------------------------------------------------
(* Requests that read and decide                                           *)

\* A request that has nothing to write yet, or no role to give.
LEMMA QuietStep ==
    ASSUME Inv, NEW r \in Requests, NEW s \in SlotType, Step(r, s), Keeps,
           s.role = "none", s.row = 0 \/ s.kind # "login", s.stage \notin {"checked", "revoking"},
           s.stage \in {"read", "written"} => s.kind \in {"login", "disable", "reactivate"},
           s.stage = "session" => s.actor \in People /\ s.kind \in {"login", "rotate"},
           s.kind = "login" => s.actor \in People /\ s.sess = 0,
           s.kind \in {"disable", "reactivate"} => s.row # 0,
           s.row # 0 => s.row \in RowIds /\ staff[s.row].user \in People
    PROVE  Inv'
<1>1. slot' = [slot EXCEPT ![r] = s]
  BY DEF Step
<1>2. slot'[r] = s /\ \A q \in Requests \ {r} : slot'[q] = slot[q]
  BY <1>1 DEF Inv, TypeInv
<1>3. RowsInv'
  <2>1. Inserters' \subseteq Inserters
    BY <1>2 DEF Inserters
  <2> QED
    BY <2>1, FewerInserters DEF Keeps
<1>4. ShapeInv(r)' /\ CheckedInv(r)'
  BY <1>2 DEF ShapeInv, CheckedInv, Keeps
<1>5. ~Consumes(r)'
  BY <1>2 DEF Consumes, Writes
<1> QED
  BY <1>1, <1>3, <1>4, <1>5, OneSlot

\* A login begins.
LEMMA ResolveInv ==
    ASSUME Inv, NEW r \in Requests, NEW p \in People, NEW verified \in BOOLEAN,
           ResolveExternalIdentity(r, p, verified)
    PROVE  Inv'
<1>1. PICK first \in BOOLEAN : first = (p \notin linked)
  OBVIOUS
<1>2. PICK s : s = [Idle EXCEPT !.stage = "read", !.kind = "login", !.actor = p,
                                !.verified = verified, !.first = first]
  OBVIOUS
<1>3. Step(r, s) /\ Keeps
  BY <1>1, <1>2 DEF ResolveExternalIdentity
<1>4. /\ s.stage = "read" /\ s.kind = "login" /\ s.actor = p
      /\ s.role = "none" /\ s.row = 0 /\ s.sess = 0
  BY <1>2 DEF Idle
<1>5. s \in SlotType
  BY <1>2, EmptyTypes DEF SlotType
<1> QED
  BY <1>3, <1>4, <1>5, QuietStep

\* A platform request validates its session.
LEMMA PlatformContextInv ==
    ASSUME Inv, NEW r \in Requests, NEW x \in SessionIds, platformRequestContext(r, x)
    PROVE  Inv'
<1>1. PICK u : u = sessions[x].user
  OBVIOUS
<1>2. u \in People \cup {Nobody}
  BY <1>1 DEF Inv, TypeInv, SessionType
<1>3. PICK s : s = [Idle EXCEPT !.stage = "validated", !.kind = "platform", !.actor = u]
  OBVIOUS
<1>4. Step(r, s) /\ Keeps
  BY <1>1, <1>3 DEF platformRequestContext
<1>5. s.stage = "validated" /\ s.kind = "platform" /\ s.role = "none" /\ s.row = 0
  BY <1>3 DEF Idle
<1>6. s \in SlotType
  BY <1>2, <1>3, EmptyTypes DEF SlotType
<1> QED
  BY <1>4, <1>5, <1>6, QuietStep

\* A rotation validates the session it is to replace.
LEMMA ValidateInv ==
    ASSUME Inv, NEW r \in Requests, NEW x \in SessionIds, ValidateWebSession(r, x)
    PROVE  Inv'
<1>1. PICK u : u = sessions[x].user
  OBVIOUS
<1>2. u \in People /\ Live(x)
  BY <1>1 DEF ValidateWebSession, GetWebSessionByPrefix, Live, Inv, TypeInv, SessionType
<1>3. PICK s : s = [Idle EXCEPT !.stage = "session", !.kind = "rotate", !.actor = u, !.sess = x]
  OBVIOUS
<1>4. Step(r, s) /\ Keeps
  BY <1>1, <1>3 DEF ValidateWebSession
<1>5. /\ s.stage = "session" /\ s.kind = "rotate" /\ s.actor = u
      /\ s.role = "none" /\ s.row = 0 /\ s.sess = x
  BY <1>3 DEF Idle
<1>6. x \in 0..MaxSessions
  BY AccountsBounds DEF SessionIds
<1>7. s \in SlotType
  BY <1>2, <1>3, <1>6, EmptyTypes DEF SlotType
<1> QED
  BY <1>2, <1>4, <1>5, <1>7, QuietStep

\* The row to disable or reactivate is chosen: it is somebody's.
LEMMA ChangeStatusInv ==
    ASSUME Inv, NEW r \in Requests, NEW i \in RowIds, NEW active \in BOOLEAN,
           changePlatformAdminStatus(r, i, active)
    PROVE  Inv'
<1>1. PICK kind \in {"reactivate", "disable"} : kind = IF active THEN "reactivate" ELSE "disable"
  OBVIOUS
<1>2. PICK s : s = [Idle EXCEPT !.stage = "read", !.row = i, !.kind = kind]
  OBVIOUS
<1>3. Step(r, s) /\ Keeps
  BY <1>1, <1>2 DEF changePlatformAdminStatus
<1>4. s.stage = "read" /\ s.kind = kind /\ s.role = "none" /\ s.row = i
  BY <1>2 DEF Idle
<1>5. i \in 0..MaxRows
  BY AccountsBounds DEF RowIds
<1>6. s \in SlotType
  BY <1>2, <1>5, EmptyTypes DEF SlotType
<1>7. i # 0 /\ staff[i].user \in People
  BY AccountsBounds DEF changePlatformAdminStatus, RowIds, Inv, StaffInv
<1> QED
  BY <1>3, <1>4, <1>6, <1>7, QuietStep

\* The status is written: the fields stay.
LEMMA WriteStatusInv ==
    ASSUME Inv, NEW r \in Requests, DisablePlatformMembership(r) \/ ReactivatePlatformMembership(r)
    PROVE  Inv'
<1>1. CASE Refuse(r)
  BY <1>1, RefuseInv
<1>2. CASE ~Refuse(r)
  <2>1. PICK s : s = [slot[r] EXCEPT !.stage = "written"]
    OBVIOUS
  <2>2. /\ Step(r, s) /\ Keeps /\ slot[r].stage = "read" /\ slot[r].kind \in {"disable", "reactivate"}
    BY <1>2, <2>1 DEF DisablePlatformMembership, ReactivatePlatformMembership
  <2>3. slot[r] \in SlotType /\ ShapeInv(r)
    BY DEF Inv, TypeInv
  <2>4. /\ s \in SlotType /\ s.stage = "written" /\ s.kind = slot[r].kind
        /\ s.role = slot[r].role /\ s.row = slot[r].row
    BY <2>1, <2>3 DEF SlotType
  <2> QED
    BY <2>2, <2>3, <2>4, QuietStep DEF ShapeInv
<1> QED
  BY <1>1, <1>2

\* The deferred trigger: what it sees is what the commit would leave.
LEMMA CheckInv ==
    ASSUME Inv, NEW r \in Requests, CheckConstraints(r)
    PROVE  Inv'
<1>1. CASE Refuse(r)
  BY <1>1, RefuseInv
<1>2. CASE ~Refuse(r)
  <2>1. PICK s : s = [slot[r] EXCEPT !.stage = "checked"]
    OBVIOUS
  <2>2. /\ slot' = [slot EXCEPT ![r] = s] /\ Keeps /\ slot[r].stage = "written"
        /\ platform_admin_lockout_guard(r)
    BY <1>2, <2>1 DEF CheckConstraints, Step
  <2>3. slot[r] \in SlotType /\ ShapeInv(r)
    BY DEF Inv, TypeInv
  <2>4. /\ s \in SlotType /\ s.stage = "checked" /\ s.kind = slot[r].kind
        /\ s.role = slot[r].role /\ s.row = slot[r].row /\ s.actor = slot[r].actor /\ s.sess = slot[r].sess
    BY <2>1, <2>3 DEF SlotType
  <2>5. slot'[r] = s /\ \A q \in Requests \ {r} : slot'[q] = slot[q]
    BY <2>2 DEF Inv, TypeInv
  <2>6. RowsInv'
    <3>1. Inserters' \subseteq Inserters
      BY <2>4, <2>5 DEF Inserters
    <3> QED
      BY <2>2, <3>1, FewerInserters DEF Keeps
  <2>7. ShapeInv(r)'
    BY <2>2, <2>3, <2>4, <2>5 DEF ShapeInv, Keeps
  <2>8. Written(r)' = Written(r)
    BY <2>2, <2>4, <2>5 DEF Written, FreeRow, FreeKey, Keeps
  <2>9. CheckedInv(r)'
    <3>1. AdminsOf(Written(r))' = AdminsOf(Written(r))
      BY <2>8 DEF AdminsOf
    <3> QED
      BY <2>2, <2>4, <2>5, <3>1 DEF CheckedInv, platform_admin_lockout_guard
  <2>11. Consumes(r)' => Consumes(r)
    BY <2>2, <2>4, <2>5 DEF Consumes, Writes, Uncommitted
  <2>12. Consumes(r) => /\ pending[s.actor] = s.role
                        /\ \A q \in Requests \ {r} : Consumes(q) => slot[q].actor # s.actor
    BY <2>4 DEF Inv, GrantInv
  <2> QED
    BY <2>2, <2>4, <2>6, <2>7, <2>9, <2>11, <2>12, OneSlot
<1> QED
  BY <1>1, <1>2

\* A login looks for an invitation and takes it, under its lock.
LEMMA ConsumeInv ==
    ASSUME Inv, NEW r \in Requests, consumePendingPlatformGrant(r)
    PROVE  Inv'
<1>1. PICK p : p = slot[r].actor
  OBVIOUS
<1>2. PICK row : row = IF ActiveRow(staff, p) # {} THEN CHOOSE i \in ActiveRow(staff, p) : TRUE ELSE 0
  OBVIOUS
<1>3. slot[r].stage = "read" /\ slot[r].kind = "login"
  BY DEF consumePendingPlatformGrant
<1>4. slot[r] \in SlotType /\ ShapeInv(r)
  BY DEF Inv, TypeInv
<1>5. p \in People /\ slot[r].role = "none" /\ slot[r].row = 0 /\ slot[r].sess = 0
  BY <1>1, <1>3, <1>4 DEF ShapeInv
<1>6. CASE Refuse(r)
  BY <1>6, RefuseInv
<1>7. CASE ~Refuse(r) /\ ~ConsumePlatformAdminGrant(r)
  <2>1. PICK s : s = [slot[r] EXCEPT !.stage = "written", !.verified = FALSE]
    OBVIOUS
  <2>2. Step(r, s) /\ Keeps
    BY <1>7, <2>1 DEF consumePendingPlatformGrant
  <2>3. /\ s \in SlotType /\ s.stage = "written" /\ s.kind = "login" /\ s.actor = p
        /\ s.role = "none" /\ s.row = 0 /\ s.sess = 0
    BY <1>1, <1>3, <1>4, <1>5, <2>1 DEF SlotType
  <2> QED
    BY <1>5, <2>2, <2>3, QuietStep
<1>8. CASE ~Refuse(r) /\ ConsumePlatformAdminGrant(r)
  <2>1. PICK role : role = pending[p]
    OBVIOUS
  <2>2. PICK s : s = [slot[r] EXCEPT !.stage = "written", !.verified = FALSE, !.role = role, !.row = row]
    OBVIOUS
  <2>3. /\ slot' = [slot EXCEPT ![r] = s] /\ Keeps /\ GrantFree(r, p) /\ (row = 0 => RowLeft(r))
    BY <1>1, <1>2, <1>8, <2>1, <2>2 DEF consumePendingPlatformGrant, Step, ConsumePlatformAdminGrant
  <2>4. role \in Roles
    BY <1>1, <1>5, <1>8, <2>1 DEF ConsumePlatformAdminGrant, Inv, TypeInv
  <2>5. row \in 0..MaxRows /\ (row # 0 => row \in RowIds /\ staff[row].user \in People)
    <3>1. ActiveRow(staff, p) # {} => row \in ActiveRow(staff, p)
      BY <1>2
    <3>2. row \in RowIds \cup {0}
      BY <1>2, <3>1 DEF ActiveRow
    <3>3. row # 0 => staff[row].user = p
      BY <1>2, <3>1 DEF ActiveRow
    <3> QED
      BY <1>5, <3>2, <3>3, AccountsBounds DEF RowIds
  <2>6. /\ s.stage = "written" /\ s.kind = "login" /\ s.actor = p
        /\ s.role = role /\ s.row = row /\ s.sess = 0
    BY <1>1, <1>3, <1>4, <1>5, <2>2 DEF SlotType
  <2>7. s \in SlotType
    BY <1>4, <2>2, <2>4, <2>5 DEF SlotType
  <2>8. slot'[r] = s /\ \A q \in Requests \ {r} : slot'[q] = slot[q]
    BY <2>3 DEF Inv, TypeInv
  <2>9. role # "none"
    BY <2>4 DEF Roles, Admin
  <2>10. RowsInv'
    <3>1. CASE row # 0
      <4>1. Inserters' \subseteq Inserters
        BY <2>6, <2>8, <3>1 DEF Inserters
      <4> QED
        BY <2>3, <4>1, FewerInserters DEF Keeps
    <3>2. CASE row = 0
      <4>1. PICK others : others = {q \in Requests \ {r} : slot[q].role # "none" /\ slot[q].row = 0}
        OBVIOUS
      <4>2. Inserters' = others \cup {r} /\ r \notin others
        BY <2>6, <2>8, <2>9, <3>2, <4>1 DEF Inserters
      <4>3. IsFiniteSet(others)
        <5>1. others \in SUBSET Requests
          BY <4>1
        <5> QED
          BY <5>1, AccountsBounds, FS_Subset
      <4>4. Cardinality(others \cup {r}) = Cardinality(others) + 1 /\ Cardinality(others) \in Nat
        BY <4>2, <4>3, FS_AddElement, FS_CardinalityType
      <4>5. Cardinality(FreeRows) > Cardinality(others)
        BY <2>3, <3>2, <4>1 DEF RowLeft, FreeRows
      <4>6. Cardinality(others) + 1 <= Cardinality(FreeRows)
        BY <4>4, <4>5, Finite
      <4>7. FreeRows' = FreeRows
        BY <2>3 DEF FreeRows, Keeps
      <4> QED
        BY <4>2, <4>4, <4>6, <4>7 DEF RowsInv
    <3> QED
      BY <3>1, <3>2
  <2>11. ShapeInv(r)' /\ CheckedInv(r)'
    BY <1>5, <2>3, <2>5, <2>6, <2>8, <2>9 DEF ShapeInv, CheckedInv, Keeps
  <2>12. /\ pending[s.actor] = s.role
         /\ \A q \in Requests \ {r} : Consumes(q) => slot[q].actor # s.actor
    BY <2>1, <2>3, <2>6 DEF GrantFree, Consumes
  <2> QED
    BY <2>3, <2>7, <2>10, <2>11, <2>12, OneSlot
<1> QED
  BY <1>6, <1>7, <1>8

\* An invitation is sent, replaced or revoked: no login is about to consume it.
LEMMA InvitationInv ==
    ASSUME Inv, NEW r \in Requests, NEW p \in People, NEW role \in Roles \cup {"none"},
           inAuthorizedPlatformTx(r), GrantFree(r, p),
           pending' = [pending EXCEPT ![p] = role], Step(r, Idle),
           UNCHANGED <<linked, staff, sessions>>
    PROVE  Inv'
<1>1. slot' = [slot EXCEPT ![r] = Idle]
  BY DEF Step
<1>2. slot'[r] = Idle /\ \A q \in Requests \ {r} : slot'[q] = slot[q]
  BY <1>1 DEF Inv, TypeInv
<1>3. TypeInv' /\ StaffInv'
  BY <1>1, EmptyTypes DEF Inv, TypeInv, StaffInv
<1>4. RowsInv'
  <2>1. Inserters' \subseteq Inserters
    BY <1>2, EmptyTypes DEF Inserters
  <2> QED
    BY <2>1, FewerInserters
<1>5. ShapeInv(r)' /\ CheckedInv(r)' /\ ~Consumes(r)'
  BY <1>2, EmptyTypes DEF ShapeInv, CheckedInv, Consumes, Writes, Uncommitted
<1>6. ASSUME NEW q \in Requests \ {r} PROVE ShapeInv(q)' /\ CheckedInv(q)'
  <2>1. slot'[q] = slot[q]
    BY <1>2
  <2>2. Written(q)' = Written(q)
    BY <2>1 DEF Written, FreeRow, FreeKey
  <2>3. AdminsOf(Written(q))' = AdminsOf(Written(q))
    BY <2>2 DEF AdminsOf
  <2>4. ShapeInv(q)'
    BY <2>1 DEF Inv, ShapeInv
  <2>5. CheckedInv(q)'
    BY <2>1, <2>3 DEF Inv, CheckedInv
  <2> QED
    BY <2>4, <2>5
<1>7. \A q \in Requests \ {r} : Consumes(q)' <=> Consumes(q)
  BY <1>2 DEF Consumes, Writes, Uncommitted
<1>8. ASSUME NEW q \in Requests, Consumes(q)' PROVE GrantInv(q)'
  <2>1. q # r /\ slot'[q] = slot[q] /\ Consumes(q) /\ GrantInv(q)
    BY <1>2, <1>5, <1>7, <1>8 DEF Inv
  <2>2. slot[q].actor # p
    BY <2>1 DEF GrantFree, Consumes
  <2>3. slot[q].actor \in People
    BY <2>1 DEF Consumes, Inv, ShapeInv
  <2>4. pending'[slot'[q].actor] = slot'[q].role
    BY <2>1, <2>2, <2>3 DEF GrantInv, Inv, TypeInv
  <2>5. ASSUME NEW o \in Requests, Consumes(o)', slot'[o].actor = slot'[q].actor PROVE o = q
    <3>1. o # r /\ slot'[o] = slot[o] /\ Consumes(o)
      BY <1>2, <1>5, <1>7, <2>5
    <3> QED
      BY <2>1, <2>5, <3>1 DEF GrantInv
  <2> QED
    BY <2>4, <2>5 DEF GrantInv
<1>9. \A q \in Requests : GrantInv(q)'
  BY <1>8 DEF GrantInv
<1> QED
  BY <1>3, <1>4, <1>5, <1>6, <1>9 DEF Inv

-----------------------------------------------------------------------------
(* Commit                                                                  *)

\* A login that is to insert a row: there is one.
LEMMA InserterFindsRow ==
    ASSUME Inv, NEW r \in Requests, slot[r].role # "none", slot[r].row = 0
    PROVE  FreeRows # {}
<1>1. r \in Inserters
  BY DEF Inserters
<1>2. Cardinality(Inserters) # 0
  BY <1>1, Finite, FS_EmptySet
<1>3. Cardinality(FreeRows) # 0
  BY <1>2, Finite DEF Inv, RowsInv
<1> QED
  BY <1>3, FS_EmptySet

\* The table a transaction leaves: an inserted row, or one field of a row of
\* somebody changed.
LEMMA WrittenCases ==
    ASSUME Inv, NEW r \in Requests, slot[r].stage = "checked"
    PROVE  \/ /\ slot[r].role # "none" /\ slot[r].row = 0
              /\ \E i \in RowIds, row \in RowType :
                   staff[i] = NoRow /\ row.user \in People /\ Written(r) = [staff EXCEPT ![i] = row]
           \/ /\ slot[r].role = "none" /\ slot[r].row = 0 /\ Written(r) = staff
           \/ /\ slot[r].row # 0
              /\ \E i \in RowIds, row \in RowType :
                   staff[i].user \in People /\ row.user \in People /\ Written(r) = [staff EXCEPT ![i] = row]
<1>1. slot[r] \in SlotType /\ ShapeInv(r) /\ staff \in [RowIds -> RowType]
  BY DEF Inv, TypeInv
<1>2. slot[r].kind \in {"login", "disable", "reactivate"}
  BY <1>1 DEF ShapeInv
<1>3. CASE slot[r].role # "none" /\ slot[r].row = 0
  <2>1. slot[r].kind = "login" /\ slot[r].actor \in People /\ slot[r].role \in Roles
    BY <1>1, <1>2, <1>3 DEF ShapeInv, SlotType
  <2>2. FreeRow \in RowIds /\ staff[FreeRow] = NoRow
    BY <1>3, InserterFindsRow, FreeRowType
  <2>3. PICK row : row = Row(slot[r].actor, slot[r].role)
    OBVIOUS
  <2>4. row \in RowType /\ row.user \in People
    BY <2>1, <2>3 DEF Row, RowType
  <2>5. Written(r) = [staff EXCEPT ![FreeRow] = row]
    BY <1>3, <2>1, <2>3 DEF Written
  <2> QED
    BY <1>3, <2>2, <2>4, <2>5
<1>4. CASE slot[r].role = "none" /\ slot[r].row = 0
  <2>1. slot[r].kind = "login"
    BY <1>1, <1>2, <1>4 DEF ShapeInv
  <2> QED
    BY <1>4, <2>1 DEF Written
<1>5. CASE slot[r].row # 0
  <2>1. PICK i \in RowIds : i = slot[r].row /\ staff[i].user \in People
    BY <1>1, <1>5 DEF ShapeInv
  <2>2. staff[i] \in RowType
    BY <1>1
  <2>3. CASE slot[r].kind = "disable"
    <3>1. PICK row : row = [staff[i] EXCEPT !.active = FALSE]
      OBVIOUS
    <3>2. row \in RowType /\ row.user = staff[i].user
      BY <2>2, <3>1 DEF RowType
    <3>3. Written(r) = [staff EXCEPT ![i] = row]
      BY <1>1, <2>1, <2>3, <3>1 DEF Written
    <3> QED
      BY <1>5, <2>1, <3>2, <3>3
  <2>4. CASE slot[r].kind = "reactivate"
    <3>1. PICK row : row = [staff[i] EXCEPT !.active = TRUE]
      OBVIOUS
    <3>2. row \in RowType /\ row.user = staff[i].user
      BY <2>2, <3>1 DEF RowType
    <3>3. Written(r) = [staff EXCEPT ![i] = row]
      BY <1>1, <2>1, <2>4, <3>1 DEF Written
    <3> QED
      BY <1>5, <2>1, <3>2, <3>3
  <2>5. CASE slot[r].kind = "login"
    <3>1. PICK row : row = [staff[i] EXCEPT !.role = slot[r].role]
      OBVIOUS
    <3>2. row \in RowType /\ row.user = staff[i].user
      BY <1>1, <2>2, <3>1 DEF RowType, SlotType
    <3>3. slot[r].role # "none"
      BY <1>1, <1>5, <2>5 DEF ShapeInv
    <3>4. Written(r) = [staff EXCEPT ![i] = row]
      BY <1>1, <1>5, <2>1, <2>5, <3>1, <3>3 DEF Written
    <3> QED
      BY <1>5, <2>1, <3>2, <3>4
  <2> QED
    BY <1>2, <2>3, <2>4, <2>5
<1> QED
  BY <1>3, <1>4, <1>5

\* A commit: what others have checked is stale from now on.
LEMMA CommitInv ==
    ASSUME Inv, NEW r \in Requests, Commit(r)
    PROVE  Inv'
<1>1. /\ slot[r].stage = "checked" /\ staff' = Written(r) /\ UNCHANGED sessions
      /\ linked' = IF slot[r].kind = "login" THEN linked \cup {slot[r].actor} ELSE linked
      /\ pending' = IF slot[r].kind = "login" /\ slot[r].role # "none"
                      THEN [pending EXCEPT ![slot[r].actor] = "none"] ELSE pending
  BY DEF Commit
<1>2. slot[r] \in SlotType /\ ShapeInv(r)
  BY DEF Inv, TypeInv
<1>3. PICK after : after = IF slot[r].kind = "login"
                             THEN [Idle EXCEPT !.stage = "session", !.kind = "login", !.actor = slot[r].actor]
                             ELSE Idle
  OBVIOUS
<1>4. /\ after \in SlotType /\ after.stage \in {"session", "idle"} /\ after.role = "none" /\ after.row = 0
      /\ after.kind \in {"login", "none"} /\ after.sess = 0
      /\ after.stage = "session" \/ after.kind = "login" => after.actor \in People /\ after.kind = "login"
  <2>1. CASE slot[r].kind = "login"
    <3>1. slot[r].actor \in People
      BY <1>2, <2>1 DEF ShapeInv
    <3>2. after = [Idle EXCEPT !.stage = "session", !.kind = "login", !.actor = slot[r].actor]
      BY <1>3, <2>1
    <3>3. after \in SlotType
      BY <3>1, <3>2, EmptyTypes DEF SlotType
    <3>4. /\ after.stage = "session" /\ after.role = "none" /\ after.row = 0
          /\ after.kind = "login" /\ after.sess = 0 /\ after.actor = slot[r].actor
      BY <3>2 DEF Idle
    <3> QED
      BY <3>1, <3>3, <3>4
  <2>2. CASE slot[r].kind # "login"
    <3>1. Idle.sess = 0
      BY DEF Idle
    <3> QED
      BY <1>3, <2>2, <3>1, EmptyTypes
  <2> QED
    BY <2>1, <2>2
<1>5. slot' = [q \in Requests |->
                 IF q = r THEN after
                 ELSE IF slot[q].stage = "checked" THEN [slot[q] EXCEPT !.stale = TRUE] ELSE slot[q]]
  BY <1>3 DEF Commit
<1>6. ASSUME NEW q \in Requests \ {r}
      PROVE  /\ slot'[q] \in SlotType
             /\ slot'[q].stage = slot[q].stage /\ slot'[q].kind = slot[q].kind
             /\ slot'[q].actor = slot[q].actor /\ slot'[q].row = slot[q].row /\ slot'[q].role = slot[q].role
             /\ slot'[q].sess = slot[q].sess
             /\ slot'[q].stage = "checked" => slot'[q].stale = TRUE
  <2>1. slot[q] \in SlotType
    BY DEF Inv, TypeInv
  <2>2. CASE slot[q].stage = "checked"
    <3>1. slot'[q] = [slot[q] EXCEPT !.stale = TRUE]
      BY <1>5, <2>2
    <3> QED
      BY <2>1, <3>1 DEF SlotType
  <2>3. CASE slot[q].stage # "checked"
    <3>1. slot'[q] = slot[q]
      BY <1>5, <2>3
    <3> QED
      BY <2>1, <2>3, <3>1
  <2> QED
    BY <2>2, <2>3
<1>7. slot'[r] = after /\ slot' \in [Requests -> SlotType]
  <2>1. slot'[r] = after
    BY <1>5
  <2>2. \A q \in Requests : slot'[q] \in SlotType
    BY <1>4, <1>6, <2>1
  <2> QED
    BY <1>5, <2>1, <2>2
<1>8. /\ staff' \in [RowIds -> RowType]
      /\ \A i \in RowIds : staff[i].user \in People => staff'[i].user \in People
      /\ \A i \in RowIds : staff'[i] # NoRow => staff'[i].user \in People
  BY <1>1, WrittenCases DEF Inv, TypeInv, StaffInv
<1>9. TypeInv' /\ StaffInv'
  <2>1. linked' \subseteq People
    BY <1>1, <1>2 DEF Inv, TypeInv, ShapeInv
  <2>2. pending' \in [People -> Roles \cup {"none"}]
    BY <1>1 DEF Inv, TypeInv
  <2> QED
    BY <1>1, <1>7, <1>8, <2>1, <2>2 DEF Inv, TypeInv, StaffInv
<1>10. Inserters' = Inserters \ {r}
  BY <1>4, <1>6, <1>7 DEF Inserters
<1>11. NoRow.user \notin People
  BY AccountsBounds DEF NoRow
<1>12. RowsInv'
  <2>1. PICK before, now : before = Inserters /\ now = Inserters'
    OBVIOUS
  <2>2. PICK free, left : free = FreeRows /\ left = FreeRows'
    OBVIOUS
  <2>3. /\ IsFiniteSet(before) /\ Cardinality(before) \in Nat /\ IsFiniteSet(free) /\ Cardinality(free) \in Nat
        /\ Cardinality(before) <= Cardinality(free) /\ now = before \ {r}
    BY <1>10, <2>1, <2>2, Finite DEF Inv, RowsInv
  <2>4. Cardinality(now) = IF r \in before THEN Cardinality(before) - 1 ELSE Cardinality(before)
    BY <2>3, FS_RemoveElement
  <2>5. CASE slot[r].role # "none" /\ slot[r].row = 0
    <3>1. PICK i \in RowIds, row \in RowType :
             staff[i] = NoRow /\ row.user \in People /\ staff' = [staff EXCEPT ![i] = row]
      BY <1>1, <2>5, WrittenCases
    <3>2. left = free \ {i} /\ i \in free
      BY <1>11, <2>2, <3>1 DEF FreeRows, Inv, TypeInv
    <3>3. Cardinality(left) = Cardinality(free) - 1
      BY <2>3, <3>2, FS_RemoveElement
    <3>4. r \in before
      BY <2>1, <2>5 DEF Inserters
    <3> QED
      BY <2>1, <2>2, <2>3, <2>4, <3>3, <3>4 DEF RowsInv
  <2>6. CASE ~(slot[r].role # "none" /\ slot[r].row = 0)
    <3>1. left = free
      <4>1. CASE slot[r].row # 0
        <5>1. PICK i \in RowIds, row \in RowType :
                 staff[i].user \in People /\ row.user \in People /\ staff' = [staff EXCEPT ![i] = row]
          BY <1>1, <4>1, WrittenCases
        <5> QED
          BY <1>11, <2>2, <5>1 DEF FreeRows, Inv, TypeInv
      <4>2. CASE slot[r].row = 0
        <5>1. staff' = staff
          BY <1>1, <2>6, <4>2, WrittenCases
        <5> QED
          BY <2>2, <5>1 DEF FreeRows
      <4> QED
        BY <4>1, <4>2
    <3> QED
      BY <2>1, <2>2, <2>3, <2>4, <3>1 DEF RowsInv
  <2> QED
    BY <2>5, <2>6
<1>13. ShapeInv(r)' /\ CheckedInv(r)' /\ ~Consumes(r)'
  BY <1>4, <1>7 DEF ShapeInv, CheckedInv, Consumes, Writes, Uncommitted
<1>14. ASSUME NEW q \in Requests \ {r} PROVE ShapeInv(q)' /\ CheckedInv(q)'
  <2>0. /\ slot'[q].stage = slot[q].stage /\ slot'[q].kind = slot[q].kind
        /\ slot'[q].actor = slot[q].actor /\ slot'[q].row = slot[q].row /\ slot'[q].role = slot[q].role
        /\ slot'[q].sess = slot[q].sess
    BY <1>6
  <2>00. ShapeInv(q)
    BY DEF Inv
  <2>1. ShapeInv(q)'
    BY <1>8, <2>0, <2>00 DEF ShapeInv
  <2>2. CheckedInv(q)'
    BY <1>6 DEF CheckedInv
  <2> QED
    BY <2>1, <2>2
<1>15. \A q \in Requests \ {r} : Consumes(q)' <=> Consumes(q)
  BY <1>6 DEF Consumes, Writes, Uncommitted
<1>16. ASSUME NEW q \in Requests, Consumes(q)' PROVE GrantInv(q)'
  <2>1. q # r
    BY <1>13, <1>16
  <2>2. Consumes(q) /\ GrantInv(q) /\ slot'[q].actor = slot[q].actor /\ slot'[q].role = slot[q].role
    BY <1>6, <1>15, <1>16, <2>1 DEF Inv
  <2>3. slot[q].actor \in People
    BY <2>2 DEF Consumes, Inv, ShapeInv
  <2>4. pending'[slot[q].actor] = pending[slot[q].actor]
    <3>1. CASE slot[r].kind = "login" /\ slot[r].role # "none"
      <4>1. Consumes(r)
        BY <1>1, <3>1 DEF Consumes, Writes, Uncommitted
      <4>2. slot[q].actor # slot[r].actor
        BY <2>1, <2>2, <4>1 DEF GrantInv
      <4>3. pending' = [pending EXCEPT ![slot[r].actor] = "none"]
        BY <1>1, <3>1
      <4> QED
        BY <2>3, <4>2, <4>3 DEF Inv, TypeInv
    <3>2. CASE ~(slot[r].kind = "login" /\ slot[r].role # "none")
      BY <1>1, <3>2
    <3> QED
      BY <3>1, <3>2
  <2>5. ASSUME NEW o \in Requests, Consumes(o)', slot'[o].actor = slot'[q].actor PROVE o = q
    <3>1. o # r
      BY <1>13, <2>5
    <3>2. Consumes(o) /\ slot[o].actor = slot[q].actor
      BY <1>6, <1>15, <2>2, <2>5, <3>1
    <3> QED
      BY <2>2, <3>2 DEF GrantInv
  <2> QED
    BY <2>2, <2>4, <2>5 DEF GrantInv
<1>17. \A q \in Requests : GrantInv(q)'
  BY <1>16 DEF GrantInv
<1> QED
  BY <1>9, <1>12, <1>13, <1>14, <1>17 DEF Inv

-----------------------------------------------------------------------------
(* Sessions                                                                *)

\* A request that has come to its end, or has its new session.
Done(s) ==
    /\ s.role = "none" /\ s.stage \in {"idle", "revoking"} /\ s.kind \in {"none", "rotate"}
    /\ s.stage = "revoking" => s.actor \in People /\ s.kind = "rotate"
    /\ s.row # 0 => s.row \in RowIds /\ staff[s.row].user \in People

\* A step of the sessions leaves the administrators and the invitations alone.
LEMMA SessionsOnly ==
    ASSUME Inv, UNCHANGED <<linked, staff, pending>>,
           sessions' \in [SessionIds -> SessionType],
           slot' \in [Requests -> SlotType],
           \A q \in Requests : slot'[q] = slot[q] \/ Done(slot'[q])
    PROVE  Inv'
<1>1. TypeInv' /\ StaffInv'
  BY DEF Inv, TypeInv, StaffInv
<1>2. RowsInv'
  <2>1. Inserters' \subseteq Inserters
    BY DEF Inserters, Done
  <2> QED
    BY <2>1, FewerInserters
<1>3. ASSUME NEW q \in Requests
      PROVE  ShapeInv(q)' /\ CheckedInv(q)' /\ (Consumes(q)' => Consumes(q) /\ slot'[q] = slot[q])
  <2>1. CASE slot'[q] = slot[q]
    <3>1. Written(q)' = Written(q)
      BY <2>1 DEF Written, FreeRow, FreeKey
    <3>2. AdminsOf(Written(q))' = AdminsOf(Written(q))
      BY <3>1 DEF AdminsOf
    <3>3. ShapeInv(q)'
      BY <2>1 DEF Inv, ShapeInv
    <3>4. CheckedInv(q)'
      BY <2>1, <3>2 DEF Inv, CheckedInv
    <3>5. Consumes(q)' => Consumes(q)
      BY <2>1 DEF Consumes, Writes, Uncommitted
    <3> QED
      BY <2>1, <3>3, <3>4, <3>5
  <2>2. CASE Done(slot'[q])
    BY <2>2 DEF Done, ShapeInv, CheckedInv, Consumes, Writes, Uncommitted
  <2> QED
    BY <2>1, <2>2
<1>4. ASSUME NEW q \in Requests PROVE GrantInv(q)'
  <2>1. GrantInv(q)
    BY DEF Inv
  <2> QED
    BY <1>3, <2>1 DEF GrantInv
<1> QED
  BY <1>1, <1>2, <1>3, <1>4 DEF Inv

\* A session is made.
LEMMA CreateSessionInv ==
    ASSUME Inv, NEW r \in Requests, CreateWebSession(r)
    PROVE  Inv'
<1>1. PICK f : f = FreeSession
  OBVIOUS
<1>2. PICK new : new = [user |-> slot[r].actor, ended |-> FALSE]
  OBVIOUS
<1>3. slot[r] \in SlotType /\ ShapeInv(r) /\ slot[r].stage = "session"
  BY DEF Inv, TypeInv, CreateWebSession
<1>4. slot[r].actor \in People /\ slot[r].kind \in {"login", "rotate"} /\ slot[r].role = "none"
  BY <1>3 DEF ShapeInv
<1>5. new \in SessionType
  BY <1>2, <1>4 DEF SessionType
<1>6. sessions' = [sessions EXCEPT ![f] = new] /\ UNCHANGED <<linked, staff, pending>>
  BY <1>1, <1>2 DEF CreateWebSession
<1>7. sessions' \in [SessionIds -> SessionType]
  BY <1>5, <1>6 DEF Inv, TypeInv
<1>8. PICK s : s = IF slot[r].kind = "login" THEN Idle ELSE [slot[r] EXCEPT !.stage = "revoking"]
  OBVIOUS
<1>9. slot' = [slot EXCEPT ![r] = s]
  BY <1>8 DEF CreateWebSession, Step
<1>10. s \in SlotType /\ Done(s)
  <2>1. CASE slot[r].kind = "login"
    BY <1>8, <2>1, EmptyTypes DEF Done
  <2>2. CASE slot[r].kind = "rotate"
    <3>1. s = [slot[r] EXCEPT !.stage = "revoking"]
      BY <1>8, <2>2
    <3>2. s \in SlotType
      BY <1>3, <3>1 DEF SlotType
    <3>3. /\ s.stage = "revoking" /\ s.kind = "rotate" /\ s.role = "none"
          /\ s.actor = slot[r].actor /\ s.row = slot[r].row
      BY <1>3, <1>4, <2>2, <3>1 DEF SlotType
    <3>4. s.row # 0 => s.row \in RowIds /\ staff[s.row].user \in People
      BY <1>3, <3>3 DEF ShapeInv
    <3> QED
      BY <1>4, <2>2, <3>2, <3>3, <3>4 DEF Done
  <2> QED
    BY <1>4, <2>1, <2>2
<1>11. slot' \in [Requests -> SlotType] /\ slot'[r] = s /\ \A q \in Requests \ {r} : slot'[q] = slot[q]
  BY <1>9, <1>10 DEF Inv, TypeInv
<1> QED
  BY <1>6, <1>7, <1>10, <1>11, SessionsOnly

\* A session that ends keeps its row.
LEMMA EndedType ==
    ASSUME Inv, NEW s PROVE End(s) \in [SessionIds -> SessionType]
<1>1. sessions \in [SessionIds -> SessionType]
  BY DEF Inv, TypeInv
<1> QED
  BY <1>1 DEF End, SessionType

\* A rotation comes to its end, with the old session over.
LEMMA RotateSessionInv ==
    ASSUME Inv, NEW r \in Requests, RotateWebSession(r)
    PROVE  Inv'
<1>1. slot' = [slot EXCEPT ![r] = Idle] /\ UNCHANGED <<linked, staff, pending>>
  BY DEF RotateWebSession, Step
<1>2. sessions' \in [SessionIds -> SessionType]
  <2>1. PICK s : s = slot[r].sess
    OBVIOUS
  <2>2. sessions' = End(s) \/ sessions' = sessions
    BY <2>1 DEF RotateWebSession
  <2> QED
    BY <2>2, EndedType DEF Inv, TypeInv
<1>3. slot' \in [Requests -> SlotType] /\ slot'[r] = Idle /\ \A q \in Requests \ {r} : slot'[q] = slot[q]
  BY <1>1, EmptyTypes DEF Inv, TypeInv
<1>4. Done(slot'[r])
  BY <1>3, EmptyTypes DEF Done
<1> QED
  BY <1>1, <1>2, <1>3, <1>4, SessionsOnly

\* A session is ended by its owner or by the clock.
LEMMA EndSessionInv ==
    ASSUME Inv, NEW s \in SessionIds, sessions' = End(s), UNCHANGED <<linked, staff, pending, slot>>
    PROVE  Inv'
<1>1. sessions' \in [SessionIds -> SessionType] /\ slot' \in [Requests -> SlotType]
  BY EndedType DEF Inv, TypeInv
<1> QED
  BY <1>1, SessionsOnly

-----------------------------------------------------------------------------
(* Theorems                                                                *)

\* Every step keeps the invariant.
LEMMA NextInv == Inv /\ [Next]_vars => Inv'
<1> SUFFICES ASSUME Inv, [Next]_vars PROVE Inv'
  OBVIOUS
<1>1. CASE UNCHANGED vars
  <2>1. UNCHANGED <<linked, staff, pending>>
    BY <1>1 DEF vars
  <2>2. sessions' \in [SessionIds -> SessionType] /\ slot' \in [Requests -> SlotType] /\ slot' = slot
    BY <1>1 DEF vars, Inv, TypeInv
  <2> QED
    BY <2>1, <2>2, SessionsOnly
<1>2. ASSUME NEW r \in Requests, NEW p \in People, NEW verified \in BOOLEAN,
             ResolveExternalIdentity(r, p, verified)
      PROVE  Inv'
  BY <1>2, ResolveInv
<1>3. ASSUME NEW r \in Requests, consumePendingPlatformGrant(r) PROVE Inv'
  BY <1>3, ConsumeInv
<1>4. ASSUME NEW r \in Requests, NEW s \in SessionIds, platformRequestContext(r, s) \/ ValidateWebSession(r, s)
      PROVE  Inv'
  BY <1>4, PlatformContextInv, ValidateInv
<1>5. ASSUME NEW r \in Requests, forbidden(r) \/ rollback(r) PROVE Inv'
  BY <1>5, RefuseInv DEF forbidden, rollback
<1>6. ASSUME NEW r \in Requests, NEW p \in People, NEW role \in Roles, invitePlatformAdmin(r, p, role)
      PROVE  Inv'
  BY <1>6, InvitationInv DEF invitePlatformAdmin
<1>7. ASSUME NEW r \in Requests, NEW p \in People, revokePlatformAdminInvitation(r, p) PROVE Inv'
  BY <1>7, InvitationInv DEF revokePlatformAdminInvitation
<1>8. ASSUME NEW r \in Requests, NEW i \in RowIds, NEW active \in BOOLEAN,
             changePlatformAdminStatus(r, i, active)
      PROVE  Inv'
  BY <1>8, ChangeStatusInv
<1>9. ASSUME NEW r \in Requests, DisablePlatformMembership(r) \/ ReactivatePlatformMembership(r) PROVE Inv'
  BY <1>9, WriteStatusInv
<1>10. ASSUME NEW r \in Requests, CheckConstraints(r) \/ Commit(r) PROVE Inv'
  BY <1>10, CheckInv, CommitInv
<1>11. ASSUME NEW r \in Requests, CreateWebSession(r) \/ RotateWebSession(r) PROVE Inv'
  BY <1>11, CreateSessionInv, RotateSessionInv
<1>12. ASSUME NEW s \in SessionIds, logoutWebSession(s) \/ expire(s) PROVE Inv'
  BY <1>12, EndSessionInv DEF logoutWebSession, expire
<1> QED
  BY <1>1, <1>2, <1>3, <1>4, <1>5, <1>6, <1>7, <1>8, <1>9, <1>10, <1>11, <1>12 DEF Next

\* The inductive invariant holds in every state of the system.
THEOREM Invariance == Spec => []Inv
<1>1. Inv /\ [Next]_vars => Inv'
  BY NextInv
<1> QED
  BY <1>1, InitInv, PTL DEF Spec

\* Nobody gets a platform role by an invitation that was revoked or replaced
\* while the login was under way, however many logins and administrators are
\* at it (consumePendingPlatformGrant, the lock of ConsumePlatformAdminGrant).
THEOREM InvitationsAreHeld == Spec => []InvitationHeld
<1>1. Inv => InvitationHeld
  BY DEF Inv, GrantInv, Consumes, InvitationHeld
<1> QED
  BY <1>1, Invariance, PTL

\* Only a commit changes the rows of the administrators.
LEMMA OnlyCommit ==
    ASSUME [Next]_vars, staff' # staff
    PROVE  \E r \in Requests : Commit(r)
BY DEF Next, vars, ResolveExternalIdentity, consumePendingPlatformGrant, platformRequestContext,
       ValidateWebSession, forbidden, invitePlatformAdmin, revokePlatformAdminInvitation,
       changePlatformAdminStatus, DisablePlatformMembership, ReactivatePlatformMembership,
       CheckConstraints, CreateWebSession, RotateWebSession, rollback, logoutWebSession, expire,
       Refuse, Keeps

\* A commit takes the last administrator while it is stale: another
\* transaction has committed since its own trigger looked.
AdminLossExplained ==
    [][AdminsOf(staff) # {} /\ AdminsOf(staff') = {} =>
         \E r \in Requests : slot[r].stage = "checked" /\ slot'[r].stage # "checked" /\ slot[r].stale]_vars

\* The last administrator goes in no other way (platform_admin_lockout_guard
\* is deferred and takes no lock): one transaction at a time cannot do it,
\* whether it disables an administrator or demotes one by a login.
THEOREM AdminLossIsExplained == Spec => AdminLossExplained
<1>1. ASSUME Inv, [Next]_vars, AdminsOf(staff) # {}, AdminsOf(staff') = {}
      PROVE  \E r \in Requests : slot[r].stage = "checked" /\ slot'[r].stage # "checked" /\ slot[r].stale
  <2>1. staff' # staff
    BY <1>1
  <2>2. PICK r \in Requests : Commit(r)
    BY <1>1, <2>1, OnlyCommit
  <2>3. slot[r].stage = "checked" /\ staff' = Written(r)
    BY <2>2 DEF Commit
  <2>4. slot'[r].stage # "checked"
    <3>1. CASE slot[r].kind = "login"
      <4>1. slot'[r] = [Idle EXCEPT !.stage = "session", !.kind = "login", !.actor = slot[r].actor]
        BY <2>2, <3>1 DEF Commit
      <4> QED
        BY <4>1 DEF Idle
    <3>2. CASE slot[r].kind # "login"
      BY <2>2, <3>2, EmptyTypes DEF Commit
    <3> QED
      BY <3>1, <3>2
  <2>5. slot[r].row # 0
    <3> SUFFICES ASSUME slot[r].row = 0 PROVE FALSE
      OBVIOUS
    <3>1. PICK i \in RowIds, row \in RowType : staff[i] = NoRow /\ staff' = [staff EXCEPT ![i] = row]
      BY <1>1, <2>1, <2>3, WrittenCases
    <3>2. PICK j \in AdminsOf(staff) : TRUE
      BY <1>1
    <3>3. j \in RowIds /\ staff[j].active /\ staff[j].role = Admin /\ ~NoRow.active
      BY <3>2 DEF AdminsOf, NoRow
    <3>4. staff'[j] = staff[j]
      BY <1>1, <3>1, <3>3 DEF Inv, TypeInv
    <3> QED
      BY <1>1, <3>3, <3>4 DEF AdminsOf
  <2>6. slot[r].stale
    BY <1>1, <2>3, <2>5 DEF Inv, CheckedInv
  <2> QED
    BY <2>3, <2>4, <2>6
<1>2. Inv /\ [Next]_vars => (AdminsOf(staff) # {} /\ AdminsOf(staff') = {} =>
         \E r \in Requests : slot[r].stage = "checked" /\ slot'[r].stage # "checked" /\ slot[r].stale)
  BY <1>1
<1> QED
  BY <1>2, Invariance, PTL DEF Spec, AdminLossExplained
=============================================================================
