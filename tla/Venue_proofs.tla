----------------------------- MODULE Venue_proofs -----------------------------
(***************************************************************************)
(* Proofs about one location, for any number of clients, devices, pairing  *)
(* codes and capabilities: a pairing code is used once, a revoked device   *)
(* stays out and no edit is lost.  The invariant says what a client that   *)
(* is in the middle of something may still rely on.                        *)
(***************************************************************************)
EXTENDS Venue, FiniteSetTheorems, WellFoundedInduction, TLAPS

-----------------------------------------------------------------------------
(* The invariant                                                           *)

ItemRows == {NoItem} \cup [status : {"live", "archived"}, version : Nat \ {0}]
DeviceRows == [trust : {"none", "pending", "trusted", "revoked"},
               credential : {"none", "live", "revoked"},
               code : Codes \cup {None}]
QRStates == {"none", "live", "over"}
DeviceStages == {"found", "seen", "authenticated", "revoking"}
Slots == [stage : {"idle", "form", "setup", "resolved", "code"} \cup DeviceStages,
          on : Items \cup QRs \cup Codes \cup Devices \cup {None},
          version : Nat,
          old : BOOLEAN]

\* The types of the variables.
TypeInv ==
    /\ location \in {"active", "disabled"} /\ onboarded \in BOOLEAN
    /\ items \in [Items -> ItemRows]
    /\ qrs \in [QRs -> QRStates]
    /\ codes \in [Codes -> {"none", "open", "consumed", "expired"}]
    /\ devices \in [Devices -> DeviceRows]
    /\ slot \in [Requests -> Slots]

\* A zone is on a floor and a table in a zone.
LayoutInv ==
    /\ items["zone"] # NoItem => items["floor"] # NoItem
    /\ items["table"] # NoItem => items["zone"] # NoItem

\* The code a device was paired with is spent, on that device alone.
PairingInv ==
    /\ \A d \in Devices : devices[d].code # None => codes[devices[d].code] = "consumed"
    /\ \A d, e \in Devices : devices[d].code # None /\ devices[d].code = devices[e].code => d = e

\* An editor's version is not ahead of the item, and behind it when the item
\* has changed.
FormInv(r) ==
    slot[r].stage = "form" =>
        /\ slot[r].on \in Items
        /\ items[slot[r].on] # NoItem
        /\ slot[r].version <= items[slot[r].on].version
        /\ slot[r].old => slot[r].version < items[slot[r].on].version

\* A device whose row an authentication holds is trusted.
DeviceInv(r) ==
    /\ slot[r].stage = "code" => slot[r].on \in Codes
    /\ slot[r].stage \in DeviceStages => slot[r].on \in Devices
    /\ slot[r].stage = "seen" => devices[slot[r].on].trust = "trusted"

Inv ==
    /\ TypeInv /\ LayoutInv /\ PairingInv
    /\ \A r \in Requests : FormInv(r) /\ DeviceInv(r)

-----------------------------------------------------------------------------
(* Rows and slots                                                          *)

\* The types of rows and slots the actions build.
LEMMA RowTypes ==
    /\ Idle \in Slots /\ Idle.stage = "idle"
    /\ \A v \in Nat \ {0} : \A status \in {"live", "archived"} : [status |-> status, version |-> v] \in ItemRows
    /\ \A i \in ItemRows : i # NoItem => i.status \in {"live", "archived"} /\ i.version \in Nat \ {0}
    /\ [status |-> "live", version |-> 1] \in ItemRows
    /\ NoItem \in ItemRows /\ NoDevice \in DeviceRows
BY DEF Idle, Slots, ItemRows, NoItem, NoDevice, DeviceRows

\* A client that goes on to another stage.
LEMMA AtType ==
    ASSUME NEW stage \in {"form", "setup", "resolved", "code"} \cup DeviceStages,
           NEW on \in Items \cup QRs \cup Codes \cup Devices \cup {None}
    PROVE  At(stage, on) \in Slots /\ At(stage, on).stage = stage /\ At(stage, on).on = on
           /\ At(stage, on).old = FALSE
BY DEF At, Idle, Slots

\* A new location satisfies the invariant.
LEMMA InitInv == Init => Inv
<1> SUFFICES ASSUME Init PROVE Inv
  OBVIOUS
<1>1. TypeInv
  BY RowTypes DEF Init, TypeInv, QRStates
<1>2. LayoutInv
  BY DEF Init, LayoutInv, Items
<1>3. PairingInv
  BY DEF Init, PairingInv, NoDevice
<1>4. \A r \in Requests : FormInv(r) /\ DeviceInv(r)
  BY DEF Init, FormInv, DeviceInv, Idle, DeviceStages
<1> QED
  BY <1>1, <1>2, <1>3, <1>4 DEF Inv

\* A step that changes nothing but where one client is.
LEMMA OneSlot ==
    ASSUME Inv, NEW r \in Requests, NEW s \in Slots,
           slot' = [slot EXCEPT ![r] = s],
           UNCHANGED <<location, onboarded, items, qrs, codes, devices>>,
           FormInv(r)', DeviceInv(r)'
    PROVE  Inv'
<1>1. TypeInv'
  BY DEF Inv, TypeInv
<1>2. LayoutInv' /\ PairingInv'
  BY DEF Inv, LayoutInv, PairingInv
<1>3. ASSUME NEW q \in Requests, q # r PROVE FormInv(q)' /\ DeviceInv(q)'
  <2>1. slot'[q] = slot[q]
    BY <1>3 DEF Inv, TypeInv
  <2> QED
    BY <2>1 DEF Inv, FormInv, DeviceInv
<1> QED
  BY <1>1, <1>2, <1>3 DEF Inv

\* A request is given up.
LEMMA RefuseInv ==
    ASSUME Inv, NEW r \in Requests, Refuse(r)
    PROVE  Inv'
<1>1. /\ slot' = [slot EXCEPT ![r] = Idle]
      /\ UNCHANGED <<location, onboarded, items, qrs, codes, devices>>
  BY DEF Refuse, Step, layout
<1>2. slot'[r] = Idle
  BY <1>1 DEF Inv, TypeInv
<1>3. FormInv(r)' /\ DeviceInv(r)'
  BY <1>2, RowTypes DEF FormInv, DeviceInv, DeviceStages
<1> QED
  BY <1>1, <1>3, RowTypes, OneSlot

\* A client goes on with what it has looked up.
LEMMA AtInv ==
    ASSUME Inv, NEW r \in Requests,
           NEW stage \in {"form", "setup", "resolved", "code"} \cup DeviceStages,
           NEW on \in Items \cup QRs \cup Codes \cup Devices \cup {None},
           Step(r, At(stage, on)), UNCHANGED <<layout, qrs, codes, devices>>,
           stage # "form",
           stage = "code" => on \in Codes,
           stage \in DeviceStages => on \in Devices,
           stage = "seen" => devices[on].trust = "trusted"
    PROVE  Inv'
<1>1. PICK s : s = At(stage, on)
  OBVIOUS
<1>2. s \in Slots /\ s.stage = stage /\ s.on = on
  BY <1>1, AtType
<1>3. /\ slot' = [slot EXCEPT ![r] = s]
      /\ UNCHANGED <<location, onboarded, items, qrs, codes, devices>>
  BY <1>1 DEF Step, layout
<1>4. slot'[r] = s
  BY <1>3 DEF Inv, TypeInv
<1>5. FormInv(r)' /\ DeviceInv(r)'
  BY <1>2, <1>3, <1>4 DEF FormInv, DeviceInv
<1> QED
  BY <1>2, <1>3, <1>5, OneSlot

\* A step after which some clients are behind: what their slots keep.
LEMMA EndsSlots ==
    ASSUME TypeInv, NEW r \in Requests, NEW concerned,
           slot' = [q \in Requests |-> IF q = r THEN Idle
                                      ELSE [slot[q] EXCEPT !.old = @ \/ q \in concerned]]
    PROVE  /\ slot' \in [Requests -> Slots]
           /\ slot'[r] = Idle
           /\ \A q \in Requests \ {r} : /\ slot'[q].stage = slot[q].stage
                                         /\ slot'[q].on = slot[q].on
                                         /\ slot'[q].version = slot[q].version
           /\ \A q \in Requests \ {r} : slot'[q].old <=> slot[q].old \/ q \in concerned
<1>1. \A q \in Requests : slot[q] \in Slots
  BY DEF TypeInv
<1>2. ASSUME NEW q \in Requests \ {r}
      PROVE  /\ slot'[q] = [slot[q] EXCEPT !.old = @ \/ q \in concerned]
             /\ slot'[q] \in Slots
             /\ slot'[q].stage = slot[q].stage
             /\ slot'[q].on = slot[q].on
             /\ slot'[q].version = slot[q].version
             /\ slot'[q].old <=> slot[q].old \/ q \in concerned
  <2>1. slot'[q] = [slot[q] EXCEPT !.old = @ \/ q \in concerned]
    OBVIOUS
  <2>2. slot[q] \in Slots
    BY <1>1
  <2>3. slot'[q] \in Slots
    BY <2>1, <2>2 DEF Slots
  <2>4. slot'[q].old = (slot[q].old \/ q \in concerned)
    BY <2>1, <2>2 DEF Slots
  <2> QED
    BY <2>1, <2>2, <2>3, <2>4 DEF Slots
<1>3. slot'[r] = Idle
  OBVIOUS
<1> QED
  BY <1>2, <1>3, RowTypes

-----------------------------------------------------------------------------
(* Layout                                                                  *)

\* Items that are there stay there, and their versions do not fall.
LEMMA ItemsKept ==
    ASSUME Inv, TypeInv', UNCHANGED <<location, qrs, codes, devices, slot>>,
           \A i \in Items : items[i] # NoItem => items'[i] = items[i],
           LayoutInv'
    PROVE  Inv'
<1>1. PairingInv'
  BY DEF Inv, PairingInv
<1>2. \A r \in Requests : FormInv(r)' /\ DeviceInv(r)'
  BY DEF Inv, FormInv, DeviceInv
<1> QED
  BY <1>1, <1>2 DEF Inv

\* A floor, a zone or a table is made.
LEMMA CreateInv ==
    ASSUME Inv, NEW r \in Requests, NEW i \in Items, CreateItem(r, i)
    PROVE  Inv'
<1>1. /\ items[i] = NoItem /\ ParentExists(i)
      /\ items' = [items EXCEPT ![i] = [status |-> "live", version |-> 1]]
      /\ UNCHANGED <<location, onboarded, qrs, codes, devices, slot>>
  BY DEF CreateItem
<1>2. PICK row \in ItemRows : row = [status |-> "live", version |-> 1]
  BY RowTypes
<1>3. row # NoItem
  BY <1>2 DEF NoItem
<1>4. items' = [items EXCEPT ![i] = row]
  BY <1>1, <1>2
<1>5. TypeInv'
  BY <1>1, <1>4 DEF Inv, TypeInv
<1>6. items'[i] # NoItem /\ \A j \in Items \ {i} : items'[j] = items[j]
  BY <1>3, <1>4 DEF Inv, TypeInv
<1>7. LayoutInv'
  BY <1>1, <1>6 DEF Inv, LayoutInv, ParentExists, Items
<1> QED
  BY <1>1, <1>5, <1>6, <1>7, ItemsKept

\* A form is opened with the version of its row.
LEMMA EditorInv ==
    ASSUME Inv, NEW r \in Requests, NEW i \in Items, EditorSnapshot(r, i)
    PROVE  Inv'
<1>1. items[i] # NoItem /\ items[i] \in ItemRows
  BY DEF EditorSnapshot, Inv, TypeInv
<1>2. items[i].version \in Nat
  BY <1>1, RowTypes
<1>3. PICK a : a = At("form", i)
  OBVIOUS
<1>4. a \in Slots /\ a.stage = "form" /\ a.on = i /\ a.old = FALSE
  BY <1>3, AtType
<1>5. PICK s : s = [a EXCEPT !.version = items[i].version]
  OBVIOUS
<1>6. s \in Slots /\ s.stage = "form" /\ s.on = i /\ s.old = FALSE /\ s.version = items[i].version
  BY <1>2, <1>4, <1>5 DEF Slots
<1>7. /\ slot' = [slot EXCEPT ![r] = s]
      /\ UNCHANGED <<location, onboarded, items, qrs, codes, devices>>
  BY <1>3, <1>5 DEF EditorSnapshot, Step, layout
<1>8. slot'[r] = s
  BY <1>7 DEF Inv, TypeInv
<1>9. FormInv(r)' /\ DeviceInv(r)'
  BY <1>1, <1>2, <1>6, <1>7, <1>8 DEF FormInv, DeviceInv, DeviceStages
<1> QED
  BY <1>6, <1>7, <1>9, OneSlot

\* An edit: its own version is current, every other editor of the item is
\* behind.
LEMMA SaveInv ==
    ASSUME Inv, NEW r \in Requests, NEW i \in Items, NEW status, Save(r, i, status),
           status \in {"live", "archived"} \/ status = items[i].status
    PROVE  Inv'
<1> DEFINE concerned == {q \in Requests : slot[q].stage = "form" /\ slot[q].on = i}
<1>1. /\ slot[r].stage = "form" /\ slot[r].on = i
      /\ items' = [items EXCEPT ![i] = Bumped(r, status)]
      /\ UNCHANGED <<location, onboarded, qrs, codes, devices>>
  BY DEF Save
<1>2. slot' = [q \in Requests |-> IF q = r THEN Idle
                                 ELSE [slot[q] EXCEPT !.old = @ \/ q \in concerned]]
  BY DEF Save, Ends
<1>3. items[i] # NoItem /\ items[i] \in ItemRows
  BY <1>1 DEF Inv, TypeInv, FormInv
<1>4. items[i].version \in Nat \ {0} /\ status \in {"live", "archived"}
  BY <1>3, RowTypes
<1>5. PICK row : row = [status |-> status, version |-> items[i].version + 1]
  OBVIOUS
<1>6. row \in ItemRows /\ row.version = items[i].version + 1 /\ row # NoItem
  <2>1. items[i].version + 1 \in Nat \ {0}
    BY <1>4
  <2> QED
    BY <1>4, <1>5, <2>1, RowTypes DEF NoItem
<1>7. items' = [items EXCEPT ![i] = row]
  BY <1>1, <1>5 DEF Bumped
<1>8. /\ slot' \in [Requests -> Slots]
      /\ slot'[r] = Idle
      /\ \A q \in Requests \ {r} : /\ slot'[q].stage = slot[q].stage
                                    /\ slot'[q].on = slot[q].on
                                    /\ slot'[q].version = slot[q].version
      /\ \A q \in Requests \ {r} : slot'[q].old <=> slot[q].old \/ q \in concerned
  <2> HIDE DEF concerned
  <2> QED
    BY <1>2, EndsSlots DEF Inv
<1>9. TypeInv'
  BY <1>1, <1>6, <1>7, <1>8 DEF Inv, TypeInv
<1>10. items'[i] = row /\ \A j \in Items \ {i} : items'[j] = items[j]
  BY <1>7 DEF Inv, TypeInv
<1>11. LayoutInv'
  BY <1>3, <1>6, <1>10 DEF Inv, LayoutInv, Items
<1>12. PairingInv'
  BY <1>1 DEF Inv, PairingInv
<1>13. FormInv(r)' /\ DeviceInv(r)'
  BY <1>8, RowTypes DEF FormInv, DeviceInv, DeviceStages
<1>14. ASSUME NEW q \in Requests \ {r} PROVE FormInv(q)' /\ DeviceInv(q)'
  <2>1. /\ slot'[q].stage = slot[q].stage /\ slot'[q].on = slot[q].on /\ slot'[q].version = slot[q].version
        /\ slot[q].version \in Nat /\ slot[q] \in Slots
    BY <1>8 DEF Inv, TypeInv, Slots
  <2>2. FormInv(q)'
    <3>1. CASE slot[q].stage = "form" /\ slot[q].on = i
      <4>1. slot[q].version <= items[i].version
        BY <3>1 DEF Inv, FormInv
      <4>2. slot[q].version < items'[i].version
        BY <1>4, <1>6, <1>10, <2>1, <4>1
      <4>3. items'[i].version \in Nat
        BY <1>4, <1>6, <1>10
      <4> QED
        BY <1>6, <1>10, <2>1, <3>1, <4>2, <4>3 DEF FormInv
    <3>2. CASE slot[q].stage = "form" /\ slot[q].on # i
      <4>1. q \notin concerned
        BY <3>2
      <4>2. slot'[q].old => slot[q].old
        BY <1>8, <4>1
      <4>3. slot[q].on \in Items /\ items'[slot[q].on] = items[slot[q].on]
        BY <1>10, <3>2 DEF Inv, FormInv
      <4> QED
        BY <2>1, <3>2, <4>2, <4>3 DEF Inv, FormInv
    <3>3. CASE slot[q].stage # "form"
      BY <2>1, <3>3 DEF FormInv
    <3> QED
      BY <3>1, <3>2, <3>3
  <2>3. DeviceInv(q)'
    BY <1>1, <2>1 DEF Inv, DeviceInv
  <2> QED
    BY <2>2, <2>3
<1> QED
  BY <1>9, <1>11, <1>12, <1>13, <1>14 DEF Inv

\* The onboarding layout is created where there is no item yet, so nobody has
\* loaded one.
LEMMA SetupInv ==
    ASSUME Inv, NEW r \in Requests, createOnboardingLayout(r)
    PROVE  Inv'
<1>1. CASE Refuse(r)
  BY <1>1, RefuseInv
<1>2. CASE /\ items["floor"] = NoItem
           /\ items' = [i \in Items |-> [status |-> "live", version |-> 1]]
           /\ onboarded' = TRUE
           /\ Step(r, Idle)
           /\ UNCHANGED <<location, qrs, codes, devices>>
  <2>1. PICK row \in ItemRows : row = [status |-> "live", version |-> 1]
    BY RowTypes
  <2>2. row # NoItem
    BY <2>1 DEF NoItem
  <2>3. items' = [i \in Items |-> row]
    BY <1>2, <2>1
  <2>4. slot' = [slot EXCEPT ![r] = Idle]
    BY <1>2 DEF Step
  <2>5. TypeInv'
    BY <1>2, <2>3, <2>4, RowTypes DEF Inv, TypeInv
  <2>6. LayoutInv'
    BY <2>2, <2>3 DEF LayoutInv, Items
  <2>7. PairingInv'
    BY <1>2 DEF Inv, PairingInv
  <2>8. \A i \in Items : items[i] = NoItem
    BY <1>2 DEF Inv, LayoutInv, Items
  <2>9. ASSUME NEW q \in Requests PROVE FormInv(q)' /\ DeviceInv(q)'
    <3>1. CASE q = r
      <4>1. slot'[q].stage = "idle"
        BY <2>4, <3>1, RowTypes DEF Inv, TypeInv
      <4> QED
        BY <4>1 DEF FormInv, DeviceInv, DeviceStages
    <3>2. CASE q # r
      <4>1. slot'[q] = slot[q]
        BY <2>4, <3>2 DEF Inv, TypeInv
      <4>2. slot[q].stage # "form"
        BY <2>8 DEF Inv, FormInv
      <4> QED
        BY <1>2, <4>1, <4>2 DEF Inv, FormInv, DeviceInv
    <3> QED
      BY <3>1, <3>2
  <2> QED
    BY <2>5, <2>6, <2>7, <2>9 DEF Inv
<1> QED
  BY <1>1, <1>2 DEF createOnboardingLayout

\* A step that leaves items, codes, devices and clients alone.
LEMMA OtherRowsInv ==
    ASSUME Inv, TypeInv', UNCHANGED <<items, codes, devices, slot>>
    PROVE  Inv'
<1>1. LayoutInv' /\ PairingInv'
  BY DEF Inv, LayoutInv, PairingInv
<1>2. \A q \in Requests : FormInv(q)' /\ DeviceInv(q)'
  BY DEF Inv, FormInv, DeviceInv
<1> QED
  BY <1>1, <1>2 DEF Inv

\* The location is disabled or taken up again.
LEMMA LocationInv ==
    ASSUME Inv, NEW r \in Requests, NEW status \in {"active", "disabled"}, UpdateLocation(r, status)
    PROVE  Inv'
<1>1. TypeInv'
  BY DEF UpdateLocation, Inv, TypeInv
<1> QED
  BY <1>1, OtherRowsInv DEF UpdateLocation

-----------------------------------------------------------------------------
(* QR capabilities                                                         *)

\* FreeQR is an unused row as long as there is one.
LEMMA FreeQRType ==
    ASSUME TypeInv, \E q \in QRs : Unused(q)
    PROVE  FreeQR \in QRs /\ Unused(FreeQR)
<1> DEFINE R == OpToRel(<, Nat)
<1> DEFINE free == {q \in QRs : Unused(q)}
<1>1. free \subseteq Nat /\ free # {}
  BY DEF QRs
<1>2. PICK x \in free : \A y \in free : ~(<<y, x>> \in R)
  BY <1>1, NatLessThanWellFounded, WFMin
<1>3. \A a, b \in Nat : a < b => <<a, b>> \in R
  BY DEF OpToRel
<1>4. ASSUME NEW y \in QRs, Unused(y) PROVE x <= y
  <2>1. x \in Nat /\ y \in Nat /\ y \in free
    BY <1>1, <1>4
  <2>2. ~(y < x)
    BY <1>2, <1>3, <2>1
  <2> QED
    BY <2>1, <2>2
<1>5. \E q \in QRs : Unused(q) /\ \A p \in QRs : Unused(p) => q <= p
  BY <1>2, <1>4
<1> QED
  BY <1>5 DEF FreeQR

\* The capabilities change one row at a time, or time passes.
LEMMA CapabilityInv ==
    ASSUME Inv, NEW q \in QRs,
           \/ lapse(q)
           \/ \E r \in Requests : \/ ExportTableQRCapability(r)
                                  \/ RotateTableQRCapability(r, q) \/ RevokeTableQRCapability(r, q)
    PROVE  Inv'
<1>1. UNCHANGED <<location, onboarded, items, codes, devices, slot>>
  BY DEF ExportTableQRCapability, RotateTableQRCapability, RevokeTableQRCapability, lapse, layout
<1>2. qrs' \in [QRs -> QRStates]
  <2>1. ASSUME NEW r \in Requests, ExportTableQRCapability(r) PROVE qrs' \in [QRs -> QRStates]
    <3>1. FreeQR \in QRs
      BY <2>1, FreeQRType DEF ExportTableQRCapability, Inv
    <3> QED
      BY <2>1, <3>1 DEF ExportTableQRCapability, Inv, TypeInv, QRStates
  <2>2. ASSUME NEW r \in Requests, RotateTableQRCapability(r, q) PROVE qrs' \in [QRs -> QRStates]
    <3>1. FreeQR \in QRs
      BY <2>2, FreeQRType DEF RotateTableQRCapability, Inv
    <3>2. Successors(q) \subseteq QRStates
      BY DEF Successors, QRStates
    <3> QED
      BY <2>2, <3>1, <3>2 DEF RotateTableQRCapability, Inv, TypeInv, QRStates
  <2>3. ASSUME NEW r \in Requests, RevokeTableQRCapability(r, q)
        PROVE  qrs' \in [QRs -> QRStates]
    BY <2>3 DEF RevokeTableQRCapability, Inv, TypeInv, QRStates
  <2>4. CASE lapse(q)
    BY <2>4 DEF lapse, Inv, TypeInv, QRStates
  <2> QED
    BY <2>1, <2>2, <2>3, <2>4
<1>3. TypeInv'
  BY <1>1, <1>2 DEF Inv, TypeInv
<1> QED
  BY <1>1, <1>3, OtherRowsInv

-----------------------------------------------------------------------------
(* Pairing and devices                                                     *)

\* A code is created, or expires: it is spent on no device.
LEMMA CodesInv ==
    ASSUME Inv, NEW c \in Codes, codes[c] # "consumed",
           NEW state \in {"open", "expired"}, codes' = [codes EXCEPT ![c] = state],
           UNCHANGED <<layout, qrs, devices, slot>>
    PROVE  Inv'
<1>1. UNCHANGED <<location, onboarded, items, qrs, devices, slot>>
  BY DEF layout
<1>2. TypeInv'
  BY <1>1 DEF Inv, TypeInv
<1>3. LayoutInv'
  BY <1>1 DEF Inv, LayoutInv
<1>4. \A x \in Codes : codes[x] = "consumed" => codes'[x] = "consumed"
  BY DEF Inv, TypeInv
<1>5. \A d \in Devices : devices[d].code # None => devices[d].code \in Codes
  BY DEF Inv, TypeInv, DeviceRows
<1>6. PairingInv'
  BY <1>1, <1>4, <1>5 DEF Inv, PairingInv
<1>7. \A r \in Requests : FormInv(r)' /\ DeviceInv(r)'
  BY <1>1 DEF Inv, FormInv, DeviceInv
<1> QED
  BY <1>2, <1>3, <1>6, <1>7 DEF Inv

\* A device is paired by a code that nobody has used.
LEMMA PairInv ==
    ASSUME Inv, NEW r \in Requests, NEW d \in Devices, PairDevice(r, d)
    PROVE  Inv'
<1>1. PICK c : c = slot[r].on
  OBVIOUS
<1>2. /\ slot[r].stage = "code" /\ devices[d] = NoDevice /\ codes[c] = "open"
      /\ codes' = [codes EXCEPT ![c] = "consumed"]
      /\ devices' = [devices EXCEPT ![d] = [trust |-> "trusted", credential |-> "live", code |-> c]]
      /\ slot' = [slot EXCEPT ![r] = Idle]
      /\ UNCHANGED <<location, onboarded, items, qrs>>
  BY <1>1 DEF PairDevice, ConsumeDevicePairingCode, Step, layout
<1>3. c \in Codes /\ c # None
  BY <1>1, <1>2, VenueBounds DEF Inv, DeviceInv
<1>4. PICK row : row = [trust |-> "trusted", credential |-> "live", code |-> c]
  OBVIOUS
<1>5. row \in DeviceRows /\ row.code = c /\ row.trust = "trusted"
  BY <1>3, <1>4 DEF DeviceRows
<1>6. /\ devices' \in [Devices -> DeviceRows]
      /\ devices'[d] = row
      /\ \A e \in Devices \ {d} : devices'[e] = devices[e]
  BY <1>2, <1>4, <1>5 DEF Inv, TypeInv
<1>7. /\ codes' \in [Codes -> {"none", "open", "consumed", "expired"}]
      /\ codes'[c] = "consumed"
      /\ \A x \in Codes : codes[x] = "consumed" => codes'[x] = "consumed"
  BY <1>2, <1>3 DEF Inv, TypeInv
<1>8. TypeInv'
  BY <1>2, <1>6, <1>7, RowTypes DEF Inv, TypeInv
<1>9. LayoutInv'
  BY <1>2 DEF Inv, LayoutInv
<1>10. \A e \in Devices : devices[e].code # None => devices[e].code \in Codes
  BY DEF Inv, TypeInv, DeviceRows
<1>11. \A e \in Devices : devices[e].code # c
  BY <1>2, <1>3 DEF Inv, PairingInv
<1>12. PairingInv'
  BY <1>3, <1>5, <1>6, <1>7, <1>10, <1>11 DEF Inv, PairingInv
<1>13. ASSUME NEW q \in Requests PROVE FormInv(q)' /\ DeviceInv(q)'
  <2>1. CASE q = r
    <3>1. slot'[q].stage = "idle"
      BY <1>2, <2>1, RowTypes DEF Inv, TypeInv
    <3> QED
      BY <3>1 DEF FormInv, DeviceInv, DeviceStages
  <2>2. CASE q # r
    <3>1. slot'[q] = slot[q]
      BY <1>2, <2>2 DEF Inv, TypeInv
    <3>2. slot[q].stage = "seen" => devices'[slot[q].on].trust = "trusted"
      BY <1>5, <1>6 DEF Inv, DeviceInv, DeviceStages
    <3> QED
      BY <1>2, <3>1, <3>2 DEF Inv, FormInv, DeviceInv
  <2> QED
    BY <2>1, <2>2
<1> QED
  BY <1>8, <1>9, <1>12, <1>13 DEF Inv

\* A device is registered or trusted: its code stays what it was.
LEMMA DeviceRowInv ==
    ASSUME Inv, NEW d \in Devices, NEW row \in DeviceRows,
           devices' = [devices EXCEPT ![d] = row],
           row.code = devices[d].code,
           devices[d].trust = "trusted" => row.trust = "trusted",
           UNCHANGED <<layout, qrs, codes, slot>>
    PROVE  Inv'
<1>1. UNCHANGED <<location, onboarded, items, qrs, codes, slot>>
  BY DEF layout
<1>2. /\ \A e \in Devices : devices'[e].code = devices[e].code
      /\ \A e \in Devices : devices[e].trust = "trusted" => devices'[e].trust = "trusted"
  BY DEF Inv, TypeInv
<1>3. TypeInv'
  BY <1>1 DEF Inv, TypeInv
<1>4. LayoutInv'
  BY <1>1 DEF Inv, LayoutInv
<1>5. PairingInv'
  BY <1>1, <1>2 DEF Inv, PairingInv
<1>6. ASSUME NEW q \in Requests PROVE FormInv(q)' /\ DeviceInv(q)'
  BY <1>1, <1>2 DEF Inv, FormInv, DeviceInv, DeviceStages
<1> QED
  BY <1>3, <1>4, <1>5, <1>6 DEF Inv

\* A device asks to be trusted.
LEMMA RegisterInv ==
    ASSUME Inv, NEW r \in Requests, NEW d \in Devices, RegisterDevice(r, d)
    PROVE  Inv'
<1>1. PICK row : row = [trust |-> "pending", credential |-> "live", code |-> None]
  OBVIOUS
<1>2. row \in DeviceRows /\ row.code = None
  BY <1>1 DEF DeviceRows
<1>3. devices[d].code = None /\ devices[d].trust = "none"
  BY DEF RegisterDevice, NoDevice
<1>4. devices' = [devices EXCEPT ![d] = row] /\ UNCHANGED <<layout, qrs, codes, slot>>
  BY <1>1 DEF RegisterDevice
<1> QED
  BY <1>2, <1>3, <1>4, DeviceRowInv

\* A manager trusts a device.
LEMMA TrustInv ==
    ASSUME Inv, NEW r \in Requests, NEW d \in Devices, TrustDevice(r, d)
    PROVE  Inv'
<1>1. PICK row : row = [devices[d] EXCEPT !.trust = "trusted"]
  OBVIOUS
<1>2. devices[d] \in DeviceRows
  BY DEF Inv, TypeInv
<1>3. row \in DeviceRows /\ row.code = devices[d].code /\ row.trust = "trusted"
  BY <1>1, <1>2 DEF DeviceRows
<1>4. devices' = [devices EXCEPT ![d] = row] /\ UNCHANGED <<layout, qrs, codes, slot>>
  BY <1>1 DEF TrustDevice
<1> QED
  BY <1>3, <1>4, DeviceRowInv

\* The revocation waits for whoever holds the device: nobody is between the
\* two statements of an authentication of it.
LEMMA RevokeDeviceInv ==
    ASSUME Inv, NEW r \in Requests, RevokeDevice(r)
    PROVE  Inv'
<1>1. PICK d : d = slot[r].on
  OBVIOUS
<1>2. slot[r].stage = "revoking" /\ ~DeviceLocked(r, d)
  BY <1>1 DEF RevokeDevice
<1>3. d \in Devices
  BY <1>1, <1>2 DEF Inv, DeviceInv, DeviceStages
<1>4. CASE Refuse(r)
  BY <1>4, RefuseInv
<1>5. CASE /\ devices' = [devices EXCEPT ![d].trust = "revoked", ![d].credential = "revoked"]
           /\ Step(r, Idle)
           /\ UNCHANGED <<layout, qrs, codes>>
  <2>1. /\ slot' = [slot EXCEPT ![r] = Idle]
        /\ UNCHANGED <<location, onboarded, items, qrs, codes>>
    BY <1>5 DEF Step, layout
  <2>2. devices[d] \in DeviceRows
    BY <1>3 DEF Inv, TypeInv
  <2>3. PICK row : row = [[devices[d] EXCEPT !.trust = "revoked"] EXCEPT !.credential = "revoked"]
    OBVIOUS
  <2>4. row \in DeviceRows /\ row.code = devices[d].code
    BY <2>2, <2>3 DEF DeviceRows
  <2>5. devices' = [devices EXCEPT ![d] = row]
    BY <1>3, <1>5, <2>3 DEF Inv, TypeInv
  <2>6. /\ devices' \in [Devices -> DeviceRows]
        /\ \A e \in Devices : devices'[e].code = devices[e].code
        /\ \A e \in Devices \ {d} : devices'[e] = devices[e]
    BY <1>3, <2>4, <2>5 DEF Inv, TypeInv
  <2>7. TypeInv'
    BY <2>1, <2>6, RowTypes DEF Inv, TypeInv
  <2>8. LayoutInv'
    BY <2>1 DEF Inv, LayoutInv
  <2>9. PairingInv'
    BY <2>1, <2>6 DEF Inv, PairingInv
  <2>10. slot'[r].stage = "idle" /\ \A q \in Requests \ {r} : slot'[q] = slot[q]
    BY <2>1, RowTypes DEF Inv, TypeInv
  <2>11. FormInv(r)' /\ DeviceInv(r)'
    BY <2>10 DEF FormInv, DeviceInv, DeviceStages
  <2>12. ASSUME NEW q \in Requests \ {r} PROVE FormInv(q)' /\ DeviceInv(q)'
    <3>1. FormInv(q)'
      BY <2>1, <2>10 DEF Inv, FormInv
    <3>2. slot[q].stage = "seen" => slot[q].on \in Devices \ {d}
      BY <1>2 DEF DeviceLocked, Inv, DeviceInv, DeviceStages
    <3>3. DeviceInv(q)'
      BY <2>6, <2>10, <3>2 DEF Inv, DeviceInv
    <3> QED
      BY <3>1, <3>3
  <2> QED
    BY <2>7, <2>8, <2>9, <2>11, <2>12 DEF Inv
<1> QED
  BY <1>1, <1>4, <1>5 DEF RevokeDevice

\* Steps that change nothing but where one client is.
LEMMA LookupInv ==
    ASSUME Inv, NEW r \in Requests,
           \/ OwnerSetup(r)
           \/ \E q \in QRs : resolveQRCapability(r, q)
           \/ \E c \in Codes : GetDevicePairingCodeByPrefix(r, c)
           \/ \E d \in Devices : GetDeviceCredentialByPrefix(r, d) \/ RevokeDeviceCredentials(r, d)
           \/ MarkDeviceSeen(r) \/ TouchDeviceCredential(r)
    PROVE  Inv'
<1>1. CASE OwnerSetup(r)
  <2>1. Step(r, At("setup", None)) /\ UNCHANGED <<layout, qrs, codes, devices>>
    BY <1>1 DEF OwnerSetup
  <2> QED
    BY <2>1, AtInv DEF DeviceStages
<1>2. ASSUME NEW q \in QRs, resolveQRCapability(r, q) PROVE Inv'
  <2>1. /\ Step(r, At("resolved", q)) /\ UNCHANGED <<layout, qrs, codes, devices>>
    BY <1>2 DEF resolveQRCapability
  <2> QED
    BY <2>1, AtInv DEF DeviceStages
<1>3. ASSUME NEW c \in Codes, GetDevicePairingCodeByPrefix(r, c) PROVE Inv'
  <2>1. Step(r, At("code", c)) /\ UNCHANGED <<layout, qrs, codes, devices>>
    BY <1>3 DEF GetDevicePairingCodeByPrefix
  <2> QED
    BY <2>1, AtInv DEF DeviceStages
<1>4. ASSUME NEW d \in Devices, GetDeviceCredentialByPrefix(r, d) PROVE Inv'
  <2>1. Step(r, At("found", d)) /\ UNCHANGED <<layout, qrs, codes, devices>>
    BY <1>4 DEF GetDeviceCredentialByPrefix
  <2> QED
    BY <2>1, AtInv DEF DeviceStages
<1>5. ASSUME NEW d \in Devices, RevokeDeviceCredentials(r, d) PROVE Inv'
  <2>1. Step(r, At("revoking", d)) /\ UNCHANGED <<layout, qrs, codes, devices>>
    BY <1>5 DEF RevokeDeviceCredentials
  <2> QED
    BY <2>1, AtInv DEF DeviceStages
<1>6. CASE MarkDeviceSeen(r)
  <2>1. PICK d : d = slot[r].on
    OBVIOUS
  <2>2. d \in Devices
    BY <1>6, <2>1 DEF MarkDeviceSeen, Inv, DeviceInv, DeviceStages
  <2>3. CASE StillTrusted(d)
    <3>1. /\ Step(r, At("seen", d)) /\ UNCHANGED <<layout, qrs, codes, devices>>
          /\ devices[d].trust = "trusted"
      BY <1>6, <2>1, <2>3 DEF MarkDeviceSeen, StillTrusted
    <3> QED
      BY <2>2, <3>1, AtInv DEF DeviceStages
  <2>4. CASE ~StillTrusted(d)
    BY <1>6, <2>1, <2>4, RefuseInv DEF MarkDeviceSeen
  <2> QED
    BY <2>3, <2>4
<1>7. CASE TouchDeviceCredential(r)
  <2>1. PICK d : d = slot[r].on
    OBVIOUS
  <2>2. d \in Devices
    BY <1>7, <2>1 DEF TouchDeviceCredential, Inv, DeviceInv, DeviceStages
  <2>3. Step(r, At("authenticated", d)) /\ UNCHANGED <<layout, qrs, codes, devices>>
    BY <1>7, <2>1 DEF TouchDeviceCredential
  <2> QED
    BY <2>2, <2>3, AtInv DEF DeviceStages
<1> QED
  BY <1>1, <1>2, <1>3, <1>4, <1>5, <1>6, <1>7

\* Steps after which a client is idle and nothing else has changed.
LEMMA LeaveInv ==
    ASSUME Inv, NEW r \in Requests,
           \/ versionConflict(r) \/ tableGone(r) \/ codeSpent(r)
           \/ CreateGuestRequest(r) \/ CancelGuestRequest(r)
           \/ RecordDeviceHeartbeat(r) \/ getDisplaySnapshot(r) \/ rollback(r)
    PROVE  Inv'
<1>1. Refuse(r)
  BY DEF versionConflict, tableGone, codeSpent, CreateGuestRequest, CancelGuestRequest,
         RecordDeviceHeartbeat, getDisplaySnapshot, rollback
<1> QED
  BY <1>1, RefuseInv

\* The edits of the layout.
LEMMA EditInv ==
    ASSUME Inv, NEW r \in Requests,
           \/ UpdateFloor(r) \/ UpdateZone(r) \/ UpdateTable(r) \/ ArchiveZone(r)
           \/ \E status \in {"live", "archived"} : changeFloorActive(r, status) \/ changeTableActive(r, status)
    PROVE  Inv'
<1>1. "floor" \in Items /\ "zone" \in Items /\ "table" \in Items
  BY DEF Items
<1>2. CASE UpdateFloor(r)
  BY <1>1, <1>2, SaveInv DEF UpdateFloor
<1>3. CASE UpdateZone(r)
  BY <1>1, <1>3, SaveInv DEF UpdateZone
<1>4. CASE UpdateTable(r)
  BY <1>1, <1>4, SaveInv DEF UpdateTable
<1>5. CASE ArchiveZone(r)
  BY <1>1, <1>5, SaveInv DEF ArchiveZone
<1>6. ASSUME NEW status \in {"live", "archived"}, changeFloorActive(r, status) PROVE Inv'
  BY <1>1, <1>6, SaveInv DEF changeFloorActive
<1>7. ASSUME NEW status \in {"live", "archived"}, changeTableActive(r, status) PROVE Inv'
  BY <1>1, <1>7, SaveInv DEF changeTableActive
<1> QED
  BY <1>2, <1>3, <1>4, <1>5, <1>6, <1>7

\* Every step keeps the invariant.
LEMMA NextInv == Inv /\ [Next]_vars => Inv'
<1> SUFFICES ASSUME Inv, [Next]_vars PROVE Inv'
  OBVIOUS
<1>1. ASSUME NEW r \in Requests, CreateFloor(r) \/ CreateZone(r) \/ CreateTable(r) PROVE Inv'
  BY <1>1, CreateInv DEF CreateFloor, CreateZone, CreateTable, Items
<1>2. ASSUME NEW r \in Requests, \E i \in Items : EditorSnapshot(r, i) PROVE Inv'
  BY <1>2, EditorInv
<1>3. ASSUME NEW r \in Requests,
             \/ UpdateFloor(r) \/ UpdateZone(r) \/ UpdateTable(r) \/ ArchiveZone(r)
             \/ \E status \in {"live", "archived"} : changeFloorActive(r, status) \/ changeTableActive(r, status)
      PROVE  Inv'
  BY <1>3, EditInv
<1>4. ASSUME NEW r \in Requests, \E status \in {"active", "disabled"} : UpdateLocation(r, status) PROVE Inv'
  BY <1>4, LocationInv
<1>5. ASSUME NEW r \in Requests, createOnboardingLayout(r) PROVE Inv'
  BY <1>5, SetupInv
<1>6. ASSUME NEW q \in QRs,
             \/ lapse(q)
             \/ \E r \in Requests : \/ ExportTableQRCapability(r)
                                    \/ RotateTableQRCapability(r, q) \/ RevokeTableQRCapability(r, q)
      PROVE  Inv'
  BY <1>6, CapabilityInv
<1>7. ASSUME NEW r \in Requests, NEW c \in Codes, CreatePairingCode(r, c) PROVE Inv'
  BY <1>7, CodesInv DEF CreatePairingCode
<1>8. ASSUME NEW c \in Codes, expire(c) PROVE Inv'
  BY <1>8, CodesInv DEF expire
<1>9. ASSUME NEW r \in Requests,
             \E d \in Devices : PairDevice(r, d) \/ RegisterDevice(r, d) \/ TrustDevice(r, d)
      PROVE  Inv'
  BY <1>9, PairInv, RegisterInv, TrustInv
<1>10. ASSUME NEW r \in Requests, RevokeDevice(r) PROVE Inv'
  BY <1>10, RevokeDeviceInv
<1>11. ASSUME NEW r \in Requests,
              \/ OwnerSetup(r)
              \/ \E q \in QRs : resolveQRCapability(r, q)
              \/ \E c \in Codes : GetDevicePairingCodeByPrefix(r, c)
              \/ \E d \in Devices : GetDeviceCredentialByPrefix(r, d) \/ RevokeDeviceCredentials(r, d)
              \/ MarkDeviceSeen(r) \/ TouchDeviceCredential(r)
       PROVE  Inv'
  BY <1>11, LookupInv
<1>12. ASSUME NEW r \in Requests,
              \/ versionConflict(r) \/ tableGone(r) \/ codeSpent(r)
              \/ CreateGuestRequest(r) \/ CancelGuestRequest(r)
              \/ RecordDeviceHeartbeat(r) \/ getDisplaySnapshot(r) \/ rollback(r)
       PROVE  Inv'
  BY <1>12, LeaveInv
<1>13. ASSUME NEW r \in Requests, ExportTableQRCapability(r) PROVE Inv'
  BY <1>13, CapabilityInv DEF ExportTableQRCapability
<1>14. CASE UNCHANGED vars
  BY <1>14 DEF vars, Inv, TypeInv, LayoutInv, PairingInv, FormInv, DeviceInv
<1> QED
  BY <1>1, <1>2, <1>3, <1>4, <1>5, <1>6, <1>7, <1>8, <1>9, <1>10, <1>11, <1>12, <1>13, <1>14 DEF Next

-----------------------------------------------------------------------------
(* Theorems                                                                *)

\* The invariant holds in every reachable state.
THEOREM Invariance == Spec => []Inv
BY InitInv, NextInv, PTL DEF Spec

\* PairOnce: one pairing code never pairs two devices, however many clients
\* have looked it up while it was open.
THEOREM CodesPairOnce == Spec => []PairOnce
<1>1. Inv => PairOnce
  <2> SUFFICES ASSUME Inv, NEW c \in Codes
               PROVE  Cardinality({d \in Devices : devices[d].code = c}) <= 1
    BY DEF PairOnce
  <2> DEFINE paired == {d \in Devices : devices[d].code = c}
  <2>1. c # None
    BY VenueBounds
  <2>2. \A d, e \in paired : d = e
    BY <2>1 DEF Inv, PairingInv
  <2>3. CASE paired = {}
    BY <2>3, FS_EmptySet
  <2>4. CASE paired # {}
    <3>1. PICK d : paired = {d}
      BY <2>2, <2>4
    <3>2. Cardinality({d}) = 1
      BY FS_Singleton
    <3> QED
      BY <3>1, <3>2
  <2> QED
    BY <2>3, <2>4
<1> QED
  BY <1>1, Invariance, PTL

\* What a step does to the devices and to the stages of the clients.
LEMMA RevokedStep ==
    ASSUME Inv, Next, NEW d \in Devices, devices[d].trust = "revoked"
    PROVE  /\ devices'[d] = devices[d]
           /\ \A r \in Requests : slot'[r].stage \in {"seen", "authenticated"} /\ slot'[r].on = d =>
                slot[r].stage = "authenticated" /\ slot[r].on = d
<1> DEFINE P == /\ devices'[d] = devices[d]
                /\ \A r \in Requests : slot'[r].stage \in {"seen", "authenticated"} /\ slot'[r].on = d =>
                     slot[r].stage = "authenticated" /\ slot[r].on = d
<1>0. \A r \in Requests : slot[r].stage = "seen" => slot[r].on # d
  BY DEF Inv, DeviceInv
<1>1. ASSUME UNCHANGED slot, devices'[d] = devices[d] PROVE P
  BY <1>0, <1>1
<1>2. ASSUME NEW r \in Requests, NEW s \in Slots, slot' = [slot EXCEPT ![r] = s],
             s.stage \in {"seen", "authenticated"} => s.on # d, devices'[d] = devices[d]
      PROVE  P
  BY <1>0, <1>2 DEF Inv, TypeInv
<1>3. ASSUME NEW r \in Requests, Refuse(r) PROVE P
  <2>1. slot' = [slot EXCEPT ![r] = Idle] /\ devices'[d] = devices[d]
    BY <1>3 DEF Refuse, Step
  <2> QED
    BY <2>1, <1>2, RowTypes
<1>4. ASSUME NEW r \in Requests, NEW concerned, devices'[d] = devices[d],
             slot' = [q \in Requests |-> IF q = r THEN Idle
                                        ELSE [slot[q] EXCEPT !.old = @ \/ q \in concerned]]
      PROVE  P
  <2>1. /\ slot'[r].stage = "idle"
        /\ \A q \in Requests \ {r} : slot'[q].stage = slot[q].stage /\ slot'[q].on = slot[q].on
    <3>1. TypeInv
      BY DEF Inv
    <3>2. /\ slot' \in [Requests -> Slots]
          /\ slot'[r] = Idle
          /\ \A q \in Requests \ {r} : /\ slot'[q].stage = slot[q].stage
                                        /\ slot'[q].on = slot[q].on
                                        /\ slot'[q].version = slot[q].version
          /\ \A q \in Requests \ {r} : slot'[q].old <=> slot[q].old \/ q \in concerned
      BY <1>4, <3>1, EndsSlots
    <3> QED
      BY <3>2, RowTypes
  <2> QED
    BY <1>0, <1>4, <2>1
<1>5. ASSUME NEW r \in Requests, NEW i \in Items, NEW status, Save(r, i, status) PROVE P
  <2>1. PICK c : c = {q \in Requests : slot[q].stage = "form" /\ slot[q].on = i}
    OBVIOUS
  <2>2. /\ devices'[d] = devices[d]
        /\ slot' = [q \in Requests |-> IF q = r THEN Idle
                                       ELSE [slot[q] EXCEPT !.old = @ \/ q \in c]]
    BY <1>5, <2>1 DEF Save, Ends
  <2> QED
    BY <2>2, <1>4
<1>6. ASSUME NEW r \in Requests, \E status \in {"active", "disabled"} : UpdateLocation(r, status) PROVE P
  BY <1>1, <1>6 DEF UpdateLocation
<1>7. ASSUME NEW q \in QRs,
             lapse(q) \/ \E r \in Requests : RotateTableQRCapability(r, q) \/ RevokeTableQRCapability(r, q)
      PROVE  P
  BY <1>1, <1>7 DEF lapse, RotateTableQRCapability, RevokeTableQRCapability
<1>8. ASSUME NEW r \in Requests, RevokeDevice(r) PROVE P
  <2>1. PICK e : e = slot[r].on
    OBVIOUS
  <2>2. e \in Devices
    BY <1>8, <2>1 DEF RevokeDevice, Inv, DeviceInv, DeviceStages
  <2>3. CASE devices[e].trust # "revoked"
    <3>1. /\ devices' = [devices EXCEPT ![e].trust = "revoked", ![e].credential = "revoked"]
          /\ slot' = [slot EXCEPT ![r] = Idle]
      BY <1>8, <2>1, <2>3 DEF RevokeDevice, Step
    <3>2. d # e
      BY <2>3
    <3>3. devices'[d] = devices[d]
      BY <3>1, <3>2 DEF Inv, TypeInv
    <3> QED
      BY <3>1, <3>3, <1>2, RowTypes
  <2>4. CASE devices[e].trust = "revoked"
    BY <1>3, <1>8, <2>1, <2>4 DEF RevokeDevice
  <2> QED
    BY <2>3, <2>4
<1>9. ASSUME NEW r \in Requests, NEW stage \in {"form", "setup", "resolved", "code"} \cup DeviceStages,
             NEW on \in Items \cup QRs \cup Codes \cup Devices \cup {None},
             Step(r, At(stage, on)), stage \in {"seen", "authenticated"} => on # d,
             UNCHANGED devices
      PROVE  P
  <2>1. PICK s : s = At(stage, on)
    OBVIOUS
  <2>2. s \in Slots /\ s.stage = stage /\ s.on = on
    BY <2>1, AtType
  <2>3. slot' = [slot EXCEPT ![r] = s]
    BY <1>9, <2>1 DEF Step
  <2> QED
    BY <1>2, <1>9, <2>2, <2>3
<1>10. ASSUME NEW r \in Requests, NEW i \in Items, EditorSnapshot(r, i) PROVE P
  <2>1. PICK a : a = At("form", i)
    OBVIOUS
  <2>2. a \in Slots /\ a.stage = "form"
    BY <2>1, AtType
  <2>3. items[i].version \in Nat
    BY <1>10, RowTypes DEF EditorSnapshot, Inv, TypeInv
  <2>4. PICK s : s = [a EXCEPT !.version = items[i].version]
    OBVIOUS
  <2>5. s \in Slots /\ s.stage = "form"
    BY <2>2, <2>3, <2>4 DEF Slots
  <2>6. slot' = [slot EXCEPT ![r] = s] /\ devices'[d] = devices[d]
    BY <1>10, <2>1, <2>4 DEF EditorSnapshot, Step
  <2> QED
    BY <1>2, <2>5, <2>6
<1>11. ASSUME NEW r \in Requests, MarkDeviceSeen(r) \/ TouchDeviceCredential(r) PROVE P
  <2>1. PICK e : e = slot[r].on
    OBVIOUS
  <2>2. e \in Devices
    BY <1>11, <2>1 DEF MarkDeviceSeen, TouchDeviceCredential, Inv, DeviceInv, DeviceStages
  <2>3. CASE MarkDeviceSeen(r) /\ StillTrusted(e)
    <3>1. e # d /\ Step(r, At("seen", e)) /\ UNCHANGED devices
      BY <2>1, <2>3 DEF MarkDeviceSeen, StillTrusted
    <3> QED
      BY <2>2, <3>1, <1>9 DEF DeviceStages
  <2>4. CASE MarkDeviceSeen(r) /\ ~StillTrusted(e)
    BY <1>3, <2>1, <2>4 DEF MarkDeviceSeen
  <2>5. CASE TouchDeviceCredential(r)
    <3>1. e # d /\ Step(r, At("authenticated", e)) /\ UNCHANGED devices
      BY <1>0, <2>1, <2>5 DEF TouchDeviceCredential
    <3> QED
      BY <2>2, <3>1, <1>9 DEF DeviceStages
  <2> QED
    BY <1>11, <2>3, <2>4, <2>5
<1>12. ASSUME NEW r \in Requests, NEW e \in Devices,
              GetDeviceCredentialByPrefix(r, e) \/ RevokeDeviceCredentials(r, e)
       PROVE  P
  BY <1>9, <1>12 DEF GetDeviceCredentialByPrefix, RevokeDeviceCredentials, DeviceStages
<1>13. ASSUME NEW r \in Requests,
              \/ OwnerSetup(r)
              \/ \E q \in QRs : resolveQRCapability(r, q)
              \/ \E c \in Codes : GetDevicePairingCodeByPrefix(r, c)
       PROVE  P
  BY <1>9, <1>13 DEF OwnerSetup, resolveQRCapability, GetDevicePairingCodeByPrefix
<1>14. ASSUME NEW r \in Requests, NEW e \in Devices,
              PairDevice(r, e) \/ RegisterDevice(r, e) \/ TrustDevice(r, e)
       PROVE  P
  <2>1. e # d
    BY <1>14 DEF PairDevice, RegisterDevice, TrustDevice, NoDevice
  <2>2. devices'[d] = devices[d]
    BY <1>14, <2>1 DEF PairDevice, RegisterDevice, TrustDevice, Inv, TypeInv
  <2>3. UNCHANGED slot \/ slot' = [slot EXCEPT ![r] = Idle]
    BY <1>14 DEF PairDevice, RegisterDevice, TrustDevice, Step
  <2> QED
    BY <1>1, <1>2, <2>2, <2>3, RowTypes
<1>15. ASSUME NEW r \in Requests,
              \/ CreateFloor(r) \/ CreateZone(r) \/ CreateTable(r) \/ ExportTableQRCapability(r)
              \/ \E c \in Codes : CreatePairingCode(r, c)
       PROVE  P
  BY <1>1, <1>15 DEF CreateFloor, CreateZone, CreateTable, CreateItem, ExportTableQRCapability, CreatePairingCode
<1>16. ASSUME NEW c \in Codes, expire(c) PROVE P
  BY <1>1, <1>16 DEF expire
<1>17. ASSUME NEW r \in Requests, createOnboardingLayout(r) PROVE P
  <2>1. Refuse(r) \/ (slot' = [slot EXCEPT ![r] = Idle] /\ devices'[d] = devices[d])
    BY <1>17 DEF createOnboardingLayout, Step
  <2> QED
    BY <1>2, <1>3, <2>1, RowTypes
<1>18. ASSUME NEW r \in Requests,
              \/ UpdateFloor(r) \/ UpdateZone(r) \/ UpdateTable(r) \/ ArchiveZone(r)
              \/ \E status \in {"live", "archived"} : changeFloorActive(r, status) \/ changeTableActive(r, status)
       PROVE  P
  BY <1>5, <1>18 DEF UpdateFloor, UpdateZone, UpdateTable, ArchiveZone, changeFloorActive, changeTableActive, Items
<1>19. ASSUME NEW r \in Requests,
              \/ versionConflict(r) \/ tableGone(r) \/ codeSpent(r)
              \/ CreateGuestRequest(r) \/ CancelGuestRequest(r)
              \/ RecordDeviceHeartbeat(r) \/ getDisplaySnapshot(r) \/ rollback(r)
       PROVE  P
  BY <1>3, <1>19 DEF versionConflict, tableGone, codeSpent, CreateGuestRequest, CancelGuestRequest,
                     RecordDeviceHeartbeat, getDisplaySnapshot, rollback
<1> HIDE DEF P
<1>20. P
  BY <1>6, <1>7, <1>8, <1>10, <1>11, <1>12, <1>13, <1>14, <1>15, <1>16, <1>17, <1>18, <1>19 DEF Next
<1> QED
  BY <1>20 DEF P

\* RevokedIsOut: once a revocation has committed, the device keeps it and
\* nobody passes authentication with its credential any more.
THEOREM RevokedStaysOut == Spec => RevokedIsOut
<1>1. Inv /\ [Next]_vars =>
        [\A d \in Devices : devices[d].trust = "revoked" =>
           /\ devices'[d] = devices[d]
           /\ \A r \in Requests : slot'[r].stage \in {"seen", "authenticated"} /\ slot'[r].on = d =>
                slot[r].stage = "authenticated" /\ slot[r].on = d]_vars
  BY RevokedStep
<1> QED
  BY <1>1, Invariance, PTL DEF Spec, RevokedIsOut

\* A client that saves is up to date; everyone else's form stays open.
LEMMA EditStep ==
    ASSUME Inv, Next, NEW r \in Requests, slot[r].stage = "form", items' # items, slot'[r] = Idle
    PROVE  ~slot[r].old
<1>1. Idle.stage = "idle"
  BY RowTypes
<1>2. ASSUME NEW q \in Requests, NEW i \in Items, NEW status, Save(q, i, status) PROVE ~slot[r].old
  <2>1. CASE q = r
    <3>1. slot[r].on = i /\ items[i].version = slot[r].version
      BY <1>2, <2>1 DEF Save, VersionMatches
    <3>2. slot[r].version \in Nat
      BY DEF Inv, TypeInv, Slots
    <3> QED
      BY <3>1, <3>2 DEF Inv, FormInv
  <2>2. CASE q # r
    <3>1. PICK c : c = {p \in Requests : slot[p].stage = "form" /\ slot[p].on = i}
      OBVIOUS
    <3>2. slot' = [p \in Requests |-> IF p = q THEN Idle
                                     ELSE [slot[p] EXCEPT !.old = @ \/ p \in c]]
      BY <1>2, <3>1 DEF Save, Ends
    <3>3. TypeInv
      BY DEF Inv
    <3>4. /\ slot' \in [Requests -> Slots]
          /\ slot'[q] = Idle
          /\ \A p \in Requests \ {q} : /\ slot'[p].stage = slot[p].stage
                                        /\ slot'[p].on = slot[p].on
                                        /\ slot'[p].version = slot[p].version
          /\ \A p \in Requests \ {q} : slot'[p].old <=> slot[p].old \/ p \in c
      BY <3>2, <3>3, EndsSlots
    <3>5. slot'[r].stage = slot[r].stage
      BY <2>2, <3>4
    <3> QED
      BY <1>1, <3>5
  <2> QED
    BY <2>1, <2>2
<1>3. ASSUME NEW q \in Requests, CreateFloor(q) \/ CreateZone(q) \/ CreateTable(q) PROVE FALSE
  BY <1>1, <1>3 DEF CreateFloor, CreateZone, CreateTable, CreateItem
<1>4. ASSUME NEW q \in Requests, createOnboardingLayout(q) PROVE FALSE
  <2>1. slot[q].stage = "setup" /\ slot' = [slot EXCEPT ![q] = Idle]
    BY <1>4 DEF createOnboardingLayout, Refuse, Step
  <2>2. q # r
    BY <2>1
  <2>3. slot'[r] = slot[r]
    BY <2>1, <2>2 DEF Inv, TypeInv
  <2> QED
    BY <1>1, <2>3
<1>5. ASSUME NEW q \in Requests,
             \/ UpdateFloor(q) \/ UpdateZone(q) \/ UpdateTable(q) \/ ArchiveZone(q)
             \/ \E status \in {"live", "archived"} : changeFloorActive(q, status) \/ changeTableActive(q, status)
      PROVE  ~slot[r].old
  BY <1>2, <1>5 DEF UpdateFloor, UpdateZone, UpdateTable, ArchiveZone, changeFloorActive, changeTableActive, Items
<1>6. ASSUME NEW q \in Requests,
             \/ \E i \in Items : EditorSnapshot(q, i)
             \/ versionConflict(q) \/ OwnerSetup(q)
             \/ \E status \in {"active", "disabled"} : UpdateLocation(q, status)
             \/ ExportTableQRCapability(q)
             \/ \E p \in QRs : \/ RotateTableQRCapability(q, p) \/ RevokeTableQRCapability(q, p)
                               \/ resolveQRCapability(q, p)
             \/ CreateGuestRequest(q) \/ tableGone(q) \/ CancelGuestRequest(q)
      PROVE  FALSE
  BY <1>6 DEF EditorSnapshot, versionConflict, Refuse, layout, UpdateLocation, OwnerSetup,
              ExportTableQRCapability, RotateTableQRCapability, RevokeTableQRCapability, resolveQRCapability,
              CreateGuestRequest, tableGone, CancelGuestRequest
<1>7. ASSUME NEW q \in Requests,
             \/ \E c \in Codes : CreatePairingCode(q, c) \/ GetDevicePairingCodeByPrefix(q, c)
             \/ codeSpent(q)
             \/ \E d \in Devices : \/ PairDevice(q, d) \/ RegisterDevice(q, d) \/ TrustDevice(q, d)
                                   \/ GetDeviceCredentialByPrefix(q, d) \/ RevokeDeviceCredentials(q, d)
             \/ MarkDeviceSeen(q) \/ TouchDeviceCredential(q) \/ RecordDeviceHeartbeat(q)
             \/ getDisplaySnapshot(q) \/ RevokeDevice(q) \/ rollback(q)
      PROVE  FALSE
  BY <1>7 DEF CreatePairingCode, GetDevicePairingCodeByPrefix, codeSpent, PairDevice, RegisterDevice, TrustDevice,
              GetDeviceCredentialByPrefix, RevokeDeviceCredentials, MarkDeviceSeen, TouchDeviceCredential,
              RecordDeviceHeartbeat, getDisplaySnapshot, RevokeDevice, rollback, Refuse, layout
<1>8. CASE (\E c \in Codes : expire(c)) \/ \E q \in QRs : lapse(q)
  BY <1>8 DEF expire, lapse, layout
<1> QED
  BY <1>3, <1>4, <1>5, <1>6, <1>7, <1>8 DEF Next

\* NoLostEdit: whoever saves a floor, zone or table has seen its latest
\* version.
THEOREM EditsAreNotLost == Spec => NoLostEdit
<1>1. Inv /\ [Next]_vars =>
        [\A r \in Requests : slot[r].stage = "form" /\ items' # items /\ slot'[r] = Idle => ~slot[r].old]_vars
  BY EditStep
<1> QED
  BY <1>1, Invariance, PTL DEF Spec, NoLostEdit
=============================================================================
