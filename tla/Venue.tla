-------------------------------- MODULE Venue --------------------------------
(***************************************************************************)
(* One location: its layout (a floor, a zone on it, a table in it), the QR *)
(* capabilities of the table and the devices paired with the location.     *)
(* Editors load an item, think, and save it under the version they saw.    *)
(* Guests and devices present a credential that is looked up in one        *)
(* transaction and used in the next; what guests and staff then do at the  *)
(* table is in Operations.  A revocation locks the credentials of a device *)
(* before the device, an authentication the other way round.               *)
(***************************************************************************)
EXTENDS Naturals, FiniteSets

CONSTANTS
    Requests,       \* clients in the middle of something
    Devices,
    Codes,          \* pairing codes
    None,
    MaxQR,          \* bound: rows of table_qr_capabilities
    MaxVersion      \* bound: version of an item

ASSUME VenueBounds ==
    /\ MaxQR \in Nat \ {0} /\ MaxVersion \in Nat \ {0}
    /\ None \notin Devices \cup Codes
    /\ IsFiniteSet(Devices) /\ IsFiniteSet(Codes)

VARIABLES
    location,   \* status of the location
    onboarded,  \* organisations.onboarded_at is set
    items,      \* floors, zones, tables
    qrs,        \* table_qr_capabilities of the table
    codes,      \* device_pairing_codes
    devices,    \* devices with their credential
    slot        \* what each client is in the middle of

vars == <<location, onboarded, items, qrs, codes, devices, slot>>

-----------------------------------------------------------------------------
(* Rows                                                                    *)

Items == {"floor", "zone", "table"}
QRs == 1..MaxQR
NoItem == [status |-> "none", version |-> 0]
NoDevice == [trust |-> "none", credential |-> "none", code |-> None]

\* A zone belongs to a floor, a table to a zone, live or archived.
ParentExists(i) ==
    CASE i = "floor" -> TRUE
      [] i = "zone" -> items["floor"] # NoItem
      [] i = "table" -> items["zone"] # NoItem

\* on: the item, capability, code or device.  old: the item has changed since
\* the form was loaded (history).
Idle == [stage |-> "idle", on |-> None, version |-> 0, old |-> FALSE]
At(stage, on) == [Idle EXCEPT !.stage = stage, !.on = on]

Init ==
    /\ location = "active" /\ onboarded = FALSE
    /\ items = [i \in Items |-> NoItem]
    /\ qrs = [q \in QRs |-> "none"]
    /\ codes = [c \in Codes |-> "none"]
    /\ devices = [d \in Devices |-> NoDevice]
    /\ slot = [r \in Requests |-> Idle]

layout == <<location, onboarded, items>>
Step(r, change) == slot' = [slot EXCEPT ![r] = change]
Refuse(r) == Step(r, Idle) /\ UNCHANGED <<layout, qrs, codes, devices>>

-----------------------------------------------------------------------------
(* Layout                                                                  *)

CreateItem(r, i) ==
    /\ slot[r] = Idle
    /\ items[i] = NoItem /\ ParentExists(i)
    /\ items' = [items EXCEPT ![i] = [status |-> "live", version |-> 1]]
    /\ UNCHANGED <<location, onboarded, qrs, codes, devices, slot>>

\* An editor loads an item, live or archived.
EditorSnapshot(r, i) ==
    /\ slot[r] = Idle /\ items[i] # NoItem
    /\ Step(r, [At("form", i) EXCEPT !.version = items[i].version])
    /\ UNCHANGED <<layout, qrs, codes, devices>>

\* UPDATE ... WHERE version = the one the editor saw.  Otherwise
\* ErrVersionConflict.
VersionMatches(r) == items[slot[r].on].version = slot[r].version

\* Mutant: archiving an item does not count as a change of it.
MutantArchiveUncounted(r, status) ==
    [status |-> status,
     version |-> IF items[slot[r].on].status = "live" /\ status = "archived"
                   THEN items[slot[r].on].version ELSE items[slot[r].on].version + 1]
Bumped(r, status) == [status |-> status, version |-> items[slot[r].on].version + 1]

\* r has saved: whoever else has the item in a form is now behind.
Ends(r, i) ==
    slot' = [q \in Requests |->
                IF q = r THEN Idle
                ELSE [slot[q] EXCEPT !.old = @ \/ (slot[q].stage = "form" /\ slot[q].on = i)]]

Save(r, i, status) ==
    /\ slot[r].stage = "form" /\ slot[r].on = i
    /\ slot[r].version < MaxVersion
    /\ VersionMatches(r)
    /\ items' = [items EXCEPT ![i] = Bumped(r, status)]
    /\ Ends(r, i)
    /\ UNCHANGED <<location, onboarded, qrs, codes, devices>>

CreateFloor(r) == CreateItem(r, "floor")
CreateZone(r) == CreateItem(r, "zone")
CreateTable(r) == CreateItem(r, "table")

UpdateFloor(r) == Save(r, "floor", items["floor"].status)
UpdateZone(r) == Save(r, "zone", items["zone"].status)
UpdateTable(r) == Save(r, "table", items["table"].status)

\* Neither a floor with live zones nor an occupied table is kept from being
\* archived.  A zone is never restored.
changeFloorActive(r, status) == Save(r, "floor", status)
changeTableActive(r, status) == Save(r, "table", status)
ArchiveZone(r) == Save(r, "zone", "archived")

versionConflict(r) ==
    /\ slot[r].stage = "form" /\ slot[r].on \in Items
    /\ ~VersionMatches(r)
    /\ Refuse(r)

\* The location has no version: whoever saves last decides its status.
UpdateLocation(r, status) ==
    /\ slot[r] = Idle
    /\ location' = status
    /\ UNCHANGED <<onboarded, items, qrs, codes, devices, slot>>

\* The owner's first visit: checked, then the whole layout in one go.
OwnerSetup(r) ==
    /\ slot[r] = Idle /\ ~onboarded
    /\ Step(r, At("setup", None))
    /\ UNCHANGED <<layout, qrs, codes, devices>>

\* A floor of that slug that is there already undoes it all.
createOnboardingLayout(r) ==
    /\ slot[r].stage = "setup"
    /\ \/ /\ items["floor"] = NoItem
          /\ items' = [i \in Items |-> [status |-> "live", version |-> 1]]
          /\ onboarded' = TRUE
          /\ Step(r, Idle)
          /\ UNCHANGED <<location, qrs, codes, devices>>
       \/ items["floor"] # NoItem /\ Refuse(r)

-----------------------------------------------------------------------------
(* QR capabilities                                                         *)

Unused(q) == qrs[q] = "none"
FreeQR == CHOOSE q \in QRs : Unused(q) /\ \A p \in QRs : Unused(p) => q <= p

ExportTableQRCapability(r) ==
    /\ slot[r] = Idle /\ items["table"] # NoItem /\ \E q \in QRs : Unused(q)
    /\ qrs' = [qrs EXCEPT ![FreeQR] = "live"]
    /\ UNCHANGED <<layout, codes, devices, slot>>

\* Revoked, or expires_at has passed.
Over(q) == qrs[q] = "over"

\* The successor takes over expires_at.  One that is over is succeeded all the
\* same, by one that may have expired.
Successors(q) == IF Over(q) THEN {"live", "over"} ELSE {"live"}
RotateTableQRCapability(r, q) ==
    /\ slot[r] = Idle /\ ~Unused(q) /\ \E p \in QRs : Unused(p)
    /\ \E state \in Successors(q) : qrs' = [qrs EXCEPT ![q] = "over", ![FreeQR] = state]
    /\ UNCHANGED <<layout, codes, devices, slot>>

\* Nothing happens to one that has been revoked before.
RevokeTableQRCapability(r, q) ==
    /\ slot[r] = Idle /\ ~Unused(q)
    /\ qrs' = [qrs EXCEPT ![q] = "over"]
    /\ UNCHANGED <<layout, codes, devices, slot>>

\* Its expires_at passes.
lapse(q) ==
    /\ qrs[q] = "live"
    /\ qrs' = [qrs EXCEPT ![q] = "over"]
    /\ UNCHANGED <<layout, codes, devices, slot>>

ListActiveTableQRCapabilitiesByPrefix(q) ==
    qrs[q] = "live" /\ location = "active" /\ items["table"].status = "live"

resolveQRCapability(r, q) ==
    /\ slot[r] = Idle /\ ListActiveTableQRCapabilitiesByPrefix(q)
    /\ Step(r, At("resolved", q))
    /\ UNCHANGED <<layout, qrs, codes, devices>>

\* The guest's transaction, without another look at the capability or at the
\* status of the location; its rows are those of Operations.  A request locks
\* the row of a live table.
LockTableOccupancy == items["table"].status = "live"
CreateGuestRequest(r) ==
    /\ slot[r].stage = "resolved" /\ LockTableOccupancy
    /\ Refuse(r)
tableGone(r) ==
    /\ slot[r].stage = "resolved" /\ ~LockTableOccupancy
    /\ Refuse(r)

\* A cancellation looks at the guest's request alone, not at its table.
CancelGuestRequest(r) ==
    /\ slot[r].stage = "resolved"
    /\ Refuse(r)

-----------------------------------------------------------------------------
(* Pairing                                                                 *)

CreatePairingCode(r, c) ==
    /\ slot[r] = Idle /\ codes[c] = "none"
    /\ codes' = [codes EXCEPT ![c] = "open"]
    /\ UNCHANGED <<layout, qrs, devices, slot>>

expire(c) ==
    /\ codes[c] = "open"
    /\ codes' = [codes EXCEPT ![c] = "expired"]
    /\ UNCHANGED <<layout, qrs, devices, slot>>

GetDevicePairingCodeByPrefix(r, c) ==
    /\ slot[r] = Idle /\ codes[c] = "open" /\ location = "active"
    /\ Step(r, At("code", c))
    /\ UNCHANGED <<layout, qrs, codes, devices>>

\* Mutant: a code looked up while it was open is good.
MutantTwice(c) == codes[c] # "none"
ConsumeDevicePairingCode(c) == codes[c] = "open"

\* Register, consume, trust and issue the credential in one transaction.
PairDevice(r, d) ==
    LET c == slot[r].on
    IN  /\ slot[r].stage = "code" /\ devices[d] = NoDevice
        /\ ConsumeDevicePairingCode(c)
        /\ codes' = [codes EXCEPT ![c] = "consumed"]
        /\ devices' = [devices EXCEPT ![d] = [trust |-> "trusted", credential |-> "live", code |-> c]]
        /\ Step(r, Idle)
        /\ UNCHANGED <<layout, qrs>>

codeSpent(r) ==
    /\ slot[r].stage = "code"
    /\ ~ConsumeDevicePairingCode(slot[r].on)
    /\ Refuse(r)

\* A device registered without a code waits to be trusted.
RegisterDevice(r, d) ==
    /\ slot[r] = Idle /\ devices[d] = NoDevice
    /\ devices' = [devices EXCEPT ![d] = [trust |-> "pending", credential |-> "live", code |-> None]]
    /\ UNCHANGED <<layout, qrs, codes, slot>>

-----------------------------------------------------------------------------
(* Device credentials                                                      *)

\* Row locks kept from one statement to the end of the transaction.
DeviceLocked(r, d) == \E q \in Requests \ {r} : slot[q].stage = "seen" /\ slot[q].on = d
CredentialLocked(r, d) == \E q \in Requests \ {r} : slot[q].stage = "revoking" /\ slot[q].on = d

TrustDevice(r, d) ==
    /\ slot[r] = Idle /\ devices[d].trust \in {"pending", "trusted"} /\ ~DeviceLocked(r, d)
    /\ devices' = [devices EXCEPT ![d].trust = "trusted"]
    /\ UNCHANGED <<layout, qrs, codes, slot>>

GetDeviceCredentialByPrefix(r, d) ==
    /\ slot[r] = Idle /\ devices[d].credential = "live" /\ devices[d].trust = "trusted"
    /\ Step(r, At("found", d))
    /\ UNCHANGED <<layout, qrs, codes, devices>>

\* Mutant: a device that was trusted a moment ago is taken as trusted.
MutantStillTrusted(d) == TRUE
StillTrusted(d) == devices[d].trust = "trusted"

MarkDeviceSeen(r) ==
    /\ slot[r].stage = "found" /\ ~DeviceLocked(r, slot[r].on)
    /\ IF StillTrusted(slot[r].on)
         THEN Step(r, At("seen", slot[r].on)) /\ UNCHANGED <<layout, qrs, codes, devices>>
         ELSE Refuse(r)

TouchDeviceCredential(r) ==
    /\ slot[r].stage = "seen" /\ ~CredentialLocked(r, slot[r].on)
    /\ Step(r, At("authenticated", slot[r].on))
    /\ UNCHANGED <<layout, qrs, codes, devices>>

\* The heartbeat looks at the device again, other device requests do not.
RecordDeviceHeartbeat(r) ==
    /\ slot[r].stage = "authenticated" /\ ~DeviceLocked(r, slot[r].on)
    /\ devices[slot[r].on].trust = "trusted"
    /\ Refuse(r)
getDisplaySnapshot(r) ==
    /\ slot[r].stage = "authenticated"
    /\ Refuse(r)

RevokeDeviceCredentials(r, d) ==
    /\ slot[r] = Idle /\ devices[d] # NoDevice /\ ~CredentialLocked(r, d)
    /\ Step(r, At("revoking", d))
    /\ UNCHANGED <<layout, qrs, codes, devices>>

RevokeDevice(r) ==
    LET d == slot[r].on
    IN  /\ slot[r].stage = "revoking" /\ ~DeviceLocked(r, d)
        /\ IF devices[d].trust # "revoked"
             THEN /\ devices' = [devices EXCEPT ![d].trust = "revoked", ![d].credential = "revoked"]
                  /\ Step(r, Idle)
                  /\ UNCHANGED <<layout, qrs, codes>>
             ELSE Refuse(r)

\* A statement fails, a deadlock is broken, the client goes away.
rollback(r) == slot[r] # Idle /\ Refuse(r)

-----------------------------------------------------------------------------
Next ==
    \/ \E r \in Requests :
        \/ CreateFloor(r) \/ CreateZone(r) \/ CreateTable(r)
        \/ \E i \in Items : EditorSnapshot(r, i)
        \/ UpdateFloor(r) \/ UpdateZone(r) \/ UpdateTable(r) \/ ArchiveZone(r)
        \/ \E status \in {"live", "archived"} : changeFloorActive(r, status) \/ changeTableActive(r, status)
        \/ versionConflict(r)
        \/ \E status \in {"active", "disabled"} : UpdateLocation(r, status)
        \/ OwnerSetup(r) \/ createOnboardingLayout(r)
        \/ ExportTableQRCapability(r)
        \/ \E q \in QRs : \/ RotateTableQRCapability(r, q) \/ RevokeTableQRCapability(r, q)
                          \/ resolveQRCapability(r, q)
        \/ CreateGuestRequest(r) \/ tableGone(r) \/ CancelGuestRequest(r)
        \/ \E c \in Codes : CreatePairingCode(r, c) \/ GetDevicePairingCodeByPrefix(r, c)
        \/ codeSpent(r)
        \/ \E d \in Devices : \/ PairDevice(r, d) \/ RegisterDevice(r, d) \/ TrustDevice(r, d)
                              \/ GetDeviceCredentialByPrefix(r, d) \/ RevokeDeviceCredentials(r, d)
        \/ MarkDeviceSeen(r) \/ TouchDeviceCredential(r) \/ RecordDeviceHeartbeat(r)
        \/ getDisplaySnapshot(r) \/ RevokeDevice(r) \/ rollback(r)
    \/ \E c \in Codes : expire(c)
    \/ \E q \in QRs : lapse(q)

Spec == Init /\ [][Next]_vars

-----------------------------------------------------------------------------
(* Properties                                                              *)

\* A pairing code is used once, however many clients present it at the same
\* time.
PairOnce ==
    \A c \in Codes : Cardinality({d \in Devices : devices[d].code = c}) <= 1

\* A revoked device stays out: nobody who presents its credential passes
\* authentication once the revocation has committed.
RevokedIsOut ==
    [][\A d \in Devices : devices[d].trust = "revoked" =>
         /\ devices'[d] = devices[d]
         /\ \A r \in Requests : slot'[r].stage \in {"seen", "authenticated"} /\ slot'[r].on = d =>
                slot[r].stage = "authenticated" /\ slot[r].on = d]_vars

\* No edit of a floor, zone or table is saved over a change its editor has
\* not seen.
NoLostEdit ==
    [][\A r \in Requests : slot[r].stage = "form" /\ items' # items /\ slot'[r] = Idle => ~slot[r].old]_vars
=============================================================================
