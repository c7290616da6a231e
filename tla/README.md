# Seatd: a TLA+ verification project

Seatd runs a restaurant floor: staff seat and clear tables, guests ask for
service through a QR code at the table, and every change is shown on waiters'
phones and wall displays.  The core is a Go backend over PostgreSQL
(READ COMMITTED, `pgx`).  This directory holds TLA+ models of the parts of it
that are hard to test, the TLC runs that check them, and TLAPS proofs that
carry the main results to every size of the system.

## The system and its parts

| part | state it keeps | operations | interacts through |
|---|---|---|---|
| operations (`internal/domain/operations`) | `table_occupancy`, `table_sessions`, `assist_requests`, `api_idempotency_records`, `operational_events`, `outbox_records` | occupy, clear, request / acknowledge / resolve / cancel an assist, guest request, guest cancel, QR capabilities | rows and row locks; an event and its outbox records in every command's transaction |
| outbox worker (`internal/outbox`, `apps/worker`) | `outbox_records`, `consumer_event_records` | claim a batch, run consumers, settle, retry, fail | claims by timestamp; one goroutine per record; the batch's context |
| realtime hub (`internal/realtime/hub.go`, `websocket.go`) | subscribers, a bounded queue for each, counters | subscribe, publish, unsubscribe | consumer of `realtime.operations`; websockets |
| realtime sync (`internal/realtime/sync.go`, `http.go`) | none of its own: cursors handed to clients | location snapshot, events after a cursor | reads the rows operations commits |
| waiter app (`apps/waiter`) | what the device shows, the cursor, the commands not yet answered | optimistic command, flush, merge of snapshots, events and answers, conflict review | HTTP API, sync endpoints, websocket |
| memberships (`internal/domain/identity/memberships.go`, platform handlers) | members of organisations and locations | create, change role, disable; invite, suspend, reactivate, reassign owners | authorisation of every request; the connection pool |
| logins and sessions (`internal/domain/identity/service.go`, platform handlers) | external identities, platform administrators and their invitations, web sessions | log in, invite, revoke, change status, rotate, log out | authorisation; a deferred trigger |
| devices (`internal/domain/identity/service.go`) | devices, credentials, pairing codes | pair, register, trust, authenticate, revoke | authorisation of device requests |
| integrations (`internal/domain/integrations`) | connections, mappings, webhook inbox, discrepancies, runs | receive, replay, reconcile | commands of operations |
| analytics (`internal/domain/analytics`) | metrics per hour, day and service period, checkpoints, rebuild runs | project an event, rebuild a range | consumer of `analytics.operations`; rows of operations |
| configuration (`internal/domain/configuration`) | floors, zones, tables, guest actions | versioned create / update / archive | tables that operations works on |
| HTTP API (`internal/httpapi`) | rate limiter | decode, authorise, run a command, encode | the domain services |

What makes the system hard: commands of many devices meet on the same rows
with versions they read long ago; an answer may be lost and the command sent
again; a command is several statements, each with a snapshot of its own, any
of which may fail; events leave the database through a queue whose workers
crash, run late and cancel each other; and clients put together what they show
from snapshots, event pages, pushed messages and answers that arrive in any
order.  `PROJECT.json` lists these hazards one by one, at the line where they
bite, with the properties that watch them.

What makes each part correct:

- *operations*: occupancy and sessions agree; no update is lost; a command id
  takes effect once and always gets the same answer; the event stream has every
  version of every row once; the guest rules hold although no index enforces
  them; concurrency is invisible, that is, the transactions implement atomic
  commands.
- *outbox*: nothing is marked processed that a consumer has not handled;
  nothing is given up before its attempts are used; nothing is forgotten.
- *realtime*: a connected client misses nothing silently; a snapshot is never
  older than the cursor it comes with; paging through events misses nothing.
- *waiter app*: what is shown never goes back in time, and agrees with the
  server once everything has arrived.
- *memberships, logins, devices*: an organisation keeps an owner and the
  platform an administrator; what was revoked or logged out is out; a code or
  an invitation is used once, by whom and for what it was meant.
- *configuration*: no edit is lost; a guest's capability counts while it is
  active.
- *integrations*: an external event takes effect once and never over something
  newer; a correction does not touch a table where a guest is waiting.
- *analytics*: once the events are handled, the metrics of a day are those of
  the rows, whatever the order and however often.

## Plan

In the order of what the system depends on most.  Steps 1 to 10 are done.

1. `FloorTypes`, `Floor`, `Operations`: the commands, as transactions, against
   the atomic floor they implement; `Operations_proofs`.
2. `Outbox`: delivery of their events; `Outbox_proofs`.
3. `Hub`: fan-out to connected clients.
4. `Sync`: snapshots, cursors and event pages.
5. `Memberships`: the last-owner rule under concurrent changes, ownership
   transfer, the connection pool; `Memberships_proofs`.
6. `Accounts` and `Venue`: logins, invitations, administrators and web sessions;
   layout edits, QR capabilities, pairing codes and devices.
7. `Integrations`: webhook inbox and reconciliation against staff and guests;
   `Integrations_proofs`.
8. `Analytics`: projection and rebuild of days as a function of their rows, with
   the day and window arithmetic.
9. Proofs of every safety property of `Hub`, `Sync`, `Accounts` and `Venue`;
   `SomeoneGoesOn` in `Memberships_proofs`.
10. `Consumers_proofs`: the hub's theorems with those of `Analytics`.
11. Next: `Waiter`: the app's optimistic commands and their answers on top of
    `Sync`'s reader.

## Modules

| module | models | checked by |
|---|---|---|
| `FloorTypes` | rows of tables, sessions and assists; the assist lifecycle | (extended by the next two) |
| `Floor` | what the operations service promises, as atomic commands | refinement target of `Operations` |
| `Operations` | the commands as concurrent transactions | `MCOperations`, `Operations_proofs` |
| `Outbox` | workers, claims, consumers, retries | `MCOutbox`, `Outbox_proofs` |
| `Hub` | connections, bounded queues, publishers | `MCHub`, `Consumers_proofs` |
| `Sync` | snapshots, cursors, event pages, one reader | itself, `Sync_proofs` |
| `Memberships` | members of an organisation and a location, changed by owners and by the platform | `MCMemberships`, `Memberships_proofs` |
| `Accounts` | logins, invitations, platform administrators, web sessions | `MCAccounts`, `Accounts_proofs` |
| `Venue` | layout, QR capabilities, pairing codes and devices of a location | `MCVenue`, `Venue_proofs` |
| `Integrations` | webhook inbox, replays, reconciliation, mapping | `MCIntegrations`, `Integrations_proofs` |
| `Analytics` | projection and rebuild of daily metrics | `MCAnalytics`, `Consumers_proofs` |

Definitions keep the names of the functions they model; `PROJECT.json` maps
each to its lines.  Operators called `Mutant...` are wrong versions of the
definition that follows them; they are used by no specification and show that
a property depends on the line they change.

### Operations

State: the committed rows (`occupancy`, `sessions`, `assists`), the idempotency
records (`idem`), the events of each row (`events`) and the successful answers
(`replies`), the last two as history; and for each request in flight its place
in the transaction (`pc`), its command (`req`) and the rows it has written but
not committed (`work`).

A request goes `begin` (look up the idempotency record), `execute` (lock, check
and write), for guest requests `pending` and `create`, for guest cancellations
`update`, then `commit`.  Statements are merged into one action where the lock
held makes it impossible for another transaction to tell them apart: the lock
of a row, the checks on it and the writes to it.  They are separate where
another transaction can come in between: the lookup of the idempotency record,
the two guest queries on `assist_requests`, which no lock covers, the unlocked
read of a guest cancellation and its `UPDATE`, and the commit.  The insert of
the idempotency record is part of the commit action: until then nobody sees it,
and a unique violation is `duplicateCommand`.  `rollback` may end any request
at any place, and `Respond` may lose the answer.

Abstractions.  `None` as a command id is a request without one, or with one
that is never used again.  The payload hash is the pair of version and action
it is computed from.  The cooldown of a guest action is the set `cooling` of
requests younger than the cooldown: the latest finished request is recent
exactly when some finished request is, since the requests of a party for an
action follow each other.  A disabled action, an inactive table or an unknown
row are rejections, which `rollback` covers.  The QR capability is resolved in
a transaction of its own before the command.  `expires_at` of idempotency
records is read by no code, and nothing deletes them.

### Outbox

State: the rows of `outbox_records` and `consumer_event_records`; `waiting`,
the records whose `available_at` or claim lies ahead; a goroutine for each
worker and record with its place in the list of consumers; the batches that
have been cancelled; and `delivered`, how often a consumer was called
(history).  `SKIP LOCKED` makes any part of the claimable records a possible
batch.  The limit on goroutines is covered by arbitrary interleaving.
`locked_by` is never read and left out.  A commit that succeeds but reports an
error is a success followed by a crash or a cancellation.  All records are
pending at first; a record that is claimed late is one that came late.

### Hub

State: the subscribed clients, the stage of each `serveWebSocket`, the
`closeOnce`, the closed channels and the queue of each client, the stage of
each `Publish` with the subscribers it still has to offer its event to, and
the counters.  `Subscribe` puts the client into the map under the lock, and
`countAccepted` counts it after the unlock; in between publishers find it and
may close it.  `Unsubscribe` is three steps, as the client leaves the map,
its channels are closed and it is counted, in this order; a second caller waits
for the first.  The message a
`WriteLoop` is writing counts as still in the queue.  Each call of `Publish` is
an event of its own, as the hub does not look at ids.

### Sync

State: rows with status and version, the committed events, the uncommitted
event of each locked row, and the reader's request, view and cursor.  A stamp
stands for the pair `(occurred_at, id)`, a cursor for its encoding, and 0 for
the empty string that `Encode` makes of no event and `DecodeCursor` reads as
none.  `occurred_at` is the time of the API server before the commit, so two
events may commit in the other order; `MaxLate` bounds how often.  The reader
merges like the waiter app without commands of its own: a snapshot replaces
what it shows, an event is ignored unless it is newer, a closed assist is
removed, and events are asked for only with a cursor.

### What the next five have in common

A request, worker or job has a `slot` (`job`) that says how far it has come and
what it has read.  Statements are merged where a lock hides what is between
them, and are separate where another transaction may commit: at READ COMMITTED
what a statement read may be out of date in the next.  Where the code leaves
such a gap open, the model does too.  A history field of the slot remembers
that somebody came in between: `old` (`Venue`, a form) and `overtaken`
(`Integrations`, a table looked at), which properties say has no effect, and
`stale` (`Memberships`, `Accounts`), which two theorems name as the cause of a
loss.  No guard reads these fields.  Every request may fail at any stage
(`rollback`, `fails`, `crash`).

### Memberships

State: a row for each member of the organisation and of the location
(`member_ref` is unique) and the requests.  A tenant request reads and checks
in one step and writes in the next; `SELECT ... FOR UPDATE` (`LockFree`) keeps
the row in between for updates and disabling, but `requireAnotherOrganisationOwner`
counts without a lock, and `create` reads without a lock.  A platform request first
opens the transaction of its handler (`outer`), then the one of the identity
service, on a second connection, and closes the first after it (`audit`); a
request that holds one connection may wait for its second.  `PoolSize` is the
pool's `MaxConns`, and nothing bounds the requests by it: outer transactions
alone can take the whole pool (`PoolExhausted`), where all stand still until
their contexts end.  Roles that nothing here tells apart are one role each.
Init is an organisation as `PlatformProvisionTenant` leaves it.

### Accounts

State: the people whose external identity is linked, the rows of
`platform_memberships`, the pending invitation of each address, web sessions
and requests.  A login is `ResolveExternalIdentity`,
`consumePendingPlatformGrant` and its commit, then `CreateWebSession` in
another transaction; a rotation is validate, create, revoke in three.  A change
of an administrator's status counts without a lock, writes, and is checked by
the deferred trigger `platform_admin_lockout_guard` at commit time:
`CheckConstraints` and `Commit` are two steps because two transactions may both
be past the check.  A logout finds the session by its secret and does nothing
when that session is over: after a rotation the old secret ends nothing.
Hashes and expiry times are not computed: a session expires at any time.  A
session is the person's and not the browser's.

### Venue

State: status of the location, the floor, zone and table with status and
version, the QR capabilities of the table, pairing codes, devices with their
credential, and clients.  An editor loads an item and saves, archives or
restores it under the version it saw, which every one of these counts up
(`Bumped`).
A capability is live until it is revoked or its `expires_at` passes (`lapse`);
its successor takes over `expires_at`, so that the successor of one that is over
may have expired at once.  A guest request resolves the capability in one
transaction and runs its command in the next, which looks neither at the
capability nor at the location again; creating a request locks the row of a live
table, cancelling one does not look at the table (the rows these commands write
are those of `Operations`).  A device request authenticates in one transaction
and acts in the next.  A
revocation locks credentials before the device, an authentication the device
before the credential; the cycle is reachable and ends by `rollback`, as
PostgreSQL ends it.

### Integrations

State: rows of tables, tables with an active assist, the mapping of the
vendor's table, the webhook inbox, how often deliveries of an event were
applied (history), the connection's status and the workers.  A delivery inserts
the inbox row (`ON CONFLICT DO NOTHING`) and goes on only if it did; it then
looks up the mapping and the table, sends the command with the version it saw
and marks the row, each in a transaction of its own.  A replay goes on whatever
the row says.  A run asks the vendor, which may not answer, and looks for
assists in between.  A lookup or command that fails (`fails`) marks the webhook
failed, or finishes the run as failed and the connection as degraded; after a
`crash` nothing is marked.  The
command is that of `Operations`, reduced to its check of the version.
Discrepancies, counters of runs and checkpoints are written and read by no
decision, so they are left out.

### Analytics

State: local time, the stamps of sessions and assists, the active tables,
`occurred_at` of each event, the events in the order of their commits (`log`)
and those not yet handled for the last time, the service period, the projected
days and the jobs.  Instants are ticks of the location's
local time, and a UTC instant lies `Offset` ticks before; `calendarDate` is the
date an instant has in UTC, which is what `rebuildRange` takes from the
midnights it is given.  A row is stamped by the database (`now()`, the start of
the transaction) and its event by the API server (`time.Now()`, later): `Stamps`
lets each be any of the last `Lag` ticks, in either order, as two clocks may
differ, and both become visible at the commit.  A
session that would end before it starts is refused by the CHECK of its table; an
acknowledgement before its request is possible and not counted.  Only the rows of
tables that are active when a metric is computed count (`Scoped`); archiving a
table sends no event and takes no lock that commands hold, so that a command
that has begun commits at an archived table.  Metrics are the sets of what is
counted (seconds of occupancy as pairs of session and tick, sessions, assists)
with the tables they are of, so that equality of metrics is equality of what they
stand for.  A resolution is counted like an acknowledgement.  The projection reads
the tables' part and the period's part in different statements, holds the
checkpoint row from its first write, and replaces whole days at its commit.
`Commit` may leave the event pending: the outbox did not record it and will
deliver it again.

## Runs

| run | shows |
|---|---|
| `operations_tables` | occupancy and sessions in step; every version has its event; only the command that named a version replaces it; a command id takes effect once and has one answer, under concurrent duplicates, reuse for another command, rollbacks and lost answers; every command ends |
| `operations_guest` | one pending request per party and action, guest requests belong to a session, and the whole implements `Floor` |
| `outbox_batches` | processed means handled by all, in order; failed means exhausted; until a claim expires under a live worker: one goroutine per record, settled stays, no second call after a recorded one; every record is settled |
| `hub_gateway` | nothing is lost silently, nothing is sent on a closed channel, the counters balance, a peer that does not read stops nobody |
| `sync_pages` | a cursor claims no more than the reader shows; cursor and tables never go back; paging ends with everything seen |
| `sync_late_commit` | violation: an event that commits late is skipped for ever |
| `memberships_requests` | row locks never stop every request, not even while connections are scarce; all stand still only when platform requests alone have taken the whole pool, which the run reaches |
| `accounts_logins` | what a login consumes is still pending, with its role, until it commits |
| `venue_credentials` | a code pairs one device; a revoked device passes no authentication; no edit is lost |
| `integrations_inbox` | deliveries of an event take effect once; nothing is written over a newer change |
| `analytics_days` | west of UTC: once all events are handled, each day with an event shows the location as of a commit no earlier than the last event of that day, whatever the order, repetitions, rebuilds and stamps |
| `analytics_east` | violation: east of UTC the event's own day is not projected |

Two runs end in a violation because the code and its documents disagree.
`sync_late_commit`: the recovery protocol tells clients to go by the cursor, but
an event stamped before and committed after the event of a cursor is in no later
page.  The next full snapshot shows it.  `analytics_east`: `docs/analytics-metrics.md`
says that timestamps are projected against the location's timezone, but
`Handle` passes UTC midnights on and `rebuildRange` takes their date as it is in
UTC, so that east of UTC the day before is projected.  A rebuild asked for by
date is right, which is how such a day is repaired.

### What the code leaves open

The models reach the following.  The properties of the passing runs do not
speak of it, but for the exhausted pool, which `SomeoneGoesOn` names.

- *The last owner.*  `requireAnotherOrganisationOwner` (`memberships.go`) counts
  without a lock: two requests that disable, suspend or demote two owners count
  each other's.  And `PlatformReassignOwnership` to somebody who is a member with
  another role keeps that role and disables the old owner, with no second request
  involved.  `docs/platform-admin-management-plan.md:84` asks for a guard that
  rejects both.  `LastOwner` proves that there is no third way.
- *The last administrator.*  Two transactions that disable two administrators can
  both pass the deferred trigger before either commits, although the trigger
  (`000015_platform_admin_membership.up.sql:100`) says that at least one is
  required.  `AdminLossIsExplained` proves that there is no other way.
- *Guests.*  A capability that is revoked or expires, or a location that is
  disabled, after the capability was resolved stops neither the request nor the
  cancellation under way, and a cancellation does not need an active table;
  `docs/api-authz-rules.md:13` asks for an active token, location and table.
- *Corrections.*  An assist requested between `hasActiveAssists` and the
  correcting command is not noticed, as it does not change the version of the
  occupancy row; `docs/integration-authority-rules.md:18` limits corrections to
  tables without an active assist.
- *Midnight.*  A request that the database stamps before midnight and whose event
  the API server stamps after it has the next day projected; its own day counts it
  when something else has that day projected again, while
  `docs/analytics-metrics.md:43` counts by `requested_at`.
- *The pool.*  As many platform requests as the pool has connections
  (`pool.go`: ten) can each hold one and wait for a second.  `PoolSuffices` proves
  that more connections than requests are enough.
- *Logout and rotation.*  A rotation cut short, or a logout in the middle of one,
  leaves the new session alive.

Bounds.  Two clients, workers or connections are the least that race; a third
adds no new kind of step, as all interaction is through rows, locks and
queues that two already contend for.  Two tables (or one table with two
sessions and two assists) are the least at which an identifier can be mixed
up.  `SessionBound` and `AssistBound` hold back a command that would find no
identifier left, so that the model does not stop a transaction that has
arrived.  `MaxLag` is how old a version a client may send, `MaxFaults`,
`MaxSlow`, `MaxStamp` and `MaxLate` are counted events.  Two people and three
requests over a pool of three connections are the least at which a request that
waits for a connection, one that waits for a row and one that holds both meet,
and at which the pool can be exhausted; one event is enough for the
inbox, whose rows do not meet; two tables let the mapping move; two sessions
hold a session and the one it is rotated into, or two administrators; four
versions of a table leave room for a change before, during and after a
correction.  In `Venue` every item can be changed once (`MaxVersion`), so that a
form is saved, or comes too late; what happens to an item changed more often is
left to the theorem.  In `Analytics` the last tick of a day and the first of the
next, with `Lag` 1, put the stamps of a row and of its event on either side of
midnight; the overnight period has its two parts on two days; `MaxCommits` 2
allows a session that starts and ends, an assist that is requested and
acknowledged, or one of each, and `MaxChanges` 2 allows a table to be archived
and restored, or a period to be created and changed.  Symmetry is used for
safety runs only, over values no definition tells apart.
`CHECK_DEADLOCK FALSE` is used for `Hub` only, where every peer may be gone.

Fairness.  The five later modules state safety only.  Operations: strong fairness of a request's steps, because
PostgreSQL queues those who wait for a row lock.  Outbox: weak fairness of the
polling loop, of goroutines and of time; faults, slow workers and failing
consumers are not fair, only bounded or possible.  Hub: weak fairness of
goroutines; no peer has to connect, read or leave.  Sync: transactions end,
and the reader keeps asking and gets an answer again and again; that is a
hypothesis of the claim, which is about such a reader (the app asks on every
reconnect).

## Proofs

The proofs hold for every number of tables, sessions, assists, clients,
commands, records, workers, consumers, connections, events, people and devices,
under the named assumptions of the modules: identifiers of different kinds are
different, configuration values are in range, what is counted (members,
requests, connections, devices, codes) is finite, consumers have different
names.  In each module
`Invariance` is the inductive invariant `Inv`, from which the theorems about the
properties of the runs follow.

`Operations_proofs`.  The inductive invariant `Inv` is made of the type
invariant; `SessionInv`: an occupied row points to an active session of its
table and all active sessions are pointed to; `AssistInv`: an assist
that exists has a table and a version; the two guest rules; for each request
`ClientInv`: what is in `work` is what the locked row still says plus the
change, which is why nobody needs to check again at the commit; and for each
pair of requests `Exclusive`: no two hold one row or have chosen one new
identifier.  `ClientInv` is what makes the properties inductive: they only
change at commits, and a commit installs rows computed several steps earlier.
The guest rule needs that no other transaction can have inserted a pending
request of the same party between the query and the commit, which follows
from the occupancy lock alone.  `LogInv` (events, idempotency records and
answers) is proved on top of `Inv`, and the refinement `Refinement` maps a
commit to one step of `Floor` and everything else to a stutter.

`Outbox_proofs`.  `Inv`: the type invariant; a consumer's `processed` means it
was called; a goroutine at consumer *n* has all consumers before *n* called;
processed and failed records were handled by all or exhausted.  The theorems
`PromptExclusive`, `PromptSettled` and `PromptOnce` are about the time until a
claim outlives its timeout with its worker still at it (`slow = 0`) and use
`PromptInv`: at most one goroutine for a record, only while it is `processing`
and its claim holds, and what it was told about its consumer is still so.
After such an expiry they are false, as a second worker may take the record.

`Memberships_proofs`.  `Inv`: the type invariant; `OuterInv` and `WriteInv`: what
kind of row a request of each kind is about; and `FreshInv`: what a request that
is not stale has read still holds, namely that a row to be created is not
enabled and that an owner to be taken away has another beside him (`Spare`).
It is inductive because rows change at commits only, and a commit marks every
other request that is about to write.  `LastOwner` follows: a writer that is
neither stale nor reassigning to a present member leaves an owner, so that the
two gaps above are all there are.
`NoDeadlock` (`SomeoneGoesOn`) needs two facts more.  `LockInv`: a row has one
lock, only a reassignment goes on to a second row, and the row a reassignment
has locked stays an enabled owner's.  `NoCycle`: there are ranks such that a
reassignment waits only for one of lower rank.  The second follows from the
first, because the next owner's row was not enabled when the reassignment read
it, so no reassignment held it then; a new reader therefore gets the lowest
rank.  Of the reassignments that hold a row the one of least rank does not wait
for another, and every other holder of a row waits for nothing.  Without any
writer each request holds one connection at most: one that is past its writes
waits for nothing, and if all are in their outer transaction, the pool has a
connection left or is exhausted by them.  `PoolSuffices` draws the conclusion for
a pool larger than the number of requests.

`Integrations_proofs`.  `Inv`: types; `LookInv`: a worker that has looked at its
table holds a version that is at most the row's, and less once it has been
overtaken; `HookInv` and the last conjunct: a delivery not yet applied is the only
one of its event, whose row is in the inbox and which has not been applied
before.  `NothingOverwritten` is then arithmetic, as the command demands equal
versions.

`Consumers_proofs`, first part: `Hub`.  `Inv`: the type invariant; `ClientInv`: a client that was
subscribed is in the map until somebody is inside its `closeOnce`, whoever is
inside is still at that call, and its channel is closed exactly when the call
is over; `PublishInv`: a publisher holds only clients that were subscribed.
`NothingLostSilently` adds that whatever is owed to an open client is received,
queued or still to be offered, which a publisher keeps because it offers or
closes before it goes on.  `CountersBalance` is the equation itself, in which a client
that is subscribed and not counted yet is made up for on one side (`Uncounted`)
and one inside its `closeOnce`, neither in the map nor counted as closed yet, on
the other (`Closing`); a client may be both.

`Consumers_proofs`, second part: `Analytics` (which is extended together with
`Hub`, so its specification is `AnalyticsSpec` and its events are `FactEvents`;
the two share no state).  `ProjectionIsCurrent` proves `ProjectionCurrent` for
any tables, sessions, assists, service periods, workers and days and any `Lag`,
from the assumption `AnalyticsBounds` and from `West`: the timezone is not ahead
of UTC.  `ProjectionCurrent` itself speaks of quiet states only.  The invariant
`DaysInv` says of all states: rows, events and the log tell of the same commits,
and only what occurred is pending (`TimeInv`); the row of a day on which an event
occurred shows a prefix of the log that has all events of the day, or an event of
that day is pending (`ProjectionInv`); and the same of the rows a job has
computed, but for the event the job is about to strike out, which is on the job's
only day (`JobsInv`).  It is inductive for these reasons.  A command whose event
is on the day leaves that event pending; one whose event is on another day, whatever
the stamp of its row, takes nothing from what the row of this day shows: it shows
the same prefix (`ShowsKept`).  What is computed is computed from all commits of that moment
and for the tables active then (`ShowsAll`), even when its two parts are computed
at different moments.  A commit strikes out an event only together with a row of
its day that was computed after the event.  And the day computed for an event is
its own, which is where `West` is used (`Midnights`).  East of UTC the theorem is false
(`analytics_east`); `EastRangeIsTheDayBefore` shows that there, whatever the
offset, the range computed for an event is exactly the day before.

`Sync_proofs`.  `Inv`: types; `ServerInv`: events are behind the clock and
behind their rows, and of one entity later stamps have later versions, because
the row lock is held from the stamp to the commit; `ReaderInv`: what a request
has read lies between what the reader shows and what is committed; and, while
`late = 0`, `Complete`: at every stage of a request, what has been read so far
covers the log up to the cursor that came with it.  `Complete` is what makes
`CursorIsComplete` inductive, as the cursor is read first and takes effect last.
`CursorComplete` has the condition `late = 0` since without it the claim is
false (`sync_late_commit`).  `CursorAdvances` and `TablesAdvance` need no
condition.  `PageHasNoGap` says that a page cut at the limit leaves out no event
before its last.

`Accounts_proofs`.  `Inv`: types and shapes of requests; `CheckedInv`: what the
trigger has seen is still what a commit would leave, unless it is stale;
`GrantInv`: a login that consumes an invitation is the only one, and the
invitation is pending with its role; `RowsInv`: there is a free row for every
login that is to insert one, which needs that requests are finite
(`AccountsBounds`).  `AdminLossIsExplained` follows from `CheckedInv`, and from the fact that
a login that inserts a row takes no administrator away, which is why the
trigger need not look after an INSERT.

`Venue_proofs`.  `Inv`: types; `LayoutInv`: a table is in a zone on a floor;
`PairingInv`: the code of a device is consumed and no other device has it;
`FormInv`: the version an editor has seen is at most the item's, and less once
the item has changed; `DeviceInv`: a device whose row an
authentication has locked is trusted, which a revocation cannot undo before the
authentication ends.

Model-checked only: liveness (`CommandsEnd`, `RecordsSettle`, `SlowPeerIsCut`,
`CatchesUp`), which the prover does not handle.  Every other property of the
passing runs is the statement of a theorem.

## Not modelled

The waiter app's optimistic commands and offline queue (Dart): the reader of
`Sync` merges as the app does, and the app's commands reach the server as those
of `Operations` do, repeated, late and with old versions; what the app shows
while a command is unanswered is not covered.  `UpdateOrganisation`, which no
decision here reads.  Ratios and percentiles of analytics, which are computed
from the sets the model keeps.  Left out for good: the web, guest and display
front ends, which keep no state other parts rely on; observability;
configuration files, server start-up and shutdown; the row scanning of the
generated database code, whose statements are in the actions; and the decoding
and encoding in the HTTP handlers.
