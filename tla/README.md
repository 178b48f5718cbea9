# Yivi Business Wallet: a verification development

TLA+ models of the wallet's backend (`src/backend`, Go and Postgres), the TLC
configurations that check them on small instances, and theorems about them that
TLAPS proves for every size.

1. [The system](#1-the-system)
2. [The modules](#2-the-modules)
3. [How the modules correspond to the code](#3-how-the-modules-correspond-to-the-code)
4. [What they abstract](#4-what-they-abstract)
5. [What is checked](#5-what-is-checked)
6. [What is proved](#6-what-is-proved)
7. [Where the code and its comments disagree](#7-where-the-code-and-its-comments-disagree)
8. [The plan](#8-the-plan)
9. [What is not modelled](#9-what-is-not-modelled)

## 1. The system

An organisation's wallet: members log in with a Yivi app, hold and issue
attestations, sign documents, exchange registered mail (QERDS), and send
*identity proofing* requests to their own people and to outsiders. One Go
process (`cmd/api`) serves the API and runs the jobs; several replicas of it run
against one Postgres. **All shared state is in Postgres**: a replica holds only
locals of the calls it is in, caches and queues it may lose. Concurrency is
therefore between transactions of any replica, and the hard cases lie where a
call reads, talks to something else (the proofing engine, an external service,
a person's phone), and then writes.

`PROJECT.json` lists every component with its (main) files and its status. The ones
with behaviour of their own:

| Component (`internal/...`) | State it keeps | Operations | Hard part | What makes it correct |
|---|---|---|---|---|
| **Proofing requests** (`proofing`) | the request's row: status, engine session, link, photo, ended/cancelled/purged, purge time | create, hosted start, reconcile, cancel, decline, extend, purge, lapse, decide a review | every call reads without a lock, then calls the engine, then writes; the same engine state reaches several calls | one outcome, one end, told once; erasure complete; nothing after a purge |
| Proofing pause (`proofing/pause.go`) | a request's pause and its reviews | pause, resume, decide | a pause set while a review is decided: write skew | a decided review leaves no paused session |
| Data requests, flows, review items (`proofing/data_request*.go`, `review_items.go`, `steps.go`) | requests for data, the single standard flow, a step's review items | ask, match, withdraw; submit, decide | two sessions match one request; two callers create the flow | matched once, decided once |
| Webhooks (`proofing/webhook*.go`) | an outbox of events with attempts and leases | write in the caller's transaction; claim, send, retry, give up | a lease that lapses while it is sent | each event eventually sent or given up; no result of a lost lease stored |
| Idempotency keys (`proofing/idempotency.go`) | a key with its answer | begin, finish, abandon, expire | a retry while the first runs, or after it died | the answer of one run only |
| Retention (`proofing/*settings_store.go`, `legal_retention.go`) | settings, every request's purge time | save settings, recompute | lock order of settings and request rows | no deadlock; purge times follow the settings |
| **Engine sessions** (`proofingengine`, `session/`) | a session's status, its steps, one claimed device, a change-notice queue | create, claim, submit, decide, cancel, delete, expire first on any update | a submission as the cap passes; notices dropped when the queue is full | only the listed transitions; one device |
| Capture sweep (`proofingengine/regula*`) | captures at an external service | record, erase, retry | erasure failing or crashing | no capture outlives its session for good |
| Members, invitations (`organization`) | members with roles, invitations | invite, accept, revoke, remove, change role | two administrators removing each other; accept against revoke | always an administrator; accepted once |
| Mandates (`organization/mandate*.go`) | who may act for whom | grant, revoke | granting on a mandate being revoked | no mandate rests on a revoked one |
| Reverification, screening (`organization/reverify*`, `screening*`) | due dates, links, reminders | remind, redeem, review | several replicas' schedulers | a reminder once, a token once |
| QERDS mailbox (`qerds`) | messages, evidence | poll, webhook, submit | two pollers of a queue, evidence out of order | a message stored once; status never back |
| Signing (`signing`) | a ceremony, its signers | sign, decline, deliver | the last signature against a decline; asynchronous delivery | delivered only when all signed |
| Attestations (`attestation`) | offers, held and issued credentials | offer, accept, decline, revoke | the same offer twice | accepted once, revoked stays revoked |
| Provisioning (`provisioning`) | directory connections, members synced | sync with a deadline | a late answer after giving up | a late sync does not overwrite a newer one |
| Notifications (`notifications`) | events with a claim | record, claim, dispatch | a dispatcher that dies | at most once, to each channel |
| Holder engines (`eudiholder`) | an in-memory engine per organisation | open, close | two first uses at once | one engine per organisation |

How they interact: `proofing` calls `proofingengine` in process (create, read,
decide, cancel, delete), and the engine tells `proofing` of changes by notices
(`queueChanged`, dropped when full), backed by the deadline job
(`ReconcileDue`, `LapseLinks`) and by every read of a request. The pruner
(`cmd/api/pruner.go`) erases what is due. `proofing` writes webhooks and audit
entries in the same transaction as the row they are about. `organization` uses
proofing for members' identity reviews, `signing` and `attestation` use the
holder engines, `notifications` is fed by all.

What is hard to test here is listed in `PROJECT.json` under `hazards`, each at
its line.

## 2. The modules

| Module | What it is |
|---|---|
| `ProofingRequest` | one external request: its row, its engine sessions, and every call and job on it, of all replicas, with crashes and lost answers |
| `ProofingLifecycle` | the abstract specification: the phases a sender, API client or subject sees, and their order |
| `SessionLifecycle` | the abstract specification of one engine session: what the wallet may rely on, and what it may ask |
| `WebhookDelivery` | the outbox of one endpoint: events written, claimed by several replicas under leases, sent, retried, given up |
| `IdempotencyKeys` | one key of the API and the calls sent with it |
| `EngineSession` | one session of the proofing engine: slots and links, evidence, face attempts, submits, the wallet's calls, the deadline, the notice |
| `DataRequest` | one request to see or erase one's data: the search, the review and who may decide it, the erasures, the organisation's pause |
| `OrgMembers` | memberships, invitations, identity reviews and the re-identification policy of one organisation, statement by statement |
| `OrgDirectory` (extends `OrgMembers`) | the directory sync that invites, updates and removes through the same statements |
| `Mandates` (extends `OrgDirectory`) | the register of mandates beside them: grant, delegate, revoke with its cascade |
| `SigningCeremony` | one document that several people sign: rows in the database, ceremonies and the slot in one process's memory |
| `HeldAttestations` | the receiver's side of a credential: offers queued, decided, redeemed; credentials indexed, re-checked, deleted |
| `QerdsMailbox` (extends `HeldAttestations`) | the registered deliveries that carry the offers: sweeps, inbox checks, pushes, outbound sends |
| `IssuedAttestations` (extends `QerdsMailbox`) | the issuer's side and its ledger; the whole exchange |
| `MC...` | each of these for TLC: the symmetry of the instances, or the settings (below) |
| `...Proofs` | inductive invariants and theorems |

Three chains compose components that share state: people, their directory and
their mandates; a mailbox and the two sides of a credential; a request and its
lifecycle. The others meet through an interface that both sides model:
`ProofingRequest` sees of the engine a session's status, `EngineSession` has
its inside and the notice to the wallet, and `SessionLifecycle` is the contract between
them, which one implements and the other relies on; `ProofingRequest` counts the
webhooks written with a row, `WebhookDelivery` takes over at their commit;
`DataRequest` begins where the engine has proven who asks, which is
`ProofingRequest`'s matter; `IdempotencyKeys` guards the calls that make a
request.

**Settings.** The modules from `EngineSession` on have a constant `Kinds`, a set of
records, and a variable `kind` that `Init` chooses from it and no step changes: how
the session, request or organisation is configured, who is at work, and how many of
each bounded thing (links, requests, faults) there are. One run then checks every
setting its `MC` module lists (`MCKinds`), each small enough to be explored
completely and each with what one group of hazards needs.

**History variables** are only written: what was erased, which tokens were issued,
and `stale`, which notes that a write went ahead on a read
that no longer held. A property with `"role" \in stale \/ ...` so says: this is
kept true by every interleaving except those in which the named stale read is acted
on, which section 7 describes. `Kinds` can allow such a race (`races`) or leave it
to the code's own guards.

## 3. How the modules correspond to the code

### ProofingRequest

A *worker* is one invocation: an API, page or hosted-link handler or a change
notice (`Handlers`), a replica's deadline job (`Jobs`), a replica's pruner
(`Pruners`). A worker runs one call at a time; `pc` says where it is, and
`seen`, `sess`, `outcome` are its locals: the request as it last read it, the
engine session it created, the outcome it is about to store. They are forgotten
when it returns (`Done`), so a state never remembers a finished call.

**Atomicity.** One database transaction, or one call of the engine (which runs
its own transaction), is one step, and any other worker, the engine or the
clock may act between two steps of a worker. Two transactions call the engine
while they hold the row's lock, `RequestStore.Cancel` and
`RequestStore.Purge`: each is two steps with `rowLock` held in between
(`CancelInEngine`/`CancelCommit`, `PurgeInEngine`/`PurgeCommit`). Whoever wants
to write the row waits for it (`rowLock = Free` in the writes' guards); reads do
not, as Postgres lets them. The review's advisory lock is `reviewLock`.

**Variables.** `row` is the row's columns that matter (`status`, `session` for
`ips_session_id`, `hosted`, whether the approved person `fits` the assurance
level and the person expected, `photo`, `name`, `ended` for
`ips_session_ended_at`, `cancelled`, `purged`). `engine` gives every session's
status in the engine. `sent` counts the webhooks, and the review audit, written
with the row. `linkPast`, `due`, `holdOver` are the clocks: the link's expiry,
the purge time, the end of the legal retention. `faults` counts crashes and lost
answers.

| Code | Actions |
|---|---|
| `CreateRequest`, `createHosted` | `CreateHosted`; `CreateSession`, `InsertRow`, `InsertFails`, then attach |
| `startHosted` | `StartHosted`, `StartSession`, `AttachSession`, `AttachRefused`, `AttachUnknown`, `DiscardSession` |
| `SessionChanged`, `readReconciled`, `ReconcileDue` to `tryReconcile`, `followSession`, `recordDecision` | `ReadToReconcile`, `ReadStatus`, `ReadFull`, then one of `MarkStarted`, `EndSession`, `RecordOutcome` |
| `LapseLinks` | `LapseLinks` |
| `CancelRequest`, `cancelOnce`, `DeclineHosted` | `CancelRead`, `DeclineRead`, `CancelRefused`, `CancelMoved`, `CancelReread`, `CancelUnstarted`, `CancelInEngine`, `CancelCommit` |
| `PurgeRequest`; `PurgeDue`, `lapseReview` | `PurgeRead`, `HeldCheck`; `ListPurgeDue`, `LapseReview`; `PurgeAlreadyDone`, `PurgeMoved`, `PurgeReread`, `PurgeUnstarted`, `PurgeInEngine`, `PurgeCommit` |
| `DecideReview`, `decideEngineReview` | `LockReview`, `ReadReview`, `DecideInEngine`, `AuditDecision`, then as a reconcile |
| a replica dies, or a call returns on an error | `Crash` |
| the subject's phone, the engine | `EngineOpens`, `EngineFinishes`, `EngineAccepts`, `EngineExpires`, `EngineRemoves` |
| the clock | `LinkLapses`, `LegalHoldEnds`, `PurgeTimePasses` |

The guards of the writes are the `WHERE` clauses of their `UPDATE`s; an
`UPDATE` that matches nothing leaves `rowVars` as they are, and the call ends or
goes on as the code does. Definitions commented as mutants change one of these
the way a plausible bug would; no run uses them, `PROJECT.json` names for each
property one that breaks it.

### WebhookDelivery

The `Deliverers` are the replicas' `Deliverer.Run` jobs, driven by
`database.RunOnNotify`; the `Deliveries` are the rows of the outbox for one
endpoint.

| Code | Actions |
|---|---|
| `enqueueWebhook`, in the transaction of a change | `FindEndpoint`, `Enqueue` |
| `claimDue` | `RankDue` (the statement's snapshot: the due deliveries ranked, those in flight counted), `TakeDue` (its update, which skips what another claim locked or took) |
| `Deliverer.send` | `SendTaken`, `SendRefused`, `SendUnheard` |
| `recordAttempt`, and the sealed-secret path of `claimDue` | `RecordAttempt`, `RecordFails` |
| `nextDue`, `RunOnNotify` | `Sleep`, `RunFails`, `Wake` |
| `database.Listen` | `Listen`, `ListenLost` |
| `Save`, `Remove`, `RotateSecret`, a changed key | `Save`, `Remove`, `RotateSecret`, `OverlapEnds`, `KeyChanges` |
| `PruneDeliveries` | `Prune` |
| the clock, a stalled or dead replica | `RetryFallsDue`, `LeaseLapses`, `Stall`, `Crash` |

`status` splits `pending` by the clock: `due`, `leased`, `waiting` for its retry.
`stamp` counts the claims of a delivery and stands for the `leased_until` that
each claim sets anew, so "the lease I claimed it under" is "my stamp is still the
row's". `ahead` keeps the order of `next_attempt_at` among the due ones, which is
all that `row_number()` looks at. `window` is what a claim's snapshot saw, `claims`
what a deliverer took and has not recorded, each with what `recordAttempt` will
compare. `listening`, `wake` and `alarm` are the connection that LISTENs, an unseen
notification, and the timer of a sleeping job. The endpoint is `none`, `set`,
`sealed` (its secret does not open under the key in use), or `overlap` (a rotated
secret opens, the previous one, which must sign too, does not).

### IdempotencyKeys

A call is at one of the places of `idempotent`: about to claim (`start`), reading
the row it collided with (`read`), in its handler (`run`), storing its answer
(`finish`) or letting go of the key (`abandon`). `Claim` is the `INSERT ... ON
CONFLICT DO NOTHING` and `ReadKey` the separate `SELECT` after it, by which time the
row may have gone or be another's. The handler is one step with an effect
(`RunWorks`), none (`RunFails`), or an effect and an error (`RunFailsLate`). What
drops the row: `Abandon`, the purge of the session it names (`PurgeSession`),
and `Prune` after the key's lifetime. `ClaimUnheard`, `FinishFails`,
`AbandonFails` and `Crash` are the ways a statement or a replica fails.

### EngineSession

A transaction of the session's store is one step, and `Update` runs its function on
the session as `Fresh` shows it: expired first if its deadline has passed. What a
handler read before its transaction is kept between steps only where it uses it
afterwards: in a face submission, which reserves an attempt, calls the external service
and then writes or refunds, and in a submit, which builds the result from a snapshot.

| Code (`proofingengine`) | Actions |
|---|---|
| `session/access.go`, `device_access.go` | `MintByWallet`, `MintByDevice`, `ClaimHandover`, `DeviceActive`, `DeviceInactive`, `TouchDevice`, `GoStale`; `issued` remembers which token came of which link, `void` the links a device's return ended |
| `steps.go`, `step_document.go`, `step_nfc.go` | `StartStep`, `SubmitDocument`, `SubmitNFC` |
| `step_selfie.go` | `ReserveFace`, then `FaceAnswered`, `FaceFailed` or `FaceRefused` |
| `submit.go`, `yivi.go` | `SubmitApp`, `DocumentPhoto`, `DocumentPhotoAlone`, `ReadReference`, each a snapshot, and `Finish`; `SettleReference`, `FailDocumentScan` |
| `rp.go` | `ChooseMethod`, `DecideReview`, `CancelSession`, `DeleteSession` |
| `engine.go`, the jobs | `TakeNotice`, `WalletReads`, `WalletTold`; `ExpireDue`, `RemoveFinished`; `Crash`, `Tick` |

### DataRequest

Every worker has one call at a time (`job`). `matchLock` is the transaction-level
lock of the search, `reviewLock` the review's advisory lock. A search reads the
organisation's other sessions, and a later statement stores what it found; a
decision is taken in the engine, then the sessions it names are erased one at a time,
then the outcome is recorded. Between any two of these a reviewer, the pruner, the
subject or an administrator's pause may act, and one call may fail.

| Code (`proofing`) | Actions |
|---|---|
| reconcile to `matchDataRequest` | `ReadToReconcile`, `TryLockMatching`, `Relook`, `Search`, `SaveMatches`, `FreeMatchLock` |
| `recordDecision`, `rejectIfPaused`, `declineHeldErasure`, `handleErasure` | `RecordReview`, `RejectIfPaused`, `DeclineHeldErasure`, `HandleErasure` |
| `DecideReview`, `decideDataRequest`, `purgeMatches` | `LockReview`, `DecideInEngine`, `PurgeMatch`, `RecordDecision`, `RecordDecided`, `PurgeOwn` |
| `SetProofingPaused`, `rejectOpenReviews` | `BeginPause`, `ListOpenReviews`, `RejectPendingItems`, `SetPause`, `Resume` |
| review items | `OpenItem`, `RejectItemIfPaused`, `ItemDecided` |
| the pruner | `BeginSweep`, `ListPurgeDue`, `LapseReview`, `PurgeDue` |
| the world | `TermPasses`, `CheckDecided`, `CheckErased`, `HoldEnds`, `Fails` |

### OrgMembers, OrgDirectory, Mandates

PostgreSQL runs these transactions at READ COMMITTED. A statement that only reads is
therefore a step, what follows acts on what it saw, and the statements from a
transaction's first row lock on are one step where nothing could come between them that
a property can tell. A run of the sync is a worker of the same kind: it reads the
source and the links once, then goes through the accounts and calls the operations of
`OrgMembers`, each with a continuation (`back`). A revocation of a mandate holds its
target's lock from `revoke` to `cascade`; the cascade's statement ends what was there
when it began.

### SigningCeremony

The database holds `request`, `signer`, `invite`; the process holds `slot`
(`Service.active`) and `call`, each a request under way and the ceremony it began
(`Service.sessions`). A critical section of the mutex, a statement and a call of the
provider are one step each. A ceremony is reserved, reads the document, parks until its
signer comes back or its timer fires, is taken, assembled, recorded, and lets the slot
go. A restart empties the memory and keeps the rows.

### HeldAttestations, QerdsMailbox, IssuedAttestations

A message names the offer it carries. `post` is the access point, where a retrieved
message is gone. A poll lists, retrieves, stores and tells the offer queue, message by
message, while it holds its process's drain slot; a push stores and tells on its own. An
offer is claimed (`accepting`), redeemed at its issuer, settled and indexed, or
released. The issuer sets a credential's bit on the status list and then its ledger's row;
`Status` and the claim page make the row follow the issuer. A re-check reads the bit and
later records it. Each of these is a step, and a crash or a failed call may come between
any two.

## 4. What they abstract

Of `ProofingRequest`:

- **Time.** A link lapses, a purge time or the legal hold passes in steps of
  their own. `settledAt` plus a retention period is "settled, and then some
  time" (`PurgeTimePasses`); a write of the row takes `due` back, since it
  recomputes the time. A session's cap that has passed is the engine reading the
  session as expired; in the wallet's own tests of the cap
  (`EffectiveStatus`) a passed cap only makes a handler give up, and a handler
  may always simply not be started. The two `s.now()` of `cancelOnce` are one.
- **The engine** is what `proofing` sees of it: a session's status and the
  transitions `session.go` allows; `opened` and `in_progress` are one, as
  `followSession` treats them so. An error of the engine before it did anything
  ends the call and is a `Crash`. The engine's retention job erases finished
  sessions (`EngineRemoves`); its period is far longer than the wallet takes to learn
  of the end, so an erasure the wallet is not ready for (`CaughtUp`) is counted as a fault:
  the wallet was down all that time.
- **Change notices and reads.** Both reconcile a request that
  `needsReconcile`; the model starts one whenever a handler is idle, so a notice
  may come late, twice, out of order, or never.
- **Data.** Names, photos and results are whether the row has them; whether an
  approval fits is chosen when the row is made, and `Verdict` turns the wrong
  ones into rejections.
- **Calls that end at their first read** (a review of a request not under review,
  a cancel of one already ended) do nothing to the state and are not started.
- **Out of scope**: `ExtendSession` (it moves the cap), handover to another
  phone, step and document-scan events, paused organisations, requests to
  members themselves (direct requests reconcile before they cancel, a separate
  operation), mail, and lists. `DeferPurge` after an engine error is a
  `Crash` and a later `ListPurgeDue`.

Of `WebhookDelivery`: what is sent (payload, signature, the stripping of personal
data), the endpoint's URL and event subscriptions, its health flag, and the lengths of
back-offs and leases. A batch is sent well inside its lease, so a lease
that lapses while its deliverer still works on the delivery is a fault (`Stall`). With
`LateCommits = FALSE` deliveries become due in the order they commit; with `TRUE`
a slow transaction's may rank before ones that are due already, as
`next_attempt_at DEFAULT now()` makes it.

Of `IdempotencyKeys`: what an answer says, and the hash, which is the body itself.
`Prune` waits until no call is at work on the key: its age is a day, and no
request lives that long.

Of `EngineSession`: what a result says beyond the face check it was built of, what a
step checks of a document or chip, and `ExtendSession`. The clock is a bounded count
(`MaxNow`) and the lifetimes are one or two of its units.

Of `DataRequest`: the person's data are the matching level of each of two other
sessions. Left out: data requests among the matched sessions, the export for an access
request, and the claim of the single standard flow.

Of the organisation's modules: a person is an address; departments and profile fields,
the re-identification links and reminders are left out, and a due date is the policy and
type it was computed from. Days are counted to `LastDay`. Every setting begins with an
administrator, since `RegisterOrganization` makes who registers one; and with no link, as
a sync makes its own.

Of `SigningCeremony`: a document is the sequence of its signatures. PDF and PAdES
bytes, linking and removing a signing credential outside a ceremony, and lists are left
out.

Of the exchange: an organisation has one address and is named by it, a recipient is
always given, every credential is on a status list, senders are trusted (an
untrusted one is refused before anything changes), and a redemption that errs leaves no
credential in the holder engine. The public claim page polls as `Status` does. Addresses,
contacts, evidence, schemas, templates, keys and onboarding are left out.

## 5. What is checked

Twelve runs, each with a `.cfg`. Properties that
are about one thing are conjoined under one name, and its parts are named beneath.

| Run | Instance | Question |
|---|---|---|
| `req_race` (ReqRace) | two handlers and a pruner, 2 engine sessions, no fault | any two calls and the pruner, in every interleaving: do the row and what was told stay one story? |
| `req_faults` (ReqFaults) | handler, deadline job, pruner, 2 sessions, 1 fault | and with a crash or a lost answer anywhere? |
| `req_jobs` (ReqJobs) | one handler, one replica that is job and pruner, 1 session, 1 fault, fair | do the jobs settle what no notice told, end lapsed links and erase what is due, also after a crash half way? |
| `hook_faults` (HookFaults) | 2 replicas, 2 deliveries, 1 in flight, 2 attempts, 1 fault, late commits, removals | is what is recorded of a delivery what happened to it? |
| `hook_ends` (HookEnds) | the same without late commits and removals, fair | do overlapping claims keep to the limit, and does every delivery end? |
| `keys` (Keys) | 3 calls, 2 bodies, 2 faults, fair | does a key run once and answer for that run only? |
| `engine` (EngineSession) | 7 settings, fair | is a session decided on evidence of the devices that hold it, in time, and does the wallet see it? |
| `data_request` (DataRequest) | 11 settings, fair | is the person told what was erased, is only that erased, and does a pause leave nothing open? |
| `organization` (Organization) | 15 settings, fair | do members, policy, directory and mandates stay true to each other? |
| `signing` (Signing) | 7 settings, fair | does each signature build on the one before, and does the document arrive whole? |
| `exchange` (Exchange) | 10 settings, fair | do messages arrive, offers settle once, and revocations hold? |
| `find_lost_signature` (FindLostSignature) | the setting in which a signer begins anew | section 7 |

**The properties.**

- `req_race`: `OutcomeAndEndOnce` (`OutcomeOnce`, `EndsOnce`); `CancelledNeverApproved`,
  the point of calling the engine under the row's lock; `PurgeIsFinal`;
  `WebhooksInOrder` (`NoLateStart`, `PurgedToldLast`); `EndIsTrue` (`ToldOneEnd`, of
  requests that never went to review; `ExpiryIsReal`: the wallet's own cancel is never
  read back as an expiry).
- `req_faults`: `TypeOK`; `DataGone` (`PurgedErased`, also of a session attached
  during the purge; `PhotoOnlyUntilStart`); `NoOrphans`: each engine session with a
  subject's data belongs to the row or to a call that will attach or erase it;
  `DecisionAuditedOnce`; `FollowsLifecycle`: `ProofingRequest` implements
  `ProofingLifecycle` under `phase <- Phase`. With faults an outcome may overtake an
  expiry: a purge that died after the engine erased leaves a row that a poller ends as
  expired, while another call still holds the decision it read.
- `req_jobs`: `JobsCatchUp` (`Settles`, `LinksLapse`, `PurgedWhenDue`).
- `hook_faults`: `TypeOK`; `OutcomeHonest`, delivered means taken; `AttemptsHold`
  (`HolderDecides`: whose lease lapsed records nothing over the next one's attempt;
  `ClaimsRunOut`, also for a delivery that cannot be signed).
- `hook_ends`: `EndpointNotFlooded`, across replicas that each rank in a snapshot
  without the other's leases, as long as deliveries become due in commit order;
  `EveryDeliveryEnds`.
- `keys`: `TypeOK`; `OneRunOneAnswer` (`RunsOnce`, unless a call errs past its effect;
  `ReplayIsAnswer`); `KeyFreed`.
- `engine`: `TypeOK`; `DeviceAccess` (`OneDevicePerLink`, `ReturnedKeepsSlot`,
  `OnlyHoldersWrite`, though the face service answers seconds later);
  `EvidenceDecides` (`CallsBounded`, `ResultOfStoredEvidence`,
  `PicturesGoWithDecision`, `OutcomeSeen`, `WaitEndsWithPhoto`); `DeadlineHolds`
  (`NothingPastDeadline`; `FollowsContract`: `EngineSession` implements `SessionLifecycle`
  under `status <- Told`, so no call, job or late submission shows the wallet a move it does
  not expect; `SessionEnds`).
- `data_request`: `TypeOK`; `AnswerHonest` (`FoundOnce`, `RefusalKeepsSure`,
  `ErasureTold`, `LawRefusalErasesNothing`); `ErasesOnlyAllowed` (`HeldIsKept`,
  `ErasesProvenOrTicked`); `PauseLeavesNone`, the write skew of a pause and a recorded
  review; `RequestEnds` (`PausedReviewEnds`, `ErasureEnds`, also after a failure).
- `organization`: `TypeOK`; `ReviewsFollowPolicy` (`RightAudited`,
  `DuesFollowPolicy`); `MembersKept` (`AdminRemains`, `RejectedStaysOut`,
  `SyncTouchesItsOwn`, `GivenIsOwned`, `LeaversLose`); `MandateChains`
  (`DelegatesEndToo`, `RevokedWithinWindow`, `EndsOnlySooner`).
- `signing`: `TypeOK`; `SignersTakeTurns` (`OnePass`, `NoSignatureLost`, `SignedOnce`,
  `SignedInOrder`); `EndIsHonoured` (`DeclineIsFinal`, `RecipientGetsWhole`);
  `CeremonyProceeds` (`SlotIsFreed`, `NextIsInvited`, `SignedIsDelivered`).
- `exchange`: `TypeOK`, with the drain slot held exactly by the poll that drains;
  `OffersSettle` (`StoredForOwner`, `NothingLost`, `OneCredential`, `DecisionStands`);
  `RevocationHolds` (`RevokedIsPublished`, `LedgerIsTrue`, `RevocationStays`);
  `ExchangeCompletes` (`EachArrives`, `ClaimEnds`, `RevocationReaches`).

`PROJECT.json` gives, for each property of each run, a change of one mapped definition, the way
a plausible bug would change it, that breaks the property in that run; the changed
definitions stand beside the originals, commented as mutants.

**Bounds.** Of a request: `Handlers`, `Jobs` and `Pruners` bound the calls *at the same
time*, not their number: an idle worker starts again, so any sequence of calls is
covered. Two concurrent calls plus a job or pruner is where each of the races appears (a
reader with an old read, one that changes what it read, and the job as a third
that acts in between). Two `Sessions` are enough for a hosted link started twice: the row
takes one and the other must be erased. One fault (`MaxFaults`) reaches a crash in every
step of every call, with a complete recovery after; the theorems of section 6 hold for
any number. `req_race` has none and asks what holds when nothing fails. Handlers and
sessions are interchangeable (`Symmetry`), which the liveness runs do not use.

Of an endpoint: two replicas and two deliveries with one allowed in flight is the least
at which claims overlap. Two attempts reach both a retry and the end of the attempts.
Of a key: three calls are one that runs, one that collides with it and one that comes
after.

Of the runs with settings: an engine session has at most two devices with three links, or
four face submissions against `MaxAttempts = 2`, which reaches the last attempt, its
refund and a submission too many; `MaxNow = 3` is past every deadline and the retention.
A data request has two other sessions, one sure and one not, and up to three callers. An
organisation has two people, since every race in its hazards is of two rows or of two
calls on one row; three to five requests in a row, two at a time; two accounts with one
address for the directory; four mandates, so that a chain of three can be revoked at its
top while a fourth is cut; `LastDay = 2` for a window that has ended, one that has begun
and one to come. Signing has two signers and three calls, three signers in order. The
exchange has two messages, two polls, two processes and two requests. The number of
faults and crashes of each setting is in the `MC` module.

`CHECK_DEADLOCK FALSE` in every run: a purged request with every worker idle, an outbox whose
deliveries have ended, a removed session, a document delivered, a setting whose requests
are used up have nothing left to do, which is how they should end.

**Fairness** (`FairSpec`, `OrganizationSpec`). Nothing is ever assumed of people: no
handler has to start, no subject opens a link, no reviewer decides, no signer comes back,
no client retries, no endpoint accepts.

- A call that began is carried on (`WF` per worker: `CarriesOn`, `GoOn`, the steps of a
  call, poll or push): Go runs its goroutines, and every engine or database call has a
  deadline. A fault may end it, where the setting has one.
- Jobs tick for ever (`WF` on `JobStarts`, `PrunerStarts`, `Prune`, `BeginSweep`,
  `ExpireDue`, the sweep's `ListAddresses`, a replica's `Deliver` and `Listen`), and time
  passes (`EngineExpires`, `LinkLapses`, `RetryFallsDue`, `LeaseLapses`, `Tick`).
- A signing ceremony's timer fires: it is part of `GoOn`, so a slot is let go although
  its signer never returns.
- Three steps are strongly fair, since what enables them comes and goes. `LockReview`:
  PostgreSQL queues those who wait for an advisory lock. `AcquireDrain`: a Go channel
  serves its waiters in turn. `Recheck` of each held credential: the scheduled
  `RecheckAllHeld` goes through all of them, whatever else the process is doing.

## 6. What is proved

### ProofingRequest

`ProofingRequestProofs`, with TLAPS, for every set of handlers, jobs, pruners and
sessions, with or without review, and any number of faults, from one assumption
on the constants (`ConstantsAssumption`: `NoSession` is no session, `Free` no
worker, and the two parameters have their types).

| Theorem | States |
|---|---|
| `Invariance` | `Spec => []IInv` |
| `TypeCorrect` | `[]TypeOK` |
| `OneOutcome`, `OneEnd`, `OneAudit` | `[]OutcomeOnce`, `[]EndsOnce`, `[]DecisionAuditedOnce` |
| `ErasureComplete`, `PhotoDropped` | `[]PurgedErased`, `[]PhotoOnlyUntilStart` |
| `CancelStands`, `RereadHolds` | `[]CancelledNeverApproved`, `[]SecondReadHolds` |
| `PurgedForGood`, `PurgedSilence`, `NoStartTooLate` | `PurgeIsFinal`, `PurgedToldLast`, `NoLateStart` |
| `ToldOnce`, `DataErased`, `InOrder` | `[]OutcomeAndEndOnce`, `[]DataGone`, `WebhooksInOrder`: the conjunctions the runs check |
| `NoneForgotten` | `[]NoOrphans` |
| `FaultFree` | `[]CleanInv`: what holds until the first fault |
| `EndsTrue` | `EndIsTrue`: `[]ToldOneEnd` and `ExpiryIsReal` |
| `Implements` | `FollowsLifecycle`: the strict lifecycle without faults, the one with `LateOutcome` with them |
| `PromiseAllowed`, `PromiseKept` | what the model takes the engine to do is `SessionLifecycle`, no less and no more |

None of these invariants is inductive alone. `IInv` adds what the code relies on
without saying so:

- `RowShape`: a purged or cancelled row is ended, one past `pending` has a
  session, a purged one has no personal data.
- `SeenHolds`: a worker has read either no session or the row's own. It holds
  because a session is attached once (`SessionFixed`), and is why
  `ips_session_id = $2` in the writes is never met by an older session.
- `LockHolds`: between the engine's call and the commit of a cancel or purge,
  the row is still one the cancel or purge may end, and the engine's session is
  already cancelled or erased. So the commits, which look at nothing, are safe.
- `ApprovalStands`: while a call carries an approval it read, nobody cancels:
  the engine's session is approved (or erased), which no cancel survives. This is
  what makes `CancelledNeverApproved` inductive although `RecordOutcome` does
  not look at `cancelled_at`.
- `AuditAlone`: one worker at most is between the engine's decision and its
  audit, and nothing was audited then.
- `InsertAlone`: nobody works on a request whose row is still being inserted.
- `StatusTold`, `PurgeToldOnce`: the counts of webhooks against the row's status.

The proofs split a step by what it may change. `RowSteps`, `EngineSteps` and
`LockSteps` say once, over all actions, that the row, the engine and the lock
change only in `Writing`, `Calling` and `Locking` steps, and `Arrivals` that
every other worker stays or moves only where its own step took it. Each part of
`IInv` then has a lemma (`...Kept`) with one case per action that can disturb
it; `Inductive` collects them.

`NoneForgotten` needs two invariants more. `SessionHeld`: a worker has a session in hand
exactly while it inserts, attaches or discards; so every step keeps a session in hand, or
attaches or erases it, and only a `Crash` forgets one (`OrphanMade`). `OrphansCounted`
then counts a fault for each forgotten session, and carries that they are finitely many,
so that the set of session ids need not be.

`SecondReadHolds` (a cancel or purge rereads a request whose session moved only once;
enough, because a session is attached once) is proved and not run.

`EndsTrue` and the strict half of `Implements` are about runs without a fault, and none
of what they need survives one: a call that dies between the engine's cancel and its own
commit leaves a session cancelled and a row that says nothing of it. So `CleanInv` holds
`Clean` while `faults = 0`:

- `Apart`: a session in hand is fresh (`created`), its holder's alone and not the row's, so
  a discard never erases the session of a request.
- `EndedByRow`: the engine's session is cancelled or erased only if the row ended, or if
  somebody holds its lock to end it. Whoever read the engine's end and finds the row free
  and not ended therefore read an expiry (`ExpiryFound`).
- `EndTold`: a row that ended without a cancel or purge was told expired, and then its
  session, if it has one, expired at the engine.
- `OutcomeReal`, `ReviewTold`: an outcome on its way, or a review in the row, is of a session
  that can expire no more; so neither comes after an expiry, nor an expiry after it.
- `DecidedOnly`: a decision without a review was the only end.

`RowMoves` names the eight ways a step without a fault may move the row and
`RowSessionMoves` those of its engine session; each part is kept move by move.
The run `ReqFaults` checks `FollowsLifecycle` with a fault allowed; the strict lifecycle
is a theorem only.

The last two theorems, with `ContractKept` of `EngineSession` below, join the two models:
`EngineSession` implements the contract `SessionLifecycle`; whatever the contract lets a
session do of its own, `ProofingRequest` lets it do at any point of any call
(`PromiseAllowed`, save that an early erasure spends a fault); and what the wallet's calls
do to a session is what the contract lets be asked (`PromiseKept`). So the theorems above
need of the engine what it was proved to do, and no more.

Model-checked only: liveness (`JobsCatchUp`), which with fairness is beyond the prover.

### WebhookDelivery

`WebhookDeliveryProofs`, for every set of deliverers and deliveries, any limit and
number of attempts above zero, and any number of faults (`DeliveryAssumption`), with and without
late commits and removals.

| Theorem | States |
|---|---|
| `Invariance` | `Spec => []IInv` |
| `TypeCorrect` | `[]TypeOK`: also that no delivery has more than `MaxAttempts` attempts |
| `ClaimsEnd` | `[]ClaimsRunOut` |
| `LateOutcomeDropped` | `HolderDecides` |
| `AttemptsCounted` | `AttemptsHold`, both of these |
| `OutcomesHonest` | `[]OutcomeHonest` |
| `NotFlooded` | `LateCommits = FALSE => (Spec => []EndpointNotFlooded)` |

`IInv` is `TypeOK` without its bounds (`Typed`), that only a deliverer that sends holds
claims (`OnlySendersClaim`), and `Core`:

- `ClaimsPast`: no claim is of a later take, or of more attempts, than the row.
- `OneHolder`: no two deliverers hold a delivery's last lease.
- `HolderKnows`: what the holder read of it is still so, unless it is over.
- `ClaimsCounted`: every claim but the one in hand became an attempt or fell to a
  fault. So a lease that comes back unrecorded cost a fault.
- `AttemptsLeft`: a delivery that is not over has an attempt left.

The last two give the bounds of `TypeOK` and `ClaimsRunOut`. `HolderDecides` follows
from `OneHolder`: who is not the holder has a claim with an older stamp, which
`recordAttempt` refuses.

`OutcomesHonest` adds two invariants. `TakenReceived`: what is recorded as taken, or about
to be, was received. `TakesPaid` counts, for each delivery not dropped, the receipts and
the claims that may still send although their lease lapsed (`Loose`); each has a fault of
its own, but for one receipt: the delivered one, or that of the lease's holder (`Excused`).
Counting the loose claims is what makes it inductive: a stall is paid for when the lease
lapses, the second receipt comes later. No bound on the deliverers is needed, as
`IsFiniteSet(Loose(d))` is part of the invariant.

`NotFlooded` rests on `Ranks`. `ahead` is a strict total order of the due deliveries
(`DueInOrder`); what a claim's snapshot saw and is still due is an initial piece of it
(`FirstSeen`); and what is leased together with what any one claim would still take fits
`perEndpoint` (`RoomLeft`). Two initial pieces of one order contain each other, so a claim
takes only room that the others had counted as taken or as their own. A snapshot finds
room because fewer than n ahead of each in a total order means at most n of them
(`FewAhead`, by an injection into `0 .. n - 1`). A late commit joins the order in the middle
and breaks `FirstSeen`; hence the hypothesis, which is the setting `hook_ends` runs. Both
invariants were checked by TLC first, `Ranks` also with three deliveries, two of them in
flight, and removals.

Model-checked only: `EveryDeliveryEnds`, which is liveness.

### IdempotencyKeys

`IdempotencyKeysProofs`, for every set of calls and bodies and any number of faults
(`KeyAssumption`): `TypeCorrect` (`[]TypeOK`), `KeyRunsOnce` (`[]RunsOnce`) and
`KeySharesRun` (`[]OneRunOneAnswer`). The invariant: whoever is at work holds the claimed
row (`WorkerHoldsKey`), who has not run left no session (`NoEffectYet`), who was told is
over (`ToldLast`), and an open session's call still owns the row, unless the key was
pruned or a call told an error after its effect (`SessionKeepsKey`); of two open sessions,
both would own it. For the replays, `ReplayInv` adds that a stored answer, and whoever is
about to store one, is of a call that had its effect.

Model-checked only: `KeyFreed`, which is liveness.

### The exchange

`IssuedAttestationsProofs`, for every set of organisations, messages, calls, polls and
processes, and any number of faults and crashes, from `ExchangeAssumption` and
`MailboxAssumption` (the settings have their types; `NoOne` is none of the others).

| Theorem | States |
|---|---|
| `TypeCorrect` | `[]TypeOK`: also that exactly the poll that drains holds its process's slot |
| `OffersAreSettled` | `OffersSettle` |
| `OneRevocation` | `RevocationHolds` |

Four invariants beside the types (`Typed`), none of which needs another of them:

- `OfferInv`: who claimed an offer is alone with it until it is settled or released, and
  no credential of it exists before (`ClaimAlone`); who deletes a row's credential does so
  of an accepted offer (`DeleteKnows`, `NotAccepted`). That gives `OneCredential`. And
  what the trail records as revoked the holder knows to be (`TrailKnown`), so a re-check
  that takes it back must have read before.
- `RowInv`: the row comes before the issuer's offer, which one call creates once
  (`OfferMadeOnce`), so what was issued stays issued and a claimed row true
  (`ClaimedIsIssued`); who read a row as claimed writes the ledger after the status list
  (`PublishedFirst`).
- `MailInv`, where one process polls and nothing failed: one poll drains (by `TypeOK`),
  so what it listed still waits (`ListedWaits`), and what it retrieved it has until that
  is stored (`TakenKept`) and its consumer told (`OffersTold`). Without the slot,
  `ListedWaits` fails first.
- `StoredForOwner` itself.

`DecisionStands` and the second half of `LedgerIsTrue` need no more than the types: each
write names the status it is from.

Model-checked only: `ExchangeCompletes`, which is liveness.

### SigningCeremony

`SigningCeremonyProofs`, for every set of signers, calls and kinds of request, from
`SigningAssumption` (the settings have their types; a request has an order of signers,
each in it once).

| Theorem | States |
|---|---|
| `TypeCorrect` | `[]TypeOK`: also that what holds the slot is a ceremony between its reservation and its end |
| `CeremonyHolds` | `[]Ceremony`, the inductive invariant |
| `TurnsAreTaken` | `SignersTakeTurns` |
| `EndsAreHonoured` | `EndIsHonoured` |
| `OnlyRestartLoses` | a signed signer is always in the document, unless `"restart" \in stale` |

`Ceremony` has three layers, as the code's guarantees do:

- `Based`, always: the types, that nothing happens before the request is made, and that
  the slot is held by a call in a ceremony (`SlotHeld`).
- `Serial`, unless a signer began anew over their own running ceremony: every call in a
  ceremony is the slot's holder (`OneHolds`), builds on the stored document (`Builds`),
  who signed is in it (`SignedIn`), and in a sequential request those before whoever
  signs are in it already (`TurnCame`).
- `Fresh`, while no stale read was acted on: nobody is in the document twice (`Once`), a
  ceremony that has not recorded is of someone who has not signed (`NotYet`), who is
  marked failed has no second ceremony (`LateNever`), one call completes and sends, when
  all signed (`OneEnds`, `SendsOnce`), and a decline that saw the slot free finds it free
  (`Declining`).

`OnlyRestartLoses` is stronger than the run's property: of the four races the model
allows, one alone costs a signature.

Model-checked only: `CeremonyProceeds`, which is liveness.

### EngineSession

`EngineSessionProofs`, for every kind of session and any number of devices, links, face
submissions and faults, any limit of attempts and any deadlines, from
`SessionAssumption` (the bounds are numbers, an attempt is allowed, and a session that
begins with the app's link may have one).

| Theorem | States |
|---|---|
| `TypeCorrect` | `[]TypeOK`: also that no attempt is reserved past the limit and no deadline set past the longest life |
| `HoldersWrite` | `DeviceAccess` |
| `DeadlineKept` | `NothingPastDeadline`, the safety half of `DeadlineHolds` |
| `DecisionHolds` | `[]EvidenceDecides` |
| `ContractKept` | `FollowsContract`: the refinement of `SessionLifecycle`, a part of `DeadlineHolds` |

First, what a step may store: `SessStep` lists, for every action, the session it leaves as
an expression of the one before, and that it found it open where the code's checks, made
again inside `Update`, say so (`Stores`). `EvidenceMoves` and `SessMoves` coarsen that to
the few things a proof needs: it stays, rests, ends without outcome, is erased or decided.

For `DeviceAccess`: every link of a device is below the counter, distinct from the others
and, if it is the slot's own, used or put an end to (`Access`); a call that runs is a
device's (`Called`).

For `EvidenceDecides`, whose last two parts hold only with:

- `Counted`: the attempts that run or were spent have numbers of their own, none past
  those reserved, and the face stored is one of the spent. A refund gives back the
  latest number only, so the next reservation takes no number twice; hence no more of
  them count than `maxFaceStepAttempts` (an injection into `1..MaxAttempts`).
- `BuiltOf`: a result that waits was built of a spent attempt, and as long as its face is
  the stored one, says what that one says. Numbers never come back, so comparing the
  number, as `finishSession` does, is comparing the evidence.
- `IdemOnly`: a session of another method has no devices, links or faces, which is why
  the disclosure's result (`boundLoginFinish`, which compares nothing) is sound.
- `Undecided`: a session that runs shows no picture and has no result, or a rejected scan
  would keep what a decision dropped.
- `WaitsFor`: who was told to wait has an Idem session with every app step done and the
  photo missing; once the photo is in, the browser's own result is under way, of the face
  that is stored.

`ContractKept` maps every step to one of the contract or to a stutter. The mapping reads the
session as a reader would (`Told`, `ToldIs`): one past its deadline is expired although its
row does not say so yet. So the step of the contract is the tick of the clock, and the write
that stores the expiry is a stutter; no step stores an outcome after it because each finds
the session `Fresh` (`NeverBack`, `DecidedOpen`).

Model-checked only: `SessionEnds`, which is liveness; `DeadlineHolds` is proved but for it.

### DataRequest

`DataRequestProofs`, for every set of other sessions and of callers, any settings, and
any number of pauses and faults, from `DataAssumption` (the settings have their types; the
other sessions are numbered in the order they were made; `Free` is no caller).

| Theorem | States |
|---|---|
| `TypeCorrect` | `[]TypeOK`: also that exactly the call that decides holds the review lock |
| `Honest` | `AnswerHonest` |
| `ErasesAllowed` | `ErasesOnlyAllowed` |
| `PauseSafe` | `[]PauseLeavesNone` |

`Sound` is what a call's own record says whatever the others do, and `LocksHeld`, `Fresh`
and `SearchOpen` what the two locks and the second read of the row give: who decides holds
the review lock, who searches the match lock, and a search writes only while the request
is in progress, when nothing was decided or erased. That is `FoundOnce`: what an open
review found stays until it is purged. On it rest, in `Kept`:

- `TakesAllowed`, `ErasedGone`: what a decision is about to take was found, was sure or
  ticked, and is not held by the law; what an earlier decision erased is among it. The
  erasures that follow need not look again.
- `TakesTold`, `ApprovedLast`: a decision marks what it took after it has erased it and
  before it records the approval, and then has nothing left but the purge. Hence
  `ErasureTold`, also after decisions that failed half way.
- `RefusalStands`: once a code of refusal stands anywhere (the row, the engine, or the
  call that decides), no one decides with another, and the review is not left open. It
  needs the exception of `RefusalKeepsSure`: a fault after the engine's rejection leaves
  the review open to an approval. `SureKept` and `LawKept` extend the two properties to
  the refusals under way.
- `LawFirst`: while the review is open and no one decides, nothing was erased before the
  search that opened it has asked the law. It holds because only an automatic erasure
  leaves a review open (`LeavesOpen`), and its call still holds the match lock.
- `PauseSeen`: without a fault, an open review of a paused organisation has a call that
  is sure to refuse it, and a pending item one that is sure to reject it. The call may
  change its place at every step; `RefusesStill` and `EmptiesStill` follow it.

The steps are split by what they write (`Shapes`, `Writers`), and `DecideShapes` reduces
the four ways into a decision to one (`Takes`). That `PurgeMatch` takes a session of its
list needs a least number, which `MinIsOne` gets from the library's well-founded order
instead of an induction.

Model-checked only: `RequestEnds`, which is liveness.

### The organisation

`MandatesProofs`, for every set of people, calls, syncs, accounts and settings, from
`OrgAssumption` (the settings have their types and begin with an administrator; no row is
no address, role or row; people are finitely many, so that `keepAnAdmin` can count),
`MailboxAssumption` (an account has an address) and `DayAssumption` (no setting runs past
`LastDay`).

| Theorem | States |
|---|---|
| `TypeCorrect` | `[]TypeOK` |
| `ReviewsFollow` | `[]ReviewsFollowPolicy` |
| `MembersSafe` | `SyncTouchesItsOwn`, `RejectedStaysOut`, `[](AdminRemains /\ GivenIsOwned)`: the safety of `MembersKept` |
| `ChainsHold` | `MandateChains` |

`PeopleInv`, of the members and their directory:

- `Sound`: what a worker's own record says. A call has no continuation and owns nothing; a
  run that changes or removes does so for an account it owns, and one that removes has
  taken it off its list; who was read with the reviewer right was read as a member.
- `RightsSound`: only a member's right is on record as theirs to have. Without it a
  demotion that finds a right the audit log never gave would break `RightAudited`.
- `Knows`: an acceptance knows an invitation that is there or was taken back, and one past
  `resolveUser` is of somebody whose name matched; an approval's invitation is there and
  pending as long as it holds the review. With `review # "none" => u \in mismatch` that is
  `RejectedStaysOut`: whoever is admitted without a review has none to be rejected in.
- `HeldSafe`: somebody a run still holds, by a link, by one it is about to make, or by what
  it owned when it began, is a member or invited only by what a sync gave, or by an
  administrator meanwhile (`rehired`), and not both at once. Links are forgotten in one
  transaction and rows removed in another, so a link outlives what it stood for; that
  nothing else moves in under it is what `SyncTouchesItsOwn` needs.

`AdminRemains` is nearly inductive: the admins are locked and counted in one step, and what
makes it true is that the role was read before and is only then compared
(`AnotherAdmin`). `GivenIsOwned` follows what gives (`CreateInvitation`, then `LinkMember`)
and what takes.

The proof has one lemma per statement. `PeopleStep` is the case of most: nobody comes in and
no invitation goes, so that it remains to show the rights, the dates and the administrator.
`CreateInvitation`, the two admissions, the withdrawal and the link are proved on their own.

`MandateInv`, of the mandates:

- `Cut`: a mandate lies within the one it was cut from (`Within`), as long as it is not
  revoked itself: its tier, its scope, its window, and ends before the other's revocation.
- `Covered`: whatever was cut from what a cascade found, it found too or is `late`. It is
  what `Subtree`'s closure gives when the statement begins, and what the lock on the target
  keeps.
- `RowsSound`, `ActsSound`: a revocation is dated today or before, and within the window; a
  revocation asks for a later end than its own day.

`Within` relates a mandate to its parent only, so no induction along the chain is needed:
a cascade ends both or neither, and `DelegatesEndToo` says of each step of a chain what
holds of all of it. `Subtree` is the least closed set instead of a recursion for the same
reason.

The exceptions of `SyncTouchesItsOwn` came out of the proof (section 7): without them it
held in the settings the run had and not in larger ones.

Model-checked only: `LeaversLose`, which is liveness.

## 7. Where the code and its comments disagree

One run expects TLC to find a violation. `find_lost_signature`: `release` deletes the
request's slot whoever holds it (`signing/service.go:792`). A ceremony that a timer or
callback has taken, and whose signer begins anew before it releases, so frees the new
ceremony's slot; a second signer begins on the same document, and the later
`RecordSignature` overwrites the earlier signed document, while that signer's row says
signed. The comment at `service.go:24` says the slot serialises the signers because
concurrent signatures cannot be merged.

The models contain further traces of this kind. In most of them what should hold is for the
authors to say; the properties that pass name the exception. Where a comment says
otherwise it is given.

Of a proofing request:

- With manual review, a reconcile that read `needs_review` before a cancel records it
  after, because `RecordOutcome`'s `WHERE` does not look at `cancelled_at`
  (`request_store.go:1445`); at its purge the cancelled request is then rejected: two
  final webhooks, where the comment on `Cancel` (1206) says one.
- `PurgeRequest` asks whether the law keeps the request, and purges in a later
  transaction that does not ask again (`service.go:1792`); an approval recorded in
  between is erased.
- A review's decision whose call failed after the engine took it, and whose notice was
  dropped, is not picked up by the deadline job, which lists only pending and
  in-progress requests (`request_store.go:539`); the comment on `queueChanged`
  (`engine.go:369`) says the job reconciles it anyway.
- `lapseReview` does not take the review's lock (`service.go:1863`): the row may say
  rejected while the engine approved.

Of webhooks and keys:

- A delivery whose transaction began before, and committed between, the snapshots of two
  claims ranks ahead of what the first is taking; more are then in flight than the
  comment on `claimDue` allows (`webhook_store.go:323`).
- A handler that errs after its effect frees its key, and the retry stores a second
  request; the comment on `idempotent` (`idempotency.go:165`) says at most one.

Of a data request: a session held by the law between the read of the matches and its
purge is erased (`data_request.go:626`); a decision that failed half way leaves its
erasures, and a refusal by the law or by a reviewer may follow them
(`RefusalKeepsSure` and `LawRefusalErasesNothing` say when); the search misses sessions
decided meanwhile; a session cancelled from review keeps the face pictures of its result
(`session.go:172`).

Of an organisation (what `stale` stands for):

- `role`, `right`: `UpdateMembership` and `RemoveMembership` read the row before the lock
  that counts the administrators (`member_store.go:473`); two at once may leave none.
- `settings`: a due date computed from a policy that is replaced before it is written.
- `invitation`: `AcceptInvitation` does not look at how many rows its `DELETE` took,
  so one taken back at that moment still admits.
- A run changes what an administrator gave. A call reads an invitation, it is taken back, the
  sync invites the address, that invitation is taken back too while its link stays, and the
  first call admits on the one it read: the next run changes the role of the member that the
  administrator invited. Or: one run has read its links, another lets go of the account, an
  administrator invites the address, and the first run changes that invitation
  (`rehired`, and `stale` with `"invitation"`).
- `address`, `link`: the sync and an administrator invite one address at once; two runs
  overlap (the "sync now" handler beside the scheduler); a crash between
  `CreateInvitation` and `LinkMember` leaves an invitation no run owns; a link is kept
  when an administrator removes by hand and invites again.
- A mandate cut from a child while its grandparent is being revoked outlives both
  (`late`). A removed member's mandates are in force again on re-admission.
- Approving a review locks the review and then the invitation, revoking the invitation
  the other way round: PostgreSQL ends one of them.

Of a signature, beside the run above: the exceptions `late` (a callback after the timer),
`again` (a signer who signed twice) and `declined` (a ceremony that began between the look
at the slot and the decline, `decline.go:43`). A restart loses a delivery under way, which
stays pending.

Of the exchange:

- `Revoke` reads an `offered` row, a poll makes it claimed, and the ledger is then
  revoked without the status list (`attestation/service.go:301`), which its comment says
  never happens.
- Two processes that drain one queue may each retrieve what the other listed; the failed
  retrieve ends the fetch, and what it retrieved before is dropped. `qerdspoller.go:34`
  says the outcome stays correct. A crash or a failed statement after a retrieve loses the
  message in the same way, and one between the store and the notice leaves an offer
  unqueued.
- A slow re-check records an older status over a newer one (`held_store.go:159`).
- A crash or failed statement between redeeming and settling leaves an offer claimed and
  a credential no row names; a failed `SoftDelete` leaves a row whose credential is gone.
- A cancelled offer can still be redeemed at the issuer. A failed hand-over leaves an
  outbound message `submitted`.

## 8. The plan

Done: the core (request, outbox, keys), the exchange, signing, engine sessions, data
requests (with pauses and review items) and the organisation, each with its theorems.

Next, in this order:

1. An abstract outbox that delivers at least once, implemented by `WebhookDelivery`.
2. `EngineRetention` (the settings and the recomputed purge times) and `ProofingPool`: lock order and the connection pool as
   resources, for TLC's deadlock check; `RegulaSweep`: captures erased in the end;
   `Notifications`, shaped as the outbox; `HolderEngines`; reminders and screening;
   address provisioning; the claim of the standard flow.

## 9. What is not modelled

Listed component by component in `PROJECT.json`. Later candidates (2 above): the engine's
capture sweep and retention, notifications, holder engines, reminders and single-use
links, standard flows, rate limiting, the presenter's store, the version lock of flows, the
development bootstrap claim. Never planned: cryptography and document parsing (chips,
PDFs, diplomas: data, not control), the protocol clients of external services, mail
and chat channels, configuration CRUD in single transactions, HTTP plumbing, seeds, and
the web frontend, which keeps no state of the system.

Liveness under fairness stays with TLC; the theorems are about safety.
