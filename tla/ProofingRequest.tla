-------------------------- MODULE ProofingRequest --------------------------
(***************************************************************************)
(* The life of one external identity-proofing request of the wallet        *)
(* (backend/internal/proofing): its row in Postgres, the engine sessions   *)
(* created for it (backend/internal/proofingengine/session), and the       *)
(* handler invocations and jobs that act on the two concurrently, across   *)
(* API replicas.                                                           *)
(*                                                                         *)
(* A handler reads the row without a lock, talks to the engine, and only   *)
(* then writes: each of those is a step of its own, so that any other      *)
(* handler, job, or the subject's phone may act in between.  One database  *)
(* transaction is one step, except the two that call the engine under the  *)
(* row's lock (RequestStore.Cancel and RequestStore.Purge), which are two, *)
(* with the row lock held in between.                                      *)
(*                                                                         *)
(* Time is abstract: a link lapses, a purge time passes and a legal        *)
(* retention ends in steps of their own.  Webhook deliveries and the       *)
(* review's audit events are counted per kind.                             *)
(***************************************************************************)
EXTENDS Naturals, FiniteSets

CONSTANTS
  Handlers,    \* concurrent invocations of API, page and hosted-link handlers
  Jobs,        \* the deadline job's instances (ReconcileDue), one per replica
  Pruners,     \* the pruner's instances (PurgeDue), one per replica
  Sessions,    \* engine session ids
  NoSession,   \* ips_session_id IS NULL
  Free,        \* a lock nobody holds
  WithReview,  \* whether the flow may send a session to manual review
  MaxFaults    \* bound: crashes and lost answers in a run

Workers == Handlers \cup Jobs \cup Pruners

ASSUME ConstantsAssumption ==
  /\ NoSession \notin Sessions
  /\ Free \notin Workers
  /\ WithReview \in BOOLEAN
  /\ MaxFaults \in Nat

VARIABLES
  row,         \* the request's row
  engine,      \* the status of every engine session
  sent,        \* how often each webhook event, and the review audit, was written
  pc,          \* where each worker is
  seen,        \* the row as each worker last read it
  sess,        \* the engine session a worker created and not yet attached
  outcome,     \* the engine outcome a worker is about to record
  rowLock,     \* who holds the row's lock across an engine call
  reviewLock,  \* who holds the review's advisory lock
  linkPast,    \* link_expires_at has passed
  due,         \* purge_at has passed
  holdOver,    \* the org's legal retention holds nothing of the request any more
  faults       \* faults so far

rowVars    == <<row, sent, due>>
workVars   == <<pc, seen, sess, outcome, reviewLock>>
timeVars   == <<linkPast, holdOver>>
vars == <<rowVars, engine, workVars, rowLock, timeVars, faults>>

----------------------------------------------------------------------------
(* Statuses and events.                                                    *)

Unsettled == {"pending", "in_progress"}
Open      == Unsettled \cup {"needs_review"}
Decided   == {"approved", "rejected"}
Outcomes  == Decided \cup {"needs_review"}
RowStatus == {"absent"} \cup Open \cup Decided

(* The engine's opened and in_progress are one: the wallet treats them so. *)
Running      == {"created", "opened"}
CancellableEvenDecided == Running \cup {"needs_review", "approved", "rejected", "cancelled"}  \* mutant
Cancellable  == Running \cup {"needs_review", "cancelled"}
EngineOver   == {"expired", "cancelled", "deleted"}
EngineStatus == {"none"} \cup Running \cup Outcomes \cup EngineOver

Events == {"created", "started", "verified", "failed", "review_opened",
           "expired", "cancelled", "purged", "review_decided"}

OutcomeEvent(status) == CASE status = "approved" -> "verified"
                          [] status = "rejected" -> "failed"
                          [] OTHER -> "review_opened"

NotMade == [status |-> "absent", session |-> NoSession, hosted |-> FALSE, fits |-> FALSE,
            photo |-> FALSE, name |-> FALSE, ended |-> FALSE, cancelled |-> FALSE, purged |-> FALSE]

Nothing  == [status |-> "absent", session |-> NoSession]
Snapshot == [status |-> row.status, session |-> row.session]

Places == {"idle", "insert", "start", "attach", "discard",
           "status", "markStarted", "endSession", "full", "record",
           "cancel", "cancelReread", "cancel2", "decline", "cancelCommit",
           "held", "lapse", "purge", "purgeReread", "purge2", "purgeCommit",
           "review", "decide", "audit"}

----------------------------------------------------------------------------
(* What a read of the row answers.                                         *)

(* Request.awaitingStart: a hosted link its subject has not started yet.   *)
AwaitingStart == /\ row.hosted /\ row.session = NoSession /\ ~row.purged
                 /\ row.status = "pending" /\ ~linkPast

(* Request.needsReconcile: the engine may hold a newer state than the row. *)
NeedsReconcile == row.session # NoSession /\ row.status \in Open /\ ~row.ended

(* cancelOnce's test of EffectiveStatus: pending or in progress, the       *)
(* session live.  A cap that has passed only makes the handler give up.    *)
MayCancel == /\ row.status \in Unsettled /\ ~row.cancelled /\ ~row.purged
             /\ AwaitingStart \/ (row.session # NoSession /\ ~row.ended)

(* legalHeld: the org's legal retention keeps an approved identity check.  *)
Held == row.status = "approved" /\ ~row.purged /\ ~holdOver

(* settledAt has passed: the request ended, was decided or sent to review, *)
(* or its session's or unstarted link's cap is behind it.                  *)
SettledInPast ==
  \/ row.ended
  \/ row.status \in Outcomes
  \/ row.status \in Unsettled /\ row.session # NoSession /\ engine[row.session] \notin Running
  \/ row.status = "pending" /\ row.session = NoSession /\ linkPast

----------------------------------------------------------------------------
(* What a worker does next.                                                *)

At(w, place) == pc[w] = place

GoTo(w, place) == pc' = [pc EXCEPT ![w] = place]

Step(w, place) == GoTo(w, place) /\ UNCHANGED <<seen, sess, outcome, reviewLock>>

ReadThen(w, place) == /\ seen' = [seen EXCEPT ![w] = Snapshot]
                      /\ GoTo(w, place)
                      /\ UNCHANGED <<sess, outcome, reviewLock>>

(* The handler returns: its locals go, and with them the review lock.      *)
Done(w) == /\ GoTo(w, "idle")
           /\ seen' = [seen EXCEPT ![w] = Nothing]
           /\ sess' = [sess EXCEPT ![w] = NoSession]
           /\ outcome' = [outcome EXCEPT ![w] = "none"]
           /\ reviewLock' = IF reviewLock = w THEN Free ELSE reviewLock

Tell(event) == sent' = [sent EXCEPT ![event] = @ + 1]

(* ips_session_id = $2 in a write's WHERE: the session worker w read.      *)
SameSession(w) == row.session # NoSession /\ row.session = seen[w].session

(* A write of the row recomputes purge_at (refreshPurgeAt) in its own      *)
(* transaction; PurgeTimePasses says when the new one has passed.          *)
Write(newRow) == row' = newRow /\ due' = FALSE

----------------------------------------------------------------------------
(* Creating the request and starting its session.                          *)

NewRow(hosted, photo, fits) ==
  [NotMade EXCEPT !.status = "pending", !.hosted = hosted, !.photo = photo, !.fits = fits]

NotRequested == row = NotMade /\ \A w \in Workers : pc[w] = "idle"

(* createHosted: the row with its link; no engine session yet.             *)
CreateHosted(w) ==
  /\ NotRequested
  /\ \E photo, fits \in BOOLEAN : Write(NewRow(TRUE, photo, fits))
  /\ UNCHANGED <<sent, engine, workVars, rowLock, timeVars, faults>>

(* The engine creates a session for worker w.                              *)
EngineCreates(w) ==
  \E s \in Sessions : /\ engine[s] = "none"
                      /\ engine' = [engine EXCEPT ![s] = "created"]
                      /\ sess' = [sess EXCEPT ![w] = s]

(* CreateRequest, for a request mailed or shown on screen: the engine      *)
(* session first, then the row, then the two are attached.                 *)
CreateSession(w) ==
  /\ NotRequested
  /\ EngineCreates(w)
  /\ GoTo(w, "insert")
  /\ UNCHANGED <<rowVars, seen, outcome, reviewLock, rowLock, timeVars, faults>>

InsertRow(w) ==
  /\ At(w, "insert")
  /\ \E fits \in BOOLEAN : Write(NewRow(FALSE, FALSE, fits))
  /\ Step(w, "attach")
  /\ UNCHANGED <<sent, engine, rowLock, timeVars, faults>>

(* The insert's answer is an error, whether or not it committed.           *)
InsertFails(w) ==
  /\ At(w, "insert") /\ faults < MaxFaults
  /\ \/ \E fits \in BOOLEAN : Write(NewRow(FALSE, FALSE, fits))
     \/ UNCHANGED <<row, due>>
  /\ Step(w, "discard")
  /\ faults' = faults + 1
  /\ UNCHANGED <<sent, engine, rowLock, timeVars>>

(* startHosted reads the row, then creates the session of the app picked.  *)
StartHosted(w) ==
  /\ At(w, "idle") /\ AwaitingStart /\ ~row.cancelled
  /\ Step(w, "start")
  /\ UNCHANGED <<rowVars, engine, rowLock, timeVars, faults>>

StartSession(w) ==
  /\ At(w, "start")
  /\ EngineCreates(w)
  /\ GoTo(w, "attach")
  /\ UNCHANGED <<rowVars, seen, outcome, reviewLock, rowLock, timeVars, faults>>

(* Mutant: a row that has a session already is attached to again.          *)
AttachableAgain == row.status = "pending" /\ ~row.purged /\ ~row.cancelled /\ ~row.ended

(* RequestStore.AttachSession's WHERE.                                     *)
Attachable == /\ row.session = NoSession /\ row.status = "pending"
              /\ ~row.purged /\ ~row.cancelled /\ ~row.ended

AttachedWithPhoto(s) == [row EXCEPT !.session = s]  \* mutant

Attached(s) == [row EXCEPT !.session = s, !.photo = FALSE]

AttachSession(w) ==
  /\ At(w, "attach") /\ rowLock = Free /\ Attachable
  /\ Write(Attached(sess[w])) /\ Tell("created")
  /\ Done(w)
  /\ UNCHANGED <<engine, rowLock, timeVars, faults>>

(* Mutant: a session that was not attached is left in the engine.          *)
AttachRefusedKept(w) ==
  /\ At(w, "attach") /\ rowLock = Free /\ ~Attachable
  /\ Done(w)
  /\ UNCHANGED <<rowVars, engine, rowLock, timeVars, faults>>

(* Not attached: the row has a session already, or ended.                  *)
AttachRefused(w) ==
  /\ At(w, "attach") /\ rowLock = Free /\ ~Attachable
  /\ Step(w, "discard")
  /\ UNCHANGED <<rowVars, engine, rowLock, timeVars, faults>>

(* The attach committed, but its answer was lost: the handler discards a   *)
(* session the row now holds.                                              *)
AttachUnknown(w) ==
  /\ At(w, "attach") /\ rowLock = Free /\ Attachable /\ faults < MaxFaults
  /\ Write(Attached(sess[w])) /\ Tell("created")
  /\ Step(w, "discard")
  /\ faults' = faults + 1
  /\ UNCHANGED <<engine, rowLock, timeVars>>

(* discardSession: the engine erases the session no request holds.         *)
DiscardSession(w) ==
  /\ At(w, "discard")
  /\ engine' = [engine EXCEPT ![sess[w]] = "deleted"]
  /\ Done(w)
  /\ UNCHANGED <<rowVars, rowLock, timeVars, faults>>

----------------------------------------------------------------------------
(* Reconciling the row with the engine: a change notice (SessionChanged),  *)
(* a read of the request (readReconciled), or the deadline job.            *)

(* Mutant: the job forgets the sessions already in progress.               *)
PastDeadlineUnstarted == row.status = "pending" /\ engine[row.session] \notin Running

(* The job lists a session only past its cap, and only while the subject   *)
(* is expected to act (liveSessionWhere); the engine then reads a running  *)
(* session as expired.                                                     *)
PastDeadline == row.status \in Unsettled /\ engine[row.session] \notin Running

ReadToReconcile(w) ==
  /\ At(w, "idle") /\ NeedsReconcile
  /\ w \in Jobs => PastDeadline
  /\ ReadThen(w, "status")
  /\ UNCHANGED <<rowVars, engine, rowLock, timeVars, faults>>

(* Mutant: the rejection's error code is stored as the status.             *)
VerdictAsErrorCode(status) ==
  IF status = "approved" /\ ~row.fits THEN "assurance_not_met" ELSE status

(* judgeApproval: an approval below the request's assurance level, or of   *)
(* someone else than the person it expects, is a rejection.                *)
Verdict(status) == IF status = "approved" /\ ~row.fits THEN "rejected" ELSE status

(* tryReconcile up to its write.  A session the engine no longer knows is  *)
(* taken as expired.                                                       *)
ReadStatus(w) ==
  /\ At(w, "status")
  /\ LET found == engine[seen[w].session] IN
     \/ /\ found = "created" \/ (found = "opened" /\ seen[w].status # "pending")
        /\ Done(w)
     \/ found = "opened" /\ seen[w].status = "pending" /\ Step(w, "markStarted")
     \/ found \in EngineOver /\ Step(w, "endSession")
     \/ found \in Outcomes /\ Verdict(found) = seen[w].status /\ Done(w)
     \/ /\ found \in Outcomes /\ Verdict(found) # seen[w].status
        /\ outcome' = [outcome EXCEPT ![w] = Verdict(found)]
        /\ GoTo(w, IF Verdict(found) = "approved" THEN "full" ELSE "record")
        /\ UNCHANGED <<seen, sess, reviewLock>>
  /\ UNCHANGED <<rowVars, engine, rowLock, timeVars, faults>>

(* recordDecision reads the approved person's name before it records the   *)
(* approval; an engine that erased the session meanwhile ends it there.    *)
ReadFull(w) ==
  /\ At(w, "full")
  /\ IF engine[seen[w].session] = "deleted" THEN Done(w) ELSE Step(w, "record")
  /\ UNCHANGED <<rowVars, engine, rowLock, timeVars, faults>>

(* Mutant: MarkStarted does not look at cancelled_at and session_ended_at. *)
MarkStartedLate(w) ==
  /\ At(w, "markStarted") /\ rowLock = Free
  /\ IF SameSession(w) /\ row.status = "pending" /\ ~row.purged
     THEN Write([row EXCEPT !.status = "in_progress"]) /\ Tell("started")
     ELSE UNCHANGED rowVars
  /\ Done(w)
  /\ UNCHANGED <<engine, rowLock, timeVars, faults>>

MarkStarted(w) ==
  /\ At(w, "markStarted") /\ rowLock = Free
  /\ IF /\ SameSession(w) /\ row.status = "pending"
        /\ ~row.purged /\ ~row.cancelled /\ ~row.ended
     THEN Write([row EXCEPT !.status = "in_progress"]) /\ Tell("started")
     ELSE UNCHANGED rowVars
  /\ Done(w)
  /\ UNCHANGED <<engine, rowLock, timeVars, faults>>

(* Mutant: an end already recorded is recorded again.                      *)
EndSessionAgain(w) ==
  /\ At(w, "endSession") /\ rowLock = Free
  /\ IF SameSession(w) /\ row.status \in Open /\ ~row.purged
     THEN Write([row EXCEPT !.ended = TRUE]) /\ Tell("expired")
     ELSE UNCHANGED rowVars
  /\ Done(w)
  /\ UNCHANGED <<engine, rowLock, timeVars, faults>>

EndSession(w) ==
  /\ At(w, "endSession") /\ rowLock = Free
  /\ IF /\ SameSession(w) /\ row.status \in Open
        /\ ~row.ended /\ ~row.purged
     THEN Write([row EXCEPT !.ended = TRUE]) /\ Tell("expired")
     ELSE UNCHANGED rowVars
  /\ Done(w)
  /\ UNCHANGED <<engine, rowLock, timeVars, faults>>

(* Mutants: an outcome replaces another decision; one lands on a purged    *)
(* row.                                                                    *)
StoreOutcomeOverDecision(w, status) ==
  IF SameSession(w) /\ ~row.purged /\ row.status # status
  THEN /\ Write([row EXCEPT !.status = status, !.name = (status = "approved")])
       /\ Tell(OutcomeEvent(status))
  ELSE UNCHANGED rowVars

StoreOutcomeOnPurged(w, status) ==
  IF SameSession(w) /\ row.status \in Open /\ row.status # status
  THEN /\ Write([row EXCEPT !.status = status, !.name = (status = "approved")])
       /\ Tell(OutcomeEvent(status))
  ELSE UNCHANGED rowVars

(* RequestStore.RecordOutcome of status, for the session worker w read.    *)
StoreOutcome(w, status) ==
  IF /\ SameSession(w) /\ ~row.purged
     /\ row.status \in Open /\ row.status # status
  THEN /\ Write([row EXCEPT !.status = status, !.name = (status = "approved")])
       /\ Tell(OutcomeEvent(status))
  ELSE UNCHANGED rowVars

RecordOutcome(w) ==
  /\ At(w, "record") /\ rowLock = Free
  /\ StoreOutcome(w, outcome[w])
  /\ Done(w)
  /\ UNCHANGED <<engine, rowLock, timeVars, faults>>

(* Mutant: the lapsed link is looked for among the requests in progress.   *)
LapseLinksStarted(w) ==
  /\ At(w, "idle") /\ rowLock = Free
  /\ row.hosted /\ row.session = NoSession /\ ~row.ended /\ row.status = "in_progress" /\ linkPast
  /\ Write([row EXCEPT !.ended = TRUE, !.photo = FALSE]) /\ Tell("expired")
  /\ UNCHANGED <<engine, workVars, rowLock, timeVars, faults>>

(* LapseLinks: the deadline job ends a hosted request never started.  A    *)
(* row another transaction holds is skipped.                               *)
LapseLinks(w) ==
  /\ At(w, "idle") /\ rowLock = Free
  /\ row.hosted /\ row.session = NoSession /\ ~row.ended /\ row.status = "pending" /\ linkPast
  /\ Write([row EXCEPT !.ended = TRUE, !.photo = FALSE]) /\ Tell("expired")
  /\ UNCHANGED <<engine, workVars, rowLock, timeVars, faults>>

----------------------------------------------------------------------------
(* Cancelling: CancelRequest, and DeclineHosted on the link's own page.    *)

CancelRead(w) ==
  /\ At(w, "idle") /\ MayCancel
  /\ ReadThen(w, "cancel")
  /\ UNCHANGED <<rowVars, engine, rowLock, timeVars, faults>>

DeclineRead(w) ==
  /\ At(w, "idle") /\ AwaitingStart /\ ~row.cancelled
  /\ ReadThen(w, "decline")
  /\ UNCHANGED <<rowVars, engine, rowLock, timeVars, faults>>

RowCancellableEnded == ~row.cancelled /\ ~row.purged /\ row.status \in Unsettled  \* mutant

(* RequestStore.Cancel's cancellable rows.                                 *)
RowCancellable == ~row.cancelled /\ ~row.purged /\ ~row.ended /\ row.status \in Unsettled

AtCancel(w) == pc[w] \in {"cancel", "cancel2", "decline"} /\ rowLock = Free

CancelledRow == [row EXCEPT !.cancelled = TRUE, !.ended = TRUE, !.photo = FALSE]

CancelRefused(w) ==
  /\ AtCancel(w) /\ ~RowCancellable
  /\ Done(w)
  /\ UNCHANGED <<rowVars, engine, rowLock, timeVars, faults>>

(* errCancelSessionMoved: a start attached a session since the read.  The  *)
(* API reads the request again, once; the link's page gives up.            *)
CancelMoved(w) ==
  /\ AtCancel(w) /\ RowCancellable /\ row.session # seen[w].session
  /\ IF At(w, "cancel") THEN Step(w, "cancelReread") ELSE Done(w)
  /\ UNCHANGED <<rowVars, engine, rowLock, timeVars, faults>>

CancelReread(w) ==
  /\ At(w, "cancelReread")
  /\ IF MayCancel THEN ReadThen(w, "cancel2") ELSE Done(w)
  /\ UNCHANGED <<rowVars, engine, rowLock, timeVars, faults>>

CancelUnstarted(w) ==
  /\ AtCancel(w) /\ RowCancellable
  /\ row.session = NoSession /\ seen[w].session = NoSession
  /\ Write(CancelledRow) /\ Tell("cancelled")
  /\ Done(w)
  /\ UNCHANGED <<engine, rowLock, timeVars, faults>>

(* Mutant: the engine is told without the row's lock.                      *)
CancelUnlocked(w) ==
  /\ AtCancel(w) /\ RowCancellable /\ SameSession(w)
  /\ IF engine[row.session] \in Cancellable
     THEN /\ engine' = [engine EXCEPT ![row.session] = "cancelled"]
          /\ Step(w, "cancelCommit")
     ELSE Done(w) /\ UNCHANGED engine
  /\ UNCHANGED <<rowVars, rowLock, timeVars, faults>>

(* With a session, the engine is told first, under the row's lock; one     *)
(* that decided already, or is gone, rolls the cancel back.                *)
CancelInEngine(w) ==
  /\ AtCancel(w) /\ RowCancellable /\ SameSession(w)
  /\ IF engine[row.session] \in Cancellable
     THEN /\ engine' = [engine EXCEPT ![row.session] = "cancelled"]
          /\ rowLock' = w
          /\ Step(w, "cancelCommit")
     ELSE Done(w) /\ UNCHANGED <<engine, rowLock>>
  /\ UNCHANGED <<rowVars, timeVars, faults>>

CancelCommit(w) ==
  /\ At(w, "cancelCommit")
  /\ Write(CancelledRow) /\ Tell("cancelled")
  /\ rowLock' = Free
  /\ Done(w)
  /\ UNCHANGED <<engine, timeVars, faults>>

----------------------------------------------------------------------------
(* Purging: PurgeRequest over the API, PurgeDue in the pruner.             *)

PurgeRead(w) ==
  /\ At(w, "idle") /\ row # NotMade /\ ~row.purged
  /\ ReadThen(w, "held")
  /\ UNCHANGED <<rowVars, engine, rowLock, timeVars, faults>>

(* HeldUntil, a read of its own: an approval the law keeps is refused.     *)
HeldCheck(w) ==
  /\ At(w, "held")
  /\ IF Held THEN Done(w) ELSE Step(w, "purge")
  /\ UNCHANGED <<rowVars, engine, rowLock, timeVars, faults>>

(* Mutant: requests in review are never listed.                            *)
ListPurgeDueDecided(w) ==
  /\ At(w, "idle") /\ due /\ ~row.purged /\ row.status # "needs_review"
  /\ ReadThen(w, "purge")
  /\ UNCHANGED <<rowVars, engine, rowLock, timeVars, faults>>

(* ListPurgeDue; a review still open is rejected before its purge.         *)
ListPurgeDue(w) ==
  /\ At(w, "idle") /\ due /\ ~row.purged
  /\ ReadThen(w, IF row.status = "needs_review" THEN "lapse" ELSE "purge")
  /\ UNCHANGED <<rowVars, engine, rowLock, timeVars, faults>>

LapseReview(w) ==
  /\ At(w, "lapse") /\ rowLock = Free
  /\ StoreOutcome(w, "rejected")
  /\ Step(w, "purge")
  /\ UNCHANGED <<engine, rowLock, timeVars, faults>>

AtPurge(w) == pc[w] \in {"purge", "purge2"} /\ rowLock = Free

PurgedRow == [row EXCEPT !.purged = TRUE, !.ended = TRUE, !.photo = FALSE, !.name = FALSE]

PurgeAlreadyDone(w) ==
  /\ AtPurge(w) /\ row.purged
  /\ Done(w)
  /\ UNCHANGED <<rowVars, engine, rowLock, timeVars, faults>>

(* errPurgeSessionMoved: the request got a session since it was read; it   *)
(* is read again, once.                                                    *)
PurgeMoved(w) ==
  /\ AtPurge(w) /\ ~row.purged /\ row.session # seen[w].session
  /\ IF At(w, "purge") THEN Step(w, "purgeReread") ELSE Done(w)
  /\ UNCHANGED <<rowVars, engine, rowLock, timeVars, faults>>

PurgeReread(w) ==
  /\ At(w, "purgeReread")
  /\ ReadThen(w, "purge2")
  /\ UNCHANGED <<rowVars, engine, rowLock, timeVars, faults>>

(* Mutant: the row is purged whatever session it got since it was read.    *)
PurgeUnmatched(w) ==
  /\ AtPurge(w) /\ ~row.purged /\ seen[w].session = NoSession
  /\ Write(PurgedRow) /\ Tell("purged")
  /\ Done(w)
  /\ UNCHANGED <<engine, rowLock, timeVars, faults>>

PurgeUnstarted(w) ==
  /\ AtPurge(w) /\ ~row.purged
  /\ row.session = NoSession /\ seen[w].session = NoSession
  /\ Write(PurgedRow) /\ Tell("purged")
  /\ Done(w)
  /\ UNCHANGED <<engine, rowLock, timeVars, faults>>

(* Mutant: a purged row is purged again.                                   *)
PurgeInEngineAgain(w) ==
  /\ AtPurge(w) /\ SameSession(w)
  /\ engine' = [engine EXCEPT ![row.session] = "deleted"]
  /\ rowLock' = w
  /\ Step(w, "purgeCommit")
  /\ UNCHANGED <<rowVars, timeVars, faults>>

(* The engine erases the session under the row's lock, then the wallet     *)
(* commits.                                                                *)
PurgeInEngine(w) ==
  /\ AtPurge(w) /\ ~row.purged /\ SameSession(w)
  /\ engine' = [engine EXCEPT ![row.session] = "deleted"]
  /\ rowLock' = w
  /\ Step(w, "purgeCommit")
  /\ UNCHANGED <<rowVars, timeVars, faults>>

PurgeCommit(w) ==
  /\ At(w, "purgeCommit")
  /\ Write(PurgedRow) /\ Tell("purged")
  /\ rowLock' = Free
  /\ Done(w)
  /\ UNCHANGED <<engine, timeVars, faults>>

----------------------------------------------------------------------------
(* Deciding a review (DecideReview, decideEngineReview).                   *)

(* A call on a request not under review ends at its read, so only a call   *)
(* that may find one is modelled.                                          *)
LockReview(w) ==
  /\ At(w, "idle") /\ row.status = "needs_review" /\ reviewLock = Free
  /\ reviewLock' = w
  /\ GoTo(w, "review")
  /\ UNCHANGED <<rowVars, seen, sess, outcome, engine, rowLock, timeVars, faults>>

ReadReview(w) ==
  /\ At(w, "review")
  /\ IF row.status = "needs_review" /\ ~row.purged /\ ~row.ended
     THEN ReadThen(w, "decide") ELSE Done(w)
  /\ UNCHANGED <<rowVars, engine, rowLock, timeVars, faults>>

(* Mutant: the engine's refusal of a decision is not heard.                *)
DecideUnheard(w) ==
  /\ At(w, "decide")
  /\ LET s == seen[w].session IN
     IF engine[s] = "needs_review"
     THEN \E verdict \in Decided : engine' = [engine EXCEPT ![s] = verdict]
     ELSE UNCHANGED engine
  /\ Step(w, "audit")
  /\ UNCHANGED <<rowVars, rowLock, timeVars, faults>>

(* The engine settles the session as the reviewer decided.  One it no      *)
(* longer holds under review is read back instead, one erased is an error. *)
DecideInEngine(w) ==
  /\ At(w, "decide")
  /\ LET s == seen[w].session IN
     CASE engine[s] = "needs_review" ->
            /\ \E verdict \in Decided : engine' = [engine EXCEPT ![s] = verdict]
            /\ Step(w, "audit")
       [] engine[s] = "deleted" -> Done(w) /\ UNCHANGED engine
       [] OTHER -> Step(w, "status") /\ UNCHANGED engine
  /\ UNCHANGED <<rowVars, rowLock, timeVars, faults>>

(* RecordReviewDecision, never on a purged row; then the row is reconciled *)
(* from what this call read.                                               *)
AuditDecision(w) ==
  /\ At(w, "audit") /\ rowLock = Free
  /\ IF row.purged
     THEN Done(w) /\ UNCHANGED sent
     ELSE Tell("review_decided") /\ Step(w, "status")
  /\ UNCHANGED <<row, due, engine, rowLock, timeVars, faults>>

----------------------------------------------------------------------------
(* A replica dies, or a call is given up on an error: the transaction and  *)
(* the locks it held are gone, what the engine did stays.                  *)
Crash(w) ==
  /\ pc[w] # "idle" /\ faults < MaxFaults
  /\ faults' = faults + 1
  /\ rowLock' = IF rowLock = w THEN Free ELSE rowLock
  /\ Done(w)
  /\ UNCHANGED <<rowVars, engine, timeVars>>

----------------------------------------------------------------------------
(* The subject's phone and the engine, on the session the request holds:   *)
(* no code or link of another one is ever shown.                           *)

EngineMoves(from, to) ==
  /\ row.session # NoSession /\ engine[row.session] \in from
  /\ engine' = [engine EXCEPT ![row.session] = to]
  /\ UNCHANGED <<rowVars, workVars, rowLock, timeVars, faults>>

EngineOpens    == EngineMoves({"created"}, "opened")

Findings == Decided \cup (IF WithReview THEN {"needs_review"} ELSE {})

(* The phone submits to an opened session; a Yivi disclosure (and, to      *)
(* reject, a failed document scan) decides in one write a session that was *)
(* never opened, a disclosure also one that awaits its review.             *)
EngineFinishes == \E result \in Findings : EngineMoves({"opened"}, result)
EngineAccepts  == \E result \in Findings : EngineMoves(Running \cup {"needs_review"}, result)
EngineExpires  == EngineMoves(Running, "expired")

CaughtUp == row.status \in Decided \/ row.ended

(* The retention job erases a finished session.  It does so long after it  *)
(* finished: the wallet knows by then, or was down all that time (a fault).*)
EngineRemoves ==
  /\ row.session # NoSession
  /\ engine[row.session] \in Decided \cup {"expired", "cancelled"}
  /\ engine' = [engine EXCEPT ![row.session] = "deleted"]
  /\ \/ CaughtUp /\ UNCHANGED faults
     \/ ~CaughtUp /\ faults < MaxFaults /\ faults' = faults + 1
  /\ UNCHANGED <<rowVars, workVars, rowLock, timeVars>>

(* Time.                                                                   *)

LinkLapses ==
  /\ row # NotMade /\ ~linkPast
  /\ linkPast' = TRUE
  /\ UNCHANGED <<rowVars, engine, workVars, rowLock, holdOver, faults>>

LegalHoldEnds ==
  /\ Held
  /\ holdOver' = TRUE
  /\ UNCHANGED <<rowVars, engine, workVars, rowLock, linkPast, faults>>

PurgeTimePasses ==
  /\ row # NotMade /\ ~row.purged /\ ~due /\ SettledInPast /\ ~Held
  /\ due' = TRUE
  /\ UNCHANGED <<row, sent, engine, workVars, rowLock, timeVars, faults>>

----------------------------------------------------------------------------
Init ==
  /\ row = NotMade
  /\ engine = [s \in Sessions |-> "none"]
  /\ sent = [e \in Events |-> 0]
  /\ pc = [w \in Workers |-> "idle"]
  /\ seen = [w \in Workers |-> Nothing]
  /\ sess = [w \in Workers |-> NoSession]
  /\ outcome = [w \in Workers |-> "none"]
  /\ rowLock = Free
  /\ reviewLock = Free
  /\ linkPast = FALSE
  /\ due = FALSE
  /\ holdOver \in BOOLEAN
  /\ faults = 0

(* What starts a call ...                                                  *)
HandlerStarts(w) == \/ CreateHosted(w) \/ CreateSession(w) \/ StartHosted(w)
                    \/ ReadToReconcile(w) \/ CancelRead(w) \/ DeclineRead(w)
                    \/ PurgeRead(w) \/ LockReview(w)
JobStarts(w)     == LapseLinks(w) \/ ReadToReconcile(w)
PrunerStarts(w)  == ListPurgeDue(w)

(* ... and what carries one on.                                            *)
Starting(w)    == \/ InsertRow(w) \/ InsertFails(w) \/ StartSession(w) \/ AttachSession(w)
                  \/ AttachRefused(w) \/ AttachUnknown(w) \/ DiscardSession(w)
Reconciling(w) == \/ ReadStatus(w) \/ ReadFull(w) \/ MarkStarted(w) \/ EndSession(w)
                  \/ RecordOutcome(w)
Cancelling(w)  == \/ CancelRefused(w) \/ CancelMoved(w) \/ CancelReread(w)
                  \/ CancelUnstarted(w) \/ CancelInEngine(w) \/ CancelCommit(w)
Purging(w)     == \/ HeldCheck(w) \/ LapseReview(w) \/ PurgeAlreadyDone(w) \/ PurgeMoved(w)
                  \/ PurgeReread(w) \/ PurgeUnstarted(w) \/ PurgeInEngine(w) \/ PurgeCommit(w)
Reviewing(w)   == ReadReview(w) \/ DecideInEngine(w) \/ AuditDecision(w)

CarriesOn(w) == Starting(w) \/ Reconciling(w) \/ Cancelling(w) \/ Purging(w) \/ Reviewing(w)

Engine == EngineOpens \/ EngineFinishes \/ EngineAccepts \/ EngineExpires \/ EngineRemoves
Time   == LinkLapses \/ LegalHoldEnds \/ PurgeTimePasses

Next == \/ \E w \in Handlers : HandlerStarts(w)
        \/ \E w \in Jobs : JobStarts(w)
        \/ \E w \in Pruners : PrunerStarts(w)
        \/ \E w \in Workers : CarriesOn(w) \/ Crash(w)
        \/ Engine \/ Time

Spec == Init /\ [][Next]_vars

(* A call that began is carried on; the deadline job and the pruner run    *)
(* again and again; a running session reaches its cap, and a link lapses.  *)
Fairness == /\ \A w \in Workers : WF_vars(CarriesOn(w))
            /\ \A w \in Jobs : WF_vars(JobStarts(w))
            /\ \A w \in Pruners : WF_vars(PrunerStarts(w))
            /\ WF_vars(EngineExpires) /\ WF_vars(LinkLapses)

FairSpec == Spec /\ Fairness

----------------------------------------------------------------------------
(* What the code keeps true.                                               *)

Webhooks == Events \ {"review_decided"}

Session == Sessions \cup {NoSession}

Rows == [status : RowStatus, session : Session, hosted : BOOLEAN, fits : BOOLEAN,
         photo : BOOLEAN, name : BOOLEAN, ended : BOOLEAN, cancelled : BOOLEAN,
         purged : BOOLEAN]

(* Every variable has its type: the row's columns, each worker's locals,   *)
(* the two locks and the clocks.                                           *)
TypeOK ==
  /\ row \in Rows
  /\ engine \in [Sessions -> EngineStatus]
  /\ sent \in [Events -> Nat]
  /\ pc \in [Workers -> Places]
  /\ seen \in [Workers -> [status : RowStatus, session : Session]]
  /\ sess \in [Workers -> Session]
  /\ outcome \in [Workers -> Outcomes \cup {"none"}]
  /\ rowLock \in Workers \cup {Free}
  /\ reviewLock \in Workers \cup {Free}
  /\ linkPast \in BOOLEAN /\ due \in BOOLEAN /\ holdOver \in BOOLEAN
  /\ faults \in Nat

(* A purged request holds no personal data, and the engine holds none for  *)
(* it either: not the session a start attached while the purge was under   *)
(* way, not one attached after the purge read the row (errPurgeSessionMoved). *)
PurgedErased ==
  row.purged => /\ ~row.photo /\ ~row.name
                /\ row.session # NoSession => engine[row.session] = "deleted"

(* However many notices, polls, jobs, reviewers and pruners see a decision *)
(* at once, it is stored and sent once, and the one sent is the one stored *)
(* (RecordOutcome).                                                        *)
OutcomeOnce ==
  /\ sent["verified"] = (IF row.status = "approved" THEN 1 ELSE 0)
  /\ sent["failed"]   = (IF row.status = "rejected" THEN 1 ELSE 0)

(* A request ends undecided once: it is told cancelled or expired, never   *)
(* both and never twice, and only once its row says it ended.              *)
EndsOnce ==
  /\ sent["cancelled"] = (IF row.cancelled THEN 1 ELSE 0)
  /\ sent["cancelled"] + sent["expired"] <= (IF row.ended THEN 1 ELSE 0)

(* A cancelled request is never approved after all: the engine's session   *)
(* was cancelled before the row said so, so no decision can still come.    *)
CancelledNeverApproved ==
  row.cancelled => /\ row.status # "approved"
                   /\ row.session # NoSession => engine[row.session] \in {"cancelled", "deleted"}

(* "A session is attached once, so the second read holds the last one":    *)
(* CancelRequest and purge reread a moved request only once.               *)
SecondReadHolds ==
  \A w \in Workers : pc[w] \in {"cancel2", "purge2"} => seen[w].session = row.session

(* The reference photo is held only for a hosted link that may still be    *)
(* started (or lapsed and is about to be ended).                           *)
PhotoOnlyUntilStart ==
  row.photo => row.hosted /\ row.session = NoSession /\ row.status = "pending" /\ ~row.ended

(* A reviewer's decision is audited at most once, and only for a session   *)
(* the engine decided (or that was erased since).                          *)
DecisionAuditedOnce ==
  /\ sent["review_decided"] <= 1
  /\ sent["review_decided"] = 1 => engine[row.session] \in Decided \cup {"deleted"}

(* Every engine session no request holds is in the hands of a worker that  *)
(* attaches or erases it, or was left by a fault (discardSession).         *)
NoOrphans ==
  Cardinality({s \in Sessions : /\ engine[s] \notin {"none", "deleted"} /\ s # row.session
                                /\ \A w \in Workers : sess[w] # s}) <= faults

(* How the request reads (EffectiveStatus), or that it was erased.         *)
Phase == IF row.status = "absent" THEN "none"
         ELSE IF row.purged THEN "purged"
         ELSE IF row.cancelled THEN "cancelled"
         ELSE IF row.status \in Decided THEN row.status
         ELSE IF row.ended THEN "expired"
         ELSE IF row.status = "needs_review" THEN "review"
         ELSE IF row.status = "in_progress" THEN "started"
         ELSE IF row.session = NoSession THEN "waiting" ELSE "sent"

Lifecycle == INSTANCE ProofingLifecycle WITH phase <- Phase, LateOutcome <- MaxFaults > 0

(* Whatever runs concurrently, the request reads as ProofingLifecycle      *)
(* promises; only a fault (an attached session erased as unattached, an    *)
(* erasure that died half way) may let an outcome overtake an expiry.      *)
FollowsLifecycle == Lifecycle!Spec

(* A purged request never changes again, whatever call is still under way. *)
PurgeIsFinal == [][row.purged => row' = row]_row

(* session.purged is the last webhook of a request.                        *)
PurgedToldLast == [][sent["purged"] > 0 => \A e \in Webhooks : sent'[e] = sent[e]]_sent

(* A late "opened" never follows an end or an outcome (MarkStarted).       *)
NoLateStart ==
  [][sent'["started"] > sent["started"] =>
       \A e \in Webhooks \ {"created"} : sent[e] = 0]_sent

(* Without a fault, a request is told expired only when its link lapsed or *)
(* the engine's session did: the wallet's own cancel or erasure is never   *)
(* taken for an expiry (Cancel and Purge call the engine under the row's   *)
(* lock).                                                                  *)
ExpiryIsReal ==
  [][sent'["expired"] > sent["expired"] /\ faults = 0 =>
       row.session = NoSession \/ engine[row.session] = "expired"]_vars

Ends == sent["verified"] + sent["failed"] + sent["expired"] + sent["cancelled"]

(* A request that never went to review is told one end, verified, failed,  *)
(* expired or cancelled, whatever calls of it race (Cancel: "so one cancel *)
(* sends one final webhook").                                              *)
ToldOneEnd == faults = 0 /\ sent["review_opened"] = 0 => Ends <= 1

(* The deadline job brings every session that ended or was decided while   *)
(* the subject was at it to the row, even when every change notice is lost. *)
Settles == (row.status \in Unsettled /\ row.session # NoSession /\ engine[row.session] \notin Running)
             ~> (row.status \notin Unsettled \/ row.ended)

(* An unstarted link does not stay open once it lapsed.                    *)
LinksLapse == (row.hosted /\ row.session = NoSession /\ linkPast) ~> (row.ended \/ row.session # NoSession)

(* What is due for purge is purged, unless a write moved its purge time.   *)
PurgedWhenDue == due ~> (row.purged \/ ~due)

(* What a request is told of its outcome and of its end, it is told once   *)
(* (OutcomeOnce, EndsOnce).                                                *)
OutcomeAndEndOnce == OutcomeOnce /\ EndsOnce

(* An erased request keeps neither the name nor the photo, and the photo   *)
(* goes as soon as it has served (PurgedErased, PhotoOnlyUntilStart).      *)
DataGone == PurgedErased /\ PhotoOnlyUntilStart

(* No webhook comes after one that says it is too late for it: no start    *)
(* after an end or an outcome, nothing after the purge.                    *)
WebhooksInOrder == NoLateStart /\ PurgedToldLast

(* The end that is told is the one that happened, and the only one         *)
(* (ToldOneEnd, ExpiryIsReal).                                             *)
EndIsTrue == []ToldOneEnd /\ ExpiryIsReal

(* What the jobs are for: sessions that ended are settled, links that      *)
(* lapsed are ended, what is due is purged (ReconcileDue, LapseLinks,      *)
(* PurgeDue).                                                              *)
JobsCatchUp == Settles /\ LinksLapse /\ PurgedWhenDue
=============================================================================
