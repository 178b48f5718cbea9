----------------------------- MODULE DataRequest -----------------------------
(***************************************************************************)
(* A person's request to see or erase their data at an organisation        *)
(* (backend/internal/proofing, data_request.go): the search for their      *)
(* other sessions when the engine has proven them, the review that decides *)
(* it, by a reviewer, by the organisation's automatic handling, by its     *)
(* legal retention or by a pause, the erasures it takes, and the pruner.   *)
(*                                                                         *)
(* The request's own session is decided in the engine; how it got there is *)
(* ProofingRequest.  A statement or transaction is one step; reads of      *)
(* different rows are one step where no write between them could tell.     *)
(***************************************************************************)
EXTENDS Naturals, FiniteSets, FiniteSetsExt

CONSTANTS
  Checks,    \* the organisation's other sessions, in the order they were made
  Pollers, Reviewers, Admins, Pruners, Subjects,  \* who calls
  Kinds,     \* the settings and what may happen (below)
  Free       \* a lock no one holds

Workers == Pollers \cup Reviewers \cup Admins \cup Pruners \cup Subjects

Levels == {"strong", "probable", "email", "name"}

(* A setting: the request's flow, the organisation's erasure handling and  *)
(* whether it has a legal retention, what the engine says of the request,  *)
(* each check's state, and what it matches on: its identity once proven,   *)
(* what the sender typed before.  Bounds: who calls, whether the checks    *)
(* move on meanwhile, whether the review's term passes, pauses, faults.    *)
ASSUME DataAssumption ==
  /\ Checks \subseteq Nat /\ IsFiniteSet(Checks)
  /\ Free \notin Workers
  /\ Kinds \subseteq
       [erasure : BOOLEAN, automatic : BOOLEAN, retention : BOOLEAN,
        engine : {"approved", "needs_review"},
        checks : [Checks -> [status : {"unfinished", "needs_review", "approved"},
                             proven : {"strong", "probable", "none"},
                             typed : {"email", "name", "none"}]],
        crew : SUBSET Workers, moves : BOOLEAN, lapses : BOOLEAN,
        pauses : Nat, faults : Nat]

VARIABLES
  kind,        \* the setting; never changes
  req,         \* the request's row
  engine,      \* its session in the engine
  check,       \* the other sessions
  free,        \* those whose legal retention has passed
  match,       \* the request's matches
  paused,      \* the organisation's proofing is paused
  item,        \* a step's review item, of another session
  matchLock, reviewLock,
  job,         \* each worker's call
  erased,      \* history: the sessions this request erased
  ticked,      \* history: the sessions reviewers ticked
  pauses, faults

vars == <<kind, req, engine, check, free, match, paused, item, matchLock,
          reviewLock, job, erased, ticked, pauses, faults>>

Undecided == {"in_progress", "needs_review"}
Codes     == {"none", "MANUAL_REVIEW_REJECTED", "ORG_PAUSED", "LEGAL_RETENTION",
              "REVIEW_LAPSED"}

NoMatch  == [level |-> "none", approved |-> FALSE]
NoMatches == [c \in Checks |-> NoMatch]

(* A decision: ids is the reviewer's list, listed is FALSE when there is   *)
(* none.  An automatic erasure that leaves the request in review is        *)
(* partial.                                                                *)
Refusal(code) == [approve |-> FALSE, listed |-> FALSE, ids |-> {}, code |-> code,
                  partial |-> FALSE]
Approval(ids) == [Refusal("none") EXCEPT !.approve = TRUE, !.listed = TRUE, !.ids = ids]
ApproveSure   == [Approval({}) EXCEPT !.listed = FALSE]

Idle == [pc |-> "idle", saw |-> "none", found |-> {}, why |-> "none",
         input |-> Refusal("none"), take |-> {}, back |-> "idle", failed |-> FALSE]

At(w, pc)   == w \in kind.crew /\ job[w].pc = pc
Go(w, pc)   == job' = [job EXCEPT ![w].pc = pc]
Done(w)     == job' = [job EXCEPT ![w] = Idle]

Held(c) == kind.retention /\ check[c].status = "approved" /\ ~check[c].purged
             /\ c \notin free

Matched == {c \in Checks : match[c].level # "none"}
SureMatch(c) == match[c].level \in {"strong", "probable"}

OpenReview == req.status = "needs_review" /\ ~req.purged

----------------------------------------------------------------------------
(* Row writes.                                                             *)

(* RecordOutcome: a decision is recorded once, never over another.         *)
RecordOutcome(status, code) ==
  IF req.status \in Undecided \ {status} /\ ~req.purged
  THEN req' = [req EXCEPT !.status = status, !.code = code, !.late = FALSE]
  ELSE UNCHANGED req

(* Purge: the row, the engine's session and the matches, together.         *)
PurgeRequest ==
  /\ req' = [req EXCEPT !.purged = TRUE]
  /\ engine' = [engine EXCEPT !.status = "gone"]
  /\ match' = NoMatches

Purged(c) == [check EXCEPT ![c].purged = TRUE]

orgVars == <<kind, check, free, paused, item, pauses, faults>>
history == <<erased, ticked>>

----------------------------------------------------------------------------
(* The search (tryReconcile of a data request).                            *)

(* The caller's read of the row, and of the engine.  A session the engine  *)
(* rejected after the review's decision is recorded as such.               *)
ReadToReconcile(w) ==
  /\ w \in Pollers /\ At(w, "idle") /\ ~req.purged
  /\ \/ /\ engine.status = "rejected" /\ req.status \in Undecided
        /\ RecordOutcome("rejected", engine.code)
        /\ UNCHANGED job
     \/ /\ engine.status \in {"approved", "needs_review"} /\ req.status = "in_progress"
        /\ job' = [job EXCEPT ![w].pc = "lock_match", ![w].saw = req.status]
        /\ UNCHANGED req
  /\ UNCHANGED <<engine, match, matchLock, reviewLock>> /\ UNCHANGED orgVars
  /\ UNCHANGED history

(* TryLockMatching: one search at a time, no one waits for it.             *)
TryLockMatching(w) ==
  /\ At(w, "lock_match")
  /\ IF matchLock = Free
     THEN matchLock' = w /\ Go(w, "relook")
     ELSE Done(w) /\ UNCHANGED matchLock
  /\ UNCHANGED <<req, engine, match, reviewLock>> /\ UNCHANGED orgVars
  /\ UNCHANGED history

(* Mutant: the row is not read again under the lock.                       *)
SameAsNever(w) == TRUE

(* matchDataRequest's second read, under the lock.                         *)
SameAsRead(w) == req.status = job[w].saw

Relook(w) ==
  /\ At(w, "relook")
  /\ IF SameAsRead(w)
     THEN Go(w, "search") /\ UNCHANGED matchLock
     ELSE Done(w) /\ matchLock' = Free
  /\ UNCHANGED <<req, engine, match, reviewLock>> /\ UNCHANGED orgVars
  /\ UNCHANGED history

(* Candidates, and the identity the engine holds of each.                  *)
Candidates == {c \in Checks : ~check[c].purged
                 /\ check[c].status \in {"approved", "rejected", "needs_review"}
                 /\ kind.checks[c].proven # "none"}

Search(w) ==
  /\ At(w, "search")
  /\ job' = [job EXCEPT ![w].pc = "save", ![w].found = Candidates]
  /\ UNCHANGED <<req, engine, match, matchLock, reviewLock>> /\ UNCHANGED orgVars
  /\ UNCHANGED history

UnfinishedCandidates == {c \in Checks : ~check[c].purged
                           /\ check[c].status = "unfinished"
                           /\ kind.checks[c].typed # "none"}

(* unfinishedMatches reads the sessions without outcome, SaveMatches then  *)
(* replaces the matches: nothing it saves is read again in between.        *)
SaveMatches(w) ==
  /\ At(w, "save")
  /\ match' = [c \in Checks |->
       [level |-> IF c \in job[w].found THEN kind.checks[c].proven
                  ELSE IF c \in UnfinishedCandidates THEN kind.checks[c].typed ELSE "none",
        approved |-> FALSE]]
  /\ Go(w, "record")
  /\ UNCHANGED <<req, engine, matchLock, reviewLock>> /\ UNCHANGED orgVars
  /\ UNCHANGED history

(* recordDecision of a proven person's request.                            *)
RecordReview(w) ==
  /\ At(w, "record")
  /\ RecordOutcome("needs_review", "none")
  /\ Go(w, "read_pause")
  /\ UNCHANGED <<engine, match, matchLock, reviewLock>> /\ UNCHANGED orgVars
  /\ UNCHANGED history

----------------------------------------------------------------------------
(* settleReview: what decides at once a review that just opened.           *)

(* rejectIfPaused.                                                         *)
RejectIfPaused(w) ==
  /\ At(w, "read_pause")
  /\ job' = [job EXCEPT ![w].pc = IF paused THEN "lock" ELSE "settle_held",
                        ![w].why = "pause", ![w].back = "settle_held"]
  /\ UNCHANGED <<req, engine, match, matchLock, reviewLock>> /\ UNCHANGED orgVars
  /\ UNCHANGED history

(* declineHeldErasure, up to its lock.                                     *)
DeclineHeldErasure(w) ==
  /\ At(w, "settle_held")
  /\ job' = [job EXCEPT ![w].pc = IF kind.erasure /\ kind.retention THEN "lock" ELSE "settle_auto",
                        ![w].why = "law", ![w].back = "settle_auto"]
  /\ UNCHANGED <<req, engine, match, matchLock, reviewLock>> /\ UNCHANGED orgVars
  /\ UNCHANGED history

(* handleErasure, up to its lock; a search ends after it.                  *)
HandleErasure(w) ==
  /\ At(w, "settle_auto")
  /\ IF kind.erasure /\ kind.automatic
     THEN /\ job' = [job EXCEPT ![w].pc = "lock", ![w].why = "auto", ![w].back = "idle"]
          /\ UNCHANGED matchLock
     ELSE Done(w) /\ matchLock' = Free
  /\ UNCHANGED <<req, engine, match, reviewLock>> /\ UNCHANGED orgVars
  /\ UNCHANGED history

----------------------------------------------------------------------------
(* A decision, under the review lock.                                      *)

(* Mutant: a decision does not wait for another.                           *)
LockFreeAlways == TRUE

(* LockReview waits.                                                       *)
LockFree == reviewLock = Free

FreeMatchLock(w) == matchLock' = IF matchLock = w THEN Free ELSE matchLock

(* The call goes back to who decided, without the review lock.             *)
Return(w, failed) ==
  /\ IF job[w].back = "idle"
     THEN Done(w) /\ FreeMatchLock(w)
     ELSE /\ job' = [job EXCEPT ![w] = [Idle EXCEPT !.pc = job[w].back, !.saw = job[w].saw,
                                          !.failed = job[w].failed \/ failed]]
          /\ UNCHANGED matchLock

(* Mutant: a refusal stands although sure matches are gone.                *)
RefusesNever(input) == FALSE

(* A reviewer's refusal of an erasure that took its sure matches already.  *)
RefusesPartlyErased(input) ==
  /\ kind.erasure /\ ~input.approve /\ input.code = "MANUAL_REVIEW_REJECTED"
  /\ \E c \in Matched : SureMatch(c) /\ check[c].purged

(* Mutant: what was erased before is not among the approved.               *)
WithPurgedNone == {}

WithPurged == IF kind.erasure THEN {c \in Matched : check[c].purged} ELSE {}

(* untickedMatches: taken without a reviewer's tick.                       *)
Unticked == {c \in Matched : match[c].level = "strong" \/ (kind.erasure /\ SureMatch(c))}

(* Mutant: the legal retention keeps nothing from a decision.              *)
ErasableAny(c) == TRUE

(* What the legal retention holds, no erasure takes.                       *)
Erasable(c) == ~(kind.erasure /\ Held(c))

(* approvedMatches: a tick on a held session refuses the call.             *)
TicksHeld(input) == input.approve /\ \E c \in input.ids : ~Erasable(c)

ApprovedMatches(input) ==
  IF ~input.approve THEN {}
  ELSE (IF input.listed THEN input.ids ELSE {c \in Unticked : Erasable(c)}) \cup WithPurged

(* decideDataRequest's checks, before anything is decided anywhere.        *)
Decide(w, asked) ==
  LET input == IF RefusesPartlyErased(asked) THEN Approval({}) ELSE asked IN
  IF TicksHeld(input)
  THEN Return(w, TRUE) /\ UNCHANGED <<reviewLock, ticked>>
  ELSE /\ reviewLock' = w
       /\ ticked' = IF job[w].why = "review" THEN ticked \cup input.ids ELSE ticked
       /\ job' = [job EXCEPT ![w].input = input, ![w].take = ApprovedMatches(input),
                             ![w].pc = IF input.partial THEN "erase" ELSE "decide_engine"]
       /\ UNCHANGED matchLock

(* What a reviewer may send.                                               *)
ReviewInputs == {Refusal("MANUAL_REVIEW_REJECTED"), ApproveSure}
                  \cup {Approval(ids) : ids \in SUBSET Matched}

(* allHeld: something is found, and the law keeps all of it.               *)
AllHeld == LET found == {c \in Matched : ~check[c].purged}
           IN  found # {} /\ \A c \in found : Held(c)

(* Mutant: a typed match is erased without a reviewer.                     *)
SureToEraseAny == {c \in Matched : ~Held(c)}

SureToErase == {c \in Matched : ~Held(c) /\ SureMatch(c)}

UnsureLeft == \E c \in Matched : ~Held(c) /\ ~SureMatch(c) /\ ~check[c].purged

(* LockReview, then the row and its matches are read: one step, as nothing *)
(* a call without the lock does in between is seen by the later read only. *)
LockReview(w) ==
  /\ At(w, "lock") /\ LockFree
  /\ IF ~OpenReview THEN Return(w, FALSE) /\ UNCHANGED <<reviewLock, ticked>>
     ELSE CASE job[w].why = "review" -> \E input \in ReviewInputs : Decide(w, input)
            [] job[w].why = "pause" -> Decide(w, Refusal("ORG_PAUSED"))
            [] job[w].why = "law" ->
                 IF AllHeld THEN Decide(w, Refusal("LEGAL_RETENTION"))
                 ELSE Return(w, FALSE) /\ UNCHANGED <<reviewLock, ticked>>
            [] job[w].why = "auto" ->
                 Decide(w, [Approval(SureToErase) EXCEPT !.partial = UnsureLeft])
  /\ UNCHANGED <<req, engine, match, erased>> /\ UNCHANGED orgVars

(* A session the engine itself holds in review is decided there too.       *)
DecideInEngine(w) ==
  /\ At(w, "decide_engine")
  /\ engine' = IF engine.status # "needs_review" THEN engine
               ELSE [status |-> IF job[w].input.approve THEN "approved" ELSE "rejected",
                     code |-> job[w].input.code]
  /\ Go(w, IF job[w].input.approve /\ kind.erasure THEN "erase" ELSE "record_decision")
  /\ UNCHANGED <<req, match, matchLock, reviewLock>> /\ UNCHANGED orgVars
  /\ UNCHANGED history

ToErase(w) == {c \in job[w].take : ~check[c].purged}

(* purgeMatches: one session after the other, each in its own transaction. *)
PurgeMatch(w) ==
  /\ At(w, "erase")
  /\ IF ToErase(w) # {}
     THEN LET c == Min(ToErase(w)) IN
          /\ check' = Purged(c)
          /\ erased' = erased \cup {c}
          /\ UNCHANGED <<job, matchLock, reviewLock>>
     ELSE /\ UNCHANGED <<check, erased>>
          /\ IF job[w].input.partial
             THEN Return(w, FALSE) /\ reviewLock' = Free
             ELSE Go(w, "record_decision") /\ UNCHANGED <<matchLock, reviewLock>>
  /\ UNCHANGED <<kind, req, engine, free, match, paused, item, ticked, pauses, faults>>

(* RecordDecision, and RecordReviewDecision's audit after it: neither on a *)
(* request that was purged.                                                *)
RecordDecision(w) ==
  /\ At(w, "record_decision")
  /\ IF req.purged
     THEN Return(w, TRUE) /\ reviewLock' = Free /\ UNCHANGED match
     ELSE /\ match' = [c \in Checks |-> [match[c] EXCEPT !.approved = c \in Matched \cap job[w].take]]
          /\ Go(w, "record_outcome") /\ UNCHANGED <<matchLock, reviewLock>>
  /\ UNCHANGED <<req, engine>> /\ UNCHANGED orgVars /\ UNCHANGED history

RecordDecided(w) ==
  /\ At(w, "record_outcome")
  /\ RecordOutcome(IF job[w].input.approve THEN "approved" ELSE "rejected", job[w].input.code)
  /\ IF job[w].input.approve /\ kind.erasure
     THEN Go(w, "purge_own") /\ UNCHANGED <<matchLock, reviewLock>>
     ELSE Return(w, FALSE) /\ reviewLock' = Free
  /\ UNCHANGED <<engine, match>> /\ UNCHANGED orgVars /\ UNCHANGED history

(* An approved erasure erases its own session too.                         *)
PurgeOwn(w) ==
  /\ At(w, "purge_own")
  /\ PurgeRequest
  /\ Return(w, FALSE) /\ reviewLock' = Free
  /\ UNCHANGED orgVars /\ UNCHANGED history

(* DecideReview of a member.                                               *)
DecideReview(w) ==
  /\ w \in Reviewers /\ At(w, "idle") /\ OpenReview
  /\ job' = [job EXCEPT ![w].pc = "lock", ![w].why = "review"]
  /\ UNCHANGED <<req, engine, match, matchLock, reviewLock>> /\ UNCHANGED orgVars
  /\ UNCHANGED history

----------------------------------------------------------------------------
(* The pause.                                                              *)

pauseVars == <<kind, req, engine, check, free, match, matchLock, reviewLock>>

(* SetProofingPaused: the open reviews first.                              *)
BeginPause(w) ==
  /\ w \in Admins /\ At(w, "idle") /\ ~paused /\ pauses < kind.pauses
  /\ Go(w, "first_pass") /\ pauses' = pauses + 1
  /\ UNCHANGED pauseVars /\ UNCHANGED <<paused, item, faults>> /\ UNCHANGED history

AfterPass(pc) == CASE pc = "first_pass"  -> "first_items"
                   [] pc = "second_pass" -> "second_items"
                   [] pc = "sweep"       -> "sweep_items"

(* rejectOpenReviews: lists them, and decides each.                        *)
ListOpenReviews(w) ==
  /\ w \in kind.crew /\ job[w].pc \in {"first_pass", "second_pass", "sweep"}
  /\ job' = [job EXCEPT ![w].pc = IF OpenReview THEN "lock" ELSE AfterPass(@),
                        ![w].why = "pause", ![w].back = AfterPass(job[w].pc)]
  /\ UNCHANGED pauseVars /\ UNCHANGED <<paused, item, pauses, faults>> /\ UNCHANGED history

(* RejectPendingReviewItems; a failure of the first pass refuses the pause.*)
RejectPendingItems(w) ==
  /\ w \in kind.crew
  /\ \/ At(w, "first_items") /\ job' = [job EXCEPT ![w].pc = IF job[w].failed THEN "idle" ELSE "set",
                                                   ![w].back = "idle", ![w].failed = FALSE]
     \/ At(w, "second_items") /\ Done(w)
     \/ At(w, "sweep_items") /\ job' = [job EXCEPT ![w] = [Idle EXCEPT !.pc = "list_due"]]
  /\ item' = IF item = "pending" THEN "rejected" ELSE item
  /\ UNCHANGED pauseVars /\ UNCHANGED <<paused, pauses, faults>> /\ UNCHANGED history

(* Mutant: what reached review since the first pass is left.               *)
SetPauseOnly(w) ==
  /\ At(w, "set")
  /\ paused' = TRUE /\ Done(w)
  /\ UNCHANGED pauseVars /\ UNCHANGED <<item, pauses, faults>> /\ UNCHANGED history

SetPause(w) ==
  /\ At(w, "set")
  /\ paused' = TRUE /\ Go(w, "second_pass")
  /\ UNCHANGED pauseVars /\ UNCHANGED <<item, pauses, faults>> /\ UNCHANGED history

Resume(w) ==
  /\ w \in Admins /\ At(w, "idle") /\ paused
  /\ paused' = FALSE
  /\ UNCHANGED pauseVars /\ UNCHANGED <<item, job, pauses, faults>> /\ UNCHANGED history

(* A subject's step goes to a reviewer.                                    *)
OpenItem(w) ==
  /\ w \in Subjects /\ At(w, "idle") /\ item = "none"
  /\ item' = "pending" /\ Go(w, "item_pause")
  /\ UNCHANGED pauseVars /\ UNCHANGED <<paused, pauses, faults>> /\ UNCHANGED history

(* rejectStepReviewsIfPaused: the pause is read after the item is there.   *)
RejectItemIfPaused(w) ==
  /\ \/ At(w, "item_pause") /\ (IF paused THEN Go(w, "item_reject") ELSE Done(w))
        /\ UNCHANGED item
     \/ At(w, "item_reject") /\ Done(w)
        /\ item' = IF item = "pending" THEN "rejected" ELSE item
  /\ UNCHANGED pauseVars /\ UNCHANGED <<paused, pauses, faults>> /\ UNCHANGED history

(* DecideStepReview, or LapseReviewItems.                                  *)
ItemDecided ==
  /\ Subjects \cap kind.crew # {} /\ item = "pending"
  /\ item' \in {"confirmed", "rejected", "lapsed"}
  /\ UNCHANGED pauseVars /\ UNCHANGED <<paused, job, pauses, faults>> /\ UNCHANGED history

----------------------------------------------------------------------------
(* The pruner.                                                             *)

(* Mutant: PurgeDue rejects no review left open.                           *)
BeginSweepNever(w) ==
  /\ w \in Pruners /\ At(w, "idle") /\ Go(w, "list_due")
  /\ UNCHANGED <<req, engine, match, matchLock, reviewLock>> /\ UNCHANGED orgVars
  /\ UNCHANGED history

(* PurgeDue sweeps the paused organisations' reviews first.                *)
BeginSweep(w) ==
  /\ w \in Pruners /\ At(w, "idle")
  /\ Go(w, IF paused THEN "sweep" ELSE "list_due")
  /\ UNCHANGED <<req, engine, match, matchLock, reviewLock>> /\ UNCHANGED orgVars
  /\ UNCHANGED history

(* Mutant: an approved erasure keeps its term.                             *)
PurgeTimeLate == req.late

(* purge_at has passed: an approved erasure's is when it was decided.      *)
PurgeTime == req.late \/ (kind.erasure /\ req.status = "approved")

ListPurgeDue(w) ==
  /\ At(w, "list_due")
  /\ IF PurgeTime /\ ~req.purged
     THEN job' = [job EXCEPT ![w] = [Idle EXCEPT !.pc = "lapse", !.saw = req.status]]
     ELSE Done(w)
  /\ UNCHANGED <<req, engine, match, matchLock, reviewLock>> /\ UNCHANGED orgVars
  /\ UNCHANGED history

(* lapseReview: without the review lock.                                   *)
LapseReview(w) ==
  /\ At(w, "lapse")
  /\ IF job[w].saw = "needs_review"
     THEN RecordOutcome("rejected", "REVIEW_LAPSED") ELSE UNCHANGED req
  /\ Go(w, "purge_due")
  /\ UNCHANGED <<engine, match, matchLock, reviewLock>> /\ UNCHANGED orgVars
  /\ UNCHANGED history

PurgeDue(w) ==
  /\ At(w, "purge_due")
  /\ PurgeRequest /\ Done(w)
  /\ UNCHANGED <<matchLock, reviewLock>> /\ UNCHANGED orgVars /\ UNCHANGED history

----------------------------------------------------------------------------
(* What happens around the request.                                        *)

aroundVars == <<kind, engine, match, paused, item, matchLock, reviewLock, job, erased,
                ticked, pauses, faults>>

(* The review's term, or the retention of the decided request, passes.     *)
TermPasses ==
  /\ kind.lapses /\ req.status # "in_progress" /\ ~req.late /\ ~req.purged
  /\ req' = [req EXCEPT !.late = TRUE]
  /\ UNCHANGED aroundVars /\ UNCHANGED <<check, free>>

(* Another session gets its outcome, with its key.                         *)
CheckDecided(c) ==
  /\ kind.moves /\ ~check[c].purged
  /\ \/ check[c].status = "unfinished"
        /\ check' \in {[check EXCEPT ![c].status = s] : s \in {"approved", "rejected", "needs_review"}}
     \/ check[c].status = "needs_review"
        /\ check' \in {[check EXCEPT ![c].status = s] : s \in {"approved", "rejected"}}
  /\ UNCHANGED aroundVars /\ UNCHANGED <<req, free>>

(* Its own retention passes, or the organisation erases it.                *)
CheckErased(c) ==
  /\ kind.moves /\ ~check[c].purged /\ ~Held(c)
  /\ check' = Purged(c)
  /\ UNCHANGED aroundVars /\ UNCHANGED <<req, free>>

HoldEnds(c) ==
  /\ kind.moves /\ kind.retention /\ c \notin free
  /\ free' = free \cup {c}
  /\ UNCHANGED aroundVars /\ UNCHANGED <<req, check>>

(* A statement or call fails, or the replica dies: the locks go with it.   *)
(* rejectOpenReviews goes on after a failed decision.                      *)
Fails(w) ==
  /\ w \in kind.crew /\ job[w].pc # "idle" /\ faults < kind.faults
  /\ faults' = faults + 1
  /\ \/ Done(w)
     \/ /\ job[w].back \in {"first_items", "second_items", "sweep_items"}
        /\ job' = [job EXCEPT ![w] = [Idle EXCEPT !.pc = job[w].back, !.failed = TRUE]]
  /\ FreeMatchLock(w)
  /\ reviewLock' = IF reviewLock = w THEN Free ELSE reviewLock
  /\ UNCHANGED <<kind, req, engine, check, free, match, paused, item, pauses>>
  /\ UNCHANGED history

----------------------------------------------------------------------------
Init ==
  /\ kind \in Kinds
  /\ req = [status |-> "in_progress", code |-> "none", purged |-> FALSE, late |-> FALSE]
  /\ engine = [status |-> kind.engine, code |-> "none"]
  /\ check = [c \in Checks |-> [status |-> kind.checks[c].status, purged |-> FALSE]]
  /\ free = {} /\ match = NoMatches
  /\ paused = FALSE /\ item = "none"
  /\ matchLock = Free /\ reviewLock = Free
  /\ job = [w \in Workers |-> Idle]
  /\ erased = {} /\ ticked = {}
  /\ pauses = 0 /\ faults = 0

(* What a call does once it is under way.                                  *)
GoOn(w) ==
  \/ TryLockMatching(w) \/ Relook(w) \/ Search(w) \/ SaveMatches(w) \/ RecordReview(w)
  \/ RejectIfPaused(w) \/ DeclineHeldErasure(w) \/ HandleErasure(w)
  \/ DecideInEngine(w) \/ PurgeMatch(w) \/ RecordDecision(w) \/ RecordDecided(w) \/ PurgeOwn(w)
  \/ ListOpenReviews(w) \/ RejectPendingItems(w) \/ SetPause(w) \/ RejectItemIfPaused(w)
  \/ ListPurgeDue(w) \/ LapseReview(w) \/ PurgeDue(w)

Begin(w) ==
  \/ ReadToReconcile(w) \/ DecideReview(w) \/ BeginPause(w) \/ Resume(w) \/ OpenItem(w)
  \/ BeginSweep(w)

Around == ItemDecided \/ TermPasses
            \/ \E c \in Checks : CheckDecided(c) \/ CheckErased(c) \/ HoldEnds(c)

Next == Around \/ \E w \in Workers : GoOn(w) \/ LockReview(w) \/ Begin(w) \/ Fails(w)

Spec == Init /\ [][Next]_vars

(* A call under way goes on; the lock is handed on in the order it was     *)
(* asked for, so no one waits for ever; the pruner runs again and again.   *)
FairSpec ==
  /\ Spec
  /\ \A w \in Workers : WF_vars(GoOn(w)) /\ SF_vars(LockReview(w))
  /\ \A w \in Pruners : WF_vars(BeginSweep(w))

----------------------------------------------------------------------------
(* Properties.                                                             *)

Deciding == {"decide_engine", "erase", "record_decision", "record_outcome", "purge_own"}

(* The types, and who holds the review lock is who decides.                *)
TypeOK ==
  /\ req \in [status : Undecided \cup {"approved", "rejected"}, code : Codes,
              purged : BOOLEAN, late : BOOLEAN]
  /\ engine.status \in {"approved", "needs_review", "rejected", "gone"} /\ engine.code \in Codes
  /\ check \in [Checks -> [status : {"unfinished", "needs_review", "approved", "rejected"},
                           purged : BOOLEAN]]
  /\ match \in [Checks -> [level : Levels \cup {"none"}, approved : BOOLEAN]]
  /\ free \subseteq Checks /\ erased \subseteq Checks /\ ticked \subseteq Checks
  /\ paused \in BOOLEAN /\ item \in {"none", "pending", "confirmed", "rejected", "lapsed"}
  /\ matchLock \in Pollers \cup {Free}
  /\ \A w \in Workers : job[w].pc \in Deciding <=> reviewLock = w

(* Once a request is in review, what it found stays as it is: a slower     *)
(* search of another reconcile never replaces it (matchDataRequest).       *)
FoundOnce ==
  [][\A c \in Checks : match'[c].level # match[c].level
       => req.status = "in_progress" \/ (req'.purged /\ ~req.purged)]_vars

(* A reviewer who refuses a request whose sure sessions are gone already   *)
(* approves it instead (refusesPartlyErased): a refusal means none of them *)
(* was erased for it.  Only a decision whose part in the wallet failed     *)
(* after its erasures, while the engine waits, leaves a refusal over them. *)
RefusalKeepsSure ==
  (faults = 0 \/ kind.engine = "approved") /\ req.code = "MANUAL_REVIEW_REJECTED"
    => ~\E c \in erased : SureMatch(c)

(* An approved erasure tells exactly what it erased: every approved        *)
(* session is gone, and none it erased is missing, whichever decision      *)
(* failed half way before (purgeMatches, withPurgedMatches).               *)
ErasureTold ==
  kind.erasure /\ req.status = "approved" /\ ~req.purged =>
    /\ \A c \in erased : match[c].approved
    /\ \A c \in Checks : match[c].approved => check[c].purged

(* Nothing is erased on an e-mail address or a typed name alone, unless a  *)
(* reviewer ticked it (approvedMatches, handleErasure).                    *)
ErasesProvenOrTicked ==
  \A c \in erased : SureMatch(c) \/ c \in ticked \/ req.purged

(* An erasure takes no session that was proven before the request was made *)
(* while the organisation's legal retention keeps it.                      *)
HeldIsKept ==
  [][\A c \in erased' \ erased :
       kind.retention /\ kind.checks[c].status = "approved" => c \in free]_vars

(* A request declined because the law keeps everything found had nothing   *)
(* erased for it by a decision at the same time (declineHeldErasure holds  *)
(* the review lock).                                                       *)
LawRefusalErasesNothing ==
  faults = 0 /\ req.code = "LEGAL_RETENTION" => erased = {}

(* Who will still see that the organisation is paused, or that a review is *)
(* open.                                                                   *)
WillSettle ==
  \E w \in kind.crew : job[w].pc \notin {"idle", "list_due", "lapse", "purge_due"}

(* A paused organisation has no review open and no item pending once every *)
(* call that was under way has ended (rejectIfPaused, SetProofingPaused).  *)
PauseLeavesNone ==
  faults = 0 /\ paused /\ ~WillSettle => ~OpenReview /\ item # "pending"

(* Also when a rejection failed: the pruner's sweep ends what is open.     *)
PausedReviewEnds ==
  (paused /\ (OpenReview \/ item = "pending"))
    ~> (~paused \/ (~OpenReview /\ item # "pending"))

(* An approved erasure erases its own request, also when the decision's    *)
(* purge failed.                                                           *)
ErasureEnds == (kind.erasure /\ req.status = "approved") ~> req.purged

(* The person is told what was done: of a search that stays as it was, an  *)
(* approval tells all that was erased and a refusal follows no erasure.    *)
AnswerHonest ==
  FoundOnce /\ [](RefusalKeepsSure /\ ErasureTold /\ LawRefusalErasesNothing)

(* Nothing is erased that was neither proven nor ticked, and nothing the   *)
(* law keeps.                                                              *)
ErasesOnlyAllowed == HeldIsKept /\ []ErasesProvenOrTicked

(* What is decided is carried out, also after a failure: a paused          *)
(* organisation's reviews end, and an approved erasure is done.            *)
RequestEnds == PausedReviewEnds /\ ErasureEnds
=============================================================================
