--------------------------- MODULE EngineSession ---------------------------
(***************************************************************************)
(* One session of the proofing engine (backend/internal/proofingengine):   *)
(* the devices that hold its slots and the links that move them, the       *)
(* evidence its steps bring in, the face attempts that call an external    *)
(* service between two transactions, the submit that decides it from a     *)
(* snapshot, the wallet's own calls, its deadline, and the notice that     *)
(* tells the wallet.                                                       *)
(*                                                                         *)
(* A transaction of the session's store is one step.  What a handler read  *)
(* before its transaction is kept from one step to the next only where it  *)
(* uses it after: the handlers repeat every other check inside (Update).   *)
(***************************************************************************)
EXTENDS Naturals, Sequences, FiniteSets

CONSTANTS
  Kinds,        \* the sessions there are, each with its bounds (below)
  MaxAttempts,  \* maxFaceStepAttempts
  CreateTTL, OpenTTL, MaxLifetime, GrantTTL, Retention,
  MaxNow        \* bound: the clock

(* A session's flow (its method, whether the wallet's page scans the       *)
(* document, whether pictures are kept, how it would end) and its bounds:  *)
(* devices that claim a slot, links minted, submissions of the face step,  *)
(* notices dropped or processes lost, and whether its notices are followed *)
(* (they change nothing in the session).                                   *)
ASSUME SessionAssumption ==
  /\ {MaxAttempts, CreateTTL, OpenTTL, MaxLifetime, GrantTTL, Retention,
      MaxNow} \subseteq Nat
  /\ MaxAttempts > 0
  /\ Kinds \subseteq
       [method : {"idem", "yivi", "browser", "pending"}, photo : BOOLEAN,
        keep : BOOLEAN, outcome : {"approved", "rejected", "needs_review"},
        devices : Nat, links : Nat, faces : Nat, faults : Nat, told : BOOLEAN]
  /\ \A k \in Kinds : k.method = "idem" => k.links > 0

VARIABLES
  now,      \* the clock
  kind,     \* the session's flow and how it would end; never changes
  sess,     \* the stored session
  issued,   \* history: for each device token, the slot and the link it came of
  minted,   \* how many links were minted
  call,     \* the face submissions
  sub,      \* the submits that build a result: the app's, the browser's, Yivi's
  waiting,  \* history: an app's submit was answered that the photo is awaited
  raced,    \* history: a face result landed after that
  void,     \* history: the links a device's return put an end to
  queued,   \* a change notice of the session waits (engine's changed, pending)
  telling,  \* the notifier's call of the wallet: told, and the wallet has read
  seen,     \* the status the wallet read last
  faults    \* faults so far

vars == <<now, kind, sess, issued, minted, call, sub, waiting, raced, void,
          queued, telling, seen, faults>>

Roles      == {"web", "native"}
Calls      == 1..kind.faces
Submitters == {"app", "browser", "yivi"}

Running    == {"created", "opened", "in_progress"}
Terminal   == {"approved", "rejected", "expired", "cancelled"}
Statuses   == Running \cup Terminal \cup {"needs_review", "gone"}
Decided    == Terminal \cup {"needs_review"}

Transitions == [s \in Statuses |->
  CASE s = "created"      -> {"opened", "expired", "cancelled"}
    [] s = "opened"       -> {"in_progress", "expired", "cancelled"}
    [] s = "in_progress"  -> {"needs_review"} \cup Terminal
    [] s = "needs_review" -> Terminal
    [] OTHER              -> {}]

NoSlot  == [tok |-> 0, inactive |-> FALSE, stale |-> FALSE]
NoGrant == [id |-> 0, exp |-> 0, used |-> FALSE]
NoFace  == [n |-> 0, ok |-> FALSE, by |-> 0]
NoSub   == [pc |-> "idle", tok |-> 0, n |-> 0, ok |-> FALSE, to |-> "none"]

Least(a, b) == IF a < b THEN a ELSE b
Most(a, b)  == IF a < b THEN b ELSE a

----------------------------------------------------------------------------
(* The session and its store.                                              *)

(* SetStatus refuses what the transitions do not have; to the same status  *)
(* it changes nothing.                                                     *)
CanSet(s, to) == s.status = to \/ to \in Transitions[s.status]

SetStatus(s, to) ==
  [s EXCEPT !.status = to,
            !.ended = IF to \in Terminal /\ s.status # to THEN now ELSE @]

(* Mutant: a session waiting for its reviewer lapses at the deadline too.  *)
IsExpiredReviewed(s) ==
  s.status \in Running \cup {"needs_review"} /\ now > s.exp

IsExpired(s) == s.status \in Running /\ now > s.exp

(* What is kept of the evidence of a session that ended without outcome.   *)
ForStorage(s) ==
  IF s.status \in {"expired", "cancelled"}
  THEN [s EXCEPT !.doc = "none", !.chip = 0, !.face = NoFace, !.photo = FALSE,
                 !.pics = FALSE]
  ELSE s

(* Mutant: Update runs its function on the session as it was stored.       *)
FreshAsStored == sess

(* What every Update's function sees: a session past its deadline is       *)
(* expired first, and stays so when the function refuses.                  *)
Fresh == IF IsExpired(sess) THEN ForStorage(SetStatus(sess, "expired")) ELSE sess

(* Mutant: the session stays pending until the wallet's call returned.     *)
QueueChangedOnce ==
  /\ queued' = (queued \/ (kind.told /\ telling = "no"))
  /\ UNCHANGED faults

(* The queue takes a session's notice once; when it is full (other         *)
(* sessions' notices) this one is dropped.                                 *)
QueueChanged ==
  \/ queued' = kind.told /\ UNCHANGED faults
  \/ ~queued /\ kind.told /\ faults < kind.faults /\ faults' = faults + 1 /\ UNCHANGED queued

Update(s, tells) ==
  /\ sess.status # "gone"
  /\ sess' = ForStorage(s)
  /\ IF tells \/ IsExpired(sess) THEN QueueChanged ELSE UNCHANGED <<queued, faults>>

(* A refused Update writes nothing, or the expiry alone.                   *)
Refused ==
  \/ sess.status = "gone" /\ UNCHANGED <<sess, queued, faults>>
  \/ Update(Fresh, FALSE)

----------------------------------------------------------------------------
(* Devices.                                                                *)

Slots(s) == {s.slot[r].tok : r \in Roles} \ {0}

(* sessionOpenForDevices.                                                  *)
OpenForDevices(s) == s.status \in Running

(* A submit by the engine itself writes as no device.                      *)
System == 0

CheckAppWrite(s, tok) ==
  /\ tok # System => tok \in Slots(s)
  /\ OpenForDevices(s)

Away(slot) == slot.inactive \/ slot.stale

OpenLocked(s) ==
  IF s.status = "created"
  THEN [SetStatus(s, "opened") EXCEPT
          !.exp = Most(@, Least(now + OpenTTL, MaxLifetime))]
  ELSE s

(* advanceToInProgress, through opened.                                    *)
InProgress(s) ==
  IF s.status \in {"created", "opened"} THEN SetStatus(s, "in_progress") ELSE s

(* MintHandover replaces the slot's link, the other slot's is untouched.   *)
MintHandover(s, r) ==
  [s EXCEPT !.grant[r] = [id |-> minted + 1, exp |-> Least(now + GrantTTL, s.exp),
                          used |-> FALSE]]

deviceVars == <<now, kind, call, sub, waiting, raced, telling, seen>>

(* Mutant: a redeemed link is not marked used.                             *)
RedeemUnmarked(s, r) ==
  [s EXCEPT !.slot[r] = [NoSlot EXCEPT !.tok = Len(issued) + 1]]

(* ClaimHandover: the link is used, and its slot goes to a new device.     *)
Redeem(s, r) ==
  [s EXCEPT !.grant[r].used = TRUE,
            !.slot[r] = [NoSlot EXCEPT !.tok = Len(issued) + 1]]

(* handleClaimHandover.                                                    *)
ClaimHandover(r) ==
  LET s == Fresh
      g == s.grant[r]
  IN
  /\ Len(issued) < kind.devices
  /\ OpenForDevices(s)
  /\ g.id # 0 /\ ~g.used /\ now < g.exp
  /\ Update(OpenLocked(Redeem(s, r)), s.status = "created")
  /\ issued' = Append(issued, [role |-> r, grant |-> g.id])
  /\ UNCHANGED deviceVars /\ UNCHANGED <<minted, void>>

(* handleMintHandover: its own slot at will, the other one only while it   *)
(* is free or its device away.                                             *)
MintByDevice(tok, r) ==
  LET s == Fresh IN
  /\ minted < kind.links
  /\ CheckAppWrite(s, tok)
  /\ issued[tok].role = r \/ s.slot[r].tok = 0 \/ Away(s.slot[r])
  /\ Update(MintHandover(s, r), FALSE)
  /\ minted' = minted + 1
  /\ UNCHANGED deviceVars /\ UNCHANGED <<issued, void>>

(* Every step of the app has evidence.                                     *)
AppStepsDone(s) == s.doc # "none" /\ s.chip # 0 /\ s.face.n > 0

(* Every step of the flow has.                                             *)
Complete(s) ==
  /\ kind.photo => s.photo
  /\ s.method \in {"idem", "pending"} => AppStepsDone(s)

(* SessionHandover: the wallet asks for the app's link.                    *)
MintByWallet ==
  LET s == Fresh IN
  /\ minted < kind.links
  /\ s.method = "idem" /\ OpenForDevices(s)
  /\ ~(s.slot["native"].tok # 0 /\ AppStepsDone(s) /\ ~Complete(s))
  /\ s.slot["native"].tok # 0 => Away(s.slot["native"])
  /\ Update(MintHandover(s, "native"), FALSE)
  /\ minted' = minted + 1
  /\ UNCHANGED deviceVars /\ UNCHANGED <<issued, void>>

(* Mutant: the link left for the device's leaving stays.                   *)
BackKeepsLink(s, r) == [s EXCEPT !.slot[r].inactive = FALSE, !.slot[r].stale = FALSE]

(* CancelPendingHandover: back again, the link left for leaving is off.    *)
Back(s, r) ==
  [s EXCEPT !.slot[r].inactive = FALSE, !.slot[r].stale = FALSE,
            !.grant[r] = IF @.used THEN @ ELSE NoGrant]

(* handleDeviceState.                                                      *)
DeviceActive(tok) ==
  LET s == Fresh
      r == issued[tok].role
  IN
  /\ CheckAppWrite(s, tok)
  /\ Update(Back(s, r), FALSE)
  /\ void' = void \cup {s.grant[r].id}
  /\ UNCHANGED deviceVars /\ UNCHANGED <<issued, minted>>

DeviceInactive(tok) ==
  LET s == Fresh IN
  /\ CheckAppWrite(s, tok)
  /\ Update([s EXCEPT !.slot[issued[tok].role].inactive = TRUE,
                      !.slot[issued[tok].role].stale = FALSE], FALSE)
  /\ UNCHANGED deviceVars /\ UNCHANGED <<issued, minted, void>>

(* touchDevice, before each of a device's requests: an Update of its own,  *)
(* left out when one was made just before or when it fails.                *)
TouchDevice(tok) ==
  LET s == Fresh IN
  /\ CheckAppWrite(s, tok) /\ s.slot[issued[tok].role].stale
  /\ Update([s EXCEPT !.slot[issued[tok].role].stale = FALSE], FALSE)
  /\ UNCHANGED deviceVars /\ UNCHANGED <<issued, minted, void>>

(* No request for DeviceStaleAfter, or its long-poll dropped               *)
(* (markDisconnected) and no other within the grace.                       *)
GoStale(r) ==
  /\ sess.slot[r].tok # 0 /\ ~sess.slot[r].stale /\ OpenForDevices(sess)
  /\ sess' = [sess EXCEPT !.slot[r].stale = TRUE]
  /\ UNCHANGED deviceVars /\ UNCHANGED <<issued, minted, void, queued, faults>>

----------------------------------------------------------------------------
(* Steps.                                                                  *)

stepVars == <<now, kind, issued, minted, void, telling, seen>>

Reserved(s) == Most(s.reserved, s.face.n)

(* faceStepRetryable, of evidence that is there.                           *)
Retryable(s, reserved) == ~s.face.ok /\ (reserved \/ Reserved(s) < MaxAttempts)

(* Mutant: the transaction trusts the slot the request was read with.      *)
StepWriteCheckOnce(s, tok, step, reserved) ==
  /\ OpenForDevices(s)
  /\ CASE step = "doc"  -> s.doc = "none"
       [] step = "chip" -> s.chip = 0
       [] step = "face" -> /\ s.face.n > 0 => Retryable(s, reserved)
                           /\ reserved \/ Reserved(s) < MaxAttempts

(* Mutant: only evidence counts, not the attempts under way.               *)
StepWriteCheckUncounted(s, tok, step, reserved) ==
  /\ CheckAppWrite(s, tok)
  /\ CASE step = "doc"  -> s.doc = "none"
       [] step = "chip" -> s.chip = 0
       [] step = "face" -> s.face.n > 0 => ~s.face.ok

StepWriteCheck(s, tok, step, reserved) ==
  /\ CheckAppWrite(s, tok)
  /\ CASE step = "doc"  -> s.doc = "none"
       [] step = "chip" -> s.chip = 0
       [] step = "face" -> /\ s.face.n > 0 => Retryable(s, reserved)
                           /\ reserved \/ Reserved(s) < MaxAttempts

(* markStepStarted.                                                        *)
StartStep(tok) ==
  LET s == Fresh IN
  /\ CheckAppWrite(s, tok) /\ ~AppStepsDone(s)
  /\ Update(InProgress(s), TRUE)
  /\ UNCHANGED stepVars /\ UNCHANGED <<call, sub, waiting, raced>>

(* handleSubmitDocumentStep: the MRZ.                                      *)
SubmitDocument(tok) ==
  LET s == Fresh IN
  /\ StepWriteCheck(s, tok, "doc", FALSE)
  /\ Update(InProgress([s EXCEPT !.doc = "mrz"]), FALSE)
  /\ UNCHANGED stepVars /\ UNCHANGED <<call, sub, waiting, raced>>

(* handleSubmitNFCStep: the chip, whose document supersedes the MRZ's.     *)
SubmitNFC(tok) ==
  LET s == Fresh IN
  /\ StepWriteCheck(s, tok, "chip", FALSE)
  /\ Update(InProgress([s EXCEPT !.chip = tok, !.doc = "chip", !.pics = TRUE]), FALSE)
  /\ UNCHANGED stepVars /\ UNCHANGED <<call, sub, waiting, raced>>

(* reserveFaceAttempt: the attempt is spent before Regula is called.  The  *)
(* face is matched against the chip's portrait, which must have landed.    *)
ReserveFace(c, tok) ==
  LET s == Fresh IN
  /\ \A d \in Calls : (call[d].pc = "idle") <=> d >= c
  /\ s.chip # 0 /\ StepWriteCheck(s, tok, "face", FALSE)
  /\ Update([s EXCEPT !.reserved = Reserved(s) + 1], FALSE)
  /\ call' = [call EXCEPT ![c] = [pc |-> "verify", tok |-> tok, n |-> Reserved(s) + 1]]
  /\ UNCHANGED stepVars /\ UNCHANGED <<sub, waiting, raced>>

End(c, how) == call' = [call EXCEPT ![c].pc = how]

(* Regula answered: live and the same face, or not.                        *)
FaceAnswered(c, ok) ==
  LET s == Fresh IN
  /\ call[c].pc = "verify"
  /\ End(c, "spent")
  /\ IF sess.status # "gone" /\ StepWriteCheck(s, call[c].tok, "face", TRUE)
     THEN /\ Update(InProgress([s EXCEPT !.face = [n |-> call[c].n, ok |-> ok,
                                                   by |-> call[c].tok],
                                         !.pics = TRUE]), FALSE)
          /\ raced' = (raced \/ waiting)
     ELSE Refused /\ UNCHANGED raced
  /\ UNCHANGED stepVars /\ UNCHANGED <<sub, waiting>>

(* Mutant: a refund does not ask whether its attempt is the latest.        *)
RefundableAny(s, n) == s.reserved >= n /\ s.face.n < n

Refundable(s, n) == s.reserved = n /\ s.face.n < n

(* refundFaceAttempt: the call failed through no fault of the subject's.   *)
FaceFailed(c) ==
  LET s == Fresh
      n == call[c].n
  IN
  /\ call[c].pc = "verify"
  /\ IF sess.status # "gone" /\ Refundable(s, n)
     THEN Update([s EXCEPT !.reserved = n - 1], FALSE) /\ End(c, "refunded")
     ELSE Refused /\ End(c, "spent")
  /\ UNCHANGED stepVars /\ UNCHANGED <<sub, waiting, raced>>

(* The transaction is unknown or another session's: the attempt is spent.  *)
FaceRefused(c) ==
  /\ call[c].pc = "verify"
  /\ End(c, "spent")
  /\ UNCHANGED <<sess, queued, faults>>
  /\ UNCHANGED stepVars /\ UNCHANGED <<sub, waiting, raced>>

----------------------------------------------------------------------------
(* Outcomes.                                                               *)

(* sessionOutcome, of evidence that passes the flow's other checks or not. *)
Outcome(s) ==
  IF s.method \in {"idem", "pending"} /\ ~s.face.ok THEN "rejected" ELSE kind.outcome

(* finishSession's result, built before its transaction.                   *)
Build(p, tok, s) ==
  sub' = [sub EXCEPT ![p] =
            [pc |-> "built", tok |-> tok, n |-> s.face.n, ok |-> s.face.ok,
             to |-> Outcome(s)]]

(* handleSubmitSession, the part before the transaction; a submit before   *)
(* the browser's photo is answered, and decides nothing.                   *)
SubmitApp(tok) ==
  /\ sub["app"].pc = "idle" /\ sess.method = "idem"
  /\ CheckAppWrite(sess, tok) /\ ~IsExpired(sess)
  /\ \/ Complete(sess) /\ Build("app", tok, sess) /\ UNCHANGED <<waiting, raced>>
     \/ /\ AppStepsDone(sess) /\ ~Complete(sess)
        /\ waiting' = TRUE
        /\ raced' = (\E c \in Calls : call[c].pc = "verify")
        /\ UNCHANGED sub
  /\ UNCHANGED stepVars /\ UNCHANGED <<sess, call, queued, faults>>

(* heldForReview: a session that goes to review keeps its face pictures.   *)
Keeps(to) == kind.keep \/ to = "needs_review"

Settle(s, to) ==
  [SetStatus(InProgress(s), to) EXCEPT !.pics = @ /\ Keeps(to)]

(* Mutant: the evidence is not compared with what the result was built of. *)
StillBuiltOfAny(s, b) == Complete(s)

(* The evidence is still what the result was built of.                     *)
StillBuiltOf(s, b) == s.face.n = b.n /\ Complete(s)

(* finishSession's transaction.                                            *)
Finish(p) ==
  LET s == Fresh
      b == sub[p]
  IN
  /\ p # "yivi" /\ b.pc = "built"
  /\ sub' = [sub EXCEPT ![p] = NoSub]
  /\ IF sess.status # "gone" /\ CheckAppWrite(s, b.tok) /\ StillBuiltOf(s, b)
     THEN Update([Settle(s, b.to) EXCEPT !.result = [n |-> b.n, ok |-> b.ok],
                                         !.shown = Keeps(b.to)], TRUE)
     ELSE Refused
  /\ UNCHANGED stepVars /\ UNCHANGED <<call, waiting, raced>>

(* Mutant: an Idem session is left to its app to submit.                   *)
DocumentPhotoAlone ==
  LET s == Fresh IN
  /\ kind.photo /\ OpenForDevices(s) /\ ~s.photo
  /\ Update(InProgress([s EXCEPT !.photo = TRUE]), FALSE)
  /\ UNCHANGED stepVars /\ UNCHANGED <<call, sub, waiting, raced>>

(* SubmitDocumentPhoto: the photo is kept once, and a session it completes *)
(* is decided (finishAfterBrowserStep), unless a disclosure decides it.    *)
(* For a session with no app step the scan checks the face as well.        *)
DocumentPhoto ==
  LET s == Fresh
      t == IF s.photo THEN s
           ELSE InProgress([s EXCEPT !.photo = TRUE])
  IN
  /\ kind.photo /\ sub["browser"].pc = "idle"
  /\ OpenForDevices(s)
  /\ Update(t, FALSE)
  /\ IF t.method = "browser" \/ (t.method = "idem" /\ Complete(t))
     THEN Build("browser", System, t)
     ELSE UNCHANGED sub
  /\ UNCHANGED stepVars /\ UNCHANGED <<call, waiting, raced>>

(* FailDocumentScan: a scan out of attempts rejects the session.           *)
FailDocumentScan ==
  LET s == Fresh IN
  /\ kind.photo /\ OpenForDevices(s) /\ ~s.photo
  /\ Update([Settle(s, "rejected") EXCEPT !.pics = kind.keep], TRUE)
  /\ UNCHANGED stepVars /\ UNCHANGED <<call, sub, waiting, raced>>

(* acceptReference: the Yivi app's disclosure, decided on a snapshot.      *)
ReadReference ==
  /\ sub["yivi"].pc = "idle"
  /\ sess.method = "yivi" /\ sess.status \in Running \cup {"needs_review"}
  /\ ~IsExpired(sess) /\ Complete(sess)
  /\ Build("yivi", System, sess)
  /\ UNCHANGED stepVars /\ UNCHANGED <<sess, call, waiting, raced, queued, faults>>

(* boundLoginFinish: any session not over takes it, also one in review.    *)
SettleReference ==
  LET s == Fresh
      b == sub["yivi"]
  IN
  /\ b.pc = "built"
  /\ sub' = [sub EXCEPT !["yivi"] = NoSub]
  /\ IF s.status \in Running \cup {"needs_review"} /\ CanSet(InProgress(s), b.to)
     THEN Update([Settle(s, b.to) EXCEPT !.result = [n |-> b.n, ok |-> b.ok],
                                         !.shown = Keeps(b.to)], TRUE)
     ELSE Refused
  /\ UNCHANGED stepVars /\ UNCHANGED <<call, waiting, raced>>

(* Mutant: a decision leaves the pictures the review was shown.            *)
DropFacePhotosNever(s) == s

DropFacePhotos(s) == [s EXCEPT !.pics = @ /\ kind.keep, !.shown = @ /\ kind.keep]

(* DecideReview.                                                           *)
DecideReview(to) ==
  LET s == Fresh IN
  /\ s.status = "needs_review"
  /\ Update(DropFacePhotos(SetStatus(s, to)), TRUE)
  /\ UNCHANGED stepVars /\ UNCHANGED <<call, sub, waiting, raced>>

----------------------------------------------------------------------------
(* The wallet's other calls, and the jobs.                                 *)

(* ChooseMethod; an Idem session's link is the wallet's next call          *)
(* (MintByWallet).                                                         *)
ChooseMethod(m) ==
  LET s == Fresh IN
  /\ s.method = "pending" /\ OpenForDevices(s)
  /\ Update([s EXCEPT !.method = m], FALSE)
  /\ UNCHANGED stepVars /\ UNCHANGED <<call, sub, waiting, raced>>

(* CancelSession: a session without outcome, so one in review as well.     *)
CancelSession ==
  LET s == Fresh IN
  /\ "cancelled" \in Transitions[s.status]
  /\ Update(SetStatus(s, "cancelled"), TRUE)
  /\ UNCHANGED stepVars /\ UNCHANGED <<call, sub, waiting, raced>>

Erased ==
  [sess EXCEPT !.status = "gone", !.slot = [r \in Roles |-> NoSlot],
     !.grant = [r \in Roles |-> NoGrant], !.doc = "none", !.chip = 0,
     !.face = NoFace, !.photo = FALSE, !.pics = FALSE, !.shown = FALSE,
     !.result = [n |-> 0, ok |-> FALSE], !.reserved = 0]

(* DeleteSession, in whatever state it is; the wallet asked for it.        *)
DeleteSession ==
  /\ sess.status # "gone"
  /\ sess' = Erased
  /\ UNCHANGED stepVars /\ UNCHANGED <<call, sub, waiting, raced, queued, faults>>

(* Mutant: a session no device opened is left.                             *)
ExpiresOpened == IsExpired(sess) /\ sess.status # "created"

Expires == IsExpired(sess)

(* A read (expireIfDue) or the purge job finds the deadline passed.        *)
ExpireDue ==
  /\ Expires
  /\ Update(Fresh, FALSE)
  /\ UNCHANGED stepVars /\ UNCHANGED <<call, sub, waiting, raced>>

(* removeExpired: finished sessions past their retention.                  *)
RemoveFinished ==
  /\ sess.status \in Terminal /\ sess.ended + Retention <= now
  /\ sess' = Erased
  /\ UNCHANGED stepVars /\ UNCHANGED <<call, sub, waiting, raced, queued, faults>>

restVars == <<kind, sess, issued, minted, waiting, raced, void>>

(* Run: the notice is taken off before the wallet is told ...              *)
TakeNotice ==
  /\ queued /\ telling = "no"
  /\ queued' = FALSE /\ telling' = "told"
  /\ UNCHANGED restVars /\ UNCHANGED <<now, call, sub, seen, faults>>

(* ... who reads the session (and stores what it read), one session at a   *)
(* time.                                                                   *)
WalletReads ==
  /\ telling = "told"
  /\ telling' = "read" /\ seen' = sess.status
  /\ UNCHANGED restVars /\ UNCHANGED <<now, call, sub, queued, faults>>

WalletTold ==
  /\ telling = "read" \/ (telling = "told" /\ faults < kind.faults)
  /\ faults' = IF telling = "told" THEN faults + 1 ELSE faults
  /\ telling' = "no"
  /\ UNCHANGED restVars /\ UNCHANGED <<now, call, sub, queued, seen>>

(* The process dies: with it the queue, the calls to Regula and the        *)
(* results being built.  What was reserved stays reserved.                 *)
Crash ==
  /\ faults < kind.faults /\ faults' = faults + 1
  /\ queued' = FALSE /\ telling' = "no"
  /\ call' = [c \in Calls |-> IF call[c].pc = "verify"
                              THEN [call[c] EXCEPT !.pc = "spent"] ELSE call[c]]
  /\ sub' = [p \in Submitters |-> NoSub]
  /\ UNCHANGED restVars /\ UNCHANGED <<now, seen>>

Tick ==
  /\ now < MaxNow /\ now' = now + 1
  /\ UNCHANGED restVars /\ UNCHANGED <<call, sub, queued, telling, seen, faults>>

(* CreateSession: an Idem session has its app's link at once.              *)
Init ==
  /\ now = 0
  /\ kind \in Kinds
  /\ minted = IF kind.method = "idem" THEN 1 ELSE 0
  /\ sess = [status |-> "created", method |-> kind.method,
             exp |-> Least(CreateTTL, MaxLifetime), ended |-> 0,
             slot |-> [r \in Roles |-> NoSlot],
             grant |-> [r \in Roles |->
               IF r = "native" /\ kind.method = "idem"
               THEN [id |-> 1, exp |-> Least(GrantTTL, CreateTTL), used |-> FALSE]
               ELSE NoGrant],
             reserved |-> 0, doc |-> "none", chip |-> 0, face |-> NoFace,
             photo |-> FALSE, pics |-> FALSE, shown |-> FALSE,
             result |-> [n |-> 0, ok |-> FALSE]]
  /\ issued = <<>>
  /\ call = [c \in Calls |-> [pc |-> "idle", tok |-> 0, n |-> 0]]
  /\ sub = [p \in Submitters |-> NoSub]
  /\ waiting = FALSE /\ raced = FALSE /\ void = {}
  /\ queued = FALSE /\ telling = "no" /\ seen = "created"
  /\ faults = 0

Devices ==
  \/ \E r \in Roles : ClaimHandover(r) \/ GoStale(r)
  \/ MintByWallet
  \/ \E tok \in 1..Len(issued) :
       \/ \E r \in Roles : MintByDevice(tok, r)
       \/ DeviceActive(tok) \/ DeviceInactive(tok) \/ TouchDevice(tok)

Steps ==
  \/ \E tok \in 1..Len(issued) :
       \/ StartStep(tok) \/ SubmitDocument(tok) \/ SubmitNFC(tok) \/ SubmitApp(tok)
       \/ \E c \in Calls : ReserveFace(c, tok)
  \/ \E c \in Calls :
       FaceAnswered(c, TRUE) \/ FaceAnswered(c, FALSE) \/ FaceFailed(c) \/ FaceRefused(c)
  \/ \E p \in Submitters : Finish(p)

Wallet ==
  \/ DocumentPhoto \/ FailDocumentScan
  \/ ReadReference \/ SettleReference
  \/ \E to \in {"approved", "rejected"} : DecideReview(to)
  \/ \E m \in {"idem", "yivi"} : ChooseMethod(m)
  \/ CancelSession \/ DeleteSession

Jobs == ExpireDue \/ RemoveFinished \/ TakeNotice \/ WalletReads \/ WalletTold \/ Crash \/ Tick

Next == Devices \/ Steps \/ Wallet \/ Jobs

Spec == Init /\ [][Next]_vars

(* Time passes, and the purge job runs.                                    *)
FairSpec == Spec /\ WF_vars(Tick) /\ WF_vars(ExpireDue)

----------------------------------------------------------------------------
(* Properties.                                                             *)

Tokens == 0..kind.devices

TypeOK ==
  /\ now \in 0..MaxNow /\ kind \in Kinds
  /\ sess.status \in Statuses /\ sess.method \in {"idem", "yivi", "browser", "pending"}
  /\ sess.exp \in 0..MaxLifetime /\ sess.ended \in 0..MaxNow
  /\ sess.slot \in [Roles -> [tok : Tokens, inactive : BOOLEAN, stale : BOOLEAN]]
  /\ \A r \in Roles : sess.grant[r].id \in 0..kind.links
  /\ sess.reserved \in 0..MaxAttempts /\ sess.chip \in Tokens
  /\ sess.face \in [n : 0..MaxAttempts, ok : BOOLEAN, by : Tokens]
  /\ {sess.photo, sess.pics, sess.shown} \subseteq BOOLEAN
  /\ \A c \in Calls : call[c].pc \in {"idle", "verify", "spent", "refunded"}
  /\ telling \in {"no", "told", "read"}
  /\ \A p \in Submitters : sub[p].to \in Statuses \cup {"none"}
  /\ seen \in Statuses /\ faults \in 0..kind.faults

(* A link moves a slot once: no two devices came of the same one, however  *)
(* many redeem it at the same time (access.go, ClaimHandover).             *)
OneDevicePerLink ==
  \A t, u \in 1..Len(issued) : issued[t].grant = issued[u].grant => t = u

(* A device that came back keeps its slot: the link left for its leaving   *)
(* moves the slot to no other device (access.go, CancelPendingHandover).   *)
ReturnedKeepsSlot ==
  [][\A g \in void : \A r \in Roles :
       issued' # issued => issued'[Len(issued')].grant # g]_vars

(* Evidence comes from the device that holds its slot when it is stored,   *)
(* though Regula took seconds and the slot may have moved meanwhile        *)
(* (steps.go, writeStep).                                                  *)
OnlyHoldersWrite ==
  [][/\ sess'.face # sess.face /\ sess'.face.n > 0 => sess'.face.by \in Slots(sess)
     /\ sess'.chip # sess.chip /\ sess'.chip > 0 => sess'.chip \in Slots(sess)]_vars

(* No evidence is stored and nothing decided past the deadline, whatever   *)
(* was under way when it passed; only a review has no deadline             *)
(* (session/store.go, Update).                                             *)
NothingPastDeadline ==
  [][now > sess.exp /\ sess.status \in Running
       => sess'.status \in {sess.status, "expired", "gone"} /\
          (sess'.status = sess.status =>
             sess'.face = sess.face /\ sess'.chip = sess.chip /\ sess'.photo = sess.photo)]_vars

(* Concurrent submissions, refunds among them, never run more than         *)
(* maxFaceStepAttempts calls that are not the service's own failures       *)
(* (steps.go, maxFaceStepAttempts).                                        *)
CallsBounded ==
  sess.status \in Running =>
    Cardinality({c \in Calls : call[c].pc \in {"verify", "spent"}}) <= MaxAttempts

(* The result that decided a session was built of the evidence stored with *)
(* it, though a retry of the face step may land as it is built             *)
(* (submit.go, finishSession).                                             *)
ResultOfStoredEvidence ==
  sess.status \in {"approved", "rejected", "needs_review"} /\ sess.result.n > 0
    => sess.result = [n |-> sess.face.n, ok |-> sess.face.ok]

(* No face picture outlives the decision, in the evidence or in the        *)
(* result, unless the flow keeps them (redaction.go, heldForReview).       *)
PicturesGoWithDecision ==
  sess.status \in {"approved", "rejected", "expired"} /\ ~kind.keep
    => ~sess.pics /\ ~sess.shown

(* The wallet has read the session's last state, or is about to, unless a  *)
(* notice was dropped or lost with its process (engine.go, Run).           *)
OutcomeSeen ==
  sess.status \in Decided /\ kind.told /\ faults = 0 => queued \/ telling = "told" \/ seen = sess.status

(* An app told to wait for the photo is not left waiting: once the photo   *)
(* is in the session is decided, unless a face result came after the       *)
(* app's submit or the process died (submit.go, errDocumentPhotoMissing).  *)
WaitEndsWithPhoto ==
  waiting /\ ~raced /\ faults = 0 /\ sess.status \in Running /\ Complete(sess)
    => \/ \E p \in Submitters : sub[p].pc = "built"
       \/ IsExpired(sess)

(* A session ends or goes to review: opening it may move its deadline, and *)
(* only so far (device_access.go, extendExpiry).                           *)
SessionEnds == <>(sess.status \notin Running)

(* One device holds a slot and only it writes: a link is redeemed once, a  *)
(* device that came back keeps its slot, and who lost it stores nothing.   *)
DeviceAccess == []OneDevicePerLink /\ ReturnedKeepsSlot /\ OnlyHoldersWrite

(* What decides a session: the calls are bounded, the result is of the     *)
(* evidence stored, the pictures go with the decision, and the decision is *)
(* seen, by the wallet and by an app that waits.                           *)
EvidenceDecides ==
  /\ CallsBounded /\ ResultOfStoredEvidence /\ PicturesGoWithDecision
  /\ OutcomeSeen /\ WaitEndsWithPhoto

(* What a read of the session answers: one past its deadline has expired   *)
(* before the read returns, and no row is a session not found.             *)
Told == CASE Fresh.status = "in_progress" -> "opened"
          [] Fresh.status = "gone"        -> "deleted"
          [] OTHER                        -> Fresh.status

Contract == INSTANCE SessionLifecycle WITH status <- Told

(* Whatever devices, wallet and jobs do at once, a reader sees the session *)
(* go through its lifecycle: decided only while it runs or is in review,   *)
(* never after it read as expired (session.go, transitions; store.go).     *)
FollowsContract == Contract!Spec

(* A session has a deadline, it is reached, nothing is stored past it, and *)
(* what ends it is what the wallet was promised.                           *)
DeadlineHolds == NothingPastDeadline /\ FollowsContract /\ SessionEnds
=============================================================================
