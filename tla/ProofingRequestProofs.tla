----------------------- MODULE ProofingRequestProofs -----------------------
(***************************************************************************)
(* Theorems about ProofingRequest, for any number of handlers, jobs,       *)
(* pruners, engine sessions and faults. Everything rests on one inductive  *)
(* invariant, IInv: the types, what a worker may have read, what the row's *)
(* lock guarantees between the engine's answer and the commit, and what    *)
(* was told so far; two more are proved from it: who holds an engine       *)
(* session no row holds yet, and what holds until the first fault.         *)
(***************************************************************************)
EXTENDS ProofingRequest, FiniteSetTheorems, TLAPS

----------------------------------------------------------------------------
(* The inductive invariant.                                                *)

(* A worker holds an outcome exactly while it is about to record it.       *)
OutcomeNamed ==
  \A w \in Workers : IF pc[w] \in {"full", "record"} THEN outcome[w] \in Outcomes
                                                    ELSE outcome[w] = "none"

(* The type invariant, split by what a step writes together: the workers,  *)
(* the row, the clocks and the lock, and the engine.                       *)
WorkOK ==
  /\ pc \in [Workers -> Places]
  /\ seen \in [Workers -> [status : RowStatus, session : Session]]
  /\ sess \in [Workers -> Session]
  /\ outcome \in [Workers -> Outcomes \cup {"none"}]
  /\ reviewLock \in Workers \cup {Free}
  /\ OutcomeNamed

RowOK == row \in Rows /\ sent \in [Events -> Nat] /\ due \in BOOLEAN

RestOK == /\ rowLock \in Workers \cup {Free}
  /\ linkPast \in BOOLEAN /\ holdOver \in BOOLEAN
  /\ faults \in Nat

EngineOK == engine \in [Sessions -> EngineStatus]

Typed == WorkOK /\ RowOK /\ RestOK /\ EngineOK

(* No worker reads a session other than the one the request ends up with,  *)
(* and none goes on about a session without having read one; a second read *)
(* follows only an attached session.                                       *)
AboutSession == {"status", "markStarted", "endSession", "full", "record", "decide", "audit"}

Rereading == {"cancelReread", "cancel2", "purgeReread", "purge2"}

SeenHolds ==
  \A w \in Workers :
    /\ seen[w].session \in {NoSession, row.session}
    /\ pc[w] \in AboutSession => seen[w].session # NoSession
    /\ pc[w] \in {"cancelReread", "purgeReread"} => row.session # NoSession
    /\ pc[w] \in {"cancel2", "purge2"} => seen[w].session = row.session /\ row.session # NoSession

(* What a row says of itself: purged or cancelled is ended, and only a     *)
(* request with a session gets past pending.                               *)
RowShape ==
  /\ row.purged \/ row.cancelled => row.ended
  /\ row.session = NoSession => row.status \in {"absent", "pending"}
  /\ row.purged => ~row.photo /\ ~row.name

(* A purge is told once, an engine's start or review only to a row that    *)
(* has moved on.                                                           *)
PurgeToldOnce == sent["purged"] = (IF row.purged THEN 1 ELSE 0)

StatusTold ==
  /\ row.status \in {"absent", "pending"} => sent["started"] = 0
  /\ row.status \notin Outcomes => sent["review_opened"] = 0

(* What the row says is what was told, each once.                          *)
RowTold == /\ RowShape /\ PurgeToldOnce /\ StatusTold
           /\ OutcomeOnce /\ EndsOnce /\ PhotoOnlyUntilStart

(* A row is inserted while nothing else runs on the request.               *)
InsertAlone ==
  /\ row = NotMade => ~due
  /\ \A w \in Workers : pc[w] = "insert" =>
       row = NotMade /\ \A v \in Workers \ {w} : pc[v] = "idle"

(* Between the engine's answer and the commit, the row's lock keeps the    *)
(* row as it was when the engine was asked, and the engine's answer        *)
(* stands.                                                                 *)
LockHolds ==
  \A w \in Workers :
    /\ pc[w] \in {"cancelCommit", "purgeCommit"} => rowLock = w /\ row.session # NoSession
    /\ pc[w] = "cancelCommit" => RowCancellable /\ engine[row.session] \in {"cancelled", "deleted"}
    /\ pc[w] = "purgeCommit" => ~row.purged /\ engine[row.session] = "deleted"

(* An approval about to be recorded comes from the engine, where it        *)
(* excludes every cancel, stored or under way.                             *)
ApprovalStands ==
  \A w \in Workers : outcome[w] = "approved" =>
    /\ seen[w].session # NoSession
    /\ engine[row.session] \in {"approved", "deleted"}
    /\ ~row.cancelled
    /\ \A v \in Workers : pc[v] # "cancelCommit"

(* Only one worker ever comes from the engine with a decision to audit,    *)
(* whatever became of the review's lock.                                   *)
AuditAlone ==
  /\ sent["review_decided"] > 0 => row.session # NoSession
  /\ \A w \in Workers : pc[w] = "audit" =>
       /\ sent["review_decided"] = 0
       /\ engine[row.session] \in Decided \cup {"deleted"}
       /\ \A v \in Workers \ {w} : pc[v] # "audit"

IInv == /\ Typed /\ SeenHolds /\ InsertAlone /\ LockHolds /\ ApprovalStands
        /\ RowTold /\ CancelledNeverApproved /\ PurgedErased /\ AuditAlone /\ DecisionAuditedOnce

----------------------------------------------------------------------------
(* Which steps touch what.                                                 *)

(* The steps that start a call; those that write the row, its webhooks or  *)
(* the audit; those that change an engine session; those that take or free *)
(* the row's lock.                                                         *)
Starts(w) == HandlerStarts(w) \/ JobStarts(w) \/ PrunerStarts(w)

Writing(w) ==
  \/ CreateHosted(w) \/ InsertRow(w) \/ InsertFails(w) \/ AttachSession(w) \/ AttachUnknown(w)
  \/ MarkStarted(w) \/ EndSession(w) \/ RecordOutcome(w) \/ LapseLinks(w)
  \/ CancelUnstarted(w) \/ CancelCommit(w) \/ LapseReview(w) \/ PurgeUnstarted(w)
  \/ PurgeCommit(w) \/ AuditDecision(w)

Calling(w) ==
  \/ CreateSession(w) \/ StartSession(w) \/ DiscardSession(w) \/ CancelInEngine(w)
  \/ PurgeInEngine(w) \/ DecideInEngine(w)

Locking(w) == \/ CancelInEngine(w) \/ CancelCommit(w) \/ PurgeInEngine(w) \/ PurgeCommit(w)
              \/ Crash(w)

(* The row and what was told change in the writing steps alone.            *)
LEMMA RowSteps ==
  ASSUME [Next]_vars PROVE UNCHANGED rowVars \/ PurgeTimePasses \/ \E w \in Workers : Writing(w)
  <1>1. ASSUME NEW w \in Workers, HandlerStarts(w) \/ JobStarts(w) \/ PrunerStarts(w) \/ Crash(w)
        PROVE  UNCHANGED rowVars \/ Writing(w)
    BY <1>1 DEF HandlerStarts, JobStarts, PrunerStarts, Crash, CreateSession, StartHosted,
         ReadToReconcile, CancelRead, DeclineRead, PurgeRead, LockReview, ListPurgeDue, Writing,
         rowVars
  <1>2. ASSUME NEW w \in Workers, CarriesOn(w)
        PROVE  UNCHANGED rowVars \/ Writing(w)
    BY <1>2
       DEF CarriesOn, Starting, Reconciling, Cancelling, Purging, Reviewing, Writing, rowVars,
         StartSession, AttachRefused, DiscardSession, ReadStatus, ReadFull, CancelRefused,
         CancelMoved, CancelReread, CancelInEngine, HeldCheck, PurgeAlreadyDone, PurgeMoved,
         PurgeReread, PurgeInEngine, ReadReview, DecideInEngine
  <1>3. CASE Engine \/ Time \/ UNCHANGED vars
    BY <1>3 DEF Engine, EngineOpens, EngineFinishes, EngineAccepts,
                EngineExpires, EngineRemoves, EngineMoves, Findings, Time, LinkLapses,
         LegalHoldEnds, vars, rowVars
  <1> QED BY <1>1, <1>2, <1>3 DEF Next, Workers

(* An engine session changes by the engine itself or in a calling step.    *)
LEMMA EngineSteps ==
  ASSUME [Next]_vars PROVE UNCHANGED engine \/ Engine \/ \E w \in Workers : Calling(w)
  <1>1. ASSUME NEW w \in Workers, HandlerStarts(w) \/ JobStarts(w) \/ PrunerStarts(w) \/ Crash(w)
        PROVE  UNCHANGED engine \/ Calling(w)
    BY <1>1
       DEF HandlerStarts, JobStarts, PrunerStarts, Crash, CreateHosted, StartHosted, LapseLinks,
         ReadToReconcile, CancelRead, DeclineRead, PurgeRead, LockReview, ListPurgeDue, Calling
  <1>2. ASSUME NEW w \in Workers, CarriesOn(w)
        PROVE  UNCHANGED engine \/ Calling(w)
    BY <1>2 DEF CarriesOn, Starting, Reconciling, Cancelling, Purging, Reviewing, Calling,
         InsertRow, InsertFails, AttachSession, AttachUnknown, AttachRefused, ReadStatus,
         ReadFull, MarkStarted, EndSession, RecordOutcome, CancelRefused, CancelMoved,
         CancelReread, CancelUnstarted, CancelCommit, HeldCheck, LapseReview, PurgeAlreadyDone,
         PurgeMoved, PurgeReread, PurgeUnstarted, PurgeCommit, ReadReview, AuditDecision
  <1>3. CASE Time \/ UNCHANGED vars
    BY <1>3 DEF Time, LinkLapses, LegalHoldEnds, PurgeTimePasses, vars
  <1> QED BY <1>1, <1>2, <1>3 DEF Next, Workers

(* The row's lock changes in the locking steps alone.                      *)
LEMMA LockSteps ==
  ASSUME [Next]_vars PROVE UNCHANGED rowLock \/ \E w \in Workers : Locking(w)
  <1>1. ASSUME NEW w \in Workers, Starts(w) PROVE UNCHANGED rowLock
    BY <1>1
       DEF Starts, HandlerStarts, JobStarts, PrunerStarts, CreateHosted, CreateSession,
         StartHosted, ReadToReconcile, CancelRead, DeclineRead, PurgeRead, LockReview, LapseLinks,
         ListPurgeDue
  <1>2. ASSUME NEW w \in Workers, CarriesOn(w) \/ Crash(w) PROVE UNCHANGED rowLock \/ Locking(w)
    BY <1>2
       DEF Locking, CarriesOn, Starting, InsertRow, InsertFails, StartSession, AttachSession,
         AttachRefused, AttachUnknown, DiscardSession, Reconciling, ReadStatus, ReadFull,
         MarkStarted, EndSession, RecordOutcome, Cancelling, CancelRefused, CancelMoved,
         CancelReread, CancelUnstarted, Purging, HeldCheck, LapseReview, PurgeAlreadyDone,
         PurgeMoved, PurgeReread, PurgeUnstarted, Reviewing, ReadReview, DecideInEngine,
         AuditDecision
  <1>3. CASE Engine \/ Time \/ UNCHANGED vars
    BY <1>3
       DEF Engine, EngineOpens, EngineFinishes, EngineAccepts,
           EngineExpires, EngineRemoves, EngineMoves, Findings, Time, LinkLapses,
         LegalHoldEnds, PurgeTimePasses, vars
  <1> QED BY <1>1, <1>2, <1>3 DEF Next, Starts, Workers

(* A step meets one fault at most, and only while another is allowed.      *)
LEMMA FaultsGrow ==
  ASSUME [Next]_vars PROVE faults' = faults \/ (faults' = faults + 1 /\ faults < MaxFaults)
  BY DEF Next, vars, HandlerStarts, JobStarts, PrunerStarts, CreateHosted, CreateSession,
    StartHosted, ReadToReconcile, CancelRead, DeclineRead, PurgeRead, LockReview, LapseLinks,
    ListPurgeDue, CarriesOn, Starting, InsertRow, InsertFails, StartSession, AttachSession,
    AttachRefused, AttachUnknown, DiscardSession, Reconciling, ReadStatus, ReadFull,
    MarkStarted, EndSession, RecordOutcome, Cancelling, CancelRefused, CancelMoved,
    CancelReread, CancelUnstarted, CancelInEngine, CancelCommit, Purging, HeldCheck,
    LapseReview, PurgeAlreadyDone, PurgeMoved, PurgeReread, PurgeUnstarted, PurgeInEngine,
    PurgeCommit, Reviewing, ReadReview, DecideInEngine, AuditDecision, Crash, Engine,
    EngineOpens, EngineFinishes, EngineAccepts,
    EngineExpires, EngineRemoves, EngineMoves, Findings, Time, LinkLapses,
    LegalHoldEnds, PurgeTimePasses

----------------------------------------------------------------------------
(* Types.                                                                  *)

(* The row before the request is made is a row.                            *)
LEMMA NotMadeRow == NotMade \in Rows
  BY DEF NotMade, Rows, Session, RowStatus

(* What a worker holds that read nothing is a snapshot too.                *)
LEMMA NothingOK == Nothing \in [status : RowStatus, session : Session]
  BY DEF Nothing, Session, RowStatus

(* A call that ends keeps the workers' types.                              *)
LEMMA DoneOK == ASSUME WorkOK, NEW w \in Workers, Done(w) PROVE WorkOK'
  BY NothingOK DEF WorkOK, Done, GoTo, OutcomeNamed, Places, Session, Nothing

(* A call that goes on keeps them: it carries an outcome only where it did. *)
LEMMA StepOK ==
  ASSUME WorkOK, NEW w \in Workers, NEW p \in Places, Step(w, p),
         p \in {"full", "record"} <=> pc[w] \in {"full", "record"}
  PROVE  WorkOK'
  BY DEF WorkOK, Step, GoTo, OutcomeNamed

(* A read of the row keeps them.                                           *)
LEMMA ReadOK ==
  ASSUME WorkOK, RowOK, NEW w \in Workers, NEW p \in Places \ {"full", "record"},
         pc[w] \notin {"full", "record"}, ReadThen(w, p)
  PROVE  WorkOK'
  <1>1. Snapshot \in [status : RowStatus, session : Session]
    BY DEF RowOK, Rows, Snapshot
  <1> QED BY <1>1 DEF WorkOK, ReadThen, GoTo, OutcomeNamed

(* A write of a row that is told keeps the row's type.                     *)
LEMMA WriteOK == ASSUME RowOK, NEW r \in Rows, NEW e \in Events, Write(r), Tell(e) PROVE RowOK'
  <1>1. sent[e] + 1 \in Nat
    BY DEF RowOK
  <1>2. sent' \in [Events -> Nat]
    BY <1>1 DEF RowOK, Tell
  <1> QED BY <1>2 DEF RowOK, Write

(* So does a write nobody is told of.                                      *)
LEMMA WriteQuietOK == ASSUME RowOK, NEW r \in Rows, Write(r), UNCHANGED sent PROVE RowOK'
  BY DEF RowOK, Write

(* Every row the code writes is a row.                                     *)
LEMMA RowsOK ==
  ASSUME RowOK
  PROVE
    /\ CancelledRow \in Rows /\ PurgedRow \in Rows
    /\ \A s \in Session : Attached(s) \in Rows
    /\ \A st \in RowStatus : [row EXCEPT !.status = st] \in Rows
    /\ \A st \in RowStatus, b \in BOOLEAN : [row EXCEPT !.status = st, !.name = b] \in Rows
    /\ [row EXCEPT !.ended = TRUE] \in Rows
    /\ [row EXCEPT !.ended = TRUE, !.photo = FALSE] \in Rows
    /\ \A a, b, c \in BOOLEAN : NewRow(a, b, c) \in Rows
  BY NotMadeRow
     DEF RowOK, Rows, CancelledRow, PurgedRow, Attached, NewRow, RowStatus, Open, Unsettled

(* The initial state has the types.                                        *)
LEMMA InitTyped == Init => Typed
  <1> SUFFICES ASSUME Init PROVE Typed OBVIOUS
  <1>1. RowOK /\ RestOK /\ EngineOK
    BY ConstantsAssumption, NotMadeRow DEF Init, RowOK, RestOK, EngineOK, EngineStatus
  <1>2. WorkOK
    BY NothingOK DEF Init, WorkOK, OutcomeNamed, Session, Places
  <1> QED BY <1>1, <1>2 DEF Typed

(* A call carried on, or cut off, keeps the workers' types.                *)
LEMMA WorkCarried ==
  ASSUME Typed, NEW w \in Workers, CarriesOn(w) \/ Crash(w)
  PROVE  WorkOK'
  <1> USE DEF Typed
  <1>1. CASE Starting(w)
    BY <1>1, StepOK, DoneOK
       DEF Starting, InsertRow, InsertFails, AttachSession, AttachRefused, AttachUnknown,
         DiscardSession, StartSession, EngineCreates, Places, WorkOK, OutcomeNamed, GoTo, At,
         Session
  <1>2. CASE Reconciling(w)
    <2>1. CASE ReadStatus(w)
      <3>1. \A status \in Outcomes : Verdict(status) \in Outcomes
        BY DEF Verdict, Outcomes, Decided
      <3>2. CASE Done(w) \/ Step(w, "markStarted") \/ Step(w, "endSession")
        BY <2>1, <3>2, DoneOK, StepOK DEF ReadStatus, At, Places
      <3>3. CASE \E found \in Outcomes :
                   /\ outcome' = [outcome EXCEPT ![w] = Verdict(found)]
                   /\ GoTo(w, IF Verdict(found) = "approved" THEN "full" ELSE "record")
                   /\ UNCHANGED <<seen, sess, reviewLock>>
        BY <3>1, <3>3 DEF WorkOK, GoTo, OutcomeNamed, Places
      <3> QED BY <2>1, <3>2, <3>3 DEF ReadStatus
    <2> QED BY <1>2, <2>1, StepOK, DoneOK
        DEF Reconciling, ReadFull, MarkStarted, EndSession, RecordOutcome, At, Places, WorkOK,
          OutcomeNamed
  <1>3. CASE Cancelling(w)
    BY <1>3, StepOK, DoneOK, ReadOK
       DEF At, AtCancel, Cancelling, CancelRefused, CancelMoved, CancelReread, CancelUnstarted,
         CancelInEngine, CancelCommit, Places
  <1>4. CASE Purging(w)
    BY <1>4, StepOK, DoneOK, ReadOK
       DEF At, AtPurge, Purging, HeldCheck, LapseReview, PurgeAlreadyDone, PurgeMoved,
         PurgeReread, PurgeUnstarted, PurgeInEngine, PurgeCommit, Places
  <1>5. CASE Reviewing(w)
    BY <1>5, StepOK, DoneOK, ReadOK
       DEF At, Reviewing, ReadReview, DecideInEngine, AuditDecision, Places
  <1>6. CASE Crash(w)
    BY <1>6, DoneOK DEF Crash
  <1> QED BY <1>1, <1>2, <1>3, <1>4, <1>5, <1>6 DEF CarriesOn

(* Every step keeps the workers' types.                                    *)
LEMMA WorkTyped ==
  ASSUME Typed, [Next]_vars PROVE WorkOK'
  <1> USE DEF Typed
  <1>1. ASSUME NEW w \in Workers, HandlerStarts(w) \/ JobStarts(w) \/ PrunerStarts(w)
        PROVE  WorkOK'
    <2>1. UNCHANGED workVars => WorkOK'
      BY DEF workVars, WorkOK, OutcomeNamed
    <2>2. CASE CreateSession(w)
      BY <2>2
         DEF CreateSession, NotRequested, EngineCreates, GoTo, WorkOK, OutcomeNamed, Places,
           Session
    <2>3. CASE LockReview(w)
      BY <2>3 DEF LockReview, At, GoTo, WorkOK, OutcomeNamed, Places
    <2> QED BY <1>1, <2>1, <2>2, <2>3, StepOK, ReadOK
      DEF HandlerStarts, JobStarts, PrunerStarts, CreateHosted, CreateSession, StartHosted,
        ReadToReconcile, CancelRead, DeclineRead, PurgeRead, LockReview, LapseLinks, ListPurgeDue,
        At, Places
  <1>2. CASE Engine \/ Time \/ UNCHANGED vars
    BY <1>2
       DEF Engine, EngineOpens, EngineFinishes, EngineAccepts,
           EngineExpires, EngineRemoves, EngineMoves, Findings, Time, LinkLapses,
         LegalHoldEnds, PurgeTimePasses, vars, workVars, WorkOK, OutcomeNamed
  <1> QED BY <1>1, <1>2, WorkCarried DEF Next, Workers

(* Every step keeps the row's type.                                        *)
LEMMA RowTyped ==
  ASSUME Typed, [Next]_vars PROVE RowOK'
  <1> USE DEF Typed
  <1>0. UNCHANGED rowVars \/ PurgeTimePasses => RowOK'
    BY DEF rowVars, RowOK, PurgeTimePasses
  <1>1. ASSUME NEW w \in Workers, Writing(w) PROVE RowOK'
    <2>1. ASSUME NEW status \in Outcomes, StoreOutcome(w, status) PROVE RowOK'
      BY <1>0, <2>1, RowsOK, WriteOK
         DEF StoreOutcome, OutcomeEvent, Outcomes, Decided, RowStatus, Open, Events
    <2>2. CASE CreateHosted(w) \/ InsertRow(w) \/ InsertFails(w)
      BY <2>2, RowsOK, WriteQuietOK DEF CreateHosted, InsertRow, InsertFails, RowOK
    <2>3. CASE AttachSession(w) \/ AttachUnknown(w)
      BY <2>3, RowsOK, WriteOK DEF AttachSession, AttachUnknown, Events, WorkOK
    <2>4. CASE MarkStarted(w) \/ EndSession(w) \/ LapseLinks(w)
      BY <1>0, <2>4, RowsOK, WriteOK
         DEF MarkStarted, EndSession, LapseLinks, Events, RowStatus, Open, Unsettled
    <2>5. CASE RecordOutcome(w) \/ LapseReview(w)
      BY <2>1, <2>5 DEF RecordOutcome, LapseReview, At, Outcomes, Decided, WorkOK, OutcomeNamed
    <2>6. CASE CancelUnstarted(w) \/ CancelCommit(w) \/ PurgeUnstarted(w) \/ PurgeCommit(w)
      BY <2>6, RowsOK, WriteOK
         DEF CancelUnstarted, CancelCommit, PurgeUnstarted, PurgeCommit, Events
    <2>7. CASE AuditDecision(w)
      <3>1. sent["review_decided"] + 1 \in Nat
        BY DEF RowOK, Events
      <3> QED BY <2>7, <3>1 DEF AuditDecision, Tell, RowOK, Events
    <2> QED BY <1>1, <2>2, <2>3, <2>4, <2>5, <2>6, <2>7 DEF Writing
  <1> QED BY <1>0, <1>1, RowSteps

(* Every step keeps the lock's, the clocks' and the fault count's types.   *)
LEMMA RestTyped ==
  ASSUME Typed, [Next]_vars PROVE RestOK'
  <1> USE DEF Typed, RestOK
  <1>1. rowLock' \in Workers \cup {Free}
    BY LockSteps DEF Locking, CancelInEngine, CancelCommit, PurgeInEngine, PurgeCommit, Crash
  <1>2. linkPast' \in BOOLEAN /\ holdOver' \in BOOLEAN /\ faults' \in Nat
    <2>1. ASSUME NEW w \in Workers, HandlerStarts(w) \/ JobStarts(w) \/ PrunerStarts(w)
          PROVE  UNCHANGED <<timeVars, faults>>
      BY <2>1
         DEF HandlerStarts, JobStarts, PrunerStarts, CreateHosted, CreateSession, StartHosted,
           ReadToReconcile, CancelRead, DeclineRead, PurgeRead, LockReview, LapseLinks,
           ListPurgeDue, timeVars
    <2>2. ASSUME NEW w \in Workers, CarriesOn(w) \/ Crash(w)
          PROVE  UNCHANGED timeVars /\ faults' \in {faults, faults + 1}
      BY <2>2
         DEF CarriesOn, Crash, Starting, InsertRow, InsertFails, StartSession, AttachSession,
           AttachRefused, AttachUnknown, DiscardSession, Reconciling, ReadStatus, ReadFull,
           MarkStarted, EndSession, RecordOutcome, Cancelling, CancelRefused, CancelMoved,
           CancelReread, CancelUnstarted, CancelInEngine, CancelCommit, Purging, HeldCheck,
           LapseReview, PurgeAlreadyDone, PurgeMoved, PurgeReread, PurgeUnstarted, PurgeInEngine,
           PurgeCommit, Reviewing, ReadReview, DecideInEngine, AuditDecision
    <2>3. CASE Engine \/ Time \/ UNCHANGED vars
      <3>1. CASE EngineRemoves
        BY <3>1 DEF EngineRemoves, timeVars
      <3>2. CASE ~EngineRemoves
        BY <2>3, <3>2
           DEF Engine, EngineOpens, EngineFinishes, EngineAccepts, EngineExpires, EngineMoves,
             Findings, Time, LinkLapses, LegalHoldEnds, PurgeTimePasses, vars, timeVars
      <3> QED BY <3>1, <3>2
    <2> QED BY <2>1, <2>2, <2>3 DEF Next, timeVars, Workers
  <1> QED BY <1>1, <1>2

(* Every step keeps the types of the engine and of unattached sessions.    *)
LEMMA EngineTyped ==
  ASSUME Typed, [Next]_vars PROVE EngineOK'
  <1> USE DEF Typed, EngineOK, EngineStatus, Running, EngineOver, Outcomes, Decided
  <1>1. ASSUME NEW w \in Workers, HandlerStarts(w) PROVE EngineOK'
    BY <1>1
       DEF HandlerStarts, CreateHosted, CreateSession, EngineCreates, StartHosted,
         ReadToReconcile, CancelRead, DeclineRead, PurgeRead, LockReview
  <1>2. ASSUME NEW w \in Workers, CarriesOn(w) PROVE EngineOK'
    <2>1. CASE Starting(w)
      BY <2>1
         DEF Starting, InsertRow, InsertFails, AttachSession, AttachRefused, AttachUnknown,
           DiscardSession, StartSession, EngineCreates
    <2>2. CASE Reconciling(w)
      BY <2>2 DEF Reconciling, ReadStatus, ReadFull, MarkStarted, EndSession, RecordOutcome
    <2>3. CASE Cancelling(w)
      BY <2>3
         DEF Cancelling, CancelRefused, CancelMoved, CancelReread, CancelUnstarted,
           CancelInEngine, CancelCommit
    <2>4. CASE Purging(w)
      BY <2>4
         DEF Purging, HeldCheck, LapseReview, PurgeAlreadyDone, PurgeMoved, PurgeReread,
           PurgeUnstarted, PurgeInEngine, PurgeCommit
    <2>5. CASE Reviewing(w)
      BY <2>5 DEF Reviewing, ReadReview, DecideInEngine, AuditDecision
    <2> QED BY <1>2, <2>1, <2>2, <2>3, <2>4, <2>5 DEF CarriesOn
  <1>3. ASSUME NEW w \in Workers, JobStarts(w) \/ PrunerStarts(w) \/ Crash(w) PROVE EngineOK'
    BY <1>3 DEF JobStarts, PrunerStarts, Crash, LapseLinks, ReadToReconcile, ListPurgeDue
  <1>4. CASE Engine \/ Time \/ UNCHANGED vars
    BY <1>4
       DEF Engine, EngineOpens, EngineFinishes, EngineAccepts,
           EngineExpires, EngineRemoves, EngineMoves, Findings, Time, LinkLapses,
         LegalHoldEnds, PurgeTimePasses, vars
  <1> QED BY <1>1, <1>2, <1>3, <1>4 DEF Next, Workers

----------------------------------------------------------------------------
(* What a worker's place says of the step that led there.                  *)

(* A worker whose place does not change keeps what it holds, and every     *)
(* place the invariant speaks of is reached by few steps.                  *)
Arrives(w) ==
  \/ pc'[w] = pc[w] /\ seen'[w] = seen[w] /\ outcome'[w] = outcome[w]
  \/ pc'[w] = "idle" /\ seen'[w] = Nothing /\ outcome'[w] = "none"
  \/ pc'[w] = "insert" /\ CreateSession(w)
  \/ pc'[w] = "cancelCommit" /\ CancelInEngine(w)
  \/ pc'[w] = "purgeCommit" /\ PurgeInEngine(w)
  \/ pc'[w] = "audit" /\ DecideInEngine(w)
  \/ pc'[w] \in {"full", "record"} /\ (ReadStatus(w) \/ ReadFull(w))
  \/ /\ pc'[w] \in {"status", "markStarted", "endSession", "decide"}
     /\ outcome'[w] = outcome[w] /\ outcome[w] = "none"
     /\ \/ ReadToReconcile(w) \/ ReadStatus(w) \/ ReadReview(w)
        \/ DecideInEngine(w) \/ AuditDecision(w)
  \/ /\ pc'[w] \in Rereading /\ outcome'[w] = outcome[w]
     /\ CancelMoved(w) \/ PurgeMoved(w) \/ CancelReread(w) \/ PurgeReread(w)
  \/ /\ pc'[w] \notin AboutSession \cup Rereading \cup {"insert", "cancelCommit", "purgeCommit"}
     /\ pc'[w] = "lapse" => ListPurgeDue(w)
     /\ outcome'[w] = outcome[w] /\ seen'[w] \in {seen[w], Snapshot}

(* Every step moves every worker so.                                       *)
LEMMA Arrivals == ASSUME IInv, [Next]_vars, NEW w \in Workers PROVE Arrives(w)
  <1> USE DEF IInv, RowTold, Typed, WorkOK, OutcomeNamed, Arrives, GoTo, Done, Step, ReadThen, At
  <1>1. ASSUME NEW v \in Workers, HandlerStarts(v) \/ JobStarts(v) \/ PrunerStarts(v)
        PROVE Arrives(w)
    BY <1>1
       DEF HandlerStarts, JobStarts, PrunerStarts, CreateHosted, CreateSession, StartHosted,
         ReadToReconcile, CancelRead, DeclineRead, PurgeRead, LockReview, LapseLinks,
         ListPurgeDue, workVars, AboutSession, Rereading
  <1>2. ASSUME NEW v \in Workers, Starting(v) PROVE Arrives(w)
    BY <1>2
       DEF Starting, InsertRow, InsertFails, StartSession, AttachSession, AttachRefused,
         AttachUnknown, DiscardSession, AboutSession, Rereading, EngineCreates
  <1>3. ASSUME NEW v \in Workers, Reconciling(v) PROVE Arrives(w)
    BY <1>3
       DEF Reconciling, ReadStatus, ReadFull, MarkStarted, EndSession, RecordOutcome,
         AboutSession, Rereading
  <1>4. ASSUME NEW v \in Workers, Cancelling(v) PROVE Arrives(w)
    BY <1>4
       DEF Cancelling, CancelRefused, CancelMoved, CancelReread, CancelUnstarted, CancelInEngine,
         CancelCommit, AboutSession, Rereading
  <1>5. ASSUME NEW v \in Workers, Purging(v) PROVE Arrives(w)
    BY <1>5
       DEF Purging, HeldCheck, LapseReview, PurgeAlreadyDone, PurgeMoved, PurgeReread,
         PurgeUnstarted, PurgeInEngine, PurgeCommit, AboutSession, Rereading
  <1>6. ASSUME NEW v \in Workers, Reviewing(v) PROVE Arrives(w)
    BY <1>6 DEF Reviewing, ReadReview, DecideInEngine, AuditDecision, AboutSession, Rereading
  <1>7. ASSUME NEW v \in Workers, Crash(v) PROVE Arrives(w)
    BY <1>7 DEF Crash
  <1>8. CASE Engine \/ Time \/ UNCHANGED vars
    BY <1>8
       DEF Engine, EngineOpens, EngineFinishes, EngineAccepts,
           EngineExpires, EngineRemoves, EngineMoves, Findings, Time, LinkLapses,
         LegalHoldEnds, PurgeTimePasses, vars, workVars
  <1> QED BY <1>1, <1>2, <1>3, <1>4, <1>5, <1>6, <1>7, <1>8 DEF Next, CarriesOn, Workers

(* Only a start takes a worker out of its idle place.                      *)
LEMMA StartSteps ==
  ASSUME IInv, [Next]_vars, NEW w \in Workers, pc[w] = "idle", pc'[w] # "idle" PROVE Starts(w)
  <1> USE DEF IInv, RowTold, Typed, WorkOK, GoTo, Done, Step, ReadThen, At, AtCancel, AtPurge
  <1>1. ASSUME NEW v \in Workers, Starts(v) PROVE v = w
    BY <1>1
       DEF Starts, HandlerStarts, JobStarts, PrunerStarts, CreateHosted, CreateSession,
         StartHosted, ReadToReconcile, CancelRead, DeclineRead, PurgeRead, LockReview, LapseLinks,
         ListPurgeDue, workVars
  <1>2. ASSUME NEW v \in Workers, CarriesOn(v) PROVE FALSE
    <2>1. ~Starting(v)
      BY DEF Starting, InsertRow, InsertFails, StartSession, AttachSession, AttachRefused,
           AttachUnknown, DiscardSession
    <2>2. ~Reconciling(v)
      BY DEF Reconciling, ReadStatus, ReadFull, MarkStarted, EndSession, RecordOutcome
    <2>3. ~Cancelling(v)
      BY DEF Cancelling, CancelRefused, CancelMoved, CancelReread, CancelUnstarted,
           CancelInEngine, CancelCommit
    <2>4. ~Purging(v)
      BY DEF Purging, HeldCheck, LapseReview, PurgeAlreadyDone, PurgeMoved, PurgeReread,
           PurgeUnstarted, PurgeInEngine, PurgeCommit
    <2>5. ~Reviewing(v)
      BY DEF Reviewing, ReadReview, DecideInEngine, AuditDecision
    <2> QED BY <1>2, <2>1, <2>2, <2>3, <2>4, <2>5 DEF CarriesOn
  <1>3. ASSUME NEW v \in Workers, Crash(v) PROVE FALSE
    BY <1>3 DEF Crash
  <1>4. CASE Engine \/ Time \/ UNCHANGED vars
    BY <1>4
       DEF Engine, EngineOpens, EngineFinishes, EngineAccepts,
           EngineExpires, EngineRemoves, EngineMoves, Findings, Time, LinkLapses,
         LegalHoldEnds, PurgeTimePasses, vars, workVars
  <1> QED BY <1>1, <1>2, <1>3, <1>4 DEF Next, Starts, Workers

----------------------------------------------------------------------------
(* What never changes again: a status the engine settled on, short of its  *)
(* erasure, and the session of a row.                                      *)

(* An engine session that is over stays as it ended, or is erased.         *)
LEMMA EngineFinal ==
  ASSUME IInv, [Next]_vars, NEW s \in Sessions,
         NEW status \in {"approved", "rejected", "cancelled", "expired", "deleted"},
         engine[s] = status
  PROVE  engine'[s] \in {status, "deleted"}
  <1> USE DEF IInv, RowTold, Typed, EngineOK
  <1>1. CASE Engine
    BY <1>1 DEF Engine, EngineOpens, EngineFinishes, EngineAccepts,
                EngineExpires, EngineRemoves, EngineMoves, Findings, Running
  <1>2. ASSUME NEW w \in Workers, Calling(w) PROVE engine'[s] \in {status, "deleted"}
    BY <1>2
       DEF Calling, CreateSession, StartSession, EngineCreates, DiscardSession, CancelInEngine,
         PurgeInEngine, DecideInEngine, Cancellable, Running
  <1> QED BY <1>1, <1>2, EngineSteps

(* A request's session is attached once (AttachSession), and never         *)
(* replaced.                                                               *)
LEMMA SessionFixed ==
  ASSUME IInv, [Next]_vars, row.session # NoSession PROVE row'.session = row.session
  <1> USE DEF IInv, RowTold, Typed, RowOK, Rows
  <1>1. ASSUME NEW w \in Workers, Writing(w) PROVE row'.session = row.session
    <2>1. CASE CreateHosted(w) \/ InsertRow(w) \/ InsertFails(w)
      <3>1. row # NotMade
        BY DEF NotMade
      <3> QED BY <2>1, <3>1
        DEF CreateHosted, NotRequested, InsertRow, InsertFails, InsertAlone, At
    <2>2. CASE AttachSession(w) \/ AttachUnknown(w)
      BY <2>2 DEF AttachSession, AttachUnknown, Attachable
    <2>3. CASE MarkStarted(w) \/ EndSession(w) \/ LapseLinks(w) \/ AuditDecision(w)
      BY <2>3 DEF MarkStarted, EndSession, LapseLinks, AuditDecision, Write, rowVars
    <2>4. CASE RecordOutcome(w) \/ LapseReview(w)
      BY <2>4 DEF RecordOutcome, StoreOutcome, LapseReview, Write, rowVars
    <2>5. CASE CancelUnstarted(w) \/ CancelCommit(w)
      BY <2>5 DEF CancelUnstarted, CancelCommit, CancelledRow, Write
    <2>6. CASE PurgeUnstarted(w) \/ PurgeCommit(w)
      BY <2>6 DEF PurgeUnstarted, PurgeCommit, PurgedRow, Write
    <2> QED BY <1>1, <2>1, <2>2, <2>3, <2>4, <2>5, <2>6 DEF Writing
  <1> QED BY <1>1, RowSteps DEF PurgeTimePasses, rowVars

----------------------------------------------------------------------------
(* Each part of the invariant is kept.                                     *)

(* No call starts on a request whose row is being inserted.                *)
LEMMA InsertAloneKept == ASSUME IInv, [Next]_vars PROVE InsertAlone'
  <1> USE DEF IInv, RowTold, Typed, RowOK, Rows, WorkOK, InsertAlone
  <1>1. row' = NotMade => ~due'
    <2>1. CASE UNCHANGED rowVars \/ PurgeTimePasses
      BY <2>1 DEF rowVars, PurgeTimePasses
    <2>2. ASSUME NEW w \in Workers, Writing(w) PROVE ~due' \/ UNCHANGED <<row, due>>
      BY <2>2
         DEF Writing, Write, CreateHosted, InsertRow, InsertFails, AttachSession, AttachUnknown,
           MarkStarted, EndSession, RecordOutcome, StoreOutcome, LapseLinks, CancelUnstarted,
           CancelCommit, LapseReview, PurgeUnstarted, PurgeCommit, AuditDecision, rowVars
    <2> QED BY <2>1, <2>2, RowSteps
  <1>2. ASSUME NEW w \in Workers, pc'[w] = "insert"
        PROVE  row' = NotMade /\ \A v \in Workers \ {w} : pc'[v] = "idle"
    <2>1. CASE CreateSession(w)
      BY <2>1 DEF CreateSession, NotRequested, GoTo, rowVars
    <2>2. CASE pc[w] = "insert"
      <3>1. row = NotMade /\ \A v \in Workers \ {w} : pc[v] = "idle"
        BY <2>2
      <3>2. \A v \in Workers : ~Starts(v)
        <4>1. ~due /\ ~NotRequested
          BY <2>2, <3>1 DEF NotRequested
        <4>2. row.status = "absent" /\ row.session = NoSession /\ ~row.hosted
          BY <3>1 DEF NotMade
        <4> QED BY <3>1, <4>1, <4>2
          DEF Starts, HandlerStarts, JobStarts, PrunerStarts, CreateHosted, CreateSession,
              StartHosted, AwaitingStart, ReadToReconcile, NeedsReconcile, CancelRead, MayCancel,
              DeclineRead, PurgeRead, LockReview, LapseLinks, ListPurgeDue, Unsettled
      <3>3. \A v \in Workers \ {w} : pc'[v] = "idle"
        BY <3>1, <3>2, StartSteps
      <3>4. ASSUME NEW v \in Workers, Writing(v) PROVE FALSE
        <4>1. pc[v] = "idle" \/ (v = w /\ pc[v] = "insert")
          BY <2>2, <3>1
        <4>2. ~CreateHosted(v) /\ ~LapseLinks(v)
          BY <2>2, <3>1 DEF CreateHosted, NotRequested, LapseLinks, NotMade
        <4>3. InsertRow(v) \/ InsertFails(v)
          BY <3>4, <4>1, <4>2
             DEF Writing, AttachSession, AttachUnknown, MarkStarted, EndSession, RecordOutcome,
               CancelUnstarted, AtCancel, AtPurge, CancelCommit, LapseReview, PurgeUnstarted,
               PurgeCommit, AuditDecision, At
        <4> QED BY <1>2, <4>1, <4>3 DEF InsertRow, InsertFails, At, Step, GoTo
      <3> QED BY <3>1, <3>3, <3>4, RowSteps DEF PurgeTimePasses, rowVars
    <2> QED BY <1>2, <2>1, <2>2, Arrivals DEF Arrives, AboutSession, Rereading
  <1> QED BY <1>1, <1>2

(* A worker reads the session of the row or none, and the row's session    *)
(* stays.                                                                  *)
LEMMA SeenHoldsKept == ASSUME IInv, [Next]_vars PROVE SeenHolds'
  <1> USE DEF IInv, RowTold, SeenHolds
  <1> SUFFICES ASSUME NEW w \in Workers
      PROVE /\ seen'[w].session \in {NoSession, row'.session}
            /\ pc'[w] \in AboutSession => seen'[w].session # NoSession
            /\ pc'[w] \in {"cancelReread", "purgeReread"} => row'.session # NoSession
            /\ pc'[w] \in {"cancel2", "purge2"} =>
                 seen'[w].session = row'.session /\ row'.session # NoSession
    BY DEF SeenHolds
  <1>1. Arrives(w)
    BY Arrivals
  <1>2. row.session # NoSession => row'.session = row.session
    BY SessionFixed
  <1>3. CASE pc'[w] = pc[w] /\ seen'[w] = seen[w]
    BY <1>2, <1>3
  <1>4. CASE pc'[w] = "idle" /\ seen'[w] = Nothing
    BY <1>4 DEF Nothing, AboutSession, Rereading
  <1>5. CASE CreateSession(w)
    BY <1>2, <1>5 DEF CreateSession, GoTo, Typed, WorkOK, AboutSession, Rereading
  <1>6. CASE CancelInEngine(w) \/ PurgeInEngine(w)
    BY <1>2, <1>6
       DEF CancelInEngine, PurgeInEngine, Done, Step, GoTo, Typed, WorkOK, AboutSession,
         Rereading, Nothing
  <1>7. CASE DecideInEngine(w)
    BY <1>2, <1>7 DEF DecideInEngine, Done, Step, GoTo, Typed, WorkOK, AboutSession, Rereading,
         Nothing, At
  <1>8. CASE ReadStatus(w) \/ ReadFull(w)
    BY <1>2, <1>8
       DEF ReadStatus, ReadFull, Done, Step, GoTo, Typed, WorkOK, AboutSession, Rereading,
         Nothing, At
  <1>9. CASE ReadToReconcile(w)
    BY <1>2, <1>9
       DEF ReadToReconcile, NeedsReconcile, ReadThen, Snapshot, GoTo, Typed, WorkOK, AboutSession,
         Rereading
  <1>10. CASE AuditDecision(w)
    BY <1>2, <1>10 DEF AuditDecision, Done, Step, GoTo, Typed, WorkOK, AboutSession, Rereading,
         Nothing, At
  <1>11. CASE ReadReview(w)
    BY <1>2, <1>11
       DEF ReadReview, RowShape, ReadThen, Snapshot, Done, Nothing, GoTo, Typed, WorkOK,
         AboutSession, rowVars
  <1>12. CASE CancelMoved(w) \/ PurgeMoved(w)
    BY <1>2, <1>12
       DEF CancelMoved, PurgeMoved, Done, Step, GoTo, Typed, WorkOK, AboutSession, Rereading,
         Nothing
  <1>13. CASE CancelReread(w) \/ PurgeReread(w)
    BY <1>2, <1>13
       DEF CancelReread, PurgeReread, Done, ReadThen, Snapshot, GoTo, Typed, WorkOK, AboutSession,
         Rereading, Nothing, At
  <1>14. CASE pc'[w] \notin AboutSession \cup Rereading /\ seen'[w] \in {seen[w], Snapshot}
    BY <1>2, <1>14 DEF Snapshot, AboutSession, Rereading
  <1> QED BY <1>1, <1>3, <1>4, <1>5, <1>6, <1>7, <1>8, <1>9, <1>10, <1>11, <1>12, <1>13, <1>14
    DEF Arrives

(* Nobody writes a row another transaction has locked across its engine    *)
(* call (RequestStore.Cancel, RequestStore.Purge).                         *)
LEMMA LockHoldsKept == ASSUME IInv, [Next]_vars PROVE LockHolds'
  <1> USE DEF IInv, RowTold, LockHolds
  <1> SUFFICES ASSUME NEW w \in Workers, pc'[w] \in {"cancelCommit", "purgeCommit"}
      PROVE /\ rowLock' = w /\ row'.session # NoSession
            /\ pc'[w] = "cancelCommit" =>
                 RowCancellable' /\ engine'[row'.session] \in {"cancelled", "deleted"}
            /\ pc'[w] = "purgeCommit" => ~row'.purged /\ engine'[row'.session] = "deleted"
    BY DEF LockHolds
  <1>1. CASE CancelInEngine(w)
    <2>1. /\ pc'[w] = "cancelCommit" /\ rowLock' = w /\ row' = row
          /\ engine' = [engine EXCEPT ![row.session] = "cancelled"]
      BY <1>1 DEF CancelInEngine, rowVars, Done, Step, GoTo, Typed, WorkOK
    <2>2. row.session \in Sessions /\ RowCancellable
      BY <1>1 DEF CancelInEngine, SameSession, Typed, RowOK, Rows, Session
    <2> QED BY <2>1, <2>2, ConstantsAssumption DEF RowCancellable, Typed, EngineOK
  <1>2. CASE PurgeInEngine(w)
    BY <1>2
       DEF PurgeInEngine, SameSession, rowVars, Typed, RowOK, EngineOK, Rows, Session, WorkOK,
         Step, GoTo
  <1>3. CASE pc'[w] = pc[w]
    <2>1. rowLock = w /\ row.session \in Sessions /\ row # NotMade
      BY <1>3 DEF Typed, RowOK, Rows, Session, NotMade
    <2>2. \A v \in Workers : pc[v] \in {"cancelCommit", "purgeCommit"} => v = w
      BY <2>1
    <2>3. rowLock' = w
      <3>1. ASSUME NEW v \in Workers, Locking(v) PROVE rowLock' = w
        BY <1>3, <2>1, <2>2, <3>1, ConstantsAssumption
        DEF Locking, CancelInEngine, AtCancel, CancelCommit, PurgeInEngine, AtPurge, PurgeCommit,
          Crash, At, Done, GoTo, Typed, WorkOK
      <3> QED BY <2>1, <3>1, LockSteps
    <2>4. row' = row
      <3>1. ASSUME NEW v \in Workers, Writing(v) PROVE row' = row
        BY <1>3, <2>1, <2>2, <3>1, ConstantsAssumption
        DEF Writing, CreateHosted, NotRequested, InsertRow, InsertFails, InsertAlone,
          AttachSession, AttachUnknown, MarkStarted, EndSession, RecordOutcome, LapseLinks,
          CancelUnstarted, AtCancel, AtPurge, CancelCommit, LapseReview, PurgeUnstarted,
          PurgeCommit, AuditDecision, At, Done, GoTo, Typed, WorkOK
      <3> QED BY <3>1, RowSteps DEF rowVars, PurgeTimePasses
    <2> QED BY <1>3, <2>1, <2>3, <2>4, EngineFinal DEF RowCancellable
  <1> QED BY <1>1, <1>2, <1>3, Arrivals DEF Arrives, AboutSession, Rereading

(* Each writing step tells what it wrote, once.                            *)
LEMMA CountersKept ==
  ASSUME IInv, NEW w \in Workers, Writing(w)
  PROVE  RowTold'
  <1> USE DEF IInv, RowTold, Typed, RowOK, Rows, OutcomeOnce, EndsOnce, PurgeToldOnce, StatusTold,
        RowShape, PhotoOnlyUntilStart, Events, Write, Tell, Outcomes, Decided
  <1>0. ASSUME NEW status \in Outcomes, StoreOutcome(w, status)
        PROVE  RowTold'
    <2>1. CASE UNCHANGED rowVars
      BY <2>1 DEF rowVars
    <2>2. CASE /\ row.session # NoSession /\ row.status \in Open
               /\ row' = [row EXCEPT !.status = status, !.name = (status = "approved")]
               /\ Tell(OutcomeEvent(status)) /\ ~row.purged
      <3>1. ~row.photo
        BY <2>2
      <3>2. /\ row'.status = status /\ row'.session = row.session /\ row'.photo = row.photo
            /\ row'.ended = row.ended /\ row'.cancelled = row.cancelled
            /\ row'.purged = row.purged
        BY <2>2
      <3>3. sent["verified"] = 0 /\ sent["failed"] = 0
        BY <2>2 DEF Open, Unsettled
      <3>4. CASE status = "approved"
        BY <2>2, <3>1, <3>2, <3>3, <3>4 DEF OutcomeEvent
      <3>5. CASE status = "rejected"
        BY <2>2, <3>1, <3>2, <3>3, <3>5 DEF OutcomeEvent
      <3>6. CASE status = "needs_review"
        BY <2>2, <3>1, <3>2, <3>3, <3>6 DEF OutcomeEvent
      <3> QED BY <3>4, <3>5, <3>6 DEF Outcomes, Decided
    <2> QED BY <1>0, <2>1, <2>2 DEF StoreOutcome, SameSession
  <1>1. CASE CreateHosted(w)
    BY <1>1 DEF CreateHosted, NotRequested, NewRow, NotMade
  <1>2. CASE InsertRow(w) \/ InsertFails(w)
    <2>1. row = NotMade /\ UNCHANGED sent
      BY <1>2 DEF InsertRow, InsertFails, InsertAlone, At
    <2>2. PICK fits \in BOOLEAN : row' = row \/ row' = NewRow(FALSE, FALSE, fits)
      BY <1>2 DEF InsertRow, InsertFails
    <2> QED BY <2>1, <2>2 DEF NewRow, NotMade
  <1>3. CASE AttachSession(w) \/ AttachUnknown(w)
    BY <1>3 DEF AttachSession, AttachUnknown, Attachable, Attached
  <1>4. CASE MarkStarted(w)
    BY <1>4 DEF MarkStarted, SameSession, rowVars
  <1>5. CASE EndSession(w)
    BY <1>5 DEF EndSession, SameSession, rowVars
  <1>6. CASE RecordOutcome(w)
    BY <1>0, <1>6 DEF RecordOutcome, At, WorkOK, OutcomeNamed
  <1>7. CASE LapseLinks(w)
    BY <1>7 DEF LapseLinks
  <1>8. CASE CancelUnstarted(w)
    BY <1>8 DEF CancelUnstarted, RowCancellable, CancelledRow
  <1>9. CASE CancelCommit(w)
    BY <1>9 DEF CancelCommit, At, LockHolds, RowCancellable, CancelledRow
  <1>10. CASE LapseReview(w)
    BY <1>0, <1>10 DEF LapseReview, Outcomes, Decided
  <1>11. CASE PurgeUnstarted(w)
    BY <1>11 DEF PurgeUnstarted, PurgedRow
  <1>12. CASE PurgeCommit(w)
    BY <1>12 DEF PurgeCommit, At, LockHolds, PurgedRow
  <1>13. CASE AuditDecision(w)
    BY <1>13 DEF AuditDecision
  <1> QED BY <1>1, <1>2, <1>3, <1>4, <1>5, <1>6, <1>7, <1>8, <1>9, <1>10, <1>11, <1>12, <1>13
    DEF Writing

(* An erased request stays erased, in the row and in the engine.           *)
LEMMA ErasureKept == ASSUME IInv, [Next]_vars PROVE PurgedErased'
  <1> USE DEF IInv, RowTold, PurgedErased
  <1>1. ASSUME UNCHANGED row PROVE PurgedErased'
    BY <1>1, EngineFinal DEF Typed, RowOK, Rows, Session
  <1>2. ASSUME NEW w \in Workers, Writing(w) PROVE PurgedErased'
    <2> USE DEF Typed, RowOK, Rows, Write, rowVars
    <2>1. CASE CreateHosted(w)
      BY <2>1 DEF CreateHosted, NewRow, NotMade
    <2>2. CASE InsertRow(w) \/ InsertFails(w)
      <3>1. PICK fits \in BOOLEAN : row' = row \/ row' = NewRow(FALSE, FALSE, fits)
        BY <2>2 DEF InsertRow, InsertFails
      <3> QED BY <1>1, <3>1 DEF NewRow, NotMade
    <2>3. CASE AttachSession(w) \/ AttachUnknown(w)
      BY <2>3 DEF AttachSession, AttachUnknown, Attachable, Attached
    <2>4. CASE MarkStarted(w) \/ EndSession(w) \/ LapseLinks(w)
      BY <2>4, <1>1 DEF MarkStarted, EndSession, LapseLinks, RowShape
    <2>5. CASE RecordOutcome(w) \/ LapseReview(w)
      BY <2>5, <1>1 DEF RecordOutcome, LapseReview, StoreOutcome
    <2>6. CASE CancelUnstarted(w)
      BY <2>6 DEF CancelUnstarted, RowCancellable, CancelledRow
    <2>7. CASE CancelCommit(w)
      BY <2>7 DEF CancelCommit, At, LockHolds, RowCancellable, CancelledRow
    <2>8. CASE PurgeUnstarted(w)
      BY <2>8 DEF PurgeUnstarted, PurgedRow
    <2>9. CASE PurgeCommit(w)
      BY <2>9 DEF PurgeCommit, At, LockHolds, PurgedRow
    <2>10. CASE AuditDecision(w)
      BY <2>10, <1>1 DEF AuditDecision
    <2> QED BY <1>2, <2>1, <2>2, <2>3, <2>4, <2>5, <2>6, <2>7, <2>8, <2>9, <2>10 DEF Writing
  <1> QED BY <1>1, <1>2, RowSteps DEF rowVars, PurgeTimePasses

(* A cancelled request stays cancelled: the engine had cancelled its       *)
(* session before, and no approval read earlier is still on its way.       *)
LEMMA CancelKept == ASSUME IInv, [Next]_vars PROVE CancelledNeverApproved'
  <1> USE DEF IInv, RowTold, CancelledNeverApproved
  <1>1. ASSUME row'.cancelled => row.cancelled, row'.session = row.session,
               row'.status # "approved" \/ row'.status = row.status
        PROVE CancelledNeverApproved'
    BY <1>1, EngineFinal DEF Typed, RowOK, Rows, Session
  <1>2. ASSUME NEW w \in Workers, Writing(w) PROVE CancelledNeverApproved'
    <2> USE DEF Typed, RowOK, Rows, Write, rowVars
    <2>1. CASE CreateHosted(w)
      BY <2>1 DEF CreateHosted, NewRow, NotMade
    <2>2. CASE InsertRow(w) \/ InsertFails(w)
      <3>1. PICK fits \in BOOLEAN : row' = row \/ row' = NewRow(FALSE, FALSE, fits)
        BY <2>2 DEF InsertRow, InsertFails
      <3> QED BY <1>1, <3>1 DEF NewRow, NotMade
    <2>3. CASE AttachSession(w) \/ AttachUnknown(w)
      BY <2>3 DEF AttachSession, AttachUnknown, Attachable, Attached
    <2>4. CASE MarkStarted(w) \/ EndSession(w) \/ LapseLinks(w)
      BY <2>4, <1>1 DEF MarkStarted, EndSession, LapseLinks
    <2>5. CASE RecordOutcome(w)
      BY <2>5, <1>1 DEF RecordOutcome, StoreOutcome, ApprovalStands
    <2>6. CASE LapseReview(w)
      BY <2>6, <1>1 DEF LapseReview, StoreOutcome
    <2>7. CASE CancelUnstarted(w)
      BY <2>7 DEF CancelUnstarted, RowCancellable, CancelledRow, Unsettled
    <2>8. CASE CancelCommit(w)
      BY <2>8 DEF CancelCommit, At, LockHolds, RowCancellable, CancelledRow, Unsettled
    <2>9. CASE PurgeUnstarted(w) \/ PurgeCommit(w)
      BY <2>9, <1>1 DEF PurgeUnstarted, PurgeCommit, PurgedRow
    <2>10. CASE AuditDecision(w)
      BY <2>10, <1>1 DEF AuditDecision
    <2> QED BY <1>2, <2>1, <2>2, <2>3, <2>4, <2>5, <2>6, <2>7, <2>8, <2>9, <2>10 DEF Writing
  <1> QED BY <1>1, <1>2, RowSteps DEF rowVars, PurgeTimePasses

(* An approval on its way to the row has no cancel beside it: the engine   *)
(* decides only one of the two.                                            *)
LEMMA ApprovalKept == ASSUME IInv, [Next]_vars, Typed' PROVE ApprovalStands'
  <1> USE DEF IInv, RowTold
  <1> SUFFICES ASSUME NEW w \in Workers, outcome'[w] = "approved"
      PROVE /\ seen'[w].session # NoSession
            /\ engine'[row'.session] \in {"approved", "deleted"}
            /\ ~row'.cancelled
            /\ \A v \in Workers : pc'[v] # "cancelCommit"
    BY DEF ApprovalStands
  <1>1. CASE ReadStatus(w)
    <2>1. /\ UNCHANGED <<row, engine, seen>>
          /\ seen[w].session \in Sessions /\ seen[w].session = row.session
      BY <1>1
         DEF ReadStatus, Done, Step, At, SeenHolds, AboutSession, Rereading, rowVars, Typed,
           WorkOK, OutcomeNamed, Session
    <2>2. engine[row.session] = "approved"
      BY <1>1, <2>1 DEF ReadStatus, Done, Step, At, Typed, WorkOK, OutcomeNamed, Verdict
    <2>3. ~row.cancelled /\ \A v \in Workers : pc[v] # "cancelCommit"
      BY <2>1, <2>2, ConstantsAssumption DEF CancelledNeverApproved, LockHolds
    <2>4. \A v \in Workers : pc'[v] # "cancelCommit"
      BY <1>1, <2>3 DEF ReadStatus, Done, Step, GoTo, Typed, WorkOK
    <2> QED BY <2>1, <2>2, <2>3, <2>4, ConstantsAssumption
  <1>2. CASE outcome[w] = "approved" /\ seen'[w] = seen[w]
    <2>1. /\ seen[w].session # NoSession /\ row.session \in Sessions
          /\ engine[row.session] \in {"approved", "deleted"}
          /\ ~row.cancelled /\ \A v \in Workers : pc[v] # "cancelCommit"
      BY <1>2 DEF ApprovalStands, SeenHolds, Typed, RowOK, Rows, Session
    <2>2. row'.session = row.session /\ engine'[row.session] \in {"approved", "deleted"}
      BY <2>1, SessionFixed, EngineFinal, ConstantsAssumption
    <2>3. ASSUME NEW v \in Workers PROVE pc'[v] # "cancelCommit"
      <3>1. ~(CancelInEngine(v) /\ pc'[v] = "cancelCommit")
        BY <2>1 DEF CancelInEngine, Done, GoTo, Cancellable, Running, Typed, WorkOK
      <3> QED BY <2>1, <3>1, Arrivals DEF Arrives, AboutSession, Rereading
    <2>4. ~row'.cancelled
      <3>1. ASSUME NEW v \in Workers, Writing(v) PROVE ~row'.cancelled
        <4>1. CASE CreateHosted(v) \/ InsertRow(v) \/ InsertFails(v)
          <5>1. row # NotMade
            BY <2>1, ConstantsAssumption DEF NotMade
          <5> QED BY <4>1, <5>1
            DEF CreateHosted, NotRequested, InsertRow, InsertFails, InsertAlone, At
        <4>2. CASE AttachSession(v) \/ AttachUnknown(v) \/ CancelUnstarted(v)
          BY <2>1, <4>2, ConstantsAssumption
             DEF AttachSession, AttachUnknown, Attachable, CancelUnstarted
        <4>3. CASE \/ MarkStarted(v) \/ EndSession(v) \/ LapseLinks(v)
                   \/ PurgeUnstarted(v) \/ PurgeCommit(v) \/ AuditDecision(v)
          BY <2>1, <4>3
             DEF MarkStarted, EndSession, LapseLinks, PurgeUnstarted, PurgeCommit, AuditDecision,
               PurgedRow, Write, rowVars, Typed, RowOK, Rows
        <4>4. CASE RecordOutcome(v) \/ LapseReview(v)
          BY <2>1, <4>4
             DEF RecordOutcome, LapseReview, StoreOutcome, Write, rowVars, Typed, RowOK, Rows
        <4>5. ~CancelCommit(v)
          BY <2>1 DEF CancelCommit, At
        <4> QED BY <3>1, <4>1, <4>2, <4>3, <4>4, <4>5 DEF Writing
      <3> QED BY <2>1, <3>1, RowSteps DEF rowVars, PurgeTimePasses
    <2> QED BY <1>2, <2>1, <2>2, <2>3, <2>4
  <1>3. ReadFull(w) => outcome[w] = outcome'[w] /\ seen'[w] = seen[w]
    BY DEF ReadFull, Step, Done, Typed, WorkOK
  <1>4. pc'[w] \in {"full", "record"}
    BY DEF Typed, WorkOK, OutcomeNamed
  <1> QED BY <1>1, <1>2, <1>3, <1>4, Arrivals DEF Arrives, AboutSession, Rereading

(* A decision is audited by the one worker that got it from the engine.    *)
LEMMA AuditKept == ASSUME IInv, [Next]_vars PROVE AuditAlone' /\ DecisionAuditedOnce'
  <1> USE DEF IInv, RowTold, Typed, RowOK, Events
  <1>0. \A w \in Workers : pc[w] \in {"audit", "decide"} =>
           row.session \in Sessions /\ seen[w].session = row.session
    BY DEF SeenHolds, AboutSession, Rereading, Rows, Session
  <1>1. CASE \E w \in Workers : AuditDecision(w)
    <2> PICK w \in Workers : AuditDecision(w)
      BY <1>1
    <2>1. /\ sent["review_decided"] = 0 /\ row.session \in Sessions
          /\ engine[row.session] \in Decided \cup {"deleted"}
          /\ \A v \in Workers \ {w} : pc[v] # "audit"
      BY <1>0 DEF AuditDecision, At, AuditAlone
    <2>2. /\ sent'["review_decided"] \in {0, 1}
          /\ UNCHANGED <<row, engine>> /\ \A v \in Workers : pc'[v] # "audit"
      BY <2>1 DEF AuditDecision, At, Tell, Step, Done, GoTo, WorkOK
    <2> QED BY <2>1, <2>2, ConstantsAssumption DEF AuditAlone, DecisionAuditedOnce
  <1>2. CASE ~\E w \in Workers : AuditDecision(w)
    <2>1. sent'["review_decided"] = sent["review_decided"]
      <3>1. ASSUME NEW w \in Workers, Writing(w)
            PROVE  sent'["review_decided"] = sent["review_decided"]
        BY <1>2, <3>1
           DEF Writing, Tell, CreateHosted, InsertRow, InsertFails, AttachSession, AttachUnknown,
             MarkStarted, EndSession, RecordOutcome, StoreOutcome, OutcomeEvent, LapseLinks,
             CancelUnstarted, CancelCommit, LapseReview, PurgeUnstarted, PurgeCommit, rowVars
      <3> QED BY <3>1, RowSteps DEF rowVars, PurgeTimePasses
    <2>2. sent["review_decided"] = 1 =>
             /\ row'.session = row.session /\ row.session # NoSession
             /\ engine'[row.session] \in Decided \cup {"deleted"}
      BY SessionFixed, EngineFinal DEF AuditAlone, DecisionAuditedOnce, Decided, Rows, Session
    <2>3. ASSUME NEW w \in Workers, pc'[w] = "audit"
          PROVE  /\ sent["review_decided"] = 0
                 /\ engine'[row'.session] \in Decided \cup {"deleted"}
                 /\ \A v \in Workers \ {w} : pc'[v] # "audit"
      <3>1. CASE pc[w] = "audit"
        <4>1. /\ sent["review_decided"] = 0
              /\ row'.session = row.session /\ row.session \in Sessions
              /\ engine[row.session] \in Decided \cup {"deleted"}
              /\ \A v \in Workers \ {w} : pc[v] # "audit"
          BY <1>0, <3>1, SessionFixed, ConstantsAssumption DEF AuditAlone
        <4>2. engine'[row'.session] \in Decided \cup {"deleted"}
          BY <4>1, EngineFinal DEF Decided
        <4>3. ASSUME NEW v \in Workers \ {w} PROVE pc'[v] # "audit"
          <5>1. ~(DecideInEngine(v) /\ pc'[v] = "audit")
            BY <1>0, <4>1 DEF DecideInEngine, At, Decided, Step, Done, GoTo, WorkOK
          <5> QED BY <4>1, <5>1, Arrivals DEF Arrives, AboutSession, Rereading
        <4> QED BY <4>1, <4>2, <4>3
      <3>2. CASE DecideInEngine(w)
        <4>1. /\ row.session \in Sessions /\ engine[row.session] = "needs_review" /\ row' = row
              /\ \E verdict \in Decided : engine' = [engine EXCEPT ![row.session] = verdict]
              /\ \A v \in Workers \ {w} : pc'[v] = pc[v]
          BY <1>0, <2>3, <3>2 DEF DecideInEngine, At, Step, Done, GoTo, WorkOK, rowVars
        <4>2. sent["review_decided"] = 0 /\ \A v \in Workers : pc[v] # "audit"
          BY <4>1 DEF AuditAlone, DecisionAuditedOnce, Decided
        <4> QED BY <4>1, <4>2 DEF EngineOK
      <3> QED BY <2>3, <3>1, <3>2, Arrivals DEF Arrives, AboutSession, Rereading
    <2> QED BY <2>1, <2>2, <2>3 DEF AuditAlone, DecisionAuditedOnce
  <1> QED BY <1>1, <1>2

(* The invariant holds at the start.                                       *)
LEMMA InitIInv == Init => IInv
  <1> SUFFICES ASSUME Init PROVE IInv OBVIOUS
  <1>1. /\ row = NotMade /\ row.status = "absent" /\ row.session = NoSession
        /\ ~row.hosted /\ ~row.photo /\ ~row.name
        /\ ~row.ended /\ ~row.cancelled /\ ~row.purged /\ ~due
    BY DEF Init, NotMade
  <1>2. \A e \in Events : sent[e] = 0
    BY DEF Init
  <1>3. \A w \in Workers : pc[w] = "idle" /\ seen[w].session = NoSession /\ outcome[w] = "none"
    BY DEF Init, Nothing
  <1>4. SeenHolds /\ InsertAlone /\ LockHolds /\ ApprovalStands
    BY <1>1, <1>3 DEF SeenHolds, InsertAlone, LockHolds, ApprovalStands, AboutSession, Rereading
  <1>5. PurgeToldOnce /\ StatusTold /\ OutcomeOnce /\ EndsOnce
        /\ AuditAlone /\ DecisionAuditedOnce
    BY <1>1, <1>2, <1>3
       DEF AuditAlone, PurgeToldOnce, StatusTold, OutcomeOnce, EndsOnce, DecisionAuditedOnce,
         Events
  <1>6. RowShape /\ CancelledNeverApproved /\ PurgedErased /\ PhotoOnlyUntilStart
    BY <1>1 DEF RowShape, CancelledNeverApproved, PurgedErased, PhotoOnlyUntilStart
  <1> QED BY <1>4, <1>5, <1>6, InitTyped DEF IInv, RowTold

(* Every step keeps the invariant: its parts, each kept from all of it.    *)
LEMMA Inductive == IInv /\ [Next]_vars => IInv'
  <1> SUFFICES ASSUME IInv, [Next]_vars PROVE IInv' OBVIOUS
  <1>1. Typed'
    BY WorkTyped, RowTyped, RestTyped, EngineTyped DEF IInv, RowTold, Typed
  <1>2. RowTold'
    <2>1. CASE UNCHANGED rowVars \/ PurgeTimePasses
      BY <2>1
         DEF rowVars, PurgeTimePasses, IInv, RowTold, OutcomeOnce, EndsOnce, PurgeToldOnce,
           StatusTold, RowShape, PhotoOnlyUntilStart
    <2> QED BY <2>1, RowSteps, CountersKept
  <1> QED BY <1>1, <1>2, InsertAloneKept, SeenHoldsKept, LockHoldsKept, ErasureKept, CancelKept,
      ApprovalKept, AuditKept DEF IInv, RowTold

----------------------------------------------------------------------------
(* No engine session is forgotten.                                         *)

(* A worker holds a session exactly while it is about to attach or erase   *)
(* it.                                                                     *)
Holding == {"insert", "attach", "discard"}

SessionHeld ==
  \A w \in Workers : IF pc[w] \in Holding THEN sess[w] \in Sessions ELSE sess[w] = NoSession

(* How a step moves what a worker holds: it keeps it, gets one the engine  *)
(* just created, or lets go, having attached it, erased it, or died.       *)
Handles(w) ==
  \/ sess'[w] = sess[w] /\ (pc'[w] \in Holding <=> pc[w] \in Holding)
  \/ /\ pc[w] \notin Holding /\ pc'[w] \in Holding
     /\ sess'[w] \in Sessions
     /\ CreateSession(w) \/ StartSession(w)
  \/ /\ sess'[w] = NoSession /\ pc'[w] \notin Holding
     /\ pc[w] \notin Holding \/ AttachSession(w) \/ DiscardSession(w) \/ Crash(w)

(* Every step moves every worker so.                                       *)
LEMMA Handlings == ASSUME IInv, SessionHeld, [Next]_vars, NEW w \in Workers PROVE Handles(w)
  <1> USE DEF IInv, Typed, WorkOK, Handles, GoTo, Done, Step, ReadThen, At, Holding
  <1>1. ASSUME NEW v \in Workers, HandlerStarts(v) \/ JobStarts(v) \/ PrunerStarts(v)
        PROVE Handles(w)
    BY <1>1
       DEF HandlerStarts, JobStarts, PrunerStarts, CreateHosted, CreateSession, StartHosted,
         ReadToReconcile, CancelRead, DeclineRead, PurgeRead, LockReview, LapseLinks,
         ListPurgeDue, workVars, EngineCreates, NotRequested
  <1>2. ASSUME NEW v \in Workers, Starting(v) PROVE Handles(w)
    BY <1>2
       DEF Starting, InsertRow, InsertFails, StartSession, AttachSession, AttachRefused,
         AttachUnknown, DiscardSession, EngineCreates
  <1>3. ASSUME NEW v \in Workers, Reconciling(v) PROVE Handles(w)
    BY <1>3
       DEF Reconciling, ReadStatus, ReadFull, MarkStarted, EndSession, RecordOutcome
  <1>4. ASSUME NEW v \in Workers, Cancelling(v) PROVE Handles(w)
    BY <1>4
       DEF Cancelling, CancelRefused, CancelMoved, CancelReread, CancelUnstarted, CancelInEngine,
         CancelCommit, AtCancel
  <1>5. ASSUME NEW v \in Workers, Purging(v) PROVE Handles(w)
    BY <1>5
       DEF Purging, HeldCheck, LapseReview, PurgeAlreadyDone, PurgeMoved, PurgeReread,
         PurgeUnstarted, PurgeInEngine, PurgeCommit, AtPurge
  <1>6. ASSUME NEW v \in Workers, Reviewing(v) PROVE Handles(w)
    BY <1>6 DEF Reviewing, ReadReview, DecideInEngine, AuditDecision
  <1>7. ASSUME NEW v \in Workers, Crash(v) PROVE Handles(w)
    BY <1>7 DEF Crash
  <1>8. CASE Engine \/ Time \/ UNCHANGED vars
    BY <1>8
       DEF Engine, EngineOpens, EngineFinishes, EngineAccepts,
           EngineExpires, EngineRemoves, EngineMoves, Findings, Time, LinkLapses,
         LegalHoldEnds, PurgeTimePasses, vars, workVars
  <1> QED BY <1>1, <1>2, <1>3, <1>4, <1>5, <1>6, <1>7, <1>8 DEF Next, CarriesOn, Workers

(* So the sessions in hand are those of the calls that attach or erase.    *)
LEMMA SessionHeldKept ==
  ASSUME IInv, SessionHeld, [Next]_vars PROVE SessionHeld'
  BY Handlings DEF SessionHeld, Handles

(* A session the engine creates is in its creator's hands.                 *)
LEMMA CreatedHeld ==
  ASSUME IInv, [Next]_vars, NEW s \in Sessions, engine[s] = "none", engine'[s] # "none"
  PROVE  engine'[s] = "deleted" \/ \E w \in Workers : sess'[w] = s
  <1> USE DEF IInv, Typed, EngineOK, WorkOK
  <1>1. CASE Engine
    BY <1>1 DEF Engine, EngineOpens, EngineFinishes, EngineAccepts,
                EngineExpires, EngineRemoves, EngineMoves, Findings, Running
  <1>2. ASSUME NEW w \in Workers, CreateSession(w) \/ StartSession(w)
        PROVE  \E v \in Workers : sess'[v] = s
    BY <1>2 DEF CreateSession, StartSession, EngineCreates
  <1>3. ASSUME NEW w \in Workers, DiscardSession(w) \/ CancelInEngine(w) \/ PurgeInEngine(w)
                                  \/ DecideInEngine(w)
        PROVE  engine'[s] = "deleted"
    BY <1>3 DEF DiscardSession, CancelInEngine, PurgeInEngine, DecideInEngine, Cancellable, Running
  <1> QED BY <1>1, <1>2, <1>3, EngineSteps DEF Calling

(* The sessions NoOrphans counts.                                          *)
Orphans == {s \in Sessions : /\ engine[s] \notin {"none", "deleted"} /\ s # row.session
                             /\ \A w \in Workers : sess[w] # s}

(* A session is forgotten only by the worker that died with it.            *)
LEMMA OrphanMade ==
  ASSUME ConstantsAssumption, IInv, SessionHeld, [Next]_vars, NEW s \in Orphans', s \notin Orphans
  PROVE  \E w \in Workers : Crash(w) /\ s = sess[w]
  <1>1. /\ s \in Sessions /\ engine'[s] \notin {"none", "deleted"} /\ s # row'.session
        /\ \A w \in Workers : sess'[w] # s
    BY DEF Orphans
  <1>2. engine[s] # "none"
    BY <1>1, CreatedHeld
  <1>3. engine[s] # "deleted"
    BY <1>1, EngineFinal
  <1>4. s # row.session
    BY <1>1, SessionFixed DEF ConstantsAssumption
  <1>5. PICK w \in Workers : sess[w] = s
    BY <1>1, <1>2, <1>3, <1>4 DEF Orphans
  <1>6. pc[w] \in Holding
    BY <1>1, <1>5 DEF SessionHeld, ConstantsAssumption
  <1>7. AttachSession(w) \/ DiscardSession(w) \/ Crash(w)
    BY <1>1, <1>5, <1>6, Handlings DEF Handles
  <1>8. ~AttachSession(w)
    BY <1>1, <1>5 DEF AttachSession, Write, Attached, IInv, Typed, RowOK, Rows
  <1>9. ~DiscardSession(w)
    BY <1>1, <1>5 DEF DiscardSession, IInv, Typed, EngineOK
  <1> QED BY <1>5, <1>7, <1>8, <1>9

(* There is at most one for each fault.                                    *)
OrphansCounted == IsFiniteSet(Orphans) /\ Cardinality(Orphans) <= faults

(* A fault forgets one at most (Crash), no other step any.                 *)
LEMMA OrphansKept ==
  ASSUME IInv, IInv', SessionHeld, OrphansCounted, [Next]_vars PROVE OrphansCounted'
  <1>1. faults \in Nat /\ faults' \in Nat /\ IsFiniteSet(Orphans) /\ Cardinality(Orphans) \in Nat
        /\ Cardinality(Orphans) <= faults
    BY FS_CardinalityType DEF IInv, Typed, RestOK, OrphansCounted
  <1>2. CASE Orphans' \subseteq Orphans
    <2>1. IsFiniteSet(Orphans') /\ Cardinality(Orphans') <= Cardinality(Orphans)
          /\ Cardinality(Orphans') \in Nat
      BY <1>1, <1>2, FS_Subset, FS_CardinalityType
    <2>2. faults <= faults'
      BY <1>1, FaultsGrow
    <2> QED BY <1>1, <2>1, <2>2 DEF OrphansCounted
  <1>3. CASE ~(Orphans' \subseteq Orphans)
    <2>1. PICK s \in Orphans' : s \notin Orphans
      BY <1>3
    <2>2. PICK w \in Workers : Crash(w)
      BY <2>1, OrphanMade, ConstantsAssumption
    <2>3. \A v \in Workers : v # w => sess'[v] = sess[v]
      BY <2>2 DEF Crash, Done, IInv, Typed, WorkOK
    <2>4. faults' = faults + 1 /\ engine' = engine /\ row' = row
      BY <2>2 DEF Crash, rowVars
    <2>5. Orphans' \subseteq Orphans \cup {sess[w]}
      BY <2>3, <2>4 DEF Orphans
    <2>6. /\ IsFiniteSet(Orphans \cup {sess[w]})
          /\ Cardinality(Orphans \cup {sess[w]}) <= Cardinality(Orphans) + 1
          /\ Cardinality(Orphans \cup {sess[w]}) \in Nat
      BY <1>1, FS_AddElement, FS_CardinalityType
    <2>7. /\ IsFiniteSet(Orphans') /\ Cardinality(Orphans') \in Nat
          /\ Cardinality(Orphans') <= Cardinality(Orphans \cup {sess[w]})
      BY <2>5, <2>6, FS_Subset, FS_CardinalityType
    <2> QED BY <1>1, <2>4, <2>6, <2>7 DEF OrphansCounted
  <1> QED BY <1>2, <1>3

----------------------------------------------------------------------------
(* Without faults. An engine session is then attached, discarded,          *)
(* cancelled or erased only by the call that answers for it, so that the   *)
(* wallet's own ends are never taken for an expiry.                        *)

(* A session in hand is a fresh one, its holder's alone, and not the       *)
(* row's, which the engine knows.                                          *)
Apart ==
  /\ \A w \in Workers : pc[w] \in Holding =>
       /\ sess[w] # row.session /\ engine[sess[w]] = "created"
       /\ \A v \in Workers \ {w} : sess[v] # sess[w]
  /\ row.session # NoSession => engine[row.session] # "none"

(* The engine cancels or erases a session only for a request that is over, *)
(* or a call that holds its lock to end it.                                *)
EndedByRow ==
  /\ row.session # NoSession /\ engine[row.session] \in {"cancelled", "deleted"} =>
       CaughtUp \/ \E w \in Workers : pc[w] \in {"cancelCommit", "purgeCommit"}
  /\ \A w \in Workers : pc[w] = "cancelCommit" => engine[row.session] = "cancelled"

(* A request is told expired when it ends in no other way, and its session *)
(* at the engine then expired too; a call about to write an end read one.  *)
EndTold ==
  /\ row.ended /\ ~row.cancelled /\ ~row.purged => sent["expired"] > 0
  /\ sent["expired"] > 0 /\ row.session # NoSession =>
       engine[row.session] \in {"expired", "deleted"}
  /\ \A w \in Workers : pc[w] = "endSession" => engine[row.session] \in EngineOver

(* A review the row shows was told, of a session that can expire no more;  *)
(* a review that a purge found open was told as well.                      *)
ReviewTold ==
  /\ row.status = "needs_review" =>
       /\ sent["review_opened"] > 0 /\ sent["expired"] = 0
       /\ engine[row.session] \in Outcomes \cup {"cancelled", "deleted"}
  /\ \A w \in Workers : pc[w] = "lapse" => row.status \in Outcomes /\ sent["review_opened"] > 0

(* An outcome about to be recorded is one the engine reached before it     *)
(* expired; a decision, also one no cancel came before.                    *)
OutcomeReal ==
  \A w \in Workers : outcome[w] # "none" =>
    /\ sent["expired"] = 0 /\ row.session # NoSession
    /\ engine[row.session] \in Outcomes \cup {"cancelled", "deleted"}
    /\ outcome[w] \in Decided =>
         engine[row.session] \in Decided \cup {"deleted"} /\ ~row.cancelled

(* A decision that needed no review was the request's only end.            *)
DecidedOnly ==
  row.status \in Decided /\ sent["review_opened"] = 0 => sent["expired"] = 0 /\ ~row.cancelled

Clean == Apart /\ EndedByRow /\ EndTold /\ ReviewTold /\ OutcomeReal /\ DecidedOnly

(* What holds of a run until its first fault.                              *)
CleanInv == faults <= MaxFaults /\ (faults = 0 => Clean)

(* A step without a fault is none of the three that count one.             *)
LEMMA NoFault ==
  ASSUME IInv, [Next]_vars, faults' = 0
  PROVE  faults = 0 /\ \A w \in Workers : ~Crash(w) /\ ~InsertFails(w) /\ ~AttachUnknown(w)
  <1>1. faults = 0
    BY FaultsGrow DEF IInv, Typed, RestOK
  <1> QED BY <1>1 DEF Crash, InsertFails, AttachUnknown

(* How a step without a fault moves the row: it leaves it, inserts it,     *)
(* attaches a session, or says that the request began, ended, got an       *)
(* outcome, was cancelled or erased; it tells of an end and of a review    *)
(* just then.                                                              *)
Quiet == sent'["expired"] = sent["expired"] /\ sent'["review_opened"] = sent["review_opened"]

RowStays == row' = row /\ Quiet

RowInserted ==
  /\ row = NotMade /\ Quiet
  /\ row'.status = "pending" /\ row'.session = NoSession
  /\ ~row'.ended /\ ~row'.cancelled /\ ~row'.purged

RowAttached(w) == AttachSession(w) /\ row' = Attached(sess[w]) /\ Quiet

RowStarted == row.status = "pending" /\ row' = [row EXCEPT !.status = "in_progress"] /\ Quiet

RowEnded ==
  /\ row.status \in Open /\ ~row.ended /\ ~row.purged
  /\ row'.ended /\ row'.status = row.status /\ row'.session = row.session
  /\ row'.cancelled = row.cancelled /\ row'.purged = row.purged
  /\ sent'["expired"] = sent["expired"] + 1 /\ sent'["review_opened"] = sent["review_opened"]
  /\ \/ row.session = NoSession /\ row.status = "pending"
     \/ row.session # NoSession /\ rowLock = Free /\ \E w \in Workers : pc[w] = "endSession"

RowDecided(w, status) ==
  /\ row.status \in Open /\ row.status # status /\ ~row.purged /\ row.session # NoSession
  /\ row' = [row EXCEPT !.status = status, !.name = (status = "approved")]
  /\ sent'["expired"] = sent["expired"]
  /\ sent'["review_opened"] = sent["review_opened"] + (IF status = "needs_review" THEN 1 ELSE 0)
  /\ \/ pc[w] = "record" /\ outcome[w] = status
     \/ pc[w] = "lapse" /\ status = "rejected"

RowCancelled ==
  /\ RowCancellable /\ row' = CancelledRow /\ Quiet
  /\ row.session = NoSession \/ \E w \in Workers : pc[w] = "cancelCommit"

RowPurged == ~row.purged /\ row' = PurgedRow /\ Quiet

LEMMA RowMoves ==
  ASSUME IInv, [Next]_vars, faults' = 0
  PROVE  \/ RowStays \/ RowInserted \/ RowStarted \/ RowEnded \/ RowCancelled \/ RowPurged
         \/ \E w \in Workers : RowAttached(w) \/ \E status \in Outcomes : RowDecided(w, status)
  <1> USE DEF IInv, RowTold, Typed, RowOK, Rows, Write, Tell, Events, Quiet
  <1>1. CASE UNCHANGED rowVars \/ PurgeTimePasses
    BY <1>1 DEF rowVars, PurgeTimePasses, RowStays
  <1>2. ASSUME NEW w \in Workers, Writing(w)
        PROVE  \/ RowStays \/ RowInserted \/ RowStarted \/ RowEnded \/ RowCancelled \/ RowPurged
               \/ RowAttached(w) \/ \E status \in Outcomes : RowDecided(w, status)
    <2>0. UNCHANGED rowVars => RowStays
      BY DEF rowVars, RowStays
    <2>1. CASE CreateHosted(w)
      BY <2>1 DEF CreateHosted, NotRequested, NewRow, NotMade, RowInserted
    <2>2. CASE InsertRow(w)
      BY <2>2 DEF InsertRow, InsertAlone, At, NewRow, NotMade, RowInserted
    <2>3. CASE AttachSession(w)
      BY <2>3 DEF AttachSession, RowAttached
    <2>4. CASE MarkStarted(w)
      BY <2>0, <2>4 DEF MarkStarted, RowStarted
    <2>5. CASE EndSession(w)
      BY <2>0, <2>5 DEF EndSession, SameSession, RowEnded, At
    <2>6. CASE LapseLinks(w)
      BY <2>6 DEF LapseLinks, RowEnded, RowShape, Open, Unsettled
    <2>7. ASSUME NEW status \in Outcomes, StoreOutcome(w, status),
                 \/ pc[w] = "record" /\ outcome[w] = status
                 \/ pc[w] = "lapse" /\ status = "rejected"
          PROVE  RowStays \/ RowDecided(w, status)
      <3>1. CASE UNCHANGED rowVars
        BY <2>0, <3>1
      <3>2. CASE ~UNCHANGED rowVars
        <4>1. /\ SameSession(w) /\ ~row.purged /\ row.status \in Open /\ row.status # status
              /\ row' = [row EXCEPT !.status = status, !.name = (status = "approved")]
              /\ sent' = [sent EXCEPT ![OutcomeEvent(status)] = @ + 1]
          BY <2>7, <3>2 DEF StoreOutcome
        <4>2. sent'["expired"] = sent["expired"]
              /\ sent'["review_opened"] =
                   sent["review_opened"] + (IF status = "needs_review" THEN 1 ELSE 0)
          <5>1. CASE status = "needs_review"
            BY <4>1, <5>1 DEF OutcomeEvent
          <5>2. CASE status = "approved"
            BY <4>1, <5>2 DEF OutcomeEvent
          <5>3. CASE status = "rejected"
            BY <4>1, <5>3 DEF OutcomeEvent
          <5> QED BY <5>1, <5>2, <5>3 DEF Outcomes, Decided
        <4> QED BY <2>7, <4>1, <4>2 DEF RowDecided, SameSession
      <3> QED BY <3>1, <3>2
    <2>8. CASE RecordOutcome(w)
      <3>1. outcome[w] \in Outcomes /\ pc[w] = "record"
        BY <2>8 DEF RecordOutcome, At, WorkOK, OutcomeNamed
      <3> QED BY <2>7, <2>8, <3>1 DEF RecordOutcome
    <2>9. CASE LapseReview(w)
      BY <2>7, <2>9 DEF LapseReview, At, Outcomes, Decided
    <2>10. CASE CancelUnstarted(w)
      BY <2>10 DEF CancelUnstarted, RowCancelled
    <2>11. CASE CancelCommit(w)
      BY <2>11 DEF CancelCommit, At, LockHolds, RowCancelled
    <2>12. CASE PurgeUnstarted(w)
      BY <2>12 DEF PurgeUnstarted, RowPurged
    <2>13. CASE PurgeCommit(w)
      BY <2>13 DEF PurgeCommit, At, LockHolds, RowPurged
    <2>14. CASE AuditDecision(w)
      BY <2>14 DEF AuditDecision, RowStays
    <2> QED BY <1>2, <2>1, <2>2, <2>3, <2>4, <2>5, <2>6, <2>8, <2>9, <2>10, <2>11, <2>12, <2>13,
        <2>14, NoFault DEF Writing
  <1> QED BY <1>1, <1>2, RowSteps

(* What becomes of the row's engine session in such a step.                *)
EngineMove(from, to) ==
  \/ from = to
  \/ from \in Running /\ to \in Running \cup Outcomes \cup {"expired"}
  \/ from = "needs_review" /\ to \in Decided
  \/ /\ from \in Cancellable /\ to = "cancelled"
     /\ \E w \in Workers : CancelInEngine(w) /\ pc'[w] = "cancelCommit" /\ rowLock = Free
  \/ /\ to = "deleted"
     /\ \E w \in Workers : PurgeInEngine(w) /\ pc'[w] = "purgeCommit" /\ rowLock = Free
  \/ from \in Decided \cup {"expired", "cancelled"} /\ to = "deleted" /\ CaughtUp

LEMMA RowSessionMoves ==
  ASSUME IInv, SessionHeld, Apart, [Next]_vars, faults' = 0, row.session \in Sessions
  PROVE  EngineMove(engine[row.session], engine'[row.session])
  <1> USE DEF IInv, RowTold, Typed, WorkOK, EngineOK, EngineMove
  <1>1. CASE Engine
    <2>1. CASE EngineRemoves
      BY <2>1, NoFault DEF EngineRemoves, RestOK
    <2>2. CASE EngineOpens \/ EngineFinishes \/ EngineAccepts \/ EngineExpires
      BY <2>2 DEF EngineOpens, EngineFinishes, EngineAccepts, EngineExpires, EngineMoves,
                  Findings, Running, Outcomes
    <2> QED BY <1>1, <2>1, <2>2 DEF Engine
  <1>2. ASSUME NEW w \in Workers, CreateSession(w) \/ StartSession(w)
        PROVE  engine'[row.session] = engine[row.session]
    BY <1>2, ConstantsAssumption DEF CreateSession, StartSession, EngineCreates, Apart
  <1>3. ASSUME NEW w \in Workers, DiscardSession(w)
        PROVE  engine'[row.session] = engine[row.session]
    BY <1>3 DEF DiscardSession, At, Apart, Holding
  <1>4. ASSUME NEW w \in Workers, CancelInEngine(w)
        PROVE  EngineMove(engine[row.session], engine'[row.session])
    BY <1>4 DEF CancelInEngine, AtCancel, Step, GoTo
  <1>5. ASSUME NEW w \in Workers, PurgeInEngine(w)
        PROVE  EngineMove(engine[row.session], engine'[row.session])
    BY <1>5 DEF PurgeInEngine, AtPurge, Step, GoTo
  <1>6. ASSUME NEW w \in Workers, DecideInEngine(w)
        PROVE  EngineMove(engine[row.session], engine'[row.session])
    BY <1>6, ConstantsAssumption DEF DecideInEngine, At, SeenHolds, AboutSession
  <1> QED BY <1>1, <1>2, <1>3, <1>4, <1>5, <1>6, EngineSteps DEF Calling

(* Ended or decided, a request stays so, and keeps its session.            *)
LEMMA RowGoesOn ==
  ASSUME IInv, [Next]_vars, faults' = 0
  PROVE  /\ row.ended => row'.ended
         /\ CaughtUp => row'.status \in Decided \/ row'.ended
         /\ row.session # NoSession => row'.session = row.session
         /\ row'.session = row.session \/ \E w \in Workers : RowAttached(w)
  <1> USE DEF IInv, RowTold, Typed, RowOK, Rows, CaughtUp, Decided
  <1>1. CASE RowStays \/ RowInserted \/ RowEnded
    BY <1>1 DEF RowStays, RowInserted, NotMade, RowEnded
  <1>2. CASE RowStarted \/ RowCancelled \/ RowPurged
    BY <1>2 DEF RowStarted, RowCancelled, CancelledRow, RowPurged, PurgedRow
  <1>3. ASSUME NEW w \in Workers, NEW status \in Outcomes, RowDecided(w, status)
        PROVE  row'.ended = row.ended /\ row'.session = row.session /\ row.status \in Open
    BY <1>3 DEF RowDecided
  <1>4. ASSUME NEW w \in Workers, RowAttached(w)
        PROVE  row.session = NoSession /\ ~row.ended /\ row'.status = row.status
    BY <1>4 DEF RowAttached, AttachSession, Attachable, Attached
  <1> QED BY <1>1, <1>2, <1>3, <1>4, RowMoves DEF Open, Unsettled

(* Sessions in hand stay apart: the engine names each but once, and acts   *)
(* on no other than the row's unless asked to discard it.                  *)
LEMMA ApartKept ==
  ASSUME IInv, SessionHeld, Apart, [Next]_vars, faults' = 0 PROVE Apart'
  <1> USE DEF IInv, RowTold, Typed, WorkOK, EngineOK, RowOK, Rows, Session
  <1>1. ASSUME NEW v \in Workers, CreateSession(v) \/ StartSession(v) PROVE Apart'
    <2>1. PICK s \in Sessions : /\ engine[s] = "none"
                                /\ engine' = [engine EXCEPT ![s] = "created"]
                                /\ sess' = [sess EXCEPT ![v] = s]
      BY <1>1 DEF CreateSession, StartSession, EngineCreates
    <2>2. row' = row /\ \A w \in Workers \ {v} : pc'[w] = pc[w]
      BY <1>1 DEF CreateSession, StartSession, GoTo, rowVars
    <2>3. s # row.session /\ \A w \in Workers : sess[w] # s
      BY <2>1, ConstantsAssumption DEF Apart, SessionHeld
    <2> QED BY <2>1, <2>2, <2>3, ConstantsAssumption DEF Apart, SessionHeld
  <1>2. ASSUME NEW v \in Workers, AttachSession(v) PROVE Apart'
    <2>1. /\ pc[v] \in Holding /\ engine' = engine /\ row'.session = sess[v]
          /\ sess' = [sess EXCEPT ![v] = NoSession] /\ pc' = [pc EXCEPT ![v] = "idle"]
      BY <1>2 DEF AttachSession, At, Holding, Write, Attached, Done, GoTo
    <2> QED BY <2>1, ConstantsAssumption DEF Apart, SessionHeld, Holding
  <1>3. ASSUME NEW v \in Workers, DiscardSession(v) PROVE Apart'
    <2>1. /\ pc[v] \in Holding /\ row' = row /\ engine' = [engine EXCEPT ![sess[v]] = "deleted"]
          /\ sess' = [sess EXCEPT ![v] = NoSession] /\ pc' = [pc EXCEPT ![v] = "idle"]
      BY <1>3 DEF DiscardSession, At, Holding, Done, GoTo, rowVars
    <2> QED BY <2>1, ConstantsAssumption DEF Apart, SessionHeld, Holding
  <1>4. CASE \A v \in Workers : ~(CreateSession(v) \/ StartSession(v)
                                  \/ AttachSession(v) \/ DiscardSession(v))
    <2>1. \A w \in Workers : pc'[w] \in Holding => pc[w] \in Holding /\ sess'[w] = sess[w]
      BY <1>4, Handlings DEF Handles
    <2>2. \A w \in Workers : sess'[w] \in {sess[w], NoSession}
      BY <1>4, Handlings DEF Handles
    <2>3. row'.session = row.session
      BY <1>4, RowGoesOn DEF RowAttached
    <2>4. ASSUME NEW s \in Sessions, s # row.session PROVE engine'[s] = engine[s]
      <3>1. CASE Engine
        BY <2>4, <3>1 DEF Engine, EngineOpens, EngineFinishes, EngineAccepts,
                          EngineExpires, EngineRemoves, EngineMoves, Findings
      <3>2. ASSUME NEW v \in Workers, CancelInEngine(v) \/ PurgeInEngine(v) \/ DecideInEngine(v)
            PROVE  engine'[s] = engine[s]
        BY <2>4, <3>2
           DEF CancelInEngine, PurgeInEngine, DecideInEngine, At, SeenHolds, AboutSession
      <3> QED BY <1>4, <3>1, <3>2, EngineSteps DEF Calling
    <2>5. row.session # NoSession => engine'[row.session] # "none"
      BY RowSessionMoves DEF Apart, EngineMove, Running, Outcomes, Decided
    <2> QED BY <2>1, <2>2, <2>3, <2>4, <2>5, ConstantsAssumption DEF Apart, SessionHeld
  <1> QED BY <1>1, <1>2, <1>3, <1>4

(* A call that has the engine's answer goes on to commit it.               *)
LEMMA CommitFollows ==
  ASSUME IInv, [Next]_vars, faults' = 0, NEW w \in Workers,
         pc[w] \in {"cancelCommit", "purgeCommit"}
  PROVE  pc'[w] = pc[w] \/ (row'.ended /\ row'.session = row.session)
  <1> USE DEF IInv, Typed, WorkOK, GoTo, Done, Step, ReadThen, At, RowOK, Rows
  <1>1. ASSUME NEW v \in Workers, HandlerStarts(v) \/ JobStarts(v) \/ PrunerStarts(v)
        PROVE  pc'[w] = pc[w]
    BY <1>1
       DEF HandlerStarts, JobStarts, PrunerStarts, CreateHosted, CreateSession, StartHosted,
         ReadToReconcile, CancelRead, DeclineRead, PurgeRead, LockReview, LapseLinks,
         ListPurgeDue, workVars, NotRequested
  <1>2. ASSUME NEW v \in Workers, Starting(v) PROVE pc'[w] = pc[w]
    BY <1>2
       DEF Starting, InsertRow, InsertFails, StartSession, AttachSession, AttachRefused,
         AttachUnknown, DiscardSession
  <1>3. ASSUME NEW v \in Workers, Reconciling(v) PROVE pc'[w] = pc[w]
    BY <1>3 DEF Reconciling, ReadStatus, ReadFull, MarkStarted, EndSession, RecordOutcome
  <1>4. ASSUME NEW v \in Workers, Cancelling(v)
        PROVE  pc'[w] = pc[w] \/ (row'.ended /\ row'.session = row.session)
    BY <1>4
       DEF Cancelling, CancelRefused, CancelMoved, CancelReread, CancelUnstarted, CancelInEngine,
         CancelCommit, AtCancel, Write, CancelledRow
  <1>5. ASSUME NEW v \in Workers, Purging(v)
        PROVE  pc'[w] = pc[w] \/ (row'.ended /\ row'.session = row.session)
    BY <1>5
       DEF Purging, HeldCheck, LapseReview, PurgeAlreadyDone, PurgeMoved, PurgeReread,
         PurgeUnstarted, PurgeInEngine, PurgeCommit, AtPurge, Write, PurgedRow
  <1>6. ASSUME NEW v \in Workers, Reviewing(v) PROVE pc'[w] = pc[w]
    BY <1>6 DEF Reviewing, ReadReview, DecideInEngine, AuditDecision
  <1>7. CASE Engine \/ Time \/ UNCHANGED vars
    BY <1>7
       DEF Engine, EngineOpens, EngineFinishes, EngineAccepts,
           EngineExpires, EngineRemoves, EngineMoves, Findings, Time, LinkLapses,
         LegalHoldEnds, PurgeTimePasses, vars, workVars
  <1> QED BY <1>1, <1>2, <1>3, <1>4, <1>5, <1>6, <1>7, NoFault DEF Next, CarriesOn, Workers

(* The engine is told to cancel or erase by whoever ends the row, under    *)
(* its lock.                                                               *)
LEMMA EndedByRowKept ==
  ASSUME IInv, SessionHeld, Apart, EndedByRow, [Next]_vars, faults' = 0 PROVE EndedByRow'
  <1> USE DEF IInv, RowTold, Typed, WorkOK, EngineOK, RowOK, Rows, Session
  <1>1. ASSUME row'.session # NoSession, engine'[row'.session] \in {"cancelled", "deleted"}
        PROVE  CaughtUp' \/ \E w \in Workers : pc'[w] \in {"cancelCommit", "purgeCommit"}
    <2>1. CASE row.session = NoSession
      <3>1. PICK w \in Workers : RowAttached(w)
        BY <1>1, <2>1, RowGoesOn
      <3>2. pc[w] \in Holding /\ engine' = engine /\ row'.session = sess[w]
        BY <3>1 DEF RowAttached, Attached, AttachSession, At, Holding
      <3> QED BY <1>1, <3>2 DEF Apart
    <2>2. CASE row.session # NoSession
      <3>1. row'.session = row.session /\ EngineMove(engine[row.session], engine'[row.session])
        BY <2>2, RowGoesOn, RowSessionMoves
      <3>2. CASE \E w \in Workers : pc'[w] \in {"cancelCommit", "purgeCommit"}
        BY <3>2
      <3>3. CASE engine[row.session] \in {"cancelled", "deleted"}
        <4>1. CASE CaughtUp
          BY <4>1, RowGoesOn DEF CaughtUp
        <4>2. CASE \E w \in Workers : pc[w] \in {"cancelCommit", "purgeCommit"}
          BY <4>2, CommitFollows DEF CaughtUp
        <4> QED BY <2>2, <3>3, <4>1, <4>2 DEF EndedByRow
      <3>4. CASE CaughtUp
        BY <3>4, RowGoesOn DEF CaughtUp
      <3> QED BY <1>1, <3>1, <3>2, <3>3, <3>4 DEF EngineMove, Running, Outcomes, Decided
    <2> QED BY <2>1, <2>2
  <1>2. ASSUME NEW w \in Workers, pc'[w] = "cancelCommit"
        PROVE  engine'[row'.session] = "cancelled"
    <2>1. CASE CancelInEngine(w)
      BY <1>2, <2>1, ConstantsAssumption
         DEF CancelInEngine, SameSession, Done, GoTo, rowVars
    <2>2. CASE pc[w] = "cancelCommit"
      <3>1. /\ rowLock = w /\ row.session \in Sessions /\ engine[row.session] = "cancelled"
            /\ ~CaughtUp
        BY <2>2 DEF LockHolds, EndedByRow, RowCancellable, CaughtUp, Unsettled, Decided
      <3>2. row'.session = row.session /\ EngineMove(engine[row.session], engine'[row.session])
        BY <3>1, RowGoesOn, RowSessionMoves, ConstantsAssumption
      <3> QED BY <3>1, <3>2, ConstantsAssumption DEF EngineMove, Running
    <2> QED BY <1>2, <2>1, <2>2, Arrivals DEF Arrives, AboutSession, Rereading
  <1> QED BY <1>1, <1>2 DEF EndedByRow

(* A request with a session is told expired when the engine's session did: *)
(* the lock is free, so its own cancel or erasure is not under way.        *)
LEMMA ExpiryFound ==
  ASSUME IInv, EndedByRow, EndTold, RowEnded, row.session # NoSession
  PROVE  engine[row.session] = "expired"
  <1>1. engine[row.session] \in EngineOver /\ ~row.ended /\ rowLock = Free
    BY DEF RowEnded, EndTold
  <1>3. ~CaughtUp
    BY DEF RowEnded, CaughtUp, Open, Unsettled, Decided
  <1>2. \A w \in Workers : pc[w] \notin {"cancelCommit", "purgeCommit"}
    BY <1>1, ConstantsAssumption DEF IInv, LockHolds
  <1> QED BY <1>1, <1>2, <1>3 DEF EndedByRow, EngineOver

(* Every end told is in the row, and in the engine's session.              *)
LEMMA EndToldKept ==
  ASSUME IInv, SessionHeld, Apart, EndedByRow, EndTold, [Next]_vars, faults' = 0
  PROVE  EndTold'
  <1> USE DEF IInv, RowTold, Typed, WorkOK, EngineOK, RowOK, Rows, Session, Events
  <1>1. row'.ended /\ ~row'.cancelled /\ ~row'.purged => sent'["expired"] > 0
    <2>1. CASE RowStays \/ RowInserted \/ RowEnded
      BY <2>1 DEF RowStays, RowInserted, RowEnded, Quiet, EndTold
    <2>2. CASE RowStarted \/ RowCancelled \/ RowPurged
      BY <2>2 DEF RowStarted, RowCancelled, CancelledRow, RowPurged, PurgedRow, Quiet, EndTold
    <2>3. ASSUME NEW w \in Workers, RowAttached(w) PROVE ~row'.ended
      BY <2>3 DEF RowAttached, Attached, AttachSession, Attachable
    <2>4. ASSUME NEW w \in Workers, NEW status \in Outcomes, RowDecided(w, status)
          PROVE  /\ row'.ended = row.ended /\ row'.cancelled = row.cancelled
                 /\ row'.purged = row.purged /\ sent'["expired"] = sent["expired"]
      BY <2>4 DEF RowDecided
    <2> QED BY <2>1, <2>2, <2>3, <2>4, RowMoves DEF EndTold
  <1>2. ASSUME sent'["expired"] > 0, row'.session # NoSession
        PROVE  engine'[row'.session] \in {"expired", "deleted"}
    <2>1. ASSUME NEW w \in Workers, RowAttached(w) PROVE FALSE
      <3>1. ~row.ended /\ sent'["expired"] = sent["expired"]
        BY <2>1 DEF RowAttached, AttachSession, Attachable, Quiet
      <3> QED BY <1>2, <3>1 DEF EndsOnce
    <2>2. row'.session = row.session /\ row.session \in Sessions
      BY <1>2, <2>1, RowGoesOn
    <2>3. CASE sent["expired"] > 0
      BY <1>2, <2>2, <2>3, EngineFinal DEF EndTold
    <2>4. CASE RowEnded
      BY <1>2, <2>2, <2>4, ExpiryFound, EngineFinal
    <2>5. RowEnded \/ sent'["expired"] = sent["expired"]
      BY RowMoves DEF RowStays, RowInserted, RowStarted, RowCancelled, RowPurged, RowAttached,
           RowDecided, Quiet
    <2> QED BY <1>2, <2>3, <2>4, <2>5
  <1>3. ASSUME NEW w \in Workers, pc'[w] = "endSession"
        PROVE  engine'[row'.session] \in EngineOver
    <2>1. CASE pc[w] = "endSession"
      <3>1. row.session \in Sessions /\ engine[row.session] \in EngineOver
        BY <2>1, ConstantsAssumption DEF EndTold, SeenHolds, AboutSession
      <3> QED BY <3>1, EngineFinal, SessionFixed, ConstantsAssumption DEF EngineOver
    <2>2. CASE ReadStatus(w)
      BY <1>3, <2>2, ConstantsAssumption
         DEF ReadStatus, At, Done, Step, GoTo, SeenHolds, AboutSession, rowVars
    <2>3. ~ReadToReconcile(w) /\ ~ReadReview(w) /\ ~DecideInEngine(w) /\ ~AuditDecision(w)
      BY <1>3
         DEF ReadToReconcile, ReadReview, DecideInEngine, AuditDecision, ReadThen, Done, Step, GoTo
    <2> QED BY <1>3, <2>1, <2>2, <2>3, Arrivals DEF Arrives, AboutSession, Rereading
  <1> QED BY <1>1, <1>2, <1>3 DEF EndTold

(* How the row's session moves while an outcome or a review of it is under *)
(* way: no expiry comes any more.                                          *)
LEMMA SettledMoves ==
  ASSUME IInv, SessionHeld, Apart, [Next]_vars, faults' = 0, row.session # NoSession,
         engine[row.session] \in Outcomes \cup {"cancelled", "deleted"}
  PROVE  /\ row'.session = row.session
         /\ engine'[row.session] \in Outcomes \cup {"cancelled", "deleted"}
         /\ engine[row.session] \in Decided \cup {"deleted"} =>
              engine'[row.session] \in Decided \cup {"deleted"}
  <1>1. row.session \in Sessions
    BY DEF IInv, RowTold, Typed, RowOK, Rows, Session
  <1>2. EngineMove(engine[row.session], engine'[row.session])
    BY <1>1, RowSessionMoves
  <1>3. row'.session = row.session
    BY RowGoesOn
  <1> QED BY <1>2, <1>3 DEF EngineMove, Outcomes, Decided, Running, Cancellable

(* Nor is one told then.                                                   *)
LEMMA NoExpiryThen ==
  ASSUME IInv, EndedByRow, EndTold, [Next]_vars, faults' = 0, row.session # NoSession,
         engine[row.session] \in Outcomes \cup {"cancelled", "deleted"}
  PROVE  sent'["expired"] = sent["expired"]
  <1>1. ~RowEnded
    BY ExpiryFound DEF Outcomes, Decided
  <1> QED BY <1>1, RowMoves
    DEF RowStays, RowInserted, RowStarted, RowCancelled, RowPurged, RowAttached, RowDecided, Quiet

(* An outcome on its way comes from the engine, which had not expired; a   *)
(* decision, from one that was not cancelled either.                       *)
LEMMA OutcomeRealKept ==
  ASSUME IInv, SessionHeld, Apart, EndedByRow, EndTold, OutcomeReal, [Next]_vars, faults' = 0
  PROVE  OutcomeReal'
  <1> USE DEF IInv, RowTold, Typed, WorkOK, RowOK, Rows, Session, Events
  <1> SUFFICES ASSUME NEW w \in Workers, outcome'[w] # "none"
      PROVE /\ sent'["expired"] = 0 /\ row'.session # NoSession
            /\ engine'[row'.session] \in Outcomes \cup {"cancelled", "deleted"}
            /\ outcome'[w] \in Decided =>
                 engine'[row'.session] \in Decided \cup {"deleted"} /\ ~row'.cancelled
    BY DEF OutcomeReal
  <1>1. CASE ReadStatus(w)
    <2>1. /\ UNCHANGED <<row, sent, engine>>
          /\ row.session # NoSession /\ seen[w].session = row.session
      BY <1>1 DEF ReadStatus, At, SeenHolds, AboutSession, rowVars
    <2>2. engine[row.session] \in Outcomes /\ outcome'[w] = Verdict(engine[row.session])
      BY <1>1, <2>1 DEF ReadStatus, Done, Step, At, OutcomeNamed
    <2>3. sent["expired"] = 0
      BY <2>1, <2>2 DEF EndTold, Outcomes, Decided
    <2>4. outcome'[w] \in Decided => engine[row.session] \in Decided /\ ~row.cancelled
      BY <2>1, <2>2 DEF Verdict, Outcomes, Decided, CancelledNeverApproved
    <2> QED BY <2>1, <2>2, <2>3, <2>4
  <1>2. CASE outcome[w] = outcome'[w]
    <2>1. /\ sent["expired"] = 0 /\ row.session # NoSession
          /\ engine[row.session] \in Outcomes \cup {"cancelled", "deleted"}
          /\ outcome[w] \in Decided =>
               engine[row.session] \in Decided \cup {"deleted"} /\ ~row.cancelled
      BY <1>2 DEF OutcomeReal
    <2>2. /\ sent'["expired"] = 0 /\ row'.session = row.session
          /\ engine'[row.session] \in Outcomes \cup {"cancelled", "deleted"}
          /\ engine[row.session] \in Decided \cup {"deleted"} =>
               engine'[row.session] \in Decided \cup {"deleted"}
      BY <2>1, SettledMoves, NoExpiryThen
    <2>3. engine[row.session] \in Decided \cup {"deleted"} /\ ~row.cancelled => ~row'.cancelled
      <3>1. RowCancelled => engine[row.session] = "cancelled"
        BY <2>1 DEF RowCancelled, EndedByRow
      <3>2. CASE RowStays \/ RowInserted \/ RowEnded
        BY <3>2 DEF RowStays, RowInserted, RowEnded
      <3>3. CASE RowStarted \/ RowPurged
        BY <3>3 DEF RowStarted, RowPurged, PurgedRow
      <3>4. ASSUME NEW v \in Workers, RowAttached(v) PROVE FALSE
        BY <2>1, <3>4 DEF RowAttached, AttachSession, Attachable
      <3>5. ASSUME NEW v \in Workers, NEW status \in Outcomes, RowDecided(v, status)
            PROVE  row'.cancelled = row.cancelled
        BY <3>5 DEF RowDecided
      <3> QED BY <3>1, <3>2, <3>3, <3>4, <3>5, RowMoves DEF Decided
    <2>4. outcome'[w] \in Decided =>
            engine'[row.session] \in Decided \cup {"deleted"} /\ ~row'.cancelled
      BY <1>2, <2>1, <2>2, <2>3
    <2> QED BY <2>1, <2>2, <2>4
  <1>3. ReadFull(w) => outcome'[w] = outcome[w]
    BY DEF ReadFull, Step, Done
  <1>4. pc'[w] \in {"full", "record"}
    <2>1. OutcomeNamed'
      BY WorkTyped
    <2> QED BY <2>1 DEF OutcomeNamed
  <1> QED BY <1>1, <1>2, <1>3, <1>4, Arrivals DEF Arrives, AboutSession, Rereading

(* A review in the row was opened by the engine, and told.                 *)
LEMMA ReviewToldKept ==
  ASSUME IInv, SessionHeld, Apart, EndedByRow, EndTold, OutcomeReal, ReviewTold,
         [Next]_vars, faults' = 0
  PROVE  ReviewTold'
  <1> USE DEF IInv, RowTold, Typed, WorkOK, RowOK, Rows, Session, Events
  <1>0. sent["review_opened"] \in Nat /\ sent'["review_opened"] \in Nat
    <2>1. RowOK'
      BY RowTyped
    <2> QED BY <2>1
  <1>1. /\ sent'["review_opened"] >= sent["review_opened"]
        /\ row.status \in Outcomes => row'.status \in Outcomes
        /\ row'.status = "needs_review" =>
             \/ row.status = "needs_review"
             \/ \E w \in Workers : RowDecided(w, "needs_review")
    <2>1. CASE RowStays \/ RowInserted \/ RowEnded
      BY <2>1 DEF RowStays, RowInserted, NotMade, RowEnded, Quiet, Outcomes, Decided
    <2>2. CASE RowStarted
      BY <1>0, <2>2 DEF RowStarted, Quiet, Outcomes, Decided
    <2>5. CASE RowCancelled \/ RowPurged
      <3>1. row'.status = row.status /\ Quiet
        BY <2>5 DEF RowCancelled, CancelledRow, RowPurged, PurgedRow
      <3> QED BY <1>0, <3>1 DEF Quiet
    <2>3. ASSUME NEW w \in Workers, RowAttached(w)
          PROVE row'.status = row.status /\ Quiet
      BY <2>3 DEF RowAttached, Attached
    <2>4. ASSUME NEW w \in Workers, NEW status \in Outcomes, RowDecided(w, status)
          PROVE  row'.status = status /\ sent'["review_opened"] >= sent["review_opened"]
      BY <2>4 DEF RowDecided
    <2> QED BY <1>0, <2>1, <2>2, <2>3, <2>4, <2>5, RowMoves DEF Quiet
  <1>2. ASSUME row'.status = "needs_review"
        PROVE  /\ sent'["review_opened"] > 0 /\ sent'["expired"] = 0
               /\ engine'[row'.session] \in Outcomes \cup {"cancelled", "deleted"}
    <2>1. CASE row.status = "needs_review"
      <3>1. row.session # NoSession
        BY <2>1 DEF RowShape
      <3>2. /\ sent["review_opened"] > 0 /\ sent["expired"] = 0
            /\ engine[row.session] \in Outcomes \cup {"cancelled", "deleted"}
        BY <2>1 DEF ReviewTold
      <3> QED BY <1>0, <1>1, <3>1, <3>2, SettledMoves, NoExpiryThen
    <2>2. ASSUME NEW w \in Workers, RowDecided(w, "needs_review")
          PROVE  /\ sent'["review_opened"] > 0 /\ sent'["expired"] = 0
                 /\ engine'[row'.session] \in Outcomes \cup {"cancelled", "deleted"}
      <3>1. outcome[w] = "needs_review" /\ sent'["review_opened"] = sent["review_opened"] + 1
        BY <2>2 DEF RowDecided
      <3>2. /\ sent["expired"] = 0 /\ row.session # NoSession
            /\ engine[row.session] \in Outcomes \cup {"cancelled", "deleted"}
        BY <3>1 DEF OutcomeReal
      <3> QED BY <3>1, <3>2, SettledMoves, NoExpiryThen
    <2> QED BY <1>1, <1>2, <2>1, <2>2
  <1>3. ASSUME NEW w \in Workers, pc'[w] = "lapse"
        PROVE  row'.status \in Outcomes /\ sent'["review_opened"] > 0
    <2>1. row.status \in Outcomes /\ sent["review_opened"] > 0
      <3>1. CASE pc[w] = "lapse"
        BY <3>1 DEF ReviewTold
      <3>2. CASE ListPurgeDue(w)
        BY <1>3, <3>2 DEF ListPurgeDue, ReadThen, GoTo, ReviewTold, Outcomes
      <3> QED BY <1>3, <3>1, <3>2, Arrivals DEF Arrives, AboutSession, Rereading
    <2> QED BY <1>0, <1>1, <2>1
  <1> QED BY <1>2, <1>3 DEF ReviewTold

(* Without a review, a decision is the only end.                           *)
LEMMA DecidedOnlyKept ==
  ASSUME IInv, EndedByRow, EndTold, OutcomeReal, ReviewTold, DecidedOnly, [Next]_vars, faults' = 0
  PROVE  DecidedOnly'
  <1> USE DEF IInv, RowTold, Typed, WorkOK, RowOK, Rows, Session, Events, DecidedOnly
  <1>1. CASE RowStays \/ RowInserted \/ RowEnded
    BY <1>1 DEF RowStays, RowInserted, RowEnded, Quiet, Open, Unsettled, Decided
  <1>2. CASE RowStarted \/ RowCancelled \/ RowPurged
    BY <1>2
       DEF RowStarted, RowCancelled, RowCancellable, CancelledRow, RowPurged, PurgedRow, Quiet,
         Unsettled, Decided
  <1>3. ASSUME NEW w \in Workers, RowAttached(w) PROVE DecidedOnly'
    BY <1>3 DEF RowAttached, AttachSession, Attachable, Attached, Quiet, Decided
  <1>4. ASSUME NEW w \in Workers, NEW status \in Outcomes, RowDecided(w, status)
        PROVE  DecidedOnly'
    BY <1>4 DEF RowDecided, OutcomeReal, ReviewTold, Outcomes, Decided
  <1> QED BY <1>1, <1>2, <1>3, <1>4, RowMoves

(* Nothing is told or in hand at the start.                                *)
LEMMA InitClean == ASSUME Init PROVE CleanInv
  <1>1. row.session = NoSession /\ row.status = "absent" /\ ~row.ended
        /\ sent["expired"] = 0
    BY DEF Init, NotMade, Events
  <1>2. \A w \in Workers : pc[w] = "idle" /\ outcome[w] = "none"
    BY DEF Init
  <1>3. Apart /\ EndedByRow /\ EndTold
    BY <1>1, <1>2 DEF Apart, Holding, EndedByRow, EndTold
  <1>4. ReviewTold /\ OutcomeReal /\ DecidedOnly
    BY <1>1, <1>2 DEF ReviewTold, OutcomeReal, DecidedOnly, Decided
  <1> QED BY <1>3, <1>4, ConstantsAssumption DEF CleanInv, Clean, Init

(* Every step keeps it: a fault ends what it promises.                     *)
LEMMA CleanKept == ASSUME IInv, SessionHeld, CleanInv, [Next]_vars PROVE CleanInv'
  <1>1. faults' <= MaxFaults
    BY FaultsGrow, ConstantsAssumption DEF CleanInv, IInv, Typed, RestOK
  <1>2. CASE faults' = 0
    <2>1. Clean
      BY <1>2, NoFault DEF CleanInv
    <2> QED BY <1>1, <1>2, <2>1, ApartKept, EndedByRowKept, EndToldKept, ReviewToldKept,
      OutcomeRealKept, DecidedOnlyKept DEF Clean, CleanInv
  <1> QED BY <1>1, <1>2 DEF CleanInv

----------------------------------------------------------------------------
(* The theorems.                                                           *)

(* The inductive invariant holds in every state.                           *)
THEOREM Invariance == Spec => []IInv
  BY InitIInv, Inductive, PTL DEF Spec

(* Who holds an engine session that no row holds yet is known in every     *)
(* state.                                                                  *)
LEMMA HandsKnown == Spec => []SessionHeld
  <1>1. Init => SessionHeld
    BY DEF Init, SessionHeld, Holding
  <1> QED BY <1>1, SessionHeldKept, Invariance, PTL DEF Spec

(* Until the first fault, the engine's ends and the row's are one.         *)
THEOREM FaultFree == Spec => []CleanInv
  BY InitClean, CleanKept, Invariance, HandsKnown, PTL DEF Spec

(* Every variable of the request's model keeps its type, whatever runs     *)
(* concurrently.                                                           *)
THEOREM TypeCorrect == Spec => []TypeOK
  <1>1. IInv => TypeOK
    BY DEF IInv, RowTold, Typed, WorkOK, RowOK, RestOK, EngineOK, TypeOK
  <1> QED BY <1>1, Invariance, PTL

(* However many notices, reads, jobs, reviewers and pruners see a decision *)
(* at once, RecordOutcome stores and sends it once.                        *)
THEOREM OneOutcome == Spec => []OutcomeOnce
  <1>1. IInv => OutcomeOnce
    BY DEF IInv, RowTold
  <1> QED BY <1>1, Invariance, PTL

(* EndSession, LapseLinks and Cancel end a request once between them, and  *)
(* tell it once.                                                           *)
THEOREM OneEnd == Spec => []EndsOnce
  <1>1. IInv => EndsOnce
    BY DEF IInv, RowTold
  <1> QED BY <1>1, Invariance, PTL

(* A purged request holds no personal data, and the engine holds none for  *)
(* it: not even the session a start attached while the purge was under way *)
(* (errPurgeSessionMoved).                                                 *)
THEOREM ErasureComplete == Spec => []PurgedErased
  <1>1. IInv => PurgedErased
    BY DEF IInv, RowTold
  <1> QED BY <1>1, Invariance, PTL

(* A request cancelled under the row's lock is never approved after all.   *)
THEOREM CancelStands == Spec => []CancelledNeverApproved
  <1>1. IInv => CancelledNeverApproved
    BY DEF IInv, RowTold
  <1> QED BY <1>1, Invariance, PTL

(* The reference photo is gone once a session is attached or the request   *)
(* ended, whoever got there first.                                         *)
THEOREM PhotoDropped == Spec => []PhotoOnlyUntilStart
  <1>1. IInv => PhotoOnlyUntilStart
    BY DEF IInv, RowTold
  <1> QED BY <1>1, Invariance, PTL

(* Of any number of reviewers, also after crashes between the engine and   *)
(* the audit, at most one is audited.                                      *)
THEOREM OneAudit == Spec => []DecisionAuditedOnce
  <1>1. IInv => DecisionAuditedOnce
    BY DEF IInv, RowTold
  <1> QED BY <1>1, Invariance, PTL

(* A cancel or purge that read the request a second time has its final     *)
(* session, so one retry is enough.                                        *)
THEOREM RereadHolds == Spec => []SecondReadHolds
  <1>1. IInv => SecondReadHolds
    BY DEF IInv, RowTold, SeenHolds, SecondReadHolds
  <1> QED BY <1>1, Invariance, PTL

(* A step from a purged row neither changes it nor sends a webhook: every  *)
(* write's WHERE refuses a purged row, and the two writes that have no     *)
(* WHERE hold the row's lock since before the purge (LockHolds).           *)
LEMMA AfterPurge ==
  ASSUME IInv, [Next]_vars, row.purged
  PROVE  row' = row /\ \A e \in Webhooks : sent'[e] = sent[e]
  <1>1. ASSUME NEW w \in Workers, Writing(w), NEW e \in Webhooks
        PROVE  row' = row /\ sent'[e] = sent[e]
    <2> USE <1>1 DEF IInv, RowTold
    <2>1. row # NotMade /\ row.ended
      BY DEF NotMade, RowShape
    <2>2. CASE CreateHosted(w) \/ InsertRow(w) \/ InsertFails(w)
      BY <2>1, <2>2 DEF CreateHosted, NotRequested, InsertRow, InsertFails, InsertAlone, At
    <2>3. CASE \/ AttachSession(w) \/ AttachUnknown(w)
               \/ MarkStarted(w) \/ EndSession(w) \/ LapseLinks(w)
      BY <2>1, <2>3
         DEF AttachSession, AttachUnknown, Attachable, MarkStarted, EndSession, LapseLinks, rowVars
    <2>4. CASE RecordOutcome(w) \/ LapseReview(w)
      BY <2>4 DEF RecordOutcome, LapseReview, StoreOutcome, rowVars
    <2>5. CASE CancelUnstarted(w) \/ CancelCommit(w) \/ PurgeUnstarted(w) \/ PurgeCommit(w)
      BY <2>5
         DEF CancelUnstarted, CancelCommit, PurgeUnstarted, PurgeCommit, At, LockHolds,
           RowCancellable
    <2>6. CASE AuditDecision(w)
      BY <2>6 DEF AuditDecision, Tell, Webhooks, Typed, RowOK
    <2> QED BY <2>2, <2>3, <2>4, <2>5, <2>6 DEF Writing
  <1>2. CASE UNCHANGED rowVars \/ PurgeTimePasses
    BY <1>2 DEF rowVars, PurgeTimePasses
  <1>3. Webhooks # {}
    BY DEF Webhooks, Events
  <1> QED BY <1>1, <1>2, <1>3, RowSteps

(* Nothing under way when a request is purged changes its row afterwards.  *)
THEOREM PurgedForGood == Spec => PurgeIsFinal
  <1>1. IInv /\ [Next]_vars => [row.purged => row' = row]_row
    BY AfterPurge
  <1> QED BY <1>1, Invariance, PTL DEF Spec, PurgeIsFinal

(* Nothing under way when a request is purged sends a webhook of it        *)
(* afterwards.                                                             *)
THEOREM PurgedSilence == Spec => PurgedToldLast
  <1>1. IInv /\ [Next]_vars => [sent["purged"] > 0 => \A e \in Webhooks : sent'[e] = sent[e]]_sent
    BY AfterPurge DEF IInv, RowTold, PurgeToldOnce
  <1> QED BY <1>1, Invariance, PTL DEF Spec, PurgedToldLast

(* MarkStarted never tells a start after an outcome, an end or a purge was *)
(* told.                                                                   *)
THEOREM NoStartTooLate == Spec => NoLateStart
  <1>1. ASSUME IInv, [Next]_vars, sent'["started"] > sent["started"],
               NEW e \in Webhooks \ {"created"}
        PROVE  sent[e] = 0
    <2> USE DEF IInv, RowTold, Typed, RowOK, Events
    <2>0. sent' # sent
      BY <1>1
    <2>1. PICK w \in Workers : Writing(w)
      BY <1>1, <2>0, RowSteps DEF rowVars, PurgeTimePasses
    <2>2. MarkStarted(w)
      <3>1. MarkStarted(w) \/ sent'["started"] = sent["started"]
        BY <1>1, <2>1
           DEF Writing, Tell, CreateHosted, InsertRow, InsertFails, AttachSession, AttachUnknown,
             EndSession, RecordOutcome, StoreOutcome, OutcomeEvent, LapseLinks, CancelUnstarted,
             CancelCommit, LapseReview, PurgeUnstarted, PurgeCommit, AuditDecision, rowVars
      <3>2. sent["started"] \in Nat
        BY <1>1
      <3> QED BY <1>1, <3>1, <3>2
    <2>3. row.status = "pending" /\ ~row.purged /\ ~row.cancelled /\ ~row.ended
      BY <1>1, <2>2 DEF MarkStarted, rowVars
    <2> QED BY <1>1, <2>3
      DEF Webhooks, OutcomeOnce, EndsOnce, PurgeToldOnce, StatusTold, Outcomes, Decided
  <1>2. IInv /\ [Next]_vars =>
          [sent'["started"] > sent["started"] =>
             \A e \in Webhooks \ {"created"} : sent[e] = 0]_sent
    BY <1>1
  <1> QED BY <1>2, Invariance, PTL DEF Spec, NoLateStart

----------------------------------------------------------------------------
(* The request implements its lifecycle: with faults the one in which an   *)
(* outcome may overtake an expiry (LateOutcome), without faults the strict *)
(* one.                                                                    *)

(* The initial state is the lifecycle's.                                   *)
LEMMA LifecycleInit == Init => Lifecycle!Init
  BY DEF Init, Lifecycle!Init, Phase, NotMade

(* Without faults no outcome is on its way to a request that expired.      *)
LEMMA OutcomeInTime ==
  ASSUME IInv, CleanInv, MaxFaults = 0, NEW w \in Workers, outcome[w] # "none" \/ pc[w] = "lapse"
  PROVE  Phase # "expired"
  <1>1. ReviewTold /\ OutcomeReal /\ EndTold
    BY DEF CleanInv, Clean, IInv, Typed, RestOK
  <1>2. CASE sent["expired"] = 0
    BY <1>1, <1>2 DEF EndTold, Phase, Decided
  <1>3. CASE sent["expired"] # 0
    BY <1>1, <1>3 DEF OutcomeReal, ReviewTold, Outcomes, Decided, Phase
  <1> QED BY <1>2, <1>3

(* Every step is one of the lifecycle's, or leaves the phase alone.        *)
LEMMA LifecycleStep ==
  ASSUME IInv, CleanInv, [Next]_vars PROVE [Lifecycle!Next]_Phase
  <1> USE DEF IInv, RowTold, Typed, RowOK, Rows, Lifecycle!Next, Lifecycle!Moves,
              Lifecycle!Undecided,
        Lifecycle!Overtaken
  <1>1. row' = row => [Lifecycle!Next]_Phase
    BY DEF Phase
  <1>2. ASSUME NEW w \in Workers, Writing(w) PROVE [Lifecycle!Next]_Phase
    <2> USE DEF Write
    <2>0. ASSUME NEW status \in Outcomes, StoreOutcome(w, status),
                 MaxFaults > 0 \/ Phase # "expired"
          PROVE  [Lifecycle!Next]_Phase
      BY <1>1, <2>0
         DEF StoreOutcome, SameSession, Open, Unsettled, Decided, Outcomes, Phase, rowVars,
           Lifecycle!Review, Lifecycle!Decide
    <2>1. CASE CreateHosted(w)
      BY <2>1 DEF CreateHosted, NotRequested, NewRow, NotMade, Phase, Decided, Lifecycle!Ask
    <2>2. CASE InsertRow(w) \/ InsertFails(w)
      <3>1. row = NotMade
        BY <2>2 DEF InsertRow, InsertFails, InsertAlone, At
      <3>2. PICK fits \in BOOLEAN : row' = row \/ row' = NewRow(FALSE, FALSE, fits)
        BY <2>2 DEF InsertRow, InsertFails
      <3> QED BY <1>1, <3>1, <3>2 DEF NewRow, NotMade, Phase, Decided, Lifecycle!Ask
    <2>3. CASE AttachSession(w) \/ AttachUnknown(w)
      BY <1>1, <2>3
         DEF AttachSession, AttachUnknown, Attachable, Attached, Phase, Decided, Lifecycle!Attach
    <2>4. CASE MarkStarted(w)
      BY <1>1, <2>4 DEF MarkStarted, SameSession, Phase, Decided, rowVars, Lifecycle!Start
    <2>5. CASE EndSession(w)
      BY <1>1, <2>5
         DEF EndSession, SameSession, RowShape, Phase, Open, Unsettled, Decided, rowVars,
           Lifecycle!Expire
    <2>6. CASE RecordOutcome(w)
      <3>1. outcome[w] \in Outcomes /\ outcome[w] # "none"
        BY <2>6 DEF RecordOutcome, At, WorkOK, OutcomeNamed, Outcomes, Decided
      <3>2. MaxFaults > 0 \/ Phase # "expired"
        BY <3>1, OutcomeInTime, ConstantsAssumption
      <3> QED BY <2>0, <2>6, <3>1, <3>2 DEF RecordOutcome
    <2>7. CASE LapseReview(w)
      <3>1. MaxFaults > 0 \/ Phase # "expired"
        BY <2>7, OutcomeInTime, ConstantsAssumption DEF LapseReview, At
      <3> QED BY <2>0, <2>7, <3>1 DEF LapseReview, Outcomes, Decided
    <2>8. CASE LapseLinks(w)
      BY <2>8 DEF LapseLinks, RowShape, Phase, Decided, Lifecycle!Expire
    <2>9. CASE CancelUnstarted(w)
      BY <2>9
         DEF CancelUnstarted, RowCancellable, CancelledRow, RowShape, Unsettled, Phase, Decided,
           Lifecycle!Cancel
    <2>10. CASE CancelCommit(w)
      BY <2>10
         DEF CancelCommit, At, LockHolds, RowCancellable, CancelledRow, Unsettled, Phase, Decided,
           Lifecycle!Cancel
    <2>11. CASE PurgeUnstarted(w) \/ PurgeCommit(w)
      BY <2>11
         DEF PurgeUnstarted, PurgeCommit, PurgedRow, At, LockHolds, RowStatus, Open, Unsettled,
           Phase, Decided, Lifecycle!Purge, Lifecycle!Phases
    <2>12. CASE AuditDecision(w)
      BY <1>1, <2>12 DEF AuditDecision
    <2> QED BY <1>2, <2>1, <2>2, <2>3, <2>4, <2>5, <2>6, <2>7, <2>8, <2>9, <2>10, <2>11, <2>12
      DEF Writing
  <1> QED BY <1>1, <1>2, RowSteps DEF rowVars, PurgeTimePasses

(* Whatever runs concurrently and whatever fails, a request goes through   *)
(* the phases ProofingLifecycle promises, in their order; an outcome       *)
(* (RecordOutcome) overtakes an expiry only where there are faults.        *)
THEOREM Implements == Spec => FollowsLifecycle
  BY LifecycleInit, LifecycleStep, Invariance, FaultFree, PTL
     DEF Spec, FollowsLifecycle, Lifecycle!Spec

(* What a request is told of its outcome and of its end, it is told once   *)
(* (RecordOutcome, EndSession, Cancel).                                    *)
THEOREM ToldOnce == Spec => []OutcomeAndEndOnce
  <1>1. OutcomeOnce /\ EndsOnce => OutcomeAndEndOnce
    BY DEF OutcomeAndEndOnce
  <1> QED BY <1>1, OneOutcome, OneEnd, PTL

(* An erased request keeps neither the name nor the photo, and the photo   *)
(* goes as soon as it has served (Purge, AttachSession, EndSession).       *)
THEOREM DataErased == Spec => []DataGone
  <1>1. PurgedErased /\ PhotoOnlyUntilStart => DataGone
    BY DEF DataGone
  <1> QED BY <1>1, ErasureComplete, PhotoDropped, PTL

(* No webhook comes after one that says it is too late for it (MarkStarted,*)
(* Purge).                                                                 *)
THEOREM InOrder == Spec => WebhooksInOrder
  BY NoStartTooLate, PurgedSilence, PTL DEF WebhooksInOrder

(* Every engine session that may hold data is the row's, or in the hands   *)
(* of a call that attaches or erases it (discardSession); each fault loses *)
(* one at most.                                                            *)
THEOREM NoneForgotten == Spec => []NoOrphans
  <1>1. ASSUME Init PROVE OrphansCounted
    <2>1. Orphans = {} /\ faults = 0
      BY <1>1 DEF Init, Orphans
    <2> QED BY <2>1, FS_EmptySet DEF OrphansCounted
  <1>2. OrphansCounted => NoOrphans
    BY DEF OrphansCounted, Orphans, NoOrphans
  <1> QED BY <1>1, <1>2, OrphansKept, Invariance, HandsKnown, PTL DEF Spec

(* The end a request is told is the one that happened, and the only one of *)
(* a request that never went to review: Cancel and Purge call the engine   *)
(* under the row's lock, and whoever reads the engine's end writes it only *)
(* to a row nobody holds.                                                  *)
THEOREM EndsTrue == Spec => EndIsTrue
  <1>1. ASSUME IInv, CleanInv PROVE ToldOneEnd
    <2> SUFFICES ASSUME faults = 0, sent["review_opened"] = 0 PROVE Ends <= 1
      BY DEF ToldOneEnd
    <2>1. OutcomeOnce /\ EndsOnce /\ DecidedOnly
          /\ sent["expired"] \in Nat /\ sent["cancelled"] \in Nat
      BY <1>1 DEF IInv, RowTold, CleanInv, Clean, Typed, RowOK, Events
    <2>2. CASE row.status \in Decided
      BY <2>1, <2>2 DEF OutcomeOnce, EndsOnce, DecidedOnly, Decided, Ends
    <2>3. CASE row.status \notin Decided
      BY <2>1, <2>3 DEF OutcomeOnce, EndsOnce, Decided, Ends
    <2> QED BY <2>2, <2>3
  <1>2. ASSUME IInv, CleanInv, [Next]_vars, sent'["expired"] > sent["expired"], faults = 0,
               row.session # NoSession
        PROVE  engine[row.session] = "expired"
    <2>0. sent["expired"] \in Nat /\ sent \in [Events -> Nat]
      BY <1>2 DEF IInv, Typed, RowOK, Events
    <2>1. sent'["expired"] # sent["expired"] /\ sent' # sent
      BY <1>2, <2>0
    <2>2. PICK w \in Workers : Writing(w)
      BY <1>2, <2>1, RowSteps DEF rowVars, PurgeTimePasses
    <2>3. faults' = 0
      <3>1. ~InsertFails(w) /\ ~AttachUnknown(w)
        BY <2>0, <2>1 DEF InsertFails, AttachUnknown, Tell, Events
      <3> QED BY <1>2, <2>2, <3>1
        DEF Writing, CreateHosted, InsertRow, AttachSession, MarkStarted, EndSession,
          RecordOutcome, LapseLinks, CancelUnstarted, CancelCommit, LapseReview, PurgeUnstarted,
          PurgeCommit, AuditDecision
    <2>4. RowEnded
      BY <1>2, <2>1, <2>3, RowMoves
         DEF RowStays, RowInserted, RowStarted, RowCancelled, RowPurged, RowAttached, RowDecided,
           Quiet
    <2> QED BY <1>2, <2>4, ExpiryFound DEF CleanInv, Clean
  <1>3. IInv /\ CleanInv /\ [Next]_vars =>
          [sent'["expired"] > sent["expired"] /\ faults = 0 =>
             row.session = NoSession \/ engine[row.session] = "expired"]_vars
    BY <1>2
  <1> QED BY <1>1, <1>3, Invariance, FaultFree, PTL DEF Spec, EndIsTrue, ExpiryIsReal

----------------------------------------------------------------------------
(* What the wallet's model takes the engine to do is the contract that the *)
(* engine's own model implements (EngineSession, FollowsContract): no less *)
(* and no more.                                                            *)

Promise(s) == INSTANCE SessionLifecycle WITH status <- engine[s]

(* The request's session s moves, and nothing else.                        *)
MovesAlone(s) == /\ row.session = s
                 /\ engine' = [engine EXCEPT ![s] = engine'[s]]
                 /\ UNCHANGED <<rowVars, workVars, rowLock, timeVars>>

(* Whatever the contract lets a session do of its own (the subject, the    *)
(* clock, retention) can happen to the request's session here, at any      *)
(* point of any call; its erasure before the wallet knows the end counts   *)
(* as a fault.                                                             *)
THEOREM PromiseAllowed ==
  ASSUME IInv, NEW s \in Sessions, MovesAlone(s), Promise(s)!Own,
         engine'[s] = "needs_review" => WithReview,
         IF Promise(s)!Remove /\ ~CaughtUp
         THEN faults < MaxFaults /\ faults' = faults + 1 ELSE UNCHANGED faults
  PROVE  Engine
  <1>0. s # NoSession /\ row.session = s
    BY ConstantsAssumption DEF MovesAlone
  <1> DEFINE One(from, to) == engine[s] \in from /\ engine'[s] = to
  <1>1. ASSUME NEW from, NEW to, One(from, to), UNCHANGED faults
        PROVE  EngineMoves(from, to)
    BY <1>0, <1>1 DEF EngineMoves, MovesAlone
  <1>2. CASE Promise(s)!Remove
    BY <1>0, <1>2 DEF Promise!Remove, Promise!Moves, Promise!Finished, MovesAlone, Engine,
         EngineRemoves, Decided
  <1>3. CASE ~Promise(s)!Remove /\ Promise(s)!Open
    <2>1. One({"created"}, "opened")
      BY <1>3 DEF Promise!Open, Promise!Moves
    <2> QED BY <1>1, <1>3, <2>1 DEF Engine, EngineOpens
  <1>4. CASE ~Promise(s)!Remove /\ Promise(s)!Expire
    <2>1. One(Running, "expired")
      BY <1>4 DEF Promise!Expire, Promise!Moves, Promise!Running, Running
    <2> QED BY <1>1, <1>4, <2>1 DEF Engine, EngineExpires
  <1>5. CASE ~Promise(s)!Remove /\ Promise(s)!Find
    <2>1. /\ One(Running \cup {"needs_review"}, engine'[s])
          /\ engine'[s] \in Findings
      BY <1>5 DEF Promise!Find, Promise!Moves, Promise!Findings, Promise!Running, Running,
           Findings, Decided
    <2> QED BY <1>1, <1>5, <2>1 DEF Engine, EngineAccepts
  <1> QED BY <1>2, <1>3, <1>4, <1>5 DEF Promise!Own

(* Every step of the wallet, its calls to the engine included, takes a     *)
(* session it created through the moves the contract has.                  *)
THEOREM PromiseKept ==
  ASSUME NEW s \in Sessions
  PROVE  Spec => [][engine[s] = "none" \/ Promise(s)!Next]_(engine[s])
  <1>1. ASSUME IInv, [Next]_vars PROVE [engine[s] = "none" \/ Promise(s)!Next]_(engine[s])
    <2> DEFINE Turns(from, to) ==
                 engine'[s] = engine[s] \/ (engine[s] \in from /\ engine'[s] \in to)
               Decidable == Running \cup {"needs_review"}
    <2>0. engine \in [Sessions -> EngineStatus]
      BY <1>1 DEF IInv, Typed, EngineOK
    <2>1. CASE Engine
      <3>1. \/ Turns({"created"}, {"opened"}) \/ Turns(Decidable, Outcomes)
            \/ Turns(Running, {"expired"})
            \/ Turns(Decided \cup {"expired", "cancelled"}, {"deleted"})
        BY <2>0, <2>1 DEF Engine, EngineOpens, EngineFinishes, EngineAccepts, EngineExpires,
             EngineRemoves, EngineMoves, Findings, Outcomes, Running
      <3> QED
        BY <3>1 DEF Promise!Next, Promise!Own, Promise!Open, Promise!Find, Promise!Expire,
             Promise!Remove, Promise!Moves, Promise!Running, Promise!Findings,
             Promise!Finished, Running, Outcomes, Decided
    <2>2. ASSUME NEW w \in Workers, Calling(w)
          PROVE  [engine[s] = "none" \/ Promise(s)!Next]_(engine[s])
      <3>1. \/ Turns({"none"}, EngineStatus) \/ Turns(EngineStatus, {"deleted"})
            \/ Turns(Decidable \cup {"cancelled"}, {"cancelled"})
            \/ Turns({"needs_review"}, Decided)
        BY <2>0, <2>2 DEF Calling, CreateSession, StartSession, EngineCreates, DiscardSession,
             PurgeInEngine, CancelInEngine, DecideInEngine, Cancellable, Running, EngineStatus
      <3> QED
        BY <3>1 DEF Promise!Next, Promise!Own, Promise!Asked, Promise!Find, Promise!Cancel,
             Promise!Erase, Promise!Moves, Promise!Running, Promise!Findings, Promise!Finished,
             Promise!Statuses, EngineStatus, EngineOver, Running, Outcomes, Decided
    <2> QED BY <1>1, <2>1, <2>2, EngineSteps
  <1> QED BY <1>1, Invariance, PTL DEF Spec

=============================================================================
