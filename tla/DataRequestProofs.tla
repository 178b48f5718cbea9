-------------------------- MODULE DataRequestProofs --------------------------
(***************************************************************************)
(* Proofs about DataRequest, for every set of other sessions, of callers   *)
(* and of settings: the types, that the person is told what was done, that *)
(* only what may be erased is erased, and that a pause leaves nothing open.*)
(***************************************************************************)
EXTENDS DataRequest, TLAPS, WellFoundedInduction

(* Where a call can be: in a search that may still write, in one the match *)
(* lock covers, or in a pass of a pause.                                   *)
Locked    == {"relook", "search", "save", "record", "read_pause", "settle_held", "settle_auto"}
Searching == {"search", "save", "record"}
Settling  == {"settle_held", "settle_auto"}
Passes    == {"first_items", "second_items", "sweep_items"}
Sweeping  == {"list_due", "lapse", "purge_due"}
Places    == Locked \cup Deciding \cup Passes \cup Sweeping
               \cup {"idle", "lock_match", "lock", "first_pass", "second_pass", "sweep",
                     "set", "item_pause", "item_reject"}

(* A refusal that is someone's, and not the end of the review's term.      *)
Refusals == {"MANUAL_REVIEW_REJECTED", "ORG_PAUSED", "LEGAL_RETENTION"}

----------------------------------------------------------------------------
(* The types.                                                              *)

ReqType == [status : Undecided \cup {"approved", "rejected"}, code : Codes,
            purged : BOOLEAN, late : BOOLEAN]

CheckType == [status : {"unfinished", "needs_review", "approved", "rejected"}, purged : BOOLEAN]

MatchType == [level : Levels \cup {"none"}, approved : BOOLEAN]

InputType == [approve : BOOLEAN, listed : BOOLEAN, ids : SUBSET Checks, code : Codes,
              partial : BOOLEAN]

JobType == [pc : Places, saw : Undecided \cup {"none", "approved", "rejected"},
            found : SUBSET Checks, why : {"none", "review", "pause", "law", "auto"},
            input : InputType, take : SUBSET Checks,
            back : Settling \cup Passes \cup {"idle"}, failed : BOOLEAN]

Typed ==
  /\ kind \in Kinds
  /\ req \in ReqType
  /\ engine \in [status : {"approved", "needs_review", "rejected", "gone"}, code : Codes]
  /\ check \in [Checks -> CheckType]
  /\ match \in [Checks -> MatchType]
  /\ free \subseteq Checks /\ erased \subseteq Checks /\ ticked \subseteq Checks
  /\ paused \in BOOLEAN /\ item \in {"none", "pending", "confirmed", "rejected", "lapsed"}
  /\ matchLock \in Pollers \cup {Free} /\ reviewLock \in Workers \cup {Free}
  /\ job \in [Workers -> JobType]
  /\ pauses \in Nat /\ faults \in Nat

----------------------------------------------------------------------------
(* The invariant.                                                          *)

Rules(w) == job[w].pc \in Deciding

(* What a call's own record says, whatever the others do.                  *)
Sound(w) ==
  LET j == job[w] IN
  /\ j.pc # "idle" => w \in kind.crew
  /\ j.pc = "lock_match" => w \in Pollers
  /\ j.pc \in {"lock_match", "relook"} => j.saw = "in_progress"
  /\ j.pc = "lock" => j.why # "none"
  /\ j.pc = "lock" /\ j.why = "law" => j.back = "settle_auto"
  /\ j.pc = "lock" /\ j.why = "auto" => kind.erasure
  /\ j.pc \in Deciding \cup {"lock"} /\ j.why = "auto" => j.back = "idle"
  /\ j.pc = "idle" => j.back = "idle"
  /\ j.back = "second_items" => j.pc \in Deciding \cup {"lock", "second_items"}
  /\ j.pc \in {"erase", "purge_own"} => kind.erasure /\ j.input.approve
  /\ j.pc \in Deciding =>
       /\ IF j.input.approve THEN j.input.code = "none"
          ELSE j.input.code \in Refusals /\ ~j.input.partial
       /\ j.input.partial => j.pc = "erase" /\ j.why = "auto"

(* Who searches, or has yet to settle what it found, holds the match lock. *)
Searches(w) ==
  \/ job[w].pc \in Locked \/ job[w].back \in Settling
  \/ job[w].why = "auto" /\ job[w].pc \in Deciding \cup {"lock"}

LocksHeld ==
  \A w \in Workers : /\ Rules(w) <=> reviewLock = w
                     /\ Searches(w) => matchLock = w

(* Before the review opens nothing was decided, erased or found out of     *)
(* term; a search writes only then.                                        *)
Fresh ==
  req.status = "in_progress" =>
    /\ ~req.purged /\ ~req.late /\ engine.status # "rejected" /\ erased = {}
    /\ \A w \in Workers : job[w].pc \notin Deciding \cup {"lapse", "purge_due"}

SearchOpen == \A w \in Workers : job[w].pc \in Searching => req.status = "in_progress"

(* A purged request matches nothing; one undecided has no code.            *)
RowSound ==
  /\ req.purged => match = NoMatches
  /\ req.status \in Undecided => req.code = "none"
  /\ kind.engine = "approved" => engine.status \in {"approved", "gone"} /\ engine.code = "none"

(* The engine has a code of a rejection only, and is gone with the row.    *)
EngineSays ==
  /\ engine.code # "none" => engine.status \in {"rejected", "gone"}
  /\ engine.status = "gone" => req.purged

ErasedGone ==
  \A c \in erased : kind.erasure /\ check[c].purged /\ (c \in Matched \/ req.purged)

ApprovedStays == \A c \in Checks : kind.checks[c].status = "approved" => check[c].status = "approved"

Proven(c) == kind.retention /\ kind.checks[c].status = "approved"

(* What a decision is about to take was found, was proven or ticked, and   *)
(* is not held by the law; what was erased before is among it.             *)
TakesAllowed ==
  \A w \in Workers : Rules(w) =>
    /\ \A c \in job[w].take :
         /\ check[c].purged \/ SureMatch(c) \/ c \in ticked \/ req.purged
         /\ kind.erasure => check[c].purged \/ ~Proven(c) \/ c \in free
    /\ ~job[w].input.approve => job[w].take = {}
    /\ ~req.purged => job[w].take \subseteq Matched
    /\ job[w].input.approve /\ kind.erasure /\ ~req.purged => erased \subseteq job[w].take

(* What it took it told, before it says that the request is approved.      *)
TakesTold ==
  \A w \in Workers : Rules(w) /\ job[w].input.approve /\ kind.erasure =>
    /\ job[w].pc \in {"record_decision", "record_outcome", "purge_own"} =>
         \A c \in job[w].take : check[c].purged
    /\ job[w].pc \in {"record_outcome", "purge_own"} /\ ~req.purged =>
         \A c \in Checks : match[c].approved <=> c \in job[w].take

(* An approved erasure leaves its decider nothing to do but purge.         *)
ApprovedLast ==
  kind.erasure /\ req.status = "approved" =>
    \A w \in Workers : Rules(w) => job[w].pc = "purge_own"

(* Someone refuses, or has refused: the row or the engine says so.         *)
Said(code) ==
  \/ req.code = code \/ engine.code = code
  \/ \E w \in Workers : Rules(w) /\ job[w].input.code = code

(* Nobody decides against a refusal, and it leaves no review open.         *)
RefusalStands ==
  faults = 0 \/ kind.engine = "approved" =>
    \A code \in Refusals : Said(code) =>
      /\ \A w \in Workers : Rules(w) => job[w].input.code = code
      /\ OpenReview => reviewLock # Free

SureKept ==
  (faults = 0 \/ kind.engine = "approved") /\ Said("MANUAL_REVIEW_REJECTED")
    => \A c \in erased : ~SureMatch(c)

LawKept == faults = 0 /\ Said("LEGAL_RETENTION") => erased = {}

(* While the review is open and no one decides, nothing was erased before  *)
(* the search that opened it has settled it.                               *)
Unsettled(w) ==
  job[w].pc \in Locked \ {"relook"} \/ job[w].back \in Settling

LawFirst ==
  faults = 0 /\ OpenReview /\ reviewLock = Free /\ erased # {}
    => \A w \in Workers : ~Unsettled(w)

(* Who is sure to refuse an open review of a paused organisation, and a    *)
(* pending item.                                                           *)
Refuses(w) ==
  \/ job[w].pc \in {"read_pause", "second_pass"}
  \/ job[w].pc = "lock" /\ job[w].why = "pause"
  \/ Rules(w) /\ ~job[w].input.partial

Empties(w) ==
  job[w].pc \in {"item_pause", "item_reject", "second_pass"} \/ job[w].back = "second_items"
    \/ job[w].pc = "second_items"

PauseSeen ==
  faults = 0 /\ paused =>
    /\ OpenReview => \E w \in Workers : Refuses(w)
    /\ item = "pending" => \E w \in Workers : Empties(w)

Kept ==
  /\ \A w \in Workers : Sound(w)
  /\ LocksHeld /\ Fresh /\ SearchOpen /\ RowSound /\ EngineSays /\ ErasedGone /\ ApprovedStays
  /\ TakesAllowed /\ TakesTold /\ ApprovedLast /\ RefusalStands /\ SureKept /\ LawKept
  /\ LawFirst /\ PauseSeen

IInv == Typed /\ Kept /\ ErasureTold /\ ErasesProvenOrTicked

----------------------------------------------------------------------------
(* Data.                                                                   *)

(* The smaller of two numbers comes first; what is found is taken in the   *)
(* order it was made, so the first of it exists.                           *)
Earlier == {p \in Nat \X Nat : p[1] < p[2]}

LEMMA MinIsOne ==
  ASSUME NEW S, S \subseteq Nat, S # {}
  PROVE  Min(S) \in S
<1>1. IsWellFoundedOn(Earlier, Nat)
  BY NatLessThanWellFounded, Zenon DEF OpToRel, Earlier
<1>2. PICK x \in S : \A y \in S : ~ (<<y, x>> \in Earlier)
  BY <1>1, WFMin
<1>3. ASSUME NEW y \in S PROVE x =< y
  <2>1. <<y, x>> \in Nat \X Nat /\ <<y, x>>[1] = y /\ <<y, x>>[2] = x  OBVIOUS
  <2>2. ~(<<y, x>>[1] < <<y, x>>[2])  BY <1>2, <2>1, Zenon DEF Earlier
  <2>3. x \in Nat /\ y \in Nat  OBVIOUS
  <2> QED  BY <2>1, <2>2, <2>3
<1> QED  BY <1>2, <1>3 DEF Min

LEMMA KindTypes ==
  ASSUME kind \in Kinds
  PROVE  /\ kind.erasure \in BOOLEAN /\ kind.automatic \in BOOLEAN /\ kind.retention \in BOOLEAN
         /\ kind.engine \in {"approved", "needs_review"}
         /\ \A c \in Checks :
              /\ kind.checks[c].status \in {"unfinished", "needs_review", "approved"}
              /\ kind.checks[c].proven \in {"strong", "probable", "none"}
              /\ kind.checks[c].typed \in {"email", "name", "none"}
         /\ kind.crew \subseteq Workers
         /\ kind.pauses \in Nat /\ kind.faults \in Nat
<1>1. kind \in [erasure : BOOLEAN, automatic : BOOLEAN, retention : BOOLEAN,
        engine : {"approved", "needs_review"},
        checks : [Checks -> [status : {"unfinished", "needs_review", "approved"},
                             proven : {"strong", "probable", "none"},
                             typed : {"email", "name", "none"}]],
        crew : SUBSET Workers, moves : BOOLEAN, lapses : BOOLEAN,
        pauses : Nat, faults : Nat]
  BY DataAssumption
<1> QED  BY <1>1

LEMMA InputTypes ==
  /\ \A code \in Codes : Refusal(code) \in InputType
  /\ \A ids \in SUBSET Checks : Approval(ids) \in InputType
  /\ ApproveSure \in InputType
BY DEF Refusal, Approval, ApproveSure, InputType, Codes

LEMMA IdleTyped == Idle \in JobType
BY InputTypes DEF Idle, JobType, Places, Codes

----------------------------------------------------------------------------
(* What the steps do.                                                      *)

Only(w) == \A u \in Workers \ {w} : job'[u] = job[u]

(* A decision that takes the review lock, and what it decides.             *)
Takes(w, input) ==
  /\ At(w, "lock") /\ reviewLock = Free /\ OpenReview /\ ~TicksHeld(input)
  /\ input.ids \subseteq Matched
  /\ \A c \in input.ids : SureMatch(c) \/ job[w].why = "review"
  /\ IF input.approve THEN input.code = "none"
     ELSE input.code \in Refusals /\ ~input.partial
  /\ input.partial => job[w].why = "auto"
  /\ input.code = "MANUAL_REVIEW_REJECTED" /\ kind.erasure =>
       ~\E c \in Matched : SureMatch(c) /\ check[c].purged
  /\ input.code = "LEGAL_RETENTION" => job[w].why = "law" /\ AllHeld
  /\ job[w].why = "pause" => ~input.approve
  /\ reviewLock' = w
  /\ ticked' = IF job[w].why = "review" THEN ticked \cup input.ids ELSE ticked
  /\ job' = [job EXCEPT ![w].input = input, ![w].take = ApprovedMatches(input),
                        ![w].pc = IF input.partial THEN "erase" ELSE "decide_engine"]
  /\ UNCHANGED <<req, engine, match, matchLock, erased>> /\ UNCHANGED orgVars

(* A call that has nothing to decide goes back.                            *)
Desists(w) ==
  /\ At(w, "lock") /\ reviewLock = Free
  /\ job[w].why = "pause" => ~OpenReview
  /\ \E failed \in BOOLEAN : Return(w, failed)
  /\ UNCHANGED <<req, engine, match, reviewLock>> /\ UNCHANGED orgVars /\ UNCHANGED history

LEMMA InputShapes ==
  /\ \A code \in Refusals \cup {"none"} :
       /\ ~Refusal(code).approve /\ ~Refusal(code).listed /\ Refusal(code).ids = {}
       /\ Refusal(code).code = code /\ ~Refusal(code).partial
  /\ \A ids : /\ Approval(ids).approve /\ Approval(ids).listed /\ Approval(ids).ids = ids
              /\ Approval(ids).code = "none" /\ ~Approval(ids).partial
  /\ \A ids, b : LET p == [Approval(ids) EXCEPT !.partial = b]
                 IN  p.approve /\ p.listed /\ p.ids = ids /\ p.code = "none" /\ p.partial = b
  /\ ApproveSure.approve /\ ~ApproveSure.listed /\ ApproveSure.ids = {}
  /\ ApproveSure.code = "none" /\ ~ApproveSure.partial
BY DEF Refusal, Approval, ApproveSure

(* One way to decide leads to both.                                        *)
LEMMA DecideShapes ==
  ASSUME Typed, NEW w \in Workers, NEW asked \in InputType,
         At(w, "lock"), reviewLock = Free, OpenReview,
         asked.ids \subseteq Matched,
         \A c \in asked.ids : SureMatch(c) \/ job[w].why = "review",
         IF asked.approve THEN asked.code = "none" ELSE asked.code \in Refusals /\ ~asked.partial,
         asked.partial => job[w].why = "auto",
         asked.code = "LEGAL_RETENTION" => job[w].why = "law" /\ AllHeld,
         job[w].why = "pause" => asked.code = "ORG_PAUSED" /\ ~asked.approve,
         Decide(w, asked),
         UNCHANGED <<req, engine, match, erased>>, UNCHANGED orgVars
  PROVE  Desists(w) \/ \E input \in InputType : Takes(w, input)
<1> DEFINE input == IF RefusesPartlyErased(asked) THEN Approval({}) ELSE asked
<1>1. input \in InputType  BY InputTypes
<1>2. CASE TicksHeld(input)
  <2>1. Return(w, TRUE) /\ UNCHANGED <<reviewLock, ticked>>  BY <1>2 DEF Decide
  <2>2. job[w].why # "pause"
    BY <1>2 DEF TicksHeld, RefusesPartlyErased
  <2> QED  BY <2>1, <2>2 DEF Desists, history
<1>3. CASE ~TicksHeld(input)
  <2>1. /\ reviewLock' = w
        /\ ticked' = IF job[w].why = "review" THEN ticked \cup input.ids ELSE ticked
        /\ job' = [job EXCEPT ![w].input = input, ![w].take = ApprovedMatches(input),
                              ![w].pc = IF input.partial THEN "erase" ELSE "decide_engine"]
        /\ UNCHANGED matchLock
    BY <1>3 DEF Decide
  <2>2. CASE RefusesPartlyErased(asked)
    <3>1. input = Approval({})  BY <2>2
    <3>2. asked.code = "MANUAL_REVIEW_REJECTED"  BY <2>2 DEF RefusesPartlyErased
    <3> HIDE DEF input
    <3>3. input.approve /\ input.ids = {} /\ input.code = "none" /\ ~input.partial
      BY <3>1, InputShapes
    <3>4. Takes(w, input)  BY <1>3, <2>1, <3>2, <3>3 DEF Takes
    <3> QED  BY <1>1, <3>4
  <2>3. CASE ~RefusesPartlyErased(asked)
    <3>1. input = asked  BY <2>3
    <3>2. asked.code = "MANUAL_REVIEW_REJECTED" /\ kind.erasure =>
            ~\E c \in Matched : SureMatch(c) /\ check[c].purged
      BY <2>3 DEF RefusesPartlyErased
    <3> HIDE DEF input
    <3>3. Takes(w, asked)  BY <1>3, <2>1, <3>1, <3>2 DEF Takes
    <3> QED  BY <3>3
  <2> QED  BY <2>2, <2>3
<1> QED  BY <1>2, <1>3

LEMMA LockShapes ==
  ASSUME Typed, NEW w \in Workers, Sound(w), LockReview(w)
  PROVE  Desists(w) \/ \E input \in InputType : Takes(w, input)
<1>1. At(w, "lock") /\ reviewLock = Free  BY DEF LockReview, LockFree
<1>2. UNCHANGED <<req, engine, match, erased>> /\ UNCHANGED orgVars  BY DEF LockReview
<1>3. CASE ~OpenReview
  BY <1>1, <1>2, <1>3 DEF LockReview, Desists, history
<1>4. CASE OpenReview
  <2>1. job[w].why \in {"review", "pause", "law", "auto"}
    BY <1>1 DEF Sound, At, Typed, JobType
  <2>2. CASE job[w].why = "review"
    <3>1. PICK asked \in ReviewInputs : Decide(w, asked)
      BY <1>4, <2>2 DEF LockReview
    <3>2. Matched \subseteq Checks  BY DEF Matched
    <3>3. asked \in InputType /\ asked.ids \subseteq Matched /\ ~asked.partial
          /\ (IF asked.approve THEN asked.code = "none" ELSE asked.code = "MANUAL_REVIEW_REJECTED")
      <4>1. "MANUAL_REVIEW_REJECTED" \in Refusals /\ "MANUAL_REVIEW_REJECTED" \in Codes
        BY DEF Refusals, Codes
      <4> QED  BY <3>1, <3>2, <4>1, InputTypes, InputShapes DEF ReviewInputs
    <3> QED  BY <1>1, <1>2, <1>4, <2>2, <3>1, <3>3, DecideShapes DEF Refusals
  <2>3. CASE job[w].why = "pause"
    <3>1. Decide(w, Refusal("ORG_PAUSED"))  BY <1>4, <2>3 DEF LockReview
    <3>2. "ORG_PAUSED" \in Refusals /\ "ORG_PAUSED" \in Codes  BY DEF Refusals, Codes
    <3> QED  BY <1>1, <1>2, <1>4, <2>3, <3>1, <3>2, InputTypes, InputShapes, DecideShapes
  <2>4. CASE job[w].why = "law"
    <3>1. CASE AllHeld
      <4>1. Decide(w, Refusal("LEGAL_RETENTION"))  BY <1>4, <2>4, <3>1 DEF LockReview
      <4>2. "LEGAL_RETENTION" \in Refusals /\ "LEGAL_RETENTION" \in Codes  BY DEF Refusals, Codes
      <4> QED  BY <1>1, <1>2, <1>4, <2>4, <3>1, <4>1, <4>2, InputTypes, InputShapes, DecideShapes
    <3>2. CASE ~AllHeld
      BY <1>1, <1>2, <1>4, <2>4, <3>2 DEF LockReview, Desists, history
    <3> QED  BY <3>1, <3>2
  <2>5. CASE job[w].why = "auto"
    <3> DEFINE asked == [Approval(SureToErase) EXCEPT !.partial = UnsureLeft]
    <3>1. Decide(w, asked)  BY <1>4, <2>5 DEF LockReview
    <3>2. SureToErase \subseteq Matched /\ Matched \subseteq Checks /\ \A c \in SureToErase : SureMatch(c)
      BY DEF SureToErase, Matched
    <3>3. asked.approve /\ asked.ids = SureToErase /\ asked.code = "none"
      BY InputShapes
    <3>4. asked \in InputType
      BY <3>2, InputTypes DEF InputType, UnsureLeft
    <3> HIDE DEF asked
    <3> QED  BY <1>1, <1>2, <1>4, <2>5, <3>1, <3>2, <3>3, <3>4, DecideShapes
  <2> QED  BY <2>1, <2>2, <2>3, <2>4, <2>5
<1> QED  BY <1>3, <1>4

LEMMA RecordedRow ==
  ASSUME Typed, NEW status \in {"needs_review", "approved", "rejected"}, NEW code \in Codes,
         RecordOutcome(status, code)
  PROVE  /\ req' \in ReqType /\ req'.purged = req.purged
         /\ IF req.status \in Undecided \ {status} /\ ~req.purged
            THEN req'.status = status /\ req'.code = code /\ ~req'.late
            ELSE req' = req
BY DEF RecordOutcome, Typed, ReqType, Undecided

LEMMA Returned ==
  ASSUME Typed, NEW w \in Workers, NEW failed \in BOOLEAN, Return(w, failed)
  PROVE  /\ job' \in [Workers -> JobType] /\ Only(w)
         /\ job'[w].pc = job[w].back /\ job'[w].back = "idle" /\ job'[w].why = "none"
         /\ matchLock' = IF job[w].back = "idle" /\ matchLock = w THEN Free ELSE matchLock
<1>1. job[w] \in JobType  BY DEF Typed
<1>2. CASE job[w].back = "idle"
  <2>1. job' = [job EXCEPT ![w] = Idle] /\ matchLock' = IF matchLock = w THEN Free ELSE matchLock
    BY <1>2 DEF Return, Done, FreeMatchLock
  <2> QED  BY <1>2, <2>1, IdleTyped DEF Typed, Only, Idle
<1>3. CASE job[w].back # "idle"
  <2> DEFINE r == [Idle EXCEPT !.pc = job[w].back, !.saw = job[w].saw,
                               !.failed = job[w].failed \/ failed]
  <2>1. job' = [job EXCEPT ![w] = r] /\ matchLock' = matchLock
    BY <1>3 DEF Return
  <2>2. job[w].back \in Places  BY <1>1 DEF JobType, Places, Locked, Settling
  <2>3. job[w].failed \/ failed \in BOOLEAN  BY <1>1 DEF JobType
  <2>4. r \in JobType /\ r.pc = job[w].back /\ r.back = "idle" /\ r.why = "none"
    BY <1>1, <2>2, <2>3, IdleTyped DEF Idle, JobType
  <2> HIDE DEF r
  <2> QED  BY <1>3, <2>1, <2>4 DEF Typed, Only
<1> QED  BY <1>2, <1>3

LEMMA MatchTypes ==
  ASSUME Typed
  PROVE  /\ NoMatches \in [Checks -> MatchType]
         /\ \A c \in Checks, b \in BOOLEAN :
              /\ [level |-> kind.checks[c].proven, approved |-> b] \in MatchType
              /\ [level |-> kind.checks[c].typed, approved |-> b] \in MatchType
              /\ [match[c] EXCEPT !.approved = b] \in MatchType
              /\ NoMatch \in MatchType
BY KindTypes DEF Typed, MatchType, Levels, NoMatches, NoMatch

LEMMA PurgeTyped ==
  ASSUME Typed, PurgeRequest
  PROVE  /\ req' \in ReqType /\ req'.purged /\ req'.status = req.status /\ req'.code = req.code
         /\ req'.late = req.late
         /\ engine' \in [status : {"approved", "needs_review", "rejected", "gone"}, code : Codes]
         /\ engine'.status = "gone" /\ engine'.code = engine.code
         /\ match' = NoMatches /\ match' \in [Checks -> MatchType]
BY MatchTypes DEF Typed, PurgeRequest, ReqType

LEMMA CheckTyped ==
  ASSUME Typed, NEW c \in Checks
  PROVE  /\ Purged(c) \in [Checks -> CheckType]
         /\ \A s \in {"unfinished", "needs_review", "approved", "rejected"} :
              [check EXCEPT ![c].status = s] \in [Checks -> CheckType]
BY DEF Typed, CheckType, Purged

LEMMA TakenTyped ==
  ASSUME Typed, NEW input \in InputType
  PROVE  ApprovedMatches(input) \subseteq Checks
BY DEF ApprovedMatches, InputType, Unticked, WithPurged, Matched

(* The first of what is left to erase.                                     *)
LEMMA ErasedOne ==
  ASSUME Typed, NEW w \in Workers, ToErase(w) # {}
  PROVE  Min(ToErase(w)) \in Checks /\ Min(ToErase(w)) \in job[w].take
         /\ ~check[Min(ToErase(w))].purged
<1>1. ToErase(w) \subseteq Checks  BY DEF ToErase, Typed, JobType
<1>2. Checks \subseteq Nat  BY DataAssumption
<1>3. Min(ToErase(w)) \in ToErase(w)  BY <1>1, <1>2, MinIsOne
<1> QED  BY <1>1, <1>3 DEF ToErase

(* A call changes its own record only, to another such record.             *)
Acts(w) == GoOn(w) \/ LockReview(w) \/ Begin(w) \/ Fails(w)

LEMMA JobsTyped ==
  ASSUME Typed, NEW w \in Workers, Sound(w), Acts(w)
  PROVE  job' \in [Workers -> JobType] /\ Only(w)
<1> USE DEF At, Go, Only
<1>1. job \in [Workers -> JobType] /\ job[w] \in JobType  BY DEF Typed
<1>2. ASSUME Done(w) PROVE job' \in [Workers -> JobType] /\ Only(w)
  BY <1>1, <1>2, IdleTyped DEF Done
<1>3. ASSUME NEW p \in Places, Go(w, p) PROVE job' \in [Workers -> JobType] /\ Only(w)
  BY <1>1, <1>3 DEF JobType
<1>4. ASSUME NEW f \in BOOLEAN, Return(w, f) PROVE job' \in [Workers -> JobType] /\ Only(w)
  BY <1>4, Returned DEF Only
<1>5. ASSUME UNCHANGED job PROVE job' \in [Workers -> JobType] /\ Only(w)
  BY <1>1, <1>5
<1>6. ASSUME NEW p \in Places, job' = [job EXCEPT ![w] = [Idle EXCEPT !.pc = p]]
      PROVE  job' \in [Workers -> JobType] /\ Only(w)
  BY <1>1, <1>6, IdleTyped DEF JobType
<1>p. /\ Searching \subseteq Places /\ Settling \subseteq Places /\ Passes \subseteq Places
      /\ Sweeping \subseteq Places /\ Deciding \subseteq Places /\ Locked \subseteq Places
      /\ {"lock", "first_pass", "second_pass", "sweep", "set", "item_pause", "item_reject",
          "lock_match", "idle"} \subseteq Places
  BY DEF Places, Searching, Locked, Settling, Passes
<1> USE <1>p DEF Searching, Settling, Passes, Sweeping, Deciding, Locked
<1>7. CASE ReadToReconcile(w)
  BY <1>1, <1>5, <1>7 DEF ReadToReconcile, JobType, Typed, ReqType
<1>8. CASE TryLockMatching(w) \/ Relook(w) \/ SaveMatches(w) \/ RecordReview(w)
  BY <1>2, <1>3, <1>8 DEF TryLockMatching, Relook, SaveMatches, RecordReview
<1>9. CASE Search(w)
  <2>1. Candidates \subseteq Checks  BY DEF Candidates
  <2> QED  BY <1>1, <1>9, <2>1 DEF Search, JobType
<1>10. CASE RejectIfPaused(w) \/ DeclineHeldErasure(w) \/ DecideReview(w)
  BY <1>1, <1>10 DEF RejectIfPaused, DeclineHeldErasure, DecideReview, JobType
<1>11. CASE HandleErasure(w)
  BY <1>1, <1>2, <1>11 DEF HandleErasure, JobType
<1>12. CASE LockReview(w)
  <2>1. CASE Desists(w)
    BY <1>4, <2>1 DEF Desists
  <2>2. ASSUME NEW input \in InputType, Takes(w, input)
        PROVE  job' \in [Workers -> JobType] /\ Only(w)
    <3>1. ApprovedMatches(input) \in SUBSET Checks  BY TakenTyped
    <3> QED  BY <1>1, <2>2, <3>1 DEF Takes, JobType
  <2> QED  BY <1>12, <2>1, <2>2, LockShapes
<1>13. CASE DecideInEngine(w)
  BY <1>3, <1>13 DEF DecideInEngine
<1>14. CASE PurgeMatch(w)
  BY <1>3, <1>4, <1>5, <1>14 DEF PurgeMatch
<1>15. CASE RecordDecision(w)
  BY <1>3, <1>4, <1>15 DEF RecordDecision
<1>16. CASE RecordDecided(w)
  BY <1>3, <1>4, <1>16 DEF RecordDecided
<1>17. CASE PurgeOwn(w)
  BY <1>4, <1>17 DEF PurgeOwn
<1>18. CASE BeginPause(w) \/ SetPause(w) \/ Resume(w) \/ OpenItem(w) \/ RejectItemIfPaused(w)
            \/ BeginSweep(w) \/ LapseReview(w) \/ PurgeDue(w)
  BY <1>2, <1>3, <1>5, <1>18
     DEF BeginPause, SetPause, Resume, OpenItem, RejectItemIfPaused, BeginSweep, LapseReview, PurgeDue
<1>19. CASE ListOpenReviews(w)
  <2>1. AfterPass(job[w].pc) \in Passes
    BY <1>19 DEF ListOpenReviews, AfterPass
  <2>2. AfterPass(job[w].pc) \in Places  BY <2>1
  <2>3. job' = [job EXCEPT ![w].pc = IF OpenReview THEN "lock" ELSE AfterPass(job[w].pc),
                           ![w].why = "pause", ![w].back = AfterPass(job[w].pc)]
    BY <1>19 DEF ListOpenReviews
  <2> HIDE DEF AfterPass, Passes
  <2> QED  BY <1>1, <2>1, <2>2, <2>3 DEF JobType
<1>20. CASE RejectPendingItems(w)
  <2>1. CASE At(w, "first_items")
    BY <1>1, <1>20, <2>1 DEF RejectPendingItems, JobType
  <2> QED  BY <1>2, <1>6, <1>20, <2>1 DEF RejectPendingItems
<1>21. CASE ListPurgeDue(w)
  <2> DEFINE r == [Idle EXCEPT !.pc = "lapse", !.saw = req.status]
  <2>1. r \in JobType
    BY IdleTyped DEF JobType, Typed, ReqType
  <2>2. Done(w) \/ job' = [job EXCEPT ![w] = r]  BY <1>21 DEF ListPurgeDue
  <2> HIDE DEF r
  <2> QED  BY <1>1, <1>2, <2>1, <2>2
<1>22. CASE Fails(w)
  <2> DEFINE r == [Idle EXCEPT !.pc = job[w].back, !.failed = TRUE]
  <2>1. Done(w) \/ (job' = [job EXCEPT ![w] = r] /\ job[w].back \in Passes)  BY <1>22 DEF Fails
  <2>2. job[w].back \in Passes => r \in JobType
    BY IdleTyped DEF JobType
  <2> HIDE DEF r
  <2> QED  BY <1>1, <1>2, <2>1, <2>2
<1> QED  BY <1>7, <1>8, <1>9, <1>10, <1>11, <1>12, <1>13, <1>14, <1>15, <1>16, <1>17, <1>18,
            <1>19, <1>20, <1>21, <1>22 DEF Acts, GoOn, Begin

LEMMA Actors ==
  ASSUME [Next]_vars
  PROVE  Around \/ (\E w \in Workers : Acts(w)) \/ UNCHANGED vars
BY DEF Next, Acts

LEMMA DecidedCheck ==
  ASSUME NEW c \in Checks, CheckDecided(c)
  PROVE  /\ \E x \in {"approved", "rejected", "needs_review"} : check' = [check EXCEPT ![c].status = x]
         /\ check[c].status # "approved" /\ ~check[c].purged
<1>1. CASE check[c].status = "unfinished"
  BY <1>1 DEF CheckDecided
<1>2. CASE check[c].status = "needs_review"
  BY <1>2 DEF CheckDecided
<1> QED  BY <1>1, <1>2 DEF CheckDecided

LEMMA TypedKept ==
  ASSUME Typed, \A w \in Workers : Sound(w), [Next]_vars
  PROVE  Typed'
<1> USE DEF Typed, orgVars, history, pauseVars, aroundVars
<1>1. CASE UNCHANGED vars
  BY <1>1 DEF vars
<1>2. CASE Around
  <2>1. CASE ItemDecided  BY <2>1 DEF ItemDecided
  <2>2. CASE TermPasses   BY <2>2 DEF TermPasses, ReqType
  <2>3. ASSUME NEW c \in Checks, CheckDecided(c) PROVE Typed'
    <3>1. PICK x \in {"approved", "rejected", "needs_review"} : check' = [check EXCEPT ![c].status = x]
      BY <2>3, DecidedCheck
    <3>2. check' \in [Checks -> CheckType]  BY <3>1, CheckTyped
    <3> QED  BY <2>3, <3>2 DEF CheckDecided
  <2>4. ASSUME NEW c \in Checks, CheckErased(c) PROVE Typed'
    BY <2>4, CheckTyped DEF CheckErased
  <2>5. ASSUME NEW c \in Checks, HoldEnds(c) PROVE Typed'
    BY <2>5 DEF HoldEnds
  <2> QED  BY <1>2, <2>1, <2>2, <2>3, <2>4, <2>5 DEF Around
<1>3. ASSUME NEW w \in Workers, Acts(w) PROVE Typed'
  <2>1. job' \in [Workers -> JobType]  BY <1>3, JobsTyped
  <2>2. job[w] \in JobType /\ Sound(w)  OBVIOUS
  <2>3. CASE ReadToReconcile(w)
    <3>1. CASE RecordOutcome("rejected", engine.code)
      BY <2>1, <2>3, <3>1, RecordedRow DEF ReadToReconcile
    <3> QED  BY <2>1, <2>3, <3>1 DEF ReadToReconcile
  <2>4. CASE TryLockMatching(w) \/ Relook(w) \/ Search(w)
    BY <2>1, <2>2, <2>4 DEF TryLockMatching, Relook, Search, Sound, At
  <2>5. CASE SaveMatches(w)
    <3>1. match' \in [Checks -> MatchType]
      BY <2>5, KindTypes DEF SaveMatches, MatchType, Levels
    <3> QED  BY <2>1, <2>5, <3>1 DEF SaveMatches
  <2>6. CASE RecordReview(w)
    BY <2>1, <2>6, RecordedRow DEF RecordReview, Codes
  <2>7. CASE RejectIfPaused(w) \/ DeclineHeldErasure(w) \/ HandleErasure(w) \/ DecideReview(w)
    BY <2>1, <2>7 DEF RejectIfPaused, DeclineHeldErasure, HandleErasure, DecideReview
  <2>8. CASE LockReview(w)
    <3>1. CASE Desists(w)
      BY <2>1, <3>1, Returned DEF Desists
    <3>2. ASSUME NEW input \in InputType, Takes(w, input) PROVE Typed'
      BY <2>1, <3>2 DEF Takes, Matched
    <3> QED  BY <2>2, <2>8, <3>1, <3>2, LockShapes
  <2>9. CASE DecideInEngine(w)
    <3>1. engine' \in [status : {"approved", "needs_review", "rejected", "gone"}, code : Codes]
      BY <2>2, <2>9 DEF DecideInEngine, JobType, InputType
    <3> QED  BY <2>1, <2>9, <3>1 DEF DecideInEngine
  <2>10. CASE PurgeMatch(w)
    <3>1. CASE ToErase(w) # {}
      <4> DEFINE c == Min(ToErase(w))
      <4>1. check' = Purged(c) /\ erased' = erased \cup {c} /\ UNCHANGED <<job, matchLock, reviewLock>>
        BY <2>10, <3>1 DEF PurgeMatch
      <4>2. c \in Checks  BY <3>1, ErasedOne
      <4> HIDE DEF c
      <4>3. check' \in [Checks -> CheckType] /\ erased' \subseteq Checks  BY <4>1, <4>2, CheckTyped
      <4>4. UNCHANGED <<kind, req, engine, free, match, paused, item, ticked, pauses, faults>>
        BY <2>10 DEF PurgeMatch
      <4> QED  BY <2>1, <4>1, <4>3, <4>4
    <3>2. CASE ToErase(w) = {}
      <4>1. matchLock' \in Pollers \cup {Free} /\ reviewLock' \in Workers \cup {Free}
        BY <2>10, <3>2, Returned DEF PurgeMatch
      <4>2. UNCHANGED <<kind, req, engine, check, free, match, paused, item, erased, ticked, pauses, faults>>
        BY <2>10, <3>2 DEF PurgeMatch
      <4> QED  BY <2>1, <4>1, <4>2
    <3> QED  BY <3>1, <3>2
  <2>11. CASE RecordDecision(w)
    <3>1. match' \in [Checks -> MatchType]
      <4> DEFINE told == Matched \cap job[w].take
      <4>1. ASSUME NEW c \in Checks
            PROVE  [match[c] EXCEPT !.approved = c \in told] \in MatchType
        <5> HIDE DEF told
        <5>1. CASE c \in told
          <6>1. (c \in told) = TRUE  BY <5>1
          <6> QED  BY <6>1, MatchTypes
        <5>2. CASE c \notin told
          <6>1. (c \in told) = FALSE  BY <5>2
          <6> QED  BY <6>1, MatchTypes
        <5> QED  BY <5>1, <5>2
      <4> HIDE DEF told
      <4>2. match' = match \/ match' = [c \in Checks |-> [match[c] EXCEPT !.approved = c \in told]]
        BY <2>11 DEF RecordDecision, told
      <4> QED  BY <4>1, <4>2
    <3>2. matchLock' \in Pollers \cup {Free}
      BY <2>11, Returned DEF RecordDecision
    <3> QED  BY <2>1, <2>11, <3>1, <3>2 DEF RecordDecision
  <2>12. CASE RecordDecided(w)
    <3>1. req' \in ReqType
      BY <2>2, <2>12, RecordedRow DEF RecordDecided, JobType, InputType
    <3>2. matchLock' \in Pollers \cup {Free}
      BY <2>12, Returned DEF RecordDecided
    <3> QED  BY <2>1, <2>12, <3>1, <3>2 DEF RecordDecided
  <2>13. CASE PurgeOwn(w)
    BY <2>1, <2>13, PurgeTyped, Returned DEF PurgeOwn
  <2>14. CASE BeginPause(w) \/ ListOpenReviews(w) \/ RejectPendingItems(w) \/ SetPause(w) \/ Resume(w)
              \/ OpenItem(w) \/ RejectItemIfPaused(w) \/ BeginSweep(w) \/ ListPurgeDue(w)
    <3>1. CASE SetPause(w) \/ Resume(w)
      BY <2>1, <3>1 DEF SetPause, Resume
    <3>6. CASE BeginPause(w)
      BY <2>1, <3>6 DEF BeginPause
    <3>5. CASE ListOpenReviews(w)
      BY <2>1, <3>5 DEF ListOpenReviews
    <3>2. CASE RejectPendingItems(w)
      BY <2>1, <3>2 DEF RejectPendingItems
    <3>3. CASE OpenItem(w) \/ RejectItemIfPaused(w)
      BY <2>1, <3>3 DEF OpenItem, RejectItemIfPaused
    <3>4. CASE BeginSweep(w) \/ ListPurgeDue(w)
      BY <2>1, <3>4 DEF BeginSweep, ListPurgeDue
    <3> QED  BY <2>14, <3>1, <3>2, <3>3, <3>4, <3>5, <3>6
  <2>15. CASE LapseReview(w)
    <3>1. req' \in ReqType
      BY <2>15, RecordedRow DEF LapseReview, Codes
    <3> QED  BY <2>1, <2>15, <3>1 DEF LapseReview
  <2>16. CASE PurgeDue(w)
    BY <2>1, <2>16, PurgeTyped DEF PurgeDue
  <2>17. CASE Fails(w)
    BY <2>1, <2>17 DEF Fails, FreeMatchLock
  <2> QED  BY <1>3, <2>3, <2>4, <2>5, <2>6, <2>7, <2>8, <2>9, <2>10, <2>11, <2>12, <2>13, <2>14,
              <2>15, <2>16, <2>17 DEF Acts, GoOn, Begin
<1> QED  BY <1>1, <1>2, <1>3, Actors

LEMMA KindFixed ==
  ASSUME [Next]_vars
  PROVE  kind' = kind
<1> USE DEF orgVars, pauseVars, aroundVars
<1>1. CASE Around
  BY <1>1 DEF Around, ItemDecided, TermPasses, CheckDecided, CheckErased, HoldEnds
<1>2. ASSUME NEW w \in Workers, Acts(w) PROVE kind' = kind
  <2>1. CASE GoOn(w)
    BY <2>1 DEF GoOn, TryLockMatching, Relook, Search, SaveMatches, RecordReview, RejectIfPaused,
                DeclineHeldErasure, HandleErasure, DecideInEngine, PurgeMatch, RecordDecision,
                RecordDecided, PurgeOwn, ListOpenReviews, RejectPendingItems, SetPause,
                RejectItemIfPaused, ListPurgeDue, LapseReview, PurgeDue
  <2>2. CASE LockReview(w) \/ Begin(w) \/ Fails(w)
    BY <2>2 DEF LockReview, Begin, ReadToReconcile, DecideReview, BeginPause, Resume, OpenItem,
                BeginSweep, Fails
  <2> QED  BY <1>2, <2>1, <2>2 DEF Acts
<1> QED  BY <1>1, <1>2, Actors DEF vars

LEMMA AroundLeaves ==
  ASSUME Around \/ UNCHANGED vars
  PROVE  job' = job /\ UNCHANGED <<matchLock, reviewLock, paused, faults, engine, match, erased, ticked>>
BY DEF Around, ItemDecided, TermPasses, CheckDecided, CheckErased, HoldEnds, aroundVars, pauseVars,
       history, vars

(* A call's record stays sound.                                            *)
LEMMA ActSound ==
  ASSUME Typed, NEW w \in Workers, Sound(w), Acts(w), kind' = kind
  PROVE  Sound(w)'
<1> USE DEF At, Go, Done
<1>1. job \in [Workers -> JobType] /\ job[w] \in JobType  BY DEF Typed
<1>i. /\ Idle.pc = "idle" /\ Idle.back = "idle"
      /\ \A p : LET r == [Idle EXCEPT !.pc = p]
                IN  r.pc = p /\ r.back = "idle"
  BY DEF Idle
<1>m. ASSUME NEW p, Go(w, p)
      PROVE  /\ job'[w].pc = p /\ job'[w].back = job[w].back /\ job'[w].saw = job[w].saw
             /\ job'[w].why = job[w].why /\ job'[w].input = job[w].input
  BY <1>1, <1>m DEF JobType
<1>s. ASSUME job'[w].pc \in Places \ (Deciding \cup {"lock_match", "relook", "lock", "idle"}),
             job'[w].back # "second_items", w \in kind.crew
      PROVE  Sound(w)'
  BY <1>s DEF Sound, Deciding, JobType
<1>d. ASSUME job'[w].pc = "idle" /\ job'[w].back = "idle"
      PROVE  Sound(w)'
  BY <1>d DEF Sound, Deciding, JobType
<1>e. ASSUME Done(w) PROVE Sound(w)'
  BY <1>1, <1>d, <1>e, <1>i
<1>r. ASSUME NEW f \in BOOLEAN, Return(w, f), w \in kind.crew PROVE Sound(w)'
  <2>1. job'[w].pc = job[w].back /\ job'[w].back = "idle"  BY <1>r, Returned
  <2>2. CASE job[w].back = "idle"  BY <1>d, <2>1, <2>2
  <2>3. CASE job[w].back # "idle"
    BY <1>1, <1>r, <1>s, <2>1, <2>3 DEF JobType, Settling, Passes, Deciding, Places, Locked
  <2> QED  BY <2>2, <2>3
<1>7. CASE ReadToReconcile(w)
  BY <1>1, <1>7 DEF ReadToReconcile, Sound, Deciding, JobType
<1>8. CASE TryLockMatching(w) \/ Relook(w)
  BY <1>1, <1>e, <1>8 DEF TryLockMatching, Relook, Sound, Deciding, JobType
<1>9. CASE SaveMatches(w) \/ RecordReview(w) \/ Search(w)
  BY <1>1, <1>9 DEF SaveMatches, RecordReview, Search, Sound, Deciding, JobType
<1>10. CASE RejectIfPaused(w) \/ DeclineHeldErasure(w) \/ DecideReview(w)
  BY <1>1, <1>10 DEF RejectIfPaused, DeclineHeldErasure, DecideReview, Sound, Deciding, JobType
<1>11. CASE HandleErasure(w)
  BY <1>1, <1>e, <1>11 DEF HandleErasure, Sound, Deciding, JobType
<1>12. CASE LockReview(w)
  <2>1. CASE Desists(w)
    BY <1>r, <2>1 DEF Desists
  <2>2. ASSUME NEW input \in InputType, Takes(w, input) PROVE Sound(w)'
    BY <1>1, <2>2 DEF Takes, Sound, Deciding, JobType
  <2> QED  BY <1>12, <2>1, <2>2, LockShapes
<1>13. CASE DecideInEngine(w)
  BY <1>1, <1>13 DEF DecideInEngine, Sound, Deciding, JobType
<1>14. CASE PurgeMatch(w)
  <2>1. CASE ToErase(w) # {}
    BY <1>14, <2>1 DEF PurgeMatch, Sound
  <2>2. CASE ToErase(w) = {} /\ job[w].input.partial
    BY <1>14, <1>r, <2>2 DEF PurgeMatch
  <2>3. CASE ToErase(w) = {} /\ ~job[w].input.partial
    BY <1>1, <1>14, <2>3 DEF PurgeMatch, Sound, Deciding, JobType
  <2> QED  BY <2>1, <2>2, <2>3
<1>15. CASE RecordDecision(w)
  <2>1. CASE req.purged
    BY <1>15, <1>r, <2>1 DEF RecordDecision
  <2>2. CASE ~req.purged
    BY <1>1, <1>15, <2>2 DEF RecordDecision, Sound, Deciding, JobType
  <2> QED  BY <2>1, <2>2
<1>16. CASE RecordDecided(w)
  <2>1. CASE job[w].input.approve /\ kind.erasure
    BY <1>1, <1>16, <2>1 DEF RecordDecided, Sound, Deciding, JobType
  <2>2. CASE ~(job[w].input.approve /\ kind.erasure)
    BY <1>16, <1>r, <2>2 DEF RecordDecided
  <2> QED  BY <2>1, <2>2
<1>17. CASE PurgeOwn(w)
  BY <1>17, <1>r DEF PurgeOwn
<1>18. CASE BeginPause(w) \/ SetPause(w) \/ Resume(w) \/ OpenItem(w)
  BY <1>1, <1>18 DEF BeginPause, SetPause, Resume, OpenItem, Sound, Deciding, JobType
<1>19. CASE RejectItemIfPaused(w) \/ BeginSweep(w) \/ LapseReview(w) \/ PurgeDue(w)
  BY <1>1, <1>e, <1>19 DEF RejectItemIfPaused, BeginSweep, LapseReview, PurgeDue, Sound, Deciding, JobType
<1>20. CASE ListOpenReviews(w)
  <2> DEFINE a == AfterPass(job[w].pc)
  <2>1. a \in Passes
    BY <1>20 DEF ListOpenReviews, AfterPass, Passes
  <2>2. job' = [job EXCEPT ![w].pc = IF OpenReview THEN "lock" ELSE a,
                           ![w].why = "pause", ![w].back = a]
    BY <1>20 DEF ListOpenReviews
  <2> HIDE DEF a
  <2>3. /\ job'[w].pc = (IF OpenReview THEN "lock" ELSE a)
        /\ job'[w].why = "pause" /\ job'[w].back = a
    BY <1>1, <2>2 DEF JobType
  <2>4. w \in kind.crew  BY <1>20 DEF ListOpenReviews
  <2> QED  BY <2>1, <2>3, <2>4 DEF Sound, Passes, Deciding
<1>21. CASE RejectPendingItems(w)
  <2>1. CASE At(w, "first_items")
    BY <1>1, <1>21, <2>1 DEF RejectPendingItems, Sound, Deciding, JobType
  <2>2. CASE At(w, "second_items")
    BY <1>21, <1>e, <2>2 DEF RejectPendingItems
  <2>3. CASE At(w, "sweep_items")
    <3> DEFINE r == [Idle EXCEPT !.pc = "list_due"]
    <3>1. job' = [job EXCEPT ![w] = r]  BY <1>21, <2>3 DEF RejectPendingItems
    <3>2. r.pc = "list_due" /\ r.back = "idle"  BY <1>i
    <3> HIDE DEF r
    <3>3. job'[w].pc = "list_due" /\ job'[w].back = "idle"  BY <1>1, <3>1, <3>2
    <3>4. "list_due" \in Places \ (Deciding \cup {"lock_match", "relook", "lock", "idle"})
      BY DEF Deciding, Places, Sweeping
    <3> QED  BY <1>s, <2>3, <3>3, <3>4
  <2> QED  BY <1>21, <2>1, <2>2, <2>3 DEF RejectPendingItems
<1>22. CASE ListPurgeDue(w)
  <2> DEFINE r == [Idle EXCEPT !.pc = "lapse", !.saw = req.status]
  <2>1. r.pc = "lapse" /\ r.back = "idle"  BY DEF Idle
  <2>2. Done(w) \/ job' = [job EXCEPT ![w] = r]  BY <1>22 DEF ListPurgeDue
  <2> HIDE DEF r
  <2> QED  BY <1>1, <1>e, <1>s, <1>22, <2>1, <2>2 DEF ListPurgeDue, Deciding, Places, Sweeping
<1>23. CASE Fails(w)
  <2> DEFINE r == [Idle EXCEPT !.pc = job[w].back, !.failed = TRUE]
  <2>1. Done(w) \/ (job' = [job EXCEPT ![w] = r] /\ job[w].back \in Passes)
    BY <1>23 DEF Fails, Passes
  <2>2. r.pc = job[w].back /\ r.back = "idle"  BY DEF Idle
  <2> HIDE DEF r
  <2> QED  BY <1>1, <1>e, <1>s, <1>23, <2>1, <2>2 DEF Fails, Deciding, Places, Passes
<1> QED  BY <1>7, <1>8, <1>9, <1>10, <1>11, <1>12, <1>13, <1>14, <1>15, <1>16, <1>17, <1>18,
            <1>19, <1>20, <1>21, <1>22, <1>23 DEF Acts, GoOn, Begin

LEMMA SoundKept ==
  ASSUME Typed, \A w \in Workers : Sound(w), [Next]_vars
  PROVE  (\A w \in Workers : Sound(w))'
<1>1. kind' = kind  BY KindFixed
<1>2. SUFFICES ASSUME NEW u \in Workers PROVE Sound(u)'
  BY <1>1 DEF Workers
<1>3. ASSUME job'[u] = job[u] PROVE Sound(u)'
  BY <1>1, <1>3 DEF Sound
<1>4. ASSUME NEW w \in Workers, Acts(w) PROVE Sound(u)'
  BY <1>1, <1>3, <1>4, ActSound, JobsTyped DEF Only
<1> QED  BY <1>3, <1>4, Actors, AroundLeaves

----------------------------------------------------------------------------
(* Most steps write no row and decide nothing.                             *)

Walks(w) ==
  /\ Acts(w) /\ ~Rules(w) /\ ~Rules(w)'
  /\ UNCHANGED <<kind, req, engine, check, free, match, reviewLock, erased, ticked>>
  /\ faults' >= faults

Rejects(w) == ReadToReconcile(w) /\ RecordOutcome("rejected", engine.code) /\ UNCHANGED job
               /\ engine.status = "rejected"
Drops(w)   == Fails(w) /\ Rules(w)

Writes(w) ==
  \/ Rejects(w) \/ SaveMatches(w) \/ RecordReview(w)
  \/ (LockReview(w) /\ \E input \in InputType : Takes(w, input))
  \/ DecideInEngine(w) \/ PurgeMatch(w) \/ RecordDecision(w) \/ RecordDecided(w) \/ PurgeOwn(w)
  \/ LapseReview(w) \/ PurgeDue(w) \/ Drops(w)

LEMMA Shapes ==
  ASSUME Typed, NEW w \in Workers, Sound(w), LocksHeld, Acts(w)
  PROVE  Walks(w) \/ Writes(w)
<1> USE DEF At, Go, Done, Rules, orgVars, pauseVars, history
<1>1. job \in [Workers -> JobType] /\ job[w] \in JobType /\ Free \notin Workers
  BY DataAssumption DEF Typed
<1>2. Idle.pc \notin Deciding /\ \A p : [Idle EXCEPT !.pc = p].pc = p
      /\ [Idle EXCEPT !.pc = "lapse", !.saw = req.status].pc = "lapse"
  BY DEF Idle, Deciding
<1>3. faults \in Nat  BY DEF Typed
<1>4. CASE ReadToReconcile(w)
  BY <1>1, <1>3, <1>4 DEF ReadToReconcile, Deciding, JobType, Walks, Writes, Rejects, Acts, Begin
<1>5. CASE TryLockMatching(w)
  BY <1>1, <1>2, <1>3, <1>5 DEF TryLockMatching, Deciding, JobType, Walks, Acts, GoOn
<1>6. CASE Relook(w)
  BY <1>1, <1>2, <1>3, <1>6 DEF Relook, Deciding, JobType, Walks, Acts, GoOn
<1>7. CASE Search(w)
  BY <1>1, <1>2, <1>3, <1>7 DEF Search, Deciding, JobType, Walks, Acts, GoOn
<1>8. CASE RejectIfPaused(w)
  BY <1>1, <1>2, <1>3, <1>8 DEF RejectIfPaused, Deciding, JobType, Walks, Acts, GoOn
<1>9. CASE DeclineHeldErasure(w)
  BY <1>1, <1>2, <1>3, <1>9 DEF DeclineHeldErasure, Deciding, JobType, Walks, Acts, GoOn
<1>10. CASE HandleErasure(w)
  BY <1>1, <1>2, <1>3, <1>10 DEF HandleErasure, Deciding, JobType, Walks, Acts, GoOn
<1>11. CASE DecideReview(w)
  BY <1>1, <1>2, <1>3, <1>11 DEF DecideReview, Deciding, JobType, Walks, Acts, Begin
<1>12. CASE LockReview(w)
  <2>1. CASE Desists(w)
    <3>1. job'[w].pc \notin Deciding
      BY <1>1, <2>1, Returned DEF Desists, JobType, Settling, Passes, Deciding
    <3> QED  BY <1>1, <1>3, <1>12, <2>1, <3>1 DEF Desists, Walks, Acts, Deciding
  <2> QED  BY <1>12, <2>1, LockShapes DEF Writes
<1>13. CASE BeginPause(w) \/ SetPause(w) \/ Resume(w) \/ OpenItem(w)
  BY <1>1, <1>2, <1>3, <1>13 DEF BeginPause, SetPause, Resume, OpenItem, Deciding, JobType, Walks, Acts,
                                 GoOn, Begin
<1>14. CASE RejectItemIfPaused(w) \/ BeginSweep(w)
  BY <1>1, <1>2, <1>3, <1>14 DEF RejectItemIfPaused, BeginSweep, Deciding, JobType, Walks, Acts,
                                 GoOn, Begin
<1>15. CASE ListOpenReviews(w)
  <2>1. job'[w].pc = (IF OpenReview THEN "lock" ELSE AfterPass(job[w].pc))
    BY <1>1, <1>15 DEF ListOpenReviews, JobType
  <2>2. AfterPass(job[w].pc) \in Passes /\ ~Rules(w)
    BY <1>15 DEF ListOpenReviews, AfterPass, Passes, Deciding
  <2>3. ~Rules(w)'  BY <2>1, <2>2 DEF Passes, Deciding
  <2> QED  BY <1>3, <1>15, <2>2, <2>3 DEF ListOpenReviews, Walks, Acts, GoOn
<1>16. CASE RejectPendingItems(w)
  <2> DEFINE r == [Idle EXCEPT !.pc = "list_due"]
  <2>1. r.pc = "list_due"  BY DEF Idle
  <2>2. \/ job' = [job EXCEPT ![w].pc = IF job[w].failed THEN "idle" ELSE "set",
                              ![w].back = "idle", ![w].failed = FALSE]
        \/ Done(w) \/ job' = [job EXCEPT ![w] = r]
    BY <1>16 DEF RejectPendingItems
  <2>3. ~Rules(w)  BY <1>16 DEF RejectPendingItems, Deciding
  <2> HIDE DEF r
  <2>4. ~Rules(w)'  BY <1>1, <1>2, <2>1, <2>2 DEF Deciding, JobType
  <2> QED  BY <1>3, <1>16, <2>3, <2>4 DEF RejectPendingItems, Walks, Acts, GoOn
<1>17. CASE ListPurgeDue(w)
  <2> DEFINE r == [Idle EXCEPT !.pc = "lapse", !.saw = req.status]
  <2>1. r.pc = "lapse"  BY DEF Idle
  <2>2. Done(w) \/ job' = [job EXCEPT ![w] = r]  BY <1>17 DEF ListPurgeDue
  <2>3. ~Rules(w)  BY <1>17 DEF ListPurgeDue, Deciding
  <2> HIDE DEF r
  <2>4. ~Rules(w)'  BY <1>1, <1>2, <2>1, <2>2 DEF Deciding
  <2> QED  BY <1>3, <1>17, <2>3, <2>4 DEF ListPurgeDue, Walks, Acts, GoOn
<1>18. CASE Fails(w)
  <2>1. CASE ~Rules(w)
    <3>1. reviewLock # w  BY <2>1 DEF LocksHeld
    <3>2. job'[w].pc \notin Deciding
      <4> DEFINE r == [Idle EXCEPT !.pc = job[w].back, !.failed = TRUE]
      <4>1. Done(w) \/ (job' = [job EXCEPT ![w] = r] /\ job[w].back \in Passes)
        BY <1>18 DEF Fails, Passes
      <4>2. r.pc = job[w].back  BY DEF Idle
      <4> HIDE DEF r
      <4> QED  BY <1>1, <1>2, <4>1, <4>2 DEF Passes, Deciding
    <3> QED  BY <1>3, <1>18, <2>1, <3>1, <3>2 DEF Fails, Walks, Acts
  <2> QED  BY <1>18, <2>1 DEF Writes, Drops
<1> QED  BY <1>4, <1>5, <1>6, <1>7, <1>8, <1>9, <1>10, <1>11, <1>12, <1>13, <1>14, <1>15, <1>16,
            <1>17, <1>18 DEF Acts, GoOn, Begin, Writes

----------------------------------------------------------------------------
(* The locks.                                                              *)

ReviewMoves(w) ==
  \/ reviewLock' = reviewLock /\ (Rules(w)' <=> Rules(w))
  \/ reviewLock = Free /\ reviewLock' = w /\ Rules(w)'
  \/ reviewLock = w /\ reviewLock' = Free /\ ~Rules(w)'

LEMMA RuleMoves ==
  ASSUME Typed, NEW w \in Workers, Sound(w), LocksHeld, Writes(w)
  PROVE  ReviewMoves(w)
<1> USE DEF At, Go, Done, Rules
<1>1. job \in [Workers -> JobType] /\ job[w] \in JobType /\ Free \notin Workers
  BY DataAssumption DEF Typed
<1>2. Idle.pc \notin Deciding  BY DEF Idle, Deciding
<1>l. Rules(w) => reviewLock = w  BY DEF LocksHeld
<1>r. ASSUME NEW f \in BOOLEAN, Return(w, f) PROVE job'[w].pc \notin Deciding
  BY <1>1, <1>r, Returned DEF JobType, Settling, Passes, Deciding
<1>3. CASE Rejects(w)
  BY <1>3 DEF Rejects, ReadToReconcile, ReviewMoves
<1>4. CASE SaveMatches(w) \/ RecordReview(w)
  BY <1>1, <1>4 DEF SaveMatches, RecordReview, ReviewMoves, Deciding, JobType
<1>5. ASSUME NEW input \in InputType, Takes(w, input) PROVE ReviewMoves(w)
  BY <1>1, <1>5 DEF Takes, ReviewMoves, Deciding, JobType
<1>6. CASE DecideInEngine(w)
  BY <1>1, <1>6 DEF DecideInEngine, ReviewMoves, Deciding, JobType
<1>7. CASE PurgeMatch(w)
  <2>1. CASE ToErase(w) = {} /\ job[w].input.partial
    BY <1>1, <1>l, <1>r, <1>7, <2>1 DEF PurgeMatch, ReviewMoves, Deciding
  <2>2. CASE ToErase(w) # {}
    BY <1>7, <2>2 DEF PurgeMatch, ReviewMoves, Deciding
  <2>3. CASE ToErase(w) = {} /\ ~job[w].input.partial
    BY <1>1, <1>7, <2>3 DEF PurgeMatch, ReviewMoves, Deciding, JobType
  <2> QED  BY <2>1, <2>2, <2>3
<1>8. CASE RecordDecision(w)
  <2>1. CASE req.purged
    BY <1>1, <1>l, <1>r, <1>8, <2>1 DEF RecordDecision, ReviewMoves, Deciding
  <2>2. CASE ~req.purged
    BY <1>1, <1>8, <2>2 DEF RecordDecision, ReviewMoves, Deciding, JobType
  <2> QED  BY <2>1, <2>2
<1>9. CASE RecordDecided(w)
  <2>1. CASE ~(job[w].input.approve /\ kind.erasure)
    BY <1>1, <1>l, <1>r, <1>9, <2>1 DEF RecordDecided, ReviewMoves, Deciding
  <2>2. CASE job[w].input.approve /\ kind.erasure
    BY <1>1, <1>9, <2>2 DEF RecordDecided, ReviewMoves, Deciding, JobType
  <2> QED  BY <2>1, <2>2
<1>10. CASE PurgeOwn(w)
  BY <1>1, <1>l, <1>r, <1>10 DEF PurgeOwn, ReviewMoves, Deciding
<1>11. CASE LapseReview(w) \/ PurgeDue(w)
  BY <1>1, <1>2, <1>11 DEF LapseReview, PurgeDue, ReviewMoves, Deciding, JobType
<1>12. CASE Drops(w)
  <2> DEFINE r == [Idle EXCEPT !.pc = job[w].back, !.failed = TRUE]
  <2>1. Done(w) \/ (job' = [job EXCEPT ![w] = r] /\ job[w].back \in Passes)
    BY <1>12 DEF Drops, Fails, Passes
  <2>2. r.pc = job[w].back  BY DEF Idle
  <2>3. reviewLock = w /\ reviewLock' = Free  BY <1>l, <1>12 DEF Drops, Fails
  <2> HIDE DEF r
  <2> QED  BY <1>1, <1>2, <2>1, <2>2, <2>3 DEF Passes, Deciding, ReviewMoves
<1> QED  BY <1>3, <1>4, <1>5, <1>6, <1>7, <1>8, <1>9, <1>10, <1>11, <1>12 DEF Writes

(* Only the call itself, or the holder of the review lock, stops deciding. *)
LEMMA RulesStay ==
  ASSUME Typed, NEW w \in Workers, Sound(w), LocksHeld, Acts(w)
  PROVE  /\ ReviewMoves(w)
         /\ \A u \in Workers \ {w} : job'[u] = job[u] /\ (Rules(u)' <=> Rules(u))
         /\ \A u \in Workers : Rules(u) => reviewLock = u
         /\ Rules(w) => \A u \in Workers \ {w} : ~Rules(u)
<1>1. ReviewMoves(w)
  BY Shapes, RuleMoves DEF Walks, ReviewMoves
<1>2. \A u \in Workers \ {w} : job'[u] = job[u]
  BY JobsTyped DEF Only
<1> QED  BY <1>1, <1>2 DEF Rules, LocksHeld

MatchMoves(w) ==
  \/ matchLock' = matchLock /\ (Searches(w)' => Searches(w))
  \/ matchLock = Free /\ matchLock' = w
  \/ /\ matchLock' = matchLock \/ (matchLock = w /\ matchLock' = Free)
     /\ ~Searches(w)'

LEMMA SearchMoves ==
  ASSUME Typed, NEW w \in Workers, Sound(w), LocksHeld, Acts(w)
  PROVE  MatchMoves(w)
<1> USE DEF At, Go, Done, Searches
<1>1. job \in [Workers -> JobType] /\ job[w] \in JobType /\ Free \notin Workers
  BY DataAssumption DEF Typed
<1>l. Searches(w) => matchLock = w  BY DEF LocksHeld
<1>d. ASSUME Done(w) PROVE ~Searches(w)'
  BY <1>1, <1>d DEF Idle, Locked, Settling
<1>q. ASSUME job'[w].pc \notin Locked, job'[w].back \notin Settling, job'[w].why # "auto"
      PROVE  ~Searches(w)'
  BY <1>q
<1>n. ASSUME job'[w].pc \notin Locked \cup Deciding \cup {"lock"}, job'[w].back \notin Settling
      PROVE  ~Searches(w)'
  BY <1>n
<1>r. ASSUME NEW f \in BOOLEAN, Return(w, f) PROVE MatchMoves(w)
  <2>1. /\ job'[w].pc = job[w].back /\ job'[w].back = "idle" /\ job'[w].why = "none"
        /\ matchLock' = IF job[w].back = "idle" /\ matchLock = w THEN Free ELSE matchLock
    BY <1>r, Returned
  <2>2. CASE job[w].back \in Settling
    BY <2>1, <2>2 DEF MatchMoves, Settling, Locked
  <2>3. CASE job[w].back \notin Settling
    BY <1>1, <2>1, <2>3 DEF MatchMoves, Settling, Locked, JobType, Passes
  <2> QED  BY <2>2, <2>3
<1>3. CASE ReadToReconcile(w)
  BY <1>1, <1>3 DEF ReadToReconcile, JobType, MatchMoves, Locked, Settling, Sound, Deciding
<1>4. CASE TryLockMatching(w)
  BY <1>d, <1>4 DEF TryLockMatching, MatchMoves
<1>5. CASE Relook(w)
  BY <1>1, <1>d, <1>l, <1>5 DEF Relook, MatchMoves, JobType, Locked
<1>6. CASE Search(w) \/ SaveMatches(w) \/ RecordReview(w) \/ RejectIfPaused(w) \/ DeclineHeldErasure(w)
  BY <1>1, <1>6 DEF Search, SaveMatches, RecordReview, RejectIfPaused, DeclineHeldErasure,
                    MatchMoves, JobType, Locked
<1>7. CASE HandleErasure(w)
  BY <1>1, <1>d, <1>l, <1>7 DEF HandleErasure, MatchMoves, JobType, Locked
<1>8. CASE LockReview(w)
  <2>1. CASE Desists(w)
    BY <1>r, <2>1 DEF Desists
  <2>2. ASSUME NEW input \in InputType, Takes(w, input) PROVE MatchMoves(w)
    <3>1. job'[w].why = job[w].why /\ job'[w].back = job[w].back /\ job[w].pc = "lock"
          /\ job'[w].pc \in {"erase", "decide_engine"} /\ matchLock' = matchLock
      BY <1>1, <2>2 DEF Takes, JobType
    <3> QED  BY <3>1 DEF MatchMoves, Deciding, Locked
  <2> QED  BY <1>8, <2>1, <2>2, LockShapes
<1>9. CASE DecideInEngine(w)
  BY <1>1, <1>9 DEF DecideInEngine, MatchMoves, JobType, Deciding, Locked
<1>10. CASE PurgeMatch(w)
  <2>1. CASE ToErase(w) = {} /\ job[w].input.partial
    BY <1>10, <1>r, <2>1 DEF PurgeMatch
  <2>2. CASE ToErase(w) # {}
    BY <1>10, <2>2 DEF PurgeMatch, MatchMoves
  <2>3. CASE ToErase(w) = {} /\ ~job[w].input.partial
    BY <1>1, <1>10, <2>3 DEF PurgeMatch, MatchMoves, JobType, Deciding, Locked
  <2> QED  BY <2>1, <2>2, <2>3
<1>11. CASE RecordDecision(w)
  <2>1. CASE req.purged
    BY <1>11, <1>r, <2>1 DEF RecordDecision
  <2>2. CASE ~req.purged
    BY <1>1, <1>11, <2>2 DEF RecordDecision, MatchMoves, JobType, Deciding, Locked
  <2> QED  BY <2>1, <2>2
<1>12. CASE RecordDecided(w)
  <2>1. CASE ~(job[w].input.approve /\ kind.erasure)
    BY <1>12, <1>r, <2>1 DEF RecordDecided
  <2>2. CASE job[w].input.approve /\ kind.erasure
    BY <1>1, <1>12, <2>2 DEF RecordDecided, MatchMoves, JobType, Deciding, Locked
  <2> QED  BY <2>1, <2>2
<1>13. CASE PurgeOwn(w)
  BY <1>13, <1>r DEF PurgeOwn
<1>14. CASE DecideReview(w) \/ BeginPause(w) \/ OpenItem(w) \/ BeginSweep(w) \/ Resume(w)
  <2>1. matchLock' = matchLock  BY <1>14 DEF DecideReview, BeginPause, OpenItem, BeginSweep, Resume, pauseVars
  <2>2. CASE DecideReview(w)
    <3>1. job'[w].pc = "lock" /\ job'[w].why = "review" /\ job'[w].back = job[w].back /\ job[w].pc = "idle"
      BY <1>1, <2>2 DEF DecideReview, JobType
    <3> QED  BY <2>1, <3>1 DEF MatchMoves, Locked, Sound, Settling
  <2>3. CASE BeginPause(w) \/ OpenItem(w) \/ BeginSweep(w)
    <3>1. job'[w].pc \in {"first_pass", "item_pause", "sweep", "list_due"} /\ job'[w].back = job[w].back
      BY <1>1, <2>3 DEF BeginPause, OpenItem, BeginSweep, JobType
    <3> QED  BY <2>1, <3>1 DEF MatchMoves, Locked, Deciding
  <2>4. CASE Resume(w)
    BY <2>1, <2>4 DEF Resume, MatchMoves
  <2> QED  BY <1>14, <2>2, <2>3, <2>4
<1>15. CASE SetPause(w) \/ LapseReview(w) \/ PurgeDue(w) \/ RejectItemIfPaused(w)
  <2>1. matchLock' = matchLock
    BY <1>15 DEF SetPause, LapseReview, PurgeDue, RejectItemIfPaused, pauseVars
  <2>2. \/ Done(w)
        \/ job'[w].pc \in {"second_pass", "purge_due", "item_reject"} /\ job'[w].back = job[w].back
    BY <1>1, <1>15 DEF SetPause, LapseReview, PurgeDue, RejectItemIfPaused, JobType
  <2> QED  BY <1>d, <2>1, <2>2 DEF MatchMoves, Locked, Deciding
<1>16. CASE ListOpenReviews(w)
  <2> DEFINE a == AfterPass(job[w].pc)
  <2>1. a \in Passes /\ matchLock' = matchLock
    BY <1>16 DEF ListOpenReviews, AfterPass, Passes, pauseVars
  <2>2. job' = [job EXCEPT ![w].pc = IF OpenReview THEN "lock" ELSE a,
                           ![w].why = "pause", ![w].back = a]
    BY <1>16 DEF ListOpenReviews
  <2> HIDE DEF a
  <2>3. job'[w].pc = (IF OpenReview THEN "lock" ELSE a) /\ job'[w].why = "pause" /\ job'[w].back = a
    BY <1>1, <2>2 DEF JobType
  <2> QED  BY <1>q, <2>1, <2>3 DEF MatchMoves, Passes, Settling, Locked
<1>17. CASE RejectPendingItems(w) \/ ListPurgeDue(w)
  <2> DEFINE r == [Idle EXCEPT !.pc = "list_due"]
             q == [Idle EXCEPT !.pc = "lapse", !.saw = req.status]
  <2>1. r.pc = "list_due" /\ q.pc = "lapse" /\ r.back = "idle" /\ q.back = "idle"  BY DEF Idle
  <2>2. \/ job' = [job EXCEPT ![w].pc = IF job[w].failed THEN "idle" ELSE "set",
                              ![w].back = "idle", ![w].failed = FALSE]
        \/ Done(w) \/ job' = [job EXCEPT ![w] = r] \/ job' = [job EXCEPT ![w] = q]
    BY <1>17 DEF RejectPendingItems, ListPurgeDue
  <2>3. matchLock' = matchLock  BY <1>17 DEF RejectPendingItems, ListPurgeDue, pauseVars
  <2> HIDE DEF r, q
  <2>4. Done(w) \/ (job'[w].pc \in {"list_due", "lapse", "idle", "set"} /\ job'[w].back = "idle")
    BY <1>1, <2>1, <2>2 DEF JobType
  <2> QED  BY <1>d, <2>3, <2>4 DEF MatchMoves, Locked, Deciding, Settling
<1>18. CASE Fails(w)
  <2> DEFINE r == [Idle EXCEPT !.pc = job[w].back, !.failed = TRUE]
  <2>1. Done(w) \/ (job' = [job EXCEPT ![w] = r] /\ job[w].back \in Passes)
    BY <1>18 DEF Fails, Passes
  <2>2. r.pc = job[w].back /\ r.back = "idle"  BY DEF Idle
  <2>3. matchLock' = IF matchLock = w THEN Free ELSE matchLock  BY <1>18 DEF Fails, FreeMatchLock
  <2> HIDE DEF r
  <2>4. Done(w) \/ (job'[w].pc \in Passes /\ job'[w].back = "idle")  BY <1>1, <2>1, <2>2
  <2> QED  BY <1>d, <2>3, <2>4 DEF MatchMoves, Locked, Deciding, Settling, Passes
<1> QED  BY <1>3, <1>4, <1>5, <1>6, <1>7, <1>8, <1>9, <1>10, <1>11, <1>12, <1>13, <1>14, <1>15,
            <1>16, <1>17, <1>18 DEF Acts, GoOn, Begin

LEMMA LocksKept ==
  ASSUME Typed, \A w \in Workers : Sound(w), LocksHeld, [Next]_vars
  PROVE  LocksHeld'
<1>1. Free \notin Workers  BY DataAssumption
<1>2. CASE Around \/ UNCHANGED vars
  BY <1>2, AroundLeaves DEF LocksHeld, Rules, Searches
<1>3. ASSUME NEW w \in Workers, Acts(w) PROVE LocksHeld'
  <2>1. ReviewMoves(w) /\ MatchMoves(w) /\ \A u \in Workers \ {w} : job'[u] = job[u]
    BY <1>3, RulesStay, SearchMoves
  <2>2. \A u \in Workers \ {w} : (Rules(u)' <=> Rules(u)) /\ (Searches(u)' <=> Searches(u))
    BY <2>1 DEF Rules, Searches
  <2>3. \A u \in Workers : Rules(u)' <=> reviewLock' = u
    BY <1>1, <2>1, <2>2 DEF LocksHeld, ReviewMoves
  <2>4. \A u \in Workers : Searches(u)' => matchLock' = u
    BY <1>1, <2>1, <2>2 DEF LocksHeld, MatchMoves
  <2> QED  BY <2>3, <2>4 DEF LocksHeld, Workers
<1> QED  BY <1>2, <1>3, Actors

----------------------------------------------------------------------------
(* The request's row.                                                      *)

(* Where a call comes from when it gets to a place that matters here.      *)
Arrives(w) ==
  /\ job'[w].pc = "lapse" => job[w].pc = "lapse" \/ PurgeTime
  /\ job'[w].pc = "purge_due" => job[w].pc \in {"lapse", "purge_due"}
  /\ job'[w].pc \in Searching =>
       job[w].pc \in Searching \/ (job[w].pc = "relook" /\ req.status = "in_progress")
  /\ Unsettled(w)' => Unsettled(w) \/ (job[w].pc = "relook" /\ req.status = "in_progress")

LEMMA Arrivals ==
  ASSUME Typed, NEW w \in Workers, Sound(w), Acts(w)
  PROVE  Arrives(w)
<1> USE DEF At, Go, Done, Unsettled
<1>1. job \in [Workers -> JobType] /\ job[w] \in JobType  BY DEF Typed
<1>d. ASSUME Done(w) PROVE Arrives(w)
  BY <1>1, <1>d DEF Arrives, Idle, Locked, Settling, Searching
<1>n. ASSUME job'[w].pc \notin Locked \cup {"lapse", "purge_due"},
             job'[w].back \in Settling => job[w].back \in Settling
      PROVE  Arrives(w)
  BY <1>n DEF Arrives, Locked, Searching
<1>g. ASSUME NEW p \in Places \ (Locked \cup {"lapse", "purge_due"}), Go(w, p) PROVE Arrives(w)
  BY <1>1, <1>g, <1>n DEF JobType
<1>r. ASSUME NEW f \in BOOLEAN, Return(w, f) PROVE Arrives(w)
  <2>1. job'[w].pc = job[w].back /\ job'[w].back = "idle"  BY <1>r, Returned
  <2> QED  BY <1>1, <2>1 DEF Arrives, JobType, Settling, Passes, Locked, Searching
<1>3. CASE ReadToReconcile(w)
  <2>1. CASE UNCHANGED job
    BY <2>1 DEF Arrives
  <2>2. CASE job' = [job EXCEPT ![w].pc = "lock_match", ![w].saw = req.status]
    BY <1>1, <1>n, <2>2 DEF JobType, Locked
  <2> QED  BY <1>3, <2>1, <2>2 DEF ReadToReconcile
<1>4. CASE TryLockMatching(w)
  BY <1>1, <1>d, <1>4 DEF TryLockMatching, Arrives, JobType, Searching, Settling
<1>5. CASE Relook(w)
  <2>1. CASE SameAsRead(w)
    <3>1. req.status = "in_progress" /\ job[w].pc = "relook" /\ job'[w].pc = "search"
      BY <1>1, <1>5, <2>1 DEF Relook, SameAsRead, Sound, JobType
    <3> QED  BY <3>1 DEF Arrives
  <2>2. CASE ~SameAsRead(w)
    BY <1>5, <1>d, <2>2 DEF Relook
  <2> QED  BY <2>1, <2>2
<1>6. CASE Search(w) \/ SaveMatches(w) \/ RecordReview(w)
  BY <1>1, <1>6 DEF Search, SaveMatches, RecordReview, Arrives, JobType, Locked, Searching
<1>7. CASE RejectIfPaused(w) \/ DeclineHeldErasure(w)
  BY <1>1, <1>7 DEF RejectIfPaused, DeclineHeldErasure, Arrives, JobType, Locked, Searching
<1>8. CASE HandleErasure(w)
  BY <1>1, <1>d, <1>8 DEF HandleErasure, Arrives, JobType, Locked, Searching
<1>9. CASE LockReview(w)
  <2>1. CASE Desists(w)
    BY <1>r, <2>1 DEF Desists
  <2>2. ASSUME NEW input \in InputType, Takes(w, input) PROVE Arrives(w)
    <3>1. job'[w].back = job[w].back /\ job'[w].pc \in {"erase", "decide_engine"}
      BY <1>1, <2>2 DEF Takes, JobType
    <3> QED  BY <1>n, <3>1 DEF Locked
  <2> QED  BY <1>9, <2>1, <2>2, LockShapes
<1>10. CASE DecideInEngine(w)
  BY <1>g, <1>10 DEF DecideInEngine, Places, Deciding, Locked
<1>11. CASE PurgeMatch(w)
  <2>1. CASE ToErase(w) # {}
    BY <1>11, <2>1 DEF PurgeMatch, Arrives
  <2>2. CASE ToErase(w) = {}
    BY <1>11, <1>g, <1>r, <2>2 DEF PurgeMatch, Places, Deciding, Locked
  <2> QED  BY <2>1, <2>2
<1>12. CASE RecordDecision(w)
  BY <1>12, <1>g, <1>r DEF RecordDecision, Places, Deciding, Locked
<1>13. CASE RecordDecided(w)
  BY <1>13, <1>g, <1>r DEF RecordDecided, Places, Deciding, Locked
<1>14. CASE PurgeOwn(w)
  BY <1>14, <1>r DEF PurgeOwn
<1>15. CASE DecideReview(w)
  BY <1>1, <1>n, <1>15 DEF DecideReview, JobType, Locked
<1>16. CASE BeginPause(w) \/ SetPause(w) \/ OpenItem(w) \/ BeginSweep(w)
  BY <1>16, <1>g DEF BeginPause, SetPause, OpenItem, BeginSweep, Places, Sweeping, Locked
<1>17. CASE Resume(w)
  BY <1>17 DEF Resume, Arrives
<1>18. CASE RejectItemIfPaused(w)
  BY <1>18, <1>d, <1>g DEF RejectItemIfPaused, Places, Locked
<1>19. CASE ListOpenReviews(w)
  <2> DEFINE a == AfterPass(job[w].pc)
  <2>1. a \in Passes
    BY <1>19 DEF ListOpenReviews, AfterPass, Passes
  <2>2. job' = [job EXCEPT ![w].pc = IF OpenReview THEN "lock" ELSE a,
                           ![w].why = "pause", ![w].back = a]
    BY <1>19 DEF ListOpenReviews
  <2> HIDE DEF a
  <2>3. job'[w].pc = (IF OpenReview THEN "lock" ELSE a) /\ job'[w].back = a
    BY <1>1, <2>2 DEF JobType
  <2> QED  BY <1>n, <2>1, <2>3 DEF Passes, Settling, Locked
<1>20. CASE RejectPendingItems(w)
  <2> DEFINE r == [Idle EXCEPT !.pc = "list_due"]
  <2>1. r.pc = "list_due" /\ r.back = "idle"  BY DEF Idle
  <2>2. \/ job' = [job EXCEPT ![w].pc = IF job[w].failed THEN "idle" ELSE "set",
                              ![w].back = "idle", ![w].failed = FALSE]
        \/ Done(w) \/ job' = [job EXCEPT ![w] = r]
    BY <1>20 DEF RejectPendingItems
  <2> HIDE DEF r
  <2>3. Done(w) \/ (job'[w].pc \in {"list_due", "idle", "set"} /\ job'[w].back = "idle")
    BY <1>1, <2>1, <2>2 DEF JobType
  <2> QED  BY <1>d, <1>n, <2>3 DEF Locked, Settling
<1>21. CASE ListPurgeDue(w)
  <2> DEFINE q == [Idle EXCEPT !.pc = "lapse", !.saw = req.status]
  <2>1. q.pc = "lapse" /\ q.back = "idle"  BY DEF Idle
  <2>2. Done(w) \/ (job' = [job EXCEPT ![w] = q] /\ PurgeTime)
    BY <1>21 DEF ListPurgeDue
  <2> HIDE DEF q
  <2>3. Done(w) \/ (job'[w].pc = "lapse" /\ job'[w].back = "idle" /\ PurgeTime)
    BY <1>1, <2>1, <2>2
  <2> QED  BY <1>d, <2>3 DEF Arrives, Locked, Settling, Searching
<1>22. CASE LapseReview(w)
  BY <1>1, <1>22 DEF LapseReview, Arrives, JobType, Locked, Searching
<1>23. CASE PurgeDue(w)
  BY <1>23, <1>d DEF PurgeDue
<1>24. CASE Fails(w)
  <2> DEFINE r == [Idle EXCEPT !.pc = job[w].back, !.failed = TRUE]
  <2>1. Done(w) \/ (job' = [job EXCEPT ![w] = r] /\ job[w].back \in Passes)
    BY <1>24 DEF Fails, Passes
  <2>2. r.pc = job[w].back /\ r.back = "idle"  BY DEF Idle
  <2> HIDE DEF r
  <2>4. Done(w) \/ (job'[w].pc \in Passes /\ job'[w].back = "idle")  BY <1>1, <2>1, <2>2
  <2> QED  BY <1>d, <1>n, <2>4 DEF Locked, Settling, Passes
<1> QED  BY <1>3, <1>4, <1>5, <1>6, <1>7, <1>8, <1>9, <1>10, <1>11, <1>12, <1>13, <1>14, <1>15,
            <1>16, <1>17, <1>18, <1>19, <1>20, <1>21, <1>22, <1>23, <1>24 DEF Acts, GoOn, Begin

(* What the row's status and marks can become.                             *)
RowMoves ==
  /\ req'.status = "in_progress" => req.status = "in_progress"
  /\ req.purged => req'.purged
  /\ req'.status \in Undecided => req.status \in Undecided /\ (req.code = "none" => req'.code = "none")
  /\ req.status \notin Undecided => req'.status = req.status
  /\ req.purged => req'.status = req.status

LEMMA WalkRow ==
  ASSUME Typed, NEW w \in Workers, Sound(w), LocksHeld, Acts(w)
  PROVE  \/ UNCHANGED req
         \/ Rejects(w) \/ RecordReview(w) \/ LapseReview(w) \/ RecordDecided(w)
         \/ PurgeOwn(w) \/ PurgeDue(w)
<1>1. CASE Walks(w)  BY <1>1 DEF Walks
<1>2. CASE Writes(w)
  BY <1>2 DEF Writes, SaveMatches, Takes, DecideInEngine, PurgeMatch, RecordDecision, Drops, Fails
<1> QED  BY <1>1, <1>2, Shapes

LEMMA RowMoved ==
  ASSUME Typed, \A w \in Workers : Sound(w), LocksHeld, [Next]_vars
  PROVE  RowMoves
<1> USE DEF RowMoves
<1>1. req \in ReqType /\ engine.code \in Codes  BY DEF Typed
<1>2. CASE Around \/ UNCHANGED vars
  <2>1. CASE TermPasses  BY <1>1, <2>1 DEF TermPasses, ReqType
  <2>2. CASE ~TermPasses
    BY <1>2, <2>2 DEF Around, ItemDecided, CheckDecided, CheckErased, HoldEnds, pauseVars, vars
  <2> QED  BY <2>1, <2>2
<1>3. ASSUME NEW w \in Workers, Acts(w) PROVE RowMoves
  <2>1. CASE UNCHANGED req  BY <2>1
  <2>2. CASE Rejects(w)
    <3>1. RecordOutcome("rejected", engine.code)  BY <2>2 DEF Rejects
    <3> QED  BY <1>1, <3>1, RecordedRow DEF Undecided
  <2>3. CASE RecordReview(w)
    <3>1. RecordOutcome("needs_review", "none") /\ "none" \in Codes  BY <2>3 DEF RecordReview, Codes
    <3> QED  BY <1>1, <3>1, RecordedRow DEF Undecided
  <2>4. CASE LapseReview(w)
    <3>1. req' = req \/ RecordOutcome("rejected", "REVIEW_LAPSED")  BY <2>4 DEF LapseReview
    <3>2. "REVIEW_LAPSED" \in Codes  BY DEF Codes
    <3> QED  BY <1>1, <3>1, <3>2, RecordedRow DEF Undecided
  <2>5. CASE RecordDecided(w)
    <3>1. PICK s \in {"approved", "rejected"} : RecordOutcome(s, job[w].input.code)
      BY <2>5 DEF RecordDecided
    <3>2. job[w].input.code \in Codes  BY DEF Typed, JobType, InputType
    <3> QED  BY <1>1, <3>1, <3>2, RecordedRow DEF Undecided
  <2>6. CASE PurgeOwn(w) \/ PurgeDue(w)
    BY <1>1, <2>6, PurgeTyped DEF PurgeOwn, PurgeDue
  <2> QED  BY <1>3, <2>1, <2>2, <2>3, <2>4, <2>5, <2>6, WalkRow
<1> QED  BY <1>2, <1>3, Actors

(* Who writes what.                                                        *)
LEMMA Writers ==
  ASSUME Typed, NEW w \in Workers, Sound(w), LocksHeld, Acts(w)
  PROVE  /\ UNCHANGED match \/ SaveMatches(w) \/ RecordDecision(w) \/ PurgeOwn(w) \/ PurgeDue(w)
         /\ UNCHANGED engine \/ DecideInEngine(w) \/ PurgeOwn(w) \/ PurgeDue(w)
         /\ UNCHANGED <<check, erased>> \/ (PurgeMatch(w) /\ ToErase(w) # {})
         /\ UNCHANGED ticked \/ (\E input \in InputType : Takes(w, input))
         /\ UNCHANGED free
<1> USE DEF orgVars, history
<1>1. CASE Walks(w)  BY <1>1 DEF Walks
<1>2. CASE Rejects(w)  BY <1>2 DEF Rejects, ReadToReconcile
<1>3. CASE SaveMatches(w) \/ RecordReview(w) \/ DecideInEngine(w) \/ RecordDecision(w)
  BY <1>3 DEF SaveMatches, RecordReview, DecideInEngine, RecordDecision
<1>4. CASE \E input \in InputType : Takes(w, input)  BY <1>4 DEF Takes
<1>5. CASE PurgeMatch(w)  BY <1>5 DEF PurgeMatch
<1>6. CASE RecordDecided(w) \/ PurgeOwn(w) \/ LapseReview(w) \/ PurgeDue(w)
  BY <1>6 DEF RecordDecided, PurgeOwn, LapseReview, PurgeDue
<1>7. CASE Drops(w)  BY <1>7 DEF Drops, Fails
<1> QED  BY <1>1, <1>2, <1>3, <1>4, <1>5, <1>6, <1>7, Shapes DEF Writes

LEMMA FreshKept ==
  ASSUME Typed, \A w \in Workers : Sound(w), LocksHeld, Fresh, SearchOpen, [Next]_vars
  PROVE  Fresh'
<1>1. SUFFICES ASSUME req'.status = "in_progress"
               PROVE  /\ ~req'.purged /\ ~req'.late /\ engine'.status # "rejected" /\ erased' = {}
                      /\ \A w \in Workers : job'[w].pc \notin Deciding \cup {"lapse", "purge_due"}
  BY DEF Fresh, Workers
<1>2. req.status = "in_progress"  BY <1>1, RowMoved DEF RowMoves
<1>3. /\ ~req.purged /\ ~req.late /\ engine.status # "rejected" /\ erased = {}
      /\ \A w \in Workers : job[w].pc \notin Deciding \cup {"lapse", "purge_due"}
  BY <1>2 DEF Fresh
<1>4. CASE Around \/ UNCHANGED vars
  <2>1. req' = req
    BY <1>2, <1>4 DEF Around, TermPasses, ItemDecided, CheckDecided, CheckErased, HoldEnds, pauseVars, vars
  <2> QED  BY <1>3, <1>4, <2>1, AroundLeaves
<1>5. ASSUME NEW w \in Workers, Acts(w)
      PROVE  /\ ~req'.purged /\ ~req'.late /\ engine'.status # "rejected" /\ erased' = {}
             /\ \A u \in Workers : job'[u].pc \notin Deciding \cup {"lapse", "purge_due"}
  <2>1. ~PurgeOwn(w) /\ ~PurgeDue(w) /\ ~DecideInEngine(w) /\ ~PurgeMatch(w) /\ ~LapseReview(w)
        /\ ~RecordDecided(w) /\ ~RecordDecision(w)
    BY <1>3 DEF PurgeOwn, PurgeDue, DecideInEngine, PurgeMatch, LapseReview, RecordDecided,
                RecordDecision, At, Deciding
  <2>2. engine' = engine /\ erased' = erased  BY <1>5, <2>1, Writers
  <2>3. ~Rejects(w)  BY <1>3 DEF Rejects
  <2>4. ~req'.purged /\ ~req'.late
    <3>1. UNCHANGED req \/ RecordReview(w)  BY <1>5, <2>1, <2>3, WalkRow
    <3>2. CASE RecordReview(w)
      <4>1. RecordOutcome("needs_review", "none") /\ "none" \in Codes  BY <3>2 DEF RecordReview, Codes
      <4> QED  BY <1>3, <4>1, RecordedRow
    <3> QED  BY <1>3, <3>1, <3>2
  <2>5. ~\E input \in InputType : Takes(w, input)
    BY <1>2 DEF Takes, OpenReview
  <2>6. job'[w].pc \notin Deciding
    <3>1. CASE Walks(w)  BY <3>1 DEF Walks, Rules
    <3>2. CASE Writes(w)
      <4>1. ReviewMoves(w) /\ reviewLock # w  BY <1>3, <3>2, RuleMoves DEF LocksHeld, Rules
      <4>2. SaveMatches(w) \/ RecordReview(w)
        BY <1>3, <2>1, <2>3, <2>5, <3>2 DEF Writes, Drops, Rules
      <4>3. reviewLock' = reviewLock  BY <4>2 DEF SaveMatches, RecordReview
      <4> QED  BY <1>3, <4>1, <4>3, DataAssumption DEF ReviewMoves, Rules
    <3> QED  BY <1>5, <3>1, <3>2, Shapes
  <2>7. ~PurgeTime  BY <1>2, <1>3 DEF PurgeTime
  <2>8. job'[w].pc \notin {"lapse", "purge_due"}
    BY <1>3, <1>5, <2>7, Arrivals DEF Arrives
  <2>9. \A u \in Workers \ {w} : job'[u] = job[u]  BY <1>5, JobsTyped DEF Only
  <2> QED  BY <1>3, <2>2, <2>4, <2>6, <2>8, <2>9
<1> QED  BY <1>4, <1>5, Actors

(* A search writes only while the review has not been opened: only its own *)
(* step opens it.                                                          *)
LEMMA SearchOpenKept ==
  ASSUME Typed, \A w \in Workers : Sound(w), LocksHeld, Fresh, SearchOpen, [Next]_vars
  PROVE  SearchOpen'
<1>1. SUFFICES ASSUME NEW u \in Workers, job'[u].pc \in Searching
               PROVE  req'.status = "in_progress"
  BY DEF SearchOpen, Workers
<1>2. CASE Around \/ UNCHANGED vars
  <2>1. req.status = "in_progress"  BY <1>1, <1>2, AroundLeaves DEF SearchOpen
  <2> QED
    BY <1>2, <2>1 DEF Around, TermPasses, ItemDecided, CheckDecided, CheckErased, HoldEnds, pauseVars, vars
<1>3. ASSUME NEW w \in Workers, Acts(w) PROVE req'.status = "in_progress"
  <2>1. \A v \in Workers \ {w} : job'[v] = job[v]  BY <1>3, JobsTyped DEF Only
  <2>2. req.status = "in_progress" /\ (job[u].pc \in Searching \/ (u = w /\ job[u].pc = "relook"))
    BY <1>1, <1>3, <2>1, Arrivals DEF Arrives, SearchOpen
  <2>3. ~PurgeOwn(w) /\ ~PurgeDue(w) /\ ~LapseReview(w) /\ ~RecordDecided(w) /\ ~Rejects(w)
    BY <2>2 DEF Fresh, PurgeOwn, PurgeDue, LapseReview, RecordDecided, At, Deciding, Rejects
  <2>4. ~RecordReview(w)
    <3>1. SUFFICES ASSUME RecordReview(w) PROVE FALSE  OBVIOUS
    <3>2. job[w].pc = "record" /\ job'[w].pc = "read_pause"
      BY <3>1 DEF RecordReview, At, Go, Typed, JobType
    <3>3. u # w /\ job[u].pc \in Searching  BY <1>1, <2>2, <3>2 DEF Searching
    <3>4. matchLock = u /\ matchLock = w  BY <3>2, <3>3 DEF LocksHeld, Searches, Searching, Locked
    <3> QED  BY <3>3, <3>4
  <2> QED  BY <1>3, <2>2, <2>3, <2>4, WalkRow
<1> QED  BY <1>2, <1>3, Actors

LEMMA RowSoundKept ==
  ASSUME Typed, \A w \in Workers : Sound(w), LocksHeld, Fresh, SearchOpen, RowSound, [Next]_vars
  PROVE  RowSound'
<1>1. kind' = kind  BY KindFixed
<1>2. req'.status \in Undecided => req'.code = "none"
  BY RowMoved DEF RowMoves, RowSound
<1>3. ASSUME Around \/ UNCHANGED vars
      PROVE  req'.purged = req.purged /\ match' = match /\ engine' = engine
  BY <1>3 DEF Typed, ReqType, Around, TermPasses, ItemDecided, CheckDecided, CheckErased, HoldEnds,
              pauseVars, aroundVars, vars
<1>4. ASSUME NEW w \in Workers, Acts(w)
      PROVE  /\ req'.purged => match' = NoMatches
             /\ kind.engine = "approved" => engine'.status \in {"approved", "gone"} /\ engine'.code = "none"
  <2>1. CASE PurgeOwn(w) \/ PurgeDue(w)
    BY <2>1, PurgeTyped DEF PurgeOwn, PurgeDue, RowSound
  <2>2. CASE ~(PurgeOwn(w) \/ PurgeDue(w))
    <3>1. req'.purged = req.purged
      <4>1. UNCHANGED req \/ Rejects(w) \/ RecordReview(w) \/ LapseReview(w) \/ RecordDecided(w)
        BY <1>4, <2>2, WalkRow
      <4>2. job[w].input.code \in Codes /\ engine.code \in Codes
            /\ "none" \in Codes /\ "REVIEW_LAPSED" \in Codes
        BY DEF Typed, JobType, InputType, Codes
      <4> QED
        BY <4>1, <4>2, RecordedRow DEF Rejects, RecordReview, LapseReview, RecordDecided
    <3>2. req.purged => match' = match
      <4>1. SaveMatches(w) => ~req.purged
        BY DEF SaveMatches, At, SearchOpen, Fresh, Searching
      <4>2. RecordDecision(w) /\ req.purged => match' = match
        BY DEF RecordDecision
      <4> QED  BY <1>4, <2>2, <4>1, <4>2, Writers
    <3>3. kind.engine = "approved" => engine' = engine
      <4>1. DecideInEngine(w) /\ engine.status # "needs_review" => engine' = engine
        BY DEF DecideInEngine
      <4> QED  BY <1>4, <2>2, <4>1, Writers DEF RowSound
    <3> QED  BY <3>1, <3>2, <3>3 DEF RowSound
  <2> QED  BY <2>1, <2>2
<1>5. /\ req'.purged => match' = NoMatches
      /\ kind.engine = "approved" => engine'.status \in {"approved", "gone"} /\ engine'.code = "none"
  BY <1>3, <1>4, Actors DEF RowSound
<1>6. NoMatches' = NoMatches  BY DEF NoMatches, NoMatch
<1> QED  BY <1>1, <1>2, <1>5, <1>6 DEF RowSound

----------------------------------------------------------------------------
(* What is found, and what is taken of it.                                 *)

(* What a call decides it decided when it took the lock.                   *)
LEMMA Rulers ==
  ASSUME Typed, \A w \in Workers : Sound(w), LocksHeld, [Next]_vars,
         NEW u \in Workers, Rules(u)'
  PROVE  \/ /\ Rules(u) /\ job'[u].take = job[u].take /\ job'[u].input = job[u].input
            /\ job'[u].back = job[u].back
         \/ ~Rules(u) /\ \E input \in InputType : Takes(u, input)
<1> USE DEF At, Go, Done, Rules
<1>1. job \in [Workers -> JobType] /\ job[u] \in JobType  BY DEF Typed
<1>2. CASE Around \/ UNCHANGED vars  BY <1>2, AroundLeaves
<1>3. ASSUME NEW w \in Workers, Acts(w), w # u
      PROVE  Rules(u) /\ job'[u] = job[u]
  BY <1>3, JobsTyped DEF Only
<1>4. CASE Acts(u)
  <2>1. Sound(u) /\ ~Walks(u)  BY DEF Walks
  <2>2. Writes(u)  BY <1>4, <2>1, Shapes
  <2>r. ASSUME NEW f \in BOOLEAN, Return(u, f) PROVE FALSE
    BY <1>1, <2>r, Returned DEF JobType, Settling, Passes, Deciding
  <2>3. CASE Rejects(u)  BY <2>3 DEF Rejects
  <2>4. CASE SaveMatches(u) \/ RecordReview(u)
    BY <1>1, <2>4 DEF SaveMatches, RecordReview, Deciding, JobType
  <2>5. CASE DecideInEngine(u)
    BY <1>1, <2>5 DEF DecideInEngine, Deciding, JobType
  <2>6. CASE PurgeMatch(u)
    <3>1. CASE ToErase(u) # {}  BY <2>6, <3>1 DEF PurgeMatch
    <3>2. CASE ToErase(u) = {} /\ job[u].input.partial
      BY <2>6, <2>r, <3>2 DEF PurgeMatch
    <3>3. CASE ToErase(u) = {} /\ ~job[u].input.partial
      BY <1>1, <2>6, <3>3 DEF PurgeMatch, Deciding, JobType
    <3> QED  BY <3>1, <3>2, <3>3
  <2>7. CASE RecordDecision(u)
    BY <1>1, <2>7, <2>r DEF RecordDecision, Deciding, JobType
  <2>8. CASE RecordDecided(u)
    <3>1. CASE job[u].input.approve /\ kind.erasure
      BY <1>1, <2>8, <3>1 DEF RecordDecided, Deciding, JobType
    <3>2. CASE ~(job[u].input.approve /\ kind.erasure)
      BY <2>8, <2>r, <3>2 DEF RecordDecided
    <3> QED  BY <3>1, <3>2
  <2>9. CASE PurgeOwn(u)
    BY <2>9, <2>r DEF PurgeOwn
  <2>10. CASE LapseReview(u) \/ PurgeDue(u)
    BY <1>1, <2>10 DEF LapseReview, PurgeDue, Idle, Deciding, JobType
  <2>11. CASE Drops(u)
    <3>1. reviewLock = u /\ reviewLock' = Free  BY <2>11 DEF Drops, Fails, LocksHeld
    <3> QED  BY <2>1, <2>2, <3>1, RuleMoves, DataAssumption DEF ReviewMoves
  <2>12. CASE \E input \in InputType : Takes(u, input)
    BY <2>12 DEF Takes, Deciding
  <2> QED  BY <2>2, <2>3, <2>4, <2>5, <2>6, <2>7, <2>8, <2>9, <2>10, <2>11, <2>12 DEF Writes
<1> QED  BY <1>2, <1>3, <1>4, Actors

(* What was found stays: the property FoundOnce, of one step.              *)
LEMMA LevelsStay ==
  ASSUME Typed, \A w \in Workers : Sound(w), LocksHeld, Fresh, SearchOpen, RowSound, [Next]_vars,
         NEW c \in Checks, match'[c].level # match[c].level
  PROVE  req.status = "in_progress" \/ (req'.purged /\ ~req.purged)
<1>1. PICK w \in Workers : Acts(w) /\ match' # match
  BY Actors, AroundLeaves
<1>2. CASE SaveMatches(w)
  BY <1>2 DEF SaveMatches, At, SearchOpen, Searching
<1>3. CASE RecordDecision(w)
  <2>1. match' = [x \in Checks |-> [match[x] EXCEPT !.approved = x \in Matched \cap job[w].take]]
    BY <1>1, <1>3 DEF RecordDecision
  <2>2. match[c] \in MatchType  BY DEF Typed
  <2>3. match'[c].level = match[c].level  BY <2>1, <2>2 DEF MatchType
  <2> QED  BY <2>3
<1>4. CASE PurgeOwn(w) \/ PurgeDue(w)
  BY <1>1, <1>4, PurgeTyped DEF PurgeOwn, PurgeDue, RowSound
<1> QED  BY <1>1, <1>2, <1>3, <1>4, Writers

(* What only grows.                                                        *)
LEMMA Grows ==
  ASSUME Typed, \A w \in Workers : Sound(w), LocksHeld, [Next]_vars
  PROVE  /\ \A c \in Checks : /\ check[c].purged => check'[c].purged
                              /\ check[c].status = "approved" => check'[c].status = "approved"
         /\ free \subseteq free' /\ ticked \subseteq ticked' /\ erased \subseteq erased'
         /\ faults' >= faults
<1> USE DEF Typed
<1>p. ASSUME NEW c \in Checks, check' = Purged(c)
      PROVE  \A d \in Checks : /\ check[d].purged => check'[d].purged
                               /\ check[d].status = "approved" => check'[d].status = "approved"
  BY <1>p DEF Purged, CheckType
<1>1. CASE UNCHANGED vars
  BY <1>1 DEF vars
<1>2. CASE Around
  <2>0. ticked' = ticked /\ erased' = erased /\ faults' = faults  BY <1>2, AroundLeaves
  <2>1. CASE ItemDecided \/ TermPasses
    BY <2>0, <2>1 DEF ItemDecided, TermPasses, pauseVars
  <2>2. ASSUME NEW c \in Checks, CheckDecided(c)
        PROVE  free' = free
               /\ \A d \in Checks : /\ check[d].purged => check'[d].purged
                                    /\ check[d].status = "approved" => check'[d].status = "approved"
    <3>1. PICK x \in {"approved", "rejected", "needs_review"} : check' = [check EXCEPT ![c].status = x]
      BY <2>2, DecidedCheck
    <3>2. check[c].status # "approved"  BY <2>2, DecidedCheck
    <3> QED  BY <2>2, <3>1, <3>2 DEF CheckDecided, CheckType
  <2>3. ASSUME NEW c \in Checks, CheckErased(c) PROVE check' = Purged(c) /\ free' = free
    BY <2>3 DEF CheckErased
  <2>4. ASSUME NEW c \in Checks, HoldEnds(c) PROVE check' = check /\ free \subseteq free'
    BY <2>4 DEF HoldEnds
  <2> QED  BY <1>2, <1>p, <2>0, <2>1, <2>2, <2>3, <2>4 DEF Around
<1>3. ASSUME NEW w \in Workers, Acts(w)
      PROVE  /\ \A c \in Checks : /\ check[c].purged => check'[c].purged
                                  /\ check[c].status = "approved" => check'[c].status = "approved"
             /\ free' = free /\ ticked \subseteq ticked' /\ erased \subseteq erased'
             /\ faults' >= faults
  <2>1. ticked \subseteq ticked' /\ free' = free
    BY <1>3, Writers DEF Takes
  <2>2. UNCHANGED <<check, erased>> \/ (PurgeMatch(w) /\ ToErase(w) # {})  BY <1>3, Writers
  <2>3. CASE PurgeMatch(w) /\ ToErase(w) # {}
    <3> DEFINE c == Min(ToErase(w))
    <3>1. check' = Purged(c) /\ erased' = erased \cup {c} /\ faults' = faults /\ c \in Checks
      BY <2>3, ErasedOne DEF PurgeMatch
    <3> HIDE DEF c
    <3> QED  BY <1>p, <2>1, <3>1
  <2>4. faults' >= faults
    <3>1. CASE Walks(w)  BY <3>1 DEF Walks
    <3>2. CASE Drops(w)  BY <3>2 DEF Drops, Fails
    <3>3. CASE Writes(w) /\ ~Drops(w)
      <4>1. faults' = faults
        <5>1. CASE Rejects(w) \/ SaveMatches(w) \/ RecordReview(w) \/ DecideInEngine(w)
          BY <5>1 DEF Rejects, ReadToReconcile, SaveMatches, RecordReview, DecideInEngine, orgVars
        <5>2. CASE \E input \in InputType : Takes(w, input)
          BY <5>2 DEF Takes, orgVars
        <5>3. CASE PurgeMatch(w) \/ RecordDecision(w) \/ RecordDecided(w)
          BY <5>3 DEF PurgeMatch, RecordDecision, RecordDecided, orgVars
        <5>4. CASE PurgeOwn(w) \/ LapseReview(w) \/ PurgeDue(w)
          BY <5>4 DEF PurgeOwn, LapseReview, PurgeDue, orgVars
        <5> QED  BY <3>3, <5>1, <5>2, <5>3, <5>4 DEF Writes
      <4> QED  BY <4>1
    <3> QED  BY <1>3, <3>1, <3>2, <3>3, Shapes
  <2> QED  BY <2>1, <2>2, <2>3, <2>4
<1> QED  BY <1>1, <1>2, <1>3, Actors

(* Once the review is open, what it found stays until it is purged.        *)
LEMMA FoundStays ==
  ASSUME Typed, \A w \in Workers : Sound(w), LocksHeld, Fresh, SearchOpen, RowSound, [Next]_vars,
         req.status # "in_progress", ~req'.purged
  PROVE  /\ \A c \in Checks : match'[c].level = match[c].level
         /\ Matched' = Matched /\ ~req.purged
         /\ \A c \in Checks : SureMatch(c)' <=> SureMatch(c)
<1>1. \A c \in Checks : match'[c].level = match[c].level  BY LevelsStay
<1>2. ~req.purged  BY RowMoved DEF RowMoves
<1> QED  BY <1>1, <1>2 DEF Matched, SureMatch

(* One session is erased at a time, by who decides.                        *)
LEMMA ErasedBy ==
  ASSUME Typed, \A w \in Workers : Sound(w), LocksHeld, [Next]_vars, erased' # erased
  PROVE  \E w \in Workers, c \in Checks :
           /\ Rules(w) /\ job[w].pc = "erase" /\ c \in job[w].take /\ ~check[c].purged
           /\ check' = Purged(c) /\ erased' = erased \cup {c}
           /\ UNCHANGED <<kind, req, engine, free, match, job, reviewLock, ticked, faults>>
<1>1. PICK w \in Workers : Acts(w) /\ PurgeMatch(w) /\ ToErase(w) # {}
  BY Actors, AroundLeaves, Writers
<1> DEFINE c == Min(ToErase(w))
<1>2. c \in Checks /\ c \in job[w].take /\ ~check[c].purged  BY <1>1, ErasedOne
<1>3. check' = Purged(c) /\ erased' = erased \cup {c} /\ UNCHANGED <<job, reviewLock>>
  BY <1>1 DEF PurgeMatch
<1> HIDE DEF c
<1>4. job[w].pc = "erase" /\ UNCHANGED <<kind, req, engine, free, match, ticked, faults>>
  BY <1>1 DEF PurgeMatch, At
<1> QED  BY <1>2, <1>3, <1>4 DEF Rules, Deciding

Base ==
  /\ Typed /\ (\A w \in Workers : Sound(w)) /\ LocksHeld /\ Fresh /\ SearchOpen /\ RowSound

LEMMA BaseKept ==
  ASSUME Base, [Next]_vars
  PROVE  Base'
<1>1. (\A w \in Workers : Sound(w))'  BY SoundKept DEF Base
<1> QED  BY <1>1, TypedKept, LocksKept, FreshKept, SearchOpenKept, RowSoundKept DEF Base

LEMMA RulesDecided ==
  ASSUME Base, NEW w \in Workers, Rules(w)
  PROVE  req.status # "in_progress" /\ reviewLock = w
BY DEF Base, Fresh, Rules, LocksHeld

LEMMA ErasedGoneKept ==
  ASSUME Base, ErasedGone, TakesAllowed, [Next]_vars
  PROVE  ErasedGone'
<1> USE DEF Base
<1>1. kind' = kind  BY KindFixed
<1>2. SUFFICES ASSUME NEW c \in erased'
               PROVE  kind.erasure /\ check'[c].purged /\ (c \in Matched' \/ req'.purged)
  BY <1>1 DEF ErasedGone
<1>3. CASE c \in erased
  <2>1. c \in Checks  BY <1>3 DEF Typed
  <2>2. kind.erasure /\ check'[c].purged  BY <1>3, <2>1, Grows DEF ErasedGone
  <2>3. req.status # "in_progress"  BY <1>3 DEF Fresh
  <2>4. ~req'.purged => c \in Matched'
    BY <1>3, <2>3, FoundStays DEF ErasedGone
  <2> QED  BY <2>2, <2>4
<1>4. CASE c \notin erased
  <2>1. PICK w \in Workers, d \in Checks :
           /\ Rules(w) /\ job[w].pc = "erase" /\ d \in job[w].take /\ ~check[d].purged
           /\ check' = Purged(d) /\ erased' = erased \cup {d}
           /\ UNCHANGED <<kind, req, engine, free, match, job, reviewLock, ticked, faults>>
    BY <1>4, ErasedBy
  <2>2. c = d  BY <1>4, <2>1
  <2>3. kind.erasure  BY <2>1 DEF Sound
  <2>4. check'[d].purged  BY <2>1 DEF Typed, CheckType, Purged
  <2>5. ~req.purged => d \in Matched  BY <2>1 DEF TakesAllowed
  <2>6. Matched' = Matched  BY <2>1 DEF Matched
  <2> QED  BY <2>1, <2>2, <2>3, <2>4, <2>5, <2>6
<1> QED  BY <1>3, <1>4

LEMMA ApprovedStaysKept ==
  ASSUME Base, ApprovedStays, [Next]_vars
  PROVE  ApprovedStays'
<1>1. kind' = kind  BY KindFixed
<1> QED  BY <1>1, Grows DEF Base, ApprovedStays

(* What a decision is about to take when it takes the lock.                *)
LEMMA TakenAtOnce ==
  ASSUME Base, ErasedGone, ApprovedStays, NEW w \in Workers, NEW input \in InputType, Takes(w, input)
  PROVE  /\ job'[w].input = input /\ job'[w].take = ApprovedMatches(input)
         /\ \A c \in job'[w].take :
              /\ check[c].purged \/ SureMatch(c) \/ c \in ticked'
              /\ kind.erasure => check[c].purged \/ ~Proven(c) \/ c \in free
         /\ ~input.approve => job'[w].take = {}
         /\ job'[w].take \subseteq Matched
         /\ input.approve /\ kind.erasure => erased \subseteq job'[w].take
         /\ ~req.purged /\ req.status = "needs_review" /\ UNCHANGED <<req, match, check, free, erased>>
<1> USE DEF Base
<1>1. job \in [Workers -> JobType] /\ job[w] \in JobType  BY DEF Typed
<1> DEFINE take == ApprovedMatches(input)
<1>2. job'[w].input = input /\ job'[w].take = take
  BY <1>1 DEF Takes, JobType
<1>3. ~req.purged /\ req.status = "needs_review" /\ UNCHANGED <<req, match, check, free, erased>>
  BY DEF Takes, OpenReview, orgVars
<1>4. input.ids \subseteq ticked' \/ \A c \in input.ids : SureMatch(c)
  BY DEF Takes
<1>5. Unticked \subseteq Matched /\ WithPurged \subseteq Matched /\ input.ids \subseteq Matched
  BY DEF Unticked, WithPurged, Takes
<1>6. \A c \in Unticked : SureMatch(c)  BY DEF Unticked, SureMatch
<1>7. \A c \in WithPurged : check[c].purged  BY DEF WithPurged
<1>8. CASE ~input.approve
  <2>1. take = {}  BY <1>8 DEF ApprovedMatches
  <2> QED  BY <1>2, <1>3, <1>8, <2>1
<1>9. CASE input.approve
  <2>1. \A c \in take : c \in input.ids \/ (c \in Unticked /\ Erasable(c)) \/ c \in WithPurged
    BY <1>9 DEF ApprovedMatches
  <2>2. WithPurged \subseteq take  BY <1>9 DEF ApprovedMatches
  <2>3. \A c \in input.ids : Erasable(c)  BY <1>9 DEF Takes, TicksHeld
  <2>4. \A c \in take : c \in Matched /\ (check[c].purged \/ Erasable(c))
    BY <1>5, <1>7, <2>1, <2>3
  <2>5. \A c \in take : check[c].purged \/ SureMatch(c) \/ c \in ticked'
    BY <1>4, <1>6, <1>7, <2>1
  <2>6. ASSUME NEW c \in take, kind.erasure, ~check[c].purged, Proven(c)
        PROVE  c \in free
    <3>1. ~Held(c)  BY <2>4, <2>6 DEF Erasable
    <3>2. c \in Checks  BY <2>4 DEF Matched
    <3>3. check[c].status = "approved"  BY <2>6, <3>2 DEF Proven, ApprovedStays
    <3> QED  BY <2>6, <3>1, <3>3 DEF Held, Proven
  <2>7. kind.erasure => erased \subseteq take
    BY <1>3, <2>2 DEF ErasedGone, WithPurged
  <2> HIDE DEF take
  <2>8. \A c \in take : /\ check[c].purged \/ SureMatch(c) \/ c \in ticked'
                        /\ kind.erasure => check[c].purged \/ ~Proven(c) \/ c \in free
    BY <2>5, <2>6
  <2>9. take \subseteq Matched  BY <2>4
  <2>10. job'[w].input = input /\ job'[w].take = ApprovedMatches(input)  BY <1>2 DEF take
  <2> QED  BY <1>2, <1>3, <1>9, <2>7, <2>8, <2>9, <2>10
<1> QED  BY <1>8, <1>9

LEMMA TakesAllowedKept ==
  ASSUME Base, ErasedGone, ApprovedStays, TakesAllowed, [Next]_vars
  PROVE  TakesAllowed'
<1> USE DEF Base
<1>1. kind' = kind  BY KindFixed
<1>p. \A c : Proven(c)' <=> Proven(c)  BY <1>1 DEF Proven
<1>2. SUFFICES ASSUME NEW u \in Workers, Rules(u)'
               PROVE  /\ \A c \in job'[u].take :
                           /\ check'[c].purged \/ SureMatch(c)' \/ c \in ticked' \/ req'.purged
                           /\ kind.erasure => check'[c].purged \/ ~Proven(c) \/ c \in free'
                      /\ ~job'[u].input.approve => job'[u].take = {}
                      /\ ~req'.purged => job'[u].take \subseteq Matched'
                      /\ job'[u].input.approve /\ kind.erasure /\ ~req'.purged => erased' \subseteq job'[u].take
  BY <1>1, <1>p DEF TakesAllowed, Workers
<1>3. CASE Rules(u) /\ job'[u].take = job[u].take /\ job'[u].input = job[u].input
  <2>1. req.status # "in_progress" /\ reviewLock = u  BY <1>3, RulesDecided
  <2>2. job[u].take \subseteq Checks  BY DEF Typed, JobType
  <2>3. /\ \A c \in job[u].take :
             /\ check[c].purged \/ SureMatch(c) \/ c \in ticked \/ req.purged
             /\ kind.erasure => check[c].purged \/ ~Proven(c) \/ c \in free
        /\ ~job[u].input.approve => job[u].take = {}
        /\ ~req.purged => job[u].take \subseteq Matched
        /\ job[u].input.approve /\ kind.erasure /\ ~req.purged => erased \subseteq job[u].take
    BY <1>3 DEF TakesAllowed
  <2>4. ASSUME NEW c \in job[u].take
        PROVE  /\ check'[c].purged \/ SureMatch(c)' \/ c \in ticked' \/ req'.purged
               /\ kind.erasure => check'[c].purged \/ ~Proven(c) \/ c \in free'
    <3>1. check[c].purged => check'[c].purged  BY <2>2, Grows
    <3>2. free \subseteq free' /\ ticked \subseteq ticked'  BY Grows
    <3>3. ~req'.purged => ~req.purged /\ (SureMatch(c)' <=> SureMatch(c))
      BY <2>1, <2>2, FoundStays
    <3> QED  BY <2>3, <3>1, <3>2, <3>3
  <2>5. ASSUME ~req'.purged PROVE job[u].take \subseteq Matched' /\ ~req.purged
    BY <2>1, <2>3, <2>5, FoundStays
  <2>6. ASSUME job[u].input.approve, kind.erasure, ~req'.purged PROVE erased' \subseteq job[u].take
    <3>1. erased \subseteq job[u].take  BY <2>3, <2>5, <2>6
    <3>2. CASE erased' # erased
      <4>1. PICK w \in Workers, c \in Checks :
                   /\ Rules(w) /\ job[w].pc = "erase" /\ c \in job[w].take /\ ~check[c].purged
                   /\ check' = Purged(c) /\ erased' = erased \cup {c}
                   /\ UNCHANGED <<kind, req, engine, free, match, job, reviewLock, ticked, faults>>
        BY <3>2, ErasedBy
      <4>2. w = u  BY <2>1, <4>1, RulesDecided
      <4> QED  BY <3>1, <4>1, <4>2
    <3> QED  BY <3>1, <3>2
  <2> QED  BY <1>3, <2>3, <2>4, <2>5, <2>6
<1>4. ASSUME NEW input \in InputType, Takes(u, input)
      PROVE  /\ \A c \in job'[u].take :
                  /\ check'[c].purged \/ SureMatch(c)' \/ c \in ticked' \/ req'.purged
                  /\ kind.erasure => check'[c].purged \/ ~Proven(c) \/ c \in free'
             /\ ~job'[u].input.approve => job'[u].take = {}
             /\ ~req'.purged => job'[u].take \subseteq Matched'
             /\ job'[u].input.approve /\ kind.erasure /\ ~req'.purged => erased' \subseteq job'[u].take
  <2>1. UNCHANGED <<req, match, check, free, erased>>  BY <1>4, TakenAtOnce
  <2>2. Matched' = Matched /\ \A c : SureMatch(c)' <=> SureMatch(c)
    BY <2>1 DEF Matched, SureMatch
  <2> QED  BY <1>4, <2>1, <2>2, TakenAtOnce
<1> QED  BY <1>2, <1>3, <1>4, Rulers

(* How a decision goes on.                                                 *)
RulerGoes(u) ==
  \/ job'[u].pc = job[u].pc /\ ~RecordDecision(u)
  \/ /\ DecideInEngine(u)
     /\ job'[u].pc = IF job[u].input.approve /\ kind.erasure THEN "erase" ELSE "record_decision"
  \/ PurgeMatch(u) /\ ToErase(u) = {} /\ ~job[u].input.partial /\ job'[u].pc = "record_decision"
  \/ RecordDecision(u) /\ ~req.purged /\ job'[u].pc = "record_outcome"
  \/ /\ RecordDecided(u) /\ job[u].input.approve /\ kind.erasure
     /\ job'[u].pc = "purge_own"

LEMMA RulerPlaces ==
  ASSUME Typed, \A w \in Workers : Sound(w), LocksHeld, [Next]_vars,
         NEW u \in Workers, Rules(u), Rules(u)'
  PROVE  RulerGoes(u)
<1> USE DEF At, Go, Done, Rules, RulerGoes
<1>1. job \in [Workers -> JobType] /\ job[u] \in JobType  BY DEF Typed
<1>s. ASSUME job' = job PROVE job'[u].pc = job[u].pc  BY <1>s
<1>2. CASE Around \/ UNCHANGED vars
  <2>1. ~RecordDecision(u)
    <3>1. job' = job  BY <1>2, AroundLeaves
    <3>2. RecordDecision(u) => job'[u] # job[u]
      <4>1. ASSUME RecordDecision(u), job'[u] = job[u] PROVE FALSE
        <5>1. CASE req.purged
          <6>1. Return(u, TRUE) /\ job[u].pc = "record_decision"  BY <4>1, <5>1 DEF RecordDecision
          <6>2. job'[u].pc = job[u].back  BY <6>1, Returned
          <6> QED  BY <1>1, <4>1, <6>1, <6>2 DEF JobType, Settling, Passes
        <5>2. CASE ~req.purged
          BY <1>1, <4>1, <5>2 DEF RecordDecision, JobType
        <5> QED  BY <5>1, <5>2
      <4> QED  BY <4>1
    <3> QED  BY <3>1, <3>2
  <2> QED  BY <1>2, <2>1, AroundLeaves
<1>r. ASSUME NEW f \in BOOLEAN, Return(u, f) PROVE FALSE
  BY <1>1, <1>r, Returned DEF JobType, Settling, Passes, Deciding
<1>d. ASSUME RecordDecision(u) PROVE ~req.purged /\ job'[u].pc = "record_outcome"
  BY <1>1, <1>d, <1>r DEF RecordDecision, JobType
<1>3. ASSUME NEW w \in Workers, Acts(w), w # u
      PROVE  RulerGoes(u)
  <2>1. job'[u] = job[u]  BY <1>3, JobsTyped DEF Only
  <2>2. ~RecordDecision(u)  BY <1>d, <2>1 DEF RecordDecision
  <2> QED  BY <2>1, <2>2
<1>4. CASE Acts(u)
  <2>1. Sound(u) /\ ~Walks(u)  BY DEF Walks
  <2>2. Writes(u)  BY <1>4, <2>1, Shapes
  <2>3. CASE DecideInEngine(u)
    BY <1>1, <2>3 DEF DecideInEngine, JobType
  <2>4. CASE PurgeMatch(u)
    <3>1. CASE ToErase(u) # {}
      <4>1. job' = job  BY <2>4, <3>1 DEF PurgeMatch
      <4> QED  BY <1>d, <2>4, <4>1 DEF RecordDecision, PurgeMatch
    <3>2. CASE ToErase(u) = {}
      BY <1>1, <1>r, <2>4, <3>2 DEF PurgeMatch, JobType
    <3> QED  BY <3>1, <3>2
  <2>5. CASE RecordDecision(u)
    BY <1>d, <2>5
  <2>6. CASE RecordDecided(u)
    <3>1. CASE job[u].input.approve /\ kind.erasure
      BY <1>1, <2>6, <3>1 DEF RecordDecided, JobType
    <3>2. CASE ~(job[u].input.approve /\ kind.erasure)
      BY <1>r, <2>6, <3>2 DEF RecordDecided
    <3> QED  BY <3>1, <3>2
  <2>7. CASE PurgeOwn(u)
    BY <1>r, <2>7 DEF PurgeOwn
  <2>8. CASE Drops(u)
    <3>1. reviewLock = u /\ reviewLock' = Free  BY <2>8 DEF Drops, Fails, LocksHeld
    <3> QED  BY <2>1, <2>2, <3>1, RuleMoves, DataAssumption DEF ReviewMoves
  <2>9. CASE Rejects(u)
    <3>1. job' = job  BY <2>9 DEF Rejects
    <3> QED  BY <1>d, <3>1 DEF RecordDecision
  <2>10. ~SaveMatches(u) /\ ~RecordReview(u) /\ ~LapseReview(u) /\ ~PurgeDue(u)
         /\ ~\E input \in InputType : Takes(u, input)
    BY DEF SaveMatches, RecordReview, LapseReview, PurgeDue, Takes, Deciding
  <2> QED  BY <2>2, <2>3, <2>4, <2>5, <2>6, <2>7, <2>8, <2>9, <2>10 DEF Writes
<1> QED  BY <1>2, <1>3, <1>4, Actors

----------------------------------------------------------------------------
(* What the person is told.                                                *)

(* Only who decides marks the approved sessions.                           *)
LEMMA MarkedBy ==
  ASSUME Base, [Next]_vars, req.status # "in_progress", ~req'.purged, match' # match
  PROVE  \E w \in Workers : RecordDecision(w) /\ Rules(w)
<1> USE DEF Base
<1>1. PICK w \in Workers : Acts(w)
  BY Actors, AroundLeaves
<1>2. ~SaveMatches(w)  BY DEF SaveMatches, At, SearchOpen, Searching
<1>3. ~PurgeOwn(w) /\ ~PurgeDue(w)  BY PurgeTyped DEF PurgeOwn, PurgeDue
<1> QED  BY <1>1, <1>2, <1>3, Writers DEF RecordDecision, At, Rules, Deciding

LEMMA TakesToldKept ==
  ASSUME Base, TakesAllowed, TakesTold, [Next]_vars
  PROVE  TakesTold'
<1> USE DEF Base
<1>1. kind' = kind  BY KindFixed
<1>2. SUFFICES ASSUME NEW u \in Workers, Rules(u)', job'[u].input.approve, kind.erasure
               PROVE  /\ job'[u].pc \in {"record_decision", "record_outcome", "purge_own"} =>
                           \A c \in job'[u].take : check'[c].purged
                      /\ job'[u].pc \in {"record_outcome", "purge_own"} /\ ~req'.purged =>
                           \A c \in Checks : match'[c].approved <=> c \in job'[u].take
  BY <1>1 DEF TakesTold, Workers
<1>3. CASE Rules(u) /\ job'[u].take = job[u].take /\ job'[u].input = job[u].input
  <2>1. req.status # "in_progress" /\ reviewLock = u  BY <1>3, RulesDecided
  <2>2. job[u].take \subseteq Checks  BY DEF Typed, JobType
  <2>3. /\ job[u].pc \in {"record_decision", "record_outcome", "purge_own"} =>
             \A c \in job[u].take : check[c].purged
        /\ job[u].pc \in {"record_outcome", "purge_own"} /\ ~req.purged =>
             \A c \in Checks : match[c].approved <=> c \in job[u].take
    BY <1>2, <1>3 DEF TakesTold
  <2>4. \A c \in Checks : check[c].purged => check'[c].purged  BY Grows
  <2>5. ~req'.purged => ~req.purged  BY RowMoved DEF RowMoves
  <2>6. \A w \in Workers : Rules(w) => w = u  BY <2>1, RulesDecided
  <2>7. RulerGoes(u)  BY <1>2, <1>3, RulerPlaces
  <2>8. CASE job'[u].pc = job[u].pc /\ ~RecordDecision(u)
    <3>1. ~req'.purged => match' = match  BY <2>1, <2>6, <2>8, MarkedBy
    <3> QED  BY <1>3, <2>2, <2>3, <2>4, <2>5, <2>8, <3>1
  <2>9. CASE /\ DecideInEngine(u)
             /\ job'[u].pc = IF job[u].input.approve /\ kind.erasure THEN "erase" ELSE "record_decision"
    BY <1>2, <1>3, <2>9
  <2>10. CASE PurgeMatch(u) /\ ToErase(u) = {} /\ job'[u].pc = "record_decision"
    BY <1>3, <2>2, <2>4, <2>10 DEF ToErase
  <2>11. CASE RecordDecision(u) /\ ~req.purged /\ job'[u].pc = "record_outcome"
    <3>1. match' = [c \in Checks |-> [match[c] EXCEPT !.approved = c \in Matched \cap job[u].take]]
          /\ job[u].pc = "record_decision"
      BY <2>11 DEF RecordDecision, At
    <3>2. job[u].take \subseteq Matched  BY <1>3, <2>11 DEF TakesAllowed
    <3>3. ASSUME NEW c \in Checks PROVE match'[c].approved <=> c \in job[u].take
      <4>1. match[c] \in MatchType  BY DEF Typed
      <4>2. match'[c] = [match[c] EXCEPT !.approved = c \in Matched \cap job[u].take]  BY <3>1
      <4>3. match'[c].approved = (c \in Matched \cap job[u].take)  BY <4>1, <4>2 DEF MatchType
      <4> QED  BY <3>2, <4>3
    <3> QED  BY <1>3, <2>2, <2>3, <2>4, <3>1, <3>3
  <2>12. CASE RecordDecided(u) /\ job'[u].pc = "purge_own"
    <3>1. job[u].pc = "record_outcome" /\ match' = match  BY <2>12 DEF RecordDecided, At
    <3> QED  BY <1>3, <2>2, <2>3, <2>4, <2>5, <3>1
  <2> QED  BY <2>7, <2>8, <2>9, <2>10, <2>11, <2>12 DEF RulerGoes
<1>4. ASSUME NEW input \in InputType, Takes(u, input)
      PROVE  job'[u].pc \in {"erase", "decide_engine"}
  BY <1>4 DEF Takes, Typed, JobType
<1> QED  BY <1>2, <1>3, <1>4, Rulers

(* The only way to an approval.                                            *)
LEMMA Approving ==
  ASSUME Base, [Next]_vars, req.status # "approved", req'.status = "approved"
  PROVE  \E w \in Workers : Acts(w) /\ RecordDecided(w) /\ job[w].input.approve
<1> USE DEF Base
<1>1. ~(Around \/ UNCHANGED vars)
  BY DEF Around, TermPasses, ItemDecided, CheckDecided, CheckErased, HoldEnds, pauseVars, vars, Typed, ReqType
<1>2. PICK w \in Workers : Acts(w)  BY <1>1, Actors
<1>3. ~PurgeOwn(w) /\ ~PurgeDue(w)  BY PurgeTyped DEF PurgeOwn, PurgeDue
<1>4. ASSUME NEW s \in {"needs_review", "rejected"}, NEW code \in Codes, RecordOutcome(s, code)
      PROVE  FALSE
  BY <1>4, RecordedRow
<1>5. ~Rejects(w) /\ ~RecordReview(w) /\ ~LapseReview(w)
  <2>1. engine.code \in Codes /\ "none" \in Codes /\ "REVIEW_LAPSED" \in Codes  BY DEF Typed, Codes
  <2> QED  BY <1>4, <2>1 DEF Rejects, RecordReview, LapseReview
<1>6. RecordDecided(w)  BY <1>2, <1>3, <1>5, WalkRow
<1>7. job[w].input.approve
  <2>1. job[w].input.code \in Codes  BY DEF Typed, JobType, InputType
  <2> QED  BY <1>4, <1>6, <2>1 DEF RecordDecided
<1> QED  BY <1>2, <1>6, <1>7

LEMMA ApprovedLastKept ==
  ASSUME Base, ApprovedLast, [Next]_vars
  PROVE  ApprovedLast'
<1> USE DEF Base
<1>1. kind' = kind  BY KindFixed
<1>2. SUFFICES ASSUME kind.erasure, req'.status = "approved", NEW u \in Workers, Rules(u)'
               PROVE  job'[u].pc = "purge_own"
  BY <1>1 DEF ApprovedLast, Workers
<1>3. CASE req.status = "approved"
  <2>1. Rules(u)  BY <1>2, <1>3, Rulers DEF Takes, OpenReview
  <2>2. job[u].pc = "purge_own"  BY <1>2, <1>3, <2>1 DEF ApprovedLast
  <2> QED
    BY <1>2, <2>1, <2>2, RulerPlaces
       DEF RulerGoes, DecideInEngine, PurgeMatch, RecordDecision, RecordDecided, At
<1>4. CASE req.status # "approved"
  <2>1. PICK w \in Workers : Acts(w) /\ RecordDecided(w) /\ job[w].input.approve
    BY <1>2, <1>4, Approving
  <2>2. Rules(w)  BY <2>1 DEF RecordDecided, At, Rules, Deciding
  <2>3. u = w  BY <1>2, <2>1, <2>2, RulesStay
  <2>4. job'[w].pc = "purge_own"
    BY <1>2, <2>1 DEF RecordDecided, Go, Typed, JobType
  <2> QED  BY <2>3, <2>4
<1> QED  BY <1>3, <1>4

LEMMA ErasureToldKept ==
  ASSUME Base, TakesAllowed, TakesTold, ApprovedLast, ErasureTold, [Next]_vars
  PROVE  ErasureTold'
<1> USE DEF Base
<1>1. kind' = kind  BY KindFixed
<1>2. SUFFICES ASSUME kind.erasure, req'.status = "approved", ~req'.purged
               PROVE  /\ \A c \in erased' : match'[c].approved
                      /\ \A c \in Checks : match'[c].approved => check'[c].purged
  BY <1>1 DEF ErasureTold
<1>3. ~req.purged  BY <1>2, RowMoved DEF RowMoves
<1>4. \A c \in Checks : check[c].purged => check'[c].purged  BY Grows
<1>5. CASE req.status = "approved"
  <2>1. erased' = erased
    BY <1>2, <1>5, ErasedBy DEF ApprovedLast
  <2>2. match' = match
    BY <1>2, <1>5, MarkedBy DEF ApprovedLast, RecordDecision, At
  <2> QED  BY <1>2, <1>3, <1>4, <1>5, <2>1, <2>2 DEF ErasureTold
<1>6. CASE req.status # "approved"
  <2>1. PICK w \in Workers : Acts(w) /\ RecordDecided(w) /\ job[w].input.approve
    BY <1>2, <1>6, Approving
  <2>2. Rules(w) /\ job[w].pc = "record_outcome"  BY <2>1 DEF RecordDecided, At, Rules, Deciding
  <2>3. UNCHANGED <<check, match, erased>>  BY <2>1 DEF RecordDecided, orgVars, history
  <2>4. /\ \A c \in job[w].take : check[c].purged
        /\ \A c \in Checks : match[c].approved <=> c \in job[w].take
    BY <1>2, <1>3, <2>1, <2>2 DEF TakesTold
  <2>5. erased \subseteq job[w].take  BY <1>2, <1>3, <2>1, <2>2 DEF TakesAllowed
  <2>6. erased \subseteq Checks  BY DEF Typed
  <2> QED  BY <2>3, <2>4, <2>5, <2>6
<1> QED  BY <1>5, <1>6

----------------------------------------------------------------------------
(* Refusals.                                                               *)

LEMMA EngineSaysKept ==
  ASSUME Base, EngineSays, [Next]_vars
  PROVE  EngineSays'
<1> USE DEF Base, EngineSays
<1>1. req.purged => req'.purged  BY RowMoved DEF RowMoves
<1>2. CASE Around \/ UNCHANGED vars  BY <1>1, <1>2, AroundLeaves
<1>3. ASSUME NEW w \in Workers, Acts(w) PROVE EngineSays'
  <2>1. CASE PurgeOwn(w) \/ PurgeDue(w)
    BY <2>1, PurgeTyped DEF PurgeOwn, PurgeDue
  <2>2. CASE DecideInEngine(w)
    <3>1. CASE engine.status # "needs_review"
      BY <1>1, <2>2, <3>1 DEF DecideInEngine
    <3>2. CASE engine.status = "needs_review"
      <4>1. engine' = [status |-> IF job[w].input.approve THEN "approved" ELSE "rejected",
                       code |-> job[w].input.code]
        BY <2>2, <3>2 DEF DecideInEngine
      <4>2. job[w].input.approve => job[w].input.code = "none"
        BY <2>2 DEF DecideInEngine, At, Sound, Deciding
      <4> QED  BY <4>1, <4>2
    <3> QED  BY <3>1, <3>2
  <2>3. CASE UNCHANGED engine  BY <1>1, <2>3
  <2> QED  BY <1>3, <2>1, <2>2, <2>3, Writers
<1> QED  BY <1>2, <1>3, Actors

(* A review opens with a search, and stays open no longer than undecided.  *)
LEMMA OpensBy ==
  ASSUME Base, [Next]_vars, OpenReview', ~OpenReview
  PROVE  req.status = "in_progress" /\ \E w \in Workers : Acts(w) /\ RecordReview(w)
<1> USE DEF Base, OpenReview
<1>1. req.status \in Undecided /\ ~req.purged  BY RowMoved DEF RowMoves, Undecided
<1>2. req.status = "in_progress"  BY <1>1 DEF Undecided
<1>3. ~(Around \/ UNCHANGED vars)
  BY <1>2 DEF Around, TermPasses, ItemDecided, CheckDecided, CheckErased, HoldEnds, pauseVars, vars
<1>4. PICK w \in Workers : Acts(w)  BY <1>3, Actors
<1>5. req' # req  BY <1>2
<1>6. job[w].pc \notin Deciding \cup {"lapse", "purge_due"} /\ engine.status # "rejected"
  BY <1>2 DEF Fresh
<1>7. RecordReview(w)
  BY <1>4, <1>5, <1>6, WalkRow
     DEF Rejects, LapseReview, RecordDecided, PurgeOwn, PurgeDue, At, Deciding
<1> QED  BY <1>2, <1>4, <1>7

(* How a decision ends.                                                    *)
Ends(w) ==
  /\ Rules(w) /\ Acts(w) /\ ~Rules(w)'
  /\ \/ job[w].input.partial /\ job'[w].pc = job[w].back
     \/ ~OpenReview' /\ job'[w].pc = job[w].back
     \/ Drops(w)
  /\ Drops(w) => faults' = faults + 1 /\ req' = req /\ engine' = engine

LEMMA EndsSo ==
  ASSUME Base, NEW w \in Workers, Acts(w), Rules(w), ~Rules(w)'
  PROVE  Ends(w)
<1> USE DEF Base, OpenReview
<1>1. job \in [Workers -> JobType] /\ job[w] \in JobType  BY DEF Typed
<1>2. Writes(w)
  <2>1. Sound(w) /\ ~Walks(w)  BY DEF Walks
  <2> QED  BY <2>1, Shapes
<1>f. Drops(w) => faults' = faults + 1 /\ req' = req /\ engine' = engine
  BY DEF Drops, Fails
<1>r. ASSUME NEW f \in BOOLEAN, Return(w, f) PROVE job'[w].pc = job[w].back
  BY <1>r, Returned
<1>3. CASE DecideInEngine(w)
  BY <1>1, <1>3 DEF DecideInEngine, Go, JobType, Rules, Deciding
<1>4. CASE PurgeMatch(w)
  <2>1. CASE ToErase(w) # {}  BY <1>4, <2>1 DEF PurgeMatch, Rules
  <2>2. CASE ToErase(w) = {} /\ ~job[w].input.partial
    BY <1>1, <1>4, <2>2 DEF PurgeMatch, Go, JobType, Rules, Deciding
  <2>3. CASE ToErase(w) = {} /\ job[w].input.partial
    BY <1>4, <1>r, <1>f, <2>3 DEF PurgeMatch, Ends
  <2> QED  BY <2>1, <2>2, <2>3
<1>5. CASE RecordDecision(w)
  <2>1. CASE req.purged
    BY <1>5, <1>r, <1>f, <2>1 DEF RecordDecision, Ends
  <2>2. CASE ~req.purged
    BY <1>1, <1>5, <2>2 DEF RecordDecision, Go, JobType, Rules, Deciding
  <2> QED  BY <2>1, <2>2
<1>6. CASE RecordDecided(w)
  <2>1. CASE job[w].input.approve /\ kind.erasure
    BY <1>1, <1>6, <2>1 DEF RecordDecided, Go, JobType, Rules, Deciding
  <2>2. CASE ~(job[w].input.approve /\ kind.erasure)
    <3>1. job'[w].pc = job[w].back  BY <1>6, <1>r, <2>2 DEF RecordDecided
    <3>2. PICK s \in {"approved", "rejected"} : RecordOutcome(s, job[w].input.code)
      BY <1>6 DEF RecordDecided
    <3>3. job[w].input.code \in Codes  BY <1>1 DEF JobType, InputType
    <3>4. ~OpenReview'
      BY <3>2, <3>3, RecordedRow DEF Undecided, Typed, ReqType
    <3> QED  BY <1>f, <3>1, <3>4 DEF Ends
  <2> QED  BY <2>1, <2>2
<1>7. CASE PurgeOwn(w)
  <2>1. req'.purged  BY <1>7, PurgeTyped DEF PurgeOwn
  <2> QED  BY <1>7, <1>r, <1>f, <2>1 DEF PurgeOwn, Ends
<1>8. CASE Drops(w)  BY <1>8, <1>f DEF Ends
<1>9. ~Rejects(w) /\ ~SaveMatches(w) /\ ~RecordReview(w) /\ ~LapseReview(w) /\ ~PurgeDue(w)
      /\ ~\E input \in InputType : Takes(w, input)
  BY DEF Rejects, SaveMatches, RecordReview, LapseReview, PurgeDue, Takes, At, Rules, Deciding
<1> QED  BY <1>2, <1>3, <1>4, <1>5, <1>6, <1>7, <1>8, <1>9 DEF Writes

LEMMA LetsGo ==
  ASSUME Base, [Next]_vars, reviewLock # Free, reviewLock' = Free
  PROVE  \E w \in Workers : reviewLock = w /\ Ends(w)
<1> USE DEF Base
<1>1. PICK w \in Workers : Acts(w)  BY Actors, AroundLeaves
<1>2. Free \notin Workers  BY DataAssumption
<1>3. reviewLock = w /\ ~Rules(w)'  BY <1>1, <1>2, RulesStay DEF ReviewMoves
<1>4. Rules(w)  BY <1>3 DEF LocksHeld
<1> QED  BY <1>1, <1>3, <1>4, EndsSo

(* A refusal is said by who decides it first.                              *)
LEMMA SaidBy ==
  ASSUME Base, [Next]_vars, NEW code \in Refusals, Said(code)'
  PROVE  Said(code) \/ \E w \in Workers, input \in InputType : Takes(w, input) /\ input.code = code
<1> USE DEF Base
<1>0. code \notin {"none", "REVIEW_LAPSED"}  BY DEF Refusals
<1>1. CASE \E u \in Workers : Rules(u)' /\ job'[u].input.code = code
  <2>1. PICK u \in Workers : Rules(u)' /\ job'[u].input.code = code  BY <1>1
  <2>2. CASE Rules(u) /\ job'[u].input = job[u].input  BY <2>1, <2>2 DEF Said
  <2>3. ASSUME NEW input \in InputType, Takes(u, input) PROVE input.code = code
    BY <2>1, <2>3 DEF Takes, Typed, JobType
  <2> QED  BY <2>1, <2>2, <2>3, Rulers
<1>2. CASE engine'.code = code
  <2>1. CASE engine'.code = engine.code  BY <1>2, <2>1 DEF Said
  <2>2. CASE engine'.code # engine.code
    <3>1. PICK w \in Workers : Acts(w)  BY <2>2, Actors, AroundLeaves
    <3>2. DecideInEngine(w)
      BY <2>2, <3>1, Writers, PurgeTyped DEF PurgeOwn, PurgeDue
    <3>3. engine'.code = job[w].input.code  BY <2>2, <3>2 DEF DecideInEngine
    <3>4. Rules(w)  BY <3>2 DEF DecideInEngine, At, Rules, Deciding
    <3> QED  BY <1>2, <3>3, <3>4 DEF Said
  <2> QED  BY <2>1, <2>2
<1>3. CASE req'.code = code
  <2>1. CASE req'.code = req.code  BY <1>3, <2>1 DEF Said
  <2>2. CASE req'.code # req.code
    <3>1. ~(Around \/ UNCHANGED vars)
      BY <2>2 DEF Around, TermPasses, ItemDecided, CheckDecided, CheckErased, HoldEnds, pauseVars, vars,
                  Typed, ReqType
    <3>2. PICK w \in Workers : Acts(w)  BY <3>1, Actors
    <3>3. engine.code \in Codes /\ "none" \in Codes /\ "REVIEW_LAPSED" \in Codes
          /\ job[w].input.code \in Codes
      BY DEF Typed, JobType, InputType, Codes
    <3>4. CASE Rejects(w)
      BY <1>3, <2>2, <3>3, <3>4, RecordedRow DEF Rejects, Said
    <3>5. CASE RecordReview(w) \/ LapseReview(w)
      BY <1>0, <1>3, <2>2, <3>3, <3>5, RecordedRow DEF RecordReview, LapseReview
    <3>6. CASE RecordDecided(w)
      <4>1. PICK s \in {"approved", "rejected"} : RecordOutcome(s, job[w].input.code)
        BY <3>6 DEF RecordDecided
      <4>2. job[w].input.code = code  BY <1>3, <2>2, <3>3, <4>1, RecordedRow
      <4>3. Rules(w)  BY <3>6 DEF RecordDecided, At, Rules, Deciding
      <4> QED  BY <4>2, <4>3 DEF Said
    <3>7. ~PurgeOwn(w) /\ ~PurgeDue(w)  BY <2>2, PurgeTyped DEF PurgeOwn, PurgeDue
    <3> QED  BY <2>2, <3>2, <3>4, <3>5, <3>6, <3>7, WalkRow
  <2> QED  BY <2>1, <2>2
<1> QED  BY <1>1, <1>2, <1>3 DEF Said

----------------------------------------------------------------------------
(* What is erased.                                                         *)

LEMMA ErasesKept ==
  ASSUME Base, TakesAllowed, ErasesProvenOrTicked, [Next]_vars
  PROVE  ErasesProvenOrTicked'
<1> USE DEF Base
<1>1. SUFFICES ASSUME NEW c \in erased', ~req'.purged
               PROVE  SureMatch(c)' \/ c \in ticked'
  BY DEF ErasesProvenOrTicked
<1>2. ticked \subseteq ticked'  BY Grows
<1>3. CASE c \in erased
  <2>1. c \in Checks  BY <1>3 DEF Typed
  <2>2. req.status # "in_progress"  BY <1>3 DEF Fresh
  <2>3. ~req.purged /\ (SureMatch(c)' <=> SureMatch(c))  BY <1>1, <2>1, <2>2, FoundStays
  <2> QED  BY <1>2, <1>3, <2>3 DEF ErasesProvenOrTicked
<1>4. CASE c \notin erased
  <2>1. PICK w \in Workers, d \in Checks :
           /\ Rules(w) /\ job[w].pc = "erase" /\ d \in job[w].take /\ ~check[d].purged
           /\ check' = Purged(d) /\ erased' = erased \cup {d}
           /\ UNCHANGED <<kind, req, engine, free, match, job, reviewLock, ticked, faults>>
    BY <1>4, ErasedBy
  <2>2. c = d  BY <1>4, <2>1
  <2>3. SureMatch(d) \/ d \in ticked \/ req.purged  BY <2>1 DEF TakesAllowed
  <2> QED  BY <1>1, <2>1, <2>2, <2>3 DEF SureMatch
<1> QED  BY <1>3, <1>4

(* The property HeldIsKept, of one step.                                   *)
LEMMA KeepsHeld ==
  ASSUME Base, TakesAllowed, [Next]_vars
  PROVE  \A c \in erased' \ erased :
           kind.retention /\ kind.checks[c].status = "approved" => c \in free
<1> USE DEF Base
<1>1. SUFFICES ASSUME NEW c \in erased' \ erased, Proven(c)
               PROVE  c \in free
  BY DEF Proven
<1>2. PICK w \in Workers, d \in Checks :
         /\ Rules(w) /\ job[w].pc = "erase" /\ d \in job[w].take /\ ~check[d].purged
         /\ check' = Purged(d) /\ erased' = erased \cup {d}
         /\ UNCHANGED <<kind, req, engine, free, match, job, reviewLock, ticked, faults>>
  BY <1>1, ErasedBy
<1>3. c = d  BY <1>1, <1>2
<1>4. kind.erasure  BY <1>2 DEF Sound
<1> QED  BY <1>1, <1>2, <1>3, <1>4 DEF TakesAllowed

(* Only who decides lets go of a review, and only a review that is over,   *)
(* but for an automatic erasure that leaves the rest, and for a fault.     *)
LEMMA LeavesOpen ==
  ASSUME Base, [Next]_vars, OpenReview', reviewLock' = Free
  PROVE  \/ reviewLock = Free
         \/ \E w \in Workers : /\ Rules(w) /\ reviewLock = w /\ Acts(w)
                               /\ job[w].input.partial \/ (Drops(w) /\ faults' > 0)
<1>1. SUFFICES ASSUME reviewLock # Free
               PROVE  \E w \in Workers : /\ Rules(w) /\ reviewLock = w /\ Acts(w)
                                         /\ job[w].input.partial \/ (Drops(w) /\ faults' > 0)
  OBVIOUS
<1>2. PICK w \in Workers : reviewLock = w /\ Ends(w)  BY <1>1, LetsGo
<1>3. faults \in Nat  BY DEF Base, Typed
<1> QED  BY <1>2, <1>3 DEF Ends

(* Nobody decides an open review while another's refusal of it stands.     *)
LEMMA RefusalStandsKept ==
  ASSUME Base, EngineSays, RefusalStands, [Next]_vars
  PROVE  RefusalStands'
<1> USE DEF Base
<1>1. kind' = kind /\ faults' >= faults  BY KindFixed, Grows
<1>2. SUFFICES ASSUME faults' = 0 \/ kind.engine = "approved", NEW code \in Refusals, Said(code)'
               PROVE  /\ \A w \in Workers : Rules(w)' => job'[w].input.code = code
                      /\ OpenReview' => reviewLock' # Free
  BY <1>1 DEF RefusalStands, Workers
<1>3. faults \in Nat /\ faults' \in Nat  BY TypedKept DEF Typed
<1>4. faults = 0 \/ kind.engine = "approved"  BY <1>1, <1>2, <1>3
<1>5. CASE Said(code)
  <2>1. /\ \A w \in Workers : Rules(w) => job[w].input.code = code
        /\ OpenReview => reviewLock # Free
    BY <1>4, <1>5 DEF RefusalStands
  <2>2. ASSUME NEW w \in Workers, Rules(w)' PROVE job'[w].input.code = code
    <3>1. ~\E input \in InputType : Takes(w, input)  BY <2>1 DEF Takes
    <3> QED  BY <2>1, <2>2, <3>1, Rulers
  <2>3. ASSUME OpenReview', reviewLock' = Free PROVE FALSE
    <3>1. OpenReview
      <4>1. SUFFICES ASSUME ~OpenReview PROVE FALSE  OBVIOUS
      <4>2. req.status = "in_progress"  BY <2>3, <4>1, OpensBy
      <4>3. req.code = "none" /\ engine.code = "none" /\ \A w \in Workers : ~Rules(w)
        <5>1. req.status \in Undecided  BY <4>2 DEF Undecided
        <5>2. ~req.purged /\ engine.status # "rejected"  BY <4>2 DEF Fresh
        <5> QED  BY <4>2, <5>1, <5>2, RulesDecided DEF RowSound, EngineSays
      <4> QED  BY <1>5, <4>3 DEF Said, Refusals
    <3>2. PICK w \in Workers : /\ Rules(w) /\ reviewLock = w /\ Acts(w)
                               /\ job[w].input.partial \/ (Drops(w) /\ faults' > 0)
      BY <2>1, <2>3, <3>1, LeavesOpen
    <3>3. job[w].input.code = code /\ code # "none"  BY <2>1, <3>2 DEF Refusals
    <3>4. ~job[w].input.partial  BY <3>2, <3>3 DEF Sound, Rules
    <3>5. kind.engine = "approved"  BY <1>2, <3>2, <3>4
    <3>6. Drops(w)  BY <3>2, <3>4
    <3>7. req' = req /\ engine' = engine  BY <3>6 DEF Drops, Fails
    <3>8. req.code = "none" /\ engine.code = "none"
      BY <3>1, <3>5 DEF RowSound, OpenReview, Undecided
    <3>9. PICK u \in Workers : Rules(u)'
      BY <1>2, <3>3, <3>7, <3>8 DEF Said
    <3>10. reviewLock' = u  BY <3>9, LocksKept DEF LocksHeld
    <3> QED  BY <2>3, <3>10, DataAssumption
  <2> QED  BY <2>2, <2>3
<1>6. ASSUME NEW w \in Workers, NEW input \in InputType, Takes(w, input), input.code = code
      PROVE  /\ \A u \in Workers : Rules(u)' => job'[u].input.code = code
             /\ OpenReview' => reviewLock' # Free
  <2>1. reviewLock' = w /\ reviewLock = Free  BY <1>6 DEF Takes
  <2>2. job'[w].input = input  BY <1>6 DEF Takes, Typed, JobType
  <2>3. \A u \in Workers : Rules(u)' => u = w  BY <2>1, LocksKept DEF LocksHeld
  <2> QED  BY <1>6, <2>1, <2>2, <2>3, DataAssumption
<1> QED  BY <1>2, <1>5, <1>6, SaidBy

(* Who erases approves.                                                    *)
LEMMA SureKeptKept ==
  ASSUME Base, ErasedGone, RefusalStands, SureKept, [Next]_vars
  PROVE  SureKept'
<1> USE DEF Base
<1>1. kind' = kind /\ faults' >= faults  BY KindFixed, Grows
<1>2. faults \in Nat /\ faults' \in Nat  BY TypedKept DEF Typed
<1> DEFINE code == "MANUAL_REVIEW_REJECTED"
<1>3. SUFFICES ASSUME faults' = 0 \/ kind.engine = "approved", Said(code)',
                      NEW c \in erased', SureMatch(c)'
               PROVE  FALSE
  BY <1>1 DEF SureKept
<1>4. c \in Checks /\ ~req'.purged
  <2>1. Typed' /\ RowSound'  BY TypedKept, RowSoundKept
  <2>2. c \in Checks  BY <2>1 DEF Typed
  <2>3. ~SureMatch(c)' \/ match' # NoMatches  BY <2>2 DEF SureMatch, NoMatches, NoMatch
  <2>4. NoMatches' = NoMatches  BY DEF NoMatches, NoMatch
  <2> QED  BY <1>3, <2>1, <2>2, <2>3, <2>4 DEF RowSound
<1>5. code \in Refusals  BY DEF Refusals
<1>6. CASE Said(code)
  <2>1. /\ \A w \in Workers : Rules(w) => job[w].input.code = code
        /\ \A x \in erased : ~SureMatch(x)
    BY <1>1, <1>2, <1>3, <1>5, <1>6 DEF RefusalStands, SureKept
  <2>2. CASE c \in erased
    <3>1. req.status # "in_progress"  BY <2>2 DEF Fresh
    <3> QED  BY <1>3, <1>4, <2>1, <2>2, <3>1, FoundStays
  <2>3. CASE c \notin erased
    <3>1. PICK w \in Workers : Rules(w) /\ job[w].pc = "erase"  BY <2>3, ErasedBy
    <3> QED  BY <2>1, <3>1 DEF Sound, Rules
  <2> QED  BY <2>2, <2>3
<1>7. ASSUME NEW w \in Workers, NEW input \in InputType, Takes(w, input), input.code = code
      PROVE  FALSE
  <2>1. UNCHANGED <<match, erased>> /\ ~req.purged  BY <1>7 DEF Takes, OpenReview
  <2>2. kind.erasure /\ check[c].purged /\ c \in Matched /\ SureMatch(c)
    BY <1>3, <2>1 DEF ErasedGone, SureMatch
  <2> QED  BY <1>7, <2>2 DEF Takes
<1> QED  BY <1>3, <1>5, <1>6, <1>7, SaidBy

LEMMA LawKeptKept ==
  ASSUME Base, RefusalStands, LawKept, LawFirst, [Next]_vars
  PROVE  LawKept'
<1> USE DEF Base
<1>1. faults' >= faults  BY Grows
<1>2. faults \in Nat /\ faults' \in Nat  BY TypedKept DEF Typed
<1> DEFINE code == "LEGAL_RETENTION"
<1>3. SUFFICES ASSUME faults' = 0, Said(code)', erased' # {}
               PROVE  FALSE
  BY DEF LawKept
<1>4. faults = 0 /\ code \in Refusals  BY <1>1, <1>2, <1>3 DEF Refusals
<1>5. CASE Said(code)
  <2>1. /\ \A w \in Workers : Rules(w) => job[w].input.code = code
        /\ erased = {}
    BY <1>4, <1>5 DEF RefusalStands, LawKept
  <2>2. PICK w \in Workers : Rules(w) /\ job[w].pc = "erase"  BY <1>3, <2>1, ErasedBy
  <2> QED  BY <2>1, <2>2 DEF Sound, Rules
<1>6. ASSUME NEW w \in Workers, NEW input \in InputType, Takes(w, input), input.code = code
      PROVE  FALSE
  <2>1. erased' = erased /\ OpenReview /\ reviewLock = Free /\ job[w].pc = "lock" /\ job[w].why = "law"
    BY <1>6 DEF Takes, At
  <2>2. Unsettled(w)  BY <2>1 DEF Sound, Unsettled, Settling
  <2> QED  BY <1>3, <1>4, <2>1, <2>2 DEF LawFirst
<1> QED  BY <1>3, <1>4, <1>5, <1>6, SaidBy

LEMMA LawFirstKept ==
  ASSUME Base, LawFirst, [Next]_vars
  PROVE  LawFirst'
<1> USE DEF Base
<1>1. faults' >= faults  BY Grows
<1>2. faults \in Nat /\ faults' \in Nat  BY TypedKept DEF Typed
<1>3. SUFFICES ASSUME faults' = 0, OpenReview', reviewLock' = Free, erased' # {},
                      NEW u \in Workers, Unsettled(u)'
               PROVE  FALSE
  BY DEF LawFirst, Workers
<1>4. faults = 0  BY <1>1, <1>2, <1>3
<1>5. erased # {}
  <2>1. SUFFICES ASSUME erased' # erased PROVE FALSE  BY <1>3
  <2>2. PICK w \in Workers : Rules(w) /\ reviewLock' = reviewLock  BY <2>1, ErasedBy
  <2> QED  BY <1>3, <2>2, DataAssumption DEF LocksHeld
<1>6. req.status # "in_progress"  BY <1>5 DEF Fresh
<1>7. OpenReview  BY <1>3, <1>6, OpensBy
<1>8. Unsettled(u)
  <2>1. CASE job'[u] = job[u]  BY <1>3, <2>1 DEF Unsettled
  <2>2. CASE Acts(u)  BY <1>3, <1>6, <2>2, Arrivals DEF Arrives
  <2>3. ASSUME NEW w \in Workers, Acts(w), w # u PROVE job'[u] = job[u]
    BY <2>3, JobsTyped DEF Only
  <2> QED  BY <2>1, <2>2, <2>3, Actors, AroundLeaves
<1>9. reviewLock # Free  BY <1>4, <1>5, <1>7, <1>8 DEF LawFirst
<1>10. PICK w \in Workers : Rules(w) /\ job[w].input.partial
  BY <1>3, <1>9, LeavesOpen
<1>11. job[w].why = "auto" /\ job[w].back = "idle"  BY <1>10 DEF Sound, Rules
<1>12. u = w
  <2>1. Searches(w)  BY <1>10, <1>11 DEF Searches, Rules
  <2>2. Searches(u)  BY <1>8 DEF Searches, Unsettled
  <2> QED  BY <2>1, <2>2 DEF LocksHeld
<1> QED  BY <1>8, <1>10, <1>11, <1>12 DEF Unsettled, Rules, Deciding, Locked, Settling

----------------------------------------------------------------------------
(* The pause.                                                              *)

(* Who pauses goes through what is open once more.                         *)
LEMMA PausedBy ==
  ASSUME Base, [Next]_vars, ~paused, paused'
  PROVE  \E w \in Workers : job'[w].pc = "second_pass"
<1> USE DEF Base, orgVars, pauseVars
<1>1. PICK w \in Workers : Acts(w)  BY Actors, AroundLeaves
<1>2. job \in [Workers -> JobType]  BY DEF Typed
<1>3. CASE GoOn(w)
  <2>1. ~SetPause(w) => paused' = paused
    BY <1>3 DEF GoOn, TryLockMatching, Relook, Search, SaveMatches, RecordReview, RejectIfPaused,
                DeclineHeldErasure, HandleErasure, DecideInEngine, PurgeMatch, RecordDecision,
                RecordDecided, PurgeOwn, ListOpenReviews, RejectPendingItems,
                RejectItemIfPaused, ListPurgeDue, LapseReview, PurgeDue
  <2>2. SetPause(w) => job'[w].pc = "second_pass"
    BY <1>2 DEF SetPause, Go, JobType
  <2> QED  BY <2>1, <2>2
<1>4. CASE LockReview(w) \/ Begin(w) \/ Fails(w)
  BY <1>4 DEF LockReview, Begin, ReadToReconcile, DecideReview, BeginPause, Resume, OpenItem,
              BeginSweep, Fails
<1> QED  BY <1>1, <1>3, <1>4 DEF Acts

(* Who brings an item to review reads the pause after it.                  *)
LEMMA ItemBy ==
  ASSUME Base, [Next]_vars, item # "pending", item' = "pending"
  PROVE  \E w \in Workers : job'[w].pc = "item_pause"
<1> USE DEF Base, orgVars, pauseVars, aroundVars
<1>0. ~(Around \/ UNCHANGED vars)
  BY DEF Around, ItemDecided, TermPasses, CheckDecided, CheckErased, HoldEnds, vars
<1>1. PICK w \in Workers : Acts(w)  BY <1>0, Actors
<1>2. job \in [Workers -> JobType]  BY DEF Typed
<1>3. CASE GoOn(w)
  BY <1>3 DEF GoOn, TryLockMatching, Relook, Search, SaveMatches, RecordReview, RejectIfPaused,
              DeclineHeldErasure, HandleErasure, DecideInEngine, PurgeMatch, RecordDecision,
              RecordDecided, PurgeOwn, ListOpenReviews, RejectPendingItems, SetPause,
              RejectItemIfPaused, ListPurgeDue, LapseReview, PurgeDue
<1>4. CASE Begin(w)
  <2>1. ~OpenItem(w) => item' = item
    BY <1>4 DEF Begin, ReadToReconcile, DecideReview, BeginPause, Resume, BeginSweep
  <2>2. OpenItem(w) => job'[w].pc = "item_pause"
    BY <1>2 DEF OpenItem, Go, JobType
  <2> QED  BY <2>1, <2>2
<1>5. CASE LockReview(w) \/ Fails(w)
  BY <1>5 DEF LockReview, Fails
<1> QED  BY <1>1, <1>3, <1>4, <1>5 DEF Acts

(* What a call does from each place the pause matters for.                 *)
LEMMA FromHere ==
  ASSUME Base, NEW w \in Workers, Acts(w), faults' = faults
  PROVE  /\ job[w].pc = "read_pause" => RejectIfPaused(w)
         /\ job[w].pc = "second_pass" => ListOpenReviews(w)
         /\ job[w].pc = "lock" => LockReview(w)
         /\ job[w].pc \in {"item_pause", "item_reject"} => RejectItemIfPaused(w)
         /\ job[w].pc = "second_items" => RejectPendingItems(w)
<1> USE DEF Base, At
<1>0. ~Fails(w)  BY DEF Fails, Typed
<1>1. CASE GoOn(w)
  <2>1. CASE TryLockMatching(w) \/ Relook(w) \/ Search(w) \/ SaveMatches(w) \/ RecordReview(w)
               \/ DeclineHeldErasure(w) \/ HandleErasure(w) \/ DecideInEngine(w)
    BY <2>1 DEF TryLockMatching, Relook, Search, SaveMatches, RecordReview, DeclineHeldErasure,
                HandleErasure, DecideInEngine
  <2>2. CASE PurgeMatch(w) \/ RecordDecision(w) \/ RecordDecided(w) \/ PurgeOwn(w) \/ SetPause(w)
               \/ ListPurgeDue(w) \/ LapseReview(w) \/ PurgeDue(w)
    BY <2>2 DEF PurgeMatch, RecordDecision, RecordDecided, PurgeOwn, SetPause, ListPurgeDue,
                LapseReview, PurgeDue
  <2>3. CASE RejectIfPaused(w) \/ ListOpenReviews(w) \/ RejectItemIfPaused(w) \/ RejectPendingItems(w)
    BY <2>3 DEF RejectIfPaused, ListOpenReviews, RejectItemIfPaused, RejectPendingItems
  <2> QED  BY <1>1, <2>1, <2>2, <2>3 DEF GoOn
<1>2. CASE LockReview(w)
  BY <1>2 DEF LockReview
<1>3. CASE Begin(w)
  BY <1>3 DEF Begin, ReadToReconcile, DecideReview, BeginPause, Resume, OpenItem, BeginSweep
<1> QED  BY <1>0, <1>1, <1>2, <1>3 DEF Acts

(* An open review of a paused organisation keeps who will refuse it.       *)
LEMMA RefusesStill ==
  ASSUME Base, [Next]_vars, NEW v \in Workers, Refuses(v), paused, faults' = faults,
         OpenReview, OpenReview'
  PROVE  Refuses(v)'
<1> USE DEF Base
<1>1. job \in [Workers -> JobType] /\ job[v] \in JobType /\ faults \in Nat  BY DEF Typed
<1>2. CASE job'[v] = job[v]  BY <1>2 DEF Refuses, Rules
<1>3. CASE Acts(v)
  <2>1. CASE job[v].pc = "read_pause"
    <3>1. RejectIfPaused(v)  BY <1>3, <2>1, FromHere
    <3> QED  BY <1>1, <3>1 DEF RejectIfPaused, Refuses, JobType
  <2>2. CASE job[v].pc = "second_pass"
    <3>1. ListOpenReviews(v)  BY <1>3, <2>2, FromHere
    <3>2. job'[v].pc = "lock" /\ job'[v].why = "pause"  BY <1>1, <3>1 DEF ListOpenReviews, JobType
    <3> QED  BY <3>2 DEF Refuses
  <2>3. CASE job[v].pc = "lock" /\ job[v].why = "pause"
    <3>1. PICK input \in InputType : Takes(v, input)
      BY <1>3, <2>3, FromHere, LockShapes DEF Desists
    <3>2. ~input.partial /\ job'[v].input = input /\ job'[v].pc \in {"erase", "decide_engine"}
      BY <1>1, <2>3, <3>1 DEF Takes, JobType
    <3> QED  BY <3>2 DEF Refuses, Rules, Deciding
  <2>4. CASE Rules(v) /\ ~job[v].input.partial
    <3>1. CASE Rules(v)'
      BY <2>4, <3>1, Rulers DEF Refuses
    <3>2. CASE ~Rules(v)'
      BY <1>1, <1>3, <2>4, <3>2, EndsSo DEF Ends
    <3> QED  BY <3>1, <3>2
  <2> QED  BY <2>1, <2>2, <2>3, <2>4 DEF Refuses
<1>4. ASSUME NEW w \in Workers, Acts(w), w # v PROVE job'[v] = job[v]
  BY <1>4, JobsTyped DEF Only
<1> QED  BY <1>2, <1>3, <1>4, Actors, AroundLeaves

(* A pending item of a paused organisation keeps who will reject it.       *)
LEMMA EmptiesStill ==
  ASSUME Base, [Next]_vars, NEW v \in Workers, Empties(v), paused, faults' = faults,
         item = "pending", item' = "pending"
  PROVE  Empties(v)'
<1> USE DEF Base
<1>1. job \in [Workers -> JobType] /\ job[v] \in JobType /\ faults \in Nat  BY DEF Typed
<1>2. CASE job'[v] = job[v]  BY <1>2 DEF Empties
<1>3. CASE Acts(v)
  <2>1. CASE job[v].pc \in {"item_pause", "item_reject"}
    <3>1. RejectItemIfPaused(v)  BY <1>3, <2>1, FromHere
    <3> QED  BY <1>1, <3>1 DEF RejectItemIfPaused, Empties, JobType, Go, At
  <2>2. CASE job[v].pc = "second_pass"
    <3>1. ListOpenReviews(v)  BY <1>3, <2>2, FromHere
    <3>2. job'[v].back = "second_items"
      BY <1>1, <2>2, <3>1 DEF ListOpenReviews, AfterPass, JobType
    <3> QED  BY <3>2 DEF Empties
  <2>3. CASE job[v].pc = "second_items"
    <3>1. RejectPendingItems(v)  BY <1>3, <2>3, FromHere
    <3> QED  BY <3>1 DEF RejectPendingItems
  <2>4. CASE job[v].back = "second_items" /\ job[v].pc # "second_items"
    <3>1. job[v].pc = "lock" \/ Rules(v)  BY <2>4 DEF Sound, Rules
    <3>2. CASE job[v].pc = "lock"
      <4>1. CASE Desists(v)
        BY <2>4, <4>1, Returned DEF Desists, Empties
      <4>2. ASSUME NEW input \in InputType, Takes(v, input) PROVE job'[v].back = "second_items"
        BY <1>1, <2>4, <4>2 DEF Takes, JobType
      <4> QED  BY <1>3, <3>2, <4>1, <4>2, FromHere, LockShapes DEF Empties
    <3>3. CASE Rules(v)
      <4>1. CASE Rules(v)'
        BY <2>4, <3>3, <4>1, Rulers DEF Empties
      <4>2. CASE ~Rules(v)'
        BY <1>1, <1>3, <2>4, <3>3, <4>2, EndsSo DEF Ends, Empties
      <4> QED  BY <4>1, <4>2
    <3> QED  BY <3>1, <3>2, <3>3
  <2> QED  BY <2>1, <2>2, <2>3, <2>4 DEF Empties
<1>4. ASSUME NEW w \in Workers, Acts(w), w # v PROVE job'[v] = job[v]
  BY <1>4, JobsTyped DEF Only
<1> QED  BY <1>2, <1>3, <1>4, Actors, AroundLeaves

LEMMA PauseSeenKept ==
  ASSUME Base, PauseSeen, [Next]_vars
  PROVE  PauseSeen'
<1> USE DEF Base
<1>1. faults' >= faults  BY Grows
<1>2. faults \in Nat /\ faults' \in Nat /\ job \in [Workers -> JobType]  BY TypedKept DEF Typed
<1>3. SUFFICES ASSUME faults' = 0, paused'
               PROVE  /\ OpenReview' => \E w \in Workers : Refuses(w)'
                      /\ item' = "pending" => \E w \in Workers : Empties(w)'
  BY DEF PauseSeen, Workers
<1>4. faults = 0 /\ faults' = faults  BY <1>1, <1>2, <1>3
<1>5. CASE ~paused
  <2>1. PICK w \in Workers : job'[w].pc = "second_pass"  BY <1>3, <1>5, PausedBy
  <2>2. Refuses(w)' /\ Empties(w)'  BY <2>1 DEF Refuses, Empties
  <2> QED  BY <2>2
<1>6. CASE paused
  <2>1. ASSUME OpenReview' PROVE \E w \in Workers : Refuses(w)'
    <3>1. CASE OpenReview
      <4>1. PICK v \in Workers : Refuses(v)  BY <1>4, <1>6, <3>1 DEF PauseSeen
      <4> QED  BY <1>4, <1>6, <2>1, <3>1, <4>1, RefusesStill
    <3>2. CASE ~OpenReview
      <4>1. PICK w \in Workers : RecordReview(w)  BY <2>1, <3>2, OpensBy
      <4>2. job'[w].pc = "read_pause"  BY <1>2, <4>1 DEF RecordReview, Go, JobType
      <4> QED  BY <4>2 DEF Refuses
    <3> QED  BY <3>1, <3>2
  <2>2. ASSUME item' = "pending" PROVE \E w \in Workers : Empties(w)'
    <3>1. CASE item = "pending"
      <4>1. PICK v \in Workers : Empties(v)  BY <1>4, <1>6, <3>1 DEF PauseSeen
      <4> QED  BY <1>4, <1>6, <2>2, <3>1, <4>1, EmptiesStill
    <3>2. CASE item # "pending"
      <4>1. PICK w \in Workers : job'[w].pc = "item_pause"  BY <2>2, <3>2, ItemBy
      <4> QED  BY <4>1 DEF Empties
    <3> QED  BY <3>1, <3>2
  <2> QED  BY <2>1, <2>2
<1> QED  BY <1>5, <1>6

----------------------------------------------------------------------------
(* The invariant holds.                                                    *)

LEMMA Starts ==
  ASSUME Init
  PROVE  IInv
<1> USE DEF Init
<1>1. /\ Idle.pc = "idle" /\ Idle.back = "idle" /\ Idle.why = "none"
      /\ Idle \in JobType
  BY IdleTyped DEF Idle
<1>2. \A w \in Workers : job[w] = Idle  OBVIOUS
<1> HIDE DEF Idle
<1>3. Typed
  <2>1. kind.engine \in {"approved", "needs_review"} /\ "none" \in Codes  BY KindTypes DEF Codes
  <2>2. check \in [Checks -> CheckType]  BY KindTypes DEF CheckType
  <2>3. match \in [Checks -> MatchType]  BY DEF NoMatches, NoMatch, MatchType
  <2>4. req \in ReqType  BY <2>1 DEF ReqType, Undecided
  <2>5. job \in [Workers -> JobType]  BY <1>1
  <2> QED  BY <2>1, <2>2, <2>3, <2>4, <2>5 DEF Typed
<1>4. \A w \in Workers : ~Rules(w) /\ ~Searches(w) /\ ~Unsettled(w)
  BY <1>1, <1>2 DEF Rules, Searches, Unsettled, Deciding, Locked, Settling
<1>5. \A w \in Workers : Sound(w)
  BY <1>1, <1>2 DEF Sound, Deciding
<1>6. LocksHeld  BY <1>4, DataAssumption DEF LocksHeld
<1>7. Fresh /\ SearchOpen /\ RowSound /\ EngineSays
  <2>1. kind.engine \in {"approved", "needs_review"}  BY KindTypes
  <2> QED  BY <1>1, <1>2, <2>1 DEF Fresh, SearchOpen, RowSound, EngineSays, Deciding, Searching, Undecided
<1>8. ErasedGone /\ ApprovedStays /\ TakesAllowed /\ TakesTold /\ ApprovedLast
  BY <1>4 DEF ErasedGone, ApprovedStays, TakesAllowed, TakesTold, ApprovedLast
<1>9. RefusalStands /\ SureKept /\ LawKept /\ LawFirst /\ PauseSeen
  BY <1>4 DEF RefusalStands, SureKept, LawKept, LawFirst, PauseSeen, OpenReview
<1>10. ErasureTold /\ ErasesProvenOrTicked  BY DEF ErasureTold, ErasesProvenOrTicked
<1> QED  BY <1>3, <1>5, <1>6, <1>7, <1>8, <1>9, <1>10 DEF IInv, Kept

LEMMA Stays ==
  ASSUME IInv, [Next]_vars
  PROVE  IInv'
<1>1. Base  BY DEF IInv, Kept, Base
<1>2. Base'  BY <1>1, BaseKept
<1>3. EngineSays' /\ ErasedGone' /\ ApprovedStays'
  BY <1>1, EngineSaysKept, ErasedGoneKept, ApprovedStaysKept DEF IInv, Kept
<1>4. TakesAllowed' /\ TakesTold' /\ ApprovedLast'
  BY <1>1, TakesAllowedKept, TakesToldKept, ApprovedLastKept DEF IInv, Kept
<1>5. RefusalStands' /\ SureKept'
  BY <1>1, RefusalStandsKept, SureKeptKept DEF IInv, Kept
<1>6. LawKept' /\ LawFirst' /\ PauseSeen'
  BY <1>1, LawKeptKept, LawFirstKept, PauseSeenKept DEF IInv, Kept
<1>7. ErasureTold' /\ ErasesProvenOrTicked'
  BY <1>1, ErasureToldKept, ErasesKept DEF IInv, Kept
<1> QED  BY <1>2, <1>3, <1>4, <1>5, <1>6, <1>7 DEF IInv, Kept, Base

LEMMA Always == Spec => []IInv
<1>1. Init => IInv  BY Starts
<1>2. IInv /\ [Next]_vars => IInv'  BY Stays
<1> QED  BY <1>1, <1>2, PTL DEF Spec

----------------------------------------------------------------------------
(* The theorems.                                                           *)

(* The request, the other sessions, the matches and the locks have their   *)
(* types, and exactly the call that decides holds the review lock          *)
(* (decideDataRequest and purgeMatches run under LockReview).              *)
THEOREM TypeCorrect == Spec => []TypeOK
<1>1. IInv => TypeOK
  BY DEF IInv, Kept, Typed, TypeOK, ReqType, CheckType, MatchType, LocksHeld, Rules
<1> QED  BY <1>1, Always, PTL

(* The person is told what was done: the search of an open review is never *)
(* replaced (matchDataRequest), an approval tells all that was erased      *)
(* (withPurgedMatches), a reviewer's refusal follows no erasure of a sure  *)
(* match (refusesPartlyErased) and a refusal by law no erasure at all      *)
(* (declineHeldErasure).                                                   *)
THEOREM Honest == Spec => AnswerHonest
<1> DEFINE Found == \A c \in Checks : match'[c].level # match[c].level
                      => req.status = "in_progress" \/ (req'.purged /\ ~req.purged)
<1>1. IInv /\ [Next]_vars => [Found]_vars
  BY LevelsStay DEF IInv, Kept
<1>2. IInv => RefusalKeepsSure
  <2>1. "MANUAL_REVIEW_REJECTED" \in Refusals  BY DEF Refusals
  <2> QED  BY DEF IInv, Kept, SureKept, Said, RefusalKeepsSure
<1>3. IInv => ErasureTold /\ LawRefusalErasesNothing
  BY DEF IInv, Kept, LawKept, Said, LawRefusalErasesNothing
<1>4. IInv => RefusalKeepsSure /\ ErasureTold /\ LawRefusalErasesNothing  BY <1>2, <1>3
<1>5. Spec => [][Found]_vars
  BY <1>1, Always, PTL DEF Spec
<1> QED  BY <1>4, <1>5, Always, PTL DEF AnswerHonest, FoundOnce

(* Nothing is erased that was neither proven nor ticked by a reviewer, and *)
(* no session proven before the request was made that the legal retention  *)
(* still keeps (approvedMatches, handleErasure).                           *)
THEOREM ErasesAllowed == Spec => ErasesOnlyAllowed
<1> DEFINE Spares == \A c \in erased' \ erased :
              kind.retention /\ kind.checks[c].status = "approved" => c \in free
<1>1. IInv /\ [Next]_vars => [Spares]_vars
  <2>1. IInv => Base /\ TakesAllowed  BY DEF IInv, Kept, Base
  <2> QED  BY <2>1, KeepsHeld
<1>2. IInv => ErasesProvenOrTicked  BY DEF IInv
<1>3. Spec => [][Spares]_vars
  BY <1>1, Always, PTL DEF Spec
<1> QED  BY <1>2, <1>3, Always, PTL DEF ErasesOnlyAllowed, HeldIsKept

(* While nothing fails, a paused organisation has no review open and no    *)
(* item pending once the calls that were under way have ended              *)
(* (rejectIfPaused, rejectStepReviewsIfPaused and the second pass of       *)
(* SetProofingPaused): whoever leaves one open is still to come back to it.*)
THEOREM PauseSafe == Spec => []PauseLeavesNone
<1>1. IInv => PauseLeavesNone
  <2>1. SUFFICES ASSUME IInv, faults = 0, paused, ~WillSettle
                 PROVE  ~OpenReview /\ item # "pending"
    BY DEF PauseLeavesNone
  <2>2. \A w \in Workers : job[w].pc \in {"idle", "list_due", "lapse", "purge_due"}
    BY <2>1 DEF WillSettle, IInv, Kept, Sound
  <2>3. \A w \in Workers : ~Refuses(w)
    BY <2>2 DEF Refuses, Rules, Deciding
  <2>4. \A w \in Workers : ~Empties(w)
    BY <2>1, <2>2 DEF Empties, IInv, Kept, Sound, Deciding
  <2> QED  BY <2>1, <2>3, <2>4 DEF IInv, Kept, PauseSeen
<1> QED  BY <1>1, Always, PTL
=============================================================================
