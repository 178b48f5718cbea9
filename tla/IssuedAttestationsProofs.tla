---------------------- MODULE IssuedAttestationsProofs ----------------------
(***************************************************************************)
(* Theorems about the exchange, for any number of organisations, messages, *)
(* requests, polls and processes, and any number of failures and crashes:  *)
(* a message is its recipient's, an offer is redeemed once, a decision     *)
(* stands, and the ledger follows the issuer.                              *)
(***************************************************************************)
EXTENDS IssuedAttestations, TLAPS

----------------------------------------------------------------------------
(* The types, split by what steps write together.                          *)

Saws == LedgerStatus \cup {"valid"}

CallOK ==
  /\ call \in [Crew -> [pc : CallStates, m : Messages \cup {NoOne}, saw : Saws]]
  /\ \A w \in Crew : call[w].pc # "idle" => call[w].m \in Messages

OfferOK == offer \in [Messages -> {"none", "pending", "accepting", "accepted", "declined"}]

HeldOK ==
  /\ creds \in [Messages -> Nat]
  /\ held \in [Messages -> {"none", "held", "deleted"}]
  /\ known \in [Messages -> BOOLEAN] /\ trail \in [Messages -> BOOLEAN]

IssueOK ==
  /\ issuance \in [Messages -> {"none", "open", "issued"}]
  /\ revoked \in [Messages -> BOOLEAN] /\ stale \subseteq Races

LedgerOK == ledger \in [Messages -> LedgerStatus] /\ linked \in [Messages -> BOOLEAN]

BoxOK ==
  /\ post \in [Messages -> {"none", "queued", "taken"}]
  /\ inbox \in [Messages -> Orgs \cup {NoOne}]
  /\ outbox \in [Messages -> {"none", "submitted", "accepted"}]
  /\ push \in [Messages -> {"none", "due", "stored", "done"}]

Draining == {"drain", "fetch", "store", "notify"}

PollOK ==
  /\ poll \in [Pollers -> [pc : {"idle", "waiting"} \cup Draining,
                           todo : SUBSET Orgs, addr : Orgs \cup {NoOne},
                           list : SUBSET Messages, got : SUBSET Messages,
                           m : Messages \cup {NoOne}]]
  /\ slot \in [Replicas -> Pollers \cup {NoOne}]
  /\ \A p \in DOMAIN kind.polls :
       slot[Home(p)] = p <=> poll[p].pc \notin {"idle", "waiting"}

LimitsOK == kind \in Kinds /\ faults \in 0..kind.faults /\ crashes \in 0..kind.crashes

Typed == CallOK /\ OfferOK /\ HeldOK /\ IssueOK /\ LedgerOK /\ BoxOK /\ PollOK /\ LimitsOK

LEMMA KindFacts ==
  ASSUME kind \in Kinds
  PROVE  /\ kind.crew \subseteq Crew /\ kind.offers \subseteq Messages /\ kind.ours \subseteq kind.offers
         /\ kind.owner \in [Messages -> Orgs \cup {NoOne}]
         /\ kind.faults \in Nat /\ kind.crashes \in Nat
         /\ DOMAIN kind.polls \subseteq Pollers
         /\ \A p \in DOMAIN kind.polls : Home(p) \in Replicas /\ kind.polls[p].scope \in Orgs \cup {All}
         /\ NoOne \notin Pollers /\ NoOne \notin Orgs /\ NoOne \notin Messages
  BY ExchangeAssumption, MailboxAssumption DEF Home

(* A call begins, goes on, or ends.                                        *)
LEMMA CallMoves ==
  ASSUME CallOK, NEW w \in Crew, NEW pc \in CallStates, NEW m \in Messages, NEW s \in Saws,
         \/ Begin(w, pc, m, s)
         \/ Go(w, pc) /\ call[w].pc # "idle"
         \/ Done(w)
  PROVE  CallOK'
<1>1. CASE Begin(w, pc, m, s)
  BY <1>1 DEF Begin, CallOK
<1>2. CASE Go(w, pc) /\ call[w].pc # "idle"
  BY <1>2 DEF Go, CallOK
<1>3. CASE Done(w)
  BY <1>3 DEF Done, Idle, CallOK, CallStates, Saws, LedgerStatus
<1> QED BY <1>1, <1>2, <1>3

(* What a step costs.                                                      *)
LEMMA Costs ==
  ASSUME LimitsOK, Works \/ Fault
  PROVE  LimitsOK' /\ kind' = kind
<1>1. CASE Works
  BY <1>1 DEF Works, bounds, LimitsOK
<1>2. CASE Fault
  BY <1>2, KindFacts DEF Fault, LimitsOK
<1> QED BY <1>1, <1>2

LEMMA Initially == Init => Typed
<1> SUFFICES ASSUME Init PROVE Typed
  OBVIOUS
<1> USE KindFacts DEF Init
<1>1. CallOK
  BY DEF CallOK, Idle, CallStates, Saws, LedgerStatus
<1>2. OfferOK /\ HeldOK /\ IssueOK /\ LedgerOK
  BY DEF OfferOK, HeldOK, IssueOK, LedgerOK, LedgerStatus
<1>3. BoxOK
  BY DEF BoxOK
<1>4. PollOK
  BY DEF PollOK, NoPoll, Draining, Home
<1>5. LimitsOK
  BY DEF LimitsOK
<1> QED BY <1>1, <1>2, <1>3, <1>4, <1>5 DEF Typed

----------------------------------------------------------------------------
(* Every step keeps the types: the requests and jobs on offers and held    *)
(* credentials.                                                            *)

HeldStep(w) ==
  \/ HeldSteps(w) \/ HeldFails(w)
  \/ \E m \in Messages : ClaimOffer(w, m) \/ GetHeld(w, m) \/ Recheck(w, m)

(* Whose call is under way, and on what.                                   *)
LEMMA Under ==
  ASSUME CallOK, LimitsOK, NEW w \in Crew, call[w].pc # "idle"
  PROVE  Of(w) \in Messages /\ call[w].saw \in Saws
  BY DEF CallOK, Of

LEMMA HeldStepTyped ==
  ASSUME Typed, NEW w \in Crew, HeldStep(w)
  PROVE  CallOK' /\ OfferOK' /\ HeldOK' /\ IssueOK' /\ LimitsOK' /\ kind' = kind
<1> USE DEF Typed
<1>1. CASE Redeem(w)
  <2>1. Of(w) \in Messages
    BY <1>1, Under DEF Redeem, At
  <2>2. CallOK'
    BY <1>1, CallMoves, Under DEF Redeem, At, CallStates
  <2>3. OfferOK' /\ HeldOK' /\ IssueOK'
    BY <1>1, <2>1 DEF Redeem, OfferOK, HeldOK, IssueOK
  <2> QED BY <1>1, <2>2, <2>3, Costs DEF Redeem
<1>2. CASE AcceptOffer(w)
  <2>1. CallOK'
    BY <1>2, CallMoves, Under DEF AcceptOffer, At, CallStates
  <2>2. OfferOK' /\ HeldOK' /\ IssueOK'
    BY <1>2 DEF AcceptOffer, OfferOK, HeldOK, IssueOK
  <2> QED BY <1>2, <2>1, <2>2, Costs DEF AcceptOffer
<1>3. CASE ReleaseOffer(w)
  <2>1. CallOK'
    BY <1>3, CallMoves, Under DEF ReleaseOffer, At, CallStates
  <2>2. OfferOK' /\ HeldOK' /\ IssueOK'
    BY <1>3 DEF ReleaseOffer, OfferOK, HeldOK, IssueOK
  <2> QED BY <1>3, <2>1, <2>2, Costs DEF ReleaseOffer
<1>4. CASE DeleteFromEngine(w)
  <2>1. CallOK'
    BY <1>4, CallMoves, Under DEF DeleteFromEngine, At, CallStates
  <2>2. OfferOK' /\ HeldOK' /\ IssueOK'
    BY <1>4 DEF DeleteFromEngine, OfferOK, HeldOK, IssueOK
  <2> QED BY <1>4, <2>1, <2>2, Costs DEF DeleteFromEngine
<1>5. CASE SoftDeleteHeld(w)
  <2>1. CallOK'
    BY <1>5, CallMoves, Under DEF SoftDeleteHeld, At, CallStates
  <2>2. OfferOK' /\ HeldOK' /\ IssueOK'
    BY <1>5 DEF SoftDeleteHeld, OfferOK, HeldOK, IssueOK
  <2> QED BY <1>5, <2>1, <2>2, Costs DEF SoftDeleteHeld
<1>6. CASE RefreshStatus(w)
  <2>1. CallOK'
    BY <1>6, CallMoves, Under DEF RefreshStatus, At, CallStates
  <2>2. OfferOK' /\ HeldOK' /\ IssueOK'
    BY <1>6, Under DEF RefreshStatus, At, OfferOK, HeldOK, IssueOK
  <2> QED BY <1>6, <2>1, <2>2, Costs DEF RefreshStatus
<1>7. CASE Validities(w)
  <2>1. CallOK'
    <3>1. CASE creds[Of(w)] = 0
      BY <1>7, <3>1, CallMoves, Under DEF Validities, At, CallStates
    <3>2. CASE creds[Of(w)] # 0
      BY <1>7, <3>2 DEF Validities, At, CallOK, CallStates, Saws
    <3> QED BY <3>1, <3>2
  <2>2. OfferOK' /\ HeldOK' /\ IssueOK'
    BY <1>7 DEF Validities, offerVars, OfferOK, HeldOK, IssueOK
  <2> QED BY <1>7, <2>1, <2>2, Costs DEF Validities
<1>8. CASE RecordStatus(w)
  <2>1. CallOK'
    BY <1>8, CallMoves, Under DEF RecordStatus, At, CallStates
  <2>2. OfferOK' /\ HeldOK' /\ IssueOK'
    BY <1>8 DEF RecordStatus, OfferOK, HeldOK, IssueOK, Races
  <2> QED BY <1>8, <2>1, <2>2, Costs DEF RecordStatus
<1>9. CASE HeldFails(w)
  <2>1. CallOK'
    BY <1>9, CallMoves, Under DEF HeldFails, CallStates
  <2>2. OfferOK' /\ HeldOK' /\ IssueOK'
    BY <1>9 DEF HeldFails, offerVars, OfferOK, HeldOK, IssueOK
  <2> QED BY <1>9, <2>1, <2>2, Costs DEF HeldFails
<1>10. ASSUME NEW m \in Messages, ClaimOffer(w, m) \/ GetHeld(w, m) \/ Recheck(w, m)
       PROVE  CallOK' /\ OfferOK' /\ HeldOK' /\ IssueOK' /\ LimitsOK' /\ kind' = kind
  <2>1. CallOK'
    BY <1>10, CallMoves DEF ClaimOffer, GetHeld, Recheck, CallStates, Saws, LedgerStatus
  <2>2. OfferOK' /\ HeldOK' /\ IssueOK'
    BY <1>10 DEF ClaimOffer, GetHeld, Recheck, offerVars, OfferOK, HeldOK, IssueOK
  <2> QED BY <1>10, <2>1, <2>2, Costs DEF ClaimOffer, GetHeld, Recheck
<1> QED
  BY <1>1, <1>2, <1>3, <1>4, <1>5, <1>6, <1>7, <1>8, <1>9, <1>10 DEF HeldStep, HeldSteps

LEMMA DeclineTyped ==
  ASSUME Typed, NEW m \in Messages, DeclineOffer(m)
  PROVE  CallOK' /\ OfferOK' /\ HeldOK' /\ IssueOK' /\ LimitsOK' /\ kind' = kind
<1>1. CallOK' /\ OfferOK' /\ HeldOK' /\ IssueOK'
  BY DEF Typed, DeclineOffer, CallOK, OfferOK, HeldOK, IssueOK
<1> QED BY <1>1, Costs DEF Typed, DeclineOffer

----------------------------------------------------------------------------
(* The requests and jobs on issued credentials.                            *)

LedgerStep(w) ==
  \/ LedgerSteps(w) \/ LedgerFails(w)
  \/ \E m \in Messages : CreateOffered(w, m) \/ Status(w, m) \/ GetIssued(w, m)

LEMMA LedgerStepTyped ==
  ASSUME Typed, NEW w \in Crew, LedgerStep(w)
  PROVE  CallOK' /\ IssueOK' /\ LedgerOK' /\ LimitsOK' /\ kind' = kind
<1> USE DEF Typed
<1>1. CASE CreateOffer(w)
  <2>1. CallOK'
    BY <1>1, CallMoves, Under DEF CreateOffer, At, CallStates
  <2>2. IssueOK' /\ LedgerOK'
    BY <1>1 DEF CreateOffer, ledgerVars, IssueOK, LedgerOK, LedgerStatus
  <2> QED BY <1>1, <2>1, <2>2, Costs DEF CreateOffer
<1>2. CASE MarkFailed(w)
  <2>1. CallOK'
    BY <1>2, CallMoves, Under DEF MarkFailed, At, CallStates
  <2>2. IssueOK' /\ LedgerOK'
    BY <1>2 DEF MarkFailed, ledgerVars, IssueOK, LedgerOK, LedgerStatus
  <2> QED BY <1>2, <2>1, <2>2, Costs DEF MarkFailed
<1>3. CASE SetOffer(w)
  <2>1. CallOK'
    BY <1>3, CallMoves, Under DEF SetOffer, At, CallStates
  <2>2. IssueOK' /\ LedgerOK'
    BY <1>3 DEF SetOffer, ledgerVars, IssueOK, LedgerOK, LedgerStatus
  <2> QED BY <1>3, <2>1, <2>2, Costs DEF SetOffer
<1>4. CASE Reconcile(w)
  <2>1. CallOK'
    BY <1>4, CallMoves, Under DEF Reconcile, At, CallStates
  <2>2. IssueOK' /\ LedgerOK'
    BY <1>4 DEF Reconcile, ledgerVars, IssueOK, LedgerOK, LedgerStatus
  <2> QED BY <1>4, <2>1, <2>2, Costs DEF Reconcile
<1>5. CASE MarkClaimed(w)
  <2>1. CallOK'
    BY <1>5, CallMoves, Under DEF MarkClaimed, At, CallStates
  <2>2. IssueOK' /\ LedgerOK'
    BY <1>5 DEF MarkClaimed, ledgerVars, IssueOK, LedgerOK, LedgerStatus
  <2> QED BY <1>5, <2>1, <2>2, Costs DEF MarkClaimed
<1>6. CASE RevokeCredential(w)
  <2>1. CallOK'
    BY <1>6, CallMoves, Under DEF RevokeCredential, At, CallStates
  <2>2. IssueOK' /\ LedgerOK'
    BY <1>6 DEF RevokeCredential, ledgerVars, IssueOK, LedgerOK, LedgerStatus
  <2> QED BY <1>6, <2>1, <2>2, Costs DEF RevokeCredential
<1>7. CASE RevokeRow(w)
  <2>1. CallOK'
    BY <1>7, CallMoves, Under DEF RevokeRow, At, CallStates
  <2>2. IssueOK' /\ LedgerOK'
    BY <1>7 DEF RevokeRow, ledgerVars, IssueOK, LedgerOK, LedgerStatus, Races
  <2> QED BY <1>7, <2>1, <2>2, Costs DEF RevokeRow
<1>8. CASE LedgerFails(w)
  <2>1. CallOK'
    BY <1>8, CallMoves, Under DEF LedgerFails, CallStates
  <2>2. IssueOK' /\ LedgerOK'
    BY <1>8 DEF LedgerFails, ledgerVars, IssueOK, LedgerOK, LedgerStatus
  <2> QED BY <1>8, <2>1, <2>2, Costs DEF LedgerFails
<1>9. ASSUME NEW m \in Messages, CreateOffered(w, m) \/ Status(w, m) \/ GetIssued(w, m)
      PROVE  CallOK' /\ IssueOK' /\ LedgerOK' /\ LimitsOK' /\ kind' = kind
  <2>1. ledger[m] \in Saws
    BY DEF LedgerOK, Saws
  <2>2. CallOK'
    BY <1>9, <2>1, CallMoves DEF CreateOffered, Status, GetIssued, CallStates, Saws, LedgerStatus
  <2>3. IssueOK' /\ LedgerOK'
    BY <1>9 DEF CreateOffered, Status, GetIssued, ledgerVars, IssueOK, LedgerOK, LedgerStatus
  <2> QED BY <1>9, <2>2, <2>3, Costs DEF CreateOffered, Status, GetIssued
<1> QED
  BY <1>1, <1>2, <1>3, <1>4, <1>5, <1>6, <1>7, <1>8, <1>9 DEF LedgerStep, LedgerSteps

LEMMA CancelTyped ==
  ASSUME Typed, NEW m \in Messages, Cancel(m)
  PROVE  CallOK' /\ IssueOK' /\ LedgerOK' /\ LimitsOK' /\ kind' = kind
<1>1. CallOK' /\ IssueOK' /\ LedgerOK'
  BY DEF Typed, Cancel, CallOK, IssueOK, LedgerOK, LedgerStatus
<1> QED BY <1>1, Costs DEF Typed, Cancel

----------------------------------------------------------------------------
(* Sending.                                                                *)

LEMMA SendStepTyped ==
  ASSUME Typed, NEW w \in Crew, SendSteps(w)
  PROVE  CallOK' /\ OfferOK' /\ BoxOK' /\ PollOK' /\ LimitsOK' /\ kind' = kind
<1> USE DEF Typed
<1>1. CASE CreateOutbound(w)
  <2>1. CallOK'
    BY <1>1, CallMoves, Under DEF CreateOutbound, At, CallStates
  <2>2. OfferOK' /\ BoxOK'
    BY <1>1 DEF CreateOutbound, NoOffer, OfferOK, BoxOK
  <2>3. LimitsOK' /\ kind' = kind
    BY <1>1, Costs DEF CreateOutbound
  <2>4. PollOK'
    BY <1>1, <2>3 DEF CreateOutbound, PollOK, Home
  <2> QED BY <2>1, <2>2, <2>3, <2>4
<1>2. CASE HandOver(w)
  <2>1. CallOK'
    BY <1>2, CallMoves, Under DEF HandOver, At, CallStates
  <2>2. OfferOK' /\ BoxOK'
    BY <1>2 DEF HandOver, NoOffer, OfferOK, BoxOK
  <2>3. LimitsOK' /\ kind' = kind
    BY <1>2, Costs DEF HandOver
  <2>4. PollOK'
    BY <1>2, <2>3 DEF HandOver, PollOK, Home
  <2> QED BY <2>1, <2>2, <2>3, <2>4
<1>3. CASE RecordSent(w)
  <2>1. CallOK'
    BY <1>3, CallMoves, Under DEF RecordSent, At, CallStates
  <2>2. OfferOK' /\ BoxOK'
    BY <1>3 DEF RecordSent, NoOffer, OfferOK, BoxOK
  <2>3. LimitsOK' /\ kind' = kind
    BY <1>3, Costs DEF RecordSent
  <2>4. PollOK'
    BY <1>3, <2>3 DEF RecordSent, PollOK, Home
  <2> QED BY <2>1, <2>2, <2>3, <2>4
<1> QED BY <1>1, <1>2, <1>3 DEF SendSteps

----------------------------------------------------------------------------
(* The polls.                                                              *)

PollStep(p) ==
  \/ ListAddresses(p) \/ AcquireDrain(p) \/ GiveUp(p) \/ PollSteps(p)
  \/ FetchFails(p) \/ IntakeFails(p)

PollRecord == [pc : {"idle", "waiting"} \cup Draining, todo : SUBSET Orgs, addr : Orgs \cup {NoOne},
               list : SUBSET Messages, got : SUBSET Messages, m : Messages \cup {NoOne}]

LEMMA PollRecords ==
  PollOK => poll \in [Pollers -> PollRecord] /\ slot \in [Replicas -> Pollers \cup {NoOne}]
  BY DEF PollOK, PollRecord

LEMMA PollFacts ==
  ASSUME PollOK, LimitsOK, NEW p \in DOMAIN kind.polls
  PROVE  /\ p \in Pollers /\ p # NoOne /\ Home(p) \in Replicas /\ poll[p] \in PollRecord
         /\ NoPoll \in PollRecord
  BY KindFacts DEF PollOK, LimitsOK, PollRecord, NoPoll, Draining

(* A poll that neither takes the slot nor gives it back.                   *)
LEMMA PollGoesOn ==
  ASSUME PollOK, LimitsOK, kind' = kind, NEW p \in DOMAIN kind.polls, NEW r \in PollRecord,
         poll' = [poll EXCEPT ![p] = r], slot' = slot,
         r.pc \in Draining <=> poll[p].pc \in Draining
  PROVE  PollOK'
  BY PollFacts DEF PollOK, PollRecord, Home, Draining

LEMMA PollEnds ==
  ASSUME PollOK, LimitsOK, kind' = kind, NEW p \in DOMAIN kind.polls, Finished(p),
         poll[p].pc \in Draining
  PROVE  PollOK'
<1>1. slot[Home(p)] = p
  BY DEF PollOK, Draining
<1>2. slot' = [slot EXCEPT ![Home(p)] = NoOne] /\ poll' = [poll EXCEPT ![p] = NoPoll]
  BY <1>1, PollFacts DEF Finished, PollOK
<1>3. \A q \in DOMAIN kind.polls : q # p /\ Home(q) = Home(p) => poll[q].pc \in {"idle", "waiting"}
  BY <1>1 DEF PollOK
<1>4. \A q \in DOMAIN kind.polls : q \in Pollers /\ q # NoOne /\ Home(q) \in Replicas
  BY PollFacts
<1>5. \A q \in DOMAIN kind.polls : slot'[Home(q)] = q <=> poll'[q].pc \notin {"idle", "waiting"}
  <2> SUFFICES ASSUME NEW q \in DOMAIN kind.polls
               PROVE  slot'[Home(q)] = q <=> poll'[q].pc \notin {"idle", "waiting"}
    OBVIOUS
  <2>1. CASE q = p
    BY <2>1, <1>2, <1>4 DEF PollOK, NoPoll
  <2>2. CASE q # p /\ Home(q) = Home(p)
    BY <2>2, <1>2, <1>3, <1>4 DEF PollOK
  <2>3. CASE Home(q) # Home(p)
    BY <2>3, <1>2, <1>4 DEF PollOK
  <2> QED BY <2>1, <2>2, <2>3
<1>6. poll' \in [Pollers -> PollRecord] /\ slot' \in [Replicas -> Pollers \cup {NoOne}]
  BY <1>2, <1>4, PollFacts DEF PollOK, PollRecord
<1> QED BY <1>5, <1>6 DEF PollOK, PollRecord, Home

LEMMA PollFailsTyped ==
  ASSUME PollOK, LimitsOK, kind' = kind, NEW p \in DOMAIN kind.polls, PollFails(p),
         poll[p].pc \in Draining
  PROVE  PollOK'
<1>1. CASE Sweeps(p)
  <2>1. [NoPoll EXCEPT !.pc = "drain", !.todo = poll[p].todo] \in PollRecord
    BY PollFacts DEF PollRecord, NoPoll, Draining
  <2> QED BY <1>1, <2>1, PollGoesOn DEF PollFails, NoPoll, Draining
<1>2. CASE ~Sweeps(p)
  BY <1>2, PollEnds DEF PollFails
<1> QED BY <1>1, <1>2

LEMMA RecordOfferTyped ==
  ASSUME OfferOK, NEW m, RecordOffer(m) \/ Consume(m) \/ NoOffer
  PROVE  OfferOK'
  BY DEF OfferOK, RecordOffer, Consume, NoOffer

LEMMA CreateInboundTyped ==
  ASSUME NEW m \in Messages, NEW org \in Orgs \cup {NoOne}, CreateInbound(m, org),
         inbox \in [Messages -> Orgs \cup {NoOne}]
  PROVE  inbox' \in [Messages -> Orgs \cup {NoOne}]
  BY DEF CreateInbound

(* The new state of a poll, as one record.                                 *)
LEMMA ListPendingPoll ==
  ASSUME NEW p, poll[p] \in PollRecord, ListPending(p)
  PROVE  \E addr \in poll[p].todo :
           poll' = [poll EXCEPT ![p] = [poll[p] EXCEPT !.pc = "fetch", !.todo = poll[p].todo \ {addr},
                                                       !.addr = addr, !.list = Pending(addr)]]
<1>1. PICK addr \in poll[p].todo :
        poll' = [poll EXCEPT ![p].pc = "fetch", ![p].todo = @ \ {addr}, ![p].addr = addr,
                             ![p].list = Pending(addr)]
  BY DEF ListPending
<1>2. poll' = [poll EXCEPT ![p] = [poll[p] EXCEPT !.pc = "fetch", !.todo = poll[p].todo \ {addr},
                                                  !.addr = addr, !.list = Pending(addr)]]
  BY <1>1 DEF PollRecord
<1> QED BY <1>2

LEMMA RetrievedPoll ==
  ASSUME NEW p, poll[p] \in PollRecord, RetrieveMessage(p)
  PROVE  \E m \in poll[p].list :
           IF post[m] = "queued"
           THEN /\ post' = [post EXCEPT ![m] = "taken"]
                /\ poll' = [poll EXCEPT ![p] = [poll[p] EXCEPT !.list = poll[p].list \ {m},
                                                               !.got = poll[p].got \cup {m}]]
                /\ UNCHANGED slot
           ELSE PollFails(p) /\ UNCHANGED post
<1>1. PICK m \in poll[p].list :
       IF post[m] = "queued"
       THEN /\ post' = [post EXCEPT ![m] = "taken"]
            /\ poll' = [poll EXCEPT ![p].list = @ \ {m}, ![p].got = @ \cup {m}]
            /\ UNCHANGED slot
       ELSE PollFails(p) /\ UNCHANGED post
  BY DEF RetrieveMessage
<1>2. post[m] = "queued" =>
        poll' = [poll EXCEPT ![p] = [poll[p] EXCEPT !.list = poll[p].list \ {m},
                                                    !.got = poll[p].got \cup {m}]]
  BY <1>1 DEF PollRecord
<1> QED BY <1>1, <1>2

LEMMA IntakePoll ==
  ASSUME NEW p, poll[p] \in PollRecord, Intake(p)
  PROVE  \E m \in poll[p].got :
           IF Owner(m) = NoOne
           THEN /\ poll' = [poll EXCEPT ![p] = [poll[p] EXCEPT !.got = poll[p].got \ {m}]]
                /\ UNCHANGED inbox
           ELSE /\ CreateInbound(m, Owner(m))
                /\ poll' = [poll EXCEPT ![p] = [poll[p] EXCEPT !.pc = "notify", !.got = poll[p].got \ {m},
                                                               !.m = m]]
  BY DEF Intake, PollRecord, Attribute

LEMMA PollStepTyped ==
  ASSUME Typed, NEW p \in Pollers, PollStep(p)
  PROVE  OfferOK' /\ BoxOK' /\ PollOK' /\ LimitsOK' /\ kind' = kind
<1> USE DEF Typed
<1>0. p \in DOMAIN kind.polls /\ LimitsOK' /\ kind' = kind
  BY Costs DEF PollStep, PollSteps, ListAddresses, AcquireDrain, GiveUp, DrainEnds, ListPending,
     RetrieveMessage, Fetched, Intake, Stored, NotifyConsumer, FetchFails, IntakeFails, AtPoll
<1>a. poll[p] \in PollRecord
  BY <1>0, PollFacts
<1>1. CASE ListAddresses(p)
  <2>1. (IF Sweeps(p) THEN Orgs ELSE {kind.polls[p].scope}) \in SUBSET Orgs
    BY <1>0, KindFacts DEF LimitsOK, Sweeps
  <2>2. PollOK'
    BY <1>1, <1>0, <1>a, <2>1, PollGoesOn, PollFacts
       DEF ListAddresses, AtPoll, PollRecord, Draining, PollOK, Home
  <2> QED BY <1>1, <1>0, <2>2 DEF ListAddresses, rowVars, BoxOK, OfferOK, NoOffer
<1>2. CASE AcquireDrain(p)
  <2>1. poll'[p].pc = "drain" /\ slot' = [slot EXCEPT ![Home(p)] = p] /\ slot[Home(p)] = NoOne
    BY <1>2, <1>0, <1>a, PollFacts DEF AcquireDrain, SlotFree, PollOK, AtPoll
  <2>2. \A q \in DOMAIN kind.polls : slot'[Home(q)] = q <=> poll'[q].pc \notin {"idle", "waiting"}
    <3> SUFFICES ASSUME NEW q \in DOMAIN kind.polls
                 PROVE  slot'[Home(q)] = q <=> poll'[q].pc \notin {"idle", "waiting"}
      OBVIOUS
    <3>1. q \in Pollers /\ q # NoOne /\ Home(q) \in Replicas /\ Home(p) \in Replicas
      BY <1>0, PollFacts
    <3>2. CASE q = p
      BY <2>1, <3>1, <3>2 DEF PollOK
    <3>3. CASE q # p /\ Home(q) = Home(p)
      <4>1. poll'[q] = poll[q] /\ slot'[Home(q)] = p
        BY <1>2, <2>1, <3>1, <3>3 DEF AcquireDrain, PollOK
      <4>2. slot[Home(q)] # q
        BY <2>1, <3>1, <3>3
      <4> QED BY <3>3, <4>1, <4>2 DEF PollOK
    <3>4. CASE Home(q) # Home(p)
      <4>1. poll'[q] = poll[q] /\ slot'[Home(q)] = slot[Home(q)]
        BY <1>2, <2>1, <3>1, <3>4 DEF AcquireDrain, PollOK
      <4> QED BY <4>1 DEF PollOK
    <3> QED BY <3>2, <3>3, <3>4
  <2>3. poll' \in [Pollers -> PollRecord] /\ slot' \in [Replicas -> Pollers \cup {NoOne}]
    <3>1. [poll[p] EXCEPT !.pc = "drain"] \in PollRecord
      BY <1>a DEF PollRecord, Draining
    <3>2. poll' = [poll EXCEPT ![p] = [poll[p] EXCEPT !.pc = "drain"]]
      BY <1>2 DEF AcquireDrain
    <3> QED BY <2>1, <3>1, <3>2, PollRecords
  <2>4. PollOK'
    BY <1>0, <2>2, <2>3 DEF PollOK, PollRecord, Home
  <2> QED BY <1>2, <1>0, <2>4 DEF AcquireDrain, rowVars, BoxOK, OfferOK, NoOffer
<1>3. CASE GiveUp(p)
  <2>1. PollOK'
    BY <1>3, <1>0, PollGoesOn, PollFacts DEF GiveUp, AtPoll, NoPoll, Draining
  <2> QED BY <1>3, <1>0, <2>1 DEF GiveUp, rowVars, BoxOK, OfferOK, NoOffer
<1>4. CASE DrainEnds(p)
  <2>1. PollOK'
    BY <1>4, <1>0, PollEnds DEF DrainEnds, AtPoll, Draining
  <2> QED BY <1>4, <1>0, <2>1 DEF DrainEnds, rowVars, BoxOK, OfferOK, NoOffer
<1>5. CASE ListPending(p)
  <2>1. PICK addr \in poll[p].todo :
          poll' = [poll EXCEPT ![p] = [poll[p] EXCEPT !.pc = "fetch", !.todo = poll[p].todo \ {addr},
                                                      !.addr = addr, !.list = Pending(addr)]]
    BY <1>5, <1>a, ListPendingPoll
  <2>2. [poll[p] EXCEPT !.pc = "fetch", !.todo = poll[p].todo \ {addr}, !.addr = addr,
                       !.list = Pending(addr)] \in PollRecord
    BY <1>a, <2>1 DEF PollRecord, Draining, Pending
  <2>3. PollOK'
    BY <1>5, <1>0, <1>a, <2>1, <2>2, PollGoesOn DEF ListPending, AtPoll, PollRecord, Draining
  <2> QED BY <1>5, <1>0, <2>3 DEF ListPending, rowVars, BoxOK, OfferOK, NoOffer
<1>6. CASE RetrieveMessage(p)
  <2>1. PICK m \in poll[p].list :
       IF post[m] = "queued"
       THEN /\ post' = [post EXCEPT ![m] = "taken"]
            /\ poll' = [poll EXCEPT ![p] = [poll[p] EXCEPT !.list = poll[p].list \ {m},
                                                           !.got = poll[p].got \cup {m}]]
            /\ UNCHANGED slot
       ELSE PollFails(p) /\ UNCHANGED post
    BY <1>6, <1>a, RetrievedPoll
  <2>2. CASE post[m] = "queued"
    <3>1. [poll[p] EXCEPT !.list = poll[p].list \ {m}, !.got = poll[p].got \cup {m}] \in PollRecord
      BY <1>a DEF PollRecord
    <3>2. PollOK'
      BY <1>0, <1>a, <2>1, <2>2, <3>1, PollGoesOn DEF PollRecord
    <3> QED BY <1>6, <1>0, <2>1, <2>2, <3>2 DEF RetrieveMessage, BoxOK, OfferOK, NoOffer
  <2>3. CASE post[m] # "queued"
    <3>1. PollOK'
      BY <1>6, <1>0, <2>1, <2>3, PollFailsTyped DEF RetrieveMessage, AtPoll, Draining
    <3> QED BY <1>6, <1>0, <2>1, <2>3, <3>1 DEF RetrieveMessage, BoxOK, OfferOK, NoOffer
  <2> QED BY <2>2, <2>3
<1>7. CASE FetchFails(p)
  <2>1. PollOK'
    BY <1>7, <1>0, PollFailsTyped DEF FetchFails, AtPoll, Draining
  <2> QED BY <1>7, <1>0, <2>1 DEF FetchFails, BoxOK, OfferOK, NoOffer
<1>8. CASE Fetched(p) \/ Stored(p)
  <2>1. PICK to \in {"drain", "store"} : poll' = [poll EXCEPT ![p] = [poll[p] EXCEPT !.pc = to]]
    BY <1>8, <1>a DEF Fetched, Stored, PollRecord
  <2>2. [poll[p] EXCEPT !.pc = to] \in PollRecord
    BY <1>a DEF PollRecord, Draining
  <2>3. PollOK'
    BY <1>8, <1>0, <1>a, <2>1, <2>2, PollGoesOn DEF Fetched, Stored, AtPoll, PollRecord, Draining
  <2> QED BY <1>8, <1>0, <2>3 DEF Fetched, Stored, rowVars, BoxOK, OfferOK, NoOffer
<1>9. CASE Intake(p)
  <2>1. PICK m \in poll[p].got :
       IF Owner(m) = NoOne
       THEN poll' = [poll EXCEPT ![p] = [poll[p] EXCEPT !.got = poll[p].got \ {m}]] /\ UNCHANGED inbox
       ELSE /\ CreateInbound(m, Owner(m))
            /\ poll' = [poll EXCEPT ![p] = [poll[p] EXCEPT !.pc = "notify", !.got = poll[p].got \ {m}, !.m = m]]
    BY <1>9, <1>a, IntakePoll
  <2>2. m \in Messages /\ Owner(m) \in Orgs \cup {NoOne}
    BY <1>a, <2>1, KindFacts DEF PollRecord, Owner, LimitsOK
  <2>3. /\ [poll[p] EXCEPT !.got = poll[p].got \ {m}] \in PollRecord
        /\ [poll[p] EXCEPT !.pc = "notify", !.got = poll[p].got \ {m}, !.m = m] \in PollRecord
    BY <1>a, <2>2 DEF PollRecord, Draining
  <2>4. PollOK'
    BY <1>9, <1>0, <1>a, <2>1, <2>3, PollGoesOn DEF Intake, AtPoll, PollRecord, Draining
  <2>5. inbox' \in [Messages -> Orgs \cup {NoOne}]
    BY <2>1, <2>2, CreateInboundTyped DEF BoxOK
  <2> QED BY <1>9, <1>0, <2>4, <2>5 DEF Intake, BoxOK, OfferOK, NoOffer
<1>10. CASE IntakeFails(p)
  <2>1. PICK m \in poll[p].got :
       IF Sweeps(p) THEN poll' = [poll EXCEPT ![p] = [poll[p] EXCEPT !.got = poll[p].got \ {m}]] /\ UNCHANGED slot
       ELSE Finished(p)
    BY <1>10, <1>a DEF IntakeFails, PollRecord
  <2>2. [poll[p] EXCEPT !.got = poll[p].got \ {m}] \in PollRecord
    BY <1>a DEF PollRecord
  <2>3. PollOK'
    BY <1>10, <1>0, <1>a, <2>1, <2>2, PollGoesOn, PollEnds DEF IntakeFails, AtPoll, PollRecord, Draining
  <2> QED BY <1>10, <1>0, <2>3 DEF IntakeFails, rowVars, BoxOK, OfferOK, NoOffer
<1>11. CASE NotifyConsumer(p)
  <2>1. poll' = [poll EXCEPT ![p] = [poll[p] EXCEPT !.pc = "store", !.m = NoOne]]
    BY <1>11, <1>a DEF NotifyConsumer, PollRecord
  <2>2. [poll[p] EXCEPT !.pc = "store", !.m = NoOne] \in PollRecord
    BY <1>a DEF PollRecord, Draining
  <2>3. PollOK'
    BY <1>11, <1>0, <1>a, <2>1, <2>2, PollGoesOn DEF NotifyConsumer, AtPoll, PollRecord, Draining
  <2>4. OfferOK'
    BY <1>11, RecordOfferTyped DEF NotifyConsumer
  <2> QED BY <1>11, <1>0, <2>3, <2>4 DEF NotifyConsumer, rowVars, BoxOK
<1> QED
  BY <1>1, <1>2, <1>3, <1>4, <1>5, <1>6, <1>7, <1>8, <1>9, <1>10, <1>11 DEF PollStep, PollSteps

----------------------------------------------------------------------------
(* Pushes, and what dies.                                                  *)

LEMMA PushTyped ==
  ASSUME Typed, NEW m \in Messages, PushSteps(m) \/ PushAgain(m)
  PROVE  OfferOK' /\ BoxOK' /\ PollOK' /\ LimitsOK' /\ kind' = kind
<1> USE DEF Typed
<1>1. CASE ReceivePush(m)
  <2>1. Owner(m) \in Orgs \cup {NoOne}
    BY KindFacts DEF Owner, LimitsOK
  <2>2. inbox' \in [Messages -> Orgs \cup {NoOne}]
    BY <1>1, <2>1, CreateInboundTyped DEF ReceivePush, BoxOK
  <2>3. LimitsOK' /\ kind' = kind
    BY <1>1, Costs DEF ReceivePush
  <2> QED BY <1>1, <2>2, <2>3 DEF ReceivePush, BoxOK, OfferOK, NoOffer, PollOK, Home
<1>2. CASE NotifyPush(m)
  <2>1. OfferOK'
    BY <1>2, RecordOfferTyped DEF NotifyPush
  <2>2. LimitsOK' /\ kind' = kind
    BY <1>2, Costs DEF NotifyPush
  <2> QED BY <1>2, <2>1, <2>2 DEF NotifyPush, BoxOK, PollOK, Home
<1>3. CASE PushAgain(m)
  <2>1. LimitsOK' /\ kind' = kind
    BY <1>3, Costs DEF PushAgain
  <2> QED BY <1>3, <2>1 DEF PushAgain, NoOffer, OfferOK, BoxOK, PollOK, Home
<1> QED BY <1>1, <1>2, <1>3 DEF PushSteps

LEMMA CallDiesTyped ==
  ASSUME Typed, NEW w \in Crew, CallDies(w)
  PROVE  CallOK' /\ LimitsOK' /\ kind' = kind
<1>1. CallOK'
  BY DEF Typed, CallDies, Done, Idle, CallOK, CallStates, Saws, LedgerStatus
<1>2. crashes' \in 0..kind.crashes
  BY KindFacts DEF Typed, CallDies, LimitsOK
<1> QED BY <1>1, <1>2 DEF Typed, CallDies, LimitsOK

LEMMA ReplicaDiesTyped ==
  ASSUME Typed, NEW r \in Replicas, ReplicaDies(r)
  PROVE  PollOK' /\ LimitsOK' /\ kind' = kind
<1> USE DEF Typed
<1>1. kind' = kind /\ LimitsOK'
  BY KindFacts DEF ReplicaDies, LimitsOK
<1>2. \A p \in DOMAIN kind.polls :
        p \in Pollers /\ p # NoOne /\ Home(p) \in Replicas /\ NoPoll \in PollRecord
  BY PollFacts
<1>3. poll' \in [Pollers -> PollRecord] /\ slot' \in [Replicas -> Pollers \cup {NoOne}]
  BY <1>2 DEF ReplicaDies, PollOK, PollRecord
<1>4. \A p \in DOMAIN kind.polls : slot'[Home(p)] = p <=> poll'[p].pc \notin {"idle", "waiting"}
  <2> SUFFICES ASSUME NEW p \in DOMAIN kind.polls
               PROVE  slot'[Home(p)] = p <=> poll'[p].pc \notin {"idle", "waiting"}
    OBVIOUS
  <2>1. CASE Home(p) = r
    BY <2>1, <1>2 DEF ReplicaDies, PollOK, NoPoll
  <2>2. CASE Home(p) # r
    BY <2>2, <1>2 DEF ReplicaDies, PollOK
  <2> QED BY <2>1, <2>2
<1> QED BY <1>1, <1>3, <1>4 DEF PollOK, PollRecord, Home

(* The steps there are.                                                    *)
LEMMA Steps ==
  ASSUME Next
  PROVE  \/ \E w \in Crew : HeldStep(w) /\ UNCHANGED <<boxVars, ledgerVars>>
         \/ \E m \in Messages : DeclineOffer(m) /\ UNCHANGED <<boxVars, ledgerVars>>
         \/ \E w \in Crew : LedgerStep(w) /\ UNCHANGED <<offerVars, boxVars>>
         \/ \E m \in Messages : Cancel(m) /\ UNCHANGED <<offerVars, boxVars>>
         \/ \E p \in Pollers : PollStep(p) /\ UNCHANGED <<call, otherThanMail>>
         \/ \E m \in Messages : (PushSteps(m) \/ PushAgain(m)) /\ UNCHANGED <<call, otherThanMail>>
         \/ \E w \in Crew : SendSteps(w) /\ UNCHANGED otherThanMail
         \/ \E w \in Crew : CallDies(w)
         \/ \E r \in Replicas : ReplicaDies(r)
<1>1. CASE HeldNext /\ UNCHANGED <<boxVars, ledgerVars>>
  BY <1>1 DEF HeldNext, HeldStep
<1>2. CASE LedgerNext /\ UNCHANGED <<offerVars, boxVars>>
  BY <1>2 DEF LedgerNext, LedgerStep
<1>3. CASE MailNext /\ UNCHANGED <<call, otherThanMail>>
  BY <1>3 DEF MailNext, PollStep
<1> QED BY <1>1, <1>2, <1>3 DEF Next

LEMMA StepTyped == Typed /\ [Next]_vars => Typed' /\ kind' = kind
<1> SUFFICES ASSUME Typed, [Next]_vars PROVE Typed' /\ kind' = kind
  OBVIOUS
<1>1. CASE UNCHANGED vars
  BY <1>1 DEF vars, offerVars, boxVars, ledgerVars, bounds, Typed, CallOK, OfferOK, HeldOK, IssueOK,
     LedgerOK, BoxOK, PollOK, LimitsOK, Home
<1>2. ASSUME NEW w \in Crew, HeldStep(w), UNCHANGED <<boxVars, ledgerVars>>
      PROVE  Typed' /\ kind' = kind
  BY <1>2, HeldStepTyped DEF boxVars, ledgerVars, Typed, LedgerOK, BoxOK, PollOK, Home
<1>3. ASSUME NEW m \in Messages, DeclineOffer(m), UNCHANGED <<boxVars, ledgerVars>>
      PROVE  Typed' /\ kind' = kind
  BY <1>3, DeclineTyped DEF boxVars, ledgerVars, Typed, LedgerOK, BoxOK, PollOK, Home
<1>4. ASSUME NEW w \in Crew, LedgerStep(w), UNCHANGED <<offerVars, boxVars>>
      PROVE  Typed' /\ kind' = kind
  BY <1>4, LedgerStepTyped DEF boxVars, offerVars, Typed, OfferOK, HeldOK, BoxOK, PollOK, Home
<1>5. ASSUME NEW m \in Messages, Cancel(m), UNCHANGED <<offerVars, boxVars>>
      PROVE  Typed' /\ kind' = kind
  BY <1>5, CancelTyped DEF boxVars, offerVars, Typed, OfferOK, HeldOK, BoxOK, PollOK, Home
<1>6. ASSUME NEW p \in Pollers, PollStep(p), UNCHANGED <<call, otherThanMail>>
      PROVE  Typed' /\ kind' = kind
  BY <1>6, PollStepTyped DEF otherThanMail, ledgerVars, Typed, CallOK, HeldOK, IssueOK, LedgerOK
<1>7. ASSUME NEW m \in Messages, PushSteps(m) \/ PushAgain(m), UNCHANGED <<call, otherThanMail>>
      PROVE  Typed' /\ kind' = kind
  BY <1>7, PushTyped DEF otherThanMail, ledgerVars, Typed, CallOK, HeldOK, IssueOK, LedgerOK
<1>8. ASSUME NEW w \in Crew, SendSteps(w), UNCHANGED otherThanMail
      PROVE  Typed' /\ kind' = kind
  BY <1>8, SendStepTyped DEF otherThanMail, ledgerVars, Typed, HeldOK, IssueOK, LedgerOK
<1>9. ASSUME NEW w \in Crew, CallDies(w)
      PROVE  Typed' /\ kind' = kind
  BY <1>9, CallDiesTyped DEF CallDies, boxVars, offerVars, ledgerVars, Typed, OfferOK, HeldOK, IssueOK,
     LedgerOK, BoxOK, PollOK, Home
<1>10. ASSUME NEW r \in Replicas, ReplicaDies(r)
       PROVE  Typed' /\ kind' = kind
  BY <1>10, ReplicaDiesTyped DEF ReplicaDies, rowVars, offerVars, ledgerVars, Typed, CallOK, OfferOK, HeldOK,
     IssueOK, LedgerOK, BoxOK
<1> QED
  BY <1>1, <1>2, <1>3, <1>4, <1>5, <1>6, <1>7, <1>8, <1>9, <1>10, Steps

LEMMA TypesHold == Spec => []Typed
  BY Initially, StepTyped, PTL DEF Spec

(* The values of the state; and the drain slot is held by the poll that    *)
(* drains, and by no one when it is done (acquireDrain).                   *)
THEOREM TypeCorrect == Spec => []TypeOK
<1>1. Typed => TypeOK
  BY DEF Typed, TypeOK, CallOK, OfferOK, HeldOK, IssueOK, LedgerOK, BoxOK, PollOK, LimitsOK, Saws, Draining
<1> QED BY <1>1, TypesHold, PTL

----------------------------------------------------------------------------
(* The receiver's side. Who claimed an offer is alone with it until it is  *)
(* settled or released, and has no credential of it before; an offer that  *)
(* is not accepted has no row, and a row that is deleted no credential.    *)

Claiming == {"redeem", "settle", "release"}

ClaimAlone ==
  \A w \in Crew : call[w].pc \in Claiming =>
    /\ offer[Of(w)] = "accepting"
    /\ call[w].pc # "settle" => creds[Of(w)] = 0
    /\ \A v \in Crew : call[v].pc \in Claiming /\ Of(v) = Of(w) => v = w

DeleteKnows ==
  \A w \in Crew : call[w].pc \in {"delete", "soft_delete"} =>
    /\ offer[Of(w)] = "accepted"
    /\ call[w].pc = "soft_delete" => creds[Of(w)] = 0

NotAccepted ==
  \A m \in Messages :
    /\ offer[m] # "accepted" => held[m] = "none"
    /\ offer[m] \notin {"accepting", "accepted"} => creds[m] = 0

(* What the trail says the holder knows, and what it knows is so; a        *)
(* re-check that is about to record a revocation read it there.            *)
TrailKnown ==
  /\ \A m \in Messages : (trail[m] => known[m]) /\ (known[m] => revoked[m])
  /\ \A w \in Crew : call[w].pc = "record" /\ call[w].saw = "revoked" => known[Of(w)]

OfferInv == ClaimAlone /\ DeleteKnows /\ NotAccepted /\ OneCredential /\ TrailKnown

HeldPlaces == Claiming \cup {"delete", "soft_delete", "record"}

LEMMA OfferInvKeptByHeld ==
  ASSUME Typed, OfferInv, NEW w \in Crew, HeldStep(w)
  PROVE  OfferInv'
<1> USE DEF Typed, CallOK, OfferOK, HeldOK, IssueOK, Of, At, Begin, Go, Done, Idle, OfferInv, ClaimAlone,
            DeleteKnows, NotAccepted, OneCredential, TrailKnown, Claiming
<1>0. call[w].pc # "idle" => Of(w) \in Messages
  BY Under
<1>1. CASE Redeem(w)
  <2>1. ClaimAlone'
    BY <1>0, <1>1 DEF Redeem
  <2>2. DeleteKnows'
    BY <1>0, <1>1 DEF Redeem
  <2>3. NotAccepted'
    BY <1>0, <1>1 DEF Redeem
  <2>4. OneCredential'
    BY <1>0, <1>1 DEF Redeem
  <2>5. TrailKnown'
    BY <1>0, <1>1 DEF Redeem
  <2> QED BY <2>1, <2>2, <2>3, <2>4, <2>5
<1>2. CASE AcceptOffer(w)
  <2>1. ClaimAlone'
    BY <1>0, <1>2 DEF AcceptOffer
  <2>2. DeleteKnows'
    BY <1>0, <1>2 DEF AcceptOffer
  <2>3. NotAccepted'
    BY <1>0, <1>2 DEF AcceptOffer
  <2>4. OneCredential'
    BY <1>0, <1>2 DEF AcceptOffer
  <2>5. TrailKnown'
    BY <1>0, <1>2 DEF AcceptOffer
  <2> QED BY <2>1, <2>2, <2>3, <2>4, <2>5
<1>3. CASE ReleaseOffer(w)
  <2>1. ClaimAlone'
    BY <1>0, <1>3 DEF ReleaseOffer
  <2>2. DeleteKnows'
    BY <1>0, <1>3 DEF ReleaseOffer
  <2>3. NotAccepted'
    BY <1>0, <1>3 DEF ReleaseOffer
  <2>4. OneCredential'
    BY <1>0, <1>3 DEF ReleaseOffer
  <2>5. TrailKnown'
    BY <1>0, <1>3 DEF ReleaseOffer
  <2> QED BY <2>1, <2>2, <2>3, <2>4, <2>5
<1>4. CASE DeleteFromEngine(w)
  <2>1. ClaimAlone'
    BY <1>0, <1>4 DEF DeleteFromEngine
  <2>2. DeleteKnows'
    <3>1. CASE creds' = [creds EXCEPT ![Of(w)] = 0] /\ call' = [call EXCEPT ![w].pc = "soft_delete"]
      BY <1>0, <1>4, <3>1 DEF DeleteFromEngine
    <3>2. CASE UNCHANGED creds /\ call' = [call EXCEPT ![w] = Idle]
      BY <1>4, <3>2 DEF DeleteFromEngine
    <3> QED BY <1>4, <3>1, <3>2 DEF DeleteFromEngine
  <2>3. NotAccepted'
    BY <1>0, <1>4 DEF DeleteFromEngine
  <2>4. OneCredential'
    BY <1>0, <1>4 DEF DeleteFromEngine
  <2>5. TrailKnown'
    <3>1. \A v \in Crew : call'[v].pc = "record" => call'[v] = call[v]
      BY <1>4 DEF DeleteFromEngine
    <3> QED BY <1>4, <3>1 DEF DeleteFromEngine
  <2> QED BY <2>1, <2>2, <2>3, <2>4, <2>5
<1>5. CASE SoftDeleteHeld(w)
  <2>1. ClaimAlone'
    BY <1>0, <1>5 DEF SoftDeleteHeld
  <2>2. DeleteKnows'
    BY <1>0, <1>5 DEF SoftDeleteHeld
  <2>3. NotAccepted'
    BY <1>0, <1>5 DEF SoftDeleteHeld
  <2>4. OneCredential'
    BY <1>0, <1>5 DEF SoftDeleteHeld
  <2>5. TrailKnown'
    BY <1>0, <1>5 DEF SoftDeleteHeld
  <2> QED BY <2>1, <2>2, <2>3, <2>4, <2>5
<1>6. CASE RefreshStatus(w)
  <2>1. ClaimAlone'
    BY <1>0, <1>6 DEF RefreshStatus
  <2>2. DeleteKnows'
    BY <1>0, <1>6 DEF RefreshStatus
  <2>3. NotAccepted'
    BY <1>0, <1>6 DEF RefreshStatus
  <2>4. OneCredential'
    BY <1>0, <1>6 DEF RefreshStatus
  <2>5. TrailKnown'
    BY <1>0, <1>6 DEF RefreshStatus
  <2> QED BY <2>1, <2>2, <2>3, <2>4, <2>5
<1>7. CASE Validities(w)
  <2>1. ClaimAlone'
    BY <1>0, <1>7 DEF Validities, offerVars
  <2>2. DeleteKnows'
    BY <1>0, <1>7 DEF Validities, offerVars
  <2>3. NotAccepted'
    BY <1>0, <1>7 DEF Validities, offerVars
  <2>4. OneCredential'
    BY <1>0, <1>7 DEF Validities, offerVars
  <2>5. TrailKnown'
    BY <1>0, <1>7 DEF Validities, offerVars
  <2> QED BY <2>1, <2>2, <2>3, <2>4, <2>5
<1>8. CASE RecordStatus(w)
  <2>1. ClaimAlone'
    BY <1>0, <1>8 DEF RecordStatus, StatusMoved
  <2>2. DeleteKnows'
    BY <1>0, <1>8 DEF RecordStatus, StatusMoved
  <2>3. NotAccepted'
    BY <1>0, <1>8 DEF RecordStatus, StatusMoved
  <2>4. OneCredential'
    BY <1>0, <1>8 DEF RecordStatus, StatusMoved
  <2>5. TrailKnown'
    BY <1>0, <1>8 DEF RecordStatus, StatusMoved
  <2> QED BY <2>1, <2>2, <2>3, <2>4, <2>5
<1>9. CASE HeldFails(w)
  <2>1. ClaimAlone'
    BY <1>0, <1>9 DEF HeldFails, offerVars
  <2>2. DeleteKnows'
    BY <1>0, <1>9 DEF HeldFails, offerVars
  <2>3. NotAccepted'
    BY <1>0, <1>9 DEF HeldFails, offerVars
  <2>4. OneCredential'
    BY <1>0, <1>9 DEF HeldFails, offerVars
  <2>5. TrailKnown'
    BY <1>0, <1>9 DEF HeldFails, offerVars
  <2> QED BY <2>1, <2>2, <2>3, <2>4, <2>5
<1>10. ASSUME NEW m \in Messages, ClaimOffer(w, m) \/ GetHeld(w, m) \/ Recheck(w, m)
       PROVE  OfferInv'
  <2>1. ClaimAlone'
    <3>1. CASE ClaimOffer(w, m)
      BY <3>1 DEF ClaimOffer
    <3>2. CASE GetHeld(w, m) \/ Recheck(w, m)
      <4>1. \A v \in Crew : call'[v].pc \in Claiming => call'[v] = call[v]
        BY <3>2 DEF GetHeld, Recheck
      <4> QED BY <3>2, <4>1 DEF GetHeld, Recheck, offerVars
    <3> QED BY <1>10, <3>1, <3>2
  <2>2. DeleteKnows'
    BY <1>10 DEF ClaimOffer, GetHeld, Recheck, offerVars
  <2>3. NotAccepted'
    BY <1>10 DEF ClaimOffer, GetHeld, Recheck, offerVars
  <2>4. OneCredential'
    BY <1>10 DEF ClaimOffer, GetHeld, Recheck, offerVars
  <2>5. TrailKnown'
    BY <1>10 DEF ClaimOffer, GetHeld, Recheck, offerVars
  <2> QED BY <2>1, <2>2, <2>3, <2>4, <2>5
<1> QED
  BY <1>1, <1>2, <1>3, <1>4, <1>5, <1>6, <1>7, <1>8, <1>9, <1>10 DEF HeldStep, HeldSteps

LEMMA OfferInvKeptByDecline ==
  ASSUME Typed, OfferInv, NEW m \in Messages, DeclineOffer(m)
  PROVE  OfferInv'
  BY DEF Typed, OfferOK, HeldOK, DeclineOffer, OfferInv, ClaimAlone, DeleteKnows, NotAccepted,
     OneCredential, TrailKnown, Claiming, Of

(* A call that is elsewhere, with what is not an offer's.                  *)
LEMMA OfferInvKeptElsewhere ==
  ASSUME OfferInv, NEW w \in Crew, call'[w].pc \notin HeldPlaces,
         \A v \in Crew : v # w => call'[v] = call[v],
         UNCHANGED offerVars, \A m \in Messages : revoked[m] => revoked'[m]
  PROVE  OfferInv'
  BY DEF OfferInv, ClaimAlone, DeleteKnows, NotAccepted, OneCredential, TrailKnown, Claiming,
     HeldPlaces, Of, offerVars

(* What arrives is only ever a new offer.                                  *)
LEMMA OfferInvKeptByArrival ==
  ASSUME Typed, OfferInv, NEW n, Consume(n) \/ NoOffer, UNCHANGED <<call, creds, held, known, trail, revoked>>
  PROVE  OfferInv'
<1>1. \A m \in Messages : offer'[m] = offer[m] \/ (offer[m] = "none" /\ offer'[m] = "pending")
  BY DEF Typed, OfferOK, Consume, RecordOffer, NoOffer
<1>2. \A w \in Crew : call[w].pc # "idle" => Of(w) \in Messages
  BY Under DEF Typed
<1> QED
  BY <1>1, <1>2 DEF OfferInv, ClaimAlone, DeleteKnows, NotAccepted, OneCredential, TrailKnown, Claiming, Of

LEMMA OfferInvKeptByLedger ==
  ASSUME Typed, OfferInv, NEW w \in Crew, LedgerStep(w), UNCHANGED offerVars
  PROVE  OfferInv'
<1>1. /\ call'[w].pc \notin HeldPlaces
      /\ \A v \in Crew : v # w => call'[v] = call[v]
  BY DEF Typed, CallOK, LedgerStep, LedgerSteps, CreateOffer, MarkFailed, SetOffer, Reconcile, MarkClaimed,
     RevokeCredential, RevokeRow, LedgerFails, CreateOffered, Status, GetIssued, Begin, Go, Done, Idle,
     HeldPlaces, Claiming
<1>2. \A m \in Messages : revoked[m] => revoked'[m]
  BY DEF Typed, IssueOK, LedgerStep, LedgerSteps, CreateOffer, MarkFailed, SetOffer, Reconcile, MarkClaimed,
     RevokeCredential, RevokeRow, LedgerFails, CreateOffered, Status, GetIssued
<1> QED BY <1>1, <1>2, OfferInvKeptElsewhere

LEMMA OfferInvKeptBySend ==
  ASSUME Typed, OfferInv, NEW w \in Crew, SendSteps(w), UNCHANGED otherThanMail
  PROVE  OfferInv'
<1>1. /\ call'[w].pc \notin HeldPlaces
      /\ \A v \in Crew : v # w => call'[v] = call[v]
  BY DEF Typed, CallOK, SendSteps, CreateOutbound, HandOver, RecordSent, Go, Done, Idle, HeldPlaces, Claiming
<1>2. UNCHANGED offerVars /\ UNCHANGED revoked
  BY DEF SendSteps, CreateOutbound, HandOver, RecordSent, NoOffer, otherThanMail, offerVars
<1> QED BY <1>1, <1>2, OfferInvKeptElsewhere

LEMMA OfferInvKeptByDeath ==
  ASSUME Typed, OfferInv, NEW w \in Crew, CallDies(w)
  PROVE  OfferInv'
<1>1. /\ call'[w].pc \notin HeldPlaces
      /\ \A v \in Crew : v # w => call'[v] = call[v]
  BY DEF Typed, CallOK, CallDies, Done, Idle, HeldPlaces, Claiming
<1> QED BY <1>1, OfferInvKeptElsewhere DEF CallDies

(* What a poll, or a push, hands on.                                       *)
LEMMA Arrivals ==
  ASSUME \/ \E p \in Pollers : PollStep(p)
         \/ \E m \in Messages : PushSteps(m) \/ PushAgain(m)
  PROVE  \E n : Consume(n) \/ NoOffer
  BY DEF PollStep, PollSteps, ListAddresses, AcquireDrain, GiveUp, DrainEnds, ListPending,
     RetrieveMessage, Fetched, Intake, Stored, NotifyConsumer, FetchFails, IntakeFails,
     PushSteps, ReceivePush, NotifyPush, PushAgain

LEMMA OfferStep == Typed /\ OfferInv /\ [Next]_vars => OfferInv'
<1> SUFFICES ASSUME Typed, OfferInv, [Next]_vars PROVE OfferInv'
  OBVIOUS
<1>1. CASE UNCHANGED vars
  BY <1>1 DEF vars, offerVars, OfferInv, ClaimAlone, DeleteKnows, NotAccepted, OneCredential, TrailKnown, Of
<1>2. ASSUME \/ \E p \in Pollers : PollStep(p)
             \/ \E m \in Messages : PushSteps(m) \/ PushAgain(m),
             UNCHANGED <<call, otherThanMail>>
      PROVE  OfferInv'
  BY <1>2, Arrivals, OfferInvKeptByArrival DEF otherThanMail
<1>3. ASSUME NEW m \in Messages, Cancel(m), UNCHANGED <<offerVars, boxVars>>
      PROVE  OfferInv'
  BY <1>3 DEF Cancel, offerVars, OfferInv, ClaimAlone, DeleteKnows, NotAccepted, OneCredential, TrailKnown, Of
<1>4. ASSUME NEW r \in Replicas, ReplicaDies(r)
      PROVE  OfferInv'
  BY <1>4 DEF ReplicaDies, offerVars, OfferInv, ClaimAlone, DeleteKnows, NotAccepted, OneCredential, TrailKnown, Of
<1> QED
  BY <1>1, <1>2, <1>3, <1>4, Steps, OfferInvKeptByHeld, OfferInvKeptByDecline, OfferInvKeptByLedger,
     OfferInvKeptBySend, OfferInvKeptByDeath

LEMMA OfferInvHolds == Spec => [](Typed /\ OfferInv)
<1>1. Init => OfferInv
  BY DEF Init, Idle, OfferInv, ClaimAlone, DeleteKnows, NotAccepted, OneCredential, TrailKnown, Claiming
<1> QED BY <1>1, TypesHold, OfferStep, PTL DEF Spec

(* Each write of an offer is of one that is not decided, and leaves it.    *)
LEMMA OfferWrites ==
  ASSUME Typed, Next, NEW m \in Messages
  PROVE  offer'[m] = offer[m] \/ (offer[m] \notin {"accepted", "declined"} /\ offer'[m] # "none")
<1> DEFINE Written == offer'[m] = offer[m] \/ (offer[m] \notin {"accepted", "declined"} /\ offer'[m] # "none")
<1> USE DEF Typed, OfferOK
<1>1. ASSUME NEW w \in Crew, HeldStep(w) PROVE Written
  BY <1>1 DEF HeldStep, HeldSteps, Redeem, AcceptOffer, ReleaseOffer, DeleteFromEngine, SoftDeleteHeld,
     RefreshStatus, Validities, RecordStatus, HeldFails, ClaimOffer, GetHeld, Recheck, offerVars
<1>2. ASSUME NEW n \in Messages, DeclineOffer(n) PROVE Written
  BY <1>2 DEF DeclineOffer
<1>3. ASSUME NEW n, Consume(n) \/ NoOffer PROVE Written
  BY <1>3 DEF Consume, RecordOffer, NoOffer
<1>4. ASSUME NEW w \in Crew, SendSteps(w) PROVE Written
  BY <1>4 DEF SendSteps, CreateOutbound, HandOver, RecordSent, NoOffer
<1>5. ASSUME \/ UNCHANGED offerVars
             \/ \E w \in Crew : CallDies(w)
             \/ \E r \in Replicas : ReplicaDies(r)
      PROVE  Written
  BY <1>5 DEF offerVars, CallDies, ReplicaDies
<1> HIDE DEF Written
<1>6. Written
  BY <1>1, <1>2, <1>3, <1>4, <1>5, Steps, Arrivals
<1> QED BY <1>6 DEF Written

(* A re-check that takes a revocation off the record was overtaken: what   *)
(* the holder knows is that it is revoked.                                 *)
LEMMA RevocationStep ==
  ASSUME Typed, OfferInv, Next, NEW m \in Messages, trail[m]
  PROVE  trail'[m] \/ "status" \in stale'
<1> USE DEF Typed, HeldOK
<1>1. ASSUME NEW w \in Crew, RecordStatus(w) PROVE trail'[m] \/ "status" \in stale'
  <2>1. CASE Of(w) = m
    BY <1>1, <2>1 DEF RecordStatus, OfferInv, TrailKnown
  <2>2. CASE Of(w) # m
    BY <1>1, <2>2 DEF RecordStatus
  <2> QED BY <2>1, <2>2
<1>2. ASSUME NEW w \in Crew, HeldStep(w), ~RecordStatus(w) PROVE trail'[m]
  BY <1>2 DEF HeldStep, HeldSteps, Redeem, AcceptOffer, ReleaseOffer, DeleteFromEngine, SoftDeleteHeld,
     RefreshStatus, Validities, HeldFails, ClaimOffer, GetHeld, Recheck, offerVars
<1>3. ASSUME NEW n \in Messages, DeclineOffer(n) PROVE trail'[m]
  BY <1>3 DEF DeclineOffer
<1>4. ASSUME \/ UNCHANGED offerVars \/ UNCHANGED otherThanMail
             \/ \E w \in Crew : CallDies(w)
             \/ \E r \in Replicas : ReplicaDies(r)
      PROVE  trail'[m]
  BY <1>4 DEF offerVars, otherThanMail, CallDies, ReplicaDies
<1> QED
  BY <1>1, <1>2, <1>3, <1>4, Steps

LEMMA OneCredentialHolds == Spec => []OneCredential
  BY OfferInvHolds, PTL DEF OfferInv

LEMMA DecisionStandsHolds == Spec => DecisionStands
<1>1. Typed /\ [Next]_vars =>
        [\A m \in Messages : offer[m] \in {"accepted", "declined"} => offer'[m] = offer[m]]_vars
  BY OfferWrites
<1> QED BY <1>1, TypesHold, PTL DEF Spec, DecisionStands

LEMMA RevocationStaysHolds == Spec => RevocationStays
<1>1. Typed /\ OfferInv /\ [Next]_vars =>
        [\A m \in Messages : trail[m] => trail'[m] \/ "status" \in stale']_vars
  BY RevocationStep
<1> QED BY <1>1, OfferInvHolds, PTL DEF Spec, RevocationStays

----------------------------------------------------------------------------
(* The issuer's side. A row is made before the issuer's offer, by one call *)
(* which alone creates it; a row is claimed when the issuer was seen to    *)
(* have issued; and it is revoked on the list before it is in the ledger,  *)
(* where it was read as claimed.                                           *)

OfferMadeOnce ==
  /\ \A m \in kind.ours : ledger[m] = "none" => issuance[m] = "none"
  /\ \A w \in Crew : call[w].pc = "create_offer" =>
       /\ ledger[Of(w)] # "none" /\ issuance[Of(w)] = "none"
       /\ \A v \in Crew : call[v].pc = "create_offer" /\ Of(v) = Of(w) => v = w

ClaimedIsIssued ==
  /\ \A m \in Messages : ledger[m] \in {"claimed", "revoked"} => issuance[m] = "issued"
  /\ \A w \in Crew : call[w].pc = "mark_claimed" => issuance[Of(w)] = "issued"

PublishedFirst ==
  \A w \in Crew : call[w].pc = "revoke_row" /\ call[w].saw = "claimed" => revoked[Of(w)]

RowInv == OfferMadeOnce /\ ClaimedIsIssued /\ PublishedFirst /\ RevokedIsPublished

RowPlaces == {"create_offer", "mark_claimed", "revoke_row"}

(* Whatever is not the ledger's: an issuance may only be redeemed.         *)
LEMMA RowInvKeptElsewhere ==
  ASSUME RowInv, kind' = kind, UNCHANGED <<ledger, revoked>>, stale \subseteq stale',
         \A m \in Messages :
           issuance'[m] = issuance[m] \/ (issuance[m] # "none" /\ issuance'[m] = "issued"),
         \A w \in Crew : call'[w] = call[w] \/ call'[w].pc \notin RowPlaces,
         \A w \in Crew : call[w].pc # "idle" => Of(w) \in Messages,
         kind.ours \subseteq Messages
  PROVE  RowInv'
<1>1. OfferMadeOnce'
  BY DEF RowInv, OfferMadeOnce, RowPlaces, Of
<1>2. ClaimedIsIssued'
  BY DEF RowInv, ClaimedIsIssued, RowPlaces, Of
<1>3. PublishedFirst'
  BY DEF RowInv, PublishedFirst, RowPlaces, Of
<1>4. RevokedIsPublished'
  BY DEF RowInv, RevokedIsPublished
<1> QED BY <1>1, <1>2, <1>3, <1>4 DEF RowInv

LEMMA RowInvKeptByHeld ==
  ASSUME Typed, RowInv, NEW w \in Crew, HeldStep(w), UNCHANGED ledgerVars
  PROVE  RowInv'
<1> USE DEF Typed
<1>1. \A v \in Crew : call[v].pc # "idle" => Of(v) \in Messages
  BY Under
<1>2. \A v \in Crew : call'[v] = call[v] \/ call'[v].pc \notin RowPlaces
  BY DEF CallOK, HeldStep, HeldSteps, Redeem, AcceptOffer, ReleaseOffer, DeleteFromEngine, SoftDeleteHeld,
     RefreshStatus, Validities, RecordStatus, HeldFails, ClaimOffer, GetHeld, Recheck, Begin, Go, Done,
     Idle, RowPlaces
<1>3. /\ UNCHANGED <<ledger, revoked>> /\ stale \subseteq stale'
      /\ \A m \in Messages :
           issuance'[m] = issuance[m] \/ (issuance[m] # "none" /\ issuance'[m] = "issued")
  BY DEF IssueOK, HeldStep, HeldSteps, Redeem, AcceptOffer, ReleaseOffer, DeleteFromEngine, SoftDeleteHeld,
     RefreshStatus, Validities, RecordStatus, HeldFails, ClaimOffer, GetHeld, Recheck, ledgerVars
<1>4. kind' = kind /\ kind.ours \subseteq Messages
  BY HeldStepTyped, KindFacts DEF LimitsOK
<1> QED BY <1>1, <1>2, <1>3, <1>4, RowInvKeptElsewhere

LEMMA RowInvKeptByLedger ==
  ASSUME Typed, RowInv, NEW w \in Crew, LedgerStep(w)
  PROVE  RowInv'
<1> USE DEF Typed, CallOK, IssueOK, LedgerOK, Of, At, Begin, Go, Done, Idle, ledgerVars,
            RowInv, OfferMadeOnce, ClaimedIsIssued, PublishedFirst, RevokedIsPublished
<1>0. (call[w].pc # "idle" => Of(w) \in Messages) /\ kind' = kind /\ kind.ours \subseteq Messages
  BY Under, LedgerStepTyped, KindFacts DEF LimitsOK
<1>a. \A v \in Crew : call[v].pc # "idle" => Of(v) \in Messages
  BY Under
<1>1. CASE CreateOffer(w)
  <2>1. OfferMadeOnce'
    BY <1>0, <1>a, <1>1 DEF CreateOffer
  <2>2. ClaimedIsIssued'
    BY <1>0, <1>a, <1>1 DEF CreateOffer
  <2>3. PublishedFirst'
    BY <1>0, <1>1 DEF CreateOffer
  <2>4. RevokedIsPublished'
    BY <1>0, <1>1 DEF CreateOffer
  <2> QED BY <2>1, <2>2, <2>3, <2>4
<1>2. CASE MarkFailed(w)
  <2>1. OfferMadeOnce'
    BY <1>0, <1>2 DEF MarkFailed
  <2>2. ClaimedIsIssued'
    BY <1>0, <1>2 DEF MarkFailed
  <2>3. PublishedFirst'
    BY <1>0, <1>2 DEF MarkFailed
  <2>4. RevokedIsPublished'
    BY <1>0, <1>2 DEF MarkFailed
  <2> QED BY <2>1, <2>2, <2>3, <2>4
<1>3. CASE SetOffer(w)
  <2>1. OfferMadeOnce'
    BY <1>0, <1>3 DEF SetOffer
  <2>2. ClaimedIsIssued'
    BY <1>0, <1>3 DEF SetOffer
  <2>3. PublishedFirst'
    BY <1>0, <1>3 DEF SetOffer
  <2>4. RevokedIsPublished'
    BY <1>0, <1>3 DEF SetOffer
  <2> QED BY <2>1, <2>2, <2>3, <2>4
<1>4. CASE Reconcile(w)
  <2>1. OfferMadeOnce'
    BY <1>0, <1>4 DEF Reconcile
  <2>2. ClaimedIsIssued'
    BY <1>0, <1>4 DEF Reconcile, IsIssued
  <2>3. PublishedFirst'
    BY <1>0, <1>4 DEF Reconcile
  <2>4. RevokedIsPublished'
    BY <1>0, <1>4 DEF Reconcile
  <2> QED BY <2>1, <2>2, <2>3, <2>4
<1>5. CASE MarkClaimed(w)
  <2>1. OfferMadeOnce'
    BY <1>0, <1>a, <1>5 DEF MarkClaimed
  <2>2. ClaimedIsIssued'
    BY <1>0, <1>5 DEF MarkClaimed
  <2>3. PublishedFirst'
    BY <1>0, <1>5 DEF MarkClaimed
  <2>4. RevokedIsPublished'
    BY <1>0, <1>5 DEF MarkClaimed
  <2> QED BY <2>1, <2>2, <2>3, <2>4
<1>6. CASE RevokeCredential(w)
  <2>1. OfferMadeOnce'
    BY <1>0, <1>6 DEF RevokeCredential
  <2>2. ClaimedIsIssued'
    BY <1>0, <1>6 DEF RevokeCredential
  <2>3. PublishedFirst'
    BY <1>0, <1>a, <1>6 DEF RevokeCredential
  <2>4. RevokedIsPublished'
    BY <1>0, <1>6 DEF RevokeCredential
  <2> QED BY <2>1, <2>2, <2>3, <2>4
<1>7. CASE RevokeRow(w)
  <2>1. OfferMadeOnce'
    BY <1>0, <1>a, <1>7 DEF RevokeRow
  <2>2. ClaimedIsIssued'
    BY <1>0, <1>7 DEF RevokeRow
  <2>3. PublishedFirst'
    BY <1>0, <1>7 DEF RevokeRow
  <2>4. RevokedIsPublished'
    BY <1>0, <1>7 DEF RevokeRow
  <2> QED BY <2>1, <2>2, <2>3, <2>4
<1>8. CASE LedgerFails(w)
  <2>1. OfferMadeOnce'
    BY <1>0, <1>8 DEF LedgerFails
  <2>2. ClaimedIsIssued'
    BY <1>0, <1>8 DEF LedgerFails
  <2>3. PublishedFirst'
    BY <1>0, <1>8 DEF LedgerFails
  <2>4. RevokedIsPublished'
    BY <1>0, <1>8 DEF LedgerFails
  <2> QED BY <2>1, <2>2, <2>3, <2>4
<1>9. ASSUME NEW m \in Messages, CreateOffered(w, m) \/ Status(w, m) \/ GetIssued(w, m)
      PROVE  RowInv'
  <2>1. OfferMadeOnce'
    BY <1>0, <1>a, <1>9 DEF CreateOffered, Status, GetIssued
  <2>2. ClaimedIsIssued'
    BY <1>0, <1>9 DEF CreateOffered, Status, GetIssued
  <2>3. PublishedFirst'
    BY <1>0, <1>9 DEF CreateOffered, Status, GetIssued
  <2>4. RevokedIsPublished'
    BY <1>0, <1>9 DEF CreateOffered, Status, GetIssued
  <2> QED BY <2>1, <2>2, <2>3, <2>4
<1> QED
  BY <1>1, <1>2, <1>3, <1>4, <1>5, <1>6, <1>7, <1>8, <1>9 DEF LedgerStep, LedgerSteps

LEMMA RowInvKeptBySend ==
  ASSUME Typed, RowInv, NEW w \in Crew, SendSteps(w) \/ CallDies(w), UNCHANGED <<issuance, revoked, stale, ledger>>
  PROVE  RowInv'
<1> USE DEF Typed
<1>1. \A v \in Crew : call[v].pc # "idle" => Of(v) \in Messages
  BY Under
<1>2. \A v \in Crew : call'[v] = call[v] \/ call'[v].pc \notin RowPlaces
  BY DEF CallOK, SendSteps, CreateOutbound, HandOver, RecordSent, CallDies, Go, Done, Idle, RowPlaces
<1>3. kind' = kind /\ kind.ours \subseteq Messages
  BY SendStepTyped, CallDiesTyped, KindFacts DEF LimitsOK
<1> QED BY <1>1, <1>2, <1>3, RowInvKeptElsewhere

LEMMA RowStep == Typed /\ RowInv /\ [Next]_vars => RowInv'
<1> SUFFICES ASSUME Typed, RowInv, [Next]_vars PROVE RowInv'
  OBVIOUS
<1>0. kind' = kind
  BY StepTyped
<1>1. ASSUME UNCHANGED <<call, issuance, revoked, stale, ledger>> PROVE RowInv'
  BY <1>0, <1>1 DEF RowInv, OfferMadeOnce, ClaimedIsIssued, PublishedFirst, RevokedIsPublished, Of
<1>2. CASE UNCHANGED vars
  BY <1>1, <1>2 DEF vars, ledgerVars
<1>3. ASSUME NEW m \in Messages, Cancel(m) PROVE RowInv'
  BY <1>0, <1>3 DEF Cancel, Typed, LedgerOK, IssueOK, RowInv, OfferMadeOnce, ClaimedIsIssued, PublishedFirst,
     RevokedIsPublished, Of
<1>4. ASSUME NEW m \in Messages, DeclineOffer(m), UNCHANGED <<boxVars, ledgerVars>> PROVE RowInv'
  BY <1>1, <1>4 DEF DeclineOffer, ledgerVars
<1>5. ASSUME UNCHANGED <<call, otherThanMail>> PROVE RowInv'
  BY <1>1, <1>5 DEF otherThanMail, ledgerVars
<1>6. ASSUME NEW r \in Replicas, ReplicaDies(r) PROVE RowInv'
  BY <1>1, <1>6 DEF ReplicaDies, ledgerVars
<1>7. ASSUME NEW w \in Crew, SendSteps(w), UNCHANGED otherThanMail PROVE RowInv'
  BY <1>7, RowInvKeptBySend DEF otherThanMail, ledgerVars
<1>8. ASSUME NEW w \in Crew, CallDies(w) PROVE RowInv'
  BY <1>8, RowInvKeptBySend DEF CallDies, ledgerVars
<1>9. ASSUME NEW w \in Crew, HeldStep(w), UNCHANGED <<boxVars, ledgerVars>> PROVE RowInv'
  BY <1>9, RowInvKeptByHeld
<1> QED
  BY <1>2, <1>3, <1>4, <1>5, <1>6, <1>7, <1>8, <1>9, Steps, RowInvKeptByLedger

LEMMA RowInvHolds == Spec => [](Typed /\ RowInv)
<1>1. Init => RowInv
  BY KindFacts DEF Init, Idle, RowInv, OfferMadeOnce, ClaimedIsIssued, PublishedFirst, RevokedIsPublished
<1> QED BY <1>1, TypesHold, RowStep, PTL DEF Spec

(* A row that has ended is not written: each write is of an offered row,   *)
(* or, to revoke it, of a claimed one.                                     *)
LEMMA EndedStep ==
  ASSUME Typed, Next, NEW m \in Messages, ledger[m] \in {"failed", "cancelled", "revoked"}
  PROVE  ledger'[m] = ledger[m]
<1> USE DEF Typed, LedgerOK
<1>1. ASSUME NEW w \in Crew, LedgerStep(w) PROVE ledger'[m] = ledger[m]
  BY <1>1 DEF LedgerStep, LedgerSteps, CreateOffer, MarkFailed, SetOffer, Reconcile, MarkClaimed,
     RevokeCredential, RevokeRow, LedgerFails, CreateOffered, Status, GetIssued, ledgerVars
<1>2. ASSUME NEW n \in Messages, Cancel(n) PROVE ledger'[m] = ledger[m]
  BY <1>2 DEF Cancel
<1>3. ASSUME \/ UNCHANGED ledgerVars
             \/ UNCHANGED otherThanMail
             \/ \E w \in Crew : CallDies(w)
             \/ \E r \in Replicas : ReplicaDies(r)
      PROVE  ledger'[m] = ledger[m]
  BY <1>3 DEF ledgerVars, otherThanMail, CallDies, ReplicaDies
<1> QED
  BY <1>1, <1>2, <1>3, Steps

LEMMA LedgerIsTrueHolds == Spec => LedgerIsTrue
<1>1. RowInv => \A m \in Messages : ledger[m] \in {"claimed", "revoked"} => issuance[m] = "issued"
  BY DEF RowInv, ClaimedIsIssued
<1>2. Typed /\ [Next]_vars =>
        [\A m \in Messages :
           ledger[m] \in {"failed", "cancelled", "revoked"} => ledger'[m] = ledger[m]]_vars
  BY EndedStep
<1> QED BY <1>1, <1>2, RowInvHolds, TypesHold, PTL DEF Spec, LedgerIsTrue

(* Revoked at the issuer, in its ledger and at the holder are one thing:   *)
(* the issuer is called before the ledger is written (Revoke), a row is    *)
(* claimed as the issuer says (Reconcile), and what a re-check recorded    *)
(* stays (RecordHeldStatusChange).                                         *)
THEOREM OneRevocation == Spec => RevocationHolds
<1>1. RowInv => RevokedIsPublished
  BY DEF RowInv
<1> QED BY <1>1, RowInvHolds, LedgerIsTrueHolds, RevocationStaysHolds, PTL DEF RevocationHolds

----------------------------------------------------------------------------
(* The mailbox. Where one process polls and nothing fails, the poll that   *)
(* drains is the only one: what it listed still waits, what it retrieved   *)
(* it has until that is stored, and the message it stored until the        *)
(* consumer was told.                                                      *)

InHand ==
  \A p \in DOMAIN kind.polls :
    /\ poll[p].pc \in {"idle", "waiting", "drain"} => poll[p].got = {}
    /\ poll[p].pc # "notify" => poll[p].m = NoOne

ListedWaits ==
  \A p \in DOMAIN kind.polls :
    poll[p].pc = "fetch" => \A m \in poll[p].list : post[m] = "queued"

TakenKept ==
  \A m \in Messages : post[m] = "taken" /\ Owner(m) # NoOne =>
    inbox[m] # NoOne \/ \E p \in DOMAIN kind.polls : m \in poll[p].got

OffersTold ==
  \A m \in kind.offers : inbox[m] # NoOne =>
    \/ offer[m] # "none" \/ push[m] = "stored"
    \/ \E p \in DOMAIN kind.polls : poll[p].m = m

MailOK == InHand /\ ListedWaits /\ TakenKept /\ OffersTold

MailInv == OneReplica /\ Untouched => MailOK

(* Only one poll drains.                                                   *)
LEMMA OneDrains ==
  ASSUME PollOK, OneReplica, NEW p \in DOMAIN kind.polls, NEW q \in DOMAIN kind.polls,
         poll[p].pc \in Draining, poll[q].pc \in Draining
  PROVE  p = q
  BY DEF PollOK, OneReplica, Draining

(* Where nothing failed, the step that was taken did not either.           *)
LEMMA NothingFails ==
  ASSUME LimitsOK, Untouched', kind \in Kinds
  PROVE  ~Fault /\ (Works => Untouched)
  BY KindFacts DEF LimitsOK, Untouched, Fault, Works, bounds

(* A poll that keeps what it has.                                          *)
LEMMA MailKeptByKeeping ==
  ASSUME PollOK, LimitsOK, MailOK, kind' = kind, NEW p \in DOMAIN kind.polls, NEW r \in PollRecord,
         poll' = [poll EXCEPT ![p] = r], r.got = poll[p].got, r.m = poll[p].m,
         r.pc # "fetch", r.pc \in {"idle", "waiting", "drain"} => poll[p].got = {},
         poll[p].pc # "notify", UNCHANGED <<rowVars, offer>>
  PROVE  MailOK'
<1>1. p \in Pollers /\ \A q \in DOMAIN kind.polls : q \in Pollers
  BY PollFacts
<1>2. /\ \A q \in DOMAIN kind.polls : poll'[q].got = poll[q].got /\ poll'[q].m = poll[q].m
      /\ \A q \in DOMAIN kind.polls : q # p => poll'[q] = poll[q]
      /\ poll'[p] = r
  BY <1>1 DEF PollOK
<1>3. InHand'
  BY <1>2 DEF MailOK, InHand
<1>4. ListedWaits'
  BY <1>2 DEF MailOK, ListedWaits, rowVars
<1>5. TakenKept' /\ OffersTold'
  BY <1>2 DEF MailOK, TakenKept, OffersTold, rowVars, Owner
<1> QED BY <1>3, <1>4, <1>5 DEF MailOK

LEMMA MailKeptByPoll ==
  ASSUME Typed, OneReplica, MailOK, NEW p \in Pollers, PollStep(p), ~Fault
  PROVE  MailOK'
<1> USE DEF Typed
<1>0. p \in DOMAIN kind.polls /\ kind' = kind
  BY PollStepTyped DEF PollStep, PollSteps, ListAddresses, AcquireDrain, GiveUp, DrainEnds, ListPending,
     RetrieveMessage, Fetched, Intake, Stored, NotifyConsumer, FetchFails, IntakeFails, AtPoll
<1>a. poll[p] \in PollRecord /\ NoPoll \in PollRecord /\ \A q \in DOMAIN kind.polls : q \in Pollers
  BY <1>0, PollFacts
<1>b. /\ poll[p].pc \in {"idle", "waiting", "drain"} => poll[p].got = {}
      /\ poll[p].pc # "notify" => poll[p].m = NoOne
  BY <1>0 DEF MailOK, InHand
<1>1. CASE ListAddresses(p)
  <2>1. (IF Sweeps(p) THEN Orgs ELSE {kind.polls[p].scope}) \in SUBSET Orgs
    BY <1>0, KindFacts DEF LimitsOK, Sweeps
  <2> DEFINE r == [poll[p] EXCEPT !.pc = "waiting",
                                  !.todo = IF Sweeps(p) THEN Orgs ELSE {kind.polls[p].scope}]
  <2>2. r \in PollRecord /\ poll' = [poll EXCEPT ![p] = r]
    BY <1>1, <1>a, <2>1 DEF ListAddresses, PollRecord
  <2>3. r.got = poll[p].got /\ r.m = poll[p].m /\ r.pc = "waiting"
    BY <1>a DEF PollRecord
  <2>4. poll[p].pc = "idle" /\ UNCHANGED <<rowVars, offer>>
    BY <1>1 DEF ListAddresses, AtPoll, NoOffer
  <2> HIDE DEF r
  <2> QED BY <1>0, <1>b, <2>2, <2>3, <2>4, MailKeptByKeeping
<1>2. CASE AcquireDrain(p)
  <2> DEFINE r == [poll[p] EXCEPT !.pc = "drain"]
  <2>1. r \in PollRecord /\ poll' = [poll EXCEPT ![p] = r]
    BY <1>2, <1>a DEF AcquireDrain, PollRecord, Draining
  <2>2. r.got = poll[p].got /\ r.m = poll[p].m /\ r.pc = "drain"
    BY <1>a DEF PollRecord
  <2>3. poll[p].pc = "waiting" /\ UNCHANGED <<rowVars, offer>>
    BY <1>2 DEF AcquireDrain, AtPoll, NoOffer
  <2> HIDE DEF r
  <2> QED BY <1>0, <1>b, <2>1, <2>2, <2>3, MailKeptByKeeping
<1>3. CASE GiveUp(p) \/ DrainEnds(p)
  <2>1. poll' = [poll EXCEPT ![p] = NoPoll] /\ poll[p].pc \in {"waiting", "drain"} /\ UNCHANGED <<rowVars, offer>>
    BY <1>3 DEF GiveUp, DrainEnds, Finished, AtPoll, NoOffer
  <2>2. NoPoll.got = poll[p].got /\ NoPoll.m = poll[p].m /\ NoPoll.pc = "idle"
    BY <1>b, <2>1 DEF NoPoll
  <2> QED BY <1>0, <1>a, <1>b, <2>1, <2>2, MailKeptByKeeping
<1>4. CASE Fetched(p) \/ Stored(p)
  <2>1. PICK to \in {"drain", "store"} :
          /\ poll' = [poll EXCEPT ![p] = [poll[p] EXCEPT !.pc = to]]
          /\ to = "drain" => poll[p].got = {}
    BY <1>4, <1>a DEF Fetched, Stored, PollRecord
  <2> DEFINE r == [poll[p] EXCEPT !.pc = to]
  <2>2. r \in PollRecord /\ r.got = poll[p].got /\ r.m = poll[p].m /\ r.pc = to
    BY <1>a DEF PollRecord, Draining
  <2>3. poll[p].pc # "notify" /\ UNCHANGED <<rowVars, offer>>
    BY <1>4 DEF Fetched, Stored, AtPoll, NoOffer
  <2>4. poll' = [poll EXCEPT ![p] = r]
    BY <2>1
  <2> HIDE DEF r
  <2> QED BY <1>0, <2>1, <2>2, <2>3, <2>4, MailKeptByKeeping
<1>5. CASE ListPending(p)
  <2>1. PICK addr \in poll[p].todo :
          poll' = [poll EXCEPT ![p] = [poll[p] EXCEPT !.pc = "fetch", !.todo = poll[p].todo \ {addr},
                                                      !.addr = addr, !.list = Pending(addr)]]
    BY <1>5, <1>a, ListPendingPoll
  <2>2. /\ poll'[p].got = poll[p].got /\ poll'[p].m = poll[p].m /\ poll'[p].pc = "fetch"
        /\ poll'[p].list = Pending(addr)
        /\ \A q \in DOMAIN kind.polls : q # p => poll'[q] = poll[q]
    BY <1>a, <2>1 DEF PollOK, PollRecord
  <2>3. poll[p].pc = "drain" /\ UNCHANGED <<rowVars, offer>>
    BY <1>5 DEF ListPending, AtPoll, NoOffer
  <2>4. InHand'
    BY <1>0, <1>b, <2>2, <2>3 DEF MailOK, InHand
  <2>5. ListedWaits'
    BY <1>0, <2>2, <2>3 DEF MailOK, ListedWaits, Pending, rowVars
  <2>6. \A q \in DOMAIN kind.polls : poll'[q].got = poll[q].got /\ poll'[q].m = poll[q].m
    BY <2>2
  <2>7. TakenKept' /\ OffersTold'
    BY <1>0, <2>3, <2>6 DEF MailOK, TakenKept, OffersTold, rowVars, Owner
  <2> QED BY <2>4, <2>5, <2>7 DEF MailOK
<1>6. CASE RetrieveMessage(p)
  <2>1. poll[p].pc = "fetch" /\ UNCHANGED <<inbox, outbox, push, offer>>
    BY <1>6 DEF RetrieveMessage, AtPoll, NoOffer
  <2>2. PICK m \in poll[p].list :
          /\ post' = [post EXCEPT ![m] = "taken"]
          /\ poll' = [poll EXCEPT ![p] = [poll[p] EXCEPT !.list = poll[p].list \ {m},
                                                         !.got = poll[p].got \cup {m}]]
    BY <1>0, <1>6, <1>a, <2>1, RetrievedPoll DEF MailOK, ListedWaits
  <2>3. /\ poll'[p].got = poll[p].got \cup {m} /\ poll'[p].list = poll[p].list \ {m}
        /\ poll'[p].m = poll[p].m /\ poll'[p].pc = "fetch"
        /\ \A q \in DOMAIN kind.polls : q # p => poll'[q] = poll[q]
    BY <1>a, <2>1, <2>2 DEF PollOK, PollRecord
  <2>4. \A q \in DOMAIN kind.polls : poll[q].pc = "fetch" => q = p
    BY <1>0, <2>1, OneDrains DEF Draining
  <2>5. \A n \in Messages : n # m => post'[n] = post[n]
    BY <2>2 DEF BoxOK
  <2>6. InHand'
    BY <1>0, <1>b, <2>1, <2>3 DEF MailOK, InHand
  <2>7. ListedWaits'
    BY <1>0, <1>a, <2>1, <2>3, <2>4, <2>5 DEF MailOK, ListedWaits, PollRecord
  <2>8. TakenKept'
    BY <1>0, <2>1, <2>3, <2>5 DEF MailOK, TakenKept, Owner
  <2>9. OffersTold'
    BY <1>0, <2>1, <2>3 DEF MailOK, OffersTold
  <2> QED BY <2>6, <2>7, <2>8, <2>9 DEF MailOK
<1>7. CASE Intake(p)
  <2>1. PICK m \in poll[p].got :
       IF Owner(m) = NoOne
       THEN poll' = [poll EXCEPT ![p] = [poll[p] EXCEPT !.got = poll[p].got \ {m}]] /\ UNCHANGED inbox
       ELSE /\ CreateInbound(m, Owner(m))
            /\ poll' = [poll EXCEPT ![p] = [poll[p] EXCEPT !.pc = "notify", !.got = poll[p].got \ {m}, !.m = m]]
    BY <1>7, <1>a, IntakePoll
  <2>2. poll[p].pc = "store" /\ UNCHANGED <<post, outbox, push, offer>> /\ m \in Messages
    BY <1>7, <1>a, <2>1 DEF Intake, AtPoll, NoOffer, PollRecord
  <2>0. Owner(m) # NoOne =>
          /\ poll'[p].pc = "notify" /\ poll'[p].got = poll[p].got \ {m} /\ poll'[p].m = m
          /\ \A q \in DOMAIN kind.polls : q # p => poll'[q] = poll[q]
    <3>1. SUFFICES ASSUME Owner(m) # NoOne
                   PROVE  /\ poll'[p].pc = "notify" /\ poll'[p].got = poll[p].got \ {m} /\ poll'[p].m = m
                          /\ \A q \in DOMAIN kind.polls : q # p => poll'[q] = poll[q]
      OBVIOUS
    <3> DEFINE r == [poll[p] EXCEPT !.pc = "notify", !.got = poll[p].got \ {m}, !.m = m]
    <3>2. poll' = [poll EXCEPT ![p] = r]
      BY <2>1, <3>1
    <3>3. r.pc = "notify" /\ r.got = poll[p].got \ {m} /\ r.m = m
      BY <1>a DEF PollRecord
    <3> HIDE DEF r
    <3>4. poll'[p] = r /\ \A q \in DOMAIN kind.polls : q # p => poll'[q] = poll[q]
      BY <1>a, <3>2 DEF PollOK
    <3> QED BY <3>3, <3>4
  <2>3. /\ poll'[p].got = poll[p].got \ {m}
        /\ \/ poll'[p].pc = "store" /\ poll'[p].m = NoOne
           \/ poll'[p].pc = "notify" /\ poll'[p].m = m
        /\ \A q \in DOMAIN kind.polls : q # p => poll'[q] = poll[q]
    <3>1. CASE Owner(m) = NoOne
      BY <1>a, <1>b, <2>1, <2>2, <3>1 DEF PollOK, PollRecord
    <3>2. CASE Owner(m) # NoOne
      BY <2>0, <3>2
    <3> QED BY <3>1, <3>2
  <2>4. /\ Owner(m) # NoOne => inbox'[m] # NoOne /\ poll'[p].m = m
        /\ Owner(m) = NoOne => inbox' = inbox
        /\ \A n \in Messages : n # m => inbox'[n] = inbox[n]
        /\ \A n \in Messages : inbox[n] # NoOne => inbox'[n] = inbox[n]
    <3>1. CASE Owner(m) = NoOne
      BY <2>1, <3>1
    <3>2. CASE Owner(m) # NoOne
      BY <2>0, <2>1, <2>2, <3>2 DEF CreateInbound, BoxOK
    <3> QED BY <3>1, <3>2
  <2>5. InHand'
    BY <1>0, <2>3 DEF MailOK, InHand
  <2>6. ListedWaits'
    BY <1>0, <2>2, <2>3 DEF MailOK, ListedWaits
  <2>7. TakenKept'
    BY <1>0, <2>2, <2>3, <2>4 DEF MailOK, TakenKept, Owner
  <2>8. OffersTold'
    BY <1>0, <1>b, <2>2, <2>3, <2>4, KindFacts DEF MailOK, OffersTold, LimitsOK
  <2> QED BY <2>5, <2>6, <2>7, <2>8 DEF MailOK
<1>8. CASE NotifyConsumer(p)
  <2>1. /\ poll[p].pc = "notify" /\ UNCHANGED rowVars /\ Consume(poll[p].m)
        /\ poll' = [poll EXCEPT ![p] = [poll[p] EXCEPT !.pc = "store", !.m = NoOne]]
    BY <1>8, <1>a DEF NotifyConsumer, AtPoll, PollRecord
  <2>2. /\ poll'[p].got = poll[p].got /\ poll'[p].m = NoOne /\ poll'[p].pc = "store"
        /\ \A q \in DOMAIN kind.polls : q # p => poll'[q] = poll[q]
    BY <1>a, <2>1 DEF PollOK, PollRecord
  <2>3. /\ \A m \in Messages : offer[m] # "none" => offer'[m] # "none"
        /\ poll[p].m \in kind.offers => offer'[poll[p].m] # "none"
    BY <2>1, KindFacts DEF LimitsOK, Consume, RecordOffer, NoOffer, OfferOK
  <2>4. InHand' /\ ListedWaits'
    BY <1>0, <2>1, <2>2 DEF MailOK, InHand, ListedWaits, rowVars
  <2>5. TakenKept'
    BY <1>0, <2>1, <2>2 DEF MailOK, TakenKept, rowVars, Owner
  <2>6. OffersTold'
    BY <1>0, <2>1, <2>2, <2>3, KindFacts DEF MailOK, OffersTold, rowVars, LimitsOK
  <2> QED BY <2>4, <2>5, <2>6 DEF MailOK
<1>9. ~FetchFails(p) /\ ~IntakeFails(p)
  BY DEF FetchFails, IntakeFails
<1> QED
  BY <1>1, <1>2, <1>3, <1>4, <1>5, <1>6, <1>7, <1>8, <1>9 DEF PollStep, PollSteps

(* Whatever else is done: a message that waits is never taken but by a     *)
(* poll, and one that is stored stays, with its consumer told or still to  *)
(* be.                                                                     *)
LEMMA MailKeptElsewhere ==
  ASSUME MailOK, kind' = kind, kind.offers \subseteq Messages, UNCHANGED poll,
         \A p \in DOMAIN kind.polls : poll[p].list \subseteq Messages,
         \A m \in Messages :
           /\ post'[m] = post[m] \/ post'[m] = "queued"
           /\ inbox[m] # NoOne => inbox'[m] # NoOne
           /\ offer[m] # "none" => offer'[m] # "none"
           /\ (inbox'[m] # NoOne /\ inbox[m] = NoOne) \/ push[m] = "stored" =>
                push'[m] = "stored" \/ (m \in kind.offers => offer'[m] # "none")
  PROVE  MailOK'
<1>1. InHand' /\ ListedWaits'
  BY DEF MailOK, InHand, ListedWaits
<1>2. TakenKept' /\ OffersTold'
  BY DEF MailOK, TakenKept, OffersTold, Owner
<1> QED BY <1>1, <1>2 DEF MailOK

(* What a step costs, of any kind.                                         *)
LEMMA StepCosts ==
  ASSUME Next
  PROVE  \/ Works \/ Fault
         \/ \E w \in Crew : CallDies(w)
         \/ \E r \in Replicas : ReplicaDies(r)
<1>1. ASSUME NEW w \in Crew, HeldStep(w) PROVE Works \/ Fault
  BY <1>1 DEF HeldStep, HeldSteps, Redeem, AcceptOffer, ReleaseOffer, DeleteFromEngine, SoftDeleteHeld,
     RefreshStatus, Validities, RecordStatus, HeldFails, ClaimOffer, GetHeld, Recheck
<1>2. ASSUME NEW w \in Crew, LedgerStep(w) PROVE Works \/ Fault
  BY <1>2 DEF LedgerStep, LedgerSteps, CreateOffer, MarkFailed, SetOffer, Reconcile, MarkClaimed,
     RevokeCredential, RevokeRow, LedgerFails, CreateOffered, Status, GetIssued
<1>3. ASSUME NEW p \in Pollers, PollStep(p) PROVE Works \/ Fault
  BY <1>3 DEF PollStep, PollSteps, ListAddresses, AcquireDrain, GiveUp, DrainEnds, ListPending,
     RetrieveMessage, Fetched, Intake, Stored, NotifyConsumer, FetchFails, IntakeFails
<1>4. ASSUME NEW w \in Crew, SendSteps(w) PROVE Works \/ Fault
  BY <1>4 DEF SendSteps, CreateOutbound, HandOver, RecordSent
<1>5. ASSUME NEW m \in Messages, PushSteps(m) \/ PushAgain(m) PROVE Works \/ Fault
  BY <1>5 DEF PushSteps, ReceivePush, NotifyPush, PushAgain
<1>6. ASSUME NEW m \in Messages, DeclineOffer(m) \/ Cancel(m) PROVE Works
  BY <1>6 DEF DeclineOffer, Cancel
<1> QED BY <1>1, <1>2, <1>3, <1>4, <1>5, <1>6, Steps

(* Where nothing failed, nothing had.                                      *)
LEMMA StillUntouched ==
  ASSUME LimitsOK, Next, Untouched'
  PROVE  Untouched /\ Works
<1>1. kind.faults \in Nat /\ kind.crashes \in Nat
  BY KindFacts DEF LimitsOK
<1>2. CASE Works
  BY <1>2 DEF Works, bounds, Untouched
<1>3. ~Fault
  BY <1>1 DEF Fault, LimitsOK, Untouched
<1>4. \A w \in Crew : ~CallDies(w)
  BY <1>1 DEF CallDies, LimitsOK, Untouched
<1>5. \A r \in Replicas : ~ReplicaDies(r)
  BY <1>1 DEF ReplicaDies, LimitsOK, Untouched
<1> QED BY <1>2, <1>3, <1>4, <1>5, StepCosts

LEMMA MailStep ==
  ASSUME Typed, MailOK, OneReplica, Next, Untouched'
  PROVE  MailOK'
<1> USE DEF Typed
<1>0. /\ kind' = kind /\ Works /\ ~Fault /\ kind.offers \subseteq Messages
      /\ \A p \in DOMAIN kind.polls : poll[p].list \subseteq Messages
  BY StepTyped, StillUntouched, KindFacts, PollFacts, NothingFails DEF LimitsOK, PollRecord
<1>1. \A m \in Messages : offer[m] # "none" => offer'[m] # "none"
  BY OfferWrites
<1>2. ASSUME UNCHANGED poll,
             \A m \in Messages :
               /\ post'[m] = post[m] \/ post'[m] = "queued"
               /\ inbox'[m] = inbox[m] /\ push'[m] = push[m]
      PROVE  MailOK'
  BY <1>0, <1>1, <1>2, MailKeptElsewhere
<1>3. CASE UNCHANGED boxVars
  BY <1>2, <1>3 DEF boxVars
<1>4. ASSUME NEW w \in Crew, SendSteps(w) PROVE MailOK'
  BY <1>2, <1>4 DEF SendSteps, CreateOutbound, HandOver, RecordSent, BoxOK
<1>5. ASSUME NEW n \in Messages, ReceivePush(n) PROVE MailOK'
  <2>1. \A m \in Messages :
          /\ inbox[m] # NoOne => inbox'[m] # NoOne
          /\ (inbox'[m] # NoOne /\ inbox[m] = NoOne) \/ push[m] = "stored" => push'[m] = "stored"
    BY <1>5 DEF ReceivePush, CreateInbound, BoxOK
  <2> QED BY <1>0, <1>1, <1>5, <2>1, MailKeptElsewhere DEF ReceivePush
<1>6. ASSUME NEW n \in Messages, NotifyPush(n) PROVE MailOK'
  <2>1. n \in kind.offers => offer'[n] # "none"
    BY <1>0, <1>6 DEF NotifyPush, Consume, RecordOffer, OfferOK
  <2>2. \A m \in Messages : m # n => push'[m] = push[m]
    BY <1>6 DEF NotifyPush, BoxOK
  <2> QED BY <1>0, <1>1, <1>6, <2>1, <2>2, MailKeptElsewhere DEF NotifyPush
<1>7. \A n \in Messages : ~PushAgain(n)
  BY <1>0 DEF PushAgain
<1>8. \A w \in Crew : CallDies(w) => UNCHANGED boxVars
  BY DEF CallDies
<1>9. \A r \in Replicas : ~ReplicaDies(r)
  BY StillUntouched DEF ReplicaDies, Untouched, Works, bounds
<1> QED
  BY <1>0, <1>3, <1>4, <1>5, <1>6, <1>7, <1>8, <1>9, Steps, MailKeptByPoll DEF PushSteps

LEMMA MailInvHolds == Spec => [](Typed /\ MailInv)
<1>1. Init => MailInv
  BY KindFacts DEF Init, NoPoll, MailInv, MailOK, InHand, ListedWaits, TakenKept, OffersTold
<1>2. Typed /\ MailInv /\ [Next]_vars => MailInv'
  <2> SUFFICES ASSUME Typed, MailInv, [Next]_vars, OneReplica', Untouched' PROVE MailOK'
    BY DEF MailInv
  <2>0. kind' = kind /\ OneReplica
    BY StepTyped DEF OneReplica, Home
  <2>1. CASE Next
    BY <2>0, <2>1, StillUntouched, MailStep DEF Typed, MailInv
  <2>2. CASE UNCHANGED vars
    BY <2>0, <2>2 DEF vars, bounds, boxVars, offerVars, Untouched, MailInv, MailOK, InHand, ListedWaits, TakenKept,
       OffersTold, Owner
  <2> QED BY <2>1, <2>2
<1> QED BY <1>1, <1>2, TypesHold, PTL DEF Spec

(* What is written to the inbox is written for the message's recipient.    *)
LEMMA OwnerStep ==
  ASSUME Typed, StoredForOwner, Next
  PROVE  StoredForOwner'
<1> USE DEF Typed, BoxOK
<1>0. kind' = kind
  BY StepTyped
<1>1. ASSUME UNCHANGED inbox PROVE StoredForOwner'
  BY <1>0, <1>1 DEF StoredForOwner, Owner
<1>2. ASSUME NEW n, CreateInbound(n, Owner(n)) PROVE StoredForOwner'
  BY <1>0, <1>2 DEF CreateInbound, StoredForOwner, Owner
<1>3. ASSUME NEW p \in Pollers, PollStep(p) PROVE StoredForOwner'
  BY <1>1, <1>2, <1>3 DEF PollStep, PollSteps, ListAddresses, AcquireDrain, GiveUp, DrainEnds, ListPending,
     RetrieveMessage, Fetched, Intake, Stored, NotifyConsumer, FetchFails, IntakeFails, Attribute, rowVars
<1>4. ASSUME NEW m \in Messages, PushSteps(m) \/ PushAgain(m) PROVE StoredForOwner'
  BY <1>1, <1>2, <1>4 DEF PushSteps, ReceivePush, NotifyPush, PushAgain
<1>5. ASSUME NEW w \in Crew, SendSteps(w) PROVE StoredForOwner'
  BY <1>1, <1>5 DEF SendSteps, CreateOutbound, HandOver, RecordSent
<1>6. ASSUME \/ UNCHANGED boxVars
             \/ \E w \in Crew : CallDies(w)
             \/ \E r \in Replicas : ReplicaDies(r)
      PROVE  StoredForOwner'
  BY <1>1, <1>6 DEF boxVars, CallDies, ReplicaDies, rowVars
<1> QED BY <1>3, <1>4, <1>5, <1>6, Steps

LEMMA StoredForOwnerHolds == Spec => []StoredForOwner
<1>1. Init => StoredForOwner
  BY DEF Init, StoredForOwner
<1>2. Typed /\ StoredForOwner /\ [Next]_vars => StoredForOwner'
  <2>1. UNCHANGED vars /\ StoredForOwner => StoredForOwner'
    BY DEF vars, boxVars, bounds, StoredForOwner, Owner
  <2> QED BY <2>1, OwnerStep
<1> QED BY <1>1, <1>2, TypesHold, PTL DEF Spec

LEMMA NothingLostHolds == Spec => []NothingLost
<1>1. Typed /\ MailInv => NothingLost
  BY KindFacts DEF Typed, LimitsOK, MailInv, MailOK, TakenKept, OffersTold, NothingLost
<1> QED BY <1>1, MailInvHolds, PTL

(* A message is stored for whom it is for (attributeInbound) and, where    *)
(* one process polls, not lost (acquireDrain); its offer is decided once   *)
(* (RecordOffer) and its credential kept once (ClaimOffer).                *)
THEOREM OffersAreSettled == Spec => OffersSettle
  BY StoredForOwnerHolds, NothingLostHolds, OneCredentialHolds, DecisionStandsHolds, PTL DEF OffersSettle
=============================================================================
