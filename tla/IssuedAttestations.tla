-------------------------- MODULE IssuedAttestations --------------------------
(***************************************************************************)
(* The credentials an organisation issues (backend/internal/attestation,   *)
(* issued attestations): an offer is made at the issuer and sent to the    *)
(* organisation it is for; the ledger follows the issuer when someone      *)
(* looks; and a credential is revoked on the issuer's status list, then in *)
(* the ledger.  With the mailbox and the receiver's side, a credential's   *)
(* whole life: issued, sent, received, accepted, revoked, re-checked.      *)
(***************************************************************************)
EXTENDS QerdsMailbox

VARIABLES
  ledger,   \* issued_attestations: each row's status
  linked    \* whether the row names the issuer's offer (issuance_id)

ledgerVars == <<ledger, linked>>
vars == <<call, offerVars, issuance, revoked, stale, boxVars, ledgerVars, bounds>>

----------------------------------------------------------------------------
(* Issue.                                                                  *)

CreateOffered(w, m) ==
  /\ At(w, "idle") /\ m \in kind.ours /\ ledger[m] = "none"
  /\ ledger' = [ledger EXCEPT ![m] = "offered"]
  /\ Begin(w, "create_offer", m, "none")
  /\ UNCHANGED <<linked, issuance, revoked, stale>> /\ Works

CreateOffer(w) ==
  /\ At(w, "create_offer")
  /\ \/ issuance' = [issuance EXCEPT ![Of(w)] = "open"] /\ Go(w, "set_offer") /\ Works
     \/ UNCHANGED issuance /\ Go(w, "mark_failed") /\ Fault
  /\ UNCHANGED <<ledgerVars, revoked, stale>>

MarkFailed(w) ==
  /\ At(w, "mark_failed") /\ Done(w)
  /\ ledger' = IF ledger[Of(w)] = "offered" THEN [ledger EXCEPT ![Of(w)] = "failed"] ELSE ledger
  /\ UNCHANGED <<linked, issuance, revoked, stale>> /\ Works

(* SetOffer, whatever the row is by now; then the offer is sent.           *)
SetOffer(w) ==
  /\ At(w, "set_offer")
  /\ \/ linked' = [linked EXCEPT ![Of(w)] = TRUE] /\ Go(w, "send") /\ Works
     \/ UNCHANGED linked /\ Done(w) /\ Fault
  /\ UNCHANGED <<ledger, issuance, revoked, stale>>

----------------------------------------------------------------------------
(* Status and ClaimStatus: an offered row is reconciled with the issuer.   *)

Status(w, m) ==
  /\ At(w, "idle") /\ m \in kind.ours /\ ledger[m] = "offered" /\ linked[m]
  /\ Begin(w, "reconcile", m, "none")
  /\ UNCHANGED <<ledgerVars, issuance, revoked, stale>> /\ Works

(* Mutant: an offer that is open counts as issued.                         *)
IsIssuedOpen(m) == issuance[m] # "none"

IsIssued(m) == issuance[m] = "issued"

(* An error of the issuer reads as not yet.                                *)
Reconcile(w) ==
  /\ At(w, "reconcile")
  /\ \/ IsIssued(Of(w)) /\ Go(w, "mark_claimed") /\ Works
     \/ ~IsIssued(Of(w)) /\ Done(w) /\ Works
     \/ Done(w) /\ Fault
  /\ UNCHANGED <<ledgerVars, issuance, revoked, stale>>

(* Mutant: a row that ended is claimed all the same.                       *)
MarkClaimedAny(w) ==
  /\ At(w, "mark_claimed") /\ Done(w)
  /\ ledger' = [ledger EXCEPT ![Of(w)] = "claimed"]
  /\ UNCHANGED <<linked, issuance, revoked, stale>> /\ Works

MarkClaimed(w) ==
  /\ At(w, "mark_claimed") /\ Done(w)
  /\ ledger' = IF ledger[Of(w)] = "offered" THEN [ledger EXCEPT ![Of(w)] = "claimed"] ELSE ledger
  /\ UNCHANGED <<linked, issuance, revoked, stale>> /\ Works

----------------------------------------------------------------------------
(* Revoke, and Cancel.                                                     *)

(* Mutant: the ledger first.                                               *)
GetIssuedLedgerFirst(w, m) ==
  /\ At(w, "idle") /\ m \in kind.ours /\ ledger[m] # "none"
  /\ Begin(w, "revoke_row", m, ledger[m])
  /\ UNCHANGED <<ledgerVars, issuance, revoked, stale>> /\ Works

(* The row as it is read decides whether the issuer is called.             *)
GetIssued(w, m) ==
  /\ At(w, "idle") /\ m \in kind.ours /\ ledger[m] # "none"
  /\ Begin(w, IF ledger[m] = "claimed" THEN "revoke_bit" ELSE "revoke_row", m, ledger[m])
  /\ UNCHANGED <<ledgerVars, issuance, revoked, stale>> /\ Works

RevokeCredential(w) ==
  /\ At(w, "revoke_bit")
  /\ \/ revoked' = [revoked EXCEPT ![Of(w)] = TRUE] /\ Go(w, "revoke_row") /\ Works
     \/ UNCHANGED revoked /\ Done(w) /\ Fault
  /\ UNCHANGED <<ledgerVars, issuance, stale>>

(* Only a claimed row is revoked; it may have become one since the read.   *)
RevokeRow(w) ==
  LET m == Of(w)
      late == IF call[w].saw # "claimed" THEN {"unclaimed"} ELSE {} IN
  /\ At(w, "revoke_row") /\ Done(w)
  /\ IF ledger[m] = "claimed"
     THEN /\ late \subseteq kind.races
          /\ ledger' = [ledger EXCEPT ![m] = "revoked"]
          /\ stale' = stale \cup late
     ELSE UNCHANGED <<ledger, stale>>
  /\ UNCHANGED <<linked, issuance, revoked>> /\ Works

Cancel(m) ==
  /\ kind.crew # {} /\ ledger[m] = "offered"
  /\ ledger' = [ledger EXCEPT ![m] = "cancelled"]
  /\ UNCHANGED <<call, linked, issuance, revoked, stale>> /\ Works

(* A statement fails, the row with it.                                     *)
LedgerFails(w) ==
  /\ w \in kind.crew /\ call[w].pc \in {"mark_failed", "mark_claimed", "revoke_row"}
  /\ Done(w) /\ Fault
  /\ UNCHANGED <<ledgerVars, issuance, revoked, stale>>

LedgerSteps(w) ==
  \/ CreateOffer(w) \/ MarkFailed(w) \/ SetOffer(w)
  \/ Reconcile(w) \/ MarkClaimed(w) \/ RevokeCredential(w) \/ RevokeRow(w)

LedgerNext ==
  \/ \E w \in Crew :
       \/ LedgerSteps(w) \/ LedgerFails(w)
       \/ \E m \in Messages : CreateOffered(w, m) \/ Status(w, m) \/ GetIssued(w, m)
  \/ \E m \in Messages : Cancel(m)

----------------------------------------------------------------------------
(* The exchange.                                                           *)

(* A request or job dies with its replica.                                 *)
CallDies(w) ==
  /\ call[w] # Idle /\ crashes < kind.crashes
  /\ crashes' = crashes + 1 /\ Done(w)
  /\ UNCHANGED <<offerVars, issuance, revoked, stale, boxVars, ledgerVars, kind, faults>>

(* A replica dies with its polls and its slot.                             *)
ReplicaDies(r) ==
  /\ slot[r] # NoOne /\ crashes < kind.crashes
  /\ crashes' = crashes + 1
  /\ poll' = [p \in Pollers |->
                IF p \in DOMAIN kind.polls /\ Home(p) = r THEN NoPoll ELSE poll[p]]
  /\ slot' = [slot EXCEPT ![r] = NoOne]
  /\ UNCHANGED <<call, offerVars, issuance, revoked, stale, rowVars, ledgerVars, kind, faults>>

Init ==
  /\ kind \in Kinds
  /\ call = [w \in Crew |-> Idle]
  /\ offer = [m \in Messages |-> "none"]
  /\ creds = [m \in Messages |-> 0]
  /\ held = [m \in Messages |-> "none"]
  /\ known = [m \in Messages |-> FALSE]
  /\ trail = [m \in Messages |-> FALSE]
  /\ issuance = [m \in Messages |-> IF m \in kind.offers \ kind.ours THEN "open" ELSE "none"]
  /\ revoked = [m \in Messages |-> FALSE]
  /\ stale = {} /\ faults = 0 /\ crashes = 0
  /\ post = [m \in Messages |-> IF m \in kind.queued THEN "queued" ELSE "none"]
  /\ inbox = [m \in Messages |-> NoOne]
  /\ outbox = [m \in Messages |-> "none"]
  /\ push = [m \in Messages |-> IF m \in kind.pushed THEN "due" ELSE "none"]
  /\ poll = [p \in Pollers |-> NoPoll]
  /\ slot = [r \in Replicas |-> NoOne]
  /\ ledger = [m \in Messages |-> "none"]
  /\ linked = [m \in Messages |-> FALSE]

otherThanMail == <<creds, held, known, trail, issuance, revoked, stale, ledgerVars>>

Next ==
  \/ HeldNext /\ UNCHANGED <<boxVars, ledgerVars>>
  \/ MailNext /\ UNCHANGED <<call, otherThanMail>>
  \/ \E w \in Crew : SendSteps(w) /\ UNCHANGED otherThanMail
  \/ LedgerNext /\ UNCHANGED <<offerVars, boxVars>>
  \/ \E w \in Crew : CallDies(w)
  \/ \E r \in Replicas : ReplicaDies(r)

Spec == Init /\ [][Next]_vars

(* What is under way goes on; the sweep comes back (startQerdsInboundPoller)*)
(* and the drain slot is a channel, whose waiters are served in turn; the  *)
(* provider pushes again; the scheduled re-check visits every credential   *)
(* (RecheckAllHeld).                                                       *)
FairSpec ==
  /\ Spec
  /\ \A w \in Crew : WF_vars(/\ call[w].pc # "idle"
                             /\ \/ HeldSteps(w) /\ UNCHANGED <<boxVars, ledgerVars>>
                                \/ LedgerSteps(w) /\ UNCHANGED <<offerVars, boxVars>>
                                \/ SendSteps(w) /\ UNCHANGED otherThanMail)
  /\ \A p \in Pollers :
       /\ WF_vars(PollSteps(p) /\ UNCHANGED <<call, otherThanMail>>)
       /\ WF_vars(p \in DOMAIN kind.polls /\ Sweeps(p) /\ ListAddresses(p) /\ UNCHANGED <<call, otherThanMail>>)
       /\ SF_vars(AcquireDrain(p) /\ UNCHANGED <<call, otherThanMail>>)
  /\ \A m \in Messages :
       /\ WF_vars(PushSteps(m) /\ UNCHANGED <<call, otherThanMail>>)
       /\ SF_vars(\E w \in Crew : Recheck(w, m) /\ UNCHANGED <<boxVars, ledgerVars>>)

----------------------------------------------------------------------------
(* What must hold.                                                         *)

CallStates == {"idle", "redeem", "settle", "release", "delete", "soft_delete", "refresh",
               "validities", "record", "create_offer", "mark_failed", "set_offer", "send",
               "hand_over", "record_sent", "reconcile", "mark_claimed", "revoke_bit",
               "revoke_row"}

LedgerStatus == {"none", "offered", "failed", "claimed", "cancelled", "revoked"}

(* The values of the state; and the drain slot is held by the poll that    *)
(* drains, and by no one when it is done.                                  *)
TypeOK ==
  /\ kind \in Kinds /\ faults \in 0..kind.faults /\ crashes \in 0..kind.crashes
  /\ call \in [Crew -> [pc : CallStates, m : Messages \cup {NoOne},
                       saw : LedgerStatus \cup {"valid"}]]
  /\ offer \in [Messages -> {"none", "pending", "accepting", "accepted", "declined"}]
  /\ creds \in [Messages -> Nat]
  /\ held \in [Messages -> {"none", "held", "deleted"}]
  /\ known \in [Messages -> BOOLEAN] /\ trail \in [Messages -> BOOLEAN]
  /\ issuance \in [Messages -> {"none", "open", "issued"}]
  /\ revoked \in [Messages -> BOOLEAN] /\ stale \subseteq Races
  /\ post \in [Messages -> {"none", "queued", "taken"}]
  /\ inbox \in [Messages -> Orgs \cup {NoOne}]
  /\ outbox \in [Messages -> {"none", "submitted", "accepted"}]
  /\ push \in [Messages -> {"none", "due", "stored", "done"}]
  /\ poll \in [Pollers -> [pc : {"idle", "waiting", "drain", "fetch", "store", "notify"},
                          todo : SUBSET Orgs, addr : Orgs \cup {NoOne},
                          list : SUBSET Messages, got : SUBSET Messages,
                          m : Messages \cup {NoOne}]]
  /\ slot \in [Replicas -> Pollers \cup {NoOne}]
  /\ \A p \in DOMAIN kind.polls :
       slot[Home(p)] = p <=> poll[p].pc \notin {"idle", "waiting"}
  /\ ledger \in [Messages -> LedgerStatus] /\ linked \in [Messages -> BOOLEAN]

(* A message is in the inbox of the organisation it is addressed to, never *)
(* of the one whose poll brought it in (attributeInbound).                 *)
StoredForOwner == \A m \in Messages : inbox[m] \in {NoOne, Owner(m)}

(* Where nothing fails and one process polls, a message taken from the     *)
(* access point is stored or about to be, whoever else drains: what the    *)
(* drain slot is for (qerds service.go, acquireDrain).                     *)
OneReplica == \A p, q \in DOMAIN kind.polls : Home(p) = Home(q)
Untouched == faults = 0 /\ crashes = 0

NothingLost ==
  OneReplica /\ Untouched =>
    \A m \in Messages :
      /\ post[m] = "taken" /\ Owner(m) # NoOne
           => inbox[m] # NoOne \/ \E p \in DOMAIN kind.polls : m \in poll[p].got
      /\ m \in kind.offers /\ inbox[m] # NoOne
           => \/ offer[m] # "none" \/ push[m] = "stored"
              \/ \E p \in DOMAIN kind.polls : poll[p].m = m

(* What waits at the access point is taken, where a sweep runs, and what is *)
(* pushed is stored, after failures and crashes too (Poll and PollAll give *)
(* the slot back).                                                         *)
Swept == \E p \in DOMAIN kind.polls : Sweeps(p)

EachArrives ==
  \A m \in Messages :
    /\ Swept /\ post[m] = "queued" /\ Owner(m) # NoOne ~> post[m] = "taken"
    /\ push[m] = "due" /\ Owner(m) # NoOne ~> inbox[m] # NoOne

(* An offer is redeemed at most once, never after it was declined, and a   *)
(* credential that was deleted is gone from the holder engine as well.     *)
OneCredential ==
  \A m \in Messages :
    /\ creds[m] <= 1
    /\ offer[m] = "declined" \/ held[m] = "deleted" => creds[m] = 0

(* What an administrator decided of an offer stands, however often the     *)
(* message is delivered (RecordOffer).                                     *)
DecisionStands ==
  [][\A m \in Messages : offer[m] \in {"accepted", "declined"} => offer'[m] = offer[m]]_vars

(* A claim on an offer ends, redeemed or given back (releaseClaim); where  *)
(* a statement fails or a replica dies it may stay.                        *)
ClaimEnds ==
  \A m \in Messages : offer[m] = "accepting" ~> offer[m] # "accepting" \/ ~Untouched

(* A message is stored for whom it is for and not lost, and its offer is   *)
(* decided once and its credential kept once (StoredForOwner, NothingLost, *)
(* OneCredential, DecisionStands).                                         *)
OffersSettle == [](StoredForOwner /\ NothingLost /\ OneCredential) /\ DecisionStands

(* A row that says revoked is of a credential the status list revokes,     *)
(* unless it became claimed while it was being revoked (stale).            *)
RevokedIsPublished ==
  \A m \in Messages : ledger[m] = "revoked" => revoked[m] \/ "unclaimed" \in stale

(* A row is claimed, or revoked, only of a credential that was issued, and *)
(* a row that has ended does not change, whoever reconciles it late.       *)
LedgerIsTrue ==
  /\ [](\A m \in Messages : ledger[m] \in {"claimed", "revoked"} => issuance[m] = "issued")
  /\ [][\A m \in Messages :
        ledger[m] \in {"failed", "cancelled", "revoked"} => ledger'[m] = ledger[m]]_vars

(* A revocation on record at who holds the credential is not taken back,   *)
(* unless by a re-check overtaken by a newer one (stale).                  *)
RevocationStays ==
  [][\A m \in Messages : trail[m] => trail'[m] \/ "status" \in stale']_vars

(* A revocation reaches the audit trail of who holds the credential, by    *)
(* the re-checks (RecheckAllHeld).                                         *)
RevocationReaches ==
  \A m \in Messages :
    kind.recheck /\ revoked[m] /\ held[m] = "held" ~> trail[m] \/ creds[m] = 0

(* Revoked at the issuer, in its ledger and at the holder are one thing    *)
(* (RevokedIsPublished, LedgerIsTrue, RevocationStays).                    *)
RevocationHolds == []RevokedIsPublished /\ LedgerIsTrue /\ RevocationStays

(* What began completes: messages arrive, claims on offers end, and        *)
(* revocations reach the holder (EachArrives, ClaimEnds,                   *)
(* RevocationReaches).                                                     *)
ExchangeCompletes == EachArrives /\ ClaimEnds /\ RevocationReaches
=============================================================================
