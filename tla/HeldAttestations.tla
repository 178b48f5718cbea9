--------------------------- MODULE HeldAttestations ---------------------------
(***************************************************************************)
(* The credentials an organisation receives (backend/internal/attestation, *)
(* offers and held credentials): an offer that came by QERDS is queued,    *)
(* accepted or declined by an administrator, redeemed at its issuer into   *)
(* the organisation's holder engine, indexed, re-checked and deleted.      *)
(*                                                                         *)
(* An offer is named by the message that carried it.  A statement or       *)
(* transaction, and a call to the holder engine, are one step each.        *)
(***************************************************************************)
EXTENDS Naturals, FiniteSets

CONSTANTS
  Orgs,
  Messages,   \* the messages, and the offers they carry
  Crew,       \* the requests and jobs under way
  Kinds,      \* what may happen (below)
  NoOne       \* no organisation, no message, a slot no one holds

Races == {"status", "unclaimed"}

(* A setting: the organisation each message is addressed to (or no one we  *)
(* know); which carry an offer, and which of those this wallet issues;     *)
(* who is at work; the polls (below); the messages that are pushed; and    *)
(* what may go wrong.                                                      *)
ASSUME ExchangeAssumption ==
  /\ NoOne \notin Orgs \cup Messages \cup Crew
  /\ \A k \in Kinds :
       /\ k.owner \in [Messages -> Orgs \cup {NoOne}]
       /\ k.offers \subseteq Messages /\ k.ours \subseteq k.offers
       /\ k.crew \subseteq Crew /\ k.recheck \in BOOLEAN
       /\ k.races \subseteq Races
       /\ k.pushed \subseteq Messages /\ k.unfiltered \in BOOLEAN
       /\ k.faults \in Nat /\ k.crashes \in Nat

VARIABLES
  kind,       \* the setting; never changes
  call,       \* each request or job
  offer,      \* credential_offers: each offer's status
  creds,      \* how many credentials of it the holder engine has
  held,       \* held_attestations: the row of it
  known,      \* the status the holder keeps: revoked or not
  trail,      \* the last status in the audit trail: revoked or not
  issuance,   \* the issuer's side of an offer
  revoked,    \* its bit on the issuer's status list
  stale,      \* history: what a step went on in spite of
  faults, crashes

offerVars == <<offer, creds, held, known, trail>>
bounds    == <<kind, faults, crashes>>

(* saw is what the call read.                                              *)
Idle == [pc |-> "idle", m |-> NoOne, saw |-> "none"]

At(w, pc) == w \in kind.crew /\ call[w].pc = pc
Begin(w, pc, m, saw) == call' = [call EXCEPT ![w] = [pc |-> pc, m |-> m, saw |-> saw]]
Go(w, pc) == call' = [call EXCEPT ![w].pc = pc]
Done(w)   == call' = [call EXCEPT ![w] = Idle]
Of(w)     == call[w].m

(* A step that may fail does so at most kind.faults times.                 *)
Fault == faults < kind.faults /\ faults' = faults + 1 /\ UNCHANGED <<kind, crashes>>
Works == UNCHANGED bounds

----------------------------------------------------------------------------
(* The offer queue.                                                        *)

(* Mutant: an offer that arrives again is to be decided again.             *)
RecordOfferAgain(m) == offer' = [offer EXCEPT ![m] = "pending"]

(* RecordOffer: what was queued before stays as it is.                     *)
RecordOffer(m) ==
  offer' = IF offer[m] = "none" THEN [offer EXCEPT ![m] = "pending"] ELSE offer

(* Mutant: the offer is read, and no one is kept from redeeming it too.    *)
ClaimOfferRead(w, m) ==
  /\ At(w, "idle") /\ offer[m] \in {"pending", "accepting"}
  /\ offer' = [offer EXCEPT ![m] = "accepting"]
  /\ Begin(w, "redeem", m, "none")
  /\ UNCHANGED <<creds, held, known, trail, issuance, revoked, stale>> /\ Works

ClaimOffer(w, m) ==
  /\ At(w, "idle") /\ offer[m] = "pending"
  /\ offer' = [offer EXCEPT ![m] = "accepting"]
  /\ Begin(w, "redeem", m, "none")
  /\ UNCHANGED <<creds, held, known, trail, issuance, revoked, stale>> /\ Works

(* The holder engine redeems the offer at the issuer; or cannot, as when   *)
(* the issuer is down or the wallet not activated.                         *)
Redeem(w) ==
  /\ At(w, "redeem")
  /\ \/ /\ issuance[Of(w)] # "none"
        /\ creds' = [creds EXCEPT ![Of(w)] = @ + 1]
        /\ issuance' = [issuance EXCEPT ![Of(w)] = "issued"]
        /\ known' = [known EXCEPT ![Of(w)] = revoked[Of(w)]]
        /\ Go(w, "settle")
     \/ Go(w, "release") /\ UNCHANGED <<creds, issuance, known>>
  /\ UNCHANGED <<offer, held, trail, revoked, stale>> /\ Works

(* The offer is accepted and its credential indexed, in one transaction.   *)
AcceptOffer(w) ==
  /\ At(w, "settle") /\ Done(w)
  /\ IF offer[Of(w)] = "accepting"
     THEN /\ offer' = [offer EXCEPT ![Of(w)] = "accepted"]
          /\ held' = [held EXCEPT ![Of(w)] = "held"]
     ELSE UNCHANGED <<offer, held>>
  /\ UNCHANGED <<creds, known, trail, issuance, revoked, stale>> /\ Works

(* Mutant: a redemption that failed leaves the claim.                      *)
ReleaseOfferNever(w) ==
  /\ At(w, "release") /\ Done(w)
  /\ UNCHANGED <<offerVars, issuance, revoked, stale>> /\ Works

(* releaseClaim: only a claim is released.                                 *)
ReleaseOffer(w) ==
  /\ At(w, "release") /\ Done(w)
  /\ offer' = IF offer[Of(w)] = "accepting" THEN [offer EXCEPT ![Of(w)] = "pending"] ELSE offer
  /\ UNCHANGED <<creds, held, known, trail, issuance, revoked, stale>> /\ Works

(* Mutant: an offer being redeemed may be declined.                        *)
DeclineOfferClaimed(m) ==
  /\ kind.crew # {} /\ offer[m] \in {"pending", "accepting"}
  /\ offer' = [offer EXCEPT ![m] = "declined"]
  /\ UNCHANGED <<call, creds, held, known, trail, issuance, revoked, stale>> /\ Works

DeclineOffer(m) ==
  /\ kind.crew # {} /\ offer[m] = "pending"
  /\ offer' = [offer EXCEPT ![m] = "declined"]
  /\ UNCHANGED <<call, creds, held, known, trail, issuance, revoked, stale>> /\ Works

----------------------------------------------------------------------------
(* A held credential is deleted: from the engine, then its row.            *)

GetHeld(w, m) ==
  /\ At(w, "idle") /\ held[m] = "held"
  /\ Begin(w, "delete", m, "none")
  /\ UNCHANGED <<offerVars, issuance, revoked, stale>> /\ Works

(* Mutant: the row is deleted whether or not the engine did its part.      *)
DeleteFromEngineOrNot(w) ==
  /\ At(w, "delete") /\ Go(w, "soft_delete")
  /\ \/ creds' = [creds EXCEPT ![Of(w)] = 0] /\ Works
     \/ UNCHANGED creds /\ Fault
  /\ UNCHANGED <<offer, held, known, trail, issuance, revoked, stale>>

DeleteFromEngine(w) ==
  /\ At(w, "delete")
  /\ \/ creds' = [creds EXCEPT ![Of(w)] = 0] /\ Go(w, "soft_delete") /\ Works
     \/ UNCHANGED creds /\ Done(w) /\ Fault
  /\ UNCHANGED <<offer, held, known, trail, issuance, revoked, stale>>

SoftDeleteHeld(w) ==
  /\ At(w, "soft_delete") /\ Done(w)
  /\ held' = [held EXCEPT ![Of(w)] = "deleted"]
  /\ UNCHANGED <<offer, creds, known, trail, issuance, revoked, stale>> /\ Works

----------------------------------------------------------------------------
(* A re-check of a held credential, asked for or scheduled: refresh, read  *)
(* what the holder keeps, record what changed.                             *)

Recheck(w, m) ==
  /\ kind.recheck /\ At(w, "idle") /\ held[m] = "held"
  /\ Begin(w, "refresh", m, "none")
  /\ UNCHANGED <<offerVars, issuance, revoked, stale>> /\ Works

(* Mutant: a refresh that fails forgets what the holder knew.              *)
RefreshStatusForgets(w) ==
  /\ At(w, "refresh") /\ Go(w, "validities")
  /\ \/ known' = [known EXCEPT ![Of(w)] = revoked[Of(w)]] /\ Works
     \/ known' = [known EXCEPT ![Of(w)] = FALSE] /\ Fault
  /\ UNCHANGED <<offer, creds, held, trail, issuance, revoked, stale>>

(* A refresh that fails leaves what the holder kept; it is audited too.    *)
RefreshStatus(w) ==
  /\ At(w, "refresh") /\ Go(w, "validities")
  /\ \/ known' = [known EXCEPT ![Of(w)] = revoked[Of(w)]] /\ Works
     \/ UNCHANGED known /\ Fault
  /\ UNCHANGED <<offer, creds, held, trail, issuance, revoked, stale>>

Validities(w) ==
  /\ At(w, "validities")
  /\ IF creds[Of(w)] = 0 THEN Done(w)
     ELSE call' = [call EXCEPT ![w].pc = "record",
                               ![w].saw = IF known[Of(w)] THEN "revoked" ELSE "valid"]
  /\ UNCHANGED <<offerVars, issuance, revoked, stale>> /\ Works

(* Mutant: only a change to valid is recorded.                             *)
StatusMovedBack(m, s) == trail[m] /\ s = "valid"

StatusMoved(m, s) == trail[m] # (s = "revoked")

(* RecordHeldStatusChange, under the row's lock.  What was read of the     *)
(* holder may be out of date.                                              *)
RecordStatus(w) ==
  LET m == Of(w)
      late == IF (call[w].saw = "revoked") # known[m] THEN {"status"} ELSE {} IN
  /\ At(w, "record") /\ Done(w)
  /\ IF held[m] = "held" /\ StatusMoved(m, call[w].saw)
     THEN /\ late \subseteq kind.races
          /\ trail' = [trail EXCEPT ![m] = call[w].saw = "revoked"]
          /\ stale' = stale \cup late
     ELSE UNCHANGED <<trail, stale>>
  /\ UNCHANGED <<offer, creds, held, known, issuance, revoked>> /\ Works

----------------------------------------------------------------------------
(* A statement fails after the call's effect: an accepted offer is not     *)
(* indexed, a claim not released, a row not deleted, a change not recorded. *)
HeldFails(w) ==
  /\ w \in kind.crew /\ call[w].pc \in {"settle", "release", "soft_delete", "validities", "record"}
  /\ Done(w) /\ Fault
  /\ UNCHANGED <<offerVars, issuance, revoked, stale>>

HeldSteps(w) ==
  \/ Redeem(w) \/ AcceptOffer(w) \/ ReleaseOffer(w)
  \/ DeleteFromEngine(w) \/ SoftDeleteHeld(w)
  \/ RefreshStatus(w) \/ Validities(w) \/ RecordStatus(w)

HeldNext ==
  \/ \E w \in Crew :
       \/ HeldSteps(w) \/ HeldFails(w)
       \/ \E m \in Messages : ClaimOffer(w, m) \/ GetHeld(w, m) \/ Recheck(w, m)
  \/ \E m \in Messages : DeclineOffer(m)
=============================================================================
