--------------------------- MODULE SigningCeremony ---------------------------
(***************************************************************************)
(* A document that several people sign (backend/internal/signing): the     *)
(* request and its signers in the database, and the ceremonies of one      *)
(* process, which live in memory and are lost with it: the slot that lets  *)
(* one signer at a time through (Service.active) and the passes that wait  *)
(* for the signer to come back from the provider (Service.sessions).       *)
(*                                                                         *)
(* One request.  A document is the sequence of the signatures on it.  A    *)
(* critical section, a statement or transaction, and a call to the         *)
(* provider are one step each.                                             *)
(***************************************************************************)
EXTENDS Naturals, Sequences, SequencesExt

CONSTANTS
  Signers,
  Calls,      \* the HTTP requests under way, and the ceremonies they begin
  Kinds,      \* the requests, and what may happen (below)
  NoOne       \* a slot no one holds

Races == {"restart", "late", "again", "declined"}

(* A request: its mode, its signers in signing order, which of them are    *)
(* not members, and whether it has a recipient.  Bounds: who has not       *)
(* linked a credential yet, the calls there are, whether signers decline,  *)
(* whether invitations expire, failures, restarts.                         *)
ASSUME SigningAssumption ==
  /\ NoOne \notin Calls
  /\ \A k \in Kinds :
       /\ k.mode \in {"parallel", "sequential"}
       /\ k.order \in Seq(Signers) /\ IsInjective(k.order) /\ Len(k.order) > 0
       /\ k.external \subseteq ToSet(k.order) /\ k.unlinked \subseteq ToSet(k.order)
       /\ k.recipient \in BOOLEAN /\ k.declines \in BOOLEAN /\ k.expires \in BOOLEAN
       /\ k.races \subseteq Races
       /\ k.calls \subseteq Calls /\ k.faults \in Nat /\ k.crashes \in Nat

VARIABLES
  kind,      \* the setting; never changes
  request,   \* the request's row
  signer,    \* each signer's row: pending, signed, failed or declined
  invite,    \* an external signer's link
  linked,    \* the signers whose credential is stored
  slot,      \* active[requestID]
  call,      \* each call
  stale,     \* history: what a ceremony went on in spite of
  sent,      \* history: the documents the recipient got
  faults, crashes

vars == <<kind, request, signer, invite, linked, slot, call, stale, sent, faults, crashes>>

People   == ToSet(kind.order)
Before(t, s) == \E i, j \in DOMAIN kind.order :
                  i < j /\ kind.order[i] = t /\ kind.order[j] = s
AllSigned == \A s \in People : signer[s] = "signed"
Awaiting  == request.status = "awaiting_signatures"

(* A call: saw is the signer's status in its read, base the document its   *)
(* pass began from, lost that its pass was abandoned.                      *)
Idle == [pc |-> "idle", signer |-> "none", saw |-> "none", base |-> <<>>, todo |-> {},
         lost |-> FALSE]

At(a, pc)  == a \in kind.calls /\ call[a].pc = pc
Go(a, pc)  == call' = [call EXCEPT ![a].pc = pc]
Done(a)    == call' = [call EXCEPT ![a] = Idle]
Me(a)      == call[a].signer

rows    == <<request, signer, invite, linked>>
bounds  == <<kind, faults, crashes>>
history == <<stale, sent>>

----------------------------------------------------------------------------
(* The request is made, and those whose turn it is are told; for an        *)
(* external signer that is the link.                                       *)

CreateRequest(a) ==
  /\ At(a, "idle") /\ request.status = "none"
  /\ request' = [status |-> "awaiting_signatures", doc |-> <<>>,
                 delivery |-> IF kind.recipient THEN "pending" ELSE "not_requested"]
  /\ call' = [call EXCEPT ![a] = [Idle EXCEPT !.pc = "inviting",
       !.todo = IF kind.mode = "sequential" THEN {kind.order[1]} ELSE People]]
  /\ UNCHANGED <<signer, invite, linked, slot, history, bounds>>

(* notifySigner: issuing a link again replaces the one before.             *)
Invited(s) == IF s \in kind.external THEN [invite EXCEPT ![s] = "live"] ELSE invite

Invite(a) ==
  /\ At(a, "inviting")
  /\ IF call[a].todo = {} THEN Done(a) /\ UNCHANGED invite
     ELSE \E s \in call[a].todo :
            /\ invite' = Invited(s)
            /\ call' = [call EXCEPT ![a].todo = @ \ {s}]
  /\ UNCHANGED <<request, signer, linked, slot, history, bounds>>

(* SignerByToken: an external signer comes in by the link only.            *)
Admitted(s) == request.status # "none" /\ s \in People
                 /\ (s \in kind.external => invite[s] = "live")

----------------------------------------------------------------------------
(* A signer links a credential; an external one who signed may not.        *)

StartLink(a, s) ==
  /\ At(a, "idle") /\ Admitted(s) /\ s \notin linked
  /\ s \in kind.external => signer[s] # "signed"
  /\ call' = [call EXCEPT ![a] = [Idle EXCEPT !.pc = "linking", !.signer = s]]
  /\ UNCHANGED <<rows, slot, history, bounds>>

(* The callback stores it; or it fails, is denied, or expires.             *)
FinishLink(a) ==
  /\ At(a, "linking")
  /\ linked' \in {linked, linked \cup {Me(a)}}
  /\ Done(a)
  /\ UNCHANGED <<request, signer, invite, slot, history, bounds>>

----------------------------------------------------------------------------
(* StartSign.                                                              *)

(* Mutant: an earlier signer whose attempt failed counts.                  *)
CheckTurnTried(s) ==
  /\ signer[s] # "signed"
  /\ kind.mode = "sequential" => \A t \in People : Before(t, s) => signer[t] # "pending"

(* Mutant: who signed may sign again.                                      *)
CheckTurnAgain(s) ==
  kind.mode = "sequential" => \A t \in People : Before(t, s) => signer[t] = "signed"

CheckTurn(s) ==
  /\ signer[s] # "signed"
  /\ kind.mode = "sequential" => \A t \in People : Before(t, s) => signer[t] = "signed"

(* The request is read, and the turn and the status checked on that read.  *)
StartSign(a, s) ==
  /\ At(a, "idle") /\ Admitted(s) /\ CheckTurn(s) /\ Awaiting
  /\ call' = [call EXCEPT ![a] = [Idle EXCEPT !.pc = "cleared", !.signer = s, !.saw = signer[s]]]
  /\ UNCHANGED <<rows, slot, history, bounds>>

(* Mutant: another signer's ceremony is discarded as well.                 *)
TheirsNever(a) == FALSE

Theirs(a) == slot # NoOne /\ call[slot].signer # Me(a)

(* discardLocked: a pass that waits is dropped; one whose callback runs is *)
(* abandoned but runs on; a reservation does not know it was discarded.    *)
Discarded(b) ==
  CASE b = NoOne                                -> call
    [] b # NoOne /\ call[b].pc = "parked"       -> [call EXCEPT ![b] = Idle]
    [] b # NoOne /\ call[b].pc \in {"reserved", "based"} -> call
    [] OTHER                                    -> [call EXCEPT ![b].lost = TRUE]

(* What the reservation does not see: the signer's other ceremony goes on, *)
(* or has freed the slot and is about to mark them failed; the read before *)
(* no longer holds; a decline that saw the slot free is on its way.        *)
StaleAt(a) ==
  {x \in Races :
     \/ x = "restart"  /\ slot # NoOne
          /\ call[slot].signer = Me(a) /\ call[slot].pc # "parked"
     \/ x = "late"     /\ \E b \in Calls : call[b].pc = "marking" /\ call[b].signer = Me(a)
     \/ x = "again"    /\ signer[Me(a)] = "signed" /\ call[a].saw # "signed"
     \/ x = "declined" /\ (~Awaiting \/ \E b \in Calls : call[b].pc = "refusing")}

ReserveSign(a) ==
  /\ At(a, "cleared")
  /\ IF Theirs(a) THEN Done(a) /\ UNCHANGED <<slot, stale>>
     ELSE /\ StaleAt(a) \subseteq kind.races \ stale
          /\ slot' = a
          /\ call' = [Discarded(slot) EXCEPT ![a].pc = "reserved", ![a].saw = "none"]
          /\ stale' = stale \cup StaleAt(a)
  /\ UNCHANGED <<rows, sent, bounds>>

(* release frees the slot, whoever holds it by now.                        *)
Release == slot' = NoOne

(* The credential and the latest document are read; the pass begins.       *)
ReadDocument(a) ==
  /\ At(a, "reserved")
  /\ IF Me(a) \in linked
     THEN call' = [call EXCEPT ![a].pc = "based", ![a].base = request.doc] /\ UNCHANGED slot
     ELSE Done(a) /\ Release
  /\ UNCHANGED <<rows, history, bounds>>

(* put: the pass waits for the signer to come back, until SessionTTL.      *)
Put(a) ==
  /\ At(a, "based") /\ Go(a, "parked") /\ slot' = a
  /\ UNCHANGED <<rows, history, bounds>>

StartFails(a) ==
  /\ call[a].pc \in {"reserved", "based"} /\ faults < kind.faults
  /\ faults' = faults + 1
  /\ Done(a) /\ Release
  /\ UNCHANGED <<rows, history, kind, crashes>>

----------------------------------------------------------------------------
(* The callback, or the timer; take hands the ceremony to one of them.     *)

HandleCallback(a) ==
  /\ At(a, "parked") /\ Go(a, "taken")
  /\ UNCHANGED <<rows, slot, history, bounds>>

(* Mutant: the timer drops the ceremony and forgets the slot.              *)
ExpireKeepsSlot(a) ==
  /\ At(a, "parked") /\ Done(a)
  /\ UNCHANGED <<rows, slot, history, bounds>>

Expire(a) ==
  \/ /\ At(a, "parked") /\ Go(a, "expired")
     /\ UNCHANGED <<rows, slot, history, bounds>>
  \/ /\ At(a, "expired") /\ Done(a) /\ Release
     /\ UNCHANGED <<rows, history, bounds>>

(* Mutant: the slot is freed before the signature is recorded.             *)
SignHashFrees(a) ==
  /\ At(a, "taken") /\ Release
  /\ Go(a, IF call[a].lost THEN "failing" ELSE "assembled")
  /\ UNCHANGED <<rows, history, bounds>>

(* The token, the signature and the signed document: a pass that was       *)
(* abandoned does not sign.                                                *)
SignHash(a) ==
  /\ At(a, "taken")
  /\ Go(a, IF call[a].lost THEN "failing" ELSE "assembled")
  /\ UNCHANGED <<rows, slot, history, bounds>>

(* Mutant: a signer whose attempt failed is not waited for.                *)
RecordSignatureTried(a) ==
  /\ At(a, "assembled")
  /\ request' = [request EXCEPT !.doc = Append(call[a].base, Me(a))]
  /\ signer' = [signer EXCEPT ![Me(a)] = "signed"]
  /\ Go(a, IF \A s \in People : signer'[s] # "pending" THEN "last" ELSE "recorded")
  /\ UNCHANGED <<invite, linked, slot, history, bounds>>

(* The signed document replaces the one before, and the signer is signed,  *)
(* whatever the request and the signer are by now.                         *)
RecordSignature(a) ==
  /\ At(a, "assembled")
  /\ request' = [request EXCEPT !.doc = Append(call[a].base, Me(a))]
  /\ signer' = [signer EXCEPT ![Me(a)] = "signed"]
  /\ Go(a, IF \A s \in People : signer'[s] = "signed" THEN "last" ELSE "recorded")
  /\ UNCHANGED <<invite, linked, slot, history, bounds>>

ReleaseSigned(a) ==
  /\ \/ At(a, "recorded") /\ Go(a, "notifying")
     \/ At(a, "last") /\ Go(a, "completing")
  /\ Release
  /\ UNCHANGED <<rows, history, bounds>>

(* Mutant: the next signer is not told.                                    *)
NotifyNextNever(a) ==
  /\ At(a, "notifying") /\ Done(a)
  /\ UNCHANGED <<rows, slot, history, bounds>>

(* notifyNextSequential: the first signer still pending.                   *)
NotifyNext(a) ==
  LET pending == {s \in People : signer[s] = "pending"}
      next    == {s \in pending : \A t \in pending : ~Before(t, s)}
  IN /\ At(a, "notifying") /\ Done(a)
     /\ invite' = IF kind.mode = "sequential" /\ next # {}
                  THEN Invited(CHOOSE s \in next : TRUE) ELSE invite
     /\ UNCHANGED <<request, signer, linked, slot, history, bounds>>

(* Mutant: a completed request is not delivered.                           *)
CompleteOnly(a) ==
  /\ At(a, "completing") /\ Done(a)
  /\ request' = [request EXCEPT !.status = "completed"]
  /\ UNCHANGED <<signer, invite, linked, slot, history, bounds>>

CompleteRequest(a) ==
  /\ At(a, "completing") /\ Go(a, "delivering")
  /\ request' = [request EXCEPT !.status = "completed"]
  /\ UNCHANGED <<signer, invite, linked, slot, history, bounds>>

(* failSign.                                                               *)
FailSign(a) ==
  /\ At(a, "failing") /\ Go(a, "marking") /\ Release
  /\ UNCHANGED <<rows, history, bounds>>

MarkSignerFailed(a) ==
  /\ At(a, "marking") /\ Done(a)
  /\ signer' = [signer EXCEPT ![Me(a)] = "failed"]
  /\ UNCHANGED <<request, invite, linked, slot, history, bounds>>

----------------------------------------------------------------------------
(* deliverAsync, on its own goroutine.                                     *)

Deliver(a) ==
  /\ At(a, "delivering")
  /\ IF ~kind.recipient THEN Done(a)
     ELSE IF request.status # "completed" THEN Go(a, "undelivered")
     ELSE call' = [call EXCEPT ![a].pc = "sending", ![a].base = request.doc]
  /\ UNCHANGED <<rows, slot, history, bounds>>

Send(a) ==
  /\ At(a, "sending") /\ Go(a, "delivered")
  /\ sent' = Append(sent, call[a].base)
  /\ UNCHANGED <<rows, slot, stale, bounds>>

SetDelivery(a) ==
  /\ \/ At(a, "delivered") /\ request' = [request EXCEPT !.delivery = "delivered"]
     \/ At(a, "undelivered") /\ request' = [request EXCEPT !.delivery = "failed"]
  /\ Done(a)
  /\ UNCHANGED <<signer, invite, linked, slot, history, bounds>>

----------------------------------------------------------------------------
(* A signer declines, whether or not it is their turn.                     *)

Decline(a, s) ==
  /\ kind.declines
  /\ At(a, "idle") /\ Admitted(s) /\ signer[s] # "signed" /\ Awaiting
  /\ call' = [call EXCEPT ![a] = [Idle EXCEPT !.pc = "declining", !.signer = s]]
  /\ UNCHANGED <<rows, slot, history, bounds>>

(* Mutant: a decline does not look for a ceremony.                         *)
IsActiveNever(a) ==
  /\ At(a, "declining") /\ Go(a, "refusing")
  /\ UNCHANGED <<rows, slot, history, bounds>>

(* isActive: not while a ceremony holds the slot.                          *)
IsActive(a) ==
  /\ At(a, "declining")
  /\ IF slot = NoOne THEN Go(a, "refusing") ELSE Done(a)
  /\ UNCHANGED <<rows, slot, history, bounds>>

DeclineSigner(a) ==
  /\ At(a, "refusing") /\ Done(a)
  /\ IF signer[Me(a)] # "signed" /\ Awaiting
     THEN /\ signer' = [signer EXCEPT ![Me(a)] = "declined"]
          /\ request' = [request EXCEPT !.status = "declined"]
     ELSE UNCHANGED <<signer, request>>
  /\ UNCHANGED <<invite, linked, slot, history, bounds>>

----------------------------------------------------------------------------
(* A statement or a call to the provider or the recipient fails: what the  *)
(* ceremony needed fails it; completing and telling are only logged.       *)
Fails(a) ==
  /\ a \in kind.calls /\ faults < kind.faults
  /\ faults' = faults + 1
  /\ \/ call[a].pc \in {"taken", "assembled"} /\ Go(a, "failing")
     \/ At(a, "completing") /\ Go(a, "delivering")
     \/ At(a, "sending") /\ Go(a, "undelivered")
     \/ call[a].pc \in {"delivering", "delivered", "undelivered", "notifying", "marking",
                        "refusing"} /\ Done(a)
     \/ /\ At(a, "inviting")
        /\ \E s \in call[a].todo : call' = [call EXCEPT ![a].todo = @ \ {s}]
  /\ UNCHANGED <<rows, slot, history, kind, crashes>>

(* A restart loses the slot, the passes and the deliveries under way.      *)
Crash ==
  /\ crashes < kind.crashes /\ crashes' = crashes + 1
  /\ call' = [a \in Calls |-> Idle] /\ slot' = NoOne
  /\ UNCHANGED <<rows, history, kind, faults>>

(* ExternalInviteTTL passes.                                               *)
InviteExpires(s) ==
  /\ kind.expires /\ invite[s] = "live" /\ invite' = [invite EXCEPT ![s] = "expired"]
  /\ UNCHANGED <<request, signer, linked, slot, call, history, bounds>>

----------------------------------------------------------------------------
Init ==
  /\ kind \in Kinds
  /\ request = [status |-> "none", doc |-> <<>>, delivery |-> "not_requested"]
  /\ signer = [s \in Signers |-> "pending"]
  /\ invite = [s \in Signers |-> "none"]
  /\ linked = People \ kind.unlinked
  /\ slot = NoOne
  /\ call = [a \in Calls |-> Idle]
  /\ stale = {} /\ sent = <<>>
  /\ faults = 0 /\ crashes = 0

(* What a call does by itself, and what its timer does.                    *)
GoOn(a) ==
  \/ Invite(a) \/ FinishLink(a)
  \/ ReserveSign(a) \/ ReadDocument(a) \/ Put(a) \/ Expire(a)
  \/ SignHash(a) \/ RecordSignature(a) \/ ReleaseSigned(a) \/ NotifyNext(a)
  \/ CompleteRequest(a) \/ FailSign(a) \/ MarkSignerFailed(a)
  \/ Deliver(a) \/ Send(a) \/ SetDelivery(a)
  \/ IsActive(a) \/ DeclineSigner(a)

Asked(a) ==
  \/ CreateRequest(a) \/ HandleCallback(a)
  \/ \E s \in People : StartLink(a, s) \/ StartSign(a, s) \/ Decline(a, s)

Next ==
  \/ \E a \in Calls : GoOn(a) \/ Asked(a) \/ StartFails(a) \/ Fails(a)
  \/ Crash
  \/ \E s \in Signers : InviteExpires(s)

Spec == Init /\ [][Next]_vars

(* A call goes on and its timer fires; no one has to come back.            *)
FairSpec == Spec /\ \A a \in Calls : WF_vars(GoOn(a))

----------------------------------------------------------------------------
(* Properties.                                                             *)

(* The types; what holds the slot is a ceremony that has not ended.        *)
TypeOK ==
  /\ request.status \in {"none", "awaiting_signatures", "completed", "declined"}
  /\ request.doc \in Seq(Signers)
  /\ request.delivery \in {"not_requested", "pending", "delivered", "failed"}
  /\ signer \in [Signers -> {"pending", "signed", "failed", "declined"}]
  /\ invite \in [Signers -> {"none", "live", "expired"}]
  /\ linked \subseteq People /\ stale \subseteq Races
  /\ slot # NoOne => call[slot].pc \in
       {"reserved", "based", "parked", "expired", "taken", "assembled", "recorded", "last",
        "failing"}

(* No signature is lost: each pass builds on the document the one before   *)
(* left, so a signer who signed is in the document and the document only   *)
(* grows (RecordSignature writes what the pass began from).  Unless a      *)
(* signer began anew while their own ceremony still ran.                   *)
NoSignatureLost ==
  [][ "restart" \in stale' \/ IsPrefix(request.doc, request'.doc)]_vars

(* Two passes never run over one document: the slot lets one signer        *)
(* through at a time.                                                      *)
OnePass ==
  "restart" \in stale \/
  \A a, b \in kind.calls :
    /\ call[a].pc \in {"based", "parked", "taken", "assembled"}
    /\ call[b].pc \in {"based", "parked", "taken", "assembled"}
    => a = b

(* In sequential mode the signatures stand in the signing order, each on   *)
(* top of those before it.                                                 *)
SignedInOrder ==
  kind.mode = "sequential" /\ "restart" \notin stale =>
    \A i \in DOMAIN request.doc : \A t \in People :
      Before(t, request.doc[i]) => \E j \in 1..(i - 1) : request.doc[j] = t

(* Who signed stays signed, and signs once: a late failure of another      *)
(* ceremony of theirs takes nothing back.                                  *)
SignedOnce ==
  [][stale' = {} => \A s \in People : signer[s] = "signed" =>
       /\ signer'[s] = "signed"
       /\ \E i \in DOMAIN request'.doc :
            \A j \in DOMAIN request'.doc : request'.doc[j] = s <=> j = i]_vars

(* A document that was declined takes no more signatures, and is not       *)
(* completed: unless a ceremony began between the look and the write.      *)
DeclineIsFinal ==
  [][request.status = "declined" /\ stale' = {} =>
       request'.status = "declined" /\ request'.doc = request.doc]_vars

(* The slot serialises the signers of a document, because concurrent       *)
(* signatures cannot be merged: so everyone who signed is in it, also when *)
(* a signer begins anew.                                                   *)
SignersSerialised == \A s \in People : signer[s] = "signed" => s \in ToSet(request.doc)

(* A completed document carries every signer's signature, and the          *)
(* recipient gets that document, once.                                     *)
RecipientGetsWhole ==
  stale = {} =>
    /\ request.status = "completed" => AllSigned /\ ToSet(request.doc) = People
    /\ Len(sent) <= 1
    /\ \A i \in DOMAIN sent : ToSet(sent[i]) = People
    /\ request.delivery = "delivered" => sent # <<>>

(* No signer keeps the others out: a ceremony that holds the slot lets it  *)
(* go, whether its signer comes back or not.                               *)
SlotIsFreed == \A a \in Calls : slot = a ~> slot # a

(* A document everyone signed is completed and reaches its recipient, or   *)
(* says that it did not, unless a statement failed or the process died in  *)
(* between.                                                                *)
SignedIsDelivered ==
  AllSigned ~> \/ request.status = "completed" /\ request.delivery # "pending"
               \/ faults + crashes > 0

(* In sequential mode the external signer whose turn it is gets the link.  *)
NextIsInvited ==
  \A s \in Signers :
    (s \in kind.external /\ kind.mode = "sequential" /\ Awaiting /\ CheckTurn(s)
       /\ invite[s] = "none")
      ~> \/ invite[s] # "none" \/ ~Awaiting \/ faults + crashes > 0 \/ stale # {}

(* One signer at a time, each on what the one before left: no two passes,  *)
(* no signature lost, doubled or out of turn.                              *)
SignersTakeTurns == NoSignatureLost /\ SignedOnce /\ [](OnePass /\ SignedInOrder)

(* A request ends as it says: declined for good, or whole and delivered    *)
(* so.                                                                     *)
EndIsHonoured == DeclineIsFinal /\ []RecipientGetsWhole

(* The ceremony goes on: the slot is freed, the next is invited, the       *)
(* document is delivered.                                                  *)
CeremonyProceeds == SlotIsFreed /\ NextIsInvited /\ SignedIsDelivered
=============================================================================
