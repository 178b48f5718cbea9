----------------------------- MODULE QerdsMailbox -----------------------------
(***************************************************************************)
(* The mailbox of registered deliveries (backend/internal/qerds): messages *)
(* that wait at the access point are drained by the background sweep and   *)
(* by an organisation's own "check inbox", or pushed to the webhook; each  *)
(* is stored for the organisation it is addressed to, and an offer in it   *)
(* is queued (OfferReceiver).  Retrieving a message consumes it.           *)
(*                                                                         *)
(* An organisation has one address, and is named by it.  A call to the     *)
(* access point and a transaction are one step each.                       *)
(***************************************************************************)
EXTENDS HeldAttestations

CONSTANTS
  Pollers,    \* the sweeps and the inbox checks
  Replicas,   \* the processes
  All         \* the scope of a sweep

(* A poll runs in one process and drains one organisation, or all; some    *)
(* messages wait at the access point from the start.                       *)
ASSUME MailboxAssumption ==
  /\ NoOne \notin Pollers
  /\ \A k \in Kinds :
       /\ DOMAIN k.polls \subseteq Pollers
       /\ \A p \in DOMAIN k.polls : k.polls[p].home \in Replicas /\ k.polls[p].scope \in Orgs \cup {All}
       /\ k.queued \subseteq Messages

VARIABLES
  post,    \* the access point: each message none, queued or taken
  inbox,   \* qerds_messages, inbound: whose the row is
  outbox,  \* qerds_messages, outbound
  push,    \* the provider's pushes
  poll,    \* each poll
  slot     \* the drain slot of each process

boxVars == <<post, inbox, outbox, push, poll, slot>>
rowVars == <<post, inbox, outbox, push>>

Owner(m) == kind.owner[m]

(* todo: addresses left; list: what is to be retrieved at addr; got: what  *)
(* was, and is not stored yet; m: stored, its consumer not told yet.       *)
NoPoll == [pc |-> "idle", todo |-> {}, addr |-> NoOne, list |-> {}, got |-> {}, m |-> NoOne]

AtPoll(p, pc) == p \in DOMAIN kind.polls /\ poll[p].pc = pc
Home(p)   == kind.polls[p].home
Sweeps(p) == kind.polls[p].scope = All

NoOffer == UNCHANGED offer

----------------------------------------------------------------------------
(* Poll and PollAll: the addresses, then the drain slot.                   *)

ListAddresses(p) ==
  /\ AtPoll(p, "idle")
  /\ poll' = [poll EXCEPT ![p].pc = "waiting",
                          ![p].todo = IF Sweeps(p) THEN Orgs ELSE {kind.polls[p].scope}]
  /\ UNCHANGED <<rowVars, slot>> /\ NoOffer /\ Works

(* Mutant: the drains are not serialised.                                  *)
SlotAlwaysFree(p) == TRUE

SlotFree(p) == slot[Home(p)] = NoOne

AcquireDrain(p) ==
  /\ AtPoll(p, "waiting") /\ SlotFree(p)
  /\ slot' = [slot EXCEPT ![Home(p)] = p]
  /\ poll' = [poll EXCEPT ![p].pc = "drain"]
  /\ UNCHANGED rowVars /\ NoOffer /\ Works

(* The console's request runs out while it waits.                          *)
GiveUp(p) ==
  /\ AtPoll(p, "waiting") /\ ~Sweeps(p)
  /\ poll' = [poll EXCEPT ![p] = NoPoll]
  /\ UNCHANGED <<rowVars, slot>> /\ NoOffer /\ Works

Finished(p) ==
  /\ poll' = [poll EXCEPT ![p] = NoPoll]
  /\ slot' = [slot EXCEPT ![Home(p)] = IF @ = p THEN NoOne ELSE @]

DrainEnds(p) ==
  /\ AtPoll(p, "drain") /\ poll[p].todo = {}
  /\ Finished(p)
  /\ UNCHANGED rowVars /\ NoOffer /\ Works

----------------------------------------------------------------------------
(* Fetch: the pending messages of an address, retrieved one by one.        *)

Pending(addr) ==
  {m \in Messages : post[m] = "queued" /\ (Owner(m) = addr \/ kind.unfiltered)}

ListPending(p) ==
  /\ AtPoll(p, "drain")
  /\ \E addr \in poll[p].todo :
       poll' = [poll EXCEPT ![p].pc = "fetch", ![p].todo = @ \ {addr}, ![p].addr = addr,
                            ![p].list = Pending(addr)]
  /\ UNCHANGED <<rowVars, slot>> /\ NoOffer /\ Works

(* Mutant: an inbox check that fails keeps the slot.                       *)
PollFailsKeepsSlot(p) ==
  IF Sweeps(p) THEN poll' = [poll EXCEPT ![p] = [NoPoll EXCEPT !.pc = "drain", !.todo = poll[p].todo]]
                    /\ UNCHANGED slot
  ELSE poll' = [poll EXCEPT ![p] = NoPoll] /\ UNCHANGED slot

(* What fails at an address is logged by the sweep, which goes on, and     *)
(* ends an inbox check; either way what was retrieved there is let go.     *)
PollFails(p) ==
  IF Sweeps(p) THEN poll' = [poll EXCEPT ![p] = [NoPoll EXCEPT !.pc = "drain", !.todo = poll[p].todo]]
                    /\ UNCHANGED slot
  ELSE Finished(p)

RetrieveMessage(p) ==
  /\ AtPoll(p, "fetch")
  /\ \E m \in poll[p].list :
       IF post[m] = "queued"
       THEN /\ post' = [post EXCEPT ![m] = "taken"]
            /\ poll' = [poll EXCEPT ![p].list = @ \ {m}, ![p].got = @ \cup {m}]
            /\ UNCHANGED slot
       ELSE PollFails(p) /\ UNCHANGED post
  /\ UNCHANGED <<inbox, outbox, push>> /\ NoOffer /\ Works

(* A retrieve that fails may have consumed the message all the same.       *)
FetchFails(p) ==
  /\ AtPoll(p, "fetch") /\ PollFails(p) /\ Fault
  /\ \/ UNCHANGED post
     \/ \E m \in poll[p].list : post[m] = "queued" /\ post' = [post EXCEPT ![m] = "taken"]
  /\ UNCHANGED <<inbox, outbox, push>> /\ NoOffer

Fetched(p) ==
  /\ AtPoll(p, "fetch") /\ poll[p].list = {}
  /\ poll' = [poll EXCEPT ![p].pc = IF poll[p].got = {} THEN "drain" ELSE "store"]
  /\ UNCHANGED <<rowVars, slot>> /\ NoOffer /\ Works

----------------------------------------------------------------------------
(* intake, of each message fetched.                                        *)

(* Mutant: what an address hands back is its organisation's.               *)
AttributePolled(p, m) == poll[p].addr

(* attributeInbound: by the message's own recipient.                       *)
Attribute(p, m) == Owner(m)

(* Mutant: a message that is there already is stored over.                 *)
CreateInboundNever(m, org) == UNCHANGED inbox

(* CreateInbound: a row that is there stays.                               *)
CreateInbound(m, org) == inbox' = IF inbox[m] = NoOne THEN [inbox EXCEPT ![m] = org] ELSE inbox

Intake(p) ==
  /\ AtPoll(p, "store")
  /\ \E m \in poll[p].got :
       IF Attribute(p, m) = NoOne
       THEN poll' = [poll EXCEPT ![p].got = @ \ {m}] /\ UNCHANGED inbox
       ELSE /\ CreateInbound(m, Attribute(p, m))
            /\ poll' = [poll EXCEPT ![p].pc = "notify", ![p].got = @ \ {m}, ![p].m = m]
  /\ UNCHANGED <<post, outbox, push, slot>> /\ NoOffer /\ Works

(* A message that cannot be stored is let go; an inbox check ends there.   *)
IntakeFails(p) ==
  /\ AtPoll(p, "store") /\ Fault
  /\ \E m \in poll[p].got :
       IF Sweeps(p) THEN poll' = [poll EXCEPT ![p].got = @ \ {m}] /\ UNCHANGED slot
       ELSE Finished(p)
  /\ UNCHANGED rowVars /\ NoOffer

Stored(p) ==
  /\ AtPoll(p, "store") /\ poll[p].got = {}
  /\ poll' = [poll EXCEPT ![p].pc = "drain"]
  /\ UNCHANGED <<rowVars, slot>> /\ NoOffer /\ Works

(* notifyConsumer: an offer in the message is queued; a failure is logged. *)
Consume(m) == IF m \in kind.offers THEN RecordOffer(m) ELSE NoOffer

NotifyConsumer(p) ==
  /\ AtPoll(p, "notify")
  /\ \/ Consume(poll[p].m) /\ Works
     \/ NoOffer /\ Fault
  /\ poll' = [poll EXCEPT ![p].pc = "store", ![p].m = NoOne]
  /\ UNCHANGED <<rowVars, slot>>

----------------------------------------------------------------------------
(* ReceiveInbound: the provider pushes a message until it is answered.     *)

ReceivePush(m) ==
  /\ push[m] = "due"
  /\ IF Owner(m) = NoOne
     THEN push' = [push EXCEPT ![m] = "done"] /\ UNCHANGED inbox
     ELSE push' = [push EXCEPT ![m] = "stored"] /\ CreateInbound(m, Owner(m))
  /\ UNCHANGED <<post, outbox, poll, slot>> /\ NoOffer /\ Works

NotifyPush(m) ==
  /\ push[m] = "stored"
  /\ push' = [push EXCEPT ![m] = "done"]
  /\ \/ Consume(m) /\ Works
     \/ NoOffer /\ Fault
  /\ UNCHANGED <<post, inbox, outbox, poll, slot>>

(* The answer is lost, or the replica dies in the call: it is pushed again. *)
PushAgain(m) ==
  /\ push[m] \in {"stored", "done"} /\ Fault
  /\ push' = [push EXCEPT ![m] = "due"]
  /\ UNCHANGED <<post, inbox, outbox, poll, slot>> /\ NoOffer

----------------------------------------------------------------------------
(* Send: a message is stored, handed over, and its receipt recorded.       *)

CreateOutbound(w) ==
  /\ At(w, "send") /\ Go(w, "hand_over")
  /\ outbox' = [outbox EXCEPT ![Of(w)] = "submitted"]
  /\ UNCHANGED <<post, inbox, push, poll, slot>> /\ NoOffer /\ Works

(* The provider fails: the message stays submitted, and the call succeeds. *)
HandOver(w) ==
  /\ At(w, "hand_over")
  /\ \/ post' = [post EXCEPT ![Of(w)] = "queued"] /\ Go(w, "record_sent") /\ Works
     \/ UNCHANGED post /\ Done(w) /\ Fault
  /\ UNCHANGED <<inbox, outbox, push, poll, slot>> /\ NoOffer

RecordSent(w) ==
  /\ At(w, "record_sent") /\ Done(w)
  /\ \/ outbox' = [outbox EXCEPT ![Of(w)] = "accepted"] /\ Works
     \/ UNCHANGED outbox /\ Fault
  /\ UNCHANGED <<post, inbox, push, poll, slot>> /\ NoOffer

----------------------------------------------------------------------------
PollSteps(p) ==
  \/ DrainEnds(p) \/ ListPending(p) \/ RetrieveMessage(p) \/ Fetched(p)
  \/ Intake(p) \/ Stored(p) \/ NotifyConsumer(p)

PushSteps(m) == ReceivePush(m) \/ NotifyPush(m)

SendSteps(w) == CreateOutbound(w) \/ HandOver(w) \/ RecordSent(w)

MailNext ==
  \/ \E p \in Pollers :
       \/ ListAddresses(p) \/ AcquireDrain(p) \/ GiveUp(p) \/ PollSteps(p)
       \/ FetchFails(p) \/ IntakeFails(p)
  \/ \E m \in Messages : PushSteps(m) \/ PushAgain(m)
=============================================================================
