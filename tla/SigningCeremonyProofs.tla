------------------------ MODULE SigningCeremonyProofs ------------------------
(***************************************************************************)
(* Proofs about SigningCeremony, for every set of signers, calls and       *)
(* kinds of request: the types, that the signers take turns, and that a    *)
(* request ends as it says.                                                *)
(***************************************************************************)
EXTENDS SigningCeremony, TLAPS, SequenceTheorems

(* A pass is under way over a document that was read; what holds the slot; *)
(* what completes the request and delivers it.                             *)
Pass   == {"based", "parked", "taken", "assembled"}
Held   == Pass \cup {"reserved", "expired", "recorded", "last", "failing"}
Ending == {"last", "completing", "delivering", "sending", "delivered", "undelivered"}
Places == Held \cup Ending \cup {"idle", "inviting", "linking", "cleared", "notifying",
                                 "marking", "declining", "refusing"}

InDoc(s) == \E i \in DOMAIN request.doc : request.doc[i] = s

----------------------------------------------------------------------------
(* The types.                                                              *)

SignerStatus == {"pending", "signed", "failed", "declined"}

CallType == [pc : Places, signer : Signers \cup {"none"}, saw : SignerStatus \cup {"none"},
             base : Seq(Signers), todo : SUBSET Signers, lost : BOOLEAN]

RequestType == [status : {"none", "awaiting_signatures", "completed", "declined"},
                doc : Seq(Signers),
                delivery : {"not_requested", "pending", "delivered", "failed"}]

Typed ==
  /\ kind \in Kinds
  /\ request \in RequestType
  /\ signer \in [Signers -> SignerStatus]
  /\ invite \in [Signers -> {"none", "live", "expired"}]
  /\ linked \subseteq People
  /\ slot \in Calls \cup {NoOne}
  /\ call \in [Calls -> CallType]
  /\ stale \subseteq Races
  /\ sent \in Seq(Seq(Signers))

Named == \A a \in Calls : call[a].pc \notin {"idle", "inviting"} => call[a].signer \in People

(* Before the request is made nothing happens.                             *)
Unmade ==
  request.status = "none" =>
    /\ request.doc = <<>> /\ slot = NoOne /\ sent = <<>>
    /\ \A a \in Calls : call[a].pc = "idle"

SlotHeld == slot # NoOne => call[slot].pc \in Held

Based == Typed /\ Named /\ Unmade /\ SlotHeld

(* Who signs is one of the signers the assumption speaks of.               *)
LEMMA PeopleSign ==
  ASSUME kind \in Kinds
  PROVE  People \subseteq Signers
<1>1. kind.order \in Seq(Signers)  BY SigningAssumption
<1>2. \A i \in DOMAIN kind.order : kind.order[i] \in Signers
  BY <1>1, ElementOfSeq, LenProperties
<1> QED  BY <1>2 DEF People, ToSet

----------------------------------------------------------------------------
(* What the steps do.  Most of them only move one call along.              *)

Only(a)    == \A b \in Calls \ {a} : call'[b] = call[b]
Same(a)    == /\ call'[a].signer = call[a].signer /\ call'[a].saw = call[a].saw
              /\ call'[a].base = call[a].base
Moves(a, ps) == <<call[a].pc, call'[a].pc>> \in ps /\ Same(a)

Leaves(a) ==
  /\ call[a].pc # "idle" /\ call'[a].pc = "idle"
  /\ slot' = IF call[a].pc \in Held THEN NoOne ELSE slot

Comes(a) ==
  /\ call[a].pc = "idle" /\ request.status # "none"
  /\ call'[a].signer \in People /\ slot' = slot
  /\ \/ call'[a].pc \in {"linking", "declining"}
     \/ /\ call'[a].pc = "cleared" /\ CheckTurn(call'[a].signer)
        /\ call'[a].saw = signer[call'[a].signer]

Reads(a) ==
  /\ call'[a].signer = call[a].signer /\ call'[a].base = request.doc /\ slot' = slot
  /\ \/ call[a].pc = "reserved" /\ call'[a].pc = "based"
     \/ call[a].pc = "delivering" /\ call'[a].pc = "sending" /\ request.status = "completed"

Frees(a) ==
  /\ Moves(a, {<<"recorded", "notifying">>, <<"last", "completing">>, <<"failing", "marking">>})
  /\ slot' = NoOne

Passes(a) ==
  /\ Moves(a, {<<"inviting", "inviting">>, <<"parked", "taken">>, <<"parked", "expired">>,
               <<"taken", "failing">>, <<"taken", "assembled">>, <<"assembled", "failing">>,
               <<"completing", "delivering">>, <<"sending", "undelivered">>,
               <<"delivering", "undelivered">>})
  /\ slot' = slot

Parks(a)   == Moves(a, {<<"based", "parked">>}) /\ slot' = a
Refuses(a) == Moves(a, {<<"declining", "refusing">>}) /\ slot' = slot /\ slot = NoOne

Walk(a) ==
  /\ Only(a) /\ UNCHANGED <<kind, request, signer, stale, sent>>
  /\ \/ Leaves(a) \/ Comes(a) \/ Reads(a) \/ Frees(a) \/ Passes(a) \/ Parks(a) \/ Refuses(a)

Reserves(a) ==
  /\ At(a, "cleared") /\ ~Theirs(a)
  /\ StaleAt(a) \subseteq kind.races \ stale
  /\ slot' = a
  /\ call' = [Discarded(slot) EXCEPT ![a].pc = "reserved", ![a].saw = "none"]
  /\ stale' = stale \cup StaleAt(a)
  /\ UNCHANGED <<rows, sent, bounds>>

(* Every step is one of these.                                             *)
Writes(a) ==
  \/ CreateRequest(a) \/ Reserves(a) \/ RecordSignature(a) \/ CompleteRequest(a)
  \/ MarkSignerFailed(a) \/ DeclineSigner(a) \/ Send(a) \/ SetDelivery(a)

LEMMA Steps ==
  ASSUME Typed, [Next]_vars
  PROVE  \/ \E a \in Calls : Walk(a) \/ Writes(a)
         \/ Crash
         \/ \E s \in Signers : InviteExpires(s)
         \/ UNCHANGED vars
<1> USE DEF Typed, rows, bounds, history, At, Go, Done, Release, Only, Same, Idle, Me, Held, Pass
<1>1. SUFFICES ASSUME NEW a \in Calls, GoOn(a) \/ Asked(a) \/ StartFails(a) \/ Fails(a)
               PROVE  Walk(a) \/ Writes(a)
  BY DEF Next
<1>c. \A b \in Calls : call[b] \in CallType  OBVIOUS
<1>2. CASE Invite(a)
  BY <1>2, <1>c DEF Invite, Walk, Leaves, Passes, Moves, CallType
<1>3. CASE FinishLink(a)
  BY <1>3 DEF FinishLink, Walk, Leaves
<1>4. CASE ReserveSign(a)
  BY <1>4 DEF ReserveSign, Walk, Leaves, Writes, Reserves
<1>5. CASE ReadDocument(a)
  BY <1>5, <1>c DEF ReadDocument, Walk, Leaves, Reads, CallType
<1>6. CASE Put(a)
  BY <1>6, <1>c DEF Put, Walk, Parks, Moves, CallType
<1>7. CASE Expire(a)
  BY <1>7, <1>c DEF Expire, Walk, Leaves, Passes, Moves, CallType
<1>8. CASE SignHash(a)
  BY <1>8, <1>c DEF SignHash, Walk, Passes, Moves, CallType
<1>9. CASE RecordSignature(a) \/ CompleteRequest(a) \/ MarkSignerFailed(a) \/ Send(a) \/ SetDelivery(a)
            \/ DeclineSigner(a) \/ CreateRequest(a)
  BY <1>9 DEF Writes
<1>10. CASE ReleaseSigned(a)
  BY <1>10, <1>c DEF ReleaseSigned, Walk, Frees, Moves, CallType
<1>11. CASE NotifyNext(a)
  BY <1>11 DEF NotifyNext, Walk, Leaves
<1>12. CASE FailSign(a)
  BY <1>12, <1>c DEF FailSign, Walk, Frees, Moves, CallType
<1>13. CASE Deliver(a)
  BY <1>13, <1>c DEF Deliver, Walk, Leaves, Passes, Reads, Moves, CallType
<1>14. CASE IsActive(a)
  BY <1>14, <1>c DEF IsActive, Walk, Leaves, Refuses, Moves, CallType
<1>15. CASE HandleCallback(a)
  BY <1>15, <1>c DEF HandleCallback, Walk, Passes, Moves, CallType
<1>16. CASE \E s \in People : StartLink(a, s) \/ Decline(a, s)
  <2>1. PICK s \in People : StartLink(a, s) \/ Decline(a, s)
    BY <1>16
  <2>2. call[a].pc = "idle" /\ request.status # "none" /\ slot' = slot
    BY <2>1 DEF StartLink, Decline, Admitted
  <2>3. PICK pc \in {"linking", "declining"} :
           call' = [call EXCEPT ![a] = [Idle EXCEPT !.pc = pc, !.signer = s]]
    BY <2>1 DEF StartLink, Decline
  <2>5. call'[a].signer = s /\ call'[a].pc = pc /\ Only(a)
    BY <2>3
  <2>4. UNCHANGED <<kind, request, signer, stale, sent>>
    BY <2>1 DEF StartLink, Decline
  <2> QED  BY <2>2, <2>4, <2>5 DEF Walk, Comes
<1>17. CASE \E s \in People : StartSign(a, s)
  BY <1>17 DEF StartSign, Admitted, Walk, Comes
<1>18. CASE StartFails(a)
  BY <1>18 DEF StartFails, Walk, Leaves
<1>19. CASE Fails(a)
  BY <1>19, <1>c DEF Fails, Walk, Leaves, Passes, Moves, CallType
<1> QED
  BY <1>1, <1>2, <1>3, <1>4, <1>5, <1>6, <1>7, <1>8, <1>9, <1>10, <1>11, <1>12, <1>13, <1>14,
     <1>15, <1>16, <1>17, <1>18, <1>19 DEF GoOn, Asked

----------------------------------------------------------------------------
(* The types hold.  Most steps give one call a value that is a call.       *)

LEMMA CallStays ==
  ASSUME Typed, NEW a \in Calls, NEW r \in CallType, call' = [call EXCEPT ![a] = r]
  PROVE  call' \in [Calls -> CallType]
BY DEF Typed

(* A call that is somewhere else, a call anew.                             *)
LEMMA CallForms ==
  ASSUME NEW c \in CallType
  PROVE  /\ \A pc \in Places : [c EXCEPT !.pc = pc] \in CallType
         /\ \A pc \in Places, b \in Seq(Signers) : [c EXCEPT !.pc = pc, !.base = b] \in CallType
         /\ [c EXCEPT !.lost = TRUE] \in CallType
         /\ \A ss \in SUBSET Signers : [c EXCEPT !.todo = ss] \in CallType
         /\ Idle \in CallType
<1>1. Idle \in CallType
  BY EmptySeq DEF CallType, Idle, Places
<1>2. /\ \A pc \in Places : [c EXCEPT !.pc = pc] \in CallType
      /\ \A pc \in Places, b \in Seq(Signers) : [c EXCEPT !.pc = pc, !.base = b] \in CallType
  BY DEF CallType
<1>3. /\ [c EXCEPT !.lost = TRUE] \in CallType
      /\ \A ss \in SUBSET Signers : [c EXCEPT !.todo = ss] \in CallType
  BY DEF CallType
<1> QED  BY <1>1, <1>2, <1>3

LEMMA DiscardedTyped ==
  ASSUME Typed
  PROVE  Discarded(slot) \in [Calls -> CallType]
<1>1. call \in [Calls -> CallType] /\ slot \in Calls \cup {NoOne}
  BY DEF Typed
<1>2. \A b \in Calls : Idle \in CallType /\ [call[b] EXCEPT !.lost = TRUE] \in CallType
  BY <1>1, CallForms
<1>3. \A b \in Calls, r \in CallType : [call EXCEPT ![b] = r] \in [Calls -> CallType]
  BY <1>1
<1>4. \A b \in Calls : /\ [call EXCEPT ![b].lost = TRUE] \in [Calls -> CallType]
                      /\ [call EXCEPT ![b] = Idle] \in [Calls -> CallType]
  BY <1>2, <1>3
<1> QED  BY <1>1, <1>4, SigningAssumption DEF Discarded

LEMMA MoveTyped ==
  ASSUME Typed, NEW a \in Calls, NEW pc \in Places, Go(a, pc) \/ Done(a)
  PROVE  call' \in [Calls -> CallType]
<1>1. call[a] \in CallType  BY DEF Typed
<1>2. [call[a] EXCEPT !.pc = pc] \in CallType /\ Idle \in CallType  BY <1>1, CallForms
<1>3. CASE Go(a, pc)
  <2>1. call' = [call EXCEPT ![a] = [call[a] EXCEPT !.pc = pc]]  BY <1>3 DEF Go
  <2> QED  BY <2>1, <1>2, CallStays
<1>4. CASE Done(a)
  BY <1>2, <1>4, CallStays DEF Done
<1> QED  BY <1>3, <1>4

LEMMA BeginTyped ==
  ASSUME Typed, NEW a \in Calls, NEW s \in People, NEW pc \in {"linking", "declining"}
  PROVE  [Idle EXCEPT !.pc = pc, !.signer = s] \in CallType
<1>1. s \in Signers  BY PeopleSign DEF Typed
<1> QED  BY <1>1, EmptySeq DEF CallType, Idle, Places, Held, Pass, Ending

LEMMA CallsTyped ==
  ASSUME Typed, [Next]_vars
  PROVE  call' \in [Calls -> CallType]
<1> USE DEF Typed
<1>p. /\ \A b \in Calls : call[b] \in CallType
      /\ \A pc \in {"idle", "inviting", "parked", "taken", "expired", "failing", "assembled",
                    "last", "recorded", "notifying", "completing", "delivering", "marking",
                    "undelivered", "delivered", "refusing"} : pc \in Places
      /\ request.doc \in Seq(Signers)
  BY DEF Places, Held, Pass, Ending, RequestType
<1>1. CASE UNCHANGED vars \/ \E s \in Signers : InviteExpires(s)
  BY <1>1 DEF vars, InviteExpires
<1>2. CASE Crash
  BY <1>2, EmptySeq DEF Crash, CallType, Idle, Places
<1>3. ASSUME NEW a \in Calls, GoOn(a) \/ Asked(a) \/ StartFails(a) \/ Fails(a)
      PROVE  call' \in [Calls -> CallType]
  <2>1. CASE \E pc \in {"idle", "inviting", "parked", "taken", "expired", "failing", "assembled",
                    "last", "recorded", "notifying", "completing", "delivering", "marking",
                    "undelivered", "delivered", "refusing"} : Go(a, pc) \/ Done(a)
    BY <2>1, <1>p, MoveTyped
  <2>2. CASE Invite(a) \/ Fails(a)
    <3>1. CASE Done(a) \/ \E pc \in {"failing", "delivering", "undelivered"} : Go(a, pc)
      BY <3>1, <2>1
    <3>2. CASE \E s \in call[a].todo : call' = [call EXCEPT ![a].todo = @ \ {s}]
      <4>1. PICK s \in call[a].todo : call' = [call EXCEPT ![a] = [call[a] EXCEPT !.todo = call[a].todo \ {s}]]
        BY <3>2
      <4>2. call[a].todo \ {s} \in SUBSET Signers  BY <1>p DEF CallType
      <4> QED  BY <4>1, <4>2, <1>p, CallForms, CallStays
    <3> QED  BY <2>2, <3>1, <3>2 DEF Invite, Fails
  <2>3. CASE ReserveSign(a)
    <3>1. CASE Done(a)
      BY <3>1, <2>1
    <3>2. CASE call' = [Discarded(slot) EXCEPT ![a].pc = "reserved", ![a].saw = "none"]
      <4>1. Discarded(slot) \in [Calls -> CallType]  BY DiscardedTyped
      <4>2. Discarded(slot)[a] \in CallType  BY <4>1
      <4>3. [Discarded(slot)[a] EXCEPT !.pc = "reserved", !.saw = "none"] \in CallType
        BY <4>2 DEF CallType, Places, Held
      <4>4. call' = [Discarded(slot) EXCEPT ![a] =
                       [Discarded(slot)[a] EXCEPT !.pc = "reserved", !.saw = "none"]]
        BY <3>2, <4>1
      <4> QED  BY <4>1, <4>3, <4>4
    <3> QED  BY <2>3, <3>1, <3>2 DEF ReserveSign
  <2>4. CASE \E pc \in {"based", "sending"} :
               call' = [call EXCEPT ![a].pc = pc, ![a].base = request.doc]
    <3>1. PICK pc \in {"based", "sending"} :
            call' = [call EXCEPT ![a] = [call[a] EXCEPT !.pc = pc, !.base = request.doc]]
      BY <2>4
    <3>2. pc \in Places  BY DEF Places, Held, Pass, Ending
    <3> QED  BY <3>1, <3>2, <1>p, CallForms, CallStays
  <2>5. CASE CreateRequest(a)
    <3>1. PICK ss : /\ ss = (IF kind.mode = "sequential" THEN {kind.order[1]} ELSE People)
                    /\ call' = [call EXCEPT ![a] = [Idle EXCEPT !.pc = "inviting", !.todo = ss]]
      BY <2>5 DEF CreateRequest
    <3>2. ss \subseteq Signers
      <4>1. kind.order \in Seq(Signers) /\ Len(kind.order) > 0  BY SigningAssumption
      <4>2. kind.order[1] \in Signers  BY <4>1, ElementOfSeq, LenProperties
      <4> QED  BY <3>1, <4>2, PeopleSign
    <3>3. [Idle EXCEPT !.pc = "inviting", !.todo = ss] \in CallType
      BY <3>2, EmptySeq DEF Idle, CallType, Places
    <3> QED  BY <3>1, <3>3, CallStays
  <2>6. CASE \E s \in People : StartSign(a, s)
    <3>1. PICK s \in People :
            call' = [call EXCEPT ![a] = [Idle EXCEPT !.pc = "cleared", !.signer = s, !.saw = signer[s]]]
      BY <2>6 DEF StartSign
    <3>2. s \in Signers /\ signer[s] \in SignerStatus  BY PeopleSign
    <3>3. [Idle EXCEPT !.pc = "cleared", !.signer = s, !.saw = signer[s]] \in CallType
      BY <3>2, EmptySeq DEF Idle, CallType, Places
    <3> QED  BY <3>1, <3>3, CallStays
  <2>7. CASE \E s \in People : StartLink(a, s) \/ Decline(a, s)
    <3>1. PICK s \in People, pc \in {"linking", "declining"} :
            call' = [call EXCEPT ![a] = [Idle EXCEPT !.pc = pc, !.signer = s]]
      BY <2>7 DEF StartLink, Decline
    <3> QED  BY <3>1, BeginTyped, CallStays
  <2> QED
    BY <1>3, <2>1, <2>2, <2>3, <2>4, <2>5, <2>6, <2>7
    DEF GoOn, Asked, StartFails, FinishLink, ReadDocument, Put, Expire, SignHash, RecordSignature,
        ReleaseSigned, NotifyNext, CompleteRequest, FailSign, MarkSignerFailed, Deliver, Send,
        SetDelivery, IsActive, DeclineSigner, HandleCallback
<1> QED  BY <1>1, <1>2, <1>3 DEF Next

(* The rows, the slot and the histories.                                   *)
LEMMA RowsTyped ==
  ASSUME Typed, Named, [Next]_vars
  PROVE  /\ kind' = kind
         /\ request' \in RequestType
         /\ signer' \in [Signers -> SignerStatus]
         /\ slot' \in Calls \cup {NoOne}
         /\ stale' \subseteq Races
         /\ sent' \in Seq(Seq(Signers))
<1> USE DEF Typed
<1>p. /\ People \subseteq Signers
      /\ \A b \in Calls : call[b] \in CallType
  BY PeopleSign
<1>1. CASE UNCHANGED vars \/ \E s \in Signers : InviteExpires(s)
  BY <1>1 DEF vars, InviteExpires, history, bounds
<1>2. CASE Crash
  BY <1>2 DEF Crash, rows, history
<1>3. ASSUME NEW a \in Calls, Walk(a)
      PROVE  /\ UNCHANGED <<kind, request, signer, stale, sent>>
             /\ slot' \in Calls \cup {NoOne}
  BY <1>3 DEF Walk, Leaves, Comes, Reads, Frees, Passes, Parks, Refuses
<1>4. ASSUME NEW a \in Calls, CreateRequest(a)
      PROVE  UNCHANGED <<kind, signer, slot, stale, sent>> /\ request' \in RequestType
  BY <1>4, EmptySeq DEF CreateRequest, RequestType, bounds, history
<1>5. ASSUME NEW a \in Calls, Reserves(a)
      PROVE  UNCHANGED <<kind, request, signer, sent>> /\ slot' \in Calls /\ stale' \subseteq Races
  BY <1>5 DEF Reserves, StaleAt, rows, bounds
<1>6. ASSUME NEW a \in Calls, RecordSignature(a)
      PROVE  /\ UNCHANGED <<kind, slot, stale, sent>>
             /\ request' \in RequestType /\ signer' \in [Signers -> SignerStatus]
  <2>1. Me(a) \in Signers
    BY <1>6, <1>p DEF RecordSignature, At, Named, Me
  <2>2. Append(call[a].base, Me(a)) \in Seq(Signers)
    BY <2>1, <1>p, AppendProperties DEF CallType
  <2>3. request' = [request EXCEPT !.doc = Append(call[a].base, Me(a))]
    BY <1>6 DEF RecordSignature
  <2>4. request' \in RequestType
    BY <2>2, <2>3 DEF RequestType
  <2> QED  BY <1>6, <2>1, <2>4 DEF RecordSignature, SignerStatus, history, bounds
<1>7. ASSUME NEW a \in Calls, CompleteRequest(a) \/ SetDelivery(a)
      PROVE  UNCHANGED <<kind, signer, slot, stale, sent>> /\ request' \in RequestType
  BY <1>7 DEF CompleteRequest, SetDelivery, RequestType, history, bounds
<1>8. ASSUME NEW a \in Calls, MarkSignerFailed(a) \/ DeclineSigner(a)
      PROVE  /\ UNCHANGED <<kind, slot, stale, sent>>
             /\ request' \in RequestType /\ signer' \in [Signers -> SignerStatus]
  BY <1>8 DEF MarkSignerFailed, DeclineSigner, RequestType, SignerStatus, history, bounds
<1>9. ASSUME NEW a \in Calls, Send(a)
      PROVE  UNCHANGED <<kind, request, signer, slot, stale>> /\ sent' \in Seq(Seq(Signers))
  <2>1. call[a].base \in Seq(Signers)
    BY <1>p DEF CallType
  <2> QED  BY <1>9, <2>1, AppendProperties DEF Send, rows, bounds
<1> QED
  BY <1>1, <1>2, <1>3, <1>4, <1>5, <1>6, <1>7, <1>8, <1>9, Steps DEF Writes

LEMMA LinksTyped ==
  ASSUME Typed, Named, [Next]_vars
  PROVE  invite' \in [Signers -> {"none", "live", "expired"}] /\ linked' \subseteq People
<1> USE DEF Typed, rows
<1>1. CASE UNCHANGED vars \/ Crash
  BY <1>1 DEF vars, Crash
<1>2. ASSUME NEW s \in Signers, InviteExpires(s)
      PROVE  invite' \in [Signers -> {"none", "live", "expired"}] /\ linked' = linked
  BY <1>2 DEF InviteExpires
<1>3. \A s \in Signers \cup {"none"} : Invited(s) \in [Signers -> {"none", "live", "expired"}]
  BY DEF Invited
<1>4. ASSUME NEW a \in Calls, GoOn(a) \/ Asked(a) \/ StartFails(a) \/ Fails(a)
      PROVE  /\ linked' \subseteq People
             /\ invite' \in [Signers -> {"none", "live", "expired"}]
  <2>c. call[a] \in CallType /\ People \subseteq Signers  BY PeopleSign
  <2>1. CASE Invite(a)
    <3>1. \A s \in call[a].todo : s \in Signers  BY <2>c DEF CallType
    <3> QED  BY <2>1, <3>1, <1>3 DEF Invite
  <2>2. CASE NotifyNext(a)
    <3>1. \A S \in SUBSET People : S # {} => (CHOOSE s \in S : TRUE) \in Signers  BY <2>c
    <3>2. {s \in {s \in People : signer[s] = "pending"} :
              \A t \in {s2 \in People : signer[s2] = "pending"} : ~Before(t, s)} \in SUBSET People
      OBVIOUS
    <3> QED  BY <2>2, <3>1, <3>2, <1>3 DEF NotifyNext
  <2>3. CASE FinishLink(a)
    <3>1. Me(a) \in People  BY <2>3 DEF FinishLink, At, Named, Me
    <3> QED  BY <2>3, <3>1 DEF FinishLink
  <2>4. CASE UNCHANGED <<invite, linked>>
    BY <2>4
  <2> QED
    BY <1>4, <2>1, <2>2, <2>3, <2>4
    DEF GoOn, Asked, StartFails, Fails, ReserveSign, ReadDocument, Put, Expire, SignHash, RecordSignature,
        ReleaseSigned, CompleteRequest, FailSign, MarkSignerFailed, Deliver, Send, CreateRequest,
        SetDelivery, IsActive, DeclineSigner, HandleCallback, StartLink, StartSign, Decline
<1> QED  BY <1>1, <1>2, <1>4, RowsTyped DEF Next

(* A ceremony that reserves the slot: only the one it discards changes     *)
(* besides, and that one is gone if it waited, or is told that it is lost. *)
LEMMA ReserveMoves ==
  ASSUME Typed, NEW a \in Calls, Reserves(a)
  PROVE  /\ call[a].pc = "cleared" /\ call'[a].pc = "reserved" /\ call'[a].signer = Me(a)
         /\ \A b \in Calls \ {a} :
              \/ b = slot /\ call[b].pc = "parked" /\ call'[b].pc = "idle"
              \/ ~(b = slot /\ call[b].pc = "parked") /\ call'[b].pc = call[b].pc /\ Same(b)
<1> USE DEF Typed, CallType, Me, Same
<1>1. Discarded(slot) \in [Calls -> CallType]
  BY DiscardedTyped
<1>2. call[a].pc = "cleared"  BY DEF Reserves, At
<1>3. \A b \in Calls :
        \/ b = slot /\ call[b].pc = "parked" /\ Discarded(slot)[b].pc = "idle"
        \/ /\ ~(b = slot /\ call[b].pc = "parked")
           /\ Discarded(slot)[b].pc = call[b].pc /\ Discarded(slot)[b].signer = call[b].signer
           /\ Discarded(slot)[b].saw = call[b].saw /\ Discarded(slot)[b].base = call[b].base
  BY SigningAssumption DEF Discarded, Idle
<1>4. /\ \A b \in Calls \ {a} : call'[b] = Discarded(slot)[b]
      /\ call'[a].pc = "reserved" /\ call'[a].signer = Discarded(slot)[a].signer
  BY <1>1 DEF Reserves
<1> QED  BY <1>2, <1>3, <1>4

(* The other steps that write move one call and leave its signer.          *)
LEMMA WriteMoves ==
  ASSUME Typed, NEW a \in Calls, Writes(a), ~Reserves(a)
  PROVE  /\ Only(a) /\ slot' = slot
         /\ \/ CreateRequest(a) /\ call[a].pc = "idle" /\ call'[a].pc = "inviting"
            \/ RecordSignature(a) /\ Moves(a, {<<"assembled", "last">>, <<"assembled", "recorded">>})
            \/ CompleteRequest(a) /\ Moves(a, {<<"completing", "delivering">>})
            \/ MarkSignerFailed(a) /\ call[a].pc = "marking" /\ call'[a].pc = "idle"
            \/ DeclineSigner(a) /\ call[a].pc = "refusing" /\ call'[a].pc = "idle"
            \/ Send(a) /\ Moves(a, {<<"sending", "delivered">>})
            \/ SetDelivery(a) /\ call[a].pc \in {"delivered", "undelivered"} /\ call'[a].pc = "idle"
<1> USE DEF Typed, CallType, Only, Moves, Same, Go, Done, At, Idle
<1>1. CASE CreateRequest(a)
  BY <1>1 DEF CreateRequest
<1>2. CASE RecordSignature(a)
  BY <1>2 DEF RecordSignature
<1>3. CASE CompleteRequest(a)
  BY <1>3 DEF CompleteRequest
<1>4. CASE MarkSignerFailed(a)
  BY <1>4 DEF MarkSignerFailed
<1>5. CASE DeclineSigner(a)
  BY <1>5 DEF DeclineSigner
<1>6. CASE Send(a)
  BY <1>6 DEF Send, rows
<1>7. CASE SetDelivery(a)
  BY <1>7 DEF SetDelivery
<1> QED  BY <1>1, <1>2, <1>3, <1>4, <1>5, <1>6, <1>7 DEF Writes

LEMMA BasedKept ==
  ASSUME Based, [Next]_vars
  PROVE  Based' /\ kind' = kind
<1> USE DEF Based
<1>t. Typed' /\ kind' = kind
  BY CallsTyped, RowsTyped, LinksTyped DEF Typed, People
<1>p. People' = People  BY <1>t DEF People
<1> USE DEF Held, Pass
<1>1. CASE UNCHANGED vars \/ \E s \in Signers : InviteExpires(s)
  BY <1>t, <1>1 DEF vars, InviteExpires, Named, Unmade, SlotHeld, People, history
<1>2. CASE Crash
  <2>1. \A b \in Calls : call'[b].pc = "idle"  BY <1>2 DEF Crash, Idle
  <2>2. slot' = NoOne /\ request' = request /\ sent' = sent  BY <1>2 DEF Crash, rows, history
  <2> QED  BY <1>t, <2>1, <2>2 DEF Named, Unmade, SlotHeld
<1>3. ASSUME NEW a \in Calls, Walk(a)
      PROVE  Named' /\ Unmade' /\ SlotHeld'
  <2> USE <1>3 DEF Walk, Only, Leaves, Comes, Reads, Frees, Passes, Parks, Refuses, Moves, Same
  <2>1. Named'  BY <1>p DEF Named
  <2>2. Unmade'  BY DEF Unmade
  <2>3. SlotHeld'  BY DEF SlotHeld, Typed
  <2> QED  BY <2>1, <2>2, <2>3
<1>4. ASSUME NEW a \in Calls, Reserves(a)
      PROVE  Named' /\ Unmade' /\ SlotHeld'
  <2> USE ReserveMoves, <1>4 DEF Same, Me
  <2>1. Named'  BY <1>p DEF Named
  <2>2. Unmade'  BY DEF Unmade, Reserves, rows
  <2>3. SlotHeld'  BY DEF SlotHeld, Reserves
  <2> QED  BY <2>1, <2>2, <2>3
<1>5. ASSUME NEW a \in Calls, Writes(a), ~Reserves(a)
      PROVE  Named' /\ Unmade' /\ SlotHeld'
  <2> USE WriteMoves, <1>5 DEF Only, Moves, Same
  <2>1. Named'  BY <1>p DEF Named
  <2>2. Unmade'
    <3>1. CASE CreateRequest(a)
      BY <3>1 DEF CreateRequest, Unmade
    <3>2. CASE ~CreateRequest(a)
      <4>1. request.status # "none" /\ request \in RequestType  BY <3>2 DEF Unmade, Typed
      <4>2. request'.status # "none"
        BY <4>1, <3>2 DEF RecordSignature, CompleteRequest, MarkSignerFailed, DeclineSigner, Send,
             SetDelivery, rows, RequestType
      <4> QED  BY <4>2 DEF Unmade
    <3> QED  BY <3>1, <3>2
  <2>3. SlotHeld'  BY DEF SlotHeld, Typed
  <2> QED  BY <2>1, <2>2, <2>3
<1> QED  BY <1>t, <1>1, <1>2, <1>3, <1>4, <1>5, Steps DEF Writes

LEMMA BasedInit ==
  ASSUME Init
  PROVE  Based
<1> USE DEF Init
<1>1. /\ stale \subseteq Races /\ sent \in Seq(Seq(Signers)) /\ linked \subseteq People
      /\ signer \in [Signers -> SignerStatus] /\ invite \in [Signers -> {"none", "live", "expired"}]
  BY EmptySeq DEF SignerStatus
<1>2. request \in RequestType
  BY EmptySeq DEF RequestType
<1>3. call \in [Calls -> CallType] /\ \A a \in Calls : call[a].pc = "idle"
  BY EmptySeq DEF CallType, Idle, Places
<1> QED  BY <1>1, <1>2, <1>3 DEF Based, Typed, Named, Unmade, SlotHeld

(* The types; and what holds the slot is a ceremony that has not ended     *)
(* (reserveSign, put, release: every end of a ceremony lets the slot go).  *)
THEOREM TypeCorrect == Spec => []TypeOK
<1>1. Init => Based  BY BasedInit
<1>2. Based /\ [Next]_vars => Based'  BY BasedKept
<1>3. Based => TypeOK
  BY DEF Based, Typed, SlotHeld, TypeOK, RequestType, SignerStatus, Held, Pass
<1> QED  BY <1>1, <1>2, <1>3, PTL DEF Spec

----------------------------------------------------------------------------
(* The slot serialises the signers, unless a signer began anew while their *)
(* own ceremony still ran: one ceremony holds it, so the document a pass   *)
(* began from is still the latest when the pass is recorded.               *)

OneHolds == \A a \in Calls : call[a].pc \in Held => slot = a
Builds   == \A a \in Calls : call[a].pc \in Pass => call[a].base = request.doc
SignedIn == \A s \in Signers : signer[s] = "signed" => InDoc(s)

(* Those before a signer whose turn was checked are in the document.       *)
Turning  == Pass \cup {"cleared", "reserved"}
TurnCame ==
  kind.mode = "sequential" =>
    \A a \in Calls : call[a].pc \in Turning =>
      \A t \in People : Before(t, call[a].signer) => InDoc(t)

Serial == "restart" \notin stale => OneHolds /\ Builds /\ SignedIn /\ TurnCame

LEMMA StaleStays ==
  ASSUME Based, [Next]_vars
  PROVE  stale \subseteq stale'
<1>1. CASE UNCHANGED vars \/ Crash \/ \E s \in Signers : InviteExpires(s)
  BY <1>1 DEF vars, Crash, InviteExpires, history
<1>2. ASSUME NEW a \in Calls, Walk(a) \/ Writes(a)
      PROVE  stale \subseteq stale'
  BY <1>2 DEF Walk, Writes, Reserves, CreateRequest, RecordSignature, CompleteRequest,
       MarkSignerFailed, DeclineSigner, Send, SetDelivery, history
<1> QED  BY <1>1, <1>2, Steps DEF Based

(* The slot changes hands only when its holder waited, or had none.        *)
LEMMA OneHoldsKept ==
  ASSUME Based, [Next]_vars, OneHolds, "restart" \notin stale'
  PROVE  OneHolds'
<1> USE DEF Based, OneHolds, Held, Pass
<1>1. CASE UNCHANGED vars \/ \E s \in Signers : InviteExpires(s)
  BY <1>1 DEF vars, InviteExpires
<1>2. CASE Crash
  BY <1>2 DEF Crash, Idle
<1>3. ASSUME NEW a \in Calls, Walk(a)
      PROVE  OneHolds'
  BY <1>3 DEF Walk, Only, Leaves, Comes, Reads, Frees, Passes, Parks, Refuses, Moves
<1>4. ASSUME NEW a \in Calls, Reserves(a)
      PROVE  OneHolds'
  <2>1. slot # NoOne => call[slot].pc = "parked"
    BY <1>4 DEF Reserves, StaleAt, Theirs, Races
  <2>2. \A b \in Calls \ {a} : call'[b].pc \notin Held
    BY <1>4, <2>1, ReserveMoves, SigningAssumption
  <2> QED  BY <1>4, <2>2 DEF Reserves
<1>5. ASSUME NEW a \in Calls, Writes(a), ~Reserves(a)
      PROVE  OneHolds'
  BY <1>5, WriteMoves DEF Only, Moves
<1> QED  BY <1>1, <1>2, <1>3, <1>4, <1>5, Steps

(* The document stays, or the pass that is recorded appends to it.         *)
Appends(a) ==
  /\ RecordSignature(a) /\ Me(a) \in People
  /\ request'.doc = Append(request.doc, Me(a))
  /\ signer' = [signer EXCEPT ![Me(a)] = "signed"]

LEMMA DocStep ==
  ASSUME Based, [Next]_vars, Builds
  PROVE  \/ /\ request'.doc = request.doc
            /\ \A s \in Signers : signer'[s] = "signed" => signer[s] = "signed"
         \/ \E a \in Calls : Appends(a)
<1> USE DEF Based, Typed
<1>1. CASE UNCHANGED vars \/ Crash \/ \E s \in Signers : InviteExpires(s)
  BY <1>1 DEF vars, Crash, InviteExpires, rows
<1>2. ASSUME NEW a \in Calls, Walk(a) \/ Writes(a), ~RecordSignature(a)
      PROVE  /\ request'.doc = request.doc
             /\ \A s \in Signers : signer'[s] = "signed" => signer[s] = "signed"
  BY <1>2 DEF Walk, Writes, Reserves, CreateRequest, Unmade, CompleteRequest, MarkSignerFailed,
       DeclineSigner, Send, SetDelivery, rows, RequestType
<1>3. ASSUME NEW a \in Calls, RecordSignature(a)
      PROVE  Appends(a)
  <2>1. call[a].pc = "assembled"
    BY <1>3 DEF RecordSignature, At
  <2>2. call[a].base = request.doc /\ Me(a) \in People
    BY <2>1 DEF Builds, Pass, Named, Me
  <2> QED  BY <1>3, <2>2 DEF Appends, RecordSignature, RequestType
<1> QED  BY <1>1, <1>2, <1>3, Steps

(* What is in a document that grew by one signature.                       *)
LEMMA Grown ==
  ASSUME Typed, NEW s \in Signers, request'.doc = Append(request.doc, s)
  PROVE  /\ DOMAIN request.doc = 1..Len(request.doc) /\ Len(request.doc) \in Nat
         /\ DOMAIN request'.doc = 1..(Len(request.doc) + 1)
         /\ \A i \in DOMAIN request.doc : request'.doc[i] = request.doc[i]
         /\ request'.doc[Len(request.doc) + 1] = s
<1>1. request.doc \in Seq(Signers)  BY DEF Typed, RequestType
<1> QED  BY <1>1, AppendProperties, LenProperties

LEMMA InDocStays ==
  ASSUME Based, [Next]_vars, Builds, NEW s, InDoc(s)
  PROVE  InDoc(s)'
<1>1. CASE request'.doc = request.doc
  BY <1>1 DEF InDoc
<1>2. ASSUME NEW a \in Calls, Appends(a)
      PROVE  InDoc(s)'
  <2>1. Me(a) \in Signers  BY <1>2, PeopleSign DEF Appends, Based, Typed
  <2> QED  BY <1>2, <2>1, Grown DEF InDoc, Appends, Based
<1> QED  BY <1>1, <1>2, DocStep

LEMMA SignedInKept ==
  ASSUME Based, [Next]_vars, Builds, SignedIn
  PROVE  SignedIn'
<1>1. ASSUME NEW s \in Signers, signer'[s] = "signed"
      PROVE  InDoc(s)'
  <2>1. CASE signer[s] = "signed"
    BY <2>1, InDocStays DEF SignedIn
  <2>2. ASSUME NEW a \in Calls, Appends(a), s = Me(a)
        PROVE  InDoc(s)'
    BY <2>2, Grown DEF InDoc, Based, Appends
  <2> QED  BY <1>1, <2>1, <2>2, DocStep DEF Appends, Based, Typed
<1> QED  BY <1>1 DEF SignedIn

(* How a call comes to where it is: who moves one, and from where.         *)
LEMMA TurningFrom ==
  ASSUME Based, [Next]_vars, NEW b \in Calls, call'[b].pc \in Turning
  PROVE  \/ call[b].pc \in Turning /\ call'[b].signer = call[b].signer
         \/ CheckTurn(call'[b].signer) /\ call'[b].pc = "cleared"
<1> USE DEF Based, Turning, Pass, Same
<1>1. CASE UNCHANGED vars \/ \E s \in Signers : InviteExpires(s)
  BY <1>1 DEF vars, InviteExpires
<1>2. CASE Crash
  BY <1>2 DEF Crash, Idle
<1>3. ASSUME NEW a \in Calls, Walk(a)
      PROVE  \/ call[b].pc \in Turning /\ call'[b].signer = call[b].signer
             \/ CheckTurn(call'[b].signer) /\ call'[b].pc = "cleared"
  BY <1>3 DEF Walk, Only, Leaves, Comes, Reads, Frees, Passes, Parks, Refuses, Moves
<1>4. ASSUME NEW a \in Calls, Reserves(a)
      PROVE  call[b].pc \in Turning /\ call'[b].signer = call[b].signer
  BY <1>4, ReserveMoves DEF Me
<1>5. ASSUME NEW a \in Calls, Writes(a), ~Reserves(a)
      PROVE  call[b].pc \in Turning /\ call'[b].signer = call[b].signer
  BY <1>5, WriteMoves DEF Only, Moves
<1> QED  BY <1>1, <1>2, <1>3, <1>4, <1>5, Steps

LEMMA TurnCameKept ==
  ASSUME Based, [Next]_vars, Builds, SignedIn, TurnCame
  PROVE  TurnCame'
<1>1. kind' = kind /\ People' = People /\ People \subseteq Signers
  BY BasedKept, PeopleSign DEF Based, Typed, People
<1>2. ASSUME NEW b \in Calls, call'[b].pc \in Turning, kind.mode = "sequential",
             NEW t \in People, Before(t, call'[b].signer)
      PROVE  InDoc(t)
  <2>1. CASE call[b].pc \in Turning /\ call'[b].signer = call[b].signer
    BY <1>2, <2>1 DEF TurnCame
  <2>2. CASE CheckTurn(call'[b].signer)
    BY <1>1, <1>2, <2>2 DEF CheckTurn, SignedIn
  <2> QED  BY <1>2, <2>1, <2>2, TurningFrom
<1>3. ASSUME NEW b \in Calls, call'[b].pc \in Turning, kind.mode = "sequential",
             NEW t \in People, Before(t, call'[b].signer)
      PROVE  InDoc(t)'
  BY <1>2, <1>3, InDocStays
<1> QED  BY <1>1, <1>3 DEF TurnCame, Before

LEMMA BuildsKept ==
  ASSUME Based, [Next]_vars, OneHolds, OneHolds', Builds
  PROVE  Builds'
<1> USE DEF Based, Pass
<1>1. CASE UNCHANGED vars \/ \E s \in Signers : InviteExpires(s)
  BY <1>1 DEF vars, InviteExpires, Builds
<1>2. CASE Crash
  BY <1>2 DEF Crash, Idle, Builds
<1>3. ASSUME NEW a \in Calls, Walk(a)
      PROVE  Builds'
  BY <1>3 DEF Walk, Only, Leaves, Comes, Reads, Frees, Passes, Parks, Refuses, Moves, Same, Builds
<1>4. ASSUME NEW a \in Calls, Reserves(a)
      PROVE  Builds'
  <2>1. request' = request
    BY <1>4 DEF Reserves, rows
  <2>2. \A b \in Calls : call'[b].pc \in Pass => call[b].pc \in Pass /\ call'[b].base = call[b].base
    BY <1>4, ReserveMoves DEF Same
  <2> QED  BY <2>1, <2>2 DEF Builds
<1>5. ASSUME NEW a \in Calls, Writes(a), ~Reserves(a)
      PROVE  Builds'
  <2>1. \A b \in Calls : call'[b].pc \in Pass => call[b].pc \in Pass /\ call'[b].base = call[b].base
    BY <1>5, WriteMoves DEF Only, Moves, Same
  <2>2. CASE request'.doc = request.doc
    BY <2>1, <2>2 DEF Builds
  <2>3. CASE \E b \in Calls : Appends(b)
    <3>1. PICK b \in Calls : Appends(b)  BY <2>3
    <3>2. call[b].pc = "assembled" /\ call'[b].pc \notin Pass /\ Only(b)
      BY <3>1, WriteMoves DEF Appends, Writes, RecordSignature, At, Go, Only, Typed, CallType
    <3>3. \A c \in Calls : call'[c].pc \notin Pass
      BY <2>1, <3>2 DEF OneHolds, Held
    <3> QED  BY <3>3 DEF Builds
  <2> QED  BY <2>2, <2>3, DocStep
<1> QED  BY <1>1, <1>2, <1>3, <1>4, <1>5, Steps

LEMMA SerialKept ==
  ASSUME Based, [Next]_vars, Serial
  PROVE  Serial'
<1> SUFFICES ASSUME "restart" \notin stale'
             PROVE  OneHolds' /\ Builds' /\ SignedIn' /\ TurnCame'
  BY DEF Serial
<1>1. OneHolds /\ Builds /\ SignedIn /\ TurnCame
  BY StaleStays DEF Serial
<1> QED  BY <1>1, OneHoldsKept, BuildsKept, SignedInKept, TurnCameKept

LEMMA SerialInit ==
  ASSUME Init
  PROVE  Serial
BY DEF Init, Serial, OneHolds, Builds, SignedIn, TurnCame, Idle, Held, Pass, Turning

(* In signing order, each on those before: the pass that appends checked   *)
(* its turn before it reserved the slot.                                   *)
LEMMA OrderKept ==
  ASSUME Based, [Next]_vars, Serial, SignedInOrder
  PROVE  SignedInOrder'
<1> SUFFICES ASSUME kind'.mode = "sequential", "restart" \notin stale',
                    NEW i \in DOMAIN request'.doc, NEW t \in People',
                    Before(t, request.doc[i])'
             PROVE  \E j \in 1..(i - 1) : request'.doc[j] = t
  BY DEF SignedInOrder
<1>1. /\ kind' = kind /\ People' = People /\ "restart" \notin stale
  BY BasedKept, StaleStays DEF People
<1>2. Builds /\ TurnCame /\ kind.mode = "sequential" /\ t \in People /\ Before(t, request'.doc[i])
  BY <1>1 DEF Serial, Before
<1>3. \A k \in DOMAIN request.doc : Before(t, request.doc[k]) => \E j \in 1..(k - 1) : request.doc[j] = t
  BY <1>1, <1>2 DEF SignedInOrder
<1>4. CASE request'.doc = request.doc
  BY <1>2, <1>3, <1>4
<1>5. ASSUME NEW a \in Calls, Appends(a)
      PROVE  \E j \in 1..(i - 1) : request'.doc[j] = t
  <2>1. Me(a) \in Signers /\ request'.doc = Append(request.doc, Me(a))
    BY <1>5, PeopleSign DEF Appends, Based, Typed
  <2>2. CASE i \in DOMAIN request.doc
    <3>1. PICK j \in 1..(i - 1) : request.doc[j] = t
      BY <1>2, <1>3, <2>1, <2>2, Grown DEF Based
    <3>2. j \in DOMAIN request.doc  BY <2>1, <2>2, Grown DEF Based
    <3> QED  BY <2>1, <3>1, <3>2, Grown DEF Based
  <2>3. CASE i = Len(request.doc) + 1
    <3>1. call[a].pc = "assembled"
      BY <1>5 DEF Appends, RecordSignature, At
    <3>2. InDoc(t)
      BY <1>2, <2>1, <2>3, <3>1, Grown DEF TurnCame, Turning, Pass, Based, Me
    <3> QED  BY <2>1, <2>3, <3>2, Grown DEF InDoc, Based
  <2> QED  BY <2>1, <2>2, <2>3, Grown DEF Based
<1> QED  BY <1>4, <1>5, <1>2, DocStep

(* The document only grows: what a pass records stands on every signature  *)
(* there was (RecordSignature).                                            *)
LEMMA DocGrows ==
  ASSUME Based, [Next]_vars, Serial, "restart" \notin stale'
  PROVE  IsPrefix(request.doc, request'.doc)
<1>1. Builds  BY StaleStays DEF Serial
<1>2. request.doc \in Seq(Signers)  BY DEF Based, Typed, RequestType
<1>3. CASE request'.doc = request.doc
  BY <1>2, <1>3 DEF IsPrefix
<1>4. ASSUME NEW a \in Calls, Appends(a)
      PROVE  IsPrefix(request.doc, request'.doc)
  <2>1. Me(a) \in Signers /\ request'.doc = Append(request.doc, Me(a))
    BY <1>4, PeopleSign DEF Appends, Based, Typed
  <2>2. request'.doc \in Seq(Signers) /\ Len(request'.doc) = Len(request.doc) + 1
    BY <1>2, <2>1, AppendProperties
  <2>3. \A i \in 1..Len(request.doc) : request'.doc[i] = request.doc[i]
    BY <1>2, <2>1, AppendProperties
  <2> QED  BY <1>2, <2>2, <2>3 DEF IsPrefix
<1> QED  BY <1>1, <1>3, <1>4, DocStep

----------------------------------------------------------------------------
(* While nothing stale goes on - no ceremony began over one that ran, was  *)
(* about to be marked failed, had just signed, or over a decline - who     *)
(* signed is signed once, the last signer completes, and a decline finds   *)
(* no ceremony.                                                            *)

(* Each signature is one signer's, who is marked signed.                   *)
Once ==
  /\ \A i, j \in DOMAIN request.doc : request.doc[i] = request.doc[j] => i = j
  /\ \A i \in DOMAIN request.doc : request.doc[i] \in People /\ signer[request.doc[i]] = "signed"

(* A ceremony that has not recorded is an unsigned signer's.               *)
Unsigned == Pass \cup {"reserved", "failing", "marking"}
NotYet ==
  \A a \in Calls :
    /\ call[a].pc \in Unsigned => signer[Me(a)] # "signed"
    /\ call[a].pc = "cleared" => call[a].saw # "signed"

(* Who is about to be marked failed has no other ceremony.                 *)
LateNever ==
  \A a, b \in Calls : call[a].pc = "marking" /\ call[b].pc \in Held => Me(a) # Me(b)

(* One call completes the request, when all signed, and sends it once.     *)
OneEnds ==
  /\ \A a \in Calls : call[a].pc \in Ending => AllSigned
  /\ \A a, b \in Calls : call[a].pc \in Ending /\ call[b].pc \in Ending => a = b
  /\ request.status = "completed" => AllSigned

SendsOnce ==
  /\ sent # <<>> => AllSigned
  /\ \A a \in Calls : call[a].pc \in {"last", "completing", "delivering", "sending"} => sent = <<>>
  /\ \A a \in Calls : call[a].pc = "delivered" => sent # <<>>
  /\ request.delivery = "delivered" => sent # <<>>
  /\ \A a \in Calls : call[a].pc = "sending" => ToSet(call[a].base) = People
  /\ Len(sent) <= 1 /\ \A i \in DOMAIN sent : ToSet(sent[i]) = People

(* A decline that saw the slot free finds it free; after it nothing runs.  *)
Declining ==
  /\ \A a, b \in Calls : call[a].pc = "refusing" => call[b].pc \notin Held
  /\ request.status = "declined" => \A b \in Calls : call[b].pc \notin Held \cup Ending

Fresh == stale = {} => Once /\ NotYet /\ LateNever /\ OneEnds /\ SendsOnce /\ Declining

(* How a call came to where it is.                                         *)
Moved(b) ==
  \/ call'[b].pc = call[b].pc /\ Same(b)
  \/ call'[b].pc = "idle"
  \/ Reserves(b) /\ call[b].pc = "cleared" /\ call'[b].pc = "reserved" /\ call'[b].signer = Me(b)
  \/ Walk(b) /\ (Comes(b) \/ Reads(b) \/ Frees(b) \/ Passes(b) \/ Parks(b) \/ Refuses(b))
  \/ CreateRequest(b) /\ call[b].pc = "idle" /\ call'[b].pc = "inviting"
  \/ RecordSignature(b) /\ Moves(b, {<<"assembled", "last">>, <<"assembled", "recorded">>})
  \/ CompleteRequest(b) /\ Moves(b, {<<"completing", "delivering">>})
  \/ Send(b) /\ Moves(b, {<<"sending", "delivered">>})

LEMMA EachMoved ==
  ASSUME Based, [Next]_vars, NEW b \in Calls
  PROVE  Moved(b)
<1> USE DEF Based, Same, Only
<1>1. CASE UNCHANGED vars \/ \E s \in Signers : InviteExpires(s)
  BY <1>1 DEF vars, InviteExpires, Moved
<1>2. CASE Crash
  BY <1>2 DEF Crash, Idle, Moved
<1>3. ASSUME NEW a \in Calls, Walk(a)
      PROVE  Moved(b)
  BY <1>3 DEF Walk, Leaves, Moved
<1>4. ASSUME NEW a \in Calls, Reserves(a)
      PROVE  Moved(b)
  BY <1>4, ReserveMoves DEF Moved
<1>5. ASSUME NEW a \in Calls, Writes(a), ~Reserves(a)
      PROVE  Moved(b)
  BY <1>5, WriteMoves DEF Moved
<1> QED  BY <1>1, <1>2, <1>3, <1>4, <1>5, Steps

LEMMA SetsFrom ==
  ASSUME Based, [Next]_vars, NEW b \in Calls
  PROVE  /\ call'[b].pc \in Held => (call[b].pc \in Held \/ Reserves(b))
         /\ call'[b].pc \in Ending =>
              (call[b].pc \in Ending \/ (RecordSignature(b) /\ call'[b].pc = "last"))
         /\ call'[b].pc \in Unsigned =>
              ((call[b].pc \in Unsigned \/ Reserves(b)) /\ call'[b].signer = Me(b))
         /\ call'[b].pc = "marking" =>
              ((call[b].pc = "marking" \/ (Walk(b) /\ call[b].pc = "failing")) /\ call'[b].signer = Me(b))
         /\ call'[b].pc = "refusing" =>
              (call[b].pc = "refusing" \/ (Walk(b) /\ Refuses(b)))
         /\ call'[b].pc = "cleared" =>
              \/ call[b].pc = "cleared" /\ call'[b].saw = call[b].saw
              \/ call'[b].saw # "signed"
<1>1. Moved(b)  BY EachMoved
<1> USE DEF Held, Pass, Ending, Unsigned, Moves, Me, Same
<1>2. CASE \/ call'[b].pc = call[b].pc /\ Same(b)
           \/ call'[b].pc = "idle"
           \/ Reserves(b) /\ call[b].pc = "cleared" /\ call'[b].pc = "reserved" /\ call'[b].signer = Me(b)
  BY <1>2
<1>3. CASE Walk(b) /\ (Comes(b) \/ Reads(b) \/ Frees(b) \/ Passes(b) \/ Parks(b) \/ Refuses(b))
  <2>1. CASE Comes(b)
    BY <2>1 DEF Comes, CheckTurn
  <2>2. CASE Reads(b) \/ Frees(b) \/ Passes(b) \/ Parks(b)
    BY <1>3, <2>2 DEF Reads, Frees, Passes, Parks
  <2>3. CASE Refuses(b)
    BY <1>3, <2>3 DEF Refuses
  <2> QED  BY <1>3, <2>1, <2>2, <2>3
<1>4. CASE \/ CreateRequest(b) /\ call[b].pc = "idle" /\ call'[b].pc = "inviting"
           \/ RecordSignature(b) /\ Moves(b, {<<"assembled", "last">>, <<"assembled", "recorded">>})
           \/ CompleteRequest(b) /\ Moves(b, {<<"completing", "delivering">>})
           \/ Send(b) /\ Moves(b, {<<"sending", "delivered">>})
  BY <1>4
<1> QED  BY <1>1, <1>2, <1>3, <1>4 DEF Moved

(* Who signed stays signed: no late failure, no decline.                   *)
LEMMA SignedStays ==
  ASSUME Based, [Next]_vars, NotYet, NEW s \in Signers, signer[s] = "signed"
  PROVE  signer'[s] = "signed"
<1> USE DEF Based, Typed
<1>1. CASE UNCHANGED vars \/ Crash \/ \E x \in Signers : InviteExpires(x)
  BY <1>1 DEF vars, Crash, InviteExpires, rows
<1>2. ASSUME NEW a \in Calls, Walk(a) \/ Writes(a)
      PROVE  signer'[s] = "signed"
  <2>1. CASE RecordSignature(a)
    BY <2>1 DEF RecordSignature
  <2>2. CASE MarkSignerFailed(a)
    BY <2>2 DEF MarkSignerFailed, At, NotYet, Unsigned
  <2>3. CASE DeclineSigner(a)
    BY <2>3 DEF DeclineSigner
  <2> QED
    BY <1>2, <2>1, <2>2, <2>3 DEF Walk, Writes, Reserves, CreateRequest, CompleteRequest, Send,
         SetDelivery, rows
<1> QED  BY <1>1, <1>2, Steps

LEMMA AllSignedStays ==
  ASSUME Based, [Next]_vars, NotYet, AllSigned
  PROVE  AllSigned'
<1>1. People' = People /\ People \subseteq Signers
  BY BasedKept, PeopleSign DEF Based, Typed, People
<1> QED  BY <1>1, SignedStays DEF AllSigned

LEMMA OnceKept ==
  ASSUME Based, [Next]_vars, Builds, NotYet, Once
  PROVE  Once'
<1>1. /\ People' = People /\ People \subseteq Signers
  BY BasedKept, PeopleSign DEF Based, Typed, People
<1>2. \A i \in DOMAIN request.doc : request.doc[i] \in People /\ signer'[request.doc[i]] = "signed"
  BY <1>1, SignedStays DEF Once
<1>3. CASE request'.doc = request.doc
  BY <1>1, <1>2, <1>3 DEF Once
<1>4. ASSUME NEW a \in Calls, Appends(a)
      PROVE  Once'
  <2>1. Me(a) \in People /\ signer[Me(a)] # "signed" /\ signer'[Me(a)] = "signed"
    BY <1>1, <1>4 DEF Appends, RecordSignature, At, NotYet, Unsigned, Pass, Based, Typed
  <2>2. \A i \in DOMAIN request.doc : request.doc[i] # Me(a)
    BY <2>1 DEF Once
  <2>3. \A i \in DOMAIN request'.doc :
          request'.doc[i] = IF i \in DOMAIN request.doc THEN request.doc[i] ELSE Me(a)
    BY <1>1, <1>4, <2>1, Grown DEF Appends, Based
  <2>4. \A i \in DOMAIN request'.doc : i \in DOMAIN request.doc \/ i = Len(request.doc) + 1
    BY <1>1, <1>4, <2>1, Grown DEF Appends, Based
  <2> QED  BY <1>1, <1>2, <2>1, <2>2, <2>3, <2>4 DEF Once
<1> QED  BY <1>3, <1>4, DocStep

(* A ceremony reserves only for who has not signed.                        *)
LEMMA ReservesUnsigned ==
  ASSUME Typed, NotYet, stale' = {}, NEW a \in Calls, Reserves(a)
  PROVE  /\ signer[Me(a)] # "signed" /\ signer' = signer /\ request' = request /\ Awaiting
         /\ \A b \in Calls : call[b].pc # "refusing"
         /\ \A b \in Calls : call[b].pc = "marking" => Me(b) # Me(a)
<1>1. StaleAt(a) = {} /\ call[a].pc = "cleared" /\ signer' = signer /\ request' = request
  BY DEF Reserves, At, rows
<1>2. ~(signer[Me(a)] = "signed" /\ call[a].saw # "signed")
  BY <1>1 DEF StaleAt, Races
<1>3. ~(~Awaiting \/ \E b \in Calls : call[b].pc = "refusing")
  BY <1>1 DEF StaleAt, Races
<1>4. ~ \E b \in Calls : call[b].pc = "marking" /\ call[b].signer = Me(a)
  BY <1>1 DEF StaleAt, Races
<1> QED  BY <1>1, <1>2, <1>3, <1>4 DEF NotYet, Me

LEMMA NotYetKept ==
  ASSUME Based, [Next]_vars, OneHolds, Builds, NotYet, LateNever, stale' = {}
  PROVE  NotYet'
<1> USE DEF Based
<1>1. ASSUME NEW b \in Calls, call'[b].pc = "cleared"
      PROVE  call'[b].saw # "signed"
  BY <1>1, SetsFrom DEF NotYet
<1>2. ASSUME NEW b \in Calls, call'[b].pc \in Unsigned
      PROVE  signer'[call'[b].signer] # "signed"
  <2>1. call'[b].signer = Me(b) /\ (call[b].pc \in Unsigned \/ Reserves(b))
    BY <1>2, SetsFrom
  <2>2. CASE Reserves(b)
    BY <2>1, <2>2, ReservesUnsigned
  <2>3. CASE call[b].pc \in Unsigned
    <3>1. signer[Me(b)] # "signed" /\ Me(b) \in Signers
      BY <2>3, PeopleSign DEF NotYet, Named, Unsigned, Pass, Me, Typed
    <3>2. ASSUME NEW a \in Calls, Appends(a)
          PROVE  Me(a) # Me(b)
      <4>1. call[a].pc = "assembled" /\ call'[a].pc \notin Unsigned
        BY <3>2, EachMoved, WriteMoves DEF Appends, RecordSignature, Writes, At, Go, Unsigned, Pass,
             Typed, CallType
      <4>2. b # a  BY <1>2, <4>1
      <4>3. call[b].pc = "marking" \/ call[b].pc \in Held
        BY <2>3 DEF Unsigned, Held
      <4>4. call[b].pc = "marking"
        BY <4>1, <4>2, <4>3 DEF OneHolds, Held, Pass
      <4> QED  BY <4>1, <4>4 DEF LateNever, Held, Pass
    <3>3. CASE \E a \in Calls : Appends(a)
      BY <2>1, <3>1, <3>2, <3>3 DEF Appends, Typed
    <3> QED  BY <2>1, <3>1, <3>3, DocStep
  <2> QED  BY <2>1, <2>2, <2>3
<1> QED  BY <1>1, <1>2 DEF NotYet, Me

LEMMA LateNeverKept ==
  ASSUME Based, [Next]_vars, OneHolds, NotYet, LateNever, stale' = {}
  PROVE  LateNever'
<1> USE DEF Based
<1> SUFFICES ASSUME NEW a \in Calls, NEW b \in Calls,
                    call'[a].pc = "marking", call'[b].pc \in Held
             PROVE  call'[a].signer # call'[b].signer
  BY DEF LateNever, Me
<1>1. /\ call'[a].signer = Me(a)
      /\ call[a].pc = "marking" \/ (Walk(a) /\ call[a].pc = "failing")
      /\ call[b].pc \in Held \/ Reserves(b)
  BY SetsFrom
<1>2. a # b  BY DEF Held, Pass
<1>3. CASE Reserves(b)
  <2>1. call[a].pc = "marking" /\ call'[a].signer = Me(a) /\ call'[b].signer = Me(b)
    BY <1>1, <1>2, <1>3, ReserveMoves DEF Same, Me
  <2> QED  BY <1>3, <2>1, ReservesUnsigned
<1>4. CASE call[b].pc \in Held
  <2>1. call[a].pc = "marking" /\ call'[a].signer = Me(a)
    <3>1. ~(call[a].pc = "failing")
      BY <1>1, <1>2, <1>4 DEF OneHolds, Held
    <3> QED  BY <1>1, <3>1, SetsFrom
  <2>2. call'[b].signer = Me(b)
    <3>1. Moved(b)  BY EachMoved
    <3>2. ~Comes(b) /\ ~CreateRequest(b)
      BY <1>4 DEF Comes, CreateRequest, At, Held, Pass
    <3>3. call'[b].pc # "idle"  BY DEF Held, Pass
    <3> QED  BY <3>1, <3>2, <3>3 DEF Moved, Same, Moves, Reads, Frees, Passes, Parks, Refuses, Me
  <2> QED  BY <1>4, <2>1, <2>2 DEF LateNever
<1> QED  BY <1>1, <1>3, <1>4

(* The last signature is one that was missing.                             *)
LEMMA LastWasMissing ==
  ASSUME Based, NotYet, NEW a \in Calls, RecordSignature(a)
  PROVE  ~AllSigned /\ call[a].pc = "assembled"
BY DEF RecordSignature, At, Based, Named, NotYet, Unsigned, Pass, AllSigned, Me

LEMMA OneEndsKept ==
  ASSUME Based, [Next]_vars, NotYet, OneEnds
  PROVE  OneEnds'
<1> USE DEF Based
<1>1. People' = People  BY BasedKept DEF People
<1>2. ASSUME NEW a \in Calls, call'[a].pc \in Ending
      PROVE  AllSigned' /\ (AllSigned => call[a].pc \in Ending)
  <2>1. CASE call[a].pc \in Ending
    BY <2>1, AllSignedStays DEF OneEnds
  <2>2. CASE RecordSignature(a) /\ call'[a].pc = "last"
    <3>1. \A s \in People : signer'[s] = "signed"
      BY <2>2 DEF RecordSignature, Go, Typed, CallType
    <3>2. ~AllSigned
      BY <2>2, LastWasMissing
    <3> QED  BY <1>1, <3>1, <3>2 DEF AllSigned
  <2> QED  BY <1>2, <2>1, <2>2, SetsFrom
<1>3. ASSUME NEW a \in Calls, NEW b \in Calls, call'[a].pc \in Ending, call'[b].pc \in Ending
      PROVE  a = b
  <2>1. CASE AllSigned
    BY <1>2, <1>3, <2>1 DEF OneEnds
  <2>2. CASE ~AllSigned
    <3>1. \A c \in Calls : call[c].pc \notin Ending  BY <2>2 DEF OneEnds
    <3>2. RecordSignature(a) /\ RecordSignature(b)  BY <1>3, <3>1, SetsFrom
    <3> QED
      BY <1>3, <3>1, <3>2, WriteMoves DEF Writes, Only, Reserves, RecordSignature, At
  <2> QED  BY <2>1, <2>2
<1>4. ASSUME request'.status = "completed"
      PROVE  AllSigned'
  <2>1. CASE request.status = "completed"
    BY <2>1, AllSignedStays DEF OneEnds
  <2>2. ASSUME NEW a \in Calls, CompleteRequest(a)
        PROVE  AllSigned'
    BY <2>2, AllSignedStays DEF OneEnds, CompleteRequest, At, Ending
  <2>3. CASE UNCHANGED vars \/ Crash \/ \E s \in Signers : InviteExpires(s)
    BY <1>4, <2>1, <2>3 DEF vars, Crash, InviteExpires, rows
  <2>4. ASSUME NEW a \in Calls, Walk(a) \/ Writes(a), ~CompleteRequest(a)
        PROVE  request.status = "completed"
    BY <1>4, <2>4 DEF Walk, Writes, Reserves, CreateRequest, RecordSignature, MarkSignerFailed,
         DeclineSigner, Send, SetDelivery, rows, Typed, RequestType
  <2> QED  BY <2>1, <2>2, <2>3, <2>4, Steps
<1> QED  BY <1>2, <1>3, <1>4 DEF OneEnds

(* What was sent stays so; only Send adds to it.                           *)
LEMMA SentStep ==
  ASSUME Based, [Next]_vars
  PROVE  \/ sent' = sent
         \/ \E a \in Calls : /\ call[a].pc = "sending" /\ call'[a].pc = "delivered"
                             /\ sent' = Append(sent, call[a].base) /\ Only(a)
                             /\ request' = request
<1> USE DEF Based
<1>1. CASE UNCHANGED vars \/ Crash \/ \E s \in Signers : InviteExpires(s)
  BY <1>1 DEF vars, Crash, InviteExpires, history
<1>2. ASSUME NEW a \in Calls, Walk(a) \/ Writes(a), ~Send(a)
      PROVE  sent' = sent
  BY <1>2 DEF Walk, Writes, Reserves, CreateRequest, RecordSignature, CompleteRequest,
       MarkSignerFailed, DeclineSigner, SetDelivery, history
<1>3. ASSUME NEW a \in Calls, Send(a)
      PROVE  /\ call[a].pc = "sending" /\ call'[a].pc = "delivered"
             /\ sent' = Append(sent, call[a].base) /\ Only(a) /\ request' = request
  BY <1>3 DEF Send, At, Go, Only, rows, Typed, CallType
<1> QED  BY <1>1, <1>2, <1>3, Steps

(* The delivery is recorded as done only by the call that sent.            *)
LEMMA DeliveryStep ==
  ASSUME Based, [Next]_vars, request'.delivery = "delivered"
  PROVE  request.delivery = "delivered" \/ \E a \in Calls : call[a].pc = "delivered"
<1> USE DEF Based
<1>1. CASE UNCHANGED vars \/ Crash \/ \E s \in Signers : InviteExpires(s)
  BY <1>1 DEF vars, Crash, InviteExpires, rows
<1>2. ASSUME NEW a \in Calls, Walk(a) \/ Writes(a)
      PROVE  request.delivery = "delivered" \/ call[a].pc = "delivered"
  BY <1>2 DEF Walk, Writes, Reserves, CreateRequest, RecordSignature, CompleteRequest, MarkSignerFailed,
       DeclineSigner, Send, SetDelivery, rows, Typed, RequestType, At
<1> QED  BY <1>1, <1>2, Steps

(* The document that is read to be sent is whole.                          *)
LEMMA CompletedIsWhole ==
  ASSUME Based, SignedIn, Once, AllSigned
  PROVE  ToSet(request.doc) = People
<1>1. People \subseteq Signers  BY PeopleSign DEF Based, Typed
<1>2. \A s \in People : InDoc(s)  BY <1>1 DEF SignedIn, AllSigned
<1> QED  BY <1>2 DEF ToSet, InDoc, Once

LEMMA SendsOnceKept ==
  ASSUME Based, [Next]_vars, SignedIn, NotYet, Once, OneEnds, SendsOnce
  PROVE  SendsOnce'
<1> USE DEF Based
<1>1. People' = People  BY BasedKept DEF People
<1> DEFINE Unsent == {"last", "completing", "delivering", "sending"}
<1>m. ASSUME NEW b \in Calls, call'[b].pc \in Unsent \cup {"delivered"}
      PROVE  \/ call[b].pc \in Unsent /\ call'[b].pc \in Unsent
             \/ call[b].pc = "delivered" /\ call'[b].pc = "delivered"
             \/ call[b].pc = "sending" /\ call'[b].pc = "delivered" /\ Send(b)
             \/ RecordSignature(b) /\ call'[b].pc = "last"
  <2>1. CASE Walk(b) /\ (Comes(b) \/ Reads(b) \/ Frees(b) \/ Passes(b) \/ Parks(b) \/ Refuses(b))
    BY <1>m, <2>1 DEF Comes, Reads, Frees, Passes, Parks, Refuses, Moves
  <2> QED  BY <1>m, <2>1, EachMoved DEF Moved, Moves
<1>s. ASSUME NEW b \in Calls, call'[b].pc = "sending"
      PROVE  \/ call[b].pc = "sending" /\ call'[b].base = call[b].base
             \/ call'[b].base = request.doc /\ request.status = "completed"
  <2>1. CASE Walk(b) /\ (Comes(b) \/ Reads(b) \/ Frees(b) \/ Passes(b) \/ Parks(b) \/ Refuses(b))
    BY <1>s, <2>1 DEF Comes, Reads, Frees, Passes, Parks, Refuses, Moves
  <2> QED  BY <1>s, <2>1, EachMoved DEF Moved, Moves, Same
<1>2. ASSUME NEW b \in Calls, call'[b].pc = "sending"
      PROVE  ToSet(call'[b].base) = People'
  BY <1>1, <1>2, <1>s, CompletedIsWhole DEF SendsOnce, OneEnds
<1>3. CASE sent' = sent
  <2>1. sent' # <<>> => AllSigned'
    BY <1>3, AllSignedStays DEF SendsOnce
  <2>2. ASSUME NEW b \in Calls, call'[b].pc \in Unsent
        PROVE  sent' = <<>>
    BY <1>m, <1>3, <2>2, LastWasMissing DEF SendsOnce
  <2>3. ASSUME NEW b \in Calls, call'[b].pc = "delivered"
        PROVE  sent' # <<>>
    <3>1. CASE Send(b)
      <4>1. sent \in Seq(Seq(Signers)) /\ call[b].base \in Seq(Signers) /\ sent' = Append(sent, call[b].base)
        BY <3>1 DEF Send, Typed, CallType
      <4> QED  BY <4>1, AppendProperties
    <3> QED  BY <1>m, <1>3, <2>3, <3>1 DEF SendsOnce
  <2>4. request'.delivery = "delivered" => sent' # <<>>
    BY <1>3, DeliveryStep DEF SendsOnce
  <2> QED  BY <1>1, <1>2, <1>3, <2>1, <2>2, <2>3, <2>4 DEF SendsOnce
<1>4. ASSUME NEW a \in Calls, call[a].pc = "sending", call'[a].pc = "delivered", Only(a),
             sent' = Append(sent, call[a].base), request' = request
      PROVE  SendsOnce'
  <2>1. sent = <<>> /\ AllSigned /\ ToSet(call[a].base) = People
    BY <1>4 DEF SendsOnce, OneEnds, Ending
  <2>2. call[a].base \in Seq(Signers) /\ sent \in Seq(Seq(Signers))
    BY DEF Typed, CallType
  <2>3. /\ sent' # <<>> /\ sent' \in Seq(Seq(Signers)) /\ Len(sent') = 1 /\ sent'[1] = call[a].base
    BY <1>4, <2>1, <2>2, AppendProperties, EmptySeq
  <2>4. \A i \in DOMAIN sent' : i = 1
    BY <2>3, LenProperties
  <2>5. \A b \in Calls : call'[b].pc \notin Unsent
    <3>1. \A b \in Calls \ {a} : call[b].pc \notin Ending  BY <1>4 DEF OneEnds, Ending
    <3> QED  BY <1>4, <3>1 DEF Only, Ending
  <2> QED  BY <1>1, <2>1, <2>3, <2>4, <2>5, AllSignedStays DEF SendsOnce
<1> QED  BY <1>3, <1>4, SentStep

LEMMA DecliningKept ==
  ASSUME Based, [Next]_vars, OneHolds, NotYet, OneEnds, Declining, stale' = {}
  PROVE  Declining'
<1> USE DEF Based
<1>1. ASSUME NEW a \in Calls, NEW b \in Calls, call'[a].pc = "refusing", call'[b].pc \in Held
      PROVE  FALSE
  <2>1. CASE call[a].pc = "refusing"
    BY <1>1, <2>1, SetsFrom, ReservesUnsigned DEF Declining
  <2>2. CASE Walk(a) /\ Refuses(a)
    <3>1. slot = NoOne /\ Only(a)  BY <2>2 DEF Walk, Refuses
    <3>2. call[b].pc \notin Held  BY <3>1, SigningAssumption DEF OneHolds
    <3>3. a # b  BY <1>1 DEF Held, Pass
    <3>4. call'[b] = call[b]  BY <3>1, <3>3 DEF Only
    <3> QED  BY <1>1, <3>2, <3>4
  <2> QED  BY <1>1, <2>1, <2>2, SetsFrom
<1>2. ASSUME request'.status = "declined", NEW b \in Calls, call'[b].pc \in Held \cup Ending
      PROVE  FALSE
  <2>1. CASE request.status = "declined"
    <3>1. call[b].pc \notin Held \cup Ending  BY <2>1 DEF Declining
    <3>2. ~Reserves(b)  BY <2>1, ReservesUnsigned DEF Awaiting
    <3>3. ~RecordSignature(b)  BY <3>1 DEF RecordSignature, At, Held, Pass
    <3> QED  BY <1>2, <3>1, <3>2, <3>3, SetsFrom
  <2>2. CASE request.status # "declined"
    <3>1. PICK a \in Calls : DeclineSigner(a) /\ signer[Me(a)] # "signed"
      <4>1. CASE UNCHANGED vars \/ Crash \/ \E s \in Signers : InviteExpires(s)
        BY <1>2, <2>2, <4>1 DEF vars, Crash, InviteExpires, rows
      <4>2. ASSUME NEW a \in Calls, Walk(a) \/ Writes(a)
            PROVE  DeclineSigner(a) /\ signer[Me(a)] # "signed"
        BY <1>2, <2>2, <4>2 DEF Walk, Writes, Reserves, CreateRequest, RecordSignature,
             MarkSignerFailed, CompleteRequest, DeclineSigner, Send, SetDelivery, rows, Typed,
             RequestType
      <4> QED  BY <4>1, <4>2, Steps
    <3>2. call[a].pc = "refusing" /\ Only(a) /\ Me(a) \in People /\ call'[a].pc = "idle"
      BY <3>1 DEF DeclineSigner, At, Done, Only, Typed, Named, Me, Idle
    <3>3. ~AllSigned  BY <3>1, <3>2 DEF AllSigned
    <3>4. call[b].pc \notin Held \cup Ending  BY <3>2, <3>3 DEF Declining, OneEnds
    <3>5. call'[b].pc = call[b].pc \/ call'[b].pc = "idle"  BY <3>2 DEF Only
    <3> QED  BY <1>2, <3>4, <3>5 DEF Held, Pass, Ending
  <2> QED  BY <2>1, <2>2
<1> QED  BY <1>1, <1>2 DEF Declining

LEMMA FreshKept ==
  ASSUME Based, [Next]_vars, Serial, Fresh
  PROVE  Fresh'
<1> SUFFICES ASSUME stale' = {}
             PROVE  Once' /\ NotYet' /\ LateNever' /\ OneEnds' /\ SendsOnce' /\ Declining'
  BY DEF Fresh
<1>1. stale = {}  BY StaleStays
<1>2. /\ OneHolds /\ Builds /\ SignedIn
      /\ Once /\ NotYet /\ LateNever /\ OneEnds /\ SendsOnce /\ Declining
  BY <1>1 DEF Serial, Fresh
<1> QED
  BY <1>2, OnceKept, NotYetKept, LateNeverKept, OneEndsKept, SendsOnceKept, DecliningKept

LEMMA FreshInit ==
  ASSUME Init
  PROVE  Fresh
<1> USE DEF Init
<1>1. \A a \in Calls : call[a].pc = "idle"  BY DEF Idle
<1>2. sent = <<>> /\ Len(sent) = 0 /\ DOMAIN sent = {}  OBVIOUS
<1>3. request.doc = <<>> /\ DOMAIN request.doc = {}  OBVIOUS
<1>4. Once  BY <1>3 DEF Once
<1>5. SendsOnce  BY <1>1, <1>2 DEF SendsOnce
<1>6. NotYet /\ LateNever /\ OneEnds /\ Declining
  BY <1>1 DEF NotYet, LateNever, OneEnds, Declining, Unsigned, Held, Pass, Ending
<1> QED  BY <1>4, <1>5, <1>6 DEF Fresh

----------------------------------------------------------------------------
(* The properties.                                                         *)

Ceremony == Based /\ Serial /\ SignedInOrder /\ Fresh

LEMMA CeremonyInit ==
  ASSUME Init
  PROVE  Ceremony
<1>1. SignedInOrder
  <2>1. DOMAIN request.doc = {}  BY DEF Init
  <2> QED  BY <2>1 DEF SignedInOrder
<1> QED  BY <1>1, BasedInit, SerialInit, FreshInit DEF Ceremony

LEMMA CeremonyKept ==
  ASSUME Ceremony, [Next]_vars
  PROVE  Ceremony'
BY BasedKept, SerialKept, OrderKept, FreshKept DEF Ceremony

THEOREM CeremonyHolds == Spec => []Ceremony
<1>1. Init => Ceremony  BY CeremonyInit
<1>2. Ceremony /\ [Next]_vars => Ceremony'  BY CeremonyKept
<1> QED  BY <1>1, <1>2, PTL DEF Spec

(* One pass runs at a time: the slot is one ceremony's.                    *)
LEMMA HeldByOne ==
  ASSUME Ceremony
  PROVE  OnePass
<1>1. kind.calls \subseteq Calls  BY SigningAssumption DEF Ceremony, Based, Typed
<1> QED  BY <1>1 DEF Ceremony, Serial, OneHolds, OnePass, Held, Pass

(* Who signed stays signed, and stands in the document once.               *)
LEMMA SignedOnceStep ==
  ASSUME Ceremony, [Next]_vars, stale' = {}, NEW s \in People, signer[s] = "signed"
  PROVE  /\ signer'[s] = "signed"
         /\ \E i \in DOMAIN request'.doc : \A j \in DOMAIN request'.doc : request'.doc[j] = s <=> j = i
<1>1. s \in Signers  BY PeopleSign DEF Ceremony, Based, Typed
<1>2. stale = {}  BY StaleStays DEF Ceremony
<1>3. signer'[s] = "signed"  BY <1>1, <1>2, SignedStays DEF Ceremony, Fresh
<1>4. SignedIn' /\ Once'  BY <1>1, CeremonyKept DEF Ceremony, Serial, Fresh
<1>5. PICK i \in DOMAIN request'.doc : request'.doc[i] = s
  BY <1>1, <1>3, <1>4 DEF SignedIn, InDoc
<1> QED  BY <1>3, <1>4, <1>5 DEF Once

(* Each pass builds on the document the one before left, one pass runs at  *)
(* a time, the signatures stand in the signing order, and who signed       *)
(* signed once (reserveSign, RecordSignature, checkTurn): but for the      *)
(* races the property names.                                               *)
THEOREM TurnsAreTaken == Spec => SignersTakeTurns
<1>1. Ceremony /\ [Next]_vars => ("restart" \in stale' \/ IsPrefix(request.doc, request'.doc))
  BY DocGrows DEF Ceremony
<1>2. Ceremony /\ [Next]_vars =>
        (stale' = {} => \A s \in People : signer[s] = "signed" =>
           /\ signer'[s] = "signed"
           /\ \E i \in DOMAIN request'.doc :
                \A j \in DOMAIN request'.doc : request'.doc[j] = s <=> j = i)
  BY SignedOnceStep
<1>3. Ceremony => OnePass /\ SignedInOrder
  BY HeldByOne DEF Ceremony
<1>4. Spec => NoSignatureLost
  BY <1>1, CeremonyHolds, PTL DEF Spec, NoSignatureLost
<1>5. Spec => SignedOnce
  BY <1>2, CeremonyHolds, PTL DEF Spec, SignedOnce
<1> QED  BY <1>3, <1>4, <1>5, CeremonyHolds, PTL DEF SignersTakeTurns

(* A declined document stays declined and takes no more signatures: no     *)
(* ceremony runs that could record one or complete.                        *)
LEMMA DeclinedStays ==
  ASSUME Ceremony, [Next]_vars, request.status = "declined", stale' = {}
  PROVE  request'.status = "declined" /\ request'.doc = request.doc
<1>1. stale = {}  BY StaleStays DEF Ceremony
<1>2. \A b \in Calls : call[b].pc \notin Held \cup Ending
  BY <1>1 DEF Ceremony, Fresh, Declining
<1> USE DEF Ceremony, Based
<1>3. CASE UNCHANGED vars \/ Crash \/ \E s \in Signers : InviteExpires(s)
  BY <1>3 DEF vars, Crash, InviteExpires, rows
<1>4. ASSUME NEW a \in Calls, Walk(a) \/ Writes(a)
      PROVE  request'.status = "declined" /\ request'.doc = request.doc
  <2>1. ~RecordSignature(a) /\ ~CompleteRequest(a)
    BY <1>2 DEF RecordSignature, CompleteRequest, At, Held, Pass, Ending
  <2> QED
    BY <1>4, <2>1 DEF Walk, Writes, Reserves, CreateRequest, MarkSignerFailed, DeclineSigner, Send,
         SetDelivery, rows, Typed, RequestType
<1> QED  BY <1>3, <1>4, Steps

LEMMA WholeIsReached ==
  ASSUME Ceremony
  PROVE  RecipientGetsWhole
<1> SUFFICES ASSUME stale = {}
             PROVE  /\ request.status = "completed" => AllSigned /\ ToSet(request.doc) = People
                    /\ Len(sent) <= 1
                    /\ \A i \in DOMAIN sent : ToSet(sent[i]) = People
                    /\ request.delivery = "delivered" => sent # <<>>
  BY DEF RecipientGetsWhole
<1>1. Based /\ SignedIn /\ Once /\ OneEnds /\ SendsOnce
  BY DEF Ceremony, Serial, Fresh
<1> QED  BY <1>1, CompletedIsWhole DEF OneEnds, SendsOnce

(* A document that was declined takes no more signatures and is not        *)
(* completed; a completed one carries every signature, and the recipient   *)
(* gets that one, once (isActive, DeclineSigner, CompleteRequest,          *)
(* deliverAsync): but for the races the property names.                    *)
THEOREM EndsAreHonoured == Spec => EndIsHonoured
<1>1. Ceremony /\ [Next]_vars =>
        (request.status = "declined" /\ stale' = {} =>
           request'.status = "declined" /\ request'.doc = request.doc)
  BY DeclinedStays
<1>2. Ceremony => RecipientGetsWhole
  BY WholeIsReached
<1>3. Spec => DeclineIsFinal
  BY <1>1, CeremonyHolds, PTL DEF Spec, DeclineIsFinal
<1> QED  BY <1>2, <1>3, CeremonyHolds, PTL DEF EndIsHonoured

(* Everyone who signed is in the document, as the slot is there to ensure, *)
(* as long as no signer began anew over their own running ceremony: that   *)
(* race alone (discardLocked lets the discarded pass run on) loses one.    *)
THEOREM OnlyRestartLoses == Spec => []("restart" \in stale \/ SignersSerialised)
<1>1. Ceremony => ("restart" \in stale \/ SignersSerialised)
  BY PeopleSign DEF Ceremony, Based, Typed, Serial, SignedIn, InDoc, SignersSerialised, ToSet
<1> QED  BY <1>1, CeremonyHolds, PTL
=============================================================================
