------------------------ MODULE WebhookDeliveryProofs ------------------------
(***************************************************************************)
(* Theorems about WebhookDelivery, for any number of replicas, deliveries, *)
(* attempts and faults.                                                    *)
(***************************************************************************)
EXTENDS WebhookDelivery, FiniteSetTheorems, TLAPS

----------------------------------------------------------------------------
(* The inductive invariant.                                                *)

(* The types, without the bounds: those follow from the rest.              *)
ClaimStates == {"none", "unsent", "taken", "refused", "shut"}
AnyClaims   == [state : ClaimStates, attempts : Nat, stamp : Nat]

Typed ==
  /\ endpoint \in Endpoints
  /\ status \in [Deliveries -> Status]
  /\ attempts \in [Deliveries -> Nat]
  /\ stamp \in [Deliveries -> Nat]
  /\ ahead \in [Deliveries -> SUBSET Deliveries]
  /\ pc \in [Deliverers -> {"claim", "take", "send", "asleep"}]
  /\ window \in [Deliverers -> [ids : SUBSET Deliveries, opens : BOOLEAN]]
  /\ claims \in [Deliverers -> [Deliveries -> AnyClaims]]
  /\ listening \in [Deliverers -> BOOLEAN]
  /\ wake \in [Deliverers -> BOOLEAN]
  /\ alarm \in [Deliverers -> BOOLEAN]
  /\ received \in [Deliveries -> Nat]
  /\ faults \in Nat /\ faults <= MaxFaults

(* A claim saw no more attempts, and is of no later take, than the row.    *)
ClaimsPast ==
  \A w \in Deliverers, d \in Deliveries :
    claims[w][d].stamp <= stamp[d] /\ claims[w][d].attempts <= attempts[d]

(* A lease has one holder.                                                 *)
OneHolder ==
  \A v, w \in Deliverers, d \in Deliveries : Holds(v, d) /\ Holds(w, d) => v = w

Over == Final \cup {"gone"}

(* A holder's delivery is in flight or lapsed, and what the holder read of *)
(* it is still so, unless it is over.                                      *)
HolderKnows ==
  \A w \in Deliverers, d \in Deliveries :
    Holds(w, d) /\ status[d] \notin Over =>
      status[d] \in {"due", "leased"} /\ claims[w][d].attempts = attempts[d]

(* A deliverer that is not sending has no claim.                           *)
OnlySendersClaim == \A w \in Deliverers : pc[w] # "send" => claims[w] = Empty

(* Every claim but the one in hand became an attempt, or fell to a fault.  *)
ClaimsCounted ==
  \A d \in Deliveries :
    /\ stamp[d] <= attempts[d] + 1 + faults
    /\ status[d] \notin Over /\ ~(status[d] = "leased" /\ InHand(d)) =>
         stamp[d] <= attempts[d] + faults

(* A delivery not at its end has an attempt left.                          *)
AttemptsLeft ==
  \A d \in Deliveries :
    /\ attempts[d] <= MaxAttempts
    /\ stamp[d] <= MaxAttempts + faults
    /\ status[d] \notin Over => attempts[d] < MaxAttempts

Core == ClaimsPast /\ OneHolder /\ HolderKnows /\ ClaimsCounted /\ AttemptsLeft
IInv == Typed /\ OnlySendersClaim /\ Core

----------------------------------------------------------------------------
(* The types.                                                              *)

(* What the row keeps of a claim let go (NoClaim).                         *)
LEMMA EmptyTypes == Empty \in [Deliveries -> AnyClaims] /\ NoClaim \in AnyClaims
BY DEF Empty, NoClaim, AnyClaims, ClaimStates

(* A fault stays within its bound.                                         *)
LEMMA FaultTypes ==
  ASSUME Typed, faults < MaxFaults, faults' = faults + 1
  PROVE  faults' \in Nat /\ faults' <= MaxFaults
BY DeliveryAssumption DEF Typed

(* An answer changes a claim's state only (send).                          *)
LEMMA AnsweredTypes ==
  ASSUME Typed, NEW w \in Deliverers, NEW d \in Deliveries, NEW state \in ClaimStates,
         Answered(w, d, state)
  PROVE  claims' \in [Deliverers -> [Deliveries -> AnyClaims]]
<1>1. claims[w] \in [Deliveries -> AnyClaims] /\ claims[w][d] \in AnyClaims
  BY DEF Typed
<1>2. [claims[w][d] EXCEPT !.state = state] \in AnyClaims
  BY <1>1 DEF AnyClaims
<1>3. [claims[w] EXCEPT ![d].state = state] \in [Deliveries -> AnyClaims]
  BY <1>1, <1>2
<1> QED
  BY <1>3 DEF Answered, Typed

(* The order of the due keeps its type, however a delivery joins or leaves *)
(* it.                                                                     *)
LEMMA OrderTypes ==
  ASSUME Typed, NEW d \in Deliveries, NEW gone \in SUBSET Deliveries,
         \/ JoinsLast(d) \/ Leave(gone)
         \/ \E e \in Due : JoinsAt(d, ahead[e])
  PROVE  ahead' \in [Deliveries -> SUBSET Deliveries]
<1>1. CASE JoinsLast(d)
  BY <1>1 DEF JoinsLast, Due, Typed
<1>2. CASE Leave(gone)
  BY <1>2 DEF Leave, Typed
<1>3. ASSUME NEW e \in Due, JoinsAt(d, ahead[e])
      PROVE  ahead' \in [Deliveries -> SUBSET Deliveries]
  BY <1>3 DEF JoinsAt, Due, Typed
<1> QED
  BY <1>1, <1>2, <1>3

(* The endpoint's steps keep the types (Save, Remove, RotateSecret).       *)
LEMMA AdministerTypes ==
  ASSUME Typed, Administer
  PROVE  Typed'
<1> USE DEF Typed
<1>1. CASE Save \/ RotateSecret \/ OverlapEnds
  BY <1>1 DEF Save, RotateSecret, OverlapEnds, Endpoints, rowVars, jobVars
<1>2. CASE KeyChanges
  BY <1>2, FaultTypes DEF KeyChanges, Endpoints, rowVars, jobVars
<1>3. CASE Remove
  <2>1. Due \in SUBSET Deliveries
    BY DEF Due
  <2>2. ahead' \in [Deliveries -> SUBSET Deliveries]
    BY <1>3 DEF Remove, Leave
  <2>3. status' \in [Deliveries -> Status]
    BY <1>3 DEF Remove, Status
  <2> QED
    BY <1>3, <2>2, <2>3 DEF Remove, Endpoints, jobVars
<1> QED
  BY <1>1, <1>2, <1>3 DEF Administer

(* A delivery's own steps keep the types (enqueueWebhook, the clock,       *)
(* PruneDeliveries).                                                       *)
LEMMA RowTypes ==
  ASSUME Typed, NEW d \in Deliveries,
         \/ FindEndpoint(d) \/ Enqueue(d) \/ Prune(d)
         \/ RetryFallsDue(d) \/ LeaseLapses(d) \/ Stall(d)
  PROVE  Typed'
<1> USE DEF Typed
<1>1. CASE FindEndpoint(d) \/ Prune(d)
  BY <1>1 DEF FindEndpoint, Prune, Status, jobVars
<1>2. CASE Enqueue(d)
  <2>1. ahead' \in [Deliveries -> SUBSET Deliveries]
    BY <1>2, OrderTypes DEF Enqueue
  <2>2. wake' \in [Deliverers -> BOOLEAN]
    BY <1>2 DEF Enqueue
  <2>3. status' \in [Deliveries -> Status]
    BY <1>2 DEF Enqueue, Status, Pending
  <2> QED
    BY <1>2, <2>1, <2>2, <2>3 DEF Enqueue
<1>3. ASSUME FallsDue(d), faults' \in Nat /\ faults' <= MaxFaults
      PROVE  Typed'
  <2>1. ahead' \in [Deliveries -> SUBSET Deliveries]
    BY <1>3, OrderTypes DEF FallsDue
  <2>2. window' \in [Deliverers -> [ids : SUBSET Deliveries, opens : BOOLEAN]]
    BY <1>3 DEF FallsDue
  <2>3. status' \in [Deliveries -> Status]
    BY <1>3 DEF FallsDue, Status, Pending
  <2> QED
    BY <1>3, <2>1, <2>2, <2>3 DEF FallsDue
<1> QED
  BY <1>1, <1>2, <1>3, FaultTypes DEF RetryFallsDue, LeaseLapses, Stall

(* The deliverer's steps keep the types (claimDue, send, recordAttempt,    *)
(* RunOnNotify).                                                           *)
LEMMA DeliverTypes ==
  ASSUME Typed, NEW w \in Deliverers, Deliver(w) \/ Listen(w)
  PROVE  Typed'
<1> USE DEF Typed, GoTo
<1>1. CASE RankDue(w)
  <2>1. window' \in [Deliverers -> [ids : SUBSET Deliveries, opens : BOOLEAN]]
    BY <1>1 DEF RankDue, Due, Opens
  <2> QED
    BY <1>1, <2>1 DEF RankDue, rowVars
<1>2. CASE TakeDue(w)
  <2>1. Taken(w) \in SUBSET Deliveries
    BY DEF Taken, Due
  <2>2. \A d \in Deliveries : Claim(w, d) \in AnyClaims
    BY DEF Claim, AnyClaims, ClaimStates
  <2>3. claims' \in [Deliverers -> [Deliveries -> AnyClaims]]
    BY <1>2, <2>2, EmptyTypes DEF TakeDue
  <2>4. ahead' \in [Deliveries -> SUBSET Deliveries]
    BY <1>2 DEF TakeDue, Leave
  <2>5. status' \in [Deliveries -> Status] /\ stamp' \in [Deliveries -> Nat]
    BY <1>2 DEF TakeDue, Status, Pending
  <2>6. window' \in [Deliverers -> [ids : SUBSET Deliveries, opens : BOOLEAN]]
    BY <1>2 DEF TakeDue, Unseen
  <2> QED
    BY <1>2, <2>3, <2>4, <2>5, <2>6 DEF TakeDue
<1>3. CASE Sleep(w)
  <2>1. alarm' \in [Deliverers -> BOOLEAN]
    BY <1>3 DEF Sleep, NextDue
  <2> QED
    BY <1>3, <2>1 DEF Sleep, rowVars
<1>4. CASE Wake(w) \/ Listen(w)
  BY <1>4 DEF Wake, Listen, rowVars
<1>5. ASSUME NEW d \in Deliveries, SendTaken(w, d) \/ SendRefused(w, d)
      PROVE  Typed'
  <2>1. claims' \in [Deliverers -> [Deliveries -> AnyClaims]]
    BY <1>5, AnsweredTypes DEF SendTaken, SendRefused, ClaimStates
  <2> QED
    BY <1>5, <2>1 DEF SendTaken, SendRefused, rowVars
<1>6. ASSUME NEW d \in Deliveries, RecordAttempt(w, d)
      PROVE  Typed'
  <2>1. claims' \in [Deliverers -> [Deliveries -> AnyClaims]]
    BY <1>6, EmptyTypes DEF RecordAttempt, Forget
  <2>2. ahead' \in [Deliveries -> SUBSET Deliveries]
    BY <1>6 DEF RecordAttempt, Leave
  <2>3. OutcomeOf(w, d) \in Status
    BY DEF OutcomeOf, Status, Pending, Final
  <2>4. status' \in [Deliveries -> Status]
    BY <1>6, <2>3 DEF RecordAttempt
  <2>5. attempts' \in [Deliveries -> Nat]
    BY <1>6 DEF RecordAttempt
  <2> QED
    BY <1>6, <2>1, <2>2, <2>4, <2>5 DEF RecordAttempt
<1> QED
  BY <1>1, <1>2, <1>3, <1>4, <1>5, <1>6 DEF Deliver

(* Faults keep the types.                                                  *)
LEMMA DisturbTypes ==
  ASSUME Typed, NEW w \in Deliverers, Disturb(w)
  PROVE  Typed'
<1> USE DEF Typed, GoTo
<1>1. CASE RunFails(w) \/ Crash(w)
  <2>1. claims' \in [Deliverers -> [Deliveries -> AnyClaims]]
    BY <1>1, EmptyTypes DEF RunFails, Crash
  <2>2. window' \in [Deliverers -> [ids : SUBSET Deliveries, opens : BOOLEAN]]
    <3>1. Unseen \in [ids : SUBSET Deliveries, opens : BOOLEAN]
      BY DEF Unseen
    <3> QED
      BY <1>1, <3>1 DEF RunFails, Crash
  <2> QED
    BY <1>1, <2>1, <2>2, FaultTypes DEF RunFails, Crash, rowVars
<1>2. CASE ListenLost(w)
  BY <1>2, FaultTypes DEF ListenLost, rowVars
<1>3. ASSUME NEW d \in Deliveries, SendUnheard(w, d)
      PROVE  Typed'
  <2>1. claims' \in [Deliverers -> [Deliveries -> AnyClaims]]
    BY <1>3, AnsweredTypes DEF SendUnheard, ClaimStates
  <2>2. faults' \in Nat /\ faults' <= MaxFaults
    BY <1>3, FaultTypes DEF SendUnheard
  <2> QED
    BY <1>3, <2>1, <2>2 DEF SendUnheard, rowVars
<1>4. ASSUME NEW d \in Deliveries, RecordFails(w, d)
      PROVE  Typed'
  <2>1. claims' \in [Deliverers -> [Deliveries -> AnyClaims]]
    BY <1>4, EmptyTypes DEF RecordFails, Forget
  <2>2. faults' \in Nat /\ faults' <= MaxFaults
    BY <1>4, FaultTypes DEF RecordFails
  <2> QED
    BY <1>4, <2>1, <2>2 DEF RecordFails, rowVars
<1> QED
  BY <1>1, <1>2, <1>3, <1>4 DEF Disturb

(* Every step keeps the types.                                             *)
LEMMA TypedStep ==
  ASSUME Typed, [Next]_vars
  PROVE  Typed'
<1>1. CASE UNCHANGED vars
  BY <1>1 DEF vars, rowVars, jobVars, Typed
<1> QED
  BY <1>1, AdministerTypes, RowTypes, DeliverTypes, DisturbTypes DEF Next

----------------------------------------------------------------------------
(* The rest of the invariant: by what a step changes.                      *)

(* Steps that change neither the rows nor the claims, faults among them.   *)
LEMMA QuietKept ==
  ASSUME IInv, Typed', UNCHANGED <<status, attempts, stamp, claims>>, faults' >= faults
  PROVE  Core'
<1> USE DEF IInv, Typed, Core
<1>1. \A w \in Deliverers, d \in Deliveries : Holds(w, d)' <=> Holds(w, d)
  BY DEF Holds
<1>2. \A d \in Deliveries : InHand(d)' <=> InHand(d)
  BY <1>1 DEF InHand
<1>3. ClaimsPast' /\ OneHolder' /\ HolderKnows'
  BY <1>1 DEF ClaimsPast, OneHolder, HolderKnows
<1>4. ClaimsCounted'
  BY <1>2 DEF ClaimsCounted
<1>5. AttemptsLeft'
  BY DeliveryAssumption DEF AttemptsLeft
<1> QED
  BY <1>3, <1>4, <1>5

(* What may become of a delivery's status without a claim or an attempt: a *)
(* lease that lapses in its holder's hands is a fault.                     *)
Moves(d) ==
  \/ status'[d] = status[d]
  \/ status'[d] = "gone"
  \/ status[d] = "none" /\ status'[d] = "writing"
  \/ status[d] \in {"writing", "waiting"} /\ status'[d] = "due"
  \/ status[d] = "leased" /\ status'[d] = "due" /\ (InHand(d) => faults' = faults + 1)

(* Steps that change the status only (Remove, enqueueWebhook, the clock,   *)
(* PruneDeliveries).                                                       *)
LEMMA StatusKept ==
  ASSUME IInv, Typed', UNCHANGED <<attempts, stamp, claims>>,
         faults' >= faults, \A d \in Deliveries : Moves(d)
  PROVE  Core'
<1> USE DEF IInv, Typed, Core
<1>1. \A w \in Deliverers, d \in Deliveries : Holds(w, d)' <=> Holds(w, d)
  BY DEF Holds
<1>2. \A d \in Deliveries : InHand(d)' <=> InHand(d)
  BY <1>1 DEF InHand
<1>3. ClaimsPast' /\ OneHolder'
  BY <1>1 DEF ClaimsPast, OneHolder
<1>4. HolderKnows'
  BY <1>1 DEF HolderKnows, Moves, Over, Final
<1>5. ASSUME NEW d \in Deliveries
      PROVE  /\ stamp[d] <= attempts[d] + 1 + faults'
             /\ status'[d] \notin Over /\ ~(status'[d] = "leased" /\ InHand(d)) =>
                  stamp[d] <= attempts[d] + faults'
  <2>1. attempts[d] \in Nat /\ stamp[d] \in Nat /\ faults \in Nat /\ faults' \in Nat
    OBVIOUS
  <2>2. /\ stamp[d] <= attempts[d] + 1 + faults
        /\ status[d] \notin Over /\ ~(status[d] = "leased" /\ InHand(d)) =>
             stamp[d] <= attempts[d] + faults
    BY DEF ClaimsCounted
  <2>3. Moves(d)
    OBVIOUS
  <2> HIDE DEF IInv, Typed, Core
  <2>4. status[d] = "leased" /\ InHand(d) /\ status'[d] = "due" =>
          stamp[d] <= attempts[d] + faults'
    BY <2>1, <2>2, <2>3 DEF Moves
  <2>5. status'[d] \notin Over => status[d] \notin Over
    BY <2>3 DEF Moves, Over, Final
  <2>6. status'[d] \notin Over /\ ~(status'[d] = "leased" /\ InHand(d)) =>
          stamp[d] <= attempts[d] + faults'
    BY <2>1, <2>2, <2>3, <2>4, <2>5 DEF Moves, Over
  <2> QED
    BY <2>1, <2>2, <2>6
<1>6. ASSUME NEW d \in Deliveries
      PROVE  /\ attempts[d] <= MaxAttempts
             /\ stamp[d] <= MaxAttempts + faults'
             /\ status'[d] \notin Over => attempts[d] < MaxAttempts
  <2>1. status'[d] \notin Over => status[d] \notin Over
    BY DEF Moves, Over, Final
  <2>2. attempts[d] \in Nat /\ stamp[d] \in Nat /\ faults \in Nat /\ faults' \in Nat
    OBVIOUS
  <2> QED
    BY <2>1, <2>2, DeliveryAssumption DEF AttemptsLeft
<1>7. ClaimsCounted' /\ AttemptsLeft'
  BY <1>2, <1>5, <1>6 DEF ClaimsCounted, AttemptsLeft
<1> QED
  BY <1>3, <1>4, <1>7

(* What may become of a claim without an attempt recorded: it is answered, *)
(* or let go, by a fault if its delivery is in flight.                     *)
LetsGo(w, d) ==
  \/ claims'[w][d] = claims[w][d]
  \/ /\ claims[w][d].state # "none" /\ claims'[w][d].state # "none"
     /\ claims'[w][d].stamp = claims[w][d].stamp
     /\ claims'[w][d].attempts = claims[w][d].attempts
  \/ /\ claims'[w][d] = NoClaim
     /\ status[d] = "leased" /\ Holds(w, d) => faults' = faults + 1

(* Steps that change a deliverer's claims only (send, recordAttempt of a   *)
(* lapsed lease, Crash).                                                   *)
LEMMA ClaimsKept ==
  ASSUME IInv, Typed', UNCHANGED <<status, attempts, stamp>>, faults' >= faults,
         NEW w \in Deliverers, \A v \in Deliverers \ {w} : claims'[v] = claims[v],
         \A d \in Deliveries : LetsGo(w, d)
  PROVE  Core'
<1> USE DEF IInv, Typed, Core
<1>1. \A v \in Deliverers, d \in Deliveries :
        /\ Holds(v, d)' => Holds(v, d)
        /\ Holds(v, d) => Holds(v, d)' \/ (status[d] = "leased" => faults' = faults + 1)
        /\ claims'[v][d].stamp <= stamp[d] /\ claims'[v][d].attempts <= attempts[d]
        /\ Holds(v, d)' => claims'[v][d].attempts = claims[v][d].attempts
  <2> SUFFICES ASSUME NEW v \in Deliverers, NEW d \in Deliveries
               PROVE  /\ Holds(v, d)' => Holds(v, d)
                      /\ Holds(v, d) => Holds(v, d)' \/ (status[d] = "leased" => faults' = faults + 1)
                      /\ claims'[v][d].stamp <= stamp[d] /\ claims'[v][d].attempts <= attempts[d]
                      /\ Holds(v, d)' => claims'[v][d].attempts = claims[v][d].attempts
    OBVIOUS
  <2>1. CASE v # w
    BY <2>1 DEF Holds, ClaimsPast
  <2>2. CASE v = w /\ claims'[w][d] = NoClaim /\ (status[d] = "leased" /\ Holds(w, d) => faults' = faults + 1)
    BY <2>2 DEF Holds, NoClaim
  <2>3. CASE v = w /\ claims'[w][d] # NoClaim
    <3>1. /\ (claims'[w][d].state = "none") = (claims[w][d].state = "none")
          /\ claims'[w][d].stamp = claims[w][d].stamp
          /\ claims'[w][d].attempts = claims[w][d].attempts
      BY <2>3 DEF LetsGo
    <3> QED
      BY <2>3, <3>1 DEF Holds, ClaimsPast
  <2>4. CASE v = w /\ claims'[w][d] = claims[w][d]
    BY <2>4 DEF Holds, ClaimsPast
  <2>5. CASE v = w /\ claims'[w][d] = NoClaim /\ claims[w][d].state # "none" /\ claims'[w][d].state # "none"
    BY <2>5 DEF NoClaim
  <2> QED
    BY <2>1, <2>2, <2>3, <2>4, <2>5 DEF LetsGo
<1>2. ClaimsPast' /\ OneHolder' /\ HolderKnows'
  BY <1>1 DEF ClaimsPast, OneHolder, HolderKnows
<1>3. \A d \in Deliveries : InHand(d) => InHand(d)' \/ (status[d] = "leased" => faults' = faults + 1)
  BY <1>1 DEF InHand
<1>4. ClaimsCounted'
  BY <1>3 DEF ClaimsCounted, Over, Final
<1>5. AttemptsLeft'
  BY DeliveryAssumption DEF AttemptsLeft
<1> QED
  BY <1>2, <1>4, <1>5

(* claimDue: each delivery taken was due, which its take accounts for, and *)
(* gets a claim of its own that no older one equals.                       *)
LEMMA TakeKept ==
  ASSUME IInv, Typed', NEW w \in Deliverers, TakeDue(w)
  PROVE  Core'
<1>1. claims[w] = Empty
  BY DEF IInv, TakeDue, OnlySendersClaim
<1>2. ASSUME NEW d \in Deliveries
      PROVE  /\ d \in Taken(w) => /\ status[d] = "due" /\ status'[d] = "leased"
                                  /\ stamp'[d] = stamp[d] + 1 /\ claims'[w][d] = Claim(w, d)
             /\ d \notin Taken(w) => /\ status'[d] = status[d] /\ stamp'[d] = stamp[d]
                                     /\ claims'[w][d] = NoClaim /\ claims[w][d] = NoClaim
             /\ attempts'[d] = attempts[d]
             /\ \A v \in Deliverers \ {w} : claims'[v][d] = claims[v][d]
  BY <1>1 DEF IInv, Typed, TakeDue, Taken, Due, Empty
<1>3. faults' = faults /\ Taken(w) \in SUBSET Deliveries
  BY DEF TakeDue, Taken, Due
<1>4. /\ \A d \in Deliveries : stamp[d] \in Nat /\ attempts[d] \in Nat
      /\ faults \in Nat
      /\ \A v \in Deliverers, d \in Deliveries :
           /\ claims[v][d].stamp \in Nat /\ claims[v][d].attempts \in Nat
           /\ claims[v][d].stamp <= stamp[d] /\ claims[v][d].attempts <= attempts[d]
  BY DEF IInv, Core, ClaimsPast, Typed, AnyClaims
<1>5. ASSUME NEW d \in Taken(w)
      PROVE  /\ Holds(w, d)' /\ \A v \in Deliverers \ {w} : ~Holds(v, d)'
             /\ claims'[w][d].attempts = attempts[d]
  <2>1. d \in Deliveries
    BY <1>3
  <2>2. claims'[w][d] = Claim(w, d) /\ stamp'[d] = stamp[d] + 1
    BY <1>2, <2>1
  <2>3. /\ claims'[w][d].state # "none" /\ claims'[w][d].stamp = stamp'[d]
        /\ claims'[w][d].attempts = attempts[d]
    BY <2>2 DEF Claim
  <2>4. \A v \in Deliverers \ {w} : claims'[v][d].stamp < stamp'[d]
    <3> SUFFICES ASSUME NEW v \in Deliverers \ {w}
                 PROVE  claims'[v][d].stamp < stamp'[d]
      OBVIOUS
    <3>1. claims'[v][d] = claims[v][d] /\ claims[v][d].stamp <= stamp[d]
      BY <1>2, <1>4, <2>1
    <3> QED
      BY <1>4, <2>1, <2>2, <3>1
  <2> QED
    BY <1>4, <2>1, <2>2, <2>3, <2>4 DEF Holds
<1>6. ASSUME NEW v \in Deliverers, NEW d \in Deliveries, d \notin Taken(w)
      PROVE  claims'[v][d] = claims[v][d] /\ (Holds(v, d)' <=> Holds(v, d))
  <2>1. claims'[v][d] = claims[v][d] /\ stamp'[d] = stamp[d]
    BY <1>2, <1>6
  <2> QED
    BY <2>1 DEF Holds
<1>7. ClaimsPast'
  <2> SUFFICES ASSUME NEW v \in Deliverers, NEW d \in Deliveries
               PROVE  claims'[v][d].stamp <= stamp'[d] /\ claims'[v][d].attempts <= attempts'[d]
    BY DEF ClaimsPast
  <2>1. CASE d \notin Taken(w)
    BY <1>2, <1>4, <1>6, <2>1
  <2>2. CASE d \in Taken(w) /\ v # w
    <3>1. claims'[v][d] = claims[v][d] /\ stamp'[d] = stamp[d] + 1 /\ attempts'[d] = attempts[d]
      BY <1>2, <2>2
    <3> QED
      BY <1>4, <3>1
  <2>3. CASE d \in Taken(w) /\ v = w
    <3>1. claims'[w][d] = Claim(w, d) /\ stamp'[d] = stamp[d] + 1 /\ attempts'[d] = attempts[d]
      BY <1>2, <2>3
    <3> QED
      BY <1>4, <2>3, <3>1 DEF Claim
  <2> QED
    BY <2>1, <2>2, <2>3
<1>8. OneHolder'
  BY <1>5, <1>6 DEF IInv, Core, OneHolder
<1>9. HolderKnows'
  <2> SUFFICES ASSUME NEW v \in Deliverers, NEW d \in Deliveries, Holds(v, d)', status'[d] \notin Over
               PROVE  status'[d] \in {"due", "leased"} /\ claims'[v][d].attempts = attempts'[d]
    BY DEF HolderKnows
  <2>1. CASE d \in Taken(w)
    BY <1>2, <1>5, <2>1
  <2>2. CASE d \notin Taken(w)
    BY <1>2, <1>6, <2>2 DEF IInv, Core, HolderKnows
  <2> QED
    BY <2>1, <2>2
<1>10. ASSUME NEW d \in Taken(w)
       PROVE  stamp[d] <= attempts[d] + faults /\ attempts[d] < MaxAttempts
  <2>1. d \in Deliveries /\ status[d] = "due"
    BY <1>2, <1>3
  <2> QED
    BY <2>1 DEF IInv, Core, ClaimsCounted, AttemptsLeft, Over, Final
<1>11. ClaimsCounted'
  <2> SUFFICES ASSUME NEW d \in Deliveries
               PROVE  /\ stamp'[d] <= attempts'[d] + 1 + faults'
                      /\ status'[d] \notin Over /\ ~(status'[d] = "leased" /\ InHand(d)') =>
                           stamp'[d] <= attempts'[d] + faults'
    BY DEF ClaimsCounted
  <2>1. CASE d \in Taken(w)
    <3>1. InHand(d)' /\ status'[d] = "leased" /\ stamp'[d] = stamp[d] + 1
      BY <1>2, <1>5, <2>1 DEF InHand
    <3> QED
      BY <1>2, <1>3, <1>4, <1>10, <2>1, <3>1
  <2>2. CASE d \notin Taken(w)
    <3>1. InHand(d)' <=> InHand(d)
      BY <1>6, <2>2 DEF InHand
    <3> QED
      BY <1>2, <1>3, <2>2, <3>1 DEF IInv, Core, ClaimsCounted
  <2> QED
    BY <2>1, <2>2
<1>12. AttemptsLeft'
  <2> SUFFICES ASSUME NEW d \in Deliveries
               PROVE  /\ attempts'[d] <= MaxAttempts
                      /\ stamp'[d] <= MaxAttempts + faults'
                      /\ status'[d] \notin Over => attempts'[d] < MaxAttempts
    BY DEF AttemptsLeft
  <2>1. CASE d \in Taken(w)
    BY <1>2, <1>3, <1>4, <1>10, <2>1, DeliveryAssumption
  <2>2. CASE d \notin Taken(w)
    BY <1>2, <1>3, <2>2 DEF IInv, Core, AttemptsLeft
  <2> QED
    BY <2>1, <2>2
<1> QED
  BY <1>7, <1>8, <1>9, <1>11, <1>12 DEF Core

(* recordAttempt: who still holds the claim counts the attempt; for anyone *)
(* else nothing changes, nor is anything in flight lost with the claim.    *)
LEMMA RecordKept ==
  ASSUME IInv, Typed', NEW w \in Deliverers, NEW d \in Deliveries, RecordAttempt(w, d)
  PROVE  Core'
<1> USE DEF IInv, Typed, Core
<1>1. /\ claims' = [claims EXCEPT ![w][d] = NoClaim] /\ claims[w][d].state # "none"
      /\ stamp' = stamp /\ faults' = faults
  BY DEF RecordAttempt, Forget
<1>2. CASE ~StillClaimed(w, d)
  <2>1. UNCHANGED <<status, attempts, stamp>>
    BY <1>1, <1>2 DEF RecordAttempt
  <2>2. ~(status[d] = "leased" /\ Holds(w, d))
    BY <1>2 DEF StillClaimed, Holds, HolderKnows, Pending, Over, Final
  <2>3. \A e \in Deliveries : LetsGo(w, e)
    BY <1>1, <2>2 DEF LetsGo
  <2>4. \A v \in Deliverers \ {w} : claims'[v] = claims[v]
    BY <1>1
  <2> QED
    BY <1>1, <2>1, <2>3, <2>4, ClaimsKept
<1>3. CASE StillClaimed(w, d)
  <2>1. /\ status' = [status EXCEPT ![d] = OutcomeOf(w, d)]
        /\ attempts' = [attempts EXCEPT ![d] = attempts[d] + 1]
    BY <1>3 DEF RecordAttempt
  <2>2. Holds(w, d) /\ status[d] \in Pending /\ claims[w][d].attempts = attempts[d]
    BY <1>1, <1>3 DEF StillClaimed, Holds
  <2>3. \A v \in Deliverers : ~Holds(v, d)'
    BY <1>1, <2>2 DEF Holds, OneHolder, NoClaim
  <2>4. \A v \in Deliverers, e \in Deliveries \ {d} :
          /\ claims'[v][e] = claims[v][e] /\ (Holds(v, e)' <=> Holds(v, e))
          /\ status'[e] = status[e] /\ attempts'[e] = attempts[e]
    BY <1>1, <2>1 DEF Holds
  <2>5. ClaimsPast'
    <3> SUFFICES ASSUME NEW v \in Deliverers, NEW e \in Deliveries
                 PROVE  claims'[v][e].stamp <= stamp'[e] /\ claims'[v][e].attempts <= attempts'[e]
      BY DEF ClaimsPast
    <3>1. CASE v = w /\ e = d
      BY <1>1, <3>1 DEF NoClaim
    <3>2. CASE v # w \/ e # d
      <4>1. claims'[v][e] = claims[v][e] /\ attempts[e] <= attempts'[e] /\ stamp'[e] = stamp[e]
        BY <1>1, <2>1, <3>2
      <4>2. /\ claims[v][e].stamp <= stamp[e] /\ claims[v][e].attempts <= attempts[e]
            /\ claims[v][e].attempts \in Nat /\ attempts[e] \in Nat /\ attempts'[e] \in Nat
        BY DEF ClaimsPast, AnyClaims
      <4> HIDE DEF IInv, Typed, Core
      <4> QED
        BY <4>1, <4>2
    <3> QED
      BY <3>1, <3>2
  <2>6. OneHolder'
    BY <2>3, <2>4 DEF OneHolder
  <2>7. HolderKnows'
    <3> HIDE DEF IInv, Typed, Core
    <3> SUFFICES ASSUME NEW v \in Deliverers, NEW e \in Deliveries, Holds(v, e)', status'[e] \notin Over
                 PROVE  status'[e] \in {"due", "leased"} /\ claims'[v][e].attempts = attempts'[e]
      BY DEF HolderKnows
    <3>1. e # d
      BY <2>3
    <3> QED
      BY <2>4, <3>1 DEF IInv, Core, HolderKnows
  <2>8. /\ stamp[d] <= attempts[d] + 1 + faults /\ attempts[d] < MaxAttempts
        /\ attempts'[d] = attempts[d] + 1
    BY <2>1, <2>2 DEF ClaimsCounted, AttemptsLeft, Pending, Over, Final
  <2>9. ClaimsCounted'
    <3> SUFFICES ASSUME NEW e \in Deliveries
                 PROVE  /\ stamp'[e] <= attempts'[e] + 1 + faults'
                        /\ status'[e] \notin Over /\ ~(status'[e] = "leased" /\ InHand(e)') =>
                             stamp'[e] <= attempts'[e] + faults'
      BY DEF ClaimsCounted
    <3>1. CASE e = d
      BY <1>1, <2>8, <3>1
    <3>2. CASE e # d
      BY <1>1, <2>4, <3>2 DEF ClaimsCounted, InHand
    <3> QED
      BY <3>1, <3>2
  <2>10. status'[d] \notin Over => attempts'[d] < MaxAttempts
    BY <2>1, <2>2, <2>8 DEF OutcomeOf, Over, Final
  <2>11. AttemptsLeft'
    <3> SUFFICES ASSUME NEW e \in Deliveries
                 PROVE  /\ attempts'[e] <= MaxAttempts
                        /\ stamp'[e] <= MaxAttempts + faults'
                        /\ status'[e] \notin Over => attempts'[e] < MaxAttempts
      BY DEF AttemptsLeft
    <3>1. CASE e = d
      BY <1>1, <2>8, <2>10, <3>1, DeliveryAssumption DEF AttemptsLeft
    <3>2. CASE e # d
      BY <1>1, <2>1, <3>2 DEF AttemptsLeft
    <3> QED
      BY <3>1, <3>2
  <2> QED
    BY <2>5, <2>6, <2>7, <2>9, <2>11
<1> QED
  BY <1>2, <1>3

----------------------------------------------------------------------------
(* Collecting the steps.                                                   *)

(* The steps of a delivery and of the endpoint move the status only.       *)
LEMMA RowsKept ==
  ASSUME IInv, Typed', \/ Remove
                       \/ \E d \in Deliveries : \/ FindEndpoint(d) \/ Enqueue(d) \/ Prune(d)
                                                \/ RetryFallsDue(d) \/ LeaseLapses(d) \/ Stall(d)
  PROVE  Core'
<1>1. UNCHANGED <<attempts, stamp, claims>> /\ faults' >= faults
  BY DEF Remove, FindEndpoint, Enqueue, Prune, RetryFallsDue, LeaseLapses, Stall, FallsDue,
         jobVars, IInv, Typed
<1>2. ASSUME NEW d \in Deliveries
      PROVE  Moves(d)
  <2>1. CASE Remove
    BY <2>1 DEF Remove, Moves
  <2>2. ASSUME NEW e \in Deliveries, FindEndpoint(e) \/ Enqueue(e) \/ Prune(e)
        PROVE  Moves(d)
    BY <2>2 DEF FindEndpoint, Enqueue, Prune, Moves, IInv, Typed
  <2>3. ASSUME NEW e \in Deliveries, RetryFallsDue(e) \/ LeaseLapses(e) \/ Stall(e)
        PROVE  Moves(d)
    BY <2>3 DEF RetryFallsDue, LeaseLapses, Stall, FallsDue, Moves, IInv, Typed
  <2> QED
    BY <2>1, <2>2, <2>3
<1> QED
  BY <1>1, <1>2, StatusKept

(* Sending, and what disturbs it, answers claims or lets them go.          *)
LEMMA SendsKept ==
  ASSUME IInv, Typed', NEW w \in Deliverers,
         \/ RunFails(w) \/ Crash(w)
         \/ \E d \in Deliveries : \/ SendTaken(w, d) \/ SendRefused(w, d)
                                  \/ SendUnheard(w, d) \/ RecordFails(w, d)
  PROVE  Core'
<1>1. /\ UNCHANGED <<status, attempts, stamp>> /\ faults' >= faults
      /\ \A v \in Deliverers \ {w} : claims'[v] = claims[v]
  BY DEF RunFails, Crash, SendTaken, SendRefused, SendUnheard, RecordFails, Answered, Forget,
         rowVars, IInv, Typed
<1>2. ASSUME NEW e \in Deliveries
      PROVE  LetsGo(w, e)
  <2>1. CASE RunFails(w) \/ Crash(w)
    BY <2>1 DEF RunFails, Crash, Empty, LetsGo, IInv, Typed
  <2>2. ASSUME NEW d \in Deliveries, RecordFails(w, d)
        PROVE  LetsGo(w, e)
    BY <2>2 DEF RecordFails, Forget, LetsGo, IInv, Typed
  <2>3. ASSUME NEW d \in Deliveries, SendTaken(w, d) \/ SendRefused(w, d) \/ SendUnheard(w, d)
        PROVE  LetsGo(w, e)
    <3>1. PICK state \in {"taken", "refused"} : Answered(w, d, state)
      BY <2>3 DEF SendTaken, SendRefused, SendUnheard
    <3>2. claims[w][d].state = "unsent" /\ claims[w][d] \in AnyClaims
      BY <2>3 DEF SendTaken, SendRefused, SendUnheard, IInv, Typed
    <3>3. claims'[w][d] = [claims[w][d] EXCEPT !.state = state]
      BY <3>1 DEF Answered, IInv, Typed
    <3>4. e # d => claims'[w][e] = claims[w][e]
      BY <3>1 DEF Answered, IInv, Typed
    <3>5. /\ claims'[w][d].state # "none" /\ claims'[w][d].stamp = claims[w][d].stamp
          /\ claims'[w][d].attempts = claims[w][d].attempts
      BY <3>2, <3>3 DEF AnyClaims
    <3> QED
      BY <3>2, <3>4, <3>5 DEF LetsGo
  <2> QED
    BY <2>1, <2>2, <2>3
<1> QED
  BY <1>1, <1>2, ClaimsKept

(* Only a deliverer that took a batch claims, and it sleeps with none.     *)
LEMMA SendersKept ==
  ASSUME IInv, [Next]_vars
  PROVE  OnlySendersClaim'
<1> USE DEF IInv, Typed, OnlySendersClaim, GoTo
<1>1. CASE UNCHANGED vars
  BY <1>1 DEF vars, jobVars
<1>2. CASE Administer
  BY <1>2 DEF Administer, Save, Remove, KeyChanges, RotateSecret, OverlapEnds, jobVars
<1>3. ASSUME NEW d \in Deliveries,
             \/ FindEndpoint(d) \/ Enqueue(d) \/ Prune(d)
             \/ RetryFallsDue(d) \/ LeaseLapses(d) \/ Stall(d)
      PROVE  OnlySendersClaim'
  BY <1>3 DEF FindEndpoint, Enqueue, Prune, RetryFallsDue, LeaseLapses, Stall, FallsDue, jobVars
<1>4. ASSUME NEW w \in Deliverers, RankDue(w) \/ Sleep(w) \/ Wake(w) \/ Listen(w) \/ ListenLost(w)
      PROVE  OnlySendersClaim'
  BY <1>4 DEF RankDue, Sleep, BatchDone, Wake, Listen, ListenLost
<1>5. ASSUME NEW w \in Deliverers, TakeDue(w) \/ RunFails(w) \/ Crash(w)
      PROVE  OnlySendersClaim'
  BY <1>5 DEF TakeDue, RunFails, Crash
<1>6. ASSUME NEW w \in Deliverers, NEW d \in Deliveries,
             \/ SendTaken(w, d) \/ SendRefused(w, d) \/ SendUnheard(w, d)
             \/ RecordAttempt(w, d) \/ RecordFails(w, d)
      PROVE  OnlySendersClaim'
  <2>1. pc[w] = "send"
    <3>1. claims[w][d].state # "none"
      BY <1>6 DEF SendTaken, SendRefused, SendUnheard, RecordAttempt, RecordFails
    <3> QED
      BY <3>1 DEF Empty, NoClaim
  <2>2. pc' = pc /\ \A v \in Deliverers \ {w} : claims'[v] = claims[v]
    BY <1>6 DEF SendTaken, SendRefused, SendUnheard, RecordAttempt, RecordFails, Answered, Forget
  <2> QED
    BY <2>1, <2>2
<1> QED
  BY <1>1, <1>2, <1>3, <1>4, <1>5, <1>6 DEF Next, Deliver, Disturb

(* Every step keeps the invariant.                                         *)
LEMMA Inductive ==
  ASSUME IInv, [Next]_vars
  PROVE  IInv'
<1>1. Typed'
  BY TypedStep DEF IInv
<1>2. ASSUME UNCHANGED vars
      PROVE  Core'
  BY <1>1, <1>2, QuietKept DEF vars, rowVars, jobVars, IInv, Typed
<1>3. ASSUME Save \/ KeyChanges \/ RotateSecret \/ OverlapEnds
      PROVE  Core'
  BY <1>1, <1>3, QuietKept DEF Save, KeyChanges, RotateSecret, OverlapEnds, rowVars, jobVars, IInv, Typed
<1>4. ASSUME NEW w \in Deliverers, RankDue(w) \/ Sleep(w) \/ Wake(w) \/ Listen(w) \/ ListenLost(w)
      PROVE  Core'
  BY <1>1, <1>4, QuietKept DEF RankDue, Sleep, Wake, Listen, ListenLost, rowVars, IInv, Typed
<1>5. Core'
  BY <1>1, <1>2, <1>3, <1>4, RowsKept, SendsKept, TakeKept, RecordKept
     DEF Next, Administer, Deliver, Disturb, IInv
<1> QED
  BY <1>1, <1>5, SendersKept DEF IInv

(* The invariant holds at first.                                           *)
LEMMA AtFirst ==
  ASSUME Init
  PROVE  IInv
<1>1. Typed
  <2>1. /\ window \in [Deliverers -> [ids : SUBSET Deliveries, opens : BOOLEAN]]
        /\ listening \in [Deliverers -> BOOLEAN] /\ wake \in [Deliverers -> BOOLEAN]
        /\ alarm \in [Deliverers -> BOOLEAN]
    BY DEF Init, Unseen
  <2>2. faults \in Nat /\ faults <= MaxFaults
    BY DeliveryAssumption DEF Init
  <2> QED
    BY <2>1, <2>2, EmptyTypes DEF Init, Typed, Endpoints, Status
<1>2. \A w \in Deliverers, d \in Deliveries : claims[w][d] = NoClaim
  BY DEF Init, Empty
<1>3. ClaimsPast /\ OneHolder /\ HolderKnows /\ OnlySendersClaim
  BY <1>2 DEF Init, ClaimsPast, OneHolder, HolderKnows, OnlySendersClaim, Holds, NoClaim
<1>4. ClaimsCounted /\ AttemptsLeft
  BY DeliveryAssumption DEF Init, ClaimsCounted, AttemptsLeft
<1> QED
  BY <1>1, <1>3, <1>4 DEF IInv, Core

----------------------------------------------------------------------------
(* What the endpoint received, counted.                                    *)

(* Claims still to be sent besides the one in flight: their leases lapsed. *)
Loose(d) == {w \in Deliverers : /\ claims[w][d].state = "unsent"
                                /\ ~(status[d] = "leased" /\ Holds(w, d))}

(* The delivery the endpoint took once without anything failing.           *)
TakenInHand(d) == \E w \in Deliverers : Holds(w, d) /\ claims[w][d].state = "taken"
Excused(d)     == status[d] = "delivered" \/ (status[d] = "leased" /\ TakenInHand(d))

(* Whatever else it received, or may yet receive, some fault accounts for. *)
Paid(d) ==
  /\ IsFiniteSet(Loose(d))
  /\ received[d] + Cardinality(Loose(d)) <= faults + (IF Excused(d) THEN 1 ELSE 0)

TakesPaid == \A d \in Deliveries : status[d] # "gone" => Paid(d)

(* What is said to be taken was received.                                  *)
TakenReceived ==
  \A d \in Deliveries :
    /\ status[d] = "delivered" => received[d] >= 1
    /\ \A w \in Deliverers : claims[w][d].state = "taken" => received[d] >= 1

(* A step in which no claim becomes loose, and which pays for what is      *)
(* received in it and for an excuse that goes.                             *)
LEMMA FewerLoose ==
  ASSUME Typed, Typed', NEW d \in Deliveries, Paid(d), Loose(d)' \subseteq Loose(d),
         received'[d] + (IF Excused(d) THEN 1 ELSE 0) + faults
           <= received[d] + (IF Excused(d)' THEN 1 ELSE 0) + faults'
  PROVE  Paid(d)'
<1> DEFINE E == IF Excused(d) THEN 1 ELSE 0
           F == IF Excused(d)' THEN 1 ELSE 0
<1>1. IsFiniteSet(Loose(d)) /\ received[d] + Cardinality(Loose(d)) <= faults + E
  BY DEF Paid
<1>2. /\ IsFiniteSet(Loose(d)') /\ Cardinality(Loose(d)') <= Cardinality(Loose(d))
      /\ Cardinality(Loose(d)') \in Nat /\ Cardinality(Loose(d)) \in Nat
  BY <1>1, FS_Subset, FS_CardinalityType
<1>3. /\ received[d] \in Nat /\ received'[d] \in Nat /\ faults \in Nat /\ faults' \in Nat
      /\ E \in {0, 1} /\ F \in {0, 1}
  BY DEF Typed
<1>4. received'[d] + E + faults <= received[d] + F + faults'
  OBVIOUS
<1> HIDE DEF E, F
<1>5. received'[d] + Cardinality(Loose(d)') <= faults' + F
  BY <1>1, <1>2, <1>3, <1>4
<1> QED
  BY <1>2, <1>5 DEF Paid, F

(* Steps that do not concern a delivery.                                   *)
Untouched(d) ==
  /\ status'[d] = status[d] /\ stamp'[d] = stamp[d] /\ received'[d] = received[d]
  /\ \A w \in Deliverers : claims'[w][d] = claims[w][d]
  /\ faults' >= faults

(* A delivery that a step does not concern stays paid for.                 *)
LEMMA UntouchedPaid ==
  ASSUME Typed, Typed', NEW d \in Deliveries, Paid(d), Untouched(d)
  PROVE  Paid(d)'
<1>1. \A w \in Deliverers : Holds(w, d)' <=> Holds(w, d)
  BY DEF Untouched, Holds
<1>2. Loose(d)' = Loose(d)
  BY <1>1 DEF Untouched, Loose
<1>3. Excused(d)' <=> Excused(d)
  BY <1>1 DEF Untouched, Excused, TakenInHand
<1>4. received'[d] = received[d] /\ faults' >= faults
  BY DEF Untouched
<1>5. received[d] \in Nat /\ faults \in Nat /\ faults' \in Nat
  BY DEF Typed
<1>6. received'[d] + (IF Excused(d) THEN 1 ELSE 0) + faults
        <= received[d] + (IF Excused(d)' THEN 1 ELSE 0) + faults'
  BY <1>3, <1>4, <1>5
<1> QED
  BY <1>2, <1>6, FewerLoose

(* A delivery's own steps: one that is neither leased nor delivered has no *)
(* excuse to lose; a lease that lapses in its holder's hands is a fault.   *)
LEMMA FallsDuePaid ==
  ASSUME IInv, Typed', NEW d \in Deliveries, Paid(d), UNCHANGED <<stamp, claims, received>>,
         status[d] \in {"none", "writing", "waiting", "leased"},
         status'[d] \in {"writing", "due"},
         faults' >= faults, status[d] = "leased" /\ InHand(d) => faults' = faults + 1
  PROVE  Paid(d)'
<1>0. Typed /\ received[d] \in Nat /\ faults \in Nat /\ faults' \in Nat
  BY DEF IInv, Typed
<1>1. \A w \in Deliverers : Holds(w, d)' <=> Holds(w, d)
  BY DEF Holds
<1>2. ~Excused(d)'
  BY DEF Excused
<1>3. CASE ~(status[d] = "leased" /\ InHand(d))
  <2>1. Loose(d)' = Loose(d) /\ ~Excused(d)
    BY <1>1, <1>3 DEF Loose, Excused, TakenInHand, InHand
  <2>2. received'[d] + (IF Excused(d) THEN 1 ELSE 0) + faults
          <= received[d] + (IF Excused(d)' THEN 1 ELSE 0) + faults'
    BY <1>0, <1>2, <2>1
  <2> QED
    BY <1>0, <2>1, <2>2, FewerLoose
<1>4. CASE status[d] = "leased" /\ InHand(d)
  <2>1. PICK h \in Deliverers : Holds(h, d)
    BY <1>4 DEF InHand
  <2>2. \A w \in Deliverers : Holds(w, d) => w = h
    BY <2>1 DEF IInv, Core, OneHolder
  <2>3. faults' = faults + 1
    BY <1>4
  <2>4. CASE claims[h][d].state # "unsent"
    <3>1. Loose(d)' \subseteq Loose(d)
      BY <1>1, <2>2, <2>4 DEF Loose
    <3>2. received'[d] + (IF Excused(d) THEN 1 ELSE 0) + faults
            <= received[d] + (IF Excused(d)' THEN 1 ELSE 0) + faults'
      BY <1>0, <1>2, <2>3
    <3> QED
      BY <1>0, <3>1, <3>2, FewerLoose
  <2>5. CASE claims[h][d].state = "unsent"
    <3>1. Loose(d)' \subseteq Loose(d) \cup {h} /\ ~Excused(d)
      BY <1>1, <1>4, <2>2, <2>5 DEF Loose, Excused, TakenInHand
    <3>2. IsFiniteSet(Loose(d)) /\ received[d] + Cardinality(Loose(d)) <= faults
      BY <1>0, <3>1 DEF Paid
    <3>3. /\ IsFiniteSet(Loose(d) \cup {h})
          /\ Cardinality(Loose(d) \cup {h}) \in Nat /\ Cardinality(Loose(d)) \in Nat
          /\ Cardinality(Loose(d) \cup {h}) <= Cardinality(Loose(d)) + 1
      BY <3>2, FS_AddElement, FS_CardinalityType
    <3>4. /\ IsFiniteSet(Loose(d)') /\ Cardinality(Loose(d)') \in Nat
          /\ Cardinality(Loose(d)') <= Cardinality(Loose(d) \cup {h})
      BY <3>1, <3>3, FS_Subset, FS_CardinalityType
    <3>5. received'[d] + Cardinality(Loose(d)') <= faults'
      BY <1>0, <2>3, <3>2, <3>3, <3>4
    <3> QED
      BY <1>0, <1>2, <3>4, <3>5 DEF Paid
  <2> QED
    BY <2>4, <2>5
<1> QED
  BY <1>3, <1>4

(* claimDue: a delivery's take is in flight, what others hold of it was    *)
(* loose before.                                                           *)
LEMMA TakePaid ==
  ASSUME IInv, IInv', NEW d \in Deliveries, Paid(d), NEW w \in Deliverers, TakeDue(w), d \in Taken(w)
  PROVE  Paid(d)'
<1>0. Typed /\ Typed' /\ received[d] \in Nat /\ faults \in Nat
  BY DEF IInv, Typed
<1>1. /\ status[d] = "due" /\ status'[d] = "leased" /\ stamp'[d] = stamp[d] + 1
      /\ claims'[w][d] = Claim(w, d) /\ received' = received /\ faults' = faults
      /\ \A v \in Deliverers \ {w} : claims'[v][d] = claims[v][d]
  BY <1>0 DEF TakeDue, Taken, Due, Typed
<1>2. Holds(w, d)' /\ claims'[w][d].state # "taken"
  BY <1>1 DEF Holds, Claim
<1>3. \A v \in Deliverers : Holds(v, d)' => v = w
  BY <1>2 DEF IInv, Core, OneHolder
<1>4. Loose(d)' \subseteq Loose(d)
  <2> SUFFICES ASSUME NEW v \in Loose(d)'
               PROVE  v \in Loose(d)
    OBVIOUS
  <2>1. v # w /\ v \in Deliverers /\ claims'[v][d].state = "unsent"
    BY <1>1, <1>2 DEF Loose
  <2> QED
    BY <1>1, <2>1 DEF Loose
<1>5. ~Excused(d) /\ ~Excused(d)'
  BY <1>1, <1>2, <1>3 DEF Excused, TakenInHand
<1>6. received'[d] + (IF Excused(d) THEN 1 ELSE 0) + faults
        <= received[d] + (IF Excused(d)' THEN 1 ELSE 0) + faults'
  BY <1>0, <1>1, <1>5
<1> QED
  BY <1>0, <1>4, <1>6, FewerLoose

(* Steps with one deliverer's claim of a delivery: sent, refused, dropped. *)
OnlyClaim(w, d) ==
  /\ UNCHANGED <<status, stamp>>
  /\ \A v \in Deliverers \ {w} : claims'[v][d] = claims[v][d]

(* A claim answered, let go or dropped: an excuse goes by a fault, and a   *)
(* send that was not heard is one.                                         *)
LEMMA LetGoPaid ==
  ASSUME IInv, Typed', NEW d \in Deliveries, Paid(d), NEW w \in Deliverers, OnlyClaim(w, d),
         claims'[w][d].state # "unsent",
         \/ received'[d] = received[d] /\ faults' = faults
            /\ (status[d] = "leased" /\ Holds(w, d) => claims[w][d].state # "taken")
         \/ received'[d] = received[d] /\ faults' = faults + 1
         \/ received'[d] = received[d] + 1 /\ faults' = faults + 1 /\ claims[w][d].state # "taken"
  PROVE  Paid(d)'
<1>0. Typed /\ received[d] \in Nat /\ faults \in Nat
  BY DEF IInv, Typed
<1>1. \A v \in Deliverers \ {w} : claims'[v][d] = claims[v][d] /\ (Holds(v, d)' <=> Holds(v, d))
  BY DEF OnlyClaim, Holds
<1>2. Loose(d)' \subseteq Loose(d)
  BY <1>1 DEF OnlyClaim, Loose
<1>3. status'[d] = status[d]
  BY DEF OnlyClaim
<1>4. Excused(d) => Excused(d)' \/ (status[d] = "leased" /\ Holds(w, d) /\ claims[w][d].state = "taken")
  BY <1>1, <1>3 DEF Excused, TakenInHand
<1>5. received'[d] + (IF Excused(d) THEN 1 ELSE 0) + faults
        <= received[d] + (IF Excused(d)' THEN 1 ELSE 0) + faults'
  BY <1>0, <1>4
<1> QED
  BY <1>0, <1>2, <1>5, FewerLoose

(* The endpoint takes a delivery: the claim in flight is its excuse, and a *)
(* loose one was paid for.                                                 *)
LEMMA SentPaid ==
  ASSUME IInv, Typed', NEW d \in Deliveries, Paid(d), NEW w \in Deliverers, SendTaken(w, d)
  PROVE  Paid(d)'
<1>0. Typed /\ received[d] \in Nat /\ faults \in Nat
  BY DEF IInv, Typed
<1>1. /\ UNCHANGED <<status, stamp, faults>> /\ received'[d] = received[d] + 1
      /\ claims[w][d].state = "unsent" /\ claims[w][d] \in AnyClaims
      /\ claims'[w][d] = [claims[w][d] EXCEPT !.state = "taken"]
      /\ \A v \in Deliverers \ {w} : claims'[v][d] = claims[v][d]
  BY <1>0 DEF SendTaken, Answered, rowVars, Typed
<1>2. claims'[w][d].state = "taken" /\ (Holds(w, d)' <=> Holds(w, d))
  BY <1>1 DEF Holds, AnyClaims
<1>3. \A v \in Deliverers \ {w} : Holds(v, d)' <=> Holds(v, d)
  BY <1>1 DEF Holds
<1>4. Loose(d)' = Loose(d) \ {w}
  BY <1>1, <1>2, <1>3 DEF Loose
<1>5. CASE status[d] = "leased" /\ Holds(w, d)
  <2>1. ~Excused(d)
    BY <1>1, <1>5 DEF Excused, TakenInHand, IInv, Core, OneHolder
  <2>2. Excused(d)'
    BY <1>1, <1>2, <1>5 DEF Excused, TakenInHand
  <2>3. received'[d] + (IF Excused(d) THEN 1 ELSE 0) + faults
          <= received[d] + (IF Excused(d)' THEN 1 ELSE 0) + faults'
    BY <1>0, <1>1, <2>1, <2>2
  <2> QED
    BY <1>0, <1>4, <2>3, FewerLoose
<1>6. CASE ~(status[d] = "leased" /\ Holds(w, d))
  <2> DEFINE E == IF Excused(d) THEN 1 ELSE 0
             F == IF Excused(d)' THEN 1 ELSE 0
  <2>1. w \in Loose(d)
    BY <1>1, <1>6 DEF Loose
  <2>2. Excused(d)' <=> Excused(d)
    BY <1>1, <1>3, <1>6, <1>2 DEF Excused, TakenInHand
  <2>3. IsFiniteSet(Loose(d)) /\ received[d] + Cardinality(Loose(d)) <= faults + E
    BY DEF Paid
  <2>4. /\ IsFiniteSet(Loose(d)') /\ Cardinality(Loose(d)') = Cardinality(Loose(d)) - 1
        /\ Cardinality(Loose(d)) \in Nat
    BY <1>4, <2>1, <2>3, FS_RemoveElement, FS_CardinalityType
  <2>5. E = F /\ E \in {0, 1}
    BY <2>2
  <2> HIDE DEF E, F
  <2>6. received'[d] + Cardinality(Loose(d)') <= faults' + F
    BY <1>0, <1>1, <2>3, <2>4, <2>5
  <2> QED
    BY <2>4, <2>6 DEF Paid, F
<1> QED
  BY <1>5, <1>6

(* recordAttempt: the claim that is recorded as taken was the excuse, or   *)
(* had none; a failed attempt leaves none behind.                          *)
LEMMA RecordPaid ==
  ASSUME IInv, Typed', NEW d \in Deliveries, Paid(d), NEW w \in Deliverers, RecordAttempt(w, d)
  PROVE  Paid(d)'
<1>0. Typed /\ received[d] \in Nat /\ faults \in Nat
  BY DEF IInv, Typed
<1>1. /\ UNCHANGED <<stamp, received, faults>> /\ claims[w][d].state \in {"taken", "refused", "shut"}
      /\ claims'[w][d] = NoClaim
      /\ \A v \in Deliverers \ {w} : claims'[v][d] = claims[v][d]
  BY <1>0 DEF RecordAttempt, Forget, Typed
<1>2. \A v \in Deliverers \ {w} : Holds(v, d)' <=> Holds(v, d)
  BY <1>1 DEF Holds
<1>3. CASE ~StillClaimed(w, d)
  <2>1. ~(status[d] = "leased" /\ Holds(w, d))
    BY <1>3 DEF StillClaimed, Holds, IInv, Core, HolderKnows, Pending, Over, Final
  <2>2. OnlyClaim(w, d)
    BY <1>1, <1>3 DEF OnlyClaim, RecordAttempt
  <2>3. claims'[w][d].state # "unsent"
    BY <1>1 DEF NoClaim
  <2> QED
    BY <1>1, <2>1, <2>2, <2>3, LetGoPaid
<1>4. CASE StillClaimed(w, d)
  <2>1. status'[d] = OutcomeOf(w, d)
    BY <1>0, <1>4 DEF RecordAttempt, Typed
  <2>2. Holds(w, d)
    BY <1>1, <1>4 DEF StillClaimed, Holds
  <2>3. \A v \in Deliverers : Holds(v, d) => v = w
    BY <2>2 DEF IInv, Core, OneHolder
  <2>4. Loose(d)' \subseteq Loose(d)
    <3> SUFFICES ASSUME NEW v \in Loose(d)'
                 PROVE  v \in Loose(d)
      OBVIOUS
    <3>1. v # w /\ v \in Deliverers /\ claims'[v][d].state = "unsent"
      BY <1>1 DEF Loose, NoClaim
    <3> QED
      BY <1>1, <2>3, <3>1 DEF Loose
  <2>5. Excused(d) => Excused(d)'
    <3>1. status[d] # "delivered"
      BY <1>4 DEF StillClaimed, Pending
    <3>2. Excused(d) => claims[w][d].state = "taken"
      BY <2>3, <3>1 DEF Excused, TakenInHand
    <3> QED
      BY <2>1, <3>2 DEF OutcomeOf, Excused
  <2>6. received'[d] + (IF Excused(d) THEN 1 ELSE 0) + faults
          <= received[d] + (IF Excused(d)' THEN 1 ELSE 0) + faults'
    BY <1>0, <1>1, <2>5
  <2> QED
    BY <1>0, <2>4, <2>6, FewerLoose
<1> QED
  BY <1>3, <1>4

(* Every step keeps a delivery paid for that it does not drop.             *)
LEMMA PaidStep ==
  ASSUME IInv, IInv', [Next]_vars, NEW d \in Deliveries, status'[d] # "gone", Paid(d)
  PROVE  Paid(d)'
<1>0. Typed /\ Typed' /\ faults \in Nat
  BY DEF IInv, Typed
<1>1. CASE UNCHANGED vars \/ Administer
  <2>1. Untouched(d)
    BY <1>0, <1>1 DEF vars, rowVars, jobVars, Administer, Save, Remove, KeyChanges, RotateSecret,
                      OverlapEnds, Untouched
  <2> QED
    BY <1>0, <2>1, UntouchedPaid
<1>2. ASSUME NEW w \in Deliverers, RankDue(w) \/ Sleep(w) \/ Wake(w) \/ Listen(w) \/ ListenLost(w)
      PROVE  Paid(d)'
  <2>1. Untouched(d)
    BY <1>0, <1>2 DEF RankDue, Sleep, Wake, Listen, ListenLost, rowVars, Untouched
  <2> QED
    BY <1>0, <2>1, UntouchedPaid
<1>3. ASSUME NEW e \in Deliveries, \/ FindEndpoint(e) \/ Enqueue(e) \/ Prune(e)
                                   \/ RetryFallsDue(e) \/ LeaseLapses(e) \/ Stall(e)
      PROVE  Paid(d)'
  <2>1. CASE e # d
    <3>1. Untouched(d)
      BY <1>0, <1>3, <2>1 DEF FindEndpoint, Enqueue, Prune, RetryFallsDue, LeaseLapses, Stall, FallsDue,
                              jobVars, Untouched, Typed
    <3> QED
      BY <1>0, <3>1, UntouchedPaid
  <2>2. CASE e = d
    <3>1. ~Prune(d)
      BY <1>0 DEF Prune, Typed
    <3>2. /\ UNCHANGED <<stamp, claims, received>> /\ status[d] \in {"none", "writing", "waiting", "leased"}
          /\ status'[d] \in {"writing", "due"}
      BY <1>0, <1>3, <2>2, <3>1 DEF FindEndpoint, Enqueue, RetryFallsDue, LeaseLapses, Stall, FallsDue,
                                    jobVars, Typed
    <3>3. faults' >= faults /\ (status[d] = "leased" /\ InHand(d) => faults' = faults + 1)
      BY <1>0, <1>3, <2>2, <3>1 DEF FindEndpoint, Enqueue, RetryFallsDue, LeaseLapses, Stall, FallsDue,
                                    jobVars, Typed
    <3> QED
      BY <1>0, <3>2, <3>3, FallsDuePaid
  <2> QED
    BY <2>1, <2>2
<1>4. ASSUME NEW w \in Deliverers, TakeDue(w)
      PROVE  Paid(d)'
  <2>1. CASE d \in Taken(w)
    BY <1>4, <2>1, TakePaid
  <2>2. CASE d \notin Taken(w)
    <3>1. claims[w] = Empty
      BY <1>4 DEF IInv, OnlySendersClaim, TakeDue
    <3>2. Untouched(d)
      BY <1>0, <1>4, <2>2, <3>1 DEF TakeDue, Untouched, Empty, Typed
    <3> QED
      BY <1>0, <3>2, UntouchedPaid
  <2> QED
    BY <2>1, <2>2
<1>5. ASSUME NEW w \in Deliverers, RunFails(w) \/ Crash(w)
      PROVE  Paid(d)'
  <2>1. OnlyClaim(w, d) /\ claims'[w][d].state # "unsent" /\ received' = received /\ faults' = faults + 1
    BY <1>0, <1>5 DEF RunFails, Crash, rowVars, OnlyClaim, Empty, NoClaim, Typed
  <2> QED
    BY <1>0, <2>1, LetGoPaid
<1>6. ASSUME NEW w \in Deliverers, NEW e \in Deliveries, e # d,
             \/ SendTaken(w, e) \/ SendRefused(w, e) \/ SendUnheard(w, e)
             \/ RecordAttempt(w, e) \/ RecordFails(w, e)
      PROVE  Paid(d)'
  <2>1. \A v \in Deliverers : claims'[v][d] = claims[v][d]
    <3>1. CASE Forget(w, e)
      BY <1>0, <1>6, <3>1 DEF Forget, Typed
    <3>2. ASSUME NEW state, Answered(w, e, state)
          PROVE  \A v \in Deliverers : claims'[v][d] = claims[v][d]
      BY <1>0, <1>6, <3>2 DEF Answered, Typed
    <3> QED
      BY <1>6, <3>1, <3>2 DEF SendTaken, SendRefused, SendUnheard, RecordAttempt, RecordFails
  <2>2. /\ status'[d] = status[d] /\ stamp'[d] = stamp[d] /\ received'[d] = received[d] /\ faults' >= faults
    BY <1>0, <1>6 DEF SendTaken, SendRefused, SendUnheard, RecordAttempt, RecordFails, rowVars, Typed
  <2> QED
    BY <1>0, <2>1, <2>2, UntouchedPaid DEF Untouched
<1>7. ASSUME NEW w \in Deliverers, SendRefused(w, d) \/ SendUnheard(w, d) \/ RecordFails(w, d)
      PROVE  Paid(d)'
  <2>1. claims'[w][d].state # "unsent"
    <3>1. CASE RecordFails(w, d)
      BY <1>0, <3>1 DEF RecordFails, Forget, NoClaim, Typed
    <3>2. CASE SendRefused(w, d) \/ SendUnheard(w, d)
      BY <1>0, <3>2 DEF SendRefused, SendUnheard, Answered, AnyClaims, Typed
    <3> QED
      BY <1>7, <3>1, <3>2
  <2>2. OnlyClaim(w, d)
    BY <1>0, <1>7 DEF SendRefused, SendUnheard, RecordFails, Answered, Forget, rowVars, OnlyClaim, Typed
  <2>3. \/ received'[d] = received[d] /\ faults' = faults
           /\ (status[d] = "leased" /\ Holds(w, d) => claims[w][d].state # "taken")
        \/ received'[d] = received[d] /\ faults' = faults + 1
        \/ received'[d] = received[d] + 1 /\ faults' = faults + 1 /\ claims[w][d].state # "taken"
    BY <1>0, <1>7 DEF SendRefused, SendUnheard, RecordFails, Typed
  <2> QED
    BY <1>0, <2>1, <2>2, <2>3, LetGoPaid
<1>8. ASSUME NEW w \in Deliverers, SendTaken(w, d) \/ RecordAttempt(w, d)
      PROVE  Paid(d)'
  BY <1>0, <1>8, SentPaid, RecordPaid
<1> QED
  BY <1>1, <1>2, <1>3, <1>4, <1>5, <1>6, <1>7, <1>8 DEF Next, Deliver, Disturb

(* A dropped delivery stays dropped.                                       *)
LEMMA GoneForGood ==
  ASSUME Typed, [Next]_vars, NEW d \in Deliveries, status[d] = "gone"
  PROVE  status'[d] = "gone"
<1> USE DEF Typed
<1>1. CASE UNCHANGED vars \/ Administer
  BY <1>1 DEF vars, rowVars, jobVars, Administer, Save, Remove, KeyChanges, RotateSecret, OverlapEnds, Pending
<1>2. ASSUME NEW e \in Deliveries, \/ FindEndpoint(e) \/ Enqueue(e) \/ Prune(e)
                                   \/ RetryFallsDue(e) \/ LeaseLapses(e) \/ Stall(e)
      PROVE  status'[d] = "gone"
  BY <1>2 DEF FindEndpoint, Enqueue, Prune, RetryFallsDue, LeaseLapses, Stall, FallsDue
<1>3. ASSUME NEW w \in Deliverers, Deliver(w) \/ Listen(w) \/ Disturb(w)
      PROVE  status'[d] = "gone"
  BY <1>3 DEF Deliver, RankDue, TakeDue, Taken, Due, Sleep, Wake, SendTaken, SendRefused, RecordAttempt,
              StillClaimed, Pending, Listen, Disturb, RunFails, ListenLost, Crash, SendUnheard, RecordFails,
              rowVars
<1> QED
  BY <1>1, <1>2, <1>3 DEF Next

(* What is said to be taken was received: what is received stays so, only  *)
(* a claim the endpoint took is taken, and only such a one delivers.       *)
LEMMA ReceivedStep ==
  ASSUME IInv, TakenReceived, [Next]_vars
  PROVE  TakenReceived'
<1> SUFFICES ASSUME NEW d \in Deliveries
             PROVE  /\ status'[d] = "delivered" => received'[d] >= 1
                    /\ \A w \in Deliverers : claims'[w][d].state = "taken" => received'[d] >= 1
  BY DEF TakenReceived
<1>0. Typed /\ Typed' /\ received[d] \in Nat /\ received'[d] \in Nat
  BY TypedStep DEF IInv, Typed
<1>1. received'[d] >= received[d]
  <2>1. \/ received' = received
        \/ \E e \in Deliveries : received' = [received EXCEPT ![e] = @ + 1]
    BY DEF Next, Administer, Save, Remove, KeyChanges, RotateSecret, OverlapEnds,
           FindEndpoint, Enqueue, Prune, RetryFallsDue, LeaseLapses, Stall, FallsDue,
           Deliver, RankDue, TakeDue, Sleep, Wake, Listen, SendTaken, SendRefused, RecordAttempt,
           Disturb, RunFails, ListenLost, Crash, SendUnheard, RecordFails, vars
  <2> QED
    <3>1. CASE received' = received
      BY <1>0, <3>1
    <3>2. ASSUME NEW e \in Deliveries, received' = [received EXCEPT ![e] = @ + 1]
          PROVE  received'[d] >= received[d]
      <4>1. received \in [Deliveries -> Nat]
        BY <1>0 DEF Typed
      <4>2. received'[d] \in {received[d], received[d] + 1}
        BY <3>2, <4>1
      <4> QED
        BY <1>0, <4>2
    <3> QED
      BY <2>1, <3>1, <3>2
<1>2. ASSUME status'[d] = "delivered", status[d] # "delivered"
      PROVE  \E w \in Deliverers : claims[w][d].state = "taken"
  <2>1. ASSUME NEW w \in Deliverers, NEW e \in Deliveries, RecordAttempt(w, e)
        PROVE  claims[w][d].state = "taken"
    BY <1>0, <1>2, <2>1 DEF RecordAttempt, OutcomeOf, Typed
  <2>2. \E w \in Deliverers, e \in Deliveries : RecordAttempt(w, e)
    BY <1>0, <1>2 DEF Next, Administer, Save, Remove, KeyChanges, RotateSecret, OverlapEnds,
           FindEndpoint, Enqueue, Prune, RetryFallsDue, LeaseLapses, Stall, FallsDue,
           Deliver, RankDue, TakeDue, Sleep, Wake, Listen, SendTaken, SendRefused,
           Disturb, RunFails, ListenLost, Crash, SendUnheard, RecordFails, vars, rowVars, jobVars, Typed
  <2> QED
    BY <2>1, <2>2
<1>3. ASSUME NEW w \in Deliverers, claims'[w][d].state = "taken", claims[w][d].state # "taken"
      PROVE  received'[d] >= 1
  <2>1. UNCHANGED claims \/ \E v \in Deliverers :
          \/ claims' = [claims EXCEPT ![v] = Empty]
          \/ TakeDue(v)
          \/ \E e \in Deliveries : \/ Forget(v, e) \/ Answered(v, e, "refused")
                                    \/ SendTaken(v, e)
    BY DEF Next, Administer, Save, Remove, KeyChanges, RotateSecret, OverlapEnds,
           FindEndpoint, Enqueue, Prune, RetryFallsDue, LeaseLapses, Stall, FallsDue,
           Deliver, RankDue, Sleep, Wake, Listen, SendRefused, RecordAttempt,
           Disturb, RunFails, ListenLost, Crash, SendUnheard, RecordFails, vars, jobVars
  <2>2. ~UNCHANGED claims
    BY <1>3
  <2>3. PICK v \in Deliverers :
          \/ claims' = [claims EXCEPT ![v] = Empty]
          \/ TakeDue(v)
          \/ \E e \in Deliveries : \/ Forget(v, e) \/ Answered(v, e, "refused")
                                    \/ SendTaken(v, e)
    BY <2>1, <2>2
  <2>4. claims \in [Deliverers -> [Deliveries -> AnyClaims]] /\ claims'[w][d] # NoClaim
    BY <1>0, <1>3 DEF NoClaim, Typed
  <2>5. claims' # [claims EXCEPT ![v] = Empty]
    BY <1>3, <2>4 DEF Empty
  <2>6. ~TakeDue(v)
    <3> SUFFICES ASSUME TakeDue(v)
                 PROVE  FALSE
      OBVIOUS
    <3>1. claims'[w][d] \in {claims[w][d], Claim(v, d), NoClaim}
      BY <2>4 DEF TakeDue
    <3>2. Claim(v, d).state # "taken"
      BY DEF Claim
    <3> QED
      BY <1>3, <2>4, <3>1, <3>2
  <2>7. ASSUME NEW e \in Deliveries
        PROVE  ~Forget(v, e) /\ ~Answered(v, e, "refused")
    <3>1. ~Forget(v, e)
      BY <1>3, <2>4 DEF Forget
    <3>2. ~Answered(v, e, "refused")
      <4>1. claims[v][e] \in AnyClaims
        BY <1>0 DEF Typed
      <4>2. Answered(v, e, "refused") =>
              /\ claims'[v][e].state = "refused"
              /\ v # w \/ e # d => claims'[w][d] = claims[w][d]
        BY <1>0, <4>1 DEF Answered, AnyClaims, Typed
      <4> QED
        BY <1>3, <4>2
    <3> QED
      BY <3>1, <3>2
  <2>8. PICK e \in Deliveries : SendTaken(v, e)
    BY <2>3, <2>5, <2>6, <2>7
  <2>9. e = d
    BY <1>0, <1>3, <2>8 DEF SendTaken, Answered, Typed
  <2>10. received'[d] = received[d] + 1
    BY <1>0, <2>8, <2>9 DEF SendTaken, Typed
  <2> QED
    BY <1>0, <2>10
<1>4. ASSUME status[d] = "delivered" \/ \E w \in Deliverers : claims[w][d].state = "taken"
      PROVE  received'[d] >= 1
  BY <1>0, <1>1, <1>4 DEF TakenReceived
<1> QED
  BY <1>2, <1>3, <1>4

----------------------------------------------------------------------------
(* How many deliveries are in flight, while deliveries fall due in order.  *)

(* Deliveries in flight, or next to be.                                    *)
InPlay == {d \in Deliveries : status[d] \in {"due", "leased"}}

(* ahead orders the due deliveries, strictly and totally.                  *)
DueInOrder ==
  /\ \A d \in Deliveries : ahead[d] \subseteq Due /\ d \notin ahead[d] /\ (d \notin Due => ahead[d] = {})
  /\ \A d, e \in Due : d = e \/ d \in ahead[e] \/ e \in ahead[d]
  /\ \A d \in Deliveries : \A e \in ahead[d] : ahead[e] \subseteq ahead[d]

(* What a claim saw and is still due came first among the due.             *)
FirstSeen ==
  \A w \in Deliverers :
    /\ \A d \in window[w].ids : status[d] \notin {"none", "writing"}
    /\ \A d \in Taken(w) : ahead[d] \subseteq window[w].ids

(* What a claim would still take has room, whoever takes first.            *)
RoomLeft ==
  /\ Cardinality(Leased) <= PerEndpoint
  /\ \A w \in Deliverers : Cardinality(Leased \cup Taken(w)) <= PerEndpoint

(* The order, what claims saw of it, and the room that leaves them.        *)
Ranks == IsFiniteSet(InPlay) /\ DueInOrder /\ FirstSeen /\ RoomLeft

(* Deliveries in order of which fewer than n are ahead are at most n.      *)
LEMMA FewAhead ==
  ASSUME Typed, DueInOrder, NEW n \in Nat, NEW S \in SUBSET Due, IsFiniteSet(Due),
         \A d \in S : Cardinality(ahead[d]) < n
  PROVE  Cardinality(S) <= n
<1> DEFINE f == [d \in S |-> Cardinality(ahead[d])]
<1>1. ASSUME NEW d \in S
      PROVE  ahead[d] \subseteq Due /\ IsFiniteSet(ahead[d]) /\ Cardinality(ahead[d]) \in 0 .. n - 1
  <2>1. ahead[d] \subseteq Due
    BY DEF DueInOrder, Due
  <2>2. IsFiniteSet(ahead[d]) /\ Cardinality(ahead[d]) \in Nat
    BY <2>1, FS_Subset, FS_CardinalityType
  <2> QED
    BY <2>1, <2>2
<1>2. ASSUME NEW d \in S, NEW e \in S, d \in ahead[e]
      PROVE  f[d] # f[e]
  <2>1. ahead[d] \subseteq ahead[e] /\ ahead[d] # ahead[e]
    BY <1>2 DEF DueInOrder, Due
  <2>2. Cardinality(ahead[d]) # Cardinality(ahead[e])
    BY <1>1, <2>1, FS_Subset
  <2> QED
    BY <2>2
<1>3. \A d, e \in S : d = e \/ d \in ahead[e] \/ e \in ahead[d]
  BY DEF DueInOrder
<1>4. f \in Injection(S, 0 .. n - 1)
  <2>1. f \in [S -> 0 .. n - 1]
    BY <1>1
  <2>2. \A d, e \in S : f[d] = f[e] => d = e
    <3> HIDE DEF f
    <3> QED
      BY <1>2, <1>3
  <2> HIDE DEF f
  <2> QED
    BY <2>1, <2>2 DEF Injection, IsInjective
<1>5. IsFiniteSet(0 .. n - 1) /\ Cardinality(0 .. n - 1) = n
  BY FS_Interval
<1> HIDE DEF f
<1>6. Cardinality(S) <= Cardinality(0 .. n - 1)
  BY <1>4, <1>5, FS_Injection
<1> QED
  BY <1>5, <1>6

(* A set within one with room has room.                                    *)
LEMMA Fewer ==
  ASSUME NEW S, NEW T \in SUBSET S, IsFiniteSet(S), Cardinality(S) <= PerEndpoint
  PROVE  Cardinality(T) <= PerEndpoint
<1>1. Cardinality(T) <= Cardinality(S) /\ Cardinality(S) \in Nat /\ Cardinality(T) \in Nat
  BY FS_Subset, FS_CardinalityType
<1> QED
  BY <1>1, DeliveryAssumption

(* Steps in which deliveries are due no more, and claims end: nothing      *)
(* joins.                                                                  *)
Leaving ==
  /\ Due' \subseteq Due
  /\ \A d \in Deliveries : ahead'[d] = IF d \in Due' THEN ahead[d] \cap Due' ELSE {}
  /\ \A w \in Deliverers : window'[w].ids = window[w].ids \/ window'[w].ids = {}
  /\ \A d \in Deliveries : status'[d] \in {"none", "writing"} => status[d] \in {"none", "writing"}

(* What is left keeps its order, and a claim saw what came before what it  *)
(* would take.                                                             *)
LEMMA LeavingOrdered ==
  ASSUME Typed, Typed', DueInOrder, FirstSeen, Leaving
  PROVE  DueInOrder' /\ FirstSeen'
<1>1. DueInOrder'
  <2>1. \A d \in Deliveries : /\ ahead'[d] \subseteq Due' /\ d \notin ahead'[d]
                              /\ d \notin Due' => ahead'[d] = {}
    BY DEF Leaving, DueInOrder
  <2>2. ASSUME NEW d \in Due', NEW e \in Due', d # e
        PROVE  d \in ahead'[e] \/ e \in ahead'[d]
    <3>1. d \in Due /\ e \in Due /\ d \in Deliveries /\ e \in Deliveries
      BY DEF Leaving, Due
    <3>2. d \in ahead[e] \/ e \in ahead[d]
      BY <2>2, <3>1 DEF DueInOrder
    <3>3. ahead'[d] = ahead[d] \cap Due' /\ ahead'[e] = ahead[e] \cap Due'
      BY <3>1 DEF Leaving
    <3> QED
      BY <3>2, <3>3
  <2>3. ASSUME NEW d \in Deliveries, NEW e \in ahead'[d]
        PROVE  ahead'[e] \subseteq ahead'[d]
    <3>1. d \in Due' /\ e \in Due' /\ e \in Deliveries
      BY <2>1 DEF Due
    <3>2. ahead'[d] = ahead[d] \cap Due' /\ ahead'[e] = ahead[e] \cap Due'
      BY <3>1 DEF Leaving
    <3> QED
      BY <3>2 DEF DueInOrder
  <2> QED
    BY <2>1, <2>2, <2>3 DEF DueInOrder
<1>2. FirstSeen'
  <2> SUFFICES ASSUME NEW w \in Deliverers
               PROVE  /\ \A d \in window'[w].ids : status'[d] \notin {"none", "writing"}
                      /\ \A d \in Taken(w)' : ahead'[d] \subseteq window'[w].ids
    BY DEF FirstSeen
  <2>1. \A d \in window'[w].ids : status'[d] \notin {"none", "writing"}
    BY DEF Leaving, FirstSeen, Typed
  <2>2. ASSUME NEW d \in Taken(w)'
        PROVE  ahead'[d] \subseteq window'[w].ids
    <3>1. d \in Taken(w) /\ window'[w].ids = window[w].ids /\ d \in Deliveries
      BY DEF Leaving, Taken, Due
    <3>2. ahead[d] \subseteq window[w].ids
      BY <3>1 DEF FirstSeen
    <3> QED
      BY <3>1, <3>2 DEF Leaving
  <2> QED
    BY <2>1, <2>2
<1> QED
  BY <1>1, <1>2

(* If fewer are in flight, too, there is as much room.                     *)
LEMMA LeavingKept ==
  ASSUME Typed, Typed', Ranks, Leaving, Leased' \subseteq Leased
  PROVE  Ranks'
<1>1. IsFiniteSet(InPlay) /\ DueInOrder /\ FirstSeen /\ RoomLeft
  BY DEF Ranks
<1>2. InPlay = Due \cup Leased /\ InPlay' = Due' \cup Leased'
  BY DEF InPlay, Due, Leased
<1>3. IsFiniteSet(InPlay')
  BY <1>1, <1>2, FS_Subset DEF Leaving
<1>4. RoomLeft'
  <2>1. ASSUME NEW S \in SUBSET InPlay, NEW T \in SUBSET S, Cardinality(S) <= PerEndpoint
        PROVE  Cardinality(T) <= PerEndpoint
    BY <1>1, <2>1, Fewer, FS_Subset
  <2>2. Cardinality(Leased') <= PerEndpoint
    BY <1>1, <1>2, <2>1 DEF RoomLeft
  <2>3. ASSUME NEW w \in Deliverers
        PROVE  Cardinality(Leased' \cup Taken(w)') <= PerEndpoint
    <3>1. Leased' \cup Taken(w)' \subseteq Leased \cup Taken(w)
      BY DEF Leaving, Taken
    <3>2. Cardinality(Leased \cup Taken(w)) <= PerEndpoint
      BY <1>1 DEF RoomLeft
    <3>3. Leased \cup Taken(w) \subseteq InPlay
      BY <1>2 DEF Taken
    <3> QED
      BY <2>1, <3>1, <3>2, <3>3
  <2> QED
    BY <2>2, <2>3 DEF RoomLeft
<1> QED
  BY <1>1, <1>3, <1>4, LeavingOrdered DEF Ranks

(* A delivery falls due, last of all, and no claim under way saw it.       *)
Joining(d) ==
  /\ status[d] \in {"writing", "waiting", "leased"} /\ status' = [status EXCEPT ![d] = "due"]
  /\ JoinsLast(d)
  /\ \A w \in Deliverers : window'[w].ids = window[w].ids \ {d}

(* What falls due last takes no room from a claim under way (JoinsLast).   *)
LEMMA JoiningKept ==
  ASSUME Typed, Typed', Ranks, NEW d \in Deliveries, Joining(d)
  PROVE  Ranks'
<1>1. IsFiniteSet(InPlay) /\ DueInOrder /\ FirstSeen /\ RoomLeft
  BY DEF Ranks
<1>2. InPlay = Due \cup Leased /\ InPlay' = Due' \cup Leased'
  BY DEF InPlay, Due, Leased
<1>3. Due' = Due \cup {d} /\ d \notin Due /\ Leased' = Leased \ {d}
  BY DEF Joining, Due, Leased, Typed
<1>4. \A e \in Deliveries : ahead'[e] = IF e = d THEN Due ELSE ahead[e]
  BY DEF Joining, JoinsLast, Typed
<1>5. IsFiniteSet(InPlay')
  <2>1. InPlay' \subseteq InPlay \cup {d}
    BY <1>2, <1>3
  <2> QED
    BY <1>1, <2>1, FS_AddElement, FS_Subset
<1>6. DueInOrder'
  <2>1. Due \subseteq Deliveries
    BY DEF Due
  <2>2. \A e \in Deliveries : /\ ahead'[e] \subseteq Due' /\ e \notin ahead'[e]
                              /\ e \notin Due' => ahead'[e] = {}
    BY <1>1, <1>3, <1>4 DEF DueInOrder
  <2>3. \A e, g \in Due' : e = g \/ e \in ahead'[g] \/ g \in ahead'[e]
    BY <1>1, <1>3, <1>4, <2>1 DEF DueInOrder
  <2>4. \A e \in Deliveries : \A g \in ahead'[e] : ahead'[g] \subseteq ahead'[e]
    BY <1>1, <1>3, <1>4, <2>1 DEF DueInOrder
  <2> QED
    BY <2>2, <2>3, <2>4 DEF DueInOrder
<1>7. \A w \in Deliverers : Taken(w)' = Taken(w)
  BY <1>3 DEF Joining, Taken
<1>8. FirstSeen'
  <2> SUFFICES ASSUME NEW w \in Deliverers
               PROVE  /\ \A e \in window'[w].ids : status'[e] \notin {"none", "writing"}
                      /\ \A e \in Taken(w)' : ahead'[e] \subseteq window'[w].ids
    BY DEF FirstSeen
  <2>1. \A e \in window'[w].ids : status'[e] \notin {"none", "writing"}
    BY <1>1 DEF Joining, FirstSeen, Typed
  <2>2. ASSUME NEW e \in Taken(w)
        PROVE  ahead'[e] \subseteq window'[w].ids
    <3>1. e \in Due /\ e # d /\ e \in Deliveries /\ d \notin ahead[e]
      BY <1>1, <1>3 DEF Taken, Due, DueInOrder
    <3> QED
      BY <1>1, <1>4, <3>1 DEF FirstSeen, Joining
  <2> QED
    BY <1>7, <2>1, <2>2
<1>9. RoomLeft'
  <2>1. ASSUME NEW S \in SUBSET InPlay, NEW T \in SUBSET S, Cardinality(S) <= PerEndpoint
        PROVE  Cardinality(T) <= PerEndpoint
    BY <1>1, <2>1, Fewer, FS_Subset
  <2>2. \A w \in Deliverers : /\ Leased \cup Taken(w) \subseteq InPlay
                              /\ Leased' \cup Taken(w)' \subseteq Leased \cup Taken(w)
    BY <1>2, <1>3, <1>7 DEF Taken
  <2> QED
    BY <1>1, <1>2, <1>3, <2>1, <2>2 DEF RoomLeft
<1> QED
  BY <1>5, <1>6, <1>8, <1>9 DEF Ranks

(* claimDue's snapshot: those with room come first, and there are no more  *)
(* of them than there is room.                                             *)
LEMMA RankKept ==
  ASSUME Typed, Typed', Ranks, NEW w \in Deliverers, RankDue(w)
  PROVE  Ranks'
<1>1. IsFiniteSet(InPlay) /\ DueInOrder /\ FirstSeen /\ RoomLeft
  BY DEF Ranks
<1>2. UNCHANGED <<status, ahead>> /\ Due' = Due /\ Leased' = Leased /\ InPlay' = InPlay
  BY DEF RankDue, rowVars, Due, Leased, InPlay
<1>3. \A v \in Deliverers \ {w} : window'[v] = window[v]
  BY DEF RankDue, Typed
<1> DEFINE S == {d \in Due : RankedFirst(d)}
<1>4. window'[w].ids \in {{}, S}
  BY DEF RankDue, Typed
<1>5. /\ IsFiniteSet(Due) /\ IsFiniteSet(Leased) /\ Cardinality(Leased) \in Nat
      /\ Due \subseteq Deliveries
  <2>1. Due \subseteq InPlay /\ Leased \subseteq InPlay /\ Due \subseteq Deliveries
    BY DEF Due, Leased, InPlay
  <2> QED
    BY <1>1, <2>1, FS_Subset, FS_CardinalityType
<1>6. \A d \in Deliveries : IsFiniteSet(ahead[d]) /\ Cardinality(ahead[d]) \in Nat
  BY <1>1, <1>5, FS_Subset, FS_CardinalityType DEF DueInOrder
<1>7. ASSUME NEW d \in S
      PROVE  ahead[d] \subseteq S
  <2> SUFFICES ASSUME NEW e \in ahead[d]
               PROVE  e \in S
    OBVIOUS
  <2>1. d \in Deliveries /\ e \in Due /\ e \in Deliveries /\ ahead[e] \subseteq ahead[d]
    BY <1>1, <1>5 DEF DueInOrder
  <2>2. Cardinality(ahead[e]) <= Cardinality(ahead[d])
    BY <1>6, <2>1, FS_Subset
  <2>3. Cardinality(Leased) + Cardinality(ahead[d]) < PerEndpoint
    BY DEF RankedFirst
  <2>4. Cardinality(Leased) + Cardinality(ahead[e]) < PerEndpoint
    BY <1>5, <1>6, <2>1, <2>2, <2>3, DeliveryAssumption
  <2> QED
    BY <2>1, <2>4 DEF RankedFirst
<1>8. Cardinality(Leased \cup S) <= PerEndpoint
  <2>1. PerEndpoint - Cardinality(Leased) \in Nat
    BY <1>1, <1>5, DeliveryAssumption DEF RoomLeft
  <2>2. \A d \in S : Cardinality(ahead[d]) < PerEndpoint - Cardinality(Leased)
    BY <1>5, <1>6, DeliveryAssumption DEF RankedFirst
  <2>3. Cardinality(S) <= PerEndpoint - Cardinality(Leased)
    <3> HIDE DEF S
    <3>1. S \in SUBSET Due
      BY DEF S
    <3> QED
      BY <1>1, <1>5, <2>1, <2>2, <3>1, FewAhead
  <2>4. IsFiniteSet(S)
    BY <1>5, FS_Subset
  <2> HIDE DEF S
  <2>5. /\ Cardinality(Leased \cup S) = Cardinality(Leased) + Cardinality(S) - Cardinality(Leased \cap S)
        /\ Cardinality(S) \in Nat /\ Cardinality(Leased \cap S) \in Nat
    BY <1>5, <2>4, FS_Union, FS_Intersection, FS_CardinalityType
  <2> QED
    BY <1>5, <2>3, <2>5, DeliveryAssumption
<1>9. FirstSeen'
  <2>1. \A v \in Deliverers \ {w} : Taken(v)' = Taken(v)
    BY <1>2, <1>3 DEF Taken
  <2>2. \A d \in window'[w].ids : status'[d] \notin {"none", "writing"} /\ ahead'[d] \subseteq window'[w].ids
    BY <1>2, <1>4, <1>7 DEF Due
  <2> QED
    BY <1>1, <1>2, <1>3, <2>1, <2>2 DEF FirstSeen, Taken
<1>10. RoomLeft'
  <2>1. Taken(w)' \in {{}, S}
    BY <1>2, <1>4 DEF Taken
  <2>2. \A v \in Deliverers \ {w} : Taken(v)' = Taken(v)
    BY <1>2, <1>3 DEF Taken
  <2> QED
    BY <1>1, <1>2, <1>8, <2>1, <2>2 DEF RoomLeft
<1>11. DueInOrder'
  BY <1>1, <1>2 DEF DueInOrder
<1> QED
  BY <1>1, <1>2, <1>9, <1>10, <1>11 DEF Ranks

(* claimDue's update: of two claims one has seen all that the other has,   *)
(* so what one takes only uses up room the other counted, too.             *)
LEMMA TakeRanks ==
  ASSUME Typed, Typed', Ranks, NEW w \in Deliverers, TakeDue(w)
  PROVE  Ranks'
<1>1. IsFiniteSet(InPlay) /\ DueInOrder /\ FirstSeen /\ RoomLeft
  BY DEF Ranks
<1>2. Taken(w) \subseteq Due /\ Due \subseteq Deliveries
  BY DEF Taken, Due
<1>3. \A d \in Deliveries : status'[d] = IF d \in Taken(w) THEN "leased" ELSE status[d]
  BY DEF TakeDue
<1>4. /\ Due' = Due \ Taken(w) /\ Leased' = Leased \cup Taken(w) /\ InPlay' = InPlay
  BY <1>2, <1>3 DEF Due, Leased, InPlay
<1>5. /\ \A v \in Deliverers \ {w} : window'[v] = window[v]
      /\ window'[w].ids = {}
  BY DEF TakeDue, Unseen, Typed
<1>6. Leaving
  <2>1. \A d \in Deliveries : ahead'[d] = IF d \in Due' THEN ahead[d] \cap Due' ELSE {}
    <3> SUFFICES ASSUME NEW d \in Deliveries
                 PROVE  ahead'[d] = IF d \in Due' THEN ahead[d] \cap Due' ELSE {}
      OBVIOUS
    <3>1. ahead'[d] = IF d \in Taken(w) THEN {} ELSE ahead[d] \ Taken(w)
      BY DEF TakeDue, Leave
    <3>2. ahead[d] \subseteq Due /\ (d \notin Due => ahead[d] = {})
      BY <1>1 DEF DueInOrder
    <3> QED
      BY <1>4, <3>1, <3>2
  <2>2. Due' \subseteq Due
    BY <1>4
  <2>3. \A d \in Deliveries : status'[d] \in {"none", "writing"} => status[d] \in {"none", "writing"}
    BY <1>3
  <2> QED
    BY <1>5, <2>1, <2>2, <2>3 DEF Leaving
<1>7. RoomLeft'
  <2>1. Cardinality(Leased') <= PerEndpoint
    BY <1>1, <1>4 DEF RoomLeft
  <2>2. ASSUME NEW v \in Deliverers \ {w}
        PROVE  Cardinality(Leased' \cup Taken(v)') <= PerEndpoint
    <3>1. Taken(v)' = Taken(v) \ Taken(w)
      BY <1>4, <1>5 DEF Taken
    <3>2. \A u \in Deliverers : \A d \in Taken(u) : ahead[d] \subseteq Taken(u)
      BY <1>1, <1>2 DEF FirstSeen, DueInOrder, Taken
    <3>3. Taken(v) \subseteq Taken(w) \/ Taken(w) \subseteq Taken(v)
      <4> SUFFICES ASSUME NEW a \in Taken(v), a \notin Taken(w), NEW b \in Taken(w), b \notin Taken(v)
                   PROVE  FALSE
        OBVIOUS
      <4>1. a \in ahead[b] \/ b \in ahead[a]
        BY <1>1 DEF DueInOrder, Taken
      <4> QED
        BY <3>2, <4>1
    <3>4. Leased' \cup Taken(v)' \in {Leased \cup Taken(v), Leased \cup Taken(w)}
      BY <1>4, <3>1, <3>3
    <3> QED
      BY <1>1, <3>4 DEF RoomLeft
  <2>3. Taken(w)' = {}
    BY <1>5 DEF Taken
  <2> QED
    BY <2>1, <2>2, <2>3 DEF RoomLeft
<1> QED
  BY <1>1, <1>4, <1>6, <1>7, LeavingOrdered DEF Ranks

(* Steps that neither rank, take nor make due leave the rest in order.     *)
LEMMA LeavesOrdered ==
  ASSUME Typed, DueInOrder, [Next]_vars,
         ~\E w \in Deliverers : RankDue(w) \/ TakeDue(w),
         ~\E d \in Deliveries : Enqueue(d) \/ RetryFallsDue(d) \/ LeaseLapses(d) \/ Stall(d)
  PROVE  Leaving /\ Leased' \subseteq Leased
<1> USE DEF Typed
<1>0. \A d \in Deliveries : ahead[d] \subseteq Due /\ (d \notin Due => ahead[d] = {})
  BY DEF DueInOrder
<1>1. ASSUME UNCHANGED <<status, ahead>>,
             \A w \in Deliverers : window'[w].ids = window[w].ids \/ window'[w].ids = {}
      PROVE  Leaving /\ Leased' \subseteq Leased
  BY <1>0, <1>1 DEF Leaving, Due, Leased
<1>2. ASSUME NEW gone \in SUBSET Deliveries, Leave(gone), window' = window,
             \A d \in Deliveries \ gone : status'[d] = status[d],
             \A d \in gone : status'[d] \notin {"due", "leased", "none", "writing"}
      PROVE  Leaving /\ Leased' \subseteq Leased
  <2>1. Due' = Due \ gone /\ Leased' = Leased \ gone
    BY <1>2 DEF Due, Leased
  <2>2. \A d \in Deliveries : ahead'[d] = IF d \in gone THEN {} ELSE ahead[d] \ gone
    BY <1>2 DEF Leave
  <2>3. \A d \in Deliveries : ahead'[d] = IF d \in Due' THEN ahead[d] \cap Due' ELSE {}
    BY <1>0, <2>1, <2>2
  <2> QED
    BY <1>2, <2>1, <2>3 DEF Leaving
<1>3. ASSUME UNCHANGED <<ahead, window>>, NEW d \in Deliveries,
             status[d] \in Final \cup {"none"},
             status[d] = "none" \/ status'[d] = "gone", status'[d] \in {"writing", "gone"},
             \A e \in Deliveries \ {d} : status'[e] = status[e]
      PROVE  Leaving /\ Leased' \subseteq Leased
  <2>1. Due' = Due /\ Leased' = Leased
    BY <1>3 DEF Due, Leased, Final
  <2> QED
    BY <1>0, <1>3, <2>1 DEF Leaving
<1>4. CASE UNCHANGED vars \/ Save \/ KeyChanges \/ RotateSecret \/ OverlapEnds
  BY <1>1, <1>4 DEF vars, rowVars, jobVars, Save, KeyChanges, RotateSecret, OverlapEnds
<1>5. CASE Remove
  <2>1. \A d \in Deliveries : status'[d] = IF status[d] \in Pending THEN "gone" ELSE status[d]
    BY <1>5 DEF Remove
  <2>2. Leave(Due) /\ window' = window
    BY <1>5 DEF Remove, jobVars
  <2>3. Due' = {} /\ Leased' = {} /\ \A d \in Deliveries : ahead'[d] = {}
    <3>1. \A d \in Deliveries : ahead'[d] = {}
      BY <1>0, <2>2 DEF Leave
    <3>2. \A d \in Deliveries : status'[d] \notin {"due", "leased"}
      BY <2>1 DEF Pending
    <3> QED
      BY <3>1, <3>2 DEF Due, Leased
  <2> QED
    BY <2>1, <2>2, <2>3 DEF Leaving
<1>6. ASSUME NEW d \in Deliveries, FindEndpoint(d) \/ Prune(d)
      PROVE  Leaving /\ Leased' \subseteq Leased
  BY <1>3, <1>6 DEF FindEndpoint, Prune, jobVars
<1>7. ASSUME NEW w \in Deliverers, Sleep(w) \/ Wake(w) \/ Listen(w) \/ ListenLost(w)
      PROVE  Leaving /\ Leased' \subseteq Leased
  BY <1>1, <1>7 DEF Sleep, Wake, Listen, ListenLost, rowVars
<1>8. ASSUME NEW w \in Deliverers, RunFails(w) \/ Crash(w)
      PROVE  Leaving /\ Leased' \subseteq Leased
  <2>1. window' = [window EXCEPT ![w] = Unseen] /\ UNCHANGED <<status, ahead>>
    BY <1>8 DEF RunFails, Crash, rowVars
  <2> QED
    BY <1>1, <2>1 DEF Unseen
<1>9. ASSUME NEW w \in Deliverers, NEW d \in Deliveries,
             SendTaken(w, d) \/ SendRefused(w, d) \/ SendUnheard(w, d) \/ RecordFails(w, d)
      PROVE  Leaving /\ Leased' \subseteq Leased
  BY <1>1, <1>9 DEF SendTaken, SendRefused, SendUnheard, RecordFails, rowVars
<1>10. ASSUME NEW w \in Deliverers, NEW d \in Deliveries, RecordAttempt(w, d)
       PROVE  Leaving /\ Leased' \subseteq Leased
  <2>1. CASE ~StillClaimed(w, d)
    BY <1>1, <1>10, <2>1 DEF RecordAttempt
  <2>2. CASE StillClaimed(w, d)
    <3>1. status' = [status EXCEPT ![d] = OutcomeOf(w, d)] /\ Leave({d}) /\ window' = window
      BY <1>10, <2>2 DEF RecordAttempt
    <3>2. OutcomeOf(w, d) \notin {"due", "leased", "none", "writing"}
      BY DEF OutcomeOf
    <3> QED
      BY <1>2, <3>1, <3>2
  <2> QED
    BY <2>1, <2>2
<1> QED
  BY <1>4, <1>5, <1>6, <1>7, <1>8, <1>9, <1>10 DEF Next, Administer, Deliver, Disturb

(* Every step keeps order and room, where deliveries fall due in order.    *)
LEMMA RanksStep ==
  ASSUME LateCommits = FALSE, Typed, Typed', Ranks, [Next]_vars
  PROVE  Ranks'
<1>1. ASSUME NEW d \in Deliveries, Enqueue(d)
      PROVE  Joining(d)
  <2>1. JoinsLast(d) /\ status[d] = "writing" /\ status' = [status EXCEPT ![d] = "due"] /\ window' = window
    BY <1>1 DEF Enqueue
  <2>2. \A w \in Deliverers : d \notin window[w].ids
    BY <2>1 DEF Ranks, FirstSeen
  <2> QED
    BY <2>1, <2>2 DEF Joining
<1>2. ASSUME NEW d \in Deliveries, RetryFallsDue(d) \/ LeaseLapses(d) \/ Stall(d)
      PROVE  Joining(d)
  BY <1>2 DEF RetryFallsDue, LeaseLapses, Stall, FallsDue, Joining, Typed
<1> QED
  BY <1>1, <1>2, JoiningKept, RankKept, TakeRanks, LeavesOrdered, LeavingKept DEF Ranks

----------------------------------------------------------------------------
(* The theorems.                                                           *)

(* The inductive invariant holds of every behaviour.                       *)
THEOREM Invariance == Spec => []IInv
<1>1. IInv /\ [Next]_vars => IInv'
  BY Inductive
<1> QED
  BY <1>1, AtFirst, PTL DEF Spec

(* The types and their bounds: attempts and claims stay within what a      *)
(* delivery has and the faults (MaxWebhookAttempts).                       *)
THEOREM TypeCorrect == Spec => []TypeOK
<1>1. IInv => TypeOK
  <2> SUFFICES ASSUME IInv
               PROVE  TypeOK
    OBVIOUS
  <2>1. \A d \in Deliveries : attempts[d] \in 0 .. MaxAttempts /\ stamp[d] \in 0 .. MaxAttempts + MaxFaults
    BY DeliveryAssumption DEF IInv, Core, Typed, AttemptsLeft
  <2>2. faults \in 0 .. MaxFaults
    BY DeliveryAssumption DEF IInv, Typed
  <2>3. \A w \in Deliverers, d \in Deliveries : claims[w][d] \in Claims
    <3> SUFFICES ASSUME NEW w \in Deliverers, NEW d \in Deliveries
                 PROVE  claims[w][d] \in Claims
      OBVIOUS
    <3>1. /\ claims[w][d] \in AnyClaims /\ claims[w][d].stamp \in Nat /\ claims[w][d].attempts \in Nat
          /\ claims[w][d].stamp <= stamp[d] /\ claims[w][d].attempts <= attempts[d]
      BY DEF IInv, Core, Typed, ClaimsPast, AnyClaims
    <3>2. /\ claims[w][d].stamp \in 0 .. MaxAttempts + MaxFaults
          /\ claims[w][d].attempts \in 0 .. MaxAttempts
      BY <2>1, <3>1, DeliveryAssumption
    <3> QED
      BY <3>1, <3>2 DEF AnyClaims, Claims, ClaimStates
  <2> QED
    BY <2>1, <2>2, <2>3 DEF IInv, Typed, TypeOK
<1> QED
  BY <1>1, Invariance, PTL

(* No delivery is claimed for ever, whatever fails and whether or not its  *)
(* secret opens (claimDue).                                                *)
THEOREM ClaimsEnd == Spec => []ClaimsRunOut
<1>1. IInv => ClaimsRunOut
  BY DEF IInv, Core, ClaimsCounted, AttemptsLeft, ClaimsRunOut
<1> QED
  BY <1>1, Invariance, PTL

(* Only who holds a delivery's lease records its attempt (recordAttempt):  *)
(* by OneHolder there is one, and a stale claim does not match the row.    *)
THEOREM LateOutcomeDropped == Spec => HolderDecides
<1>1. ASSUME IInv, [Next]_vars, NEW w \in Deliverers, NEW d \in Deliveries,
             Holds(w, d), claims'[w][d] = claims[w][d]
      PROVE  attempts'[d] = attempts[d]
  <2>1. ASSUME NEW v \in Deliverers, NEW e \in Deliveries, RecordAttempt(v, e)
        PROVE  attempts'[d] = attempts[d]
    <3>0. attempts \in [Deliveries -> Nat] /\ claims \in [Deliverers -> [Deliveries -> AnyClaims]]
      BY <1>1 DEF IInv, Typed
    <3>1. CASE e # d \/ ~StillClaimed(v, e)
      <4>1. attempts' \in {attempts, [attempts EXCEPT ![e] = attempts[e] + 1]}
        BY <2>1 DEF RecordAttempt
      <4>2. ~StillClaimed(v, e) => attempts' = attempts
        BY <2>1 DEF RecordAttempt
      <4> QED
        BY <3>0, <3>1, <4>1, <4>2
    <3>2. CASE e = d /\ StillClaimed(v, e)
      <4>1. Holds(v, d)
        BY <2>1, <3>2 DEF StillClaimed, Holds, RecordAttempt
      <4>2. v = w
        BY <1>1, <4>1 DEF IInv, Core, OneHolder
      <4>3. claims'[w][d] = NoClaim
        BY <2>1, <3>0, <3>2, <4>2 DEF RecordAttempt, Forget
      <4> QED
        BY <1>1, <4>3 DEF Holds, NoClaim
    <3> QED
      BY <3>1, <3>2
  <2>2. (\E v \in Deliverers, e \in Deliveries : RecordAttempt(v, e)) \/ attempts' = attempts
    BY <1>1 DEF Next, Administer, Save, Remove, KeyChanges, RotateSecret, OverlapEnds,
                FindEndpoint, Enqueue, Prune, RetryFallsDue, LeaseLapses, Stall, FallsDue,
                Deliver, RankDue, TakeDue, Sleep, Wake, Listen, SendTaken, SendRefused,
                Disturb, RunFails, ListenLost, Crash, SendUnheard, RecordFails, vars, rowVars
  <2> QED
    BY <2>1, <2>2
<1>2. IInv /\ [Next]_vars =>
        [\A w \in Deliverers, d \in Deliveries :
           Holds(w, d) /\ claims'[w][d] = claims[w][d] => attempts'[d] = attempts[d]]_vars
  BY <1>1
<1> QED
  BY <1>2, Invariance, PTL DEF Spec, HolderDecides

(* Attempts are counted and decided by who holds the delivery: a late      *)
(* outcome changes nothing, and the claims run out (recordAttempt, Claim). *)
THEOREM AttemptsCounted == Spec => AttemptsHold
  BY ClaimsEnd, LateOutcomeDropped, PTL DEF AttemptsHold

(* What is recorded of a delivery happened: it was taken at least once and *)
(* again only as often as something failed, or, if it failed, not taken    *)
(* but for lost answers and lapsed leases (recordAttempt, claimDue).       *)
THEOREM OutcomesHonest == Spec => []OutcomeHonest
<1>1. ASSUME Init
      PROVE  TakesPaid /\ TakenReceived
  <2>1. \A w \in Deliverers, d \in Deliveries : claims[w][d].state = "none"
    BY <1>1 DEF Init, Empty, NoClaim
  <2>2. ASSUME NEW d \in Deliveries
        PROVE  Paid(d)
    <3>1. Loose(d) = {} /\ ~Excused(d) /\ received[d] = 0 /\ faults = 0
      BY <1>1, <2>1 DEF Init, Loose, Excused
    <3> QED
      BY <3>1, FS_EmptySet DEF Paid
  <2> QED
    BY <1>1, <2>1, <2>2 DEF Init, TakesPaid, TakenReceived
<1>2. ASSUME IInv, IInv', TakesPaid, [Next]_vars
      PROVE  TakesPaid'
  BY <1>2, PaidStep, GoneForGood DEF TakesPaid, IInv
<1>3. ASSUME IInv, TakesPaid, TakenReceived
      PROVE  OutcomeHonest
  <2> SUFFICES ASSUME NEW d \in Deliveries
               PROVE  /\ status[d] = "delivered" => received[d] \in 1 .. 1 + faults
                      /\ status[d] = "failed" => received[d] <= faults
    BY DEF OutcomeHonest
  <2>1. received[d] \in Nat /\ faults \in Nat
    BY <1>3 DEF IInv, Typed
  <2>2. CASE status[d] = "delivered"
    <3>1. /\ received[d] + Cardinality(Loose(d)) <= faults + 1
          /\ IsFiniteSet(Loose(d)) /\ received[d] >= 1
      BY <1>3, <2>2 DEF TakesPaid, Paid, Excused, TakenReceived
    <3>2. Cardinality(Loose(d)) \in Nat
      BY <3>1, FS_CardinalityType
    <3> QED
      BY <2>1, <2>2, <3>1, <3>2
  <2>3. CASE status[d] = "failed"
    <3>1. received[d] + Cardinality(Loose(d)) <= faults + 0 /\ IsFiniteSet(Loose(d))
      BY <1>3, <2>3 DEF TakesPaid, Paid, Excused
    <3>2. Cardinality(Loose(d)) \in Nat
      BY <3>1, FS_CardinalityType
    <3> QED
      BY <2>1, <2>3, <3>1, <3>2
  <2> QED
    BY <2>2, <2>3
<1> QED
  BY <1>1, <1>2, <1>3, ReceivedStep, Invariance, PTL DEF Spec

(* However many replicas claim at once, an endpoint has at most            *)
(* perEndpoint deliveries in flight, as long as deliveries fall due in the *)
(* order they commit (claimDue).                                           *)
THEOREM NotFlooded == LateCommits = FALSE => (Spec => []EndpointNotFlooded)
<1> SUFFICES ASSUME LateCommits = FALSE
             PROVE  Spec => []EndpointNotFlooded
  OBVIOUS
<1>1. ASSUME Init
      PROVE  Ranks
  <2>1. Due = {} /\ Leased = {} /\ InPlay = {} /\ \A w \in Deliverers : window[w].ids = {}
    BY <1>1 DEF Init, Due, Leased, InPlay, Unseen
  <2>2. \A w \in Deliverers : Taken(w) = {}
    BY <2>1 DEF Taken
  <2>3. DueInOrder /\ FirstSeen
    BY <1>1, <2>1, <2>2 DEF Init, DueInOrder, FirstSeen
  <2>4. RoomLeft
    BY <2>1, <2>2, FS_EmptySet, DeliveryAssumption DEF RoomLeft
  <2> QED
    BY <2>1, <2>3, <2>4, FS_EmptySet DEF Ranks
<1>2. Ranks /\ IInv /\ IInv' /\ [Next]_vars => Ranks'
  BY RanksStep DEF IInv
<1>3. Ranks => EndpointNotFlooded
  BY DEF Ranks, RoomLeft, EndpointNotFlooded
<1> QED
  BY <1>1, <1>2, <1>3, Invariance, PTL DEF Spec
=============================================================================
