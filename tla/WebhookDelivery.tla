--------------------------- MODULE WebhookDelivery ---------------------------
(***************************************************************************)
(* The webhook outbox of one endpoint (backend/internal/proofing,          *)
(* webhook_store.go and webhook_deliverer.go): events written in the       *)
(* transaction of the change they report, claimed under a lease by the     *)
(* deliverer of any API replica, sent, and recorded, until the endpoint    *)
(* takes them or the attempts run out.                                     *)
(*                                                                         *)
(* A claim is one SQL statement, but two steps here: its snapshot, which   *)
(* ranks the due deliveries, and its update, which skips what another      *)
(* deliverer took in between.  Time is abstract: leases lapse, retries     *)
(* fall due and alarms go off in steps of their own; the order in which    *)
(* deliveries fell due (next_attempt_at) is kept.                          *)
(***************************************************************************)
EXTENDS Naturals, FiniteSets

CONSTANTS
  Deliverers,    \* the API replicas' deliverers
  Deliveries,    \* the events to be delivered
  PerEndpoint,   \* endpointWorkers: how many of an endpoint's are in flight
  MaxAttempts,   \* MaxWebhookAttempts
  LateCommits,   \* whether a change may commit long after it began
  Removals,      \* whether an admin removes the endpoint, and sets another
  MaxFaults      \* bound: crashes, stalls, lost answers, connections and keys,
                 \* statements that fail

ASSUME DeliveryAssumption ==
  /\ PerEndpoint \in Nat \ {0} /\ MaxAttempts \in Nat \ {0} /\ MaxFaults \in Nat
  /\ LateCommits \in BOOLEAN /\ Removals \in BOOLEAN

VARIABLES
  endpoint,  \* the endpoint: none, set, its secret sealed shut, or rotated since
  status,    \* each delivery's status, a pending one's as the clock sees it
  attempts,  \* attempts recorded of each delivery
  stamp,     \* next_attempt_at of a claim: which claim of the delivery is its last
  ahead,     \* the due deliveries with an earlier next_attempt_at
  pc,        \* where each deliverer is
  window,    \* what a deliverer's claim saw: ids ranked first, whether secrets open
  claims,    \* what each deliverer took and has not recorded
  listening, \* whether a deliverer's replica LISTENs
  wake,      \* a notification a deliverer has not seen
  alarm,     \* a sleeping deliverer set itself a time
  received,  \* how often the endpoint took each delivery
  faults     \* faults so far

rowVars == <<status, attempts, stamp, ahead>>
jobVars == <<pc, window, claims, listening, wake, alarm>>
vars    == <<endpoint, rowVars, jobVars, received, faults>>

(* due: next_attempt_at has passed; leased: leased_until has not; waiting: *)
(* its retry is still to come.                                             *)
Pending == {"due", "leased", "waiting"}
Final   == {"delivered", "failed"}
Status  == {"none", "writing", "gone"} \cup Pending \cup Final

Endpoints == {"none", "set", "sealed", "overlap"}

(* A claim: unsent, taken by the endpoint, refused, or shut (its secret    *)
(* does not open); with what recordAttempt compares.                       *)
NoClaim == [state |-> "none", attempts |-> 0, stamp |-> 0]
Empty   == [d \in Deliveries |-> NoClaim]

Unseen == [ids |-> {}, opens |-> TRUE]

Due == {d \in Deliveries : status[d] = "due"}

----------------------------------------------------------------------------
(* The order of the due deliveries.                                        *)

(* d falls due now: after all that are due already.                        *)
JoinsLast(d) == ahead' = [ahead EXCEPT ![d] = Due]

(* d is written with the time its transaction began, which may lie before  *)
(* that of deliveries due already.                                         *)
JoinsAt(d, front) ==
  ahead' = [e \in Deliveries |-> IF e = d THEN front
                                 ELSE IF e \in Due \ front THEN ahead[e] \cup {d}
                                 ELSE ahead[e]]

(* The deliveries of gone are not due any more.                            *)
Leave(gone) ==
  ahead' = [e \in Deliveries |-> IF e \in gone THEN {} ELSE ahead[e] \ gone]

----------------------------------------------------------------------------
(* The endpoint.                                                           *)

(* WebhookStore.Save of a new endpoint, with a fresh secret; of an         *)
(* existing one it changes nothing modelled here.                          *)
Save ==
  /\ endpoint = "none"
  /\ endpoint' = "set"
  /\ UNCHANGED <<rowVars, jobVars, received, faults>>

(* Remove deletes the endpoint and every delivery waiting for it.          *)
Remove ==
  /\ Removals /\ endpoint # "none"
  /\ endpoint' = "none"
  /\ status' = [d \in Deliveries |-> IF status[d] \in Pending THEN "gone" ELSE status[d]]
  /\ Leave(Due)
  /\ UNCHANGED <<attempts, stamp, jobVars, received, faults>>

(* The encryption key changed: the endpoint's secret does not open.        *)
KeyChanges ==
  /\ endpoint = "set" /\ faults < MaxFaults
  /\ endpoint' = "sealed"
  /\ faults' = faults + 1
  /\ UNCHANGED <<rowVars, jobVars, received>>

(* RotateSecret: the new secret opens.  The one it replaces still signs    *)
(* too for a while (the overlap), and must open as well.                   *)
RotateSecret ==
  /\ endpoint # "none"
  /\ endpoint' = IF endpoint = "sealed" THEN "overlap" ELSE "set"
  /\ UNCHANGED <<rowVars, jobVars, received, faults>>

OverlapEnds ==
  /\ endpoint = "overlap"
  /\ endpoint' = "set"
  /\ UNCHANGED <<rowVars, jobVars, received, faults>>

----------------------------------------------------------------------------
(* Writing an event (enqueueWebhook).                                      *)

(* The transaction of the change finds the endpoint ...                    *)
FindEndpoint(d) ==
  /\ status[d] = "none" /\ endpoint # "none"
  /\ status' = [status EXCEPT ![d] = "writing"]
  /\ UNCHANGED <<endpoint, attempts, stamp, ahead, jobVars, received, faults>>

(* ... and commits the delivery and the notification.  One that never      *)
(* does is rolled back.                                                    *)
Enqueue(d) ==
  /\ status[d] = "writing"
  /\ status' = [status EXCEPT ![d] = "due"]
  /\ \/ JoinsLast(d)
     \/ LateCommits /\ \E e \in Due : JoinsAt(d, ahead[e])
  /\ wake' = [w \in Deliverers |-> wake[w] \/ listening[w]]
  /\ UNCHANGED <<endpoint, attempts, stamp, pc, window, claims, listening, alarm, received, faults>>

----------------------------------------------------------------------------
(* The deliverer (Deliverer.Run): claim, send, record, then sleep.         *)

GoTo(w, place) == pc' = [pc EXCEPT ![w] = place]

Leased == {d \in Deliveries : status[d] = "leased"}

(* Mutant: the deliveries in flight are not counted.                       *)
RankedFirstAlone(d) == Cardinality(ahead[d]) < PerEndpoint

(* held.n + row_number() <= perEndpoint                                    *)
RankedFirst(d) == Cardinality(Leased) + Cardinality(ahead[d]) < PerEndpoint

(* Both secrets must open (openSecrets).                                   *)
Opens == endpoint \notin {"sealed", "overlap"}

(* claimDue's snapshot.  Without an endpoint nothing joins.                *)
RankDue(w) ==
  /\ pc[w] = "claim"
  /\ window' = [window EXCEPT ![w] =
                  [ids |-> IF endpoint = "none" THEN {} ELSE {d \in Due : RankedFirst(d)},
                   opens |-> Opens]]
  /\ GoTo(w, "take")
  /\ UNCHANGED <<endpoint, rowVars, claims, listening, wake, alarm, received, faults>>

(* Mutant: one that cannot be signed is left to its lease.                 *)
ClaimUnshut(w, d) == IF window[w].opens
                     THEN [state |-> "unsent", attempts |-> attempts[d], stamp |-> stamp[d] + 1]
                     ELSE NoClaim

Claim(w, d) == [state |-> IF window[w].opens THEN "unsent" ELSE "shut",
                attempts |-> attempts[d], stamp |-> stamp[d] + 1]

(* Mutant: what another deliverer took since is taken again.               *)
TakenAgain(w) == {d \in window[w].ids : status[d] \in Pending}

(* The update skips what another deliverer took since, or Remove dropped.  *)
Taken(w) == window[w].ids \cap Due

(* claimDue's update.                                                      *)
TakeDue(w) ==
  /\ pc[w] = "take"
  /\ LET taken == Taken(w) IN
     /\ status' = [d \in Deliveries |-> IF d \in taken THEN "leased" ELSE status[d]]
     /\ stamp' = [d \in Deliveries |-> IF d \in taken THEN stamp[d] + 1 ELSE stamp[d]]
     /\ claims' = [claims EXCEPT ![w] = [d \in Deliveries |->
                     IF d \in taken THEN Claim(w, d) ELSE NoClaim]]
     /\ Leave(taken)
  /\ window' = [window EXCEPT ![w] = Unseen]
  /\ GoTo(w, "send")
  /\ UNCHANGED <<endpoint, attempts, listening, wake, alarm, received, faults>>

Answered(w, d, state) == claims' = [claims EXCEPT ![w][d].state = state]

(* The endpoint takes the delivery with a 2xx ...                          *)
SendTaken(w, d) ==
  /\ claims[w][d].state = "unsent"
  /\ Answered(w, d, "taken")
  /\ received' = [received EXCEPT ![d] = @ + 1]
  /\ UNCHANGED <<endpoint, rowVars, pc, window, listening, wake, alarm, faults>>

(* ... refuses it, or is not reached ...                                   *)
SendRefused(w, d) ==
  /\ claims[w][d].state = "unsent"
  /\ Answered(w, d, "refused")
  /\ UNCHANGED <<endpoint, rowVars, pc, window, listening, wake, alarm, received, faults>>

(* ... or takes it and is not heard in time.                               *)
SendUnheard(w, d) ==
  /\ claims[w][d].state = "unsent" /\ faults < MaxFaults
  /\ Answered(w, d, "refused")
  /\ received' = [received EXCEPT ![d] = @ + 1]
  /\ faults' = faults + 1
  /\ UNCHANGED <<endpoint, rowVars, pc, window, listening, wake, alarm>>

(* Mutant: the lease a claim was made under is not compared.               *)
StillClaimedLoose(w, d) == status[d] \in Pending /\ attempts[d] = claims[w][d].attempts

(* recordAttempt's WHERE: nobody claimed the delivery since.               *)
StillClaimed(w, d) == /\ status[d] \in Pending
                      /\ attempts[d] = claims[w][d].attempts
                      /\ stamp[d] = claims[w][d].stamp

(* Mutant: one attempt too many.                                           *)
OutcomeOfMore(w, d) == IF claims[w][d].state = "taken" THEN "delivered"
                       ELSE IF claims[w][d].attempts + 1 <= MaxAttempts THEN "waiting" ELSE "failed"

(* Delivered, or another attempt after the back-off while one is left.     *)
OutcomeOf(w, d) == IF claims[w][d].state = "taken" THEN "delivered"
                   ELSE IF claims[w][d].attempts + 1 < MaxAttempts THEN "waiting" ELSE "failed"

Forget(w, d) == claims' = [claims EXCEPT ![w][d] = NoClaim]

(* An attempt's outcome, or that of a delivery that could not be signed.   *)
RecordAttempt(w, d) ==
  /\ claims[w][d].state \in {"taken", "refused", "shut"}
  /\ IF StillClaimed(w, d)
     THEN /\ status' = [status EXCEPT ![d] = OutcomeOf(w, d)]
          /\ attempts' = [attempts EXCEPT ![d] = @ + 1]
          /\ Leave({d})
     ELSE UNCHANGED <<status, attempts, ahead>>
  /\ Forget(w, d)
  /\ UNCHANGED <<endpoint, stamp, pc, window, listening, wake, alarm, received, faults>>

(* The outcome cannot be written; it is only logged.                       *)
RecordFails(w, d) ==
  /\ claims[w][d].state \in {"taken", "refused"} /\ faults < MaxFaults
  /\ Forget(w, d)
  /\ faults' = faults + 1
  /\ UNCHANGED <<endpoint, rowVars, pc, window, listening, wake, alarm, received>>

BatchDone(w) == claims[w] = Empty

(* Mutant: a leased delivery sets no alarm.                                *)
NextDueUnleased == endpoint # "none" /\ \E d \in Deliveries : status[d] \in {"due", "waiting"}

(* nextDue: a retry to come, one due, or a lease to lapse.                 *)
NextDue == endpoint # "none" /\ \E d \in Deliveries : status[d] \in Pending

(* The batch is sent and recorded; sleep until the next delivery falls due *)
(* or a notification comes (RunOnNotify).                                  *)
Sleep(w) ==
  /\ pc[w] = "send" /\ BatchDone(w)
  /\ alarm' = [alarm EXCEPT ![w] = NextDue]
  /\ GoTo(w, "asleep")
  /\ UNCHANGED <<endpoint, rowVars, window, claims, listening, wake, received, faults>>

(* A statement of the run fails: claiming, recording what could not be     *)
(* signed, or nextDue.  The batch is dropped, and the run tried again.     *)
RunFails(w) ==
  /\ faults < MaxFaults
  /\ \/ pc[w] \in {"claim", "take"}
     \/ \E d \in Deliveries : claims[w][d].state = "shut"
     \/ pc[w] = "send" /\ BatchDone(w)
  /\ claims' = [claims EXCEPT ![w] = Empty]
  /\ window' = [window EXCEPT ![w] = Unseen]
  /\ alarm' = [alarm EXCEPT ![w] = TRUE]
  /\ GoTo(w, "asleep")
  /\ faults' = faults + 1
  /\ UNCHANGED <<endpoint, rowVars, listening, wake, received>>

Wake(w) ==
  /\ pc[w] = "asleep"
  /\ \/ wake[w] /\ wake' = [wake EXCEPT ![w] = FALSE]
     \/ alarm[w] /\ UNCHANGED wake
  /\ alarm' = [alarm EXCEPT ![w] = FALSE]
  /\ GoTo(w, "claim")
  /\ UNCHANGED <<endpoint, rowVars, window, claims, listening, received, faults>>

(* LISTEN holds: the job is woken for anything missed before.              *)
Listen(w) ==
  /\ ~listening[w]
  /\ listening' = [listening EXCEPT ![w] = TRUE]
  /\ wake' = [wake EXCEPT ![w] = TRUE]
  /\ UNCHANGED <<endpoint, rowVars, pc, window, claims, alarm, received, faults>>

ListenLost(w) ==
  /\ listening[w] /\ faults < MaxFaults
  /\ listening' = [listening EXCEPT ![w] = FALSE]
  /\ faults' = faults + 1
  /\ UNCHANGED <<endpoint, rowVars, pc, window, claims, wake, alarm, received>>

(* The replica dies, and starts again.                                     *)
Crash(w) ==
  /\ faults < MaxFaults
  /\ GoTo(w, "claim")
  /\ window' = [window EXCEPT ![w] = Unseen]
  /\ claims' = [claims EXCEPT ![w] = Empty]
  /\ listening' = [listening EXCEPT ![w] = FALSE]
  /\ wake' = [wake EXCEPT ![w] = FALSE]
  /\ alarm' = [alarm EXCEPT ![w] = FALSE]
  /\ faults' = faults + 1
  /\ UNCHANGED <<endpoint, rowVars, received>>

----------------------------------------------------------------------------
(* Time.                                                                   *)

(* A claim under way does not find d due: its clock stood still.           *)
FallsDue(d) ==
  /\ status' = [status EXCEPT ![d] = "due"]
  /\ JoinsLast(d)
  /\ window' = [w \in Deliverers |-> [window[w] EXCEPT !.ids = @ \ {d}]]
  /\ UNCHANGED <<endpoint, attempts, stamp, pc, claims, listening, wake, alarm, received>>

(* The back-off is over.                                                   *)
RetryFallsDue(d) ==
  /\ status[d] = "waiting"
  /\ FallsDue(d)
  /\ UNCHANGED faults

Holds(w, d) == claims[w][d].state # "none" /\ claims[w][d].stamp = stamp[d]
InHand(d)   == \E w \in Deliverers : Holds(w, d)

(* The lease of a delivery nobody is sending any more lapses.  A batch is  *)
(* sent well inside its lease, so one that lapses in a deliverer's hands   *)
(* is a fault: a replica stalled for longer.                               *)
LeaseLapses(d) ==
  /\ status[d] = "leased" /\ ~InHand(d)
  /\ FallsDue(d)
  /\ UNCHANGED faults

Stall(d) ==
  /\ status[d] = "leased" /\ InHand(d) /\ faults < MaxFaults
  /\ FallsDue(d)
  /\ faults' = faults + 1

(* PruneDeliveries.                                                        *)
Prune(d) ==
  /\ status[d] \in Final
  /\ status' = [status EXCEPT ![d] = "gone"]
  /\ UNCHANGED <<endpoint, attempts, stamp, ahead, jobVars, received, faults>>

----------------------------------------------------------------------------
Init ==
  /\ endpoint = "set"
  /\ status = [d \in Deliveries |-> "none"]
  /\ attempts = [d \in Deliveries |-> 0]
  /\ stamp = [d \in Deliveries |-> 0]
  /\ ahead = [d \in Deliveries |-> {}]
  /\ pc = [w \in Deliverers |-> "claim"]
  /\ window = [w \in Deliverers |-> Unseen]
  /\ claims = [w \in Deliverers |-> Empty]
  /\ listening = [w \in Deliverers |-> FALSE]
  /\ wake = [w \in Deliverers |-> FALSE]
  /\ alarm = [w \in Deliverers |-> FALSE]
  /\ received = [d \in Deliveries |-> 0]
  /\ faults = 0

Deliver(w) ==
  \/ RankDue(w) \/ TakeDue(w) \/ Sleep(w) \/ Wake(w)
  \/ \E d \in Deliveries : SendTaken(w, d) \/ SendRefused(w, d) \/ RecordAttempt(w, d)

Disturb(w) ==
  \/ RunFails(w) \/ ListenLost(w) \/ Crash(w)
  \/ \E d \in Deliveries : SendUnheard(w, d) \/ RecordFails(w, d)

Administer == Save \/ Remove \/ KeyChanges \/ RotateSecret \/ OverlapEnds

Next ==
  \/ Administer
  \/ \E w \in Deliverers : Deliver(w) \/ Listen(w) \/ Disturb(w)
  \/ \E d \in Deliveries : \/ FindEndpoint(d) \/ Enqueue(d)
                           \/ RetryFallsDue(d) \/ LeaseLapses(d) \/ Stall(d) \/ Prune(d)

Spec == Init /\ [][Next]_vars

(* Every replica's job goes on, and LISTENs again; clocks run.             *)
FairSpec ==
  /\ Spec
  /\ \A w \in Deliverers : WF_vars(Deliver(w)) /\ WF_vars(Listen(w))
  /\ \A d \in Deliveries : WF_vars(RetryFallsDue(d)) /\ WF_vars(LeaseLapses(d))

----------------------------------------------------------------------------
(* Properties.                                                             *)

Claims == [state : {"none", "unsent", "taken", "refused", "shut"},
           attempts : 0 .. MaxAttempts, stamp : 0 .. MaxAttempts + MaxFaults]

(* The variables keep their types; an attempt, and a claim, is bounded by  *)
(* the attempts a delivery has and the faults.                             *)
TypeOK ==
  /\ endpoint \in Endpoints
  /\ status \in [Deliveries -> Status]
  /\ attempts \in [Deliveries -> 0 .. MaxAttempts]
  /\ stamp \in [Deliveries -> 0 .. MaxAttempts + MaxFaults]
  /\ ahead \in [Deliveries -> SUBSET Deliveries]
  /\ pc \in [Deliverers -> {"claim", "take", "send", "asleep"}]
  /\ window \in [Deliverers -> [ids : SUBSET Deliveries, opens : BOOLEAN]]
  /\ claims \in [Deliverers -> [Deliveries -> Claims]]
  /\ listening \in [Deliverers -> BOOLEAN]
  /\ wake \in [Deliverers -> BOOLEAN]
  /\ alarm \in [Deliverers -> BOOLEAN]
  /\ received \in [Deliveries -> Nat]
  /\ faults \in 0 .. MaxFaults

(* A delivered delivery was taken by the endpoint, and more than once only *)
(* as often as something failed; a failed one was taken only when the      *)
(* answer was lost (recordAttempt, claimDue's lease).                      *)
OutcomeHonest ==
  \A d \in Deliveries :
    /\ status[d] = "delivered" => received[d] \in 1 .. 1 + faults
    /\ status[d] = "failed" => received[d] <= faults

(* A delivery is claimed at most once an attempt, and once more after each *)
(* fault: none comes back forever, not even one that cannot be signed      *)
(* (claimDue).                                                             *)
ClaimsRunOut == \A d \in Deliveries : stamp[d] <= attempts[d] + 1 + faults /\ stamp[d] <= MaxAttempts + faults

(* An endpoint has at most perEndpoint deliveries in flight, across        *)
(* replicas (claimDue).                                                    *)
EndpointNotFlooded == Cardinality(Leased) <= PerEndpoint

(* While a deliverer holds a delivery's lease and has not recorded its     *)
(* attempt, nobody else records one: the late outcome of a worker whose    *)
(* lease lapsed never overwrites the newer one (recordAttempt).            *)
HolderDecides ==
  [][\A w \in Deliverers, d \in Deliveries :
       Holds(w, d) /\ claims'[w][d] = claims[w][d] => attempts'[d] = attempts[d]]_vars

(* While the endpoint stays, every pending delivery is delivered or fails, *)
(* whichever replica dies, stalls or loses its connection (Run,            *)
(* RunOnNotify, nextDue).                                                  *)
EveryDeliveryEnds ==
  \A d \in Deliveries : status[d] \in Pending ~> status[d] \in Final \cup {"gone"}

(* Attempts are counted and decided by who holds the delivery: a late      *)
(* outcome changes nothing, and the claims run out (StillClaimed, Claim).  *)
AttemptsHold == HolderDecides /\ []ClaimsRunOut
=============================================================================
