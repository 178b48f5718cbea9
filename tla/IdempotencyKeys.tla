--------------------------- MODULE IdempotencyKeys ---------------------------
(***************************************************************************)
(* One Idempotency-Key of one API key (backend/internal/proofing,          *)
(* idempotency.go): the calls sent with it, the claim that lets one of     *)
(* them run, the answer kept for the others, and what drops it.            *)
(*                                                                         *)
(* A call runs a handler that makes (or starts, or cancels) a session; all *)
(* the model keeps of it is whether it had its effect.                     *)
(***************************************************************************)
EXTENDS Naturals

CONSTANTS
  Calls,      \* the calls sent with the key, retries among them
  Bodies,     \* the requests they send (method, path and body, hashed)
  NoCall,     \* no call
  MaxFaults   \* bound: lost replicas, failed or unheard statements, late errors

ASSUME KeyAssumption == NoCall \notin Calls /\ Bodies # {} /\ MaxFaults \in Nat

VARIABLES
  body,     \* the request each call sends
  row,      \* the key's row: free (there is none), claimed or answered
  pc,       \* where each call is
  session,  \* what each call's run left: none, open, or purged since
  reply,    \* what each caller was told
  answer,   \* the call whose answer each caller got
  pruned,   \* history: the key was dropped for its age
  faults    \* faults so far

vars == <<body, row, pc, session, reply, answer, pruned, faults>>

(* The owner of a claimed row is not stored: it is the call that claimed   *)
(* it.  An answered row holds its owner's answer.                          *)
Free == [state |-> "free", owner |-> NoCall]

Places  == {"start", "read", "run", "finish", "abandon", "done"}
Replies == {"none", "own", "replay", "mismatch", "in_flight", "error", "lost"}

(* A call between its claim and the end of its claim.                      *)
AtWork == {"run", "finish", "abandon"}

Fault == faults < MaxFaults /\ faults' = faults + 1

GoTo(c, place) == pc' = [pc EXCEPT ![c] = place]

Told(c, what, whose) ==
  /\ reply' = [reply EXCEPT ![c] = what]
  /\ answer' = [answer EXCEPT ![c] = whose]
  /\ GoTo(c, "done")

----------------------------------------------------------------------------
(* begin.                                                                  *)

(* The INSERT ... ON CONFLICT DO NOTHING claims a free key.                *)
Claim(c) ==
  /\ pc[c] = "start"
  /\ IF row = Free
     THEN row' = [state |-> "claimed", owner |-> c] /\ GoTo(c, "run")
     ELSE UNCHANGED row /\ GoTo(c, "read")
  /\ UNCHANGED <<body, session, reply, answer, pruned, faults>>

(* The claim is made, and its call does not hear of it.                    *)
ClaimUnheard(c) ==
  /\ pc[c] = "start" /\ row = Free
  /\ Fault
  /\ row' = [state |-> "claimed", owner |-> c]
  /\ Told(c, "error", NoCall)
  /\ UNCHANGED <<body, session, pruned>>

(* Mutant: the stored hash is not compared.                                *)
SameRequestAny(c) == row # Free

(* The stored hash is that of the call's own request.                      *)
SameRequest(c) == row # Free /\ body[row.owner] = body[c]

(* The SELECT after it, of a row that may have gone since, or come anew.   *)
ReadKey(c) ==
  /\ pc[c] = "read"
  /\ \/ row = Free /\ Told(c, "in_flight", NoCall)
     \/ row # Free /\ ~SameRequest(c) /\ Told(c, "mismatch", NoCall)
     \/ SameRequest(c) /\ row.state = "claimed" /\ Told(c, "in_flight", NoCall)
     \/ SameRequest(c) /\ row.state = "answered" /\ Told(c, "replay", row.owner)
  /\ UNCHANGED <<body, row, session, pruned, faults>>

----------------------------------------------------------------------------
(* The call itself (idempotent), and how it ends.                          *)

RunWorks(c) ==
  /\ pc[c] = "run"
  /\ session' = [session EXCEPT ![c] = "open"]
  /\ GoTo(c, "finish")
  /\ UNCHANGED <<body, row, reply, answer, pruned, faults>>

(* The handler refuses, errs or panics before its effect ...               *)
RunFails(c) ==
  /\ pc[c] = "run"
  /\ GoTo(c, "abandon")
  /\ UNCHANGED <<body, row, session, reply, answer, pruned, faults>>

(* ... or after it, as CreateRequest does when the request is stored and   *)
(* its session cannot be attached.                                         *)
RunFailsLate(c) ==
  /\ pc[c] = "run"
  /\ Fault
  /\ session' = [session EXCEPT ![c] = "open"]
  /\ GoTo(c, "abandon")
  /\ UNCHANGED <<body, row, reply, answer, pruned>>

(* finish stores the answer; the caller gets it whether it was or not.     *)
Finish(c) ==
  /\ pc[c] = "finish"
  /\ row' = IF row = Free THEN Free ELSE [state |-> "answered", owner |-> c]
  /\ Told(c, "own", c)
  /\ UNCHANGED <<body, session, pruned, faults>>

(* Mutant: a call whose answer cannot be stored frees its key.             *)
FinishFailsFree(c) ==
  /\ pc[c] = "finish"
  /\ Fault
  /\ row' = Free
  /\ Told(c, "own", c)
  /\ UNCHANGED <<body, session, pruned>>

FinishFails(c) ==
  /\ pc[c] = "finish"
  /\ Fault
  /\ Told(c, "own", c)
  /\ UNCHANGED <<body, row, session, pruned>>

(* Mutant: the claim is let go, and its row left behind.                   *)
AbandonKeepsRow(c) ==
  /\ pc[c] = "abandon"
  /\ row' = [row EXCEPT !.state = "free"]
  /\ Told(c, "error", NoCall)
  /\ UNCHANGED <<body, session, pruned, faults>>

(* abandon deletes an unanswered claim.                                    *)
Abandon(c) ==
  /\ pc[c] = "abandon"
  /\ row' = IF row.state = "claimed" THEN Free ELSE row
  /\ Told(c, "error", NoCall)
  /\ UNCHANGED <<body, session, pruned, faults>>

AbandonFails(c) ==
  /\ pc[c] = "abandon"
  /\ Fault
  /\ Told(c, "error", NoCall)
  /\ UNCHANGED <<body, row, session, pruned>>

(* The replica dies with the call.                                         *)
Crash(c) ==
  /\ pc[c] \in AtWork \cup {"read"}
  /\ Fault
  /\ Told(c, "lost", NoCall)
  /\ UNCHANGED <<body, row, session, pruned>>

----------------------------------------------------------------------------
(* What drops the row.                                                     *)

(* Purging a session drops the answer that names it.                       *)
PurgeSession(c) ==
  /\ session[c] = "open"
  /\ session' = [session EXCEPT ![c] = "purged"]
  /\ row' = IF row = [state |-> "answered", owner |-> c] THEN Free ELSE row
  /\ UNCHANGED <<body, pc, reply, answer, pruned, faults>>

(* Mutant: only what was answered is dropped.                              *)
PruneAnswered ==
  /\ row.state = "answered"
  /\ row' = Free
  /\ pruned' = TRUE
  /\ UNCHANGED <<body, pc, session, reply, answer, faults>>

(* Prune, of what is older than idempotencyKeyTTL: no call runs that long. *)
Prune ==
  /\ row # Free /\ \A c \in Calls : pc[c] \notin AtWork
  /\ row' = Free
  /\ pruned' = TRUE
  /\ UNCHANGED <<body, pc, session, reply, answer, faults>>

----------------------------------------------------------------------------
Init ==
  /\ body \in [Calls -> Bodies]
  /\ row = Free
  /\ pc = [c \in Calls |-> "start"]
  /\ session = [c \in Calls |-> "none"]
  /\ reply = [c \in Calls |-> "none"]
  /\ answer = [c \in Calls |-> NoCall]
  /\ pruned = FALSE
  /\ faults = 0

(* The steps of a call that nothing disturbs.                              *)
Serve(c) ==
  \/ Claim(c) \/ ReadKey(c)
  \/ RunWorks(c) \/ RunFails(c)
  \/ Finish(c) \/ Abandon(c)

Disturb(c) ==
  \/ ClaimUnheard(c) \/ RunFailsLate(c)
  \/ FinishFails(c) \/ AbandonFails(c) \/ Crash(c)

Next ==
  \/ \E c \in Calls : Serve(c) \/ Disturb(c) \/ PurgeSession(c)
  \/ Prune

Spec == Init /\ [][Next]_vars

(* A call that began goes on, and the pruner runs every day.               *)
FairSpec ==
  /\ Spec
  /\ \A c \in Calls : WF_vars(pc[c] # "start" /\ Serve(c))
  /\ WF_vars(Prune)

----------------------------------------------------------------------------
(* Properties.                                                             *)

(* The variables keep their types, and whatever row there is has an owner. *)
TypeOK ==
  /\ body \in [Calls -> Bodies]
  /\ row \in {Free} \cup [state : {"claimed", "answered"}, owner : Calls]
  /\ pc \in [Calls -> Places]
  /\ session \in [Calls -> {"none", "open", "purged"}]
  /\ reply \in [Calls -> Replies]
  /\ answer \in [Calls -> Calls \cup {NoCall}]
  /\ pruned \in BOOLEAN
  /\ faults \in 0 .. MaxFaults

(* A call that erred after it had its effect.                              *)
ErredLate(c) == session[c] # "none" /\ reply[c] = "error"

(* Until the key is dropped for its age, or a call errs after its effect,  *)
(* no two of its calls leave a session: not when the replica dies, the     *)
(* answer cannot be stored, or a claim is not heard of (idempotent: "so a  *)
(* retry can never run it twice").                                         *)
RunsOnce ==
  \A c, e \in Calls : session[c] = "open" /\ session[e] = "open" /\ c # e =>
    pruned \/ \E b \in Calls : ErredLate(b)

(* A replay is the answer of a call that sent the same request and had its *)
(* effect (begin).                                                         *)
ReplayIsAnswer ==
  \A c \in Calls : reply[c] = "replay" =>
    /\ answer[c] \in Calls
    /\ body[answer[c]] = body[c] /\ session[answer[c]] # "none"

(* A claimed key is answered, released or dropped in the end, also when    *)
(* its replica died (idempotencyKeyTTL).                                   *)
KeyFreed == row.state = "claimed" ~> row.state # "claimed"

(* The calls of a key share one run and its answer (RunsOnce,              *)
(* ReplayIsAnswer).                                                        *)
OneRunOneAnswer == RunsOnce /\ ReplayIsAnswer
=============================================================================
