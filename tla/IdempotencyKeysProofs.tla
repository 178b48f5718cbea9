------------------------ MODULE IdempotencyKeysProofs ------------------------
(***************************************************************************)
(* Theorems about IdempotencyKeys, for any number of calls and faults.     *)
(***************************************************************************)
EXTENDS IdempotencyKeys, TLAPS

(* The inductive invariant behind RunsOnce.  Whoever is at work holds the  *)
(* key; who has not run yet left no session; who was told is over; and a   *)
(* session keeps the key taken by the call that made it, until the key is  *)
(* too old or a call errs after its effect.                                *)
WorkerHoldsKey ==
  \A c \in Calls : pc[c] \in AtWork => row = [state |-> "claimed", owner |-> c]

NoEffectYet == \A c \in Calls : pc[c] \in {"start", "read", "run"} => session[c] = "none"

ToldLast == \A c \in Calls : reply[c] # "none" => pc[c] = "done"

KeyLost == pruned \/ \E b \in Calls : ErredLate(b)

SessionKeepsKey == \A c \in Calls : session[c] = "open" => KeyLost \/ row.owner = c

IInv == TypeOK /\ WorkerHoldsKey /\ NoEffectYet /\ ToldLast /\ SessionKeepsKey

(* What a step has to say of a call it tells something: the reply, and     *)
(* that the call is over.                                                  *)
LEMMA ToldTypes ==
  ASSUME TypeOK, NEW c \in Calls, NEW what \in Replies, NEW whose \in Calls \cup {NoCall},
         Told(c, what, whose)
  PROVE  /\ pc' = [pc EXCEPT ![c] = "done"] /\ pc' \in [Calls -> Places]
         /\ reply' \in [Calls -> Replies]
         /\ answer' \in [Calls -> Calls \cup {NoCall}]
  BY DEF TypeOK, Told, GoTo, Places, Replies

(* A fault stays within its bound.                                         *)
LEMMA FaultTypes ==
  ASSUME TypeOK, Fault
  PROVE  faults' \in 0 .. MaxFaults
  BY KeyAssumption DEF TypeOK, Fault

(* A first state has the types (Init).                                     *)
LEMMA InitTypes ==
  ASSUME Init
  PROVE  TypeOK
<1>1. faults \in 0 .. MaxFaults
  BY KeyAssumption DEF Init
<1>2. pruned \in BOOLEAN
  BY DEF Init
<1>3. /\ body \in [Calls -> Bodies] /\ pc \in [Calls -> Places]
      /\ session \in [Calls -> {"none", "open", "purged"}]
      /\ reply \in [Calls -> Replies] /\ answer \in [Calls -> Calls \cup {NoCall}]
  BY DEF Init, Places, Replies
<1> QED
  BY <1>1, <1>2, <1>3 DEF Init, TypeOK

(* Every step keeps the types (all actions of Next).                       *)
LEMMA TypeStep ==
  ASSUME TypeOK, [Next]_vars
  PROVE  TypeOK'
<1> USE DEF TypeOK
<1>1. CASE UNCHANGED vars
  BY <1>1 DEF vars
<1>2. ASSUME NEW c \in Calls, Claim(c)
      PROVE  TypeOK'
  BY <1>2 DEF Claim, GoTo, Places
<1>3. ASSUME NEW c \in Calls, ReadKey(c)
      PROVE  TypeOK'
  <2>1. ASSUME SameRequest(c), Told(c, "replay", row.owner)
        PROVE  TypeOK'
    <3>1. row.owner \in Calls
      BY <2>1 DEF SameRequest, Free
    <3> QED
      BY <1>3, <2>1, <3>1, ToldTypes DEF ReadKey, Replies
  <2>2. ASSUME NEW what \in {"in_flight", "mismatch"}, Told(c, what, NoCall)
        PROVE  TypeOK'
    BY <1>3, <2>2, ToldTypes DEF ReadKey, Replies
  <2> QED
    BY <1>3, <2>1, <2>2 DEF ReadKey
<1>4. ASSUME NEW c \in Calls, RunWorks(c) \/ RunFails(c)
      PROVE  TypeOK'
  BY <1>4 DEF RunWorks, RunFails, GoTo, Places
<1>5. ASSUME NEW c \in Calls, Finish(c) \/ Abandon(c)
      PROVE  TypeOK'
  BY <1>5, ToldTypes DEF Finish, Abandon, Replies
<1>6. ASSUME NEW c \in Calls, RunFailsLate(c)
      PROVE  TypeOK'
  BY <1>6, FaultTypes DEF RunFailsLate, GoTo, Places
<1>7. ASSUME NEW c \in Calls, ClaimUnheard(c)
      PROVE  TypeOK'
  BY <1>7, FaultTypes, ToldTypes DEF ClaimUnheard, Replies
<1>8. ASSUME NEW c \in Calls, FinishFails(c) \/ AbandonFails(c) \/ Crash(c)
      PROVE  TypeOK'
  BY <1>8, FaultTypes, ToldTypes DEF FinishFails, AbandonFails, Crash, Replies
<1>9. ASSUME NEW c \in Calls, PurgeSession(c)
      PROVE  TypeOK'
  BY <1>9 DEF PurgeSession
<1>10. CASE Prune
  BY <1>10 DEF Prune
<1> QED
  BY <1>1, <1>2, <1>3, <1>4, <1>5, <1>6, <1>7, <1>8, <1>9, <1>10 DEF Next, Serve, Disturb

(* The types hold of every behaviour.                                      *)
THEOREM TypeCorrect == Spec => []TypeOK
<1>1. Init => TypeOK
  BY InitTypes
<1>2. TypeOK /\ [Next]_vars => TypeOK'
  BY TypeStep
<1> QED
  BY <1>1, <1>2, PTL DEF Spec

(* A key once lost stays lost: nobody is told twice, no effect undone, and *)
(* what was dropped for its age is remembered.                             *)
LEMMA KeyStaysLost ==
  ASSUME TypeOK, ToldLast, KeyLost, [Next]_vars
  PROVE  KeyLost'
<1> USE DEF TypeOK
<1>1. CASE pruned
  <2>1. pruned'
    BY <1>1 DEF Next, Serve, Disturb, Claim, ReadKey, RunWorks, RunFails, Finish, Abandon,
       ClaimUnheard, RunFailsLate, FinishFails, AbandonFails, Crash, PurgeSession, Prune, vars
  <2> QED
    BY <2>1 DEF KeyLost
<1>2. ASSUME NEW b \in Calls, ErredLate(b)
      PROVE  KeyLost'
  <2>1. pc[b] = "done" /\ session[b] # "none" /\ reply[b] = "error"
    BY <1>2 DEF ToldLast, ErredLate
  <2>2. session'[b] # "none" /\ reply'[b] = "error"
    <3> USE <2>1
    <3>1. ASSUME NEW c \in Calls, Serve(c)
          PROVE  session'[b] # "none" /\ reply'[b] = "error"
      BY <3>1 DEF Serve, Claim, ReadKey, RunWorks, RunFails, Finish, Abandon, Told, GoTo
    <3>2. ASSUME NEW c \in Calls, Disturb(c)
          PROVE  session'[b] # "none" /\ reply'[b] = "error"
      BY <3>2 DEF Disturb, ClaimUnheard, RunFailsLate, FinishFails, AbandonFails, Crash,
         Told, GoTo, AtWork
    <3>3. ASSUME NEW c \in Calls, PurgeSession(c)
          PROVE  session'[b] # "none" /\ reply'[b] = "error"
      BY <3>3 DEF PurgeSession
    <3>4. CASE Prune \/ UNCHANGED vars
      BY <3>4 DEF Prune, vars
    <3> QED
      BY <3>1, <3>2, <3>3, <3>4 DEF Next
  <2> QED
    BY <2>2 DEF KeyLost, ErredLate
<1> QED
  BY <1>1, <1>2 DEF KeyLost

(* Every step keeps IInv: only the holder of the key leaves a session, and *)
(* it lets go of the key only while it has none, or tells an error after   *)
(* its effect (begin, finish, abandon).                                    *)
LEMMA InvStep ==
  ASSUME IInv, [Next]_vars
  PROVE  IInv'
<1> USE DEF IInv, WorkerHoldsKey, NoEffectYet, ToldLast, SessionKeepsKey, AtWork
<1>0. TypeOK' /\ (KeyLost => KeyLost')
  BY TypeStep, KeyStaysLost
<1>1. CASE UNCHANGED vars
  BY <1>0, <1>1 DEF vars
<1>2. ASSUME NEW c \in Calls, Claim(c) \/ ClaimUnheard(c)
      PROVE  IInv'
  <2>1. row = Free => \A d \in Calls : pc[d] \notin AtWork
    <3>1. Free.state # "claimed"
      BY DEF Free
    <3> QED
      BY <3>1
  <2>2. row = Free => \A d \in Calls : session[d] = "open" => KeyLost
    BY KeyAssumption DEF Free, TypeOK
  <2> QED
    BY <1>0, <1>2, <2>1, <2>2 DEF Claim, ClaimUnheard, Told, GoTo, TypeOK, Places
<1>3. ASSUME NEW c \in Calls, ReadKey(c)
      PROVE  IInv'
  BY <1>0, <1>3 DEF ReadKey, Told, GoTo, TypeOK
<1>4. ASSUME NEW c \in Calls, RunWorks(c) \/ RunFails(c) \/ RunFailsLate(c)
      PROVE  IInv'
  BY <1>0, <1>4 DEF RunWorks, RunFails, RunFailsLate, GoTo, TypeOK
<1>5. ASSUME NEW c \in Calls, Finish(c) \/ FinishFails(c)
      PROVE  IInv'
  <2>1. row = [state |-> "claimed", owner |-> c]
    BY <1>5 DEF Finish, FinishFails
  <2>2. \A d \in Calls : d # c => pc[d] \notin AtWork
    BY <2>1
  <2>3. /\ pc' = [pc EXCEPT ![c] = "done"] /\ session' = session
        /\ reply' = [reply EXCEPT ![c] = "own"] /\ row'.owner = c
    <3>1. row # Free
      BY <2>1 DEF Free
    <3> QED
      BY <1>5, <2>1, <3>1 DEF Finish, FinishFails, Told, GoTo
  <2>4. \A d \in Calls : d # c => pc'[d] = pc[d] /\ reply'[d] = reply[d]
    BY <2>3 DEF TypeOK
  <2>5. pc'[c] = "done"
    BY <2>3 DEF TypeOK
  <2>6. WorkerHoldsKey' /\ NoEffectYet' /\ ToldLast'
    BY <2>2, <2>3, <2>4, <2>5
  <2>7. SessionKeepsKey'
    BY <1>0, <2>1, <2>3
  <2> QED
    BY <1>0, <2>6, <2>7
<1>6. ASSUME NEW c \in Calls, Abandon(c) \/ AbandonFails(c)
      PROVE  IInv'
  <2>1. row = [state |-> "claimed", owner |-> c]
    BY <1>6 DEF Abandon, AbandonFails
  <2>2. \A d \in Calls : d # c => pc[d] \notin AtWork
    BY <2>1
  <2>3. /\ pc' = [pc EXCEPT ![c] = "done"] /\ session' = session
        /\ reply' = [reply EXCEPT ![c] = "error"]
    BY <1>6 DEF Abandon, AbandonFails, Told, GoTo
  <2>4. \A d \in Calls : d # c => pc'[d] = pc[d] /\ reply'[d] = reply[d]
    BY <2>3 DEF TypeOK
  <2>5. pc'[c] = "done" /\ reply'[c] = "error"
    BY <2>3 DEF TypeOK
  <2>6. WorkerHoldsKey' /\ NoEffectYet' /\ ToldLast'
    BY <2>2, <2>3, <2>4, <2>5
  <2>7. session[c] = "open" => KeyLost'
    BY <2>3, <2>5 DEF KeyLost, ErredLate
  <2>8. \A d \in Calls : session[d] = "open" /\ d # c => KeyLost
    BY <2>1
  <2>9. SessionKeepsKey'
    BY <1>0, <2>3, <2>7, <2>8
  <2> QED
    BY <1>0, <2>6, <2>9
<1>7. ASSUME NEW c \in Calls, Crash(c)
      PROVE  IInv'
  BY <1>0, <1>7 DEF Crash, Told, GoTo, TypeOK
<1>8. ASSUME NEW c \in Calls, PurgeSession(c)
      PROVE  IInv'
  BY <1>0, <1>8 DEF PurgeSession, TypeOK, Free
<1>9. CASE Prune
  <2>1. KeyLost'
    BY <1>9 DEF Prune, KeyLost
  <2> QED
    BY <1>0, <1>9, <2>1 DEF Prune, TypeOK, Free
<1> QED
  BY <1>1, <1>2, <1>3, <1>4, <1>5, <1>6, <1>7, <1>8, <1>9 DEF Next, Serve, Disturb

(* A key runs at most one call to its effect before it is dropped for its  *)
(* age or a call errs after its effect, whichever replica dies and         *)
(* whichever statement fails (idempotent).                                 *)
THEOREM KeyRunsOnce == Spec => []RunsOnce
<1>1. Init => IInv
  BY InitTypes DEF Init, IInv, WorkerHoldsKey, NoEffectYet, ToldLast, SessionKeepsKey, AtWork
<1>2. IInv /\ [Next]_vars => IInv'
  BY InvStep
<1>3. IInv => RunsOnce
  BY DEF IInv, SessionKeepsKey, KeyLost, RunsOnce
<1> QED
  BY <1>1, <1>2, <1>3, PTL DEF Spec
(* The inductive invariant behind ReplayIsAnswer: an answered row, and a   *)
(* call about to store its answer, had their effect.                       *)
AnsweredRan == row.state = "answered" => session[row.owner] # "none"

FinishRan == \A c \in Calls : pc[c] = "finish" => session[c] # "none"

ReplayInv == AnsweredRan /\ FinishRan /\ ReplayIsAnswer

(* Who had its effect had it for good: a purge erases the session, and     *)
(* does not undo the call (PurgeSession).                                  *)
LEMMA EffectStays ==
  ASSUME IInv, [Next]_vars
  PROVE  /\ body' = body
         /\ \A d \in Calls : session[d] # "none" => session'[d] # "none"
<1> USE DEF IInv, TypeOK
<1>1. ASSUME NEW c \in Calls, Serve(c)
      PROVE  body' = body /\ \A d \in Calls : session[d] # "none" => session'[d] # "none"
  BY <1>1 DEF Serve, Claim, ReadKey, RunWorks, RunFails, Finish, Abandon
<1>2. ASSUME NEW c \in Calls, Disturb(c)
      PROVE  body' = body /\ \A d \in Calls : session[d] # "none" => session'[d] # "none"
  BY <1>2 DEF Disturb, ClaimUnheard, RunFailsLate, FinishFails, AbandonFails, Crash
<1>3. ASSUME NEW c \in Calls, PurgeSession(c)
      PROVE  body' = body /\ \A d \in Calls : session[d] # "none" => session'[d] # "none"
  BY <1>3 DEF PurgeSession
<1>4. CASE Prune \/ UNCHANGED vars
  BY <1>4 DEF Prune, vars
<1> QED
  BY <1>1, <1>2, <1>3, <1>4 DEF Next

(* A step that tells no one a replay keeps what was replayed.              *)
LEMMA ToldNoReplay ==
  ASSUME IInv, ReplayInv, [Next]_vars, NEW c \in Calls,
         NEW what \in Replies \ {"replay"}, NEW whose \in Calls \cup {NoCall},
         Told(c, what, whose)
  PROVE  ReplayIsAnswer'
<1>1. \A d \in Calls : reply'[d] = "replay" => reply[d] = "replay" /\ answer'[d] = answer[d]
  BY DEF Told, IInv, TypeOK
<1> QED
  BY <1>1, EffectStays DEF ReplayInv, ReplayIsAnswer

(* Every step keeps ReplayInv: only begin tells a replay, of an answered   *)
(* row whose request is the same, and only finish answers a row.           *)
LEMMA ReplayStep ==
  ASSUME IInv, ReplayInv, [Next]_vars
  PROVE  ReplayInv'
<1> USE DEF IInv, TypeOK
<1>0. /\ body' = body
      /\ \A d \in Calls : session[d] # "none" => session'[d] # "none"
  BY EffectStays
<1>a. ASSUME reply' = reply, answer' = answer
      PROVE  ReplayIsAnswer'
  BY <1>0, <1>a DEF ReplayInv, ReplayIsAnswer
<1>b. ASSUME row' = row \/ row' = Free \/ row'.state = "claimed"
      PROVE  AnsweredRan'
  BY <1>0, <1>b DEF ReplayInv, AnsweredRan, Free
<1>c. ASSUME NEW c \in Calls, NEW place \in Places, GoTo(c, place),
             place = "finish" => session'[c] # "none"
      PROVE  FinishRan'
  BY <1>0, <1>c DEF ReplayInv, FinishRan, GoTo
<1>1. CASE UNCHANGED vars
  BY <1>1 DEF vars, ReplayInv, AnsweredRan, FinishRan, ReplayIsAnswer
<1>2. ASSUME NEW c \in Calls, Claim(c)
      PROVE  ReplayInv'
  BY <1>a, <1>b, <1>c, <1>2 DEF Claim, Places, ReplayInv
<1>3. ASSUME NEW c \in Calls, ReadKey(c)
      PROVE  ReplayInv'
  <2>1. ASSUME NEW what \in {"in_flight", "mismatch"}, Told(c, what, NoCall)
        PROVE  ReplayIsAnswer'
    BY <1>3, <2>1, ToldNoReplay DEF Replies
  <2>2. ASSUME SameRequest(c), row.state = "answered", Told(c, "replay", row.owner)
        PROVE  ReplayIsAnswer'
    <3>1. row.owner \in Calls /\ body[row.owner] = body[c] /\ session[row.owner] # "none"
      BY <2>2 DEF SameRequest, ReplayInv, AnsweredRan, Free
    <3>2. \A d \in Calls : d # c => reply'[d] = reply[d] /\ answer'[d] = answer[d]
      BY <2>2 DEF Told
    <3>3. answer'[c] = row.owner
      BY <2>2 DEF Told
    <3> QED
      BY <1>0, <3>1, <3>2, <3>3 DEF ReplayInv, ReplayIsAnswer
  <2>3. ReplayIsAnswer'
    BY <1>3, <2>1, <2>2 DEF ReadKey
  <2>4. FinishRan'
    BY <1>c, <1>3 DEF ReadKey, Told, Places
  <2> QED
    BY <1>b, <1>3, <2>3, <2>4 DEF ReadKey, ReplayInv
<1>4. ASSUME NEW c \in Calls, RunWorks(c)
      PROVE  ReplayInv'
  <2>1. session'[c] # "none"
    BY <1>4 DEF RunWorks
  <2> QED
    BY <1>a, <1>b, <1>c, <1>4, <2>1 DEF RunWorks, Places, ReplayInv
<1>5. ASSUME NEW c \in Calls, RunFails(c) \/ RunFailsLate(c)
      PROVE  ReplayInv'
  BY <1>a, <1>b, <1>c, <1>5 DEF RunFails, RunFailsLate, Places, ReplayInv
<1>6. ASSUME NEW c \in Calls, Finish(c) \/ FinishFails(c)
      PROVE  ReplayInv'
  <2>1. Told(c, "own", c) /\ session' = session /\ session[c] # "none"
    BY <1>6 DEF Finish, FinishFails, ReplayInv, FinishRan
  <2>2. ReplayIsAnswer'
    BY <2>1, ToldNoReplay DEF Replies
  <2>3. FinishRan'
    BY <1>c, <2>1 DEF Told, Places
  <2>4. CASE row' = [state |-> "answered", owner |-> c]
    <3>1. AnsweredRan'
      BY <2>1, <2>4 DEF AnsweredRan
    <3> QED
      BY <2>2, <2>3, <3>1 DEF ReplayInv
  <2>5. CASE row' = row \/ row' = Free
    BY <1>b, <2>2, <2>3, <2>5 DEF ReplayInv
  <2> QED
    BY <1>6, <2>4, <2>5 DEF Finish, FinishFails
<1>7. ASSUME NEW c \in Calls, ClaimUnheard(c) \/ Abandon(c) \/ AbandonFails(c) \/ Crash(c)
      PROVE  ReplayInv'
  <2>1. ReplayIsAnswer'
    BY <1>7, ToldNoReplay DEF ClaimUnheard, Abandon, AbandonFails, Crash, Replies
  <2>2. FinishRan'
    BY <1>c, <1>7 DEF ClaimUnheard, Abandon, AbandonFails, Crash, Told, Places
  <2> QED
    BY <1>b, <1>7, <2>1, <2>2 DEF ClaimUnheard, Abandon, AbandonFails, Crash, ReplayInv
<1>8. ASSUME NEW c \in Calls, PurgeSession(c)
      PROVE  ReplayInv'
  <2>1. FinishRan'
    BY <1>0, <1>8 DEF PurgeSession, ReplayInv, FinishRan
  <2> QED
    BY <1>a, <1>b, <1>8, <2>1 DEF PurgeSession, ReplayInv
<1>9. CASE Prune
  <2>1. FinishRan'
    BY <1>0, <1>9 DEF Prune, ReplayInv, FinishRan
  <2> QED
    BY <1>a, <1>b, <1>9, <2>1 DEF Prune, ReplayInv
<1> QED
  BY <1>1, <1>2, <1>3, <1>4, <1>5, <1>6, <1>7, <1>8, <1>9 DEF Next, Serve, Disturb

(* The calls of a key share one run and its answer: whoever is replayed an *)
(* answer sent the same request as the call that had the effect (begin,    *)
(* finish).                                                                *)
THEOREM KeySharesRun == Spec => []OneRunOneAnswer
<1>1. Init => IInv /\ ReplayInv
  <2>1. Init => IInv
    BY InitTypes DEF Init, IInv, WorkerHoldsKey, NoEffectYet, ToldLast, SessionKeepsKey, AtWork
  <2>2. Init => ReplayInv
    BY DEF Init, ReplayInv, AnsweredRan, FinishRan, ReplayIsAnswer, Free
  <2> QED
    BY <2>1, <2>2
<1>2. IInv /\ ReplayInv /\ [Next]_vars => (IInv /\ ReplayInv)'
  BY InvStep, ReplayStep
<1>3. IInv /\ ReplayInv => OneRunOneAnswer
  BY DEF IInv, SessionKeepsKey, KeyLost, RunsOnce, ReplayInv, OneRunOneAnswer
<1> QED
  BY <1>1, <1>2, <1>3, PTL DEF Spec
=============================================================================
