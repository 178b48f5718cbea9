------------------------- MODULE ProofingLifecycle -------------------------
(***************************************************************************)
(* What a sender, an API client and the subject may rely on of one         *)
(* external proofing request: the phases it reads in (EffectiveStatus, and *)
(* whether it was erased), and the order they come in.  Every phase but    *)
(* the first and the last is left at most once and never entered again.    *)
(***************************************************************************)
CONSTANT LateOutcome  \* whether an outcome may still overtake an expiry

VARIABLE phase

Phases == {"none", "waiting", "sent", "started", "review",
           "approved", "rejected", "expired", "cancelled", "purged"}

Undecided == {"sent", "started"}

Moves(from, to) == phase \in from /\ phase' = to

Ask    == Moves({"none"}, "waiting")
Attach == Moves({"waiting"}, "sent")
Start  == Moves({"sent"}, "started")
Expire == Moves({"waiting", "review"} \cup Undecided, "expired")
Cancel == Moves({"waiting"} \cup Undecided, "cancelled")
Purge  == Moves(Phases \ {"none", "purged"}, "purged")

(* A decision is final, and a cancelled request is never decided.          *)
Overtaken == IF LateOutcome THEN {"expired"} ELSE {}
Review == Moves(Undecided \cup Overtaken, "review")
Decide == \E verdict \in {"approved", "rejected"} :
            Moves({"review"} \cup Undecided \cup Overtaken, verdict)

Init == phase = "none"
Next == Ask \/ Attach \/ Start \/ Expire \/ Cancel \/ Purge \/ Review \/ Decide
Spec == Init /\ [][Next]_phase
=============================================================================
