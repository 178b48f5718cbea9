-------------------------- MODULE SessionLifecycle --------------------------
(***************************************************************************)
(* What the wallet may rely on of one engine session, as the engine        *)
(* answers for it: opened and in_progress are one (the wallet treats them  *)
(* so), and a session that was erased reads as deleted.                    *)
(***************************************************************************)
VARIABLE status

Running  == {"created", "opened"}
Findings == {"approved", "rejected", "needs_review"}
Finished == {"approved", "rejected", "expired", "cancelled"}
Statuses == Running \cup Findings \cup Finished \cup {"deleted"}

Moves(from, to) == status \in from /\ status' = to

(* What the subject, the clock and the engine's own jobs make of it ...    *)
Open   == Moves({"created"}, "opened")
Find   == \E result \in Findings : Moves(Running \cup {"needs_review"}, result)
Expire == Moves(Running, "expired")
Remove == Moves(Finished, "deleted")

(* ... and what the wallet asked for; a reviewer's decision is a Find.     *)
Cancel == Moves(Running \cup {"needs_review"}, "cancelled")
Erase  == Moves(Statuses, "deleted")

Own   == Open \/ Find \/ Expire \/ Remove
Asked == Cancel \/ Erase

Init == status = "created"
Next == Own \/ Asked
Spec == Init /\ [][Next]_status
=============================================================================
