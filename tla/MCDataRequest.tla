---------------------------- MODULE MCDataRequest ----------------------------
(***************************************************************************)
(* Instances of DataRequest: one scenario per way a request is decided.    *)
(***************************************************************************)
EXTENDS DataRequest, TLC

Check(s, p, t) == [status |-> s, proven |-> p, typed |-> t]

Strong   == Check("approved", "strong", "none")
Probable == Check("approved", "probable", "none")
Typed    == Check("unfinished", "none", "email")
Later    == Check("unfinished", "strong", "email")
InReview == Check("needs_review", "probable", "none")

Base == [erasure |-> TRUE, automatic |-> FALSE, retention |-> FALSE,
         engine |-> "approved", checks |-> (1 :> Strong @@ 2 :> Typed),
         crew |-> {"poll1", "rev1"}, moves |-> FALSE, lapses |-> FALSE,
         pauses |-> 0, faults |-> 0]

MCKinds == {
  \* two searches, while the sessions move on
  [Base EXCEPT !.crew = {"poll1", "poll2"}, !.moves = TRUE,
               !.checks = (1 :> Later @@ 2 :> InReview)],
  \* an automatic erasure, two reviewers, a failure
  [Base EXCEPT !.automatic = TRUE, !.crew = {"poll1", "rev1", "rev2", "pruner"}, !.faults = 1],
  [Base EXCEPT !.crew = {"poll1", "rev1", "pruner"}, !.engine = "needs_review",
               !.faults = 1, !.lapses = TRUE],
  [Base EXCEPT !.automatic = TRUE, !.checks = (1 :> Strong @@ 2 :> Probable),
               !.crew = {"poll1", "rev1", "pruner"}, !.faults = 1],
  \* the law keeps something
  [Base EXCEPT !.retention = TRUE, !.automatic = TRUE, !.moves = TRUE,
               !.checks = (1 :> Strong @@ 2 :> Probable), !.crew = {"poll1", "rev1"}],
  [Base EXCEPT !.retention = TRUE, !.moves = TRUE,
               !.checks = (1 :> Strong @@ 2 :> InReview), !.crew = {"poll1", "rev1"}],
  \* a request to see one's data
  [Base EXCEPT !.erasure = FALSE, !.engine = "needs_review",
               !.crew = {"poll1", "poll2", "rev1", "pruner"}, !.lapses = TRUE],
  \* a pause
  [Base EXCEPT !.erasure = FALSE, !.crew = {"poll1", "admin", "pruner", "rev1"},
               !.pauses = 1, !.faults = 1],
  [Base EXCEPT !.crew = {"poll1", "admin", "pruner", "subject"}, !.pauses = 1],
  [Base EXCEPT !.crew = {"admin", "pruner", "subject"}, !.pauses = 1, !.faults = 1],
  [Base EXCEPT !.automatic = TRUE, !.crew = {"poll1", "admin", "rev1"}, !.pauses = 2]}
=============================================================================
