------------------------------ MODULE MCSigning ------------------------------
(***************************************************************************)
(* Instances of SigningCeremony: one scenario per kind of request.         *)
(***************************************************************************)
EXTENDS SigningCeremony

Base == [mode |-> "parallel", order |-> <<"ann", "bob">>, external |-> {}, unlinked |-> {},
         recipient |-> FALSE, calls |-> {"c1", "c2", "c3"}, declines |-> FALSE,
         expires |-> FALSE, races |-> {}, faults |-> 0, crashes |-> 0]

MCKinds == {
  \* two members at once, a third call, a decline
  Base,
  [Base EXCEPT !.declines = TRUE],
  [Base EXCEPT !.recipient = TRUE, !.faults = 1, !.crashes = 1],
  [Base EXCEPT !.calls = {"c1", "c2"}, !.races = {"late", "again", "declined"},
               !.declines = TRUE, !.unlinked = {"ann"}, !.faults = 1],
  [Base EXCEPT !.calls = {"c1", "c2"}, !.races = {"restart"}, !.recipient = TRUE],
  \* one after the other, some by a link
  [Base EXCEPT !.mode = "sequential", !.order = <<"ann", "bob", "col">>,
               !.external = {"col"}, !.faults = 1],
  [Base EXCEPT !.mode = "sequential", !.external = {"bob"}, !.unlinked = {"bob"},
               !.recipient = TRUE, !.declines = TRUE, !.expires = TRUE, !.crashes = 1]}
=============================================================================
