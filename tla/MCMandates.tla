----------------------------- MODULE MCMandates -----------------------------
(***************************************************************************)
(* Instances of the organisation: one setting per group of requests that   *)
(* meet, u1 its administrator at first.                                    *)
(***************************************************************************)
EXTENDS Mandates, TLC

MCMailbox == ("a1" :> "u2" @@ "a2" :> "u2")

Op(op, u, to) == [op |-> op, user |-> u, to |-> to]

Base == [members |-> ("u1" :> "admin" @@ "u2" :> NoOne),
         invited |-> ("u1" :> NoOne @@ "u2" :> NoOne), mismatch |-> {}, ops |-> {},
         requests |-> 0, syncs |-> {}, moves |-> 0, faults |-> 0,
         reps |-> {}, mandates |-> 0, days |-> 0, grants |-> {}]

Both(role) == "u1" :> "admin" @@ "u2" :> role

Ask(type, scope, later, ends) == [type |-> type, scope |-> scope, later |-> later, ends |-> ends]

MCKinds == {
  \* roles, removals and the reviewer right
  [Base EXCEPT !.members = Both("admin"), !.requests = 4,
     !.ops = {Op("update", "u1", "member"), Op("update", "u2", "member"),
              Op("update", "u2", "admin"), Op("remove", "u1", ""), Op("remove", "u2", "")}],
  [Base EXCEPT !.members = Both("member"), !.requests = 4,
     !.ops = {Op("give_right", "u2", ""), Op("take_right", "u2", ""), Op("update", "u2", "admin"),
              Op("update", "u2", "member"), Op("remove", "u2", "")}],
  \* the re-identification policy
  [Base EXCEPT !.members = Both("member"), !.requests = 4,
     !.ops = {Op("policy", "u1", ""), Op("verify_settings", "u2", ""),
              Op("type_settings", "u2", "external"), Op("remove", "u2", "")}],
  \* invitations
  [Base EXCEPT !.invited = ("u1" :> NoOne @@ "u2" :> "member"), !.requests = 4,
     !.ops = {Op("accept", "u2", ""), Op("revoke", "u2", ""), Op("invite", "u2", "admin"),
              Op("resend", "u2", ""), Op("policy", "u1", "")}],
  [Base EXCEPT !.invited = ("u1" :> NoOne @@ "u2" :> "member"), !.mismatch = {"u2"},
     !.requests = 5,
     !.ops = {Op("accept", "u2", ""), Op("revoke", "u2", ""), Op("policy", "u1", ""),
              Op("approve_review", "u2", ""), Op("reject_review", "u2", "")}],
  \* the directory
  [Base EXCEPT !.syncs = {"sync"}, !.moves = 1, !.requests = 2,
     !.ops = {Op("invite", "u2", "member"), Op("accept", "u2", ""), Op("revoke", "u2", "")}],
  [Base EXCEPT !.syncs = {"sync"}, !.moves = 1, !.faults = 1, !.requests = 2,
     !.ops = {Op("accept", "u2", ""), Op("remove", "u2", ""), Op("update", "u2", "admin")}],
  [Base EXCEPT !.syncs = {"sync"}, !.moves = 2, !.requests = 1,
     !.ops = {Op("accept", "u2", ""), Op("remove", "u2", "")}],
  [Base EXCEPT !.invited = ("u1" :> NoOne @@ "u2" :> "member"), !.syncs = {"sync"},
     !.requests = 3, !.ops = {Op("accept", "u2", ""), Op("revoke", "u2", "")}],
  [Base EXCEPT !.syncs = {"sync", "now"}, !.moves = 1],
  \* mandates
  [Base EXCEPT !.members = Both("member"), !.reps = {"u1"}, !.mandates = 4,
     !.grants = {Ask("full", "organization", FALSE, FALSE)}],
  [Base EXCEPT !.members = Both("member"), !.reps = {"u1"}, !.mandates = 3, !.days = 2,
     !.grants = {Ask("full", "organization", FALSE, FALSE), Ask("full", "organization", FALSE, TRUE)}],
  [Base EXCEPT !.members = Both("member"), !.reps = {"u1"}, !.mandates = 3, !.days = 1,
     !.grants = {Ask("full", "organization", FALSE, FALSE), Ask("full", "organization", TRUE, FALSE)}],
  [Base EXCEPT !.members = Both("member"), !.reps = {"u1"}, !.mandates = 3,
     !.grants = {Ask("full", "organization", FALSE, FALSE), Ask("administrative", "department", FALSE, TRUE)}],
  [Base EXCEPT !.members = Both("member"), !.reps = {"u1"}, !.mandates = 2, !.days = 1,
     !.grants = {Ask("full", "organization", FALSE, FALSE)}, !.requests = 1,
     !.ops = {Op("remove", "u2", "")}]}
=============================================================================
