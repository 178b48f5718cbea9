------------------------------ MODULE MCExchange ------------------------------
(***************************************************************************)
(* Instances of IssuedAttestations: one scenario per kind of delivery.     *)
(***************************************************************************)
EXTENDS IssuedAttestations, TLC

Base == [owner |-> ("m1" :> "a" @@ "m2" :> "a"), offers |-> {}, ours |-> {},
         crew |-> {}, recheck |-> FALSE, races |-> {}, pushed |-> {},
         unfiltered |-> FALSE, faults |-> 0, crashes |-> 0,
         polls |-> ("p1" :> [home |-> "r1", scope |-> All]), queued |-> {}]

Check(org, r) == [home |-> r, scope |-> org]
Sweep(r) == [home |-> r, scope |-> All]

Ours == [Base EXCEPT !.offers = {"m1"}, !.ours = {"m1"}, !.crew = {"w1", "w2"},
                     !.polls = ("p1" :> Check("a", "r1"))]

MCKinds == {
  \* a sweep and an inbox check of one process drain the same address
  [Base EXCEPT !.queued = {"m1", "m2"}, !.offers = {"m1"},
               !.polls = ("p1" :> Sweep("r1") @@ "p2" :> Check("a", "r1"))],
  [Base EXCEPT !.queued = {"m1", "m2"}, !.offers = {"m1"}, !.faults = 1, !.crashes = 1,
               !.polls = ("p1" :> Sweep("r1") @@ "p2" :> Check("a", "r1"))],
  \* two processes drain an access point that does not filter
  [Base EXCEPT !.queued = {"m1", "m2"}, !.unfiltered = TRUE,
               !.owner = ("m1" :> "a" @@ "m2" :> "b"), !.faults = 1,
               !.polls = ("p1" :> Sweep("r1") @@ "p2" :> Check("b", "r2"))],
  [Base EXCEPT !.queued = {"m1"}, !.unfiltered = TRUE, !.owner = ("m1" :> NoOne @@ "m2" :> NoOne),
               !.pushed = {"m2"}],
  \* a message pushed, and pulled as well
  [Base EXCEPT !.queued = {"m1"}, !.pushed = {"m1"}, !.offers = {"m1"}, !.crew = {"w1", "w2"},
               !.faults = 1, !.crashes = 1],
  \* an offer of this wallet: issued, sent, accepted, revoked, re-checked
  [Ours EXCEPT !.recheck = TRUE],
  [Ours EXCEPT !.races = {"unclaimed"}, !.faults = 1],
  [Ours EXCEPT !.recheck = TRUE, !.races = {"status"}],
  [Ours EXCEPT !.crashes = 1],
  [Ours EXCEPT !.crew = {"w1"}, !.recheck = TRUE, !.faults = 2, !.crashes = 1,
               !.polls = ("p1" :> Sweep("r1"))]}
=============================================================================
