-------------------------- MODULE MCEngineSession --------------------------
(***************************************************************************)
(* EngineSession on small instances, for TLC.                              *)
(***************************************************************************)
EXTENDS EngineSession

(* Who brings the evidence, whether a reviewer decides, and what there is  *)
(* enough of to race: devices and links; a device losing its slot while    *)
(* its face is checked; face submissions; the two submitters of a session  *)
(* with a photo; notices and a fault.                                      *)
MCKinds ==
  {[method |-> "idem", photo |-> FALSE, keep |-> FALSE, outcome |-> "approved",
    devices |-> 2, links |-> 3, faces |-> 0, faults |-> 0, told |-> FALSE],
   [method |-> "idem", photo |-> FALSE, keep |-> FALSE, outcome |-> "needs_review",
    devices |-> 2, links |-> 2, faces |-> 1, faults |-> 0, told |-> FALSE],
   [method |-> "idem", photo |-> FALSE, keep |-> FALSE, outcome |-> "needs_review",
    devices |-> 1, links |-> 1, faces |-> 4, faults |-> 0, told |-> FALSE],
   [method |-> "idem", photo |-> TRUE, keep |-> FALSE, outcome |-> "approved",
    devices |-> 1, links |-> 1, faces |-> 1, faults |-> 1, told |-> TRUE],
   [method |-> "browser", photo |-> TRUE, keep |-> TRUE, outcome |-> "needs_review",
    devices |-> 0, links |-> 0, faces |-> 0, faults |-> 1, told |-> TRUE],
   [method |-> "yivi", photo |-> TRUE, keep |-> FALSE, outcome |-> "needs_review",
    devices |-> 0, links |-> 0, faces |-> 0, faults |-> 1, told |-> TRUE],
   [method |-> "pending", photo |-> FALSE, keep |-> FALSE, outcome |-> "approved",
    devices |-> 1, links |-> 1, faces |-> 1, faults |-> 0, told |-> TRUE]}
=============================================================================
