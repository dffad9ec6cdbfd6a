-------------------------- MODULE DependencyStore --------------------------
(***************************************************************************)
(* What the machine's dependency store promises (the docstring and the     *)
(* code of src/client/mathlib_cache.py), seen from far enough away to see  *)
(* neither renames nor links: a dependency set is absent, or it is there   *)
(* whole; it is published whole, and taken away only as a whole.           *)
(* Workspace implements it.                                                *)
(***************************************************************************)
VARIABLE entry

Init == entry = "absent"

Publish == entry = "absent" /\ entry' = "whole"

Withdraw == entry = "whole" /\ entry' = "absent"

Next == Publish \/ Withdraw

Spec == Init /\ [][Next]_entry
=============================================================================
