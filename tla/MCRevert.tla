------------------------------ MODULE MCRevert ------------------------------
(***************************************************************************)
(* All hybrid listings up to a length, for checking Revert.                *)
(***************************************************************************)
EXTENDS Revert

CONSTANT MaxLen    \* bound on the length of a listing

AllListings ==
  {l \in UNION {[1 .. n -> {"=", "-", "+"}] : n \in 1 .. MaxLen} : IsListing(l)}
=============================================================================
