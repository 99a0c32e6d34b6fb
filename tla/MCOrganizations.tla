--------------------------- MODULE MCOrganizations ---------------------------
(***************************************************************************)
(* Instances of Organizations for TLC.                                     *)
(***************************************************************************)
EXTENDS Organizations, TLC

\* No definition names an organization or a handler.
MCSymmetry == Permutations(Orgs) \cup Permutations(Procs)

=============================================================================
