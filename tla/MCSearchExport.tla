--------------------------- MODULE MCSearchExport ---------------------------
(***************************************************************************)
(* Instances of SearchExport for TLC.                                      *)
(***************************************************************************)
EXTENDS SearchExport, TLC

\* No definition names an alias or a command.
MCSymmetry == Permutations(Aliases) \cup Permutations(Procs)

=============================================================================
