--------------------------- MODULE MCMachineUsers ---------------------------
(***************************************************************************)
(* Instances of MachineUsers for TLC.                                      *)
(***************************************************************************)
EXTENDS MachineUsers, TLC

\* App clients, names and handlers are interchangeable.
MCSymmetry == Permutations(Clients) \cup Permutations(Names) \cup Permutations(Procs)

=============================================================================
