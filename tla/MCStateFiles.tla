---------------------------- MODULE MCStateFiles ----------------------------
(* An instance of StateFiles for TLC.                                         *)
EXTENDS StateFiles, TLC

CONSTANT f1

\* Every machine was enrolled under the same label.
OneLabel == [k \in Machines |-> f1]

MachineSymmetry == Permutations(Machines)
=============================================================================
