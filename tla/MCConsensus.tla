---------------------------- MODULE MCConsensus ----------------------------
(***************************************************************************)
(* Three members for module Consensus, in the order of their addresses.    *)
(***************************************************************************)
EXTENDS Consensus

CONSTANTS s1, s2, s3

Three == NewWithProcesses({s1, s2, s3})

InOrder == [s \in Process |-> CASE s = s1 -> 0 [] s = s2 -> 1 [] s = s3 -> 2]
=============================================================================
