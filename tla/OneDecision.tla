---------------------------- MODULE OneDecision ----------------------------
(***************************************************************************)
(* What an instance of pkg/consensus promises to the servers that ask it:  *)
(* whatever is proposed, and whoever learns the result, there is at most   *)
(* one result, and it is one of the values that were proposed.             *)
(***************************************************************************)
VARIABLES proposed,   \* the values that were proposed
          results     \* the values that somebody learned

Init == proposed = {} /\ results = {}

Propose == proposed \subseteq proposed' /\ UNCHANGED results

Learn(v) ==
  /\ results = {}
  /\ results' = {v}
  /\ UNCHANGED proposed

Next == Propose \/ \E v \in proposed : Learn(v)

Spec == Init /\ [][Next]_<<proposed, results>>
=============================================================================
