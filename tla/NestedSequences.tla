--------------------------- MODULE NestedSequences ---------------------------
(***************************************************************************)
(* What the view generators of one view promise to a reconfiguration       *)
(* (pkg/server/reconfiguration.go): of two sequences that they generate,   *)
(* one contains the other, so that servers which follow different ones     *)
(* install the same views; and no view holds an update that nobody asked   *)
(* for, or lacks all of an old view.                                       *)
(***************************************************************************)
EXTENDS ViewSeqs

VARIABLES sequences,   \* the sequences generated so far
          oldViews,    \* the views that servers come from
          updates      \* the updates that servers have accepted

Nested(seq, other) ==
  \/ SeqOps!ToSet(seq) \subseteq SeqOps!ToSet(other)
  \/ SeqOps!ToSet(other) \subseteq SeqOps!ToSet(seq)

Valid(seq) ==
  /\ seq # <<>>
  /\ \A v \in SeqOps!ToSet(seq) :
       (\E old \in oldViews : old \subseteq v) /\ v \subseteq updates \cup UNION oldViews

Init == sequences = {}

Generate(seq) ==
  /\ Valid(seq)
  /\ \A other \in sequences : Nested(seq, other)
  /\ sequences' = sequences \cup {seq}
  /\ UNCHANGED <<oldViews, updates>>

Next == \E seq \in sequences' : Generate(seq)

Spec == Init /\ [][Next]_<<sequences, oldViews, updates>>
=============================================================================
