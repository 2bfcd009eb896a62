------------------------------ MODULE ViewSeqs ------------------------------
(***************************************************************************)
(* The view sequences of pkg/server/viewseq.go, as TLA+ sequences of views *)
(* (Go's nil ViewSeq is the empty sequence).                               *)
(***************************************************************************)
EXTENDS Views, Sequences

SeqOps == INSTANCE SequencesExt

HasView(viewSeq, v) == \E i \in DOMAIN viewSeq : Equal(viewSeq[i], v)

\* Two sequences with the same views in another order are equal.
SeqEqual(viewSeq, other) ==
  /\ Len(other) = Len(viewSeq)
  /\ \A i \in DOMAIN viewSeq : HasView(other, viewSeq[i])

\* Both searches scan from the left and move on a strict improvement.
GetLeastUpdatedView(viewSeq) ==
  SeqOps!FoldLeft(LAMBDA least, v : IF LessUpdatedThan(v, least) THEN v ELSE least,
                  viewSeq[1], viewSeq)

GetMostUpdatedView(viewSeq) ==
  IF viewSeq = <<>> THEN NewWithUpdates({})
  ELSE SeqOps!FoldLeft(LAMBDA most, v : IF MoreUpdatedThan(v, most) THEN v ELSE most,
                       viewSeq[1], viewSeq)

HasViewMoreUpdatedThan(viewSeq, other) ==
  \E i \in DOMAIN viewSeq : MoreUpdatedThan(viewSeq[i], other)

\* Mutant: the views are appended whether or not they are there.
AppendViews_NoCheck(viewSeq, views) == viewSeq \o views

\* Views already in viewSeq are skipped; duplicates within views are not.
AppendViews(viewSeq, views) ==
  SeqOps!FoldLeft(LAMBDA newSeq, v : IF HasView(viewSeq, v) THEN newSeq ELSE Append(newSeq, v),
                  viewSeq, views)

\* The views that installOthersViewsFromViewSeqLocked keeps.
ViewsMoreUpdatedThan(viewSeq, other) ==
  SeqOps!FoldLeft(LAMBDA newSeq, v : IF MoreUpdatedThan(v, other) THEN Append(newSeq, v) ELSE newSeq,
                  <<>>, viewSeq)
=============================================================================
