-------------------------- MODULE MCReconfiguration --------------------------
(***************************************************************************)
(* Small clusters for module Reconfiguration, of two, three or five        *)
(* servers, with what was accepted before the run begins.                  *)
(***************************************************************************)
EXTENDS Reconfiguration

CONSTANTS s1, s2, s3,   \* the servers of most clusters
          s4, s5        \* those of the cluster of five; in the others s4 is
                        \*   a process that never gets into a view

Cluster(servers, r1, r2, r3) ==
  [view |-> NewWithProcesses(servers), asked |-> {}, generated |-> {}, writes |-> TRUE,
   recv |-> [s \in Process |-> CASE s = s1 -> r1 [] s = s2 -> r2 [] s = s3 -> r3
                             [] OTHER -> {}]]

(* Everybody accepted the same updates: s1 leaves, s3 replaces it, or only *)
(* s3 stays, where the sequence has been generated already.                *)
S1Leaves == Cluster({s1, s2, s3}, {LeaveOf(s1)}, {LeaveOf(s1)}, {LeaveOf(s1)})

S3ReplacesS1 ==
  Cluster({s1, s2}, {LeaveOf(s1), JoinOf(s3)}, {LeaveOf(s1), JoinOf(s3)}, {})

OnlyS3Stays ==
  LET v == NewWithProcesses({s1, s2, s3})
      r == {LeaveOf(s1), LeaveOf(s2)}
  IN [Cluster({s1, s2, s3}, r, r, r) EXCEPT !.generated = {<<NewCopyWithUpdates(v, r)>>}]

(* Nobody has accepted anything yet, and s1 is going to ask.               *)
S1Asks == [Cluster({s1, s2}, {}, {}, {}) EXCEPT !.asked = {LeaveOf(s1)}]

(* Only s3 stays, and only s3 has accepted that s4 gives up: the generators *)
(* made a sequence of two views.                                           *)
TwoViews ==
  LET v == NewWithProcesses({s1, s2, s3})
      r == {LeaveOf(s1), LeaveOf(s2)}
      x == NewCopyWithUpdates(v, r)
      y == NewCopyWithUpdates(x, {LeaveOf(s4)})
  IN [Cluster({s1, s2, s3}, r, r, y \ v) EXCEPT !.generated = {<<x, y>>}]

(* s3 is about to replace s1 when both accept that s2 leaves as well.      *)
S2LeavesLater ==
  LET v == NewWithProcesses({s1, s2})
      x == NewCopyWithUpdates(v, {LeaveOf(s1), JoinOf(s3)})
      r == (x \ v) \cup {LeaveOf(s2)}
  IN [Cluster({s1, s2}, r, r, {}) EXCEPT !.generated = {<<x>>}, !.writes = FALSE]

(* s3 is about to join when both accept that s2 leaves.                    *)
S3JoinsAndS2Leaves ==
  LET v == NewWithProcesses({s1, s2})
      x == NewCopyWithUpdates(v, {JoinOf(s3)})
      r == {JoinOf(s3), LeaveOf(s2)}
  IN [Cluster({s1, s2}, r, r, {}) EXCEPT !.generated = {<<x>>}, !.writes = FALSE]

(* s1 and s2 are about to leave a cluster of five.                         *)
S1AndS2Leave ==
  LET v == NewWithProcesses(Process)
      r == {LeaveOf(s1), LeaveOf(s2)}
  IN [Cluster(Process, r, r, r) EXCEPT !.recv = [s \in Process |-> r],
                                       !.generated = {<<NewCopyWithUpdates(v, r)>>}]

(* The client and s1, s2 and s3 are far from s4 and s5: only the messages  *)
(* of view generators get through in time.  The write returns first.       *)
SameSide(s, p) == {s, p} \subseteq {s1, s2, s3} \/ {s, p} \subseteq {s4, s5}

SlowLinks ==
  /\ \A s, p \in Process : last[s][p] # NoSeq => SameSide(s, p) /\ high = 1
  /\ \A s \in Process : \A m \in stateSeen[s] : SameSide(s, m.from)
  /\ register[s4] = 0 /\ register[s5] = 0

ChangesWithWrites ==
  {OnlyS3Stays, S3ReplacesS1, S1Asks, TwoViews, S2LeavesLater}
CompleteChanges == {S1Leaves, S3ReplacesS1}
TwoLeave == {S1AndS2Leave}
LeavesWhileJoining == {S3JoinsAndS2Leaves}
=============================================================================
