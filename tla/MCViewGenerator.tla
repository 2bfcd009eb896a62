--------------------------- MODULE MCViewGenerator ---------------------------
(***************************************************************************)
(* Views of two and of three servers for module ViewGenerator.             *)
(***************************************************************************)
EXTENDS ViewGenerator

CONSTANTS s1, s2, s3

Updates == {{}, {JoinOf(s3)}, {LeaveOf(s1)}, {JoinOf(s3), LeaveOf(s3)}}

Begin(v, r) ==
  [AssociatedView |-> v, currentView |-> [s \in Process |-> v],
   recv |-> [s \in Process |-> IF HasMember(v, s) THEN r[s] ELSE {}]]

(* Two servers have accepted nothing, the same, compatible or conflicting  *)
(* updates, also of a process that joined and left.                        *)
TwoServers == {Begin(NewWithProcesses({s1, s2}), r) : r \in [{s1, s2} -> Updates]}

(* s2 has still to install the view that is to be followed.                *)
S2IsBehind ==
  {[Begin(NewWithProcesses({s1, s2}), [s \in {s1, s2} |-> {JoinOf(s3)}])
      EXCEPT !.currentView[s2] = NewWithProcesses({s2})]}

(* Three servers have accepted the same updates.                           *)
ThreeServers ==
  {Begin(NewWithProcesses({s1, s2, s3}), [s \in {s1, s2, s3} |-> {LeaveOf(s1)}])}

SmallViews == TwoServers \cup S2IsBehind \cup ThreeServers

(* Only s1 has accepted the update.                                        *)
S1AloneAccepted ==
  {Begin(NewWithProcesses({s1, s2}), [s \in {s1, s2} |-> IF s = s1 THEN {JoinOf(s3)} ELSE {}])}
=============================================================================
