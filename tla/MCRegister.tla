----------------------------- MODULE MCRegister -----------------------------
(***************************************************************************)
(* Two clusters for module Register.                                       *)
(***************************************************************************)
EXTENDS Register, TLC

CONSTANTS s1, s2, s3, s4, s5,           \* the servers
          MaxReaderOps, MaxWriterOps    \* bounds on operations

OpsBound == [c \in Client |-> IF c \in Writer THEN MaxWriterOps ELSE MaxReaderOps]

(* A cluster that was never reconfigured.                                  *)
FirstView == NewWithProcesses({s1, s2, s3})

AllInFirstView == [s \in Process |-> FirstView]

ClientsInFirstView == [c \in Client |-> FirstView]

(* A cluster that went from {s1, s2} over {s2, s3} to {s3, s4, s5}.  s1    *)
(* has left and is gone, and s2 has not noticed the newer views.  The      *)
(* writer knows the second view, where it meets one server that is behind  *)
(* it and one that is ahead of it.  The reader knows the first one, where  *)
(* nobody can tell it of the others.                                       *)
SmallView == NewWithProcesses({s1, s2})

MiddleView == NewCopyWithUpdates(SmallView, {JoinOf(s3), LeaveOf(s1)})

NewView == NewCopyWithUpdates(MiddleView, {JoinOf(s4), JoinOf(s5), LeaveOf(s2)})

S2Behind == [s \in Process |-> IF s \in {s1, s2} THEN SmallView ELSE NewView]

ClientsInOldViews == [c \in Client |-> IF c \in Writer THEN MiddleView ELSE SmallView]

(* s2 and s3 are interchangeable when they fail alike, and so are values.  *)
UnreliableSymmetry == Permutations({s2, s3}) \cup Permutations(Value)
=============================================================================
