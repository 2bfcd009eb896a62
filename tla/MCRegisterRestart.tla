-------------------------- MODULE MCRegisterRestart --------------------------
(* Servers that were never reconfigured and that may be restarted.         *)
EXTENDS RegisterRestart, TLC

CONSTANT MaxClientOps       \* bound on the operations of one client

FirstView == NewWithProcesses(Process)

AllInFirstView == [s \in Process |-> FirstView]

ClientsInFirstView == [c \in Client |-> FirstView]

OpsBound == [c \in Client |-> MaxClientOps]

ServersAndValues == Permutations(Process) \cup Permutations(Value)
=============================================================================
