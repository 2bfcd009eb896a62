--------------------------- MODULE RegisterRestart ---------------------------
(***************************************************************************)
(* Module Register with servers that stop and start again.  New gives a    *)
(* server the view of its command line, an empty register and, because it  *)
(* is a member of that view, lets it serve at once; nothing is read back   *)
(* from a disk.  The view is the one that was never reconfigured.          *)
(***************************************************************************)
EXTENDS Register

CONSTANT MaxRestarts     \* bound on the number of restarts

VARIABLE restarts

Restart(s) ==
  /\ restarts < MaxRestarts
  /\ restarts' = restarts + 1
  /\ register' = [register EXCEPT ![s] = InitialWrite]
  /\ call' = [c \in Client |->
               [call[c] EXCEPT ![s] = IF @.st = "sent" THEN InState("error") ELSE @]]
  /\ strays' = {m \in strays : m.process # s}
  /\ UNCHANGED <<view, err, pc, op, arg, msg, ops, history>>

RestartSpec ==
  /\ Init /\ restarts = 0
  /\ [][\/ Next /\ UNCHANGED restarts
        \/ \E s \in Up : Restart(s)]_<<vars, restarts>>
=============================================================================
