--------------------------- MODULE AtomicRegister ---------------------------
(***************************************************************************)
(* What a Freestore register promises to its clients, without servers,     *)
(* views or quorums.  Every value written carries a timestamp that no      *)
(* other value has; an operation returns a written value whose timestamp   *)
(* is at least that of every operation that returned before it began, and  *)
(* a write's own timestamp is greater than all of those.  Ordering the     *)
(* operations by timestamp, each write before the reads of its value, is   *)
(* then a linearization: it agrees with the real-time order, and every     *)
(* read returns the last value written.                                    *)
(*                                                                         *)
(* An operation may also fail.  The client then stays failed, and its      *)
(* write may or may not be read later.                                     *)
(***************************************************************************)
EXTENDS Integers

CONSTANTS Client,       \* the clients
          Value,        \* the values they write
          NoValue       \* the value of the register before the first write

VARIABLES status,   \* what a client is doing
          floor,    \* the timestamp below which its operation may not return
          mine,     \* what its current write has issued, or NoWrite
          issued,   \* everything that has been written
          high,     \* the greatest timestamp that was returned
          returned  \* what the last operation of a client returned

vars == <<status, floor, mine, issued, high, returned>>

InitialWrite == [Value |-> NoValue, Timestamp |-> 0]

NoWrite == [Value |-> NoValue, Timestamp |-> -1]

Max2(a, b) == IF a >= b THEN a ELSE b

Init ==
  /\ status = [c \in Client |-> "idle"]
  /\ floor  = [c \in Client |-> 0]
  /\ mine   = [c \in Client |-> NoWrite]
  /\ issued = {InitialWrite}
  /\ high   = 0
  /\ returned = [c \in Client |-> InitialWrite]

Invoke(c, kind) ==
  /\ status[c] = "idle"
  /\ status' = [status EXCEPT ![c] = kind]
  /\ floor'  = [floor EXCEPT ![c] = high]
  /\ returned' = [returned EXCEPT ![c] = InitialWrite]
  /\ UNCHANGED <<mine, issued, high>>

\* The new timestamp is the successor of some timestamp that is in use.
Issue(c, value, i) ==
  LET w == [Value |-> value, Timestamp |-> i.Timestamp + 1] IN
  /\ status[c] = "Write"
  /\ mine[c] = NoWrite
  /\ w.Timestamp > floor[c]
  /\ \A j \in issued : j.Timestamp # w.Timestamp
  /\ mine'   = [mine EXCEPT ![c] = w]
  /\ issued' = issued \cup {w}
  /\ UNCHANGED <<status, floor, high, returned>>

ReturnRead(c, r) ==
  /\ status[c] = "Read"
  /\ r \in issued
  /\ r.Timestamp >= floor[c]
  /\ status' = [status EXCEPT ![c] = "idle"]
  /\ floor'  = [floor EXCEPT ![c] = 0]
  /\ high'   = Max2(high, r.Timestamp)
  /\ returned' = [returned EXCEPT ![c] = r]
  /\ UNCHANGED <<mine, issued>>

ReturnWrite(c) ==
  /\ status[c] = "Write"
  /\ mine[c] # NoWrite
  /\ status' = [status EXCEPT ![c] = "idle"]
  /\ mine'   = [mine EXCEPT ![c] = NoWrite]
  /\ floor'  = [floor EXCEPT ![c] = 0]
  /\ high'   = Max2(high, mine[c].Timestamp)
  /\ returned' = [returned EXCEPT ![c] = mine[c]]
  /\ UNCHANGED issued

Fail(c) ==
  /\ status[c] \in {"Read", "Write"}
  /\ status' = [status EXCEPT ![c] = "failed"]
  /\ mine'   = [mine EXCEPT ![c] = NoWrite]
  /\ floor'  = [floor EXCEPT ![c] = 0]
  /\ UNCHANGED <<issued, high, returned>>

Next ==
  \E c \in Client :
    \/ \E kind \in {"Read", "Write"} : Invoke(c, kind)
    \/ \E value \in Value, i \in issued : Issue(c, value, i)
    \/ \E r \in issued : ReturnRead(c, r)
    \/ ReturnWrite(c)
    \/ Fail(c)

Spec == Init /\ [][Next]_vars
=============================================================================
