------------------------------ MODULE Register ------------------------------
(***************************************************************************)
(* Clients that read and write the replicated register (pkg/client) of     *)
(* servers that serve it (pkg/server/register.go) while no view is being   *)
(* installed.  A client may still start from an old view, and a server may *)
(* still be in one.                                                        *)
(*                                                                         *)
(* Client.mutex serialises the operations of one client, so a client runs  *)
(* at most one at a time.  Its quorum phases run one RPC to every member   *)
(* of the client's view; call[c][s] is the state of the RPC to s:          *)
(*                                                                         *)
(*   none -> sent -> ok | old | error -> result | failed                   *)
(*                                                                         *)
(* where ok, old and error are replies that wait in resultChan, result and *)
(* failed are replies the phase has counted.  A request whose phase is     *)
(* over, or whose RPC returned an error, can still reach its server: the   *)
(* write requests of this kind are kept in strays.                         *)
(***************************************************************************)
EXTENDS Views

CONSTANTS Client,        \* the clients
          Writer,        \* those that write
          Value,         \* the values they write
          NoValue,       \* the nil of a register that was never written
          Up,            \* the servers that are running
          Unreliable,    \* the processes to which an RPC may fail
          NewestView,    \* the view installed last
          currentView,   \* the current view of every server
          InitialView,   \* the view every client starts from
          MaxOps         \* bound on the operations of every client

(* The last reconfiguration is over: no quorum of an older view is left in *)
(* that view.  This is what module Reconfiguration is about.               *)
StableCluster ==
  \A v \in View \ {NewestView} :
    Cardinality({s \in Members(v) \cap Up : currentView[s] = v}) < QuorumSize(v)

ASSUME RegisterAssumption ==
  /\ Writer \subseteq Client
  /\ Up \subseteq Process
  /\ Unreliable \subseteq Process
  /\ Process \ Up \subseteq Unreliable
  /\ NewestView \in View /\ Members(NewestView) # {}
  /\ currentView \in [Process -> View]
  /\ InitialView \in [Client -> View]
  /\ MaxOps \in [Client -> Nat]
  /\ StableCluster

VARIABLES register,  \* the Value and Timestamp of every server
          view,      \* Client.view
          err,       \* Client.err is set
          pc,        \* the quorum phase a client is in
          op, arg,   \* the operation it runs, and the value it writes
          msg,       \* finalValue, then the writeMsg of writeQuorum
          call,      \* the RPCs of the current phase
          strays,    \* write requests nobody waits for
          ops        \* the number of operations begun

serverVars == <<register, strays>>
clientVars == <<view, err, pc, op, arg, msg, call, ops>>

(* History: the greatest timestamp that an operation returned, that value  *)
(* when the current operation of a client began, everything written, and   *)
(* what the last operation of a client returned.                           *)
VARIABLES high, floor, issued, returned

history == <<high, floor, issued, returned>>

vars == <<serverVars, clientVars, history>>

Written == [Value : Value \cup {NoValue}, Timestamp : Nat]

\* Mutant: the search for the newest value starts below every timestamp.
InitialWrite_MinusOne == [Value |-> NoValue, Timestamp |-> -1]

InitialWrite == [Value |-> NoValue, Timestamp |-> 0]

CallState == {"none", "sent", "ok", "old", "error", "result", "failed"}

Call == [st : CallState, Value : Value \cup {NoValue}, Timestamp : Nat]

InState(st) == [st |-> st, Value |-> NoValue, Timestamp |-> 0]

Stray == [process : Process, View : View, Value : Value \cup {NoValue},
          Timestamp : Nat]

Max2(a, b) == IF a >= b THEN a ELSE b

-----------------------------------------------------------------------------
(***************************************************************************)
(* The quorum phases                                                       *)
(***************************************************************************)
broadcast(v) == [s \in Process |->
                  IF HasMember(v, s) THEN InState("sent") ELSE InState("none")]

Results(c) == {s \in Process : call[c][s].st = "result"}

Failed(c) == {s \in Process : call[c][s].st = "failed"}

\* Mutant: as many failures as are tolerated already end the phase.
SystemFailed_AtTolerated(c) ==
  /\ Cardinality(Results(c)) + Cardinality(Failed(c)) = NumberOfMembers(view[c])
  /\ Cardinality(Failed(c)) >= NumberOfToleratedFaults(view[c])

SystemFailed(c) ==
  /\ Cardinality(Results(c)) + Cardinality(Failed(c)) = NumberOfMembers(view[c])
  /\ Cardinality(Failed(c)) > NumberOfToleratedFaults(view[c])

QuorumReached(c) == Cardinality(Results(c)) = QuorumSize(view[c])

Waiting(c) == pc[c] # "idle" /\ ~SystemFailed(c) /\ ~QuorumReached(c)

\* readQuorum's look for divergence.
Diverged(c) ==
  \E s \in Process :
    call[c][s].st = "result" /\ call[c][s].Timestamp # msg[c].Timestamp

\* The write requests that are still under way when c stops waiting for them.
Unanswered(c) ==
  {m \in [process : Up, View : {view[c]}, Value : {msg[c].Value},
          Timestamp : {msg[c].Timestamp}] :
     pc[c] = "writeQuorum" /\ call[c][m.process].st = "sent"}

\* readQuorum and writeQuorum start over with another view.
Retry(c, v) ==
  /\ view'   = [view EXCEPT ![c] = v]
  /\ call'   = [call EXCEPT ![c] = broadcast(v)]
  /\ msg'    = [msg EXCEPT ![c] = IF pc[c] = "readQuorum" THEN InitialWrite ELSE @]
  /\ strays' = strays \cup Unanswered(c)
  /\ UNCHANGED <<register, err, pc, op, arg, ops, history>>

-----------------------------------------------------------------------------
(***************************************************************************)
(* The servers.  Both handlers hold currentViewMu and register.mu, so each *)
(* is one step.                                                            *)
(***************************************************************************)
Reply(c, s, reply) == call' = [call EXCEPT ![c][s] = reply]

Read(c, s) ==
  /\ s \in Up
  /\ pc[c] = "readQuorum"
  /\ call[c][s].st = "sent"
  /\ IF view[c] # currentView[s]
     THEN Reply(c, s, InState("old"))
     ELSE Reply(c, s, [st |-> "ok", Value |-> register[s].Value,
                       Timestamp |-> register[s].Timestamp])
  /\ UNCHANGED <<serverVars, view, err, pc, op, arg, msg, ops, history>>

\* Mutant: a late request overwrites a newer value.
Store_Always(s, w) == register' = [register EXCEPT ![s] = w]

\* Two writes with the same timestamp: the first one stays.
Store(s, w) ==
  register' = IF w.Timestamp > register[s].Timestamp
              THEN [register EXCEPT ![s] = w] ELSE register

Write(c, s) ==
  /\ s \in Up
  /\ pc[c] = "writeQuorum"
  /\ call[c][s].st = "sent"
  /\ IF view[c] # currentView[s]
     THEN Reply(c, s, InState("old")) /\ UNCHANGED register
     ELSE Reply(c, s, InState("ok")) /\ Store(s, msg[c])
  /\ UNCHANGED <<strays, view, err, pc, op, arg, msg, ops, history>>

\* The same handler, when nobody waits for the reply any more.
WriteStray(m) ==
  /\ strays' = strays \ {m}
  /\ IF m.View # currentView[m.process]
     THEN UNCHANGED register
     ELSE Store(m.process, [Value |-> m.Value, Timestamp |-> m.Timestamp])
  /\ UNCHANGED <<clientVars, history>>

\* SendRPCRequest returns an error.  The request may be lost or still on its
\* way; nothing obliges a stray to arrive.
RpcError(c, s) ==
  /\ s \in Unreliable
  /\ pc[c] # "idle"
  /\ call[c][s].st = "sent"
  /\ Reply(c, s, InState("error"))
  /\ strays' = strays \cup {m \in Unanswered(c) : m.process = s}
  /\ UNCHANGED <<register, view, err, pc, op, arg, msg, ops, history>>

-----------------------------------------------------------------------------
(***************************************************************************)
(* The client takes one reply from resultChan.                             *)
(***************************************************************************)
ReceiveNewerView(c, s) ==
  /\ call[c][s].st = "old"
  /\ Waiting(c)
  /\ MoreUpdatedThan(currentView[s], view[c])
  /\ Retry(c, currentView[s])

\* The server is the one that is behind: ask it again.
ReceiveOlderView(c, s) ==
  /\ call[c][s].st = "old"
  /\ Waiting(c)
  /\ ~MoreUpdatedThan(currentView[s], view[c])
  /\ Reply(c, s, InState("sent"))
  /\ UNCHANGED <<serverVars, view, err, pc, op, arg, msg, ops, history>>

ReceiveError(c, s) ==
  /\ call[c][s].st = "error"
  /\ Waiting(c)
  /\ Reply(c, s, InState("failed"))
  /\ UNCHANGED <<serverVars, view, err, pc, op, arg, msg, ops, history>>

ReceiveResult(c, s) ==
  /\ call[c][s].st = "ok"
  /\ Waiting(c)
  /\ Reply(c, s, [st |-> "result", Value |-> NoValue, Timestamp |-> call[c][s].Timestamp])
  /\ msg' = IF pc[c] = "readQuorum" /\ call[c][s].Timestamp > msg[c].Timestamp
            THEN [msg EXCEPT ![c] = [Value |-> call[c][s].Value,
                                     Timestamp |-> call[c][s].Timestamp]]
            ELSE msg
  /\ UNCHANGED <<serverVars, view, err, pc, op, arg, ops, history>>

-----------------------------------------------------------------------------
(***************************************************************************)
(* The operations of the client                                            *)
(***************************************************************************)
Begin(c, kind, value) ==
  /\ pc[c] = "idle"
  /\ ops[c] < MaxOps[c]
  /\ ops'   = [ops EXCEPT ![c] = @ + 1]
  /\ pc'    = [pc EXCEPT ![c] = "readQuorum"]
  /\ op'    = [op EXCEPT ![c] = kind]
  /\ arg'   = [arg EXCEPT ![c] = value]
  /\ msg'   = [msg EXCEPT ![c] = InitialWrite]
  /\ call'  = [call EXCEPT ![c] = broadcast(view[c])]
  /\ floor' = [floor EXCEPT ![c] = high]
  /\ returned' = [returned EXCEPT ![c] = InitialWrite]
  /\ UNCHANGED <<serverVars, view, err, high, issued>>

BeginRead(c) == ~err[c] /\ Begin(c, "Read", NoValue)

\* Mutant: a client goes on after an error.
BeginWrite_NoFailFast(c, value) == c \in Writer /\ Begin(c, "Write", value)

BeginWrite(c, value) == ~err[c] /\ c \in Writer /\ Begin(c, "Write", value)

\* Client.Write after readQuorum, which may have returned diffResultsErr.
StartWrite(c) ==
  /\ pc[c] = "readQuorum" /\ op[c] = "Write" /\ QuorumReached(c)
  /\ LET w == [Value |-> arg[c], Timestamp |-> msg[c].Timestamp + 1]
     IN msg' = [msg EXCEPT ![c] = w] /\ issued' = issued \cup {w}
  /\ pc'   = [pc EXCEPT ![c] = "writeQuorum"]
  /\ call' = [call EXCEPT ![c] = broadcast(view[c])]
  /\ UNCHANGED <<serverVars, view, err, op, arg, ops, high, floor, returned>>

read2ndPhase(c) ==
  /\ pc[c] = "readQuorum" /\ op[c] = "Read" /\ QuorumReached(c)
  /\ Diverged(c)
  /\ pc'   = [pc EXCEPT ![c] = "writeQuorum"]
  /\ call' = [call EXCEPT ![c] = broadcast(view[c])]
  /\ UNCHANGED <<serverVars, view, err, op, arg, msg, ops, history>>

\* An operation ends: its variables are gone, the requests of its last phase
\* are not.
EndPhase(c) ==
  /\ pc'     = [pc EXCEPT ![c] = "idle"]
  /\ call'   = [call EXCEPT ![c] = [s \in Process |-> InState("none")]]
  /\ strays' = strays \cup Unanswered(c)
  /\ op'     = [op EXCEPT ![c] = "Read"]
  /\ arg'    = [arg EXCEPT ![c] = NoValue]
  /\ msg'    = [msg EXCEPT ![c] = InitialWrite]
  /\ floor'  = [floor EXCEPT ![c] = 0]
  /\ UNCHANGED <<register, view, ops, issued>>

\* A Read returns the value it found, a Write the one it wrote.
Return(c) ==
  /\ high' = Max2(high, msg[c].Timestamp)
  /\ returned' = [returned EXCEPT ![c] = msg[c]]
  /\ EndPhase(c) /\ UNCHANGED err

\* Mutant: the second phase is skipped.
ReturnRead_SkipWriteBack(c) ==
  /\ pc[c] = "readQuorum" /\ op[c] = "Read" /\ QuorumReached(c)
  /\ Return(c)

ReturnRead(c) ==
  /\ pc[c] = "readQuorum" /\ op[c] = "Read" /\ QuorumReached(c)
  /\ ~Diverged(c)
  /\ Return(c)

\* Mutant: the second phase returns nil instead of the value it wrote back.
ReturnFromWriteQuorum_Nil(c) ==
  /\ pc[c] = "writeQuorum" /\ QuorumReached(c)
  /\ high' = Max2(high, msg[c].Timestamp)
  /\ returned' = [returned EXCEPT ![c] =
                    IF op[c] = "Read" THEN [msg[c] EXCEPT !.Value = NoValue] ELSE msg[c]]
  /\ EndPhase(c) /\ UNCHANGED err

\* A Write returns, or a Read after its second phase.
ReturnFromWriteQuorum(c) ==
  /\ pc[c] = "writeQuorum" /\ QuorumReached(c)
  /\ Return(c)

\* Mutant: any view that is offered is tried.
couldGetNewView_AnyView(c, s) ==
  /\ pc[c] # "idle" /\ SystemFailed(c)
  /\ s \in Up
  /\ Retry(c, currentView[s])

(* Too many RPCs failed.  couldGetNewView asks some processes for their    *)
(* view: one that answers may have left the client's view behind, or the   *)
(* answer is no newer, or nobody answers.                                  *)
couldGetNewView(c, s) ==
  /\ pc[c] # "idle" /\ SystemFailed(c)
  /\ s \in Up
  /\ MoreUpdatedThan(currentView[s], view[c])
  /\ Retry(c, currentView[s])

Fail(c) ==
  /\ pc[c] # "idle" /\ SystemFailed(c)
  /\ err' = [err EXCEPT ![c] = TRUE]
  /\ EndPhase(c) /\ UNCHANGED <<high, returned>>

-----------------------------------------------------------------------------
Init ==
  /\ register = [s \in Process |-> InitialWrite]
  /\ view   = InitialView
  /\ err    = [c \in Client |-> FALSE]
  /\ pc     = [c \in Client |-> "idle"]
  /\ op     = [c \in Client |-> "Read"]
  /\ arg    = [c \in Client |-> NoValue]
  /\ msg    = [c \in Client |-> InitialWrite]
  /\ call   = [c \in Client |-> [s \in Process |-> InState("none")]]
  /\ strays = {}
  /\ ops    = [c \in Client |-> 0]
  /\ high   = 0
  /\ floor  = [c \in Client |-> 0]
  /\ issued = {InitialWrite}
  /\ returned = [c \in Client |-> InitialWrite]

Next ==
  \/ \E m \in strays : WriteStray(m)
  \/ \E c \in Client :
       \/ BeginRead(c)
       \/ \E value \in Value : BeginWrite(c, value)
       \/ StartWrite(c)
       \/ read2ndPhase(c)
       \/ ReturnRead(c)
       \/ ReturnFromWriteQuorum(c)
       \/ Fail(c)
       \/ \E s \in Process :
            \/ Read(c, s)
            \/ Write(c, s)
            \/ RpcError(c, s)
            \/ ReceiveNewerView(c, s)
            \/ ReceiveOlderView(c, s)
            \/ ReceiveError(c, s)
            \/ ReceiveResult(c, s)
            \/ couldGetNewView(c, s)

Spec == Init /\ [][Next]_vars
-----------------------------------------------------------------------------
(* The types of all variables; timestamps never go below the zero of a     *)
(* new register.                                                           *)
TypeOK ==
  /\ register \in [Process -> Written]
  /\ view   \in [Client -> View]
  /\ err    \in [Client -> BOOLEAN]
  /\ pc     \in [Client -> {"idle", "readQuorum", "writeQuorum"}]
  /\ op     \in [Client -> {"Read", "Write"}]
  /\ arg    \in [Client -> Value \cup {NoValue}]
  /\ msg    \in [Client -> Written]
  /\ call   \in [Client -> [Process -> Call]]
  /\ strays \subseteq Stray
  /\ ops    \in [Client -> Nat]
  /\ \A c \in Client : ops[c] <= MaxOps[c]
  /\ high   \in Nat
  /\ floor  \in [Client -> Nat]
  /\ issued \subseteq Written
  /\ returned \in [Client -> Written]
-----------------------------------------------------------------------------
(* Once an operation returned a timestamp, a majority of the newest view   *)
(* holds that timestamp or a later one, whatever requests of finished or   *)
(* failed operations arrive afterwards.                                    *)
ReturnedIsHeld ==
  \E Q \in SUBSET Members(NewestView) :
    /\ Cardinality(Q) >= QuorumSize(NewestView)
    /\ \A s \in Q : register[s].Timestamp >= high

(* The quorum that ends readQuorum has seen the timestamp of everything    *)
(* that was returned before the operation began, whichever views the       *)
(* client went through, and whatever became of the RPCs it gave up on.     *)
ReadsAreFresh ==
  \A c \in Client :
    pc[c] = "readQuorum" /\ QuorumReached(c) => msg[c].Timestamp >= floor[c]

(* RPC errors to no more processes than a view tolerates are masked: a     *)
(* client fails only in a view with fewer than a majority of reliable      *)
(* members.                                                                *)
FailsOnlyWithoutMajority ==
  \A c \in Client :
    err[c] => Cardinality(Members(view[c]) \cap Unreliable)
                > NumberOfToleratedFaults(view[c])

SingleWriter == \A c1, c2 \in Writer : c1 = c2

(* With one writer a timestamp stands for one value, although the writer   *)
(* finds the timestamp by asking a quorum that may not have its own last   *)
(* write: the write that failed is never followed by another one.          *)
TimestampsAreUnique ==
  \A w1, w2 \in issued : w1.Timestamp = w2.Timestamp => w1 = w2

-----------------------------------------------------------------------------
(***************************************************************************)
(* What AtomicRegister sees of a client.                                   *)
(***************************************************************************)
status == [c \in Client |-> IF err[c] THEN "failed"
                            ELSE IF pc[c] = "idle" THEN "idle" ELSE op[c]]

mine == [c \in Client |-> IF op[c] = "Write" /\ pc[c] = "writeQuorum"
                          THEN msg[c]
                          ELSE [Value |-> NoValue, Timestamp |-> -1]]

AR == INSTANCE AtomicRegister
        WITH status <- status, mine <- mine, floor <- floor, issued <- issued,
             high <- high, returned <- returned

(* The register is atomic: what the clients see, the records that their    *)
(* operations return included, is a behaviour of AtomicRegister when one   *)
(* of them writes.                                                         *)
Atomic == AR!Spec

(* Servers that run handle their requests, an RPC to a process that does   *)
(* not run fails, and the goroutine of a client runs.  At any time at most *)
(* one of the steps of an RPC, and one of those that end a phase, can be   *)
(* taken.                                                                  *)
Fairness ==
  \A c \in Client :
    /\ WF_vars(\/ StartWrite(c) \/ read2ndPhase(c) \/ ReturnRead(c)
               \/ ReturnFromWriteQuorum(c)
               \/ Fail(c) \/ \E s \in Process : couldGetNewView(c, s))
    /\ \A s \in Process :
         WF_vars(\/ Read(c, s) \/ Write(c, s) \/ (s \notin Up /\ RpcError(c, s))
                 \/ ReceiveNewerView(c, s) \/ ReceiveOlderView(c, s)
                 \/ ReceiveError(c, s) \/ ReceiveResult(c, s))

FairSpec == Spec /\ Fairness

(* Every operation ends, in a view that has a reachable majority or after  *)
(* the client moved on to a newer view.                                    *)
OperationsEnd ==
  \A c \in Client : pc[c] # "idle" ~> pc[c] = "idle"
=============================================================================
