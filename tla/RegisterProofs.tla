--------------------------- MODULE RegisterProofs ---------------------------
(***************************************************************************)
(* What module Register guarantees for every set of servers, clients and   *)
(* values, every cluster that is stable, and any number of operations.     *)
(***************************************************************************)
EXTENDS Register, ViewProofs

(***************************************************************************)
(* Type correctness                                                        *)
(***************************************************************************)
(* The RPCs of a new phase are well typed.                                 *)
LEMMA BroadcastType ==
  ASSUME NEW v \in View
  PROVE  broadcast(v) \in [Process -> Call]
BY DEF broadcast, InState, Call, CallState

(* The requests a phase leaves behind are well typed.                      *)
LEMMA UnansweredType ==
  ASSUME TypeOK, NEW c \in Client
  PROVE  Unanswered(c) \subseteq Stray
BY RegisterAssumption DEF TypeOK, Unanswered, Stray, Written

(* Replacing one RPC keeps call well typed.                                *)
LEMMA ReplyType ==
  ASSUME TypeOK, NEW c \in Client, NEW s \in Process, NEW r \in Call, Reply(c, s, r)
  PROVE  call' \in [Client -> [Process -> Call]]
BY DEF TypeOK, Reply

(* Storing a well typed value keeps register well typed.                   *)
LEMMA StoreType ==
  ASSUME TypeOK, NEW s \in Process, NEW w \in Written, Store(s, w)
  PROVE  register' \in [Process -> Written]
BY DEF TypeOK, Store

(* Every step of a server or a client keeps the types.                     *)
LEMMA TypeStep == TypeOK /\ [Next]_vars => TypeOK'
<1> SUFFICES ASSUME TypeOK, [Next]_vars PROVE TypeOK'
  OBVIOUS
<1> USE RegisterAssumption
<1>0. \A st \in CallState : InState(st) \in Call
  BY DEF InState, Call
<1>1. ASSUME NEW m \in strays, WriteStray(m) PROVE TypeOK'
  <2>1. m \in Stray
    BY DEF TypeOK
  <2>2. register' \in [Process -> Written]
    BY <1>1, <2>1, StoreType DEF WriteStray, Stray, Written, TypeOK
  <2> QED
    BY <1>1, <2>2 DEF WriteStray, TypeOK, clientVars, history
<1>2. ASSUME NEW c \in Client, NEW kind \in {"Read", "Write"},
             NEW value \in Value \cup {NoValue}, Begin(c, kind, value)
      PROVE  TypeOK'
  <2>1. broadcast(view[c]) \in [Process -> Call]
    BY BroadcastType DEF TypeOK
  <2> QED
    BY <1>2, <2>1 DEF Begin, TypeOK, Written, InitialWrite, serverVars
<1>3. ASSUME NEW c \in Client, StartWrite(c) PROVE TypeOK'
  <2>1. broadcast(view[c]) \in [Process -> Call]
    BY BroadcastType DEF TypeOK
  <2>2. [Value |-> arg[c], Timestamp |-> msg[c].Timestamp + 1] \in Written
    BY DEF TypeOK, Written
  <2> QED
    BY <1>3, <2>1, <2>2 DEF StartWrite, TypeOK, serverVars
<1>4. ASSUME NEW c \in Client, read2ndPhase(c) PROVE TypeOK'
  <2>1. broadcast(view[c]) \in [Process -> Call]
    BY BroadcastType DEF TypeOK
  <2> QED
    BY <1>4, <2>1 DEF read2ndPhase, TypeOK, serverVars, history
<1>5. ASSUME NEW c \in Client, EndPhase(c), high' \in Nat,
             err' \in [Client -> BOOLEAN], returned' \in [Client -> Written]
      PROVE  TypeOK'
  <2>1. strays' \subseteq Stray
    BY <1>5, UnansweredType DEF EndPhase, TypeOK
  <2>2. [s \in Process |-> InState("none")] \in [Process -> Call]
    BY <1>0 DEF CallState
  <2> QED
    BY <1>5, <2>1, <2>2 DEF EndPhase, TypeOK, Written, InitialWrite
<1>6. ASSUME NEW c \in Client, ReturnRead(c) \/ ReturnFromWriteQuorum(c)
      PROVE  TypeOK'
  <2>1. high' \in Nat
    BY <1>6 DEF ReturnRead, ReturnFromWriteQuorum, Return, Max2, TypeOK, Written
  <2> QED
    BY <1>6, <1>5, <2>1 DEF ReturnRead, ReturnFromWriteQuorum, Return, TypeOK
<1>7. ASSUME NEW c \in Client, Fail(c) PROVE TypeOK'
  BY <1>7, <1>5 DEF Fail, TypeOK
<1>8. ASSUME NEW c \in Client, NEW v \in View, Retry(c, v) PROVE TypeOK'
  <2>1. broadcast(v) \in [Process -> Call]
    BY BroadcastType
  <2>2. strays' \subseteq Stray
    BY <1>8, UnansweredType DEF Retry, TypeOK
  <2> QED
    BY <1>8, <2>1, <2>2 DEF Retry, TypeOK, Written, InitialWrite, history
<1>9. ASSUME NEW c \in Client, NEW s \in Process, Read(c, s) PROVE TypeOK'
  <2>1. call' \in [Client -> [Process -> Call]]
    BY <1>0, <1>9, ReplyType DEF Read, TypeOK, Written, Call, CallState
  <2> QED
    BY <1>9, <2>1 DEF Read, TypeOK, serverVars, history
<1>10. ASSUME NEW c \in Client, NEW s \in Process, Write(c, s) PROVE TypeOK'
  <2>1. call' \in [Client -> [Process -> Call]]
    BY <1>0, <1>10, ReplyType DEF Write, CallState
  <2>2. register' \in [Process -> Written]
    BY <1>10, StoreType DEF Write, TypeOK
  <2> QED
    BY <1>10, <2>1, <2>2 DEF Write, TypeOK, history
<1>11. ASSUME NEW c \in Client, NEW s \in Process, RpcError(c, s) PROVE TypeOK'
  <2>1. call' \in [Client -> [Process -> Call]]
    BY <1>0, <1>11, ReplyType DEF RpcError, CallState
  <2>2. strays' \subseteq Stray
    BY <1>11, UnansweredType DEF RpcError, TypeOK
  <2> QED
    BY <1>11, <2>1, <2>2 DEF RpcError, TypeOK, history
<1>12. ASSUME NEW c \in Client, NEW s \in Process,
              ReceiveOlderView(c, s) \/ ReceiveError(c, s)
       PROVE  TypeOK'
  <2>1. call' \in [Client -> [Process -> Call]]
    BY <1>0, <1>12, ReplyType DEF ReceiveOlderView, ReceiveError, CallState
  <2> QED
    BY <1>12, <2>1 DEF ReceiveOlderView, ReceiveError, TypeOK, serverVars, history
<1>13. ASSUME NEW c \in Client, NEW s \in Process, ReceiveResult(c, s) PROVE TypeOK'
  <2>1. call[c][s] \in Call
    BY DEF TypeOK
  <2>2. [st |-> "result", Value |-> NoValue, Timestamp |-> call[c][s].Timestamp] \in Call
    BY <2>1 DEF InState, Call, CallState
  <2>3. call' \in [Client -> [Process -> Call]]
    BY <2>2, <1>13, ReplyType DEF ReceiveResult
  <2>4. msg' \in [Client -> Written]
    BY <2>1, <1>13 DEF ReceiveResult, TypeOK, Call, Written
  <2> QED
    BY <1>13, <2>3, <2>4 DEF ReceiveResult, TypeOK, serverVars, history
<1>14. CASE UNCHANGED vars
  BY <1>14 DEF vars, serverVars, clientVars, history, TypeOK
<1> QED
  BY <1>1, <1>2, <1>3, <1>4, <1>6, <1>7, <1>8, <1>9, <1>10, <1>11, <1>12,
     <1>13, <1>14
  DEF Next, BeginRead, BeginWrite, ReceiveNewerView, couldGetNewView

(* The initial state is well typed.                                        *)
LEMMA TypeInit == Init => TypeOK
BY RegisterAssumption
DEF Init, TypeOK, Written, InitialWrite, Call, CallState, InState

(* Every variable of the model keeps its type.                             *)
THEOREM TypeCorrect == Spec => []TypeOK
BY TypeInit, TypeStep, PTL DEF Spec
-----------------------------------------------------------------------------

-----------------------------------------------------------------------------
(***************************************************************************)
(* The inductive invariant behind freshness.  A reply is evidence about    *)
(* the register of the server that sent it, and stays so because           *)
(* timestamps only grow; an operation that began when high was returned    *)
(* meets, in any quorum of the newest view, a server that held high before *)
(* it was asked.                                                           *)
(***************************************************************************)
(* What the state of the RPC of client c to server s says.                 *)
CallInv(c, s) ==
  LET k == call[c][s] IN
  /\ k.st # "none" => pc[c] # "idle" /\ s \in Members(view[c])
  /\ k.st \in {"ok", "result"} => s \in Up /\ currentView[s] = view[c]
  /\ k.st \in {"error", "failed"} => s \in Unreliable
  /\ k.st \in {"ok", "result"} /\ pc[c] = "readQuorum"
       => register[s].Timestamp >= k.Timestamp
  /\ k.st = "result" /\ pc[c] = "readQuorum" => msg[c].Timestamp >= k.Timestamp
  /\ k.st \in {"ok", "result"} /\ pc[c] = "writeQuorum"
       => register[s].Timestamp >= msg[c].Timestamp

(* A majority of the newest view.                                          *)
Quorum(Q) ==
  Q \in SUBSET Members(NewestView) /\ Cardinality(Q) >= QuorumSize(NewestView)

(* Some majority held floor[c] already when c asked it, or will hold it    *)
(* when c asks it.                                                         *)
FloorInv(c) ==
  /\ pc[c] = "readQuorum" =>
       \E Q : /\ Quorum(Q)
              /\ \A s \in Q :
                   /\ register[s].Timestamp >= floor[c]
                   /\ call[c][s].st \in {"ok", "result"}
                        => call[c][s].Timestamp >= floor[c]
  /\ pc[c] = "writeQuorum" => msg[c].Timestamp >= floor[c]

(* A client that failed does nothing more.                                 *)
FailInv(c) ==
  err[c] => /\ pc[c] = "idle"
            /\ Cardinality(Members(view[c]) \cap Unreliable)
                 > NumberOfToleratedFaults(view[c])

FreshInv ==
  /\ TypeOK
  /\ \A c \in Client, s \in Process : CallInv(c, s)
  /\ \A c \in Client : FloorInv(c)
  /\ \A c \in Client : FailInv(c)
  /\ ReturnedIsHeld

(* A quorum is only ever reached in the newest view.                       *)
LEMMA QuorumsAreInNewestView ==
  ASSUME FreshInv, NEW c \in Client, QuorumReached(c)
  PROVE  view[c] = NewestView /\ Quorum(Results(c))
<1> DEFINE Here == {s \in Members(view[c]) \cap Up : currentView[s] = view[c]}
<1>1. view[c] \in View
  BY DEF FreshInv, TypeOK
<1>2. Results(c) \in SUBSET Here
  BY DEF FreshInv, CallInv, Results, Members
<1>3. Here \in SUBSET Members(view[c]) /\ IsFiniteSet(Here)
  BY <1>1, QuorumIsMajority, FS_Subset
<1>4. /\ Cardinality(Results(c)) <= Cardinality(Here)
      /\ Cardinality(Results(c)) \in Nat /\ Cardinality(Here) \in Nat
  BY <1>2, <1>3, FS_Subset, FS_CardinalityType
<1>5. view[c] = NewestView
  <2> SUFFICES ASSUME view[c] # NewestView PROVE FALSE
    OBVIOUS
  <2>1. Cardinality(Here) < QuorumSize(view[c])
    BY <1>1, RegisterAssumption DEF StableCluster
  <2> QED
    BY <1>1, <1>4, <2>1, QuorumIsMajority DEF QuorumReached
<1>6. QuorumSize(view[c]) \in Nat
  BY <1>1, QuorumIsMajority
<1> QED
  BY <1>2, <1>3, <1>5, <1>6 DEF QuorumReached, Quorum

(* So readQuorum, when it ends, has met the floor.                         *)
LEMMA QuorumMeetsFloor ==
  ASSUME FreshInv, NEW c \in Client, pc[c] = "readQuorum", QuorumReached(c)
  PROVE  msg[c].Timestamp >= floor[c]
<1>1. PICK Q : /\ Quorum(Q)
               /\ \A s \in Q : call[c][s].st \in {"ok", "result"}
                                 => call[c][s].Timestamp >= floor[c]
  BY DEF FreshInv, FloorInv
<1>2. view[c] = NewestView /\ Quorum(Results(c))
  BY QuorumsAreInNewestView
<1>3. PICK s \in Q : s \in Results(c)
  BY <1>1, <1>2, QuorumIntersection, RegisterAssumption DEF Quorum
<1>4. s \in Process /\ call[c][s].st = "result"
  BY <1>3 DEF Results
<1>5. msg[c].Timestamp >= call[c][s].Timestamp
  BY <1>4 DEF FreshInv, CallInv
<1>6. call[c][s].Timestamp >= floor[c]
  BY <1>1, <1>3, <1>4
<1>7. call[c][s].Timestamp \in Nat /\ msg[c].Timestamp \in Nat /\ floor[c] \in Nat
  BY <1>4 DEF FreshInv, TypeOK, Call, Written
<1> QED
  BY <1>5, <1>6, <1>7
-----------------------------------------------------------------------------
(* The timestamp of a server never goes back: Write is guarded, and so is  *)
(* the handling of a stray.                                                *)
Grows == \A s \in Process : register'[s].Timestamp >= register[s].Timestamp

(* No action of the system lets a timestamp go back.                       *)
LEMMA RegisterGrows == TypeOK /\ [Next]_vars => Grows
<1> SUFFICES ASSUME TypeOK, [Next]_vars PROVE Grows
  OBVIOUS
<1>1. ASSUME NEW s \in Process, NEW w \in Written, Store(s, w) PROVE Grows
  BY <1>1 DEF Store, Grows, TypeOK, Written
<1>2. ASSUME UNCHANGED register PROVE Grows
  BY <1>2 DEF Grows, TypeOK, Written
<1>3. ASSUME NEW m \in strays, WriteStray(m) PROVE Grows
  <2>1. m.process \in Process
        /\ [Value |-> m.Value, Timestamp |-> m.Timestamp] \in Written
    BY DEF TypeOK, Stray, Written
  <2> QED
    BY <1>1, <1>2, <1>3, <2>1 DEF WriteStray
<1>4. ASSUME NEW c \in Client, NEW s \in Process, Write(c, s) PROVE Grows
  BY <1>1, <1>2, <1>4 DEF Write, TypeOK
<1>5. ASSUME NEW c \in Client,
             \/ BeginRead(c) \/ \E value \in Value : BeginWrite(c, value)
             \/ StartWrite(c) \/ read2ndPhase(c) \/ ReturnRead(c)
             \/ ReturnFromWriteQuorum(c) \/ Fail(c)
      PROVE  UNCHANGED register
  BY <1>5 DEF BeginRead, BeginWrite, Begin, StartWrite, read2ndPhase, ReturnRead,
              ReturnFromWriteQuorum, Return, Fail, EndPhase, serverVars
<1>6. ASSUME NEW c \in Client, NEW s \in Process,
             \/ Read(c, s) \/ RpcError(c, s) \/ ReceiveNewerView(c, s)
             \/ ReceiveOlderView(c, s) \/ ReceiveError(c, s)
             \/ ReceiveResult(c, s) \/ couldGetNewView(c, s)
      PROVE  UNCHANGED register
  BY <1>6 DEF Read, RpcError, ReceiveNewerView, couldGetNewView, Retry,
              ReceiveOlderView, ReceiveError, ReceiveResult, serverVars
<1>7. CASE UNCHANGED vars
  BY <1>2, <1>7 DEF vars, serverVars
<1> QED
  BY <1>2, <1>3, <1>4, <1>5, <1>6, <1>7 DEF Next

Same(c) ==
  /\ call'[c] = call[c] /\ pc'[c] = pc[c] /\ view'[c] = view[c]
  /\ msg'[c] = msg[c] /\ floor'[c] = floor[c] /\ err'[c] = err[c]

(* What others do does not disturb what a client knows.                    *)
LEMMA OthersAreUndisturbed ==
  ASSUME FreshInv, TypeOK', Grows, NEW c \in Client, Same(c)
  PROVE  /\ \A s \in Process : CallInv(c, s)'
         /\ FloorInv(c)'
         /\ FailInv(c)'
<1>1. \A s \in Process : /\ register[s].Timestamp \in Nat
                         /\ register'[s].Timestamp \in Nat
                         /\ call[c][s].Timestamp \in Nat
  BY DEF FreshInv, TypeOK, Written, Call
<1>2. msg[c].Timestamp \in Nat /\ floor[c] \in Nat
  BY DEF FreshInv, TypeOK, Written
<1>3. ASSUME NEW s \in Process PROVE CallInv(c, s)'
  <2>1. CallInv(c, s)
    BY DEF FreshInv
  <2> QED
    BY <1>1, <1>2, <2>1 DEF CallInv, Grows, Same
<1>4. FloorInv(c)'
  <2>1. FloorInv(c)
    BY DEF FreshInv
  <2>2. ASSUME pc[c] = "readQuorum"
        PROVE  \E Q : /\ Quorum(Q)
                      /\ \A s \in Q :
                           /\ register'[s].Timestamp >= floor[c]
                           /\ call[c][s].st \in {"ok", "result"}
                                => call[c][s].Timestamp >= floor[c]
    <3>1. PICK Q : /\ Quorum(Q)
                   /\ \A s \in Q :
                        /\ register[s].Timestamp >= floor[c]
                        /\ call[c][s].st \in {"ok", "result"}
                             => call[c][s].Timestamp >= floor[c]
      BY <2>1, <2>2 DEF FloorInv
    <3>2. \A s \in Q : s \in Process
      BY <3>1 DEF Quorum, Members
    <3> QED
      BY <1>1, <1>2, <3>1, <3>2 DEF Grows
  <2> QED
    BY <2>1, <2>2 DEF FloorInv, Same, Quorum
<1>5. FailInv(c)'
  BY DEF FreshInv, FailInv, Same
<1> QED
  BY <1>3, <1>4, <1>5

(* What a majority holds it goes on holding.                               *)
LEMMA HeldStays ==
  ASSUME FreshInv, TypeOK', Grows, high' = high
  PROVE  ReturnedIsHeld'
<1>1. PICK Q \in SUBSET Members(NewestView) :
        /\ Cardinality(Q) >= QuorumSize(NewestView)
        /\ \A s \in Q : register[s].Timestamp >= high
  BY DEF FreshInv, ReturnedIsHeld
<1>2. \A s \in Q : s \in Process
  BY DEF Members
<1>3. high \in Nat /\ \A s \in Process : /\ register[s].Timestamp \in Nat
                                         /\ register'[s].Timestamp \in Nat
  BY DEF FreshInv, TypeOK, Written
<1>4. \A s \in Q : register'[s].Timestamp >= high'
  BY <1>1, <1>2, <1>3 DEF Grows
<1> QED
  BY <1>1, <1>4 DEF ReturnedIsHeld

(* So a step of client c has to be examined for c alone.                   *)
LEMMA OnlyTheActorCounts ==
  ASSUME FreshInv, TypeOK', Grows, NEW c \in Client,
         \A d \in Client \ {c} : Same(d),
         \A s \in Process : CallInv(c, s)', FloorInv(c)', FailInv(c)',
         ReturnedIsHeld'
  PROVE  FreshInv'
<1>1. ASSUME NEW d \in Client
      PROVE  (\A s \in Process : CallInv(d, s)') /\ FloorInv(d)' /\ FailInv(d)'
  <2>1. CASE d = c
    BY <2>1
  <2>2. CASE d # c
    BY <2>2, OthersAreUndisturbed
  <2> QED
    BY <2>1, <2>2
<1> QED
  BY <1>1 DEF FreshInv

(* A phase starts without evidence.                                        *)
LEMMA NewPhase ==
  ASSUME NEW c \in Client, NEW v \in View, view'[c] = v, pc'[c] # "idle",
         call'[c] = broadcast(v)
  PROVE  /\ \A s \in Process : CallInv(c, s)'
         /\ \A s \in Process : call'[c][s].st \notin {"ok", "result"}
<1>1. \A s \in Process : /\ call'[c][s].st \in {"sent", "none"}
                         /\ call'[c][s].st = "sent" => s \in Members(v)
  BY DEF broadcast, InState, HasMember
<1> QED
  BY <1>1 DEF CallInv

(* A reply that is sent or received changes what the client knows of one   *)
(* server; FloorInv needs that server's timestamp to be above the floor.   *)
LEMMA OneReply ==
  ASSUME FreshInv, TypeOK', Grows, NEW c \in Client, NEW s \in Process,
         NEW r \in Call, Reply(c, s, r),
         UNCHANGED <<view, err, pc, floor, high>>,
         pc[c] # "idle",
         \A d \in Client \ {c} : msg'[d] = msg[d],
         msg'[c].Timestamp >= msg[c].Timestamp,
         pc[c] = "writeQuorum" => msg'[c] = msg[c],
         CallInv(c, s)',
         pc[c] = "readQuorum" /\ r.st \in {"ok", "result"} =>
           \/ r.Timestamp >= register[s].Timestamp
           \/ r.Timestamp = call[c][s].Timestamp /\ call[c][s].st = "ok"
  PROVE  FreshInv'
<1>1. \A d \in Client \ {c} : Same(d)
  BY DEF Same, Reply, FreshInv, TypeOK
<1>2. /\ call'[c][s] = r
      /\ \A s2 \in Process \ {s} : call'[c][s2] = call[c][s2]
  BY DEF Reply, FreshInv, TypeOK
<1>3. \A s2 \in Process : /\ register[s2].Timestamp \in Nat
                          /\ register'[s2].Timestamp \in Nat
                          /\ call[c][s2].Timestamp \in Nat
  BY DEF FreshInv, TypeOK, Written, Call
<1>4. /\ msg[c].Timestamp \in Nat /\ msg'[c].Timestamp \in Nat
      /\ floor[c] \in Nat /\ r.Timestamp \in Nat
  BY DEF FreshInv, TypeOK, Written, Call
<1>5. \A s2 \in Process : CallInv(c, s2)'
  <2>1. ASSUME NEW s2 \in Process, s2 # s PROVE CallInv(c, s2)'
    <3>1. CallInv(c, s2)
      BY DEF FreshInv
    <3> QED
      BY <1>2, <1>3, <1>4, <2>1, <3>1 DEF CallInv, Grows
  <2> QED
    BY <2>1
<1>6. FloorInv(c)'
  <2>1. ASSUME pc[c] = "readQuorum"
        PROVE  \E Q : /\ Quorum(Q)
                      /\ \A s2 \in Q :
                           /\ register'[s2].Timestamp >= floor[c]
                           /\ call'[c][s2].st \in {"ok", "result"}
                                => call'[c][s2].Timestamp >= floor[c]
    <3>1. PICK Q : /\ Quorum(Q)
                   /\ \A s2 \in Q :
                        /\ register[s2].Timestamp >= floor[c]
                        /\ call[c][s2].st \in {"ok", "result"}
                             => call[c][s2].Timestamp >= floor[c]
      BY <2>1 DEF FreshInv, FloorInv
    <3>2. \A s2 \in Q : s2 \in Process
      BY <3>1 DEF Quorum, Members
    <3>3. \A s2 \in Q : register'[s2].Timestamp >= floor[c]
      BY <1>3, <1>4, <3>1, <3>2 DEF Grows
    <3>4. \A s2 \in Q : call'[c][s2].st \in {"ok", "result"}
                          => call'[c][s2].Timestamp >= floor[c]
      BY <1>2, <1>3, <1>4, <2>1, <3>1, <3>2
    <3> QED
      BY <3>1, <3>3, <3>4
  <2>2. pc[c] = "writeQuorum" => msg[c].Timestamp >= floor[c]
    BY DEF FreshInv, FloorInv
  <2> QED
    BY <2>1, <2>2 DEF FloorInv, Quorum
<1>7. FailInv(c)'
  BY DEF FreshInv, FailInv
<1>8. ReturnedIsHeld'
  BY HeldStays
<1> QED
  BY <1>1, <1>5, <1>6, <1>7, <1>8, OnlyTheActorCounts

(* The end of an operation keeps the invariant, if the value it returns is *)
(* held by a majority and a failure is justified.                          *)
LEMMA EndKeepsFreshInv ==
  ASSUME FreshInv, TypeOK', Grows, NEW c \in Client, EndPhase(c),
         \A d \in Client \ {c} : err'[d] = err[d],
         FailInv(c)', ReturnedIsHeld'
  PROVE  FreshInv'
<1>1. \A d \in Client \ {c} : Same(d)
  BY DEF Same, EndPhase, FreshInv, TypeOK
<1>2. pc'[c] = "idle" /\ \A s \in Process : call'[c][s].st = "none"
  BY DEF EndPhase, FreshInv, TypeOK, InState
<1>3. (\A s \in Process : CallInv(c, s)') /\ FloorInv(c)'
  BY <1>2 DEF CallInv, FloorInv
<1> QED
  BY <1>1, <1>3, OnlyTheActorCounts

(* A quorum of results that all have timestamp t is a majority that holds  *)
(* t, so it may be returned.                                               *)
LEMMA ReturnIsHeld ==
  ASSUME FreshInv, TypeOK', Grows, NEW c \in Client, QuorumReached(c),
         \A s \in Results(c) : register[s].Timestamp >= msg[c].Timestamp,
         high' = Max2(high, msg[c].Timestamp)
  PROVE  ReturnedIsHeld'
<1>1. CASE high >= msg[c].Timestamp
  BY <1>1, HeldStays DEF Max2
<1>2. CASE ~(high >= msg[c].Timestamp)
  <2>1. Quorum(Results(c))
    BY QuorumsAreInNewestView
  <2>2. \A s \in Results(c) : s \in Process
    BY DEF Results
  <2>3. \A s \in Results(c) : register'[s].Timestamp >= high'
    <3>1. msg[c].Timestamp \in Nat /\ high' = msg[c].Timestamp
      BY <1>2 DEF FreshInv, TypeOK, Written, Max2
    <3>2. \A s \in Process : /\ register[s].Timestamp \in Nat
                             /\ register'[s].Timestamp \in Nat
      BY DEF FreshInv, TypeOK, Written
    <3> QED
      BY <2>2, <3>1, <3>2 DEF Grows
  <2> QED
    BY <2>1, <2>3 DEF Quorum, ReturnedIsHeld
<1> QED
  BY <1>1, <1>2

(* The invariant holds initially: nothing was returned.                    *)
LEMMA FreshInit == Init => FreshInv
<1> SUFFICES ASSUME Init PROVE FreshInv
  OBVIOUS
<1>1. TypeOK
  BY TypeInit
<1>2. ReturnedIsHeld
  <2> DEFINE M == Members(NewestView)
  <2>1. Cardinality(M) >= QuorumSize(NewestView)
    BY QuorumIsMajority, RegisterAssumption DEF NumberOfMembers
  <2>2. \A s \in M : register[s].Timestamp >= high
    BY DEF Init, InitialWrite, Members
  <2> QED
    BY <2>1, <2>2 DEF ReturnedIsHeld
<1> QED
  BY <1>1, <1>2 DEF FreshInv, Init, CallInv, FloorInv, FailInv, InState

(* Every step keeps the invariant.                                         *)
LEMMA FreshStep == FreshInv /\ [Next]_vars => FreshInv'
<1> SUFFICES ASSUME FreshInv, [Next]_vars PROVE FreshInv'
  OBVIOUS
<1> USE RegisterAssumption
<1>t. TypeOK /\ TypeOK'
  BY TypeStep DEF FreshInv
<1>g. Grows
  BY <1>t, RegisterGrows
<1>n. \A c \in Client : pc[c] # "idle" => ~err[c]
  BY DEF FreshInv, FailInv
<1>1. ASSUME NEW m \in strays, WriteStray(m) PROVE FreshInv'
  <2>1. \A c \in Client : Same(c)
    BY <1>1 DEF WriteStray, clientVars, history, Same
  <2>2. high' = high
    BY <1>1 DEF WriteStray, history
  <2>3. ReturnedIsHeld'
    BY <1>t, <1>g, <2>2, HeldStays
  <2>4. \A c \in Client : /\ \A s \in Process : CallInv(c, s)'
                          /\ FloorInv(c)' /\ FailInv(c)'
    BY <1>t, <1>g, <2>1, OthersAreUndisturbed
  <2> QED
    BY <1>t, <2>3, <2>4 DEF FreshInv
<1>2. ASSUME NEW c \in Client, NEW kind, NEW value, ~err[c], Begin(c, kind, value)
      PROVE  FreshInv'
  <2>1. \A d \in Client \ {c} : Same(d)
    BY <1>2, <1>t DEF Begin, Same, TypeOK
  <2>2. /\ view[c] \in View /\ view'[c] = view[c] /\ pc'[c] = "readQuorum"
        /\ call'[c] = broadcast(view[c]) /\ floor'[c] = high /\ ~err'[c]
        /\ high' = high /\ register' = register
    BY <1>2, <1>t DEF Begin, TypeOK, serverVars
  <2>3. /\ \A s \in Process : CallInv(c, s)'
        /\ \A s \in Process : call'[c][s].st \notin {"ok", "result"}
    BY <2>2, NewPhase
  <2>4. FloorInv(c)'
    <3>1. PICK Q : Quorum(Q) /\ \A s \in Q : register[s].Timestamp >= high
      BY DEF FreshInv, ReturnedIsHeld, Quorum
    <3>2. \A s \in Q : s \in Process
      BY <3>1 DEF Quorum, Members
    <3> QED
      BY <2>2, <2>3, <3>1, <3>2 DEF FloorInv, Quorum
  <2> QED
    BY <1>t, <1>g, <2>1, <2>2, <2>3, <2>4, HeldStays, OnlyTheActorCounts
    DEF FailInv
<1>3. ASSUME NEW c \in Client, StartWrite(c) \/ read2ndPhase(c) PROVE FreshInv'
  <2>1. \A d \in Client \ {c} : Same(d)
    BY <1>3, <1>t DEF StartWrite, read2ndPhase, Same, TypeOK, history
  <2>2. /\ view[c] \in View /\ view'[c] = view[c] /\ pc'[c] = "writeQuorum"
        /\ call'[c] = broadcast(view[c]) /\ floor'[c] = floor[c]
        /\ high' = high /\ pc[c] = "readQuorum" /\ QuorumReached(c) /\ ~err'[c]
    BY <1>3, <1>t, <1>n DEF StartWrite, read2ndPhase, TypeOK, history
  <2>3. \A s \in Process : CallInv(c, s)'
    BY <2>2, NewPhase
  <2>4. msg'[c].Timestamp >= floor[c]
    <3>1. msg[c].Timestamp >= floor[c]
      BY <2>2, QuorumMeetsFloor
    <3>2. msg[c].Timestamp \in Nat /\ floor[c] \in Nat
      BY <1>t DEF TypeOK, Written
    <3>3. \/ msg'[c].Timestamp = msg[c].Timestamp + 1
          \/ msg'[c].Timestamp = msg[c].Timestamp
      BY <1>3, <1>t DEF StartWrite, read2ndPhase, TypeOK
    <3> QED
      BY <3>1, <3>2, <3>3
  <2>5. FloorInv(c)'
    BY <2>2, <2>4 DEF FloorInv
  <2> QED
    BY <1>t, <1>g, <2>1, <2>2, <2>3, <2>5, HeldStays, OnlyTheActorCounts
    DEF FailInv
<1>4. ASSUME NEW c \in Client, ReturnRead(c) \/ ReturnFromWriteQuorum(c)
      PROVE  FreshInv'
  <2>1. \A s \in Results(c) : register[s].Timestamp >= msg[c].Timestamp
    <3>1. \A s \in Results(c) : s \in Process /\ CallInv(c, s)
      BY DEF Results, FreshInv
    <3> QED
      BY <1>4, <3>1 DEF CallInv, Results, Diverged, ReturnRead, ReturnFromWriteQuorum
  <2>2. ReturnedIsHeld'
    BY <1>4, <1>t, <1>g, <2>1, ReturnIsHeld DEF ReturnRead, ReturnFromWriteQuorum, Return
  <2>3. EndPhase(c) /\ UNCHANGED err /\ ~err[c]
    BY <1>4, <1>n DEF ReturnRead, ReturnFromWriteQuorum, Return
  <2> QED
    BY <1>t, <1>g, <2>2, <2>3, EndKeepsFreshInv DEF FailInv
<1>5. ASSUME NEW c \in Client, Fail(c) PROVE FreshInv'
  <2>1. /\ EndPhase(c) /\ high' = high /\ view' = view /\ pc'[c] = "idle"
        /\ \A d \in Client \ {c} : err'[d] = err[d]
    BY <1>5, <1>t DEF Fail, EndPhase, TypeOK
  <2>2. Cardinality(Members(view[c]) \cap Unreliable)
          > NumberOfToleratedFaults(view[c])
    <3> DEFINE B == Members(view[c]) \cap Unreliable
    <3>0. view[c] \in View
      BY <1>t DEF TypeOK
    <3>1. IsFiniteSet(Members(view[c]))
      BY <3>0, QuorumIsMajority
    <3>2. IsFiniteSet(B) /\ Failed(c) \in SUBSET B
      BY <3>1, FS_Subset DEF Failed, FreshInv, CallInv
    <3>3. /\ Cardinality(Failed(c)) <= Cardinality(B)
          /\ Cardinality(Failed(c)) \in Nat /\ Cardinality(B) \in Nat
      BY <3>2, FS_Subset, FS_CardinalityType
    <3>4. NumberOfToleratedFaults(view[c]) \in Int
      BY <3>0, QuorumIsMajority DEF NumberOfToleratedFaults
    <3>5. Cardinality(Failed(c)) > NumberOfToleratedFaults(view[c])
      BY <1>5 DEF Fail, SystemFailed
    <3> QED
      BY <3>3, <3>4, <3>5
  <2>3. FailInv(c)'
    BY <2>1, <2>2 DEF FailInv
  <2> QED
    BY <1>t, <1>g, <2>1, <2>3, HeldStays, EndKeepsFreshInv
<1>6. ASSUME NEW c \in Client, NEW v \in View, pc[c] # "idle", Retry(c, v)
      PROVE  FreshInv'
  <2>1. \A d \in Client \ {c} : Same(d)
    BY <1>6, <1>t DEF Retry, Same, TypeOK, history
  <2>2. /\ view'[c] = v /\ pc'[c] = pc[c] /\ call'[c] = broadcast(v)
        /\ floor'[c] = floor[c] /\ high' = high /\ register' = register /\ ~err'[c]
        /\ pc[c] = "writeQuorum" => msg'[c] = msg[c]
    BY <1>6, <1>t, <1>n DEF Retry, TypeOK, history
  <2>3. /\ \A s \in Process : CallInv(c, s)'
        /\ \A s \in Process : call'[c][s].st \notin {"ok", "result"}
    BY <1>6, <2>2, NewPhase
  <2>4. FloorInv(c)'
    <3>1. FloorInv(c)
      BY DEF FreshInv
    <3>2. \A Q : Quorum(Q) => \A s \in Q : s \in Process
      BY DEF Quorum, Members
    <3> QED
      BY <2>2, <2>3, <3>1, <3>2 DEF FloorInv, Quorum
  <2> QED
    BY <1>t, <1>g, <2>1, <2>2, <2>3, <2>4, HeldStays, OnlyTheActorCounts
    DEF FailInv
<1> HIDE DEF FreshInv
<1>7. ASSUME NEW c \in Client, NEW s \in Process, Read(c, s) PROVE FreshInv'
  <2>1. PICK r \in Call :
          /\ Reply(c, s, r)
          /\ \/ r.st = "old"
             \/ /\ r.st = "ok" /\ view[c] = currentView[s]
                /\ r.Timestamp = register[s].Timestamp
    <3> DEFINE k == [st |-> "ok", Value |-> register[s].Value,
                     Timestamp |-> register[s].Timestamp]
    <3>1. InState("old") \in Call /\ InState("old").st = "old"
      BY DEF InState, Call, CallState
    <3>2. k \in Call /\ k.st = "ok" /\ k.Timestamp = register[s].Timestamp
      BY <1>t DEF TypeOK, Written, Call, CallState
    <3>3. \/ Reply(c, s, InState("old"))
          \/ view[c] = currentView[s] /\ Reply(c, s, k)
      BY <1>7 DEF Read
    <3> QED
      BY <3>1, <3>2, <3>3
  <2>2. call'[c][s] = r
    BY <1>t, <2>1 DEF Reply, TypeOK
  <2>3. /\ UNCHANGED <<register, view, err, pc, floor, high, msg>>
        /\ pc[c] = "readQuorum" /\ s \in Up /\ call[c][s].st = "sent"
    BY <1>7 DEF Read, serverVars, history
  <2>4. register[s].Timestamp \in Nat /\ msg[c].Timestamp \in Nat
    BY <1>t DEF TypeOK, Written
  <2>5. s \in Members(view[c])
    BY <2>3 DEF FreshInv, CallInv
  <2>6. CallInv(c, s)'
    BY <2>1, <2>2, <2>3, <2>4, <2>5 DEF CallInv
  <2> QED
    BY <1>t, <1>g, <2>1, <2>3, <2>4, <2>6, OneReply
<1>8. ASSUME NEW c \in Client, NEW s \in Process, Write(c, s) PROVE FreshInv'
  <2>1. PICK r \in Call :
          /\ Reply(c, s, r)
          /\ \/ r.st = "old"
             \/ r.st = "ok" /\ view[c] = currentView[s] /\ Store(s, msg[c])
    BY <1>8, <1>t DEF Write, InState, Call, CallState
  <2>2. call'[c][s] = r
    BY <1>t, <2>1 DEF Reply, TypeOK
  <2>3. /\ UNCHANGED <<view, err, pc, floor, high, msg>>
        /\ pc[c] = "writeQuorum" /\ s \in Up /\ call[c][s].st = "sent"
    BY <1>8 DEF Write, history
  <2>4. /\ register[s].Timestamp \in Nat /\ msg[c].Timestamp \in Nat
        /\ Store(s, msg[c]) => register'[s].Timestamp >= msg[c].Timestamp
    BY <1>t DEF TypeOK, Written, Store
  <2>5. s \in Members(view[c])
    BY <2>3 DEF FreshInv, CallInv
  <2>6. CallInv(c, s)'
    BY <2>1, <2>2, <2>3, <2>4, <2>5 DEF CallInv
  <2> QED
    BY <1>t, <1>g, <2>1, <2>3, <2>4, <2>6, OneReply
<1>9. ASSUME NEW c \in Client, NEW s \in Process,
             RpcError(c, s) \/ ReceiveOlderView(c, s) \/ ReceiveError(c, s)
      PROVE  FreshInv'
  <2>1. PICK r \in Call :
          /\ Reply(c, s, r)
          /\ r.st \in {"sent", "error", "failed"}
          /\ r.st = "error" => s \in Unreliable
          /\ r.st = "failed" => call[c][s].st = "error"
    BY <1>9 DEF RpcError, ReceiveOlderView, ReceiveError, InState, Call, CallState
  <2>2. call'[c][s] = r
    BY <1>t, <2>1 DEF Reply, TypeOK
  <2>3. /\ UNCHANGED <<register, view, err, pc, floor, high, msg>>
        /\ pc[c] # "idle" /\ call[c][s].st \in {"sent", "old", "error"}
    BY <1>9 DEF RpcError, ReceiveOlderView, ReceiveError, Waiting, serverVars, history
  <2>4. msg[c].Timestamp \in Nat
    BY <1>t DEF TypeOK, Written
  <2>5. s \in Members(view[c]) /\ (call[c][s].st = "error" => s \in Unreliable)
    BY <2>3 DEF FreshInv, CallInv
  <2>6. CallInv(c, s)'
    BY <2>1, <2>2, <2>3, <2>5 DEF CallInv
  <2> QED
    BY <1>t, <1>g, <2>1, <2>3, <2>4, <2>6, OneReply
<1>10. ASSUME NEW c \in Client, NEW s \in Process, ReceiveResult(c, s) PROVE FreshInv'
  <2>1. PICK r \in Call :
          Reply(c, s, r) /\ r.st = "result" /\ r.Timestamp = call[c][s].Timestamp
    BY <1>10, <1>t DEF ReceiveResult, TypeOK, Call, CallState
  <2>2. call'[c][s] = r
    BY <1>t, <2>1 DEF Reply, TypeOK
  <2>3. /\ UNCHANGED <<register, view, err, pc, floor, high>>
        /\ pc[c] # "idle" /\ call[c][s].st = "ok"
    BY <1>10 DEF ReceiveResult, Waiting, serverVars, history
  <2>4. /\ msg[c].Timestamp \in Nat /\ msg'[c].Timestamp \in Nat
        /\ call[c][s].Timestamp \in Nat
    BY <1>t DEF TypeOK, Written, Call
  <2>5. /\ \A d \in Client \ {c} : msg'[d] = msg[d]
        /\ msg'[c].Timestamp >= msg[c].Timestamp
        /\ pc[c] = "writeQuorum" => msg'[c] = msg[c]
        /\ pc[c] = "readQuorum" => msg'[c].Timestamp >= call[c][s].Timestamp
    BY <1>10, <1>t, <2>4 DEF ReceiveResult, TypeOK
  <2>6. CallInv(c, s)
    BY DEF FreshInv
  <2>7. CallInv(c, s)'
    BY <2>1, <2>2, <2>3, <2>4, <2>5, <2>6 DEF CallInv
  <2> QED
    BY <1>t, <1>g, <2>1, <2>3, <2>5, <2>7, OneReply
<1>11. CASE UNCHANGED vars
  <2>1. (\A c \in Client : Same(c)) /\ high' = high
    BY <1>11 DEF vars, serverVars, clientVars, history, Same
  <2> QED
    BY <1>t, <1>g, <2>1, HeldStays, OthersAreUndisturbed DEF FreshInv
<1>12. \A s \in Process : currentView[s] \in View
  OBVIOUS
<1> QED
  BY <1>1, <1>2, <1>3, <1>4, <1>5, <1>6, <1>7, <1>8, <1>9, <1>10, <1>11, <1>12
  DEF Next, BeginRead, BeginWrite, ReceiveNewerView, couldGetNewView, Waiting

(* FreshInv holds in every reachable state.                                *)
THEOREM FreshInvariant == Spec => []FreshInv
BY FreshInit, FreshStep, PTL DEF Spec

(* A value that an operation returned is held by a quorum from then on,    *)
(* whatever servers answer late, fail or are told of newer views.          *)
THEOREM ReturnedStaysHeld == Spec => []ReturnedIsHeld
<1>1. FreshInv => ReturnedIsHeld
  BY DEF FreshInv
<1> QED
  BY <1>1, FreshInvariant, PTL

(* A value that an operation returned is never lost, and every later       *)
(* operation meets it.                                                     *)
THEOREM Freshness == Spec => [](ReturnedIsHeld /\ ReadsAreFresh)
<1>1. FreshInv => ReturnedIsHeld /\ ReadsAreFresh
  BY QuorumMeetsFloor DEF FreshInv, ReadsAreFresh
<1> QED
  BY <1>1, FreshInvariant, PTL

(* A client fails only when it is in a view that lost its majority.        *)
THEOREM ErrorsAreMasked == Spec => []FailsOnlyWithoutMajority
<1>1. FreshInv => FailsOnlyWithoutMajority
  BY DEF FreshInv, FailInv, FailsOnlyWithoutMajority
<1> QED
  BY <1>1, FreshInvariant, PTL
=============================================================================
