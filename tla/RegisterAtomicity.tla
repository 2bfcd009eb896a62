-------------------------- MODULE RegisterAtomicity --------------------------
(***************************************************************************)
(* With one writer, module Register implements AtomicRegister.             *)
(***************************************************************************)
EXTENDS RegisterProofs

(***************************************************************************)
(* Everything that a server holds or a client knows was written.           *)
(***************************************************************************)
IssuedInv ==
  /\ InitialWrite \in issued
  /\ \A s \in Process : register[s] \in issued
  /\ \A c \in Client : msg[c] \in issued
  /\ \A c \in Client, s \in Process :
       pc[c] = "readQuorum" /\ call[c][s].st = "ok" =>
         [Value |-> call[c][s].Value, Timestamp |-> call[c][s].Timestamp] \in issued
  /\ \A m \in strays : [Value |-> m.Value, Timestamp |-> m.Timestamp] \in issued

(* A record is determined by its fields.                                   *)
LEMMA WrittenRecord ==
  ASSUME NEW w \in Written
  PROVE  [Value |-> w.Value, Timestamp |-> w.Timestamp] = w
BY DEF Written

(* What a phase leaves behind was written.                                 *)
LEMMA UnansweredIssued ==
  ASSUME TypeOK, IssuedInv, NEW c \in Client, NEW m \in Unanswered(c)
  PROVE  [Value |-> m.Value, Timestamp |-> m.Timestamp] \in issued
<1>1. m.Value = msg[c].Value /\ m.Timestamp = msg[c].Timestamp
  BY DEF Unanswered
<1>2. msg[c] \in Written /\ msg[c] \in issued
  BY DEF TypeOK, IssuedInv
<1> QED
  BY <1>1, <1>2, WrittenRecord

(* No step invents a value or a timestamp.                                 *)
LEMMA IssuedStep == TypeOK /\ TypeOK' /\ IssuedInv /\ [Next]_vars => IssuedInv'
<1> SUFFICES ASSUME TypeOK, TypeOK', IssuedInv, [Next]_vars PROVE IssuedInv'
  OBVIOUS
<1> USE RegisterAssumption
<1>b. \A v \in View, s \in Process : broadcast(v)[s].st # "ok"
  BY DEF broadcast, InState
<1>1. ASSUME NEW m \in strays, WriteStray(m) PROVE IssuedInv'
  <2>1. register' = register
        \/ Store(m.process, [Value |-> m.Value, Timestamp |-> m.Timestamp])
    BY <1>1 DEF WriteStray
  <2>2. \A s \in Process : register'[s] \in issued
    BY <2>1 DEF Store, IssuedInv, TypeOK
  <2> QED
    BY <1>1, <2>2 DEF WriteStray, IssuedInv, clientVars, history
<1>2. ASSUME NEW c \in Client, NEW kind, NEW value, Begin(c, kind, value)
      PROVE  IssuedInv'
  <2>1. \A d \in Client : msg'[d] \in issued
    BY <1>2 DEF Begin, TypeOK, IssuedInv
  <2>2. \A d \in Client, s \in Process :
          pc'[d] = "readQuorum" /\ call'[d][s].st = "ok"
            => d # c /\ pc[d] = "readQuorum" /\ call'[d] = call[d]
    BY <1>2, <1>b DEF Begin, TypeOK
  <2> QED
    BY <1>2, <2>1, <2>2 DEF Begin, IssuedInv, serverVars
<1>3. ASSUME NEW c \in Client, StartWrite(c) PROVE IssuedInv'
  <2>1. issued \subseteq issued' /\ msg'[c] \in issued'
    BY <1>3 DEF StartWrite, TypeOK
  <2>2. \A d \in Client : msg'[d] \in issued'
    BY <1>3, <2>1 DEF StartWrite, TypeOK, IssuedInv
  <2>3. \A d \in Client, s \in Process :
          pc'[d] = "readQuorum" /\ call'[d][s].st = "ok"
            => d # c /\ pc[d] = "readQuorum" /\ call'[d] = call[d]
    BY <1>3 DEF StartWrite, TypeOK
  <2> QED
    BY <1>3, <2>1, <2>2, <2>3 DEF StartWrite, IssuedInv, serverVars
<1>4. ASSUME NEW c \in Client, read2ndPhase(c) PROVE IssuedInv'
  <2>1. \A d \in Client, s \in Process :
          pc'[d] = "readQuorum" /\ call'[d][s].st = "ok"
            => d # c /\ pc[d] = "readQuorum" /\ call'[d] = call[d]
    BY <1>4 DEF read2ndPhase, TypeOK
  <2> QED
    BY <1>4, <2>1 DEF read2ndPhase, IssuedInv, serverVars, history
<1>5. ASSUME NEW c \in Client, EndPhase(c) PROVE IssuedInv'
  <2>1. \A d \in Client : msg'[d] \in issued
    BY <1>5 DEF EndPhase, TypeOK, IssuedInv
  <2>2. \A d \in Client, s \in Process :
          pc'[d] = "readQuorum" /\ call'[d][s].st = "ok"
            => d # c /\ pc[d] = "readQuorum" /\ call'[d] = call[d]
    BY <1>5 DEF EndPhase, TypeOK
  <2>3. \A m \in strays' : [Value |-> m.Value, Timestamp |-> m.Timestamp] \in issued
    BY <1>5, UnansweredIssued DEF EndPhase, IssuedInv
  <2> QED
    BY <1>5, <2>1, <2>2, <2>3 DEF EndPhase, IssuedInv
<1>6. ASSUME NEW c \in Client, NEW v \in View, Retry(c, v) PROVE IssuedInv'
  <2>1. \A d \in Client : msg'[d] \in issued
    BY <1>6 DEF Retry, TypeOK, IssuedInv
  <2>2. \A d \in Client, s \in Process :
          pc'[d] = "readQuorum" /\ call'[d][s].st = "ok"
            => d # c /\ pc[d] = "readQuorum" /\ call'[d] = call[d]
    BY <1>6, <1>b DEF Retry, TypeOK
  <2>3. \A m \in strays' : [Value |-> m.Value, Timestamp |-> m.Timestamp] \in issued
    BY <1>6, UnansweredIssued DEF Retry, IssuedInv
  <2> QED
    BY <1>6, <2>1, <2>2, <2>3 DEF Retry, IssuedInv, history
<1>7. ASSUME NEW c \in Client, NEW s \in Process, NEW r \in Call, Reply(c, s, r),
             UNCHANGED <<pc, issued>>,
             \A p \in Process : register'[p] \in issued,
             \A d \in Client : msg'[d] \in issued,
             \A m \in strays' :
               [Value |-> m.Value, Timestamp |-> m.Timestamp] \in issued,
             pc[c] = "readQuorum" /\ r.st = "ok"
               => [Value |-> r.Value, Timestamp |-> r.Timestamp] \in issued
      PROVE  IssuedInv'
  <2>1. \A d \in Client, p \in Process :
          call'[d][p] = IF d = c /\ p = s THEN r ELSE call[d][p]
    BY <1>7 DEF Reply, TypeOK
  <2> QED
    BY <1>7, <2>1 DEF IssuedInv
<1>8. ASSUME NEW c \in Client, NEW s \in Process, Read(c, s) PROVE IssuedInv'
  <2> DEFINE k == [st |-> "ok", Value |-> register[s].Value,
                   Timestamp |-> register[s].Timestamp]
  <2>1. InState("old") \in Call /\ InState("old").st = "old"
    BY DEF InState, Call, CallState
  <2>2. register[s] \in Written
    BY DEF TypeOK
  <2>3. k \in Call /\ [Value |-> k.Value, Timestamp |-> k.Timestamp] \in issued
    BY <2>2, WrittenRecord DEF IssuedInv, Written, Call, CallState
  <2>4. Reply(c, s, InState("old")) \/ Reply(c, s, k)
    BY <1>8 DEF Read
  <2>5. UNCHANGED <<pc, issued, register, msg, strays>>
    BY <1>8 DEF Read, serverVars, history
  <2> HIDE DEF k
  <2>6. PICK r \in Call : /\ Reply(c, s, r)
                          /\ r.st = "ok" => [Value |-> r.Value,
                                             Timestamp |-> r.Timestamp] \in issued
    BY <2>1, <2>3, <2>4
  <2> QED
    BY <1>7, <2>5, <2>6 DEF IssuedInv
<1>9. ASSUME NEW c \in Client, NEW s \in Process, Write(c, s) PROVE IssuedInv'
  <2>1. PICK r \in Call : Reply(c, s, r)
    BY <1>9 DEF Write, InState, Call, CallState
  <2>2. UNCHANGED <<pc, issued, msg, strays>> /\ pc[c] = "writeQuorum"
    BY <1>9 DEF Write, history
  <2>3. \A p \in Process : register'[p] \in issued
    BY <1>9 DEF Write, Store, IssuedInv, TypeOK
  <2> QED
    BY <1>7, <2>1, <2>2, <2>3 DEF IssuedInv
<1>10. ASSUME NEW c \in Client, NEW s \in Process,
              RpcError(c, s) \/ ReceiveOlderView(c, s) \/ ReceiveError(c, s)
       PROVE  IssuedInv'
  <2>1. PICK r \in Call : Reply(c, s, r) /\ r.st # "ok"
    BY <1>10 DEF RpcError, ReceiveOlderView, ReceiveError, InState, Call, CallState
  <2>2. UNCHANGED <<pc, issued, register, msg>>
    BY <1>10 DEF RpcError, ReceiveOlderView, ReceiveError, serverVars, history
  <2>3. \A m \in strays' : [Value |-> m.Value, Timestamp |-> m.Timestamp] \in issued
    <3>1. \A m \in strays' : m \in strays \/ m \in Unanswered(c)
      BY <1>10 DEF RpcError, ReceiveOlderView, ReceiveError, serverVars
    <3> QED
      BY <3>1, UnansweredIssued DEF IssuedInv
  <2> QED
    BY <1>7, <2>1, <2>2, <2>3 DEF IssuedInv
<1>11. ASSUME NEW c \in Client, NEW s \in Process, ReceiveResult(c, s) PROVE IssuedInv'
  <2>1. PICK r \in Call : Reply(c, s, r) /\ r.st # "ok"
    BY <1>11 DEF ReceiveResult, TypeOK, Call, CallState
  <2>2. UNCHANGED <<pc, issued, register, strays>> /\ call[c][s].st = "ok"
    BY <1>11 DEF ReceiveResult, serverVars, history
  <2>3. \A d \in Client : msg'[d] \in issued
    BY <1>11, <2>2 DEF ReceiveResult, TypeOK, IssuedInv
  <2> QED
    BY <1>7, <2>1, <2>2, <2>3 DEF IssuedInv
<1>12. CASE UNCHANGED vars
  BY <1>12 DEF vars, serverVars, clientVars, history, IssuedInv
<1>13. \A s \in Process : currentView[s] \in View
  OBVIOUS
<1> QED
  BY <1>1, <1>2, <1>3, <1>4, <1>5, <1>6, <1>8, <1>9, <1>10, <1>11, <1>12, <1>13
  DEF Next, BeginRead, BeginWrite, ReturnRead, ReturnFromWriteQuorum, Return, Fail,
      ReceiveNewerView, couldGetNewView
-----------------------------------------------------------------------------
(***************************************************************************)
(* How far timestamps have gone, as its phase tells the one writer.  While *)
(* it is idle all of them have been returned; while it reads they are at   *)
(* or below the floor its quorum will meet; then its own write is the      *)
(* last.  Nothing is known after it failed, and nothing is needed: it will *)
(* not write again.                                                        *)
(***************************************************************************)
Frontier(w) ==
  IF pc[w] = "idle" THEN high
  ELSE IF pc[w] = "writeQuorum" /\ op[w] = "Write" THEN msg[w].Timestamp
  ELSE floor[w]

ClientInv(c) ==
  /\ op[c] = "Write" => c \in Writer /\ pc[c] # "idle" /\ arg[c] \in Value
  /\ pc[c] # "idle" => floor[c] <= high
  /\ pc[c] = "writeQuorum" /\ op[c] = "Write" => msg[c].Timestamp > floor[c]

WriterInv ==
  /\ \A c \in Client : ClientInv(c)
  /\ \A w \in Writer : ~err[w] => \A i \in issued : i.Timestamp <= Frontier(w)
  /\ TimestampsAreUnique

AtomicInv == FreshInv /\ IssuedInv /\ WriterInv

(* Everything begins with the initial write alone.                         *)
LEMMA AtomicInit == Init => AtomicInv
<1> SUFFICES ASSUME Init PROVE AtomicInv
  OBVIOUS
<1>1. FreshInv
  BY FreshInit
<1>2. IssuedInv
  BY DEF Init, IssuedInv, InState
<1>3. WriterInv
  BY RegisterAssumption
  DEF Init, WriterInv, ClientInv, Frontier, TimestampsAreUnique, InitialWrite
<1> QED
  BY <1>1, <1>2, <1>3 DEF AtomicInv

(* What a client keeps of its operation, without the state of its RPCs.    *)
SameOp(c) ==
  /\ pc'[c] = pc[c] /\ op'[c] = op[c] /\ arg'[c] = arg[c] /\ floor'[c] = floor[c]
  /\ err'[c] = err[c]
  /\ pc[c] = "writeQuorum" => msg'[c] = msg[c]

(* A client whose operation a step keeps, while nothing is issued, keeps   *)
(* its part of WriterInv; high may grow.                                   *)
LEMMA ClientFrame ==
  ASSUME TypeOK, TypeOK', WriterInv, issued' = issued, high' >= high,
         NEW c \in Client, SameOp(c)
  PROVE  /\ ClientInv(c)'
         /\ c \in Writer /\ ~err'[c]
              => \A i \in issued : i.Timestamp <= Frontier(c)'
<1>1. high \in Nat /\ high' \in Nat
  BY DEF TypeOK
<1>2. ClientInv(c)'
  <2>1. floor[c] \in Nat /\ ClientInv(c)
    BY DEF TypeOK, WriterInv
  <2> QED
    BY <1>1, <2>1 DEF ClientInv, SameOp
<1>3. ASSUME c \in Writer, ~err'[c]
      PROVE  \A i \in issued : i.Timestamp <= Frontier(c)'
  <2>1. \A i \in issued : i.Timestamp \in Nat /\ i.Timestamp <= Frontier(c)
    BY <1>3 DEF WriterInv, SameOp, TypeOK, Written
  <2>2. Frontier(c)' = Frontier(c) \/ (Frontier(c) = high /\ Frontier(c)' = high')
    BY DEF Frontier, SameOp
  <2> QED
    BY <1>1, <2>1, <2>2
<1> QED
  BY <1>2, <1>3

(* So a step that issues nothing has to be examined for the client that    *)
(* takes it alone.                                                         *)
LEMMA WriterFrame ==
  ASSUME TypeOK, TypeOK', WriterInv, issued' = issued, high' >= high,
         NEW c \in Client, \A d \in Client \ {c} : SameOp(d),
         ClientInv(c)',
         c \in Writer /\ ~err'[c] => \A i \in issued : i.Timestamp <= Frontier(c)'
  PROVE  WriterInv'
<1>1. ASSUME NEW d \in Client
      PROVE  /\ ClientInv(d)'
             /\ d \in Writer /\ ~err'[d]
                  => \A i \in issued : i.Timestamp <= Frontier(d)'
  BY ClientFrame
<1> QED
  BY <1>1, RegisterAssumption DEF WriterInv, TimestampsAreUnique

(* With one writer every step keeps WriterInv.                             *)
LEMMA WriterStep ==
  ASSUME SingleWriter, AtomicInv, TypeOK', [Next]_vars
  PROVE  WriterInv'
<1> USE RegisterAssumption
<1>t. TypeOK /\ WriterInv /\ FreshInv
  BY DEF AtomicInv, FreshInv
<1>n. \A i \in issued : i.Timestamp \in Nat
  BY <1>t DEF TypeOK, Written
<1>h. high \in Nat /\ high' \in Nat
  BY <1>t DEF TypeOK
<1>1. ASSUME NEW c \in Client, NEW kind \in {"Read", "Write"}, NEW value, ~err[c],
             kind = "Write" => c \in Writer /\ value \in Value,
             Begin(c, kind, value)
      PROVE  WriterInv'
  <2>1. /\ pc[c] = "idle" /\ pc'[c] = "readQuorum" /\ op'[c] = kind
        /\ arg'[c] = value /\ floor'[c] = high /\ high' = high /\ issued' = issued
        /\ \A d \in Client \ {c} : SameOp(d)
    BY <1>1, <1>t DEF Begin, TypeOK, SameOp
  <2>2. ClientInv(c)'
    BY <1>1, <1>h, <2>1 DEF ClientInv
  <2>3. c \in Writer => \A i \in issued : i.Timestamp <= Frontier(c)'
    BY <1>1, <1>t, <2>1 DEF Frontier, WriterInv
  <2>4. high' >= high
    BY <1>h, <2>1
  <2> QED
    BY <1>1, <1>t, <2>1, <2>2, <2>3, <2>4, WriterFrame
<1>2. ASSUME NEW c \in Client, StartWrite(c) PROVE WriterInv'
  <2> DEFINE w == [Value |-> arg[c], Timestamp |-> msg[c].Timestamp + 1]
  <2>1. /\ pc[c] = "readQuorum" /\ op[c] = "Write" /\ QuorumReached(c)
        /\ pc'[c] = "writeQuorum" /\ op'[c] = "Write" /\ arg'[c] = arg[c]
        /\ msg'[c] = w /\ floor'[c] = floor[c] /\ high' = high /\ err' = err
        /\ issued' = issued \cup {w}
        /\ \A d \in Client \ {c} : SameOp(d)
    BY <1>2, <1>t DEF StartWrite, TypeOK, SameOp
  <2>2. c \in Writer /\ arg[c] \in Value /\ ~err[c] /\ ClientInv(c)
    BY <1>t, <2>1 DEF WriterInv, ClientInv, FreshInv, FailInv
  <2>3. msg[c].Timestamp >= floor[c] /\ msg[c].Timestamp \in Nat /\ floor[c] \in Nat
    BY <1>t, <2>1, QuorumMeetsFloor DEF TypeOK, Written
  <2>4. \A i \in issued : i.Timestamp < w.Timestamp
    <3>1. \A i \in issued : i.Timestamp <= floor[c]
      BY <1>t, <2>1, <2>2 DEF WriterInv, Frontier
    <3> QED
      BY <1>n, <2>3, <3>1
  <2>5. ClientInv(c)'
    BY <2>1, <2>2, <2>3 DEF ClientInv
  <2>6. \A d \in Client \ {c} : ClientInv(d)'
    BY <1>t, <2>1 DEF WriterInv, ClientInv, SameOp
  <2>7. \A x \in Writer : x = c
    BY <2>2 DEF SingleWriter
  <2>8. \A i \in issued' : i.Timestamp <= Frontier(c)'
    BY <1>n, <2>1, <2>3, <2>4 DEF Frontier
  <2>9. TimestampsAreUnique'
    BY <1>t, <1>n, <2>1, <2>3, <2>4 DEF WriterInv, TimestampsAreUnique
  <2> QED
    BY <2>5, <2>6, <2>7, <2>8, <2>9 DEF WriterInv
<1>3. ASSUME NEW c \in Client, read2ndPhase(c) PROVE WriterInv'
  <2>1. /\ pc[c] = "readQuorum" /\ op[c] = "Read"
        /\ pc'[c] = "writeQuorum" /\ op'[c] = "Read"
        /\ floor'[c] = floor[c] /\ high' = high /\ err' = err /\ issued' = issued
        /\ \A d \in Client \ {c} : SameOp(d)
    BY <1>3, <1>t DEF read2ndPhase, TypeOK, SameOp, history
  <2>2. ClientInv(c)'
    BY <1>t, <2>1 DEF WriterInv, ClientInv
  <2>3. c \in Writer /\ ~err[c] => \A i \in issued : i.Timestamp <= Frontier(c)'
    BY <1>t, <2>1 DEF WriterInv, Frontier
  <2>4. high' >= high
    BY <1>h, <2>1
  <2> QED
    BY <1>t, <2>1, <2>2, <2>3, <2>4, WriterFrame
<1>4. ASSUME NEW c \in Client, ReturnRead(c) \/ ReturnFromWriteQuorum(c)
      PROVE  WriterInv'
  <2>1. /\ pc[c] # "idle" /\ (pc[c] = "readQuorum" => op[c] = "Read")
        /\ pc'[c] = "idle" /\ op'[c] = "Read" /\ err' = err /\ issued' = issued
        /\ high' = Max2(high, msg[c].Timestamp)
        /\ \A d \in Client \ {c} : SameOp(d)
    BY <1>4, <1>t
    DEF ReturnRead, ReturnFromWriteQuorum, Return, EndPhase, TypeOK, SameOp
  <2>2. /\ msg[c].Timestamp \in Nat /\ floor[c] \in Nat
        /\ high' >= high /\ high' >= msg[c].Timestamp
    BY <1>t, <1>h, <2>1 DEF TypeOK, Written, Max2
  <2>3. ClientInv(c)'
    BY <2>1 DEF ClientInv
  <2>4. c \in Writer /\ ~err[c] => \A i \in issued : i.Timestamp <= Frontier(c)'
    <3>1. Frontier(c) \in {msg[c].Timestamp, floor[c]} /\ floor[c] <= high
      BY <1>t, <2>1 DEF Frontier, WriterInv, ClientInv
    <3>2. Frontier(c)' = high'
      BY <2>1 DEF Frontier
    <3>3. Frontier(c) <= high'
      BY <1>h, <2>2, <3>1
    <3> QED
      BY <1>t, <1>n, <1>h, <2>2, <3>1, <3>2, <3>3 DEF WriterInv
  <2> QED
    BY <1>t, <2>1, <2>2, <2>3, <2>4, WriterFrame
<1>5. ASSUME NEW c \in Client, Fail(c) PROVE WriterInv'
  <2>1. /\ pc'[c] = "idle" /\ op'[c] = "Read" /\ err'[c] /\ issued' = issued
        /\ high' = high /\ \A d \in Client \ {c} : SameOp(d)
    BY <1>5, <1>t DEF Fail, EndPhase, TypeOK, SameOp
  <2>2. ClientInv(c)'
    BY <2>1 DEF ClientInv
  <2>3. high' >= high
    BY <1>h, <2>1
  <2> QED
    BY <1>t, <2>1, <2>2, <2>3, WriterFrame
<1>6. ASSUME issued' = issued, high' = high, \A c \in Client : SameOp(c)
      PROVE  WriterInv'
  <2>1. high' >= high
    BY <1>h, <1>6
  <2> QED
    BY <1>t, <1>6, <2>1, ClientFrame DEF WriterInv, TimestampsAreUnique
<1>7. ASSUME NEW c \in Client, NEW v, Retry(c, v) PROVE WriterInv'
  BY <1>6, <1>7, <1>t DEF Retry, TypeOK, SameOp, history
<1>8. ASSUME NEW c \in Client, NEW s \in Process,
             \/ Read(c, s) \/ Write(c, s) \/ RpcError(c, s)
             \/ ReceiveOlderView(c, s) \/ ReceiveError(c, s)
      PROVE  WriterInv'
  <2>1. UNCHANGED <<pc, op, arg, floor, err, msg, issued, high>>
    BY <1>8 DEF Read, Write, RpcError, ReceiveOlderView, ReceiveError, history
  <2> QED
    BY <1>6, <2>1 DEF SameOp
<1>9. ASSUME NEW c \in Client, NEW s \in Process, ReceiveResult(c, s)
      PROVE  WriterInv'
  <2>1. UNCHANGED <<pc, op, arg, floor, err, issued, high>>
    BY <1>9 DEF ReceiveResult, history
  <2>2. \A d \in Client : pc[d] = "writeQuorum" => msg'[d] = msg[d]
    BY <1>9, <1>t DEF ReceiveResult, TypeOK
  <2> QED
    BY <1>6, <2>1, <2>2 DEF SameOp
<1>10. ASSUME NEW m \in strays, WriteStray(m) PROVE WriterInv'
  BY <1>6, <1>10 DEF WriteStray, clientVars, history, SameOp
<1>11. CASE UNCHANGED vars
  BY <1>6, <1>11 DEF vars, clientVars, history, SameOp
<1> QED
  BY <1>1, <1>2, <1>3, <1>4, <1>5, <1>7, <1>8, <1>9, <1>10, <1>11
  DEF Next, BeginRead, BeginWrite, ReceiveNewerView, couldGetNewView

(* With one writer AtomicInv is inductive.                                 *)
LEMMA AtomicInvStep ==
  ASSUME SingleWriter, AtomicInv, [Next]_vars
  PROVE  AtomicInv'
<1>1. FreshInv'
  BY FreshStep DEF AtomicInv
<1>2. TypeOK /\ TypeOK'
  BY <1>1 DEF AtomicInv, FreshInv
<1>3. IssuedInv'
  BY <1>2, IssuedStep DEF AtomicInv
<1>4. WriterInv'
  BY <1>2, WriterStep
<1> QED
  BY <1>1, <1>3, <1>4 DEF AtomicInv

(* With one writer AtomicInv holds in every reachable state.               *)
LEMMA AtomicInvariant == SingleWriter => (Spec => []AtomicInv)
<1> SUFFICES ASSUME SingleWriter PROVE Spec => []AtomicInv
  OBVIOUS
<1>1. AtomicInv /\ [Next]_vars => AtomicInv'
  BY AtomicInvStep
<1> QED
  BY <1>1, AtomicInit, PTL DEF Spec

(* With one writer no timestamp is given to two values.                    *)
THEOREM UniqueTimestamps == SingleWriter => (Spec => []TimestampsAreUnique)
<1>1. AtomicInv => TimestampsAreUnique
  BY DEF AtomicInv, WriterInv
<1> QED
  BY <1>1, AtomicInvariant, PTL
-----------------------------------------------------------------------------
(***************************************************************************)
(* The refinement                                                          *)
(***************************************************************************)
(* The abstract state of a client that a step does not concern stays.      *)
LEMMA AbstractFrame ==
  ASSUME TypeOK, TypeOK', NEW c \in Client, \A d \in Client \ {c} : SameOp(d)
  PROVE  /\ status' = [status EXCEPT ![c] = status'[c]]
         /\ mine' = [mine EXCEPT ![c] = mine'[c]]
<1>1. \A d \in Client \ {c} : status'[d] = status[d] /\ mine'[d] = mine[d]
  BY DEF status, mine, SameOp
<1> QED
  BY <1>1 DEF status, mine

(* A step that keeps all operations and issues nothing is a stutter.       *)
LEMMA AbstractStutter ==
  ASSUME \A c \in Client : SameOp(c), TypeOK, TypeOK',
         UNCHANGED <<floor, issued, high, returned>>
  PROVE  UNCHANGED AR!vars
<1>1. status' = status /\ mine' = mine
  BY DEF status, mine, SameOp
<1> QED
  BY <1>1 DEF AR!vars

(* Every step of the system is a step of AtomicRegister or a stutter.      *)
LEMMA AtomicStep ==
  ASSUME SingleWriter, AtomicInv, AtomicInv', [Next]_vars
  PROVE  [AR!Next]_AR!vars
<1> USE RegisterAssumption
<1>t. TypeOK /\ TypeOK' /\ WriterInv /\ FreshInv /\ IssuedInv
  BY DEF AtomicInv, FreshInv
<1>n. \A c \in Client : pc[c] # "idle" => ~err[c]
  BY <1>t DEF FreshInv, FailInv
<1>1. ASSUME NEW c \in Client, NEW kind \in {"Read", "Write"}, NEW value, ~err[c],
             Begin(c, kind, value)
      PROVE  AR!Invoke(c, kind)
  <2>1. /\ pc[c] = "idle" /\ pc'[c] = "readQuorum" /\ op'[c] = kind /\ ~err'[c]
        /\ floor' = [floor EXCEPT ![c] = high] /\ high' = high /\ issued' = issued
        /\ returned' = [returned EXCEPT ![c] = InitialWrite]
        /\ \A d \in Client \ {c} : SameOp(d)
    BY <1>1, <1>t DEF Begin, TypeOK, SameOp
  <2>2. op[c] # "Write"
    BY <1>t, <2>1 DEF WriterInv, ClientInv, TypeOK
  <2>3. status[c] = "idle" /\ status'[c] = kind /\ mine'[c] = mine[c]
    BY <1>1, <2>1, <2>2 DEF status, mine
  <2>4. /\ status' = [status EXCEPT ![c] = kind]
        /\ mine' = [mine EXCEPT ![c] = mine[c]]
    BY <1>t, <2>1, <2>3, AbstractFrame
  <2>5. mine' = mine
    BY <2>4 DEF mine
  <2> QED
    BY <2>1, <2>3, <2>4, <2>5 DEF AR!Invoke, AR!InitialWrite, InitialWrite
<1>2. ASSUME NEW c \in Client, StartWrite(c)
      PROVE  \E value \in Value, i \in issued : AR!Issue(c, value, i)
  <2> DEFINE w == [Value |-> arg[c], Timestamp |-> msg[c].Timestamp + 1]
  <2>1. /\ pc[c] = "readQuorum" /\ op[c] = "Write" /\ QuorumReached(c)
        /\ pc'[c] = "writeQuorum" /\ op'[c] = "Write" /\ err' = err
        /\ msg'[c] = w /\ floor' = floor /\ high' = high /\ returned' = returned
        /\ issued' = issued \cup {w}
        /\ \A d \in Client \ {c} : SameOp(d)
    BY <1>2, <1>t DEF StartWrite, TypeOK, SameOp
  <2>2. ~err[c] /\ c \in Writer /\ arg[c] \in Value /\ msg[c] \in issued
    BY <1>t, <1>n, <2>1 DEF WriterInv, ClientInv, IssuedInv
  <2>3. /\ status[c] = "Write" /\ status'[c] = "Write"
        /\ mine[c] = AR!NoWrite /\ mine'[c] = w
    BY <2>1, <2>2 DEF status, mine, AR!NoWrite
  <2>4. msg[c].Timestamp >= floor[c] /\ msg[c].Timestamp \in Nat /\ floor[c] \in Nat
    BY <1>t, <2>1, QuorumMeetsFloor DEF TypeOK, Written
  <2>5. \A i \in issued : i.Timestamp \in Nat /\ i.Timestamp <= floor[c]
    BY <1>t, <2>1, <2>2 DEF WriterInv, Frontier, TypeOK, Written
  <2>6. /\ w.Timestamp > floor[c]
        /\ \A i \in issued : i.Timestamp # w.Timestamp
    BY <2>4, <2>5
  <2>7. /\ status' = [status EXCEPT ![c] = "Write"]
        /\ mine' = [mine EXCEPT ![c] = w]
    BY <1>t, <2>1, <2>3, AbstractFrame
  <2>8. status' = status
    BY <2>3, <2>7 DEF status
  <2>9. AR!Issue(c, arg[c], msg[c])
    BY <2>1, <2>3, <2>6, <2>7, <2>8 DEF AR!Issue
  <2> QED
    BY <2>2, <2>9
<1>3. ASSUME NEW c \in Client, read2ndPhase(c) PROVE UNCHANGED AR!vars
  <2>1. /\ pc[c] = "readQuorum" /\ op[c] = "Read"
        /\ pc'[c] = "writeQuorum" /\ op'[c] = "Read" /\ err' = err
        /\ UNCHANGED <<floor, issued, high, returned>>
        /\ \A d \in Client \ {c} : SameOp(d)
    BY <1>3, <1>t DEF read2ndPhase, TypeOK, SameOp, history
  <2>2. status'[c] = status[c] /\ mine'[c] = mine[c]
    BY <2>1 DEF status, mine
  <2>3. status' = status /\ mine' = mine
    BY <1>t, <2>1, <2>2, AbstractFrame DEF status, mine
  <2> QED
    BY <2>1, <2>3 DEF AR!vars
<1>4. ASSUME NEW c \in Client, EndPhase(c), pc[c] # "idle",
             \A d \in Client \ {c} : err'[d] = err[d]
      PROVE  /\ status' = [status EXCEPT ![c] = IF err'[c] THEN "failed" ELSE "idle"]
             /\ mine' = [mine EXCEPT ![c] = AR!NoWrite]
             /\ floor' = [floor EXCEPT ![c] = 0]
             /\ issued' = issued
             /\ status[c] = op[c]
  <2>1. /\ pc'[c] = "idle" /\ op'[c] = "Read"
        /\ floor' = [floor EXCEPT ![c] = 0] /\ issued' = issued
        /\ \A d \in Client \ {c} : SameOp(d)
    BY <1>4, <1>t DEF EndPhase, TypeOK, SameOp
  <2>2. /\ status'[c] = IF err'[c] THEN "failed" ELSE "idle"
        /\ mine'[c] = AR!NoWrite /\ status[c] = op[c]
    BY <1>4, <1>n, <2>1 DEF status, mine, AR!NoWrite
  <2> QED
    BY <1>t, <2>1, <2>2, AbstractFrame
<1>5. ASSUME NEW c \in Client, ReturnRead(c) \/ ReturnFromWriteQuorum(c)
      PROVE  AR!Next
  <2>1. /\ pc[c] # "idle" /\ QuorumReached(c) /\ (pc[c] = "readQuorum" => op[c] = "Read")
        /\ EndPhase(c) /\ err' = err /\ ~err[c]
        /\ high' = Max2(high, msg[c].Timestamp)
        /\ returned' = [returned EXCEPT ![c] = msg[c]]
    BY <1>5, <1>n DEF ReturnRead, ReturnFromWriteQuorum, Return
  <2>2. /\ status' = [status EXCEPT ![c] = "idle"]
        /\ mine' = [mine EXCEPT ![c] = AR!NoWrite]
        /\ floor' = [floor EXCEPT ![c] = 0]
        /\ issued' = issued /\ status[c] = op[c]
    BY <1>4, <2>1
  <2>3. CASE op[c] = "Read"
    <3>1. msg[c].Timestamp >= floor[c] /\ msg[c] \in issued
      BY <1>t, <2>1, QuorumMeetsFloor DEF FreshInv, FloorInv, TypeOK, IssuedInv
    <3>2. mine[c] = AR!NoWrite
      BY <2>3 DEF mine, AR!NoWrite
    <3>3. mine' = mine
      BY <2>2, <3>2 DEF mine
    <3>4. AR!ReturnRead(c, msg[c])
      BY <2>1, <2>2, <2>3, <3>1, <3>3 DEF AR!ReturnRead, AR!Max2, Max2
    <3> QED
      BY <3>1, <3>4 DEF AR!Next
  <2>4. CASE op[c] = "Write"
    <3>1. pc[c] = "writeQuorum"
      BY <2>1, <2>4, <1>t DEF TypeOK
    <3>2. mine[c] = msg[c] /\ msg[c].Timestamp \in Nat
      BY <1>t, <2>4, <3>1 DEF mine, TypeOK, Written
    <3>3. mine[c] # AR!NoWrite
      BY <3>2 DEF AR!NoWrite
    <3>4. AR!ReturnWrite(c)
      BY <2>1, <2>2, <2>4, <3>2, <3>3 DEF AR!ReturnWrite, AR!Max2, Max2
    <3> QED
      BY <3>4 DEF AR!Next
  <2> QED
    BY <1>t, <2>3, <2>4 DEF TypeOK
<1>6. ASSUME NEW c \in Client, Fail(c) PROVE AR!Fail(c)
  <2>1. /\ EndPhase(c) /\ pc[c] # "idle" /\ err'[c] /\ high' = high
        /\ returned' = returned
        /\ \A d \in Client \ {c} : err'[d] = err[d]
    BY <1>6, <1>t DEF Fail, TypeOK
  <2>2. /\ status' = [status EXCEPT ![c] = "failed"]
        /\ mine' = [mine EXCEPT ![c] = AR!NoWrite]
        /\ floor' = [floor EXCEPT ![c] = 0]
        /\ issued' = issued /\ status[c] = op[c]
    BY <1>4, <2>1
  <2> QED
    BY <1>t, <2>1, <2>2 DEF AR!Fail, TypeOK
<1>7. ASSUME NEW c \in Client, NEW v, Retry(c, v) PROVE UNCHANGED AR!vars
  BY <1>7, <1>t, AbstractStutter DEF Retry, TypeOK, SameOp, history
<1>8. ASSUME NEW c \in Client, NEW s \in Process,
             \/ Read(c, s) \/ Write(c, s) \/ RpcError(c, s)
             \/ ReceiveOlderView(c, s) \/ ReceiveError(c, s)
      PROVE  UNCHANGED AR!vars
  <2>1. UNCHANGED <<pc, op, arg, floor, err, msg, issued, high, returned>>
    BY <1>8 DEF Read, Write, RpcError, ReceiveOlderView, ReceiveError, history
  <2> QED
    BY <1>t, <2>1, AbstractStutter DEF SameOp
<1>9. ASSUME NEW c \in Client, NEW s \in Process, ReceiveResult(c, s)
      PROVE  UNCHANGED AR!vars
  <2>1. UNCHANGED <<pc, op, arg, floor, err, issued, high, returned>>
    BY <1>9 DEF ReceiveResult, history
  <2>2. \A d \in Client : pc[d] = "writeQuorum" => msg'[d] = msg[d]
    BY <1>9, <1>t DEF ReceiveResult, TypeOK
  <2> QED
    BY <1>t, <2>1, <2>2, AbstractStutter DEF SameOp
<1>10. ASSUME NEW m \in strays, WriteStray(m) PROVE UNCHANGED AR!vars
  BY <1>10, <1>t, AbstractStutter DEF WriteStray, clientVars, history, SameOp
<1>11. CASE UNCHANGED vars
  BY <1>11, <1>t, AbstractStutter DEF vars, clientVars, history, SameOp
<1>12. ASSUME NEW c \in Client, BeginRead(c) \/ \E value \in Value : BeginWrite(c, value)
       PROVE  AR!Next
  BY <1>1, <1>12 DEF BeginRead, BeginWrite, AR!Next
<1>13. ASSUME NEW c \in Client, StartWrite(c) \/ Fail(c) PROVE AR!Next
  BY <1>2, <1>6, <1>13 DEF AR!Next
<1> QED
  BY <1>3, <1>5, <1>7, <1>8, <1>9, <1>10, <1>11, <1>12, <1>13
  DEF Next, ReceiveNewerView, couldGetNewView

(* With one writer the register is atomic: the protocol implements the     *)
(* abstract register, what its reads and writes return included, for every *)
(* cluster that is stable.                                                 *)
THEOREM Atomicity == SingleWriter => (Spec => Atomic)
<1> SUFFICES ASSUME SingleWriter PROVE Spec => Atomic
  OBVIOUS
<1>1. Init => AR!Init
  BY RegisterAssumption DEF Init, AR!Init, AR!NoWrite, AR!InitialWrite, InitialWrite, status, mine
<1>2. AtomicInv /\ AtomicInv' /\ [Next]_vars => [AR!Next]_AR!vars
  BY AtomicStep
<1>3. Spec => []AtomicInv
  BY AtomicInvariant
<1> QED
  BY <1>1, <1>2, <1>3, PTL DEF Spec, Atomic, AR!Spec
=============================================================================
