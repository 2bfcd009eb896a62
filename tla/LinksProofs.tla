---------------------------- MODULE LinksProofs ----------------------------
(***************************************************************************)
(* What module Links guarantees for any number of processes, goroutines    *)
(* and crashes, and for any capacity of the channel: a faulty link is      *)
(* never forgotten by the repair loop.                                     *)
(***************************************************************************)
EXTENDS Links, ViewProofs

(***************************************************************************)
(* The inductive invariant                                                 *)
(***************************************************************************)
(* What the repair loop holds is a connection, and nothing while it        *)
(* deletes links: putting it into the table makes the link usable, and     *)
(* the end of a tick loses nothing.                                        *)
RepairInv ==
  /\ loop.link # NoLink => loop.link.rpcClient \in {"live", "broken"}
  /\ loop.pc = "delete" => loop.link = NoLink

(* A broadcast that waits has neither a quorum of answers nor too many     *)
(* errors.                                                                 *)
BroadcastInv ==
  \A c \in Caller :
    /\ broadcast[c].successTotal < QuorumSize(destinationView[c])
    /\ broadcast[c].failedTotal \in {0} \cup 0..NumberOfToleratedFaults(destinationView[c])

LinksInv == TypeOK /\ RepairInv /\ BroadcastInv /\ FaultyLinksAreWatched

-----------------------------------------------------------------------------
(***************************************************************************)
(* Types                                                                   *)
(***************************************************************************)
(* A call that returns leaves the counts of its broadcast within bounds.   *)
LEMMA ReturnType ==
  ASSUME LinksInv, NEW c \in Caller, NEW p \in Members(destinationView[c]),
         NEW ok \in BOOLEAN, Return(c, p, ok)
  PROVE  /\ call' \in [Caller -> [Process -> [pc : {"idle", "get", "call", "send"},
                                              link : Link \cup {NoLink}]]]
         /\ broadcast' \in [Caller -> [waiting : BOOLEAN, successTotal : 0..Cardinality(Process),
                                       failedTotal : 0..Cardinality(Process)]]
         /\ BroadcastInv'
<1> DEFINE v == destinationView[c]
           s == broadcast[c].successTotal
           f == broadcast[c].failedTotal
           N == Cardinality(Process)
<1>1. v \in View /\ p \in Process
  BY LinksAssumption DEF Members
<1>2. /\ QuorumSize(v) \in Nat /\ NumberOfMembers(v) \in Nat /\ NumberOfMembers(v) <= N
      /\ QuorumSize(v) > 0 /\ QuorumSize(v) <= NumberOfMembers(v) /\ N \in Nat
      /\ NumberOfToleratedFaults(v) = NumberOfMembers(v) - QuorumSize(v)
  <2>1. Members(v) \in SUBSET Process
    BY DEF Members
  <2>2. NumberOfMembers(v) <= N /\ N \in Nat
    BY <2>1, ProcessAssumption, FS_Subset, FS_CardinalityType DEF NumberOfMembers
  <2> QED
    BY <1>1, <2>2, QuorumIsMajority DEF NumberOfToleratedFaults
<1>3. call' \in [Caller -> [Process -> [pc : {"idle", "get", "call", "send"},
                                       link : Link \cup {NoLink}]]]
  <2>1. NoCall \in [pc : {"idle", "get", "call", "send"}, link : Link \cup {NoLink}]
    BY DEF NoCall
  <2> QED
    BY <1>1, <2>1 DEF LinksInv, TypeOK, Return
<1>4. /\ s \in Nat /\ f \in Nat /\ s < QuorumSize(v)
      /\ f <= NumberOfToleratedFaults(v)
  BY <1>2 DEF LinksInv, TypeOK, BroadcastInv
<1> DEFINE b == [broadcast[c] EXCEPT !.successTotal = @ + (IF ok THEN 1 ELSE 0),
                                     !.failedTotal = @ + (IF ok THEN 0 ELSE 1)]
<1>5. /\ b \in [waiting : BOOLEAN, successTotal : Nat, failedTotal : Nat]
      /\ b.successTotal \in {s, s + 1} /\ b.failedTotal \in {f, f + 1}
  <2>1. broadcast[c] \in [waiting : BOOLEAN, successTotal : Nat, failedTotal : Nat]
    BY <1>2 DEF LinksInv, TypeOK
  <2>2. (IF ok THEN 1 ELSE 0) \in 0..1 /\ (IF ok THEN 0 ELSE 1) \in 0..1
    OBVIOUS
  <2>3. ASSUME NEW i \in 0..1, NEW j \in 0..1,
               NEW e \in [waiting : BOOLEAN, successTotal : Nat, failedTotal : Nat]
        PROVE  LET d == [e EXCEPT !.successTotal = @ + i, !.failedTotal = @ + j]
               IN /\ d \in [waiting : BOOLEAN, successTotal : Nat, failedTotal : Nat]
                  /\ d.successTotal = e.successTotal + i /\ d.failedTotal = e.failedTotal + j
    <3> DEFINE d1 == [e EXCEPT !.successTotal = @ + i]
               d2 == [d1 EXCEPT !.failedTotal = @ + j]
    <3>1. /\ d1 \in [waiting : BOOLEAN, successTotal : Nat, failedTotal : Nat]
          /\ d1.successTotal = e.successTotal + i /\ d1.failedTotal = e.failedTotal
      OBVIOUS
    <3>2. d2 = [e EXCEPT !.successTotal = @ + i, !.failedTotal = @ + j]
      OBVIOUS
    <3> HIDE DEF d1
    <3>3. /\ d2 \in [waiting : BOOLEAN, successTotal : Nat, failedTotal : Nat]
          /\ d2.successTotal = d1.successTotal /\ d2.failedTotal = d1.failedTotal + j
      BY <3>1
    <3> HIDE DEF d2
    <3> QED
      BY <3>1, <3>2, <3>3
  <2>4. /\ b \in [waiting : BOOLEAN, successTotal : Nat, failedTotal : Nat]
        /\ b.successTotal = s + (IF ok THEN 1 ELSE 0) /\ b.failedTotal = f + (IF ok THEN 0 ELSE 1)
    BY <2>1, <2>2, <2>3
  <2> QED
    BY <1>4, <2>2, <2>4
<1>6. PICK d : /\ broadcast' = [broadcast EXCEPT ![c] = d]
               /\ \/ d = NoBroadcast
                  \/ /\ d = b
                     /\ ~(b.failedTotal > NumberOfToleratedFaults(v))
                     /\ b.successTotal # QuorumSize(v)
  BY DEF Return, Answered
<1> HIDE DEF b, s, f, N, v
<1>7. /\ d \in [waiting : BOOLEAN, successTotal : 0..N, failedTotal : 0..N]
      /\ d.successTotal < QuorumSize(v)
      /\ d.failedTotal \in {0} \cup 0..NumberOfToleratedFaults(v)
  <2>1. CASE d = NoBroadcast
    BY <1>2, <2>1 DEF NoBroadcast
  <2>2. CASE d # NoBroadcast
    <3>1. /\ d = b /\ b.failedTotal <= NumberOfToleratedFaults(v)
          /\ b.successTotal < QuorumSize(v)
          /\ b.failedTotal \in Nat /\ b.successTotal \in Nat
      BY <1>2, <1>4, <1>5, <1>6, <2>2
    <3>2. b.successTotal \in 0..N /\ b.failedTotal \in 0..N
      BY <1>2, <3>1
    <3> QED
      BY <1>2, <1>5, <3>1, <3>2
  <2> QED
    BY <2>1, <2>2
<1>8. broadcast' \in [Caller -> [waiting : BOOLEAN, successTotal : 0..N, failedTotal : 0..N]]
  BY <1>6, <1>7 DEF LinksInv, TypeOK, N
<1>9. BroadcastInv'
  BY <1>6, <1>7 DEF LinksInv, TypeOK, BroadcastInv, v
<1> QED
  BY <1>3, <1>8, <1>9 DEF N

(* Links and what becomes of them.                                         *)
LEMMA LinkTypes ==
  ASSUME TypeOK
  PROVE  /\ \A p \in Key : TableEntry(p) \in Link
         /\ \A l \in Link, r \in Client : [l EXCEPT !.rpcClient = r] \in Link
         /\ \A l \in Link \cup {NoLink} : /\ Broken(l) \in Link \cup {NoLink}
                                          /\ Broken(l).process = l.process
                                          /\ Broken(l).process \in Key
                                          /\ l \in Link => Broken(l) \in Link
         /\ \A p \in Key : Dial(p) \in Client /\ [process |-> p, rpcClient |-> Dial(p)] \in Link
         /\ NoLink \notin Link /\ NoLink.process = NoProcess
<1>1. \A p \in Key : TableEntry(p) \in Link
  BY DEF TypeOK, TableEntry, Link, Key, Client
<1>2. \A l \in Link, r \in Client : [l EXCEPT !.rpcClient = r] \in Link
  BY DEF Link
<1>3. NoLink \notin Link /\ NoLink.process = NoProcess
  BY DEF NoLink, Link, Client
<1>4. ASSUME NEW l \in Link \cup {NoLink}
      PROVE  /\ Broken(l) \in Link \cup {NoLink}
             /\ Broken(l).process = l.process
             /\ Broken(l).process \in Key
             /\ l \in Link => Broken(l) \in Link
  <2>1. "broken" \in Client /\ NoProcess \in Key
    BY DEF Client, Key
  <2>2. CASE l \in Link
    BY <1>2, <2>1, <2>2 DEF Broken, Link
  <2>3. CASE l = NoLink
    BY <1>3, <2>1, <2>3 DEF Broken, NoLink
  <2> QED
    BY <1>3, <2>2, <2>3
<1>5. \A p \in Key : Dial(p) \in Client /\ [process |-> p, rpcClient |-> Dial(p)] \in Link
  BY DEF Dial, Client, Link
<1> QED
  BY <1>1, <1>2, <1>3, <1>4, <1>5

-----------------------------------------------------------------------------
(***************************************************************************)
(* The goroutines that broadcast                                           *)
(***************************************************************************)
(* A step that leaves what watches a link, and breaks no other link, keeps *)
(* all faulty links watched.                                               *)
LEMMA StillWatched ==
  ASSUME LinksInv,
         \A p \in Process : Watched(p) => Watched(p)',
         \A p \in Process : commLinkTable'[p] = [process |-> p, rpcClient |-> "nil"] =>
                              commLinkTable[p] = commLinkTable'[p] \/ Watched(p)'
  PROVE  FaultyLinksAreWatched'
BY DEF LinksInv, FaultyLinksAreWatched

(* Callers.                                                                *)
LEMMA BroadcastStep ==
  ASSUME LinksInv, NEW c \in Caller, BroadcastRPCRequest(c)
  PROVE  LinksInv'
<1> DEFINE calls == [p \in Process |-> IF HasMember(destinationView[c], p)
                                       THEN [NoCall EXCEPT !.pc = "get"] ELSE NoCall]
           b == [NoBroadcast EXCEPT !.waiting = TRUE]
<1>1. /\ call' = [call EXCEPT ![c] = calls]
      /\ broadcast' = [broadcast EXCEPT ![c] = b]
      /\ UNCHANGED <<up, crashes, commLinkTable, repairLinkChan, loop, faultyCommLinks,
                     commLinkRepairPeriod, repairTimer>>
  BY DEF BroadcastRPCRequest, others, repairVars
<1>2. \A p \in Process : call[c][p].pc = "idle"
  BY DEF BroadcastRPCRequest, NoCall
<1>3. calls \in [Process -> [pc : {"idle", "get", "call", "send"}, link : Link \cup {NoLink}]]
  BY DEF NoCall
<1>4. b.successTotal = 0 /\ b.failedTotal = 0
  BY DEF NoBroadcast
<1>5. Cardinality(Process) \in Nat
  BY ProcessAssumption, FS_CardinalityType
<1>6. b \in [waiting : BOOLEAN, successTotal : 0..Cardinality(Process),
             failedTotal : 0..Cardinality(Process)]
  <2>1. NoBroadcast \in [waiting : BOOLEAN, successTotal : 0..Cardinality(Process),
                         failedTotal : 0..Cardinality(Process)]
    BY <1>5 DEF NoBroadcast
  <2> QED
    BY <2>1
<1> HIDE DEF calls, b
<1>7. TypeOK'
  BY <1>1, <1>3, <1>6 DEF LinksInv, TypeOK
<1>8. BroadcastInv'
  <2>1. QuorumSize(destinationView[c]) > 0 /\ QuorumSize(destinationView[c]) \in Nat
    BY LinksAssumption, QuorumIsMajority
  <2> QED
    BY <1>1, <1>4, <2>1 DEF LinksInv, TypeOK, BroadcastInv
<1>9. FaultyLinksAreWatched'
  <2>1. \A p \in Process : Watched(p) => Watched(p)'
    BY <1>1, <1>2 DEF LinksInv, TypeOK, Watched
  <2> QED
    BY <1>1, <2>1, StillWatched
<1> QED
  BY <1>1, <1>7, <1>8, <1>9 DEF LinksInv, RepairInv

(* A call that returns, and does not wait to tell the repair loop.         *)
LEMMA ReturnStep ==
  ASSUME LinksInv, NEW c \in Caller, NEW p \in Members(destinationView[c]),
         NEW ok \in BOOLEAN, Return(c, p, ok), call[c][p].pc # "send",
         UNCHANGED <<others, commLinkTable, repairLinkChan, repairVars>>
  PROVE  LinksInv'
<1>1. UNCHANGED <<up, crashes, commLinkTable, repairLinkChan, loop, faultyCommLinks,
                  commLinkRepairPeriod, repairTimer>>
  BY DEF others, repairVars
<1>2. /\ call' \in [Caller -> [Process -> [pc : {"idle", "get", "call", "send"},
                                          link : Link \cup {NoLink}]]]
      /\ broadcast' \in [Caller -> [waiting : BOOLEAN, successTotal : 0..Cardinality(Process),
                                    failedTotal : 0..Cardinality(Process)]]
      /\ BroadcastInv'
  BY ReturnType
<1>3. TypeOK'
  BY <1>1, <1>2 DEF LinksInv, TypeOK
<1>4. \A q \in Process : Watched(q) => Watched(q)'
  BY <1>1 DEF LinksInv, TypeOK, Watched, Return
<1> QED
  BY <1>1, <1>2, <1>3, <1>4, StillWatched DEF LinksInv, RepairInv

(* SendRPCRequest looks up the link.                                       *)
LEMMA GetStep ==
  ASSUME LinksInv, NEW c \in Caller, NEW p \in Members(destinationView[c]), getCommLink(c, p)
  PROVE  LinksInv'
<1>1. CASE Return(c, p, FALSE)
  BY <1>1, ReturnStep DEF getCommLink
<1>2. CASE /\ call' = [call EXCEPT ![c][p] = [pc |-> "call", link |-> commLinkTable[p]]]
           /\ UNCHANGED broadcast
  <2>1. UNCHANGED <<up, crashes, commLinkTable, repairLinkChan, loop, faultyCommLinks,
                    commLinkRepairPeriod, repairTimer, broadcast>>
    BY <1>2 DEF getCommLink, others, repairVars
  <2>2. p \in Process /\ p \in Key /\ commLinkTable[p] \in Link \cup {NoLink}
        /\ call[c][p].pc = "get"
    BY DEF Members, LinksInv, TypeOK, Key, getCommLink
  <2>3. [pc |-> "call", link |-> commLinkTable[p]]
          \in [pc : {"idle", "get", "call", "send"}, link : Link \cup {NoLink}]
    BY <2>2
  <2>4. TypeOK'
    BY <1>2, <2>1, <2>2, <2>3 DEF LinksInv, TypeOK
  <2>5. \A q \in Process : Watched(q) => Watched(q)'
    BY <1>2, <2>1, <2>2 DEF LinksInv, TypeOK, Watched
  <2> QED
    BY <2>1, <2>4, <2>5, StillWatched DEF LinksInv, RepairInv, BroadcastInv
<1> QED
  BY <1>1, <1>2 DEF getCommLink

(* A goroutine puts a link into the table, under the table's lock, and     *)
(* holds the lock until the repair loop knows of it if it is faulty.       *)
LEMMA SetLinkStep ==
  ASSUME LinksInv, NEW c \in Caller, NEW p \in Process, NEW k \in Key, NEW l \in Link,
         NEW pc \in {"call", "send"}, call[c][p].pc # "send",
         l.rpcClient = "nil" => pc = "send",
         SetLink(k, l), call' = [call EXCEPT ![c][p] = [pc |-> pc, link |-> l]],
         UNCHANGED <<others, repairLinkChan, broadcast, repairVars>>
  PROVE  LinksInv'
<1>1. /\ commLinkTable' = [commLinkTable EXCEPT ![k] = l]
      /\ UNCHANGED <<up, crashes, repairLinkChan, loop, faultyCommLinks,
                     commLinkRepairPeriod, repairTimer, broadcast>>
  BY DEF SetLink, others, repairVars
<1>2. [pc |-> pc, link |-> l] \in [pc : {"idle", "get", "call", "send"}, link : Link \cup {NoLink}]
  OBVIOUS
<1>3. TypeOK'
  BY <1>1, <1>2 DEF LinksInv, TypeOK
<1>4. \A q \in Process : Watched(q) => Watched(q)'
  BY <1>1 DEF LinksInv, TypeOK, Watched
<1>5. l.rpcClient = "nil" => Watched(l.process)'
  <2>1. call'[c][p] = [pc |-> pc, link |-> l]
    BY DEF LinksInv, TypeOK
  <2> QED
    BY <2>1 DEF Watched
<1>6. FaultyLinksAreWatched'
  <2> SUFFICES ASSUME NEW q \in Process,
                      commLinkTable'[q] = [process |-> q, rpcClient |-> "nil"]
               PROVE  commLinkTable[q] = commLinkTable'[q] \/ Watched(q)'
    BY <1>4, StillWatched
  <2> QED
    BY <1>1, <1>5 DEF LinksInv, TypeOK, Key
<1> QED
  BY <1>1, <1>3, <1>6 DEF LinksInv, RepairInv, BroadcastInv

(* SendRPCRequest makes a new link.                                        *)
LEMMA NewStep ==
  ASSUME LinksInv, NEW c \in Caller, NEW p \in Members(destinationView[c]), newCommLink(c, p)
  PROVE  LinksInv'
<1> DEFINE link == [process |-> p, rpcClient |-> Dial(p)]
<1>1. p \in Process /\ p \in Key
  BY DEF Members, Key
<1>2. link \in Link
  BY <1>1, LinkTypes DEF LinksInv
<1>3. /\ SetLink(p, link) /\ call[c][p].pc # "send"
      /\ call' = [call EXCEPT ![c][p] =
                    [pc |-> IF link.rpcClient = "nil" THEN "send" ELSE "call", link |-> link]]
      /\ UNCHANGED <<others, repairLinkChan, broadcast, repairVars>>
  BY DEF newCommLink
<1> HIDE DEF link
<1> QED
  BY <1>1, <1>2, <1>3, SetLinkStep

(* A call failed.                                                          *)
LEMMA FaultyStep ==
  ASSUME LinksInv, NEW c \in Caller, NEW p \in Members(destinationView[c]), setCommLinkFaulty(c, p)
  PROVE  LinksInv'
<1> DEFINE process == call[c][p].link.process
           link == [TableEntry(process) EXCEPT !.rpcClient = "nil"]
<1>1. p \in Process
  BY DEF Members
<1>2. call[c][p].link \in Link \cup {NoLink} /\ process \in Key
  BY <1>1 DEF LinksInv, TypeOK, Link, NoLink, Key
<1>3. link \in Link /\ link.rpcClient = "nil"
  <2>1. TableEntry(process) \in Link /\ "nil" \in Client
    BY <1>2, LinkTypes DEF LinksInv, Client
  <2> QED
    BY <2>1, LinkTypes DEF LinksInv, Link
<1>4. /\ SetLink(process, link) /\ call[c][p].pc # "send"
      /\ call' = [call EXCEPT ![c][p] = [pc |-> "send", link |-> link]]
      /\ UNCHANGED <<others, repairLinkChan, broadcast, repairVars>>
  BY DEF setCommLinkFaulty
<1> HIDE DEF link, process
<1> QED
  BY <1>1, <1>2, <1>3, <1>4, SetLinkStep

(* A faulty link reaches the channel.                                      *)
LEMMA SendStep ==
  ASSUME LinksInv, NEW c \in Caller, NEW p \in Members(destinationView[c]), SendToRepair(c, p)
  PROVE  LinksInv'
<1> DEFINE k == call[c][p].link.process
<1>1. /\ UNCHANGED <<up, crashes, commLinkTable, loop, faultyCommLinks,
                     commLinkRepairPeriod, repairTimer>>
      /\ Len(repairLinkChan) < ChanCap
      /\ repairLinkChan' = Append(repairLinkChan, k)
      /\ Return(c, p, FALSE)
  BY DEF SendToRepair, others, repairVars
<1>2. p \in Process /\ k \in Key
  BY DEF Members, LinksInv, TypeOK, Link, NoLink, Key
<1>3. /\ call' \in [Caller -> [Process -> [pc : {"idle", "get", "call", "send"},
                                          link : Link \cup {NoLink}]]]
      /\ broadcast' \in [Caller -> [waiting : BOOLEAN, successTotal : 0..Cardinality(Process),
                                    failedTotal : 0..Cardinality(Process)]]
      /\ BroadcastInv'
  BY <1>1, ReturnType
<1> HIDE DEF k
<1>4. /\ repairLinkChan' \in Seq(Key) /\ Len(repairLinkChan') <= ChanCap
      /\ \A i \in DOMAIN repairLinkChan : i \in DOMAIN repairLinkChan'
                                          /\ repairLinkChan'[i] = repairLinkChan[i]
      /\ \E i \in DOMAIN repairLinkChan' : repairLinkChan'[i] = k
  <2>1. repairLinkChan \in Seq(Key) /\ Len(repairLinkChan) \in Nat /\ ChanCap \in Nat
    BY LinksAssumption DEF LinksInv, TypeOK
  <2> QED
    BY <1>1, <1>2, <2>1
<1>5. TypeOK'
  BY <1>1, <1>3, <1>4 DEF LinksInv, TypeOK
<1>6. ASSUME NEW q \in Process, Watched(q) PROVE Watched(q)'
  <2>1. CASE q = k
    BY <1>4, <2>1 DEF Watched
  <2>2. CASE \E i \in DOMAIN repairLinkChan : repairLinkChan[i] = q
    BY <1>4, <2>2 DEF Watched
  <2>3. CASE q \in faultyCommLinks \/ loop.link.process = q
    BY <1>1, <2>3 DEF Watched
  <2>4. CASE q # k /\ \E d \in Caller, r \in Process :
                         call[d][r].pc = "send" /\ call[d][r].link.process = q
    <3>1. PICK d \in Caller, r \in Process : call[d][r].pc = "send" /\ call[d][r].link.process = q
      BY <2>4
    <3>2. call'[d][r] = call[d][r]
      BY <1>1, <1>2, <2>4, <3>1 DEF k, Return, LinksInv, TypeOK
    <3> QED
      BY <3>1, <3>2 DEF Watched
  <2> QED
    BY <1>6, <2>1, <2>2, <2>3, <2>4 DEF Watched
<1> QED
  BY <1>1, <1>3, <1>5, <1>6, StillWatched DEF LinksInv, RepairInv

-----------------------------------------------------------------------------
(***************************************************************************)
(* The repair loop                                                         *)
(***************************************************************************)
(* The connection that the loop holds after it has dialled.                *)
LEMMA Dialled ==
  ASSUME LinksInv, NEW p \in Key, Dial(p) = "live"
  PROVE  LET l == [process |-> p, rpcClient |-> "live"] IN
         /\ l \in Link /\ l # NoLink
         /\ [loop EXCEPT !.link = l]
              \in [pc : {"select", "tick", "delete"}, link : Link \cup {NoLink}, todo : SUBSET Key]
BY DEF LinksInv, TypeOK, Link, NoLink, Client

(* The loop takes a link from the channel: it is repaired or remembered.   *)
LEMMA TakeStep ==
  ASSUME LinksInv, TakeLink
  PROVE  LinksInv'
<1> DEFINE p == Head(repairLinkChan)
           l == [process |-> p, rpcClient |-> "live"]
<1>1. /\ loop = Idle /\ repairLinkChan # <<>> /\ repairLinkChan' = Tail(repairLinkChan)
      /\ UNCHANGED <<up, crashes, commLinkTable, call, broadcast>>
  BY DEF TakeLink, others, callVars
<1>2. repairLinkChan \in Seq(Key) /\ p \in Key
      /\ Len(repairLinkChan) <= ChanCap /\ ChanCap \in Nat
  BY <1>1, LinksAssumption DEF LinksInv, TypeOK
<1>3. /\ repairLinkChan' \in Seq(Key) /\ Len(repairLinkChan') <= ChanCap
      /\ \A q : (\E i \in DOMAIN repairLinkChan : repairLinkChan[i] = q) =>
                  q = p \/ \E i \in DOMAIN repairLinkChan' : repairLinkChan'[i] = q
  <2>1. \A i \in DOMAIN repairLinkChan : i # 1 =>
          i - 1 \in DOMAIN repairLinkChan' /\ repairLinkChan'[i - 1] = repairLinkChan[i]
    BY <1>1, <1>2
  <2>2. repairLinkChan[1] = p
    BY <1>1, <1>2
  <2>3. repairLinkChan' \in Seq(Key) /\ Len(repairLinkChan') <= ChanCap
    BY <1>1, <1>2
  <2> QED
    BY <2>1, <2>2, <2>3
<1>4. /\ loop'.link \in Link \cup {NoLink}
      /\ loop' \in [pc : {"select", "tick", "delete"}, link : Link \cup {NoLink}, todo : SUBSET Key]
      /\ loop'.pc = "select"
      /\ faultyCommLinks \subseteq faultyCommLinks' /\ faultyCommLinks' \subseteq Key
      /\ commLinkRepairPeriod' \in {1, 2, 4} /\ repairTimer' \in BOOLEAN
      /\ p \in faultyCommLinks' \/ loop'.link.process = p
      /\ loop'.link # NoLink => loop'.link.rpcClient = "live"
  <2>1. CASE Dial(p) = "live"
    <3>1. loop' = [loop EXCEPT !.link = l]
          /\ UNCHANGED <<faultyCommLinks, commLinkRepairPeriod, repairTimer>>
      BY <2>1 DEF TakeLink
    <3>2. loop'.link = l /\ loop'.pc = "select" /\ l.process = p /\ l.rpcClient = "live"
      BY <1>1, <3>1 DEF Idle
    <3> QED
      BY <1>2, <2>1, <3>1, <3>2, Dialled DEF LinksInv, TypeOK
  <2>2. CASE Dial(p) # "live"
    <3>1. /\ faultyCommLinks' = faultyCommLinks \cup {p} /\ UNCHANGED loop
          /\ commLinkRepairPeriod' = 1 /\ repairTimer' = TRUE
      BY <2>2 DEF TakeLink, initialCommLinkRepairPeriod
    <3>2. loop.pc = "select" /\ loop.link = NoLink
      BY <1>1 DEF Idle
    <3> QED
      BY <1>2, <3>1, <3>2 DEF LinksInv, TypeOK
  <2> QED
    BY <2>1, <2>2
<1>5. TypeOK'
  BY <1>1, <1>3, <1>4 DEF LinksInv, TypeOK
<1> HIDE DEF p, l
<1>6. ASSUME NEW q \in Process, Watched(q) PROVE Watched(q)'
  <2>1. loop.link.process # q
    BY <1>1, LinksAssumption DEF Idle, NoLink
  <2> QED
    BY <1>1, <1>3, <1>4, <1>6, <2>1 DEF Watched
<1> QED
  BY <1>1, <1>4, <1>5, <1>6, StillWatched DEF LinksInv, RepairInv, BroadcastInv

(* The connection is put into the table, where the link was faulty.        *)
LEMMA RepairStep ==
  ASSUME LinksInv, repairCommLinkFunc
  PROVE  LinksInv'
<1> DEFINE p == loop.link.process
           l == [TableEntry(p) EXCEPT !.rpcClient = loop.link.rpcClient]
<1>1. /\ loop.link # NoLink
      /\ commLinkTable' = [commLinkTable EXCEPT ![p] = l]
      /\ loop' = [loop EXCEPT !.link = NoLink]
      /\ faultyCommLinks' \in {faultyCommLinks \ {p}, faultyCommLinks}
      /\ UNCHANGED <<up, crashes, call, broadcast, repairLinkChan, commLinkRepairPeriod, repairTimer>>
  BY DEF repairCommLinkFunc, SetLink, others, callVars
<1>2. loop.link \in Link /\ p \in Key /\ loop.link.rpcClient \in Client \ {"nil"}
  BY <1>1 DEF LinksInv, TypeOK, RepairInv, Link
<1>3. l \in Link /\ l.rpcClient # "nil"
  <2>1. TableEntry(p) \in Link
    BY <1>2, LinkTypes DEF LinksInv
  <2> QED
    BY <1>2, <2>1 DEF Link
<1>4. /\ loop' \in [pc : {"select", "tick", "delete"}, link : Link \cup {NoLink}, todo : SUBSET Key]
      /\ loop'.link = NoLink
  BY <1>1 DEF LinksInv, TypeOK
<1> HIDE DEF l, p
<1>5. TypeOK'
  BY <1>1, <1>2, <1>3, <1>4 DEF LinksInv, TypeOK
<1>6. \A q \in Process \ {p} : Watched(q) => Watched(q)'
  BY <1>1 DEF p, Watched
<1>7. FaultyLinksAreWatched'
  <2> SUFFICES ASSUME NEW q \in Process,
                      commLinkTable'[q] = [process |-> q, rpcClient |-> "nil"]
               PROVE  Watched(q)'
    BY DEF FaultyLinksAreWatched
  <2>1. q # p
    BY <1>1, <1>2, <1>3 DEF LinksInv, TypeOK
  <2>2. commLinkTable[q] = commLinkTable'[q]
    BY <1>1, <2>1 DEF LinksInv, TypeOK, Key
  <2> QED
    BY <1>6, <2>1, <2>2 DEF LinksInv, FaultyLinksAreWatched
<1> QED
  BY <1>1, <1>4, <1>5, <1>7 DEF LinksInv, RepairInv, BroadcastInv

(* The timer fires.                                                        *)
LEMMA TickStep ==
  ASSUME LinksInv, Tick
  PROVE  LinksInv'
<1>1. /\ loop = Idle /\ repairTimer' = FALSE
      /\ loop' = [loop EXCEPT !.pc = "tick", !.todo = faultyCommLinks]
      /\ UNCHANGED <<up, crashes, commLinkTable, call, broadcast, repairLinkChan, faultyCommLinks,
                     commLinkRepairPeriod>>
  BY DEF Tick, others, callVars
<1>2. loop' = [pc |-> "tick", link |-> NoLink, todo |-> faultyCommLinks] /\ loop.link = NoLink
  BY <1>1 DEF Idle
<1>3. TypeOK'
  BY <1>1, <1>2 DEF LinksInv, TypeOK
<1>4. \A q \in Process : Watched(q) => Watched(q)'
  BY <1>1, <1>2 DEF Watched
<1> QED
  BY <1>1, <1>2, <1>3, <1>4, StillWatched DEF LinksInv, RepairInv, BroadcastInv

(* The loop dials a faulty link again.                                     *)
LEMMA TickRepairStep ==
  ASSUME LinksInv, NEW p \in Key, TickRepair(p)
  PROVE  LinksInv'
<1> DEFINE l == IF Dial(p) = "live" THEN [process |-> p, rpcClient |-> "live"] ELSE NoLink
<1>1. /\ loop.pc = "tick" /\ loop.link = NoLink
      /\ loop' = [loop EXCEPT !.todo = @ \ {p}, !.link = l]
      /\ UNCHANGED <<up, crashes, commLinkTable, call, broadcast, repairLinkChan, faultyCommLinks,
                     commLinkRepairPeriod, repairTimer>>
  BY DEF TickRepair, others, callVars
<1>2. l \in Link \cup {NoLink} /\ (l # NoLink => l.rpcClient = "live")
  BY Dialled
<1> HIDE DEF l
<1>3. loop' = [pc |-> "tick", link |-> l, todo |-> loop.todo \ {p}] /\ loop.todo \in SUBSET Key
  BY <1>1 DEF LinksInv, TypeOK
<1>4. TypeOK'
  BY <1>1, <1>2, <1>3 DEF LinksInv, TypeOK
<1>5. \A q \in Process : Watched(q) => Watched(q)'
  BY <1>1, LinksAssumption DEF Watched, NoLink
<1> QED
  BY <1>1, <1>2, <1>3, <1>4, <1>5, StillWatched DEF LinksInv, RepairInv, BroadcastInv

(* The end of a tick.                                                      *)
LEMMA FinishTickType ==
  ASSUME LinksInv, loop.link = NoLink, NEW todo \in SUBSET Key, FinishTick(todo)
  PROVE  /\ loop' \in [pc : {"select", "tick", "delete"}, link : Link \cup {NoLink}, todo : SUBSET Key]
         /\ loop'.link = NoLink /\ repairTimer' \in BOOLEAN
<1>1. Idle \in [pc : {"select", "tick", "delete"}, link : Link \cup {NoLink}, todo : SUBSET Key]
      /\ Idle.link = NoLink
  BY DEF Idle
<1>2. LET d == [loop EXCEPT !.pc = "delete", !.todo = todo] IN
      /\ d \in [pc : {"select", "tick", "delete"}, link : Link \cup {NoLink}, todo : SUBSET Key]
      /\ d.link = NoLink
  <2>1. loop \in [pc : {"select", "tick", "delete"}, link : Link \cup {NoLink}, todo : SUBSET Key]
    BY DEF LinksInv, TypeOK
  <2>2. [loop EXCEPT !.pc = "delete", !.todo = todo]
          = [[loop EXCEPT !.pc = "delete"] EXCEPT !.todo = todo]
    BY <2>1
  <2> DEFINE d == [loop EXCEPT !.pc = "delete"]
  <2>3. /\ d \in [pc : {"select", "tick", "delete"}, link : Link \cup {NoLink}, todo : SUBSET Key]
        /\ d.link = NoLink
    BY <2>1
  <2> HIDE DEF d
  <2>4. LET e == [d EXCEPT !.todo = todo] IN
        /\ e \in [pc : {"select", "tick", "delete"}, link : Link \cup {NoLink}, todo : SUBSET Key]
        /\ e.link = NoLink
    BY <2>3
  <2> QED
    BY <2>2, <2>4 DEF d
<1>3. repairTimer' \in BOOLEAN
  BY DEF FinishTick
<1> QED
  BY <1>1, <1>2, <1>3 DEF FinishTick

(* The period grows; too long a period has the faulty links deleted.       *)
LEMMA BackoffStep ==
  ASSUME LinksInv, TickBackoff
  PROVE  LinksInv'
<1>1. /\ loop.link = NoLink
      /\ UNCHANGED <<up, crashes, commLinkTable, call, broadcast, repairLinkChan, faultyCommLinks>>
  BY DEF TickBackoff, others, callVars
<1>2. PICK todo \in SUBSET Key : FinishTick(todo)
  BY DEF TickBackoff, LinksInv, TypeOK
<1>3. /\ loop' \in [pc : {"select", "tick", "delete"}, link : Link \cup {NoLink}, todo : SUBSET Key]
      /\ loop'.link = NoLink /\ repairTimer' \in BOOLEAN
  BY <1>1, <1>2, FinishTickType
<1>4. commLinkRepairPeriod' \in {1, 2, 4}
  BY DEF TickBackoff, LinksInv, TypeOK, maxCommLinkRepairPeriod
<1>5. TypeOK'
  BY <1>1, <1>3, <1>4 DEF LinksInv, TypeOK
<1>6. \A q \in Process : Watched(q) => Watched(q)'
  BY <1>1, <1>3 DEF Watched
<1> QED
  BY <1>1, <1>3, <1>5, <1>6, StillWatched DEF LinksInv, RepairInv, BroadcastInv

(* A faulty link is deleted, and dialled by the next call.                 *)
LEMMA DeleteStep ==
  ASSUME LinksInv, NEW p \in Key, deleteCommLink(p)
  PROVE  LinksInv'
<1>1. /\ loop.link = NoLink
      /\ commLinkTable' = [commLinkTable EXCEPT ![p] = NoLink]
      /\ UNCHANGED <<up, crashes, call, broadcast, repairLinkChan, faultyCommLinks,
                     commLinkRepairPeriod>>
  BY DEF deleteCommLink, SetLink, others, callVars, LinksInv, RepairInv
<1>2. PICK todo \in SUBSET Key : FinishTick(todo)
  BY DEF deleteCommLink, LinksInv, TypeOK
<1>3. /\ loop' \in [pc : {"select", "tick", "delete"}, link : Link \cup {NoLink}, todo : SUBSET Key]
      /\ loop'.link = NoLink /\ repairTimer' \in BOOLEAN
  BY <1>1, <1>2, FinishTickType
<1>4. TypeOK'
  BY <1>1, <1>3 DEF LinksInv, TypeOK
<1>5. \A q \in Process : Watched(q) => Watched(q)'
  BY <1>1, <1>3 DEF Watched
<1>6. \A q \in Process : commLinkTable'[q] = [process |-> q, rpcClient |-> "nil"] =>
                           commLinkTable[q] = commLinkTable'[q]
  BY <1>1 DEF LinksInv, TypeOK, Key, NoLink
<1> QED
  BY <1>1, <1>3, <1>4, <1>5, <1>6, StillWatched DEF LinksInv, RepairInv, BroadcastInv

-----------------------------------------------------------------------------
(***************************************************************************)
(* The other processes                                                     *)
(***************************************************************************)
(* A crash breaks connections and forgets no faulty link.                  *)
LEMMA CrashStep ==
  ASSUME LinksInv, NEW p \in MayCrash, Crash(p)
  PROVE  LinksInv'
<1> DEFINE T == [pc : {"idle", "get", "call", "send"}, link : Link \cup {NoLink}]
<1>1. /\ crashes < MaxCrashes /\ up' = [up EXCEPT ![p] = FALSE] /\ crashes' = crashes + 1
      /\ commLinkTable' = [commLinkTable EXCEPT ![p] = Broken(@)]
      /\ call' = [c \in Caller |-> [call[c] EXCEPT ![p].link = Broken(@)]]
      /\ loop' = IF loop.link.process = p THEN [loop EXCEPT !.link = Broken(@)] ELSE loop
      /\ UNCHANGED <<repairLinkChan, broadcast, faultyCommLinks, commLinkRepairPeriod, repairTimer>>
  BY DEF Crash
<1>2. p \in Process /\ p \in Key /\ MaxCrashes \in Nat
  BY LinksAssumption DEF Key
<1>3. \A l \in Link \cup {NoLink} : /\ Broken(l) \in Link \cup {NoLink}
                                    /\ Broken(l).process = l.process
                                    /\ l \in Link => Broken(l) \in Link
  BY LinkTypes DEF LinksInv
<1>4. ASSUME NEW c \in Caller
      PROVE  /\ call'[c] \in [Process -> T]
             /\ \A q \in Process : call'[c][q].pc = call[c][q].pc
                                   /\ call'[c][q].link.process = call[c][q].link.process
  <2>1. call[c] \in [Process -> T] /\ call'[c] = [call[c] EXCEPT ![p].link = Broken(@)]
    BY <1>1 DEF LinksInv, TypeOK
  <2>2. call[c][p] \in T /\ call[c][p].link \in Link \cup {NoLink}
    BY <1>2, <2>1
  <2>3. [call[c][p] EXCEPT !.link = Broken(@)] \in T
    BY <1>3, <2>2
  <2>4. \A q \in Process : call'[c][q] = IF q = p THEN [call[c][p] EXCEPT !.link = Broken(@)]
                                                 ELSE call[c][q]
    BY <2>1
  <2> QED
    BY <1>3, <2>1, <2>2, <2>3, <2>4
<1>5. /\ loop' \in [pc : {"select", "tick", "delete"}, link : Link \cup {NoLink}, todo : SUBSET Key]
      /\ loop'.link.process = loop.link.process /\ loop'.pc = loop.pc
      /\ loop.link = NoLink => loop'.link = NoLink
      /\ loop'.link.rpcClient \in {loop.link.rpcClient, "broken"}
  <2>1. loop.link \in Link \cup {NoLink}
    BY DEF LinksInv, TypeOK
  <2>2. Broken(loop.link).rpcClient \in {loop.link.rpcClient, "broken"}
        /\ Broken(NoLink) = NoLink
    BY <2>1 DEF Broken, Link, NoLink
  <2> QED
    BY <1>1, <1>3, <2>1, <2>2 DEF LinksInv, TypeOK
<1>6. call' \in [Caller -> [Process -> T]]
  BY <1>1, <1>4
<1>7. commLinkTable' \in [Key -> Link \cup {NoLink}]
  BY <1>1, <1>2, <1>3 DEF LinksInv, TypeOK
<1>8. TypeOK'
  <2>1. up' \in [Process -> BOOLEAN]
    BY <1>1 DEF LinksInv, TypeOK
  <2>2. crashes' \in 0..MaxCrashes
    BY <1>1, <1>2 DEF LinksInv, TypeOK
  <2> QED
    BY <1>1, <1>5, <1>6, <1>7, <2>1, <2>2 DEF LinksInv, TypeOK
<1>9. \A q \in Process : Watched(q) => Watched(q)'
  BY <1>1, <1>4, <1>5 DEF Watched
<1>10. \A q \in Process : commLinkTable'[q] = [process |-> q, rpcClient |-> "nil"] =>
                            commLinkTable[q] = commLinkTable'[q]
  <2>1. \A q \in Process : commLinkTable'[q] = IF q = p THEN Broken(commLinkTable[p])
                                                       ELSE commLinkTable[q]
    BY <1>1, <1>2 DEF LinksInv, TypeOK, Key
  <2>2. \A l \in Link \cup {NoLink} : Broken(l).rpcClient = "nil" => Broken(l) = l
    BY DEF Broken, Link
  <2> QED
    BY <1>2, <2>1, <2>2 DEF LinksInv, TypeOK
<1> QED
  BY <1>1, <1>5, <1>8, <1>9, <1>10, StillWatched DEF LinksInv, RepairInv, BroadcastInv

-----------------------------------------------------------------------------
(***************************************************************************)
(* The theorems                                                            *)
(***************************************************************************)
(* At first there are no links.                                            *)
LEMMA LinksInit == Init => LinksInv
<1> SUFFICES ASSUME Init PROVE LinksInv
  OBVIOUS
<1>1. Cardinality(Process) \in Nat /\ MaxCrashes \in Nat /\ ChanCap \in Nat
  BY LinksAssumption, ProcessAssumption, FS_CardinalityType
<1>2. NoBroadcast \in [waiting : BOOLEAN, successTotal : 0..Cardinality(Process),
                       failedTotal : 0..Cardinality(Process)]
  BY <1>1 DEF NoBroadcast
<1>3. NoCall \in [pc : {"idle", "get", "call", "send"}, link : Link \cup {NoLink}]
  BY DEF NoCall
<1>4. Idle \in [pc : {"select", "tick", "delete"}, link : Link \cup {NoLink}, todo : SUBSET Key]
  BY DEF Idle
<1>5. TypeOK
  BY <1>1, <1>2, <1>3, <1>4 DEF Init, TypeOK, initialCommLinkRepairPeriod
<1>6. RepairInv
  BY DEF Init, RepairInv, Idle
<1>7. BroadcastInv
  <2>1. \A c \in Caller : QuorumSize(destinationView[c]) > 0
    BY LinksAssumption, QuorumIsMajority
  <2> QED
    BY <2>1 DEF Init, BroadcastInv, NoBroadcast
<1>8. FaultyLinksAreWatched
  BY DEF Init, FaultyLinksAreWatched, NoLink, Key
<1> QED
  BY <1>5, <1>6, <1>7, <1>8 DEF LinksInv

(* Every step keeps the inductive invariant.                               *)
LEMMA LinksStep == LinksInv /\ [Next]_vars => LinksInv'
<1> SUFFICES ASSUME LinksInv, [Next]_vars PROVE LinksInv'
  OBVIOUS
<1>1. ASSUME NEW c \in Caller, NEW p \in Members(destinationView[c]), SendRPCRequest(c, p)
      PROVE  LinksInv'
  <2>1. CASE CallReturns(c, p)
    BY <2>1, ReturnStep DEF CallReturns
  <2> QED
    BY <1>1, <2>1, GetStep, NewStep, FaultyStep, SendStep DEF SendRPCRequest
<1>2. ASSUME NEW p \in MayCrash, Recover(p) PROVE LinksInv'
  <2>1. p \in Process /\ up' = [up EXCEPT ![p] = TRUE]
        /\ UNCHANGED <<crashes, commLinkTable, repairLinkChan, call, broadcast, loop,
                       faultyCommLinks, commLinkRepairPeriod, repairTimer>>
    BY <1>2, LinksAssumption DEF Recover, callVars, repairVars
  <2>2. TypeOK'
    BY <2>1 DEF LinksInv, TypeOK
  <2> QED
    BY <2>1, <2>2 DEF LinksInv, RepairInv, BroadcastInv, FaultyLinksAreWatched, Watched
<1>3. CASE UNCHANGED vars
  BY <1>3 DEF vars, LinksInv, TypeOK, RepairInv, BroadcastInv, FaultyLinksAreWatched, Watched
<1>4. CASE Next
  BY <1>1, <1>2, <1>4, BroadcastStep, TakeStep, RepairStep, TickStep, TickRepairStep, BackoffStep,
     DeleteStep, CrashStep DEF Next, TickSteps
<1> QED
  BY <1>3, <1>4

(* The inductive invariant holds.                                          *)
LEMMA LinksInvariance == Spec => []LinksInv
BY LinksInit, LinksStep, PTL DEF Spec

(* Every variable keeps its type: the counts of a broadcast stay within    *)
(* the number of processes, and the channel within its capacity.           *)
THEOREM LinksTypeCorrect == Spec => []TypeOK
<1>1. LinksInv => TypeOK
  BY DEF LinksInv
<1> QED
  BY <1>1, LinksInvariance, PTL

(* No interleaving of callers, crashes and repairs leaves a link without a *)
(* connection that the repair loop does not know or get to know of.        *)
THEOREM NoLinkIsForgotten == Spec => []FaultyLinksAreWatched
<1>1. LinksInv => FaultyLinksAreWatched
  BY DEF LinksInv
<1> QED
  BY <1>1, LinksInvariance, PTL
=============================================================================
