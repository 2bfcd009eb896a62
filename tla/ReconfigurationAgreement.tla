---------------------- MODULE ReconfigurationAgreement ----------------------
(***************************************************************************)
(* What Reconfiguration guarantees when the generators agree on one        *)
(* sequence for each view: a quorum answers in the newest view only, the   *)
(* state of a majority is what a server continues with, the register is    *)
(* unlocked only by who has locked it, and neither writes nor accepted     *)
(* updates are lost.  The last part shows when the generators agree.       *)
(***************************************************************************)
EXTENDS ReconfigurationProofs

(* What the generators promise, with what ReconfigurationProofs has shown  *)
(* of them.                                                                *)
Agreed == GeneratesViews /\ GeneratorsAgree

(* The views in which some server is, or from which one is generated.      *)
Reached == Views \cup {i.AssociatedView : i \in Seqs}

(* Reached views form a chain, each with its successor on the way up.      *)
ChainInv ==
  /\ \A v, w \in Reached : v \subseteq w \/ w \subseteq v
  /\ \A v, w \in Reached : IsNewer(w, v) =>
       \E i \in Seqs : /\ i.AssociatedView = v
                       /\ i.InstallView \subseteq w
                       /\ i.InstallView \in Reached

(* Who sends its state for a view never answers in that view again: it has *)
(* moved on, or is busy doing so.                                          *)
MovesOn(m) ==
  \/ m.InstallSeq.InstallView \subseteq currentView[m.from]
  \/ /\ pc[m.from] \in {"sync", "leaving", "left", "down"}
     /\ installing[m.from] = m.InstallSeq

SenderInv ==
  /\ \A m \in stateMsgs :
       /\ m.InstallSeq \in Seqs
       /\ m.from \in Members(m.InstallSeq.AssociatedView)
       /\ MovesOn(m)
       /\ Counted(m.from, m.InstallSeq) = QuorumSize(m.InstallSeq.AssociatedView)
  /\ \A m, n \in stateMsgs : m.from = n.from /\ m.InstallSeq = n.InstallSeq => m = n

(* A view that is not the last one has been left by a quorum of it.        *)
Senders(v) == {m.from : m \in {m \in stateMsgs : m.InstallSeq.AssociatedView = v}}

PassedInv == \A v, w \in Reached : IsNewer(w, v) => Senders(v) \in QuorumsOf(v)

(* Who holds register.mu: a server that joins from New on, another one     *)
(* from the first to the last view of a sequence.                          *)
LockInv ==
  \A s \in Process :
    /\ pc[s] = "sync" => disabled[s]
    /\ pc[s] = "loop" /\ lockOnceDone[s] => disabled[s]
    /\ pc[s] = "sync" /\ ~HasMember(installing[s].AssociatedView, s) => ~lockOnceDone[s]
    /\ JoinOf(s) \notin currentView[s] => disabled[s] /\ ~lockOnceDone[s]

MoveInv == ChainInv /\ SenderInv /\ PassedInv /\ LockInv

-----------------------------------------------------------------------------
(* A server that proposes, or is about to, does nothing else.              *)
Proposes ==
  \/ \E s \in Process : \/ hasUpdatesToCurrentView(s)
                        \/ startReconfiguration(s)
                        \/ \E p \in proposed : createForMessage(s, p.view)
  \/ \E g \in starting : generateViewSequence(g)

LEMMA ProposingIsQuiet ==
  ASSUME Proposes
  PROVE  UNCHANGED <<serverVars, decided, stateMsgs, client, high, accepted>>
BY DEF Proposes, hasUpdatesToCurrentView, startReconfiguration, createForMessage,
   generateViewSequence, netVars, clientVars

(* Nor does a client that tries again touch the servers.                   *)
LEMMA RetryingIsQuiet ==
  ASSUME NEW s \in Process, ClientRetry(s)
  PROVE  UNCHANGED <<serverVars, decided, stateMsgs, accepted>>
BY DEF ClientRetry, netVars

(* One InstallSeq for each view, and it leads to a newer one.              *)
LEMMA Agreement ==
  ASSUME InstallInv, Agreed
  PROVE  /\ \A i \in Seqs : /\ i.AssociatedView \in View
                            /\ i.InstallView \in View
                            /\ IsNewer(i.InstallView, i.AssociatedView)
         /\ \A i, j \in Seqs : i.AssociatedView = j.AssociatedView => i = j
<1>1. \A d \in decided : /\ d.view \in View
                         /\ GetLeastUpdatedView(d.seq) \in View
                         /\ MoreUpdatedThan(GetLeastUpdatedView(d.seq), d.view)
  BY DEF InstallInv, ViewsInv, Agreed, GeneratorsAgree, GeneratesViews
<1>2. \A d \in decided : IsNewer(GetLeastUpdatedView(d.seq), d.view)
  BY <1>1, MoreUpdatedIsSuperset DEF IsNewer
<1>3. \A d, e \in decided : d.view = e.view => d = e
  BY DEF Agreed, GeneratorsAgree
<1>4. \A i \in Seqs : \E d \in decided :
        i = InstallOf(d) /\ i.AssociatedView = d.view /\ i.InstallView = GetLeastUpdatedView(d.seq)
  BY DEF Seqs, InstallOf
<1> QED
  BY <1>1, <1>2, <1>3, <1>4

(* Reached views are views.                                                *)
LEMMA ReachedAreViews ==
  ASSUME InstallInv, Agreed
  PROVE  /\ \A v \in Reached : v \in View
         /\ \A s \in Process : currentView[s] \in Reached
         /\ \A i \in Seqs : i.AssociatedView \in Reached
BY Agreement DEF InstallInv, ViewsInv, Reached, Views

(* The successor of a view is never passed over.                           *)
LEMMA Successor ==
  ASSUME InstallInv, Agreed, ChainInv, NEW i \in Seqs, NEW v \in Reached
  PROVE  \/ v \subseteq i.AssociatedView /\ IsNewer(i.InstallView, v)
         \/ /\ IsNewer(v, i.AssociatedView)
            /\ i.InstallView \subseteq v
            /\ i.InstallView \in Reached
<1>1. i.AssociatedView \in Reached /\ IsNewer(i.InstallView, i.AssociatedView)
  BY Agreement, ReachedAreViews
<1>2. CASE v \subseteq i.AssociatedView
  BY <1>1, <1>2 DEF IsNewer
<1>3. CASE ~(v \subseteq i.AssociatedView)
  <2>1. IsNewer(v, i.AssociatedView)
    BY <1>1, <1>3 DEF ChainInv, IsNewer
  <2>2. PICK j \in Seqs : /\ j.AssociatedView = i.AssociatedView
                          /\ j.InstallView \subseteq v
                          /\ j.InstallView \in Reached
    BY <1>1, <2>1 DEF ChainInv
  <2>3. j = i
    BY <2>2, Agreement
  <2> QED
    BY <2>1, <2>2, <2>3
<1> QED
  BY <1>2, <1>3

(* What updateCurrentView does to the views.                               *)
LEMMA InstallsNewer ==
  ASSUME InstallInv, Agreed, NEW s \in Process, updateCurrentView(s)
  PROVE  /\ installing[s] \in Seqs
         /\ IsNewer(installing[s].InstallView, currentView[s])
         /\ HasMember(installing[s].InstallView, s)
         /\ currentView' = [currentView EXCEPT ![s] = installing[s].InstallView]
         /\ UNCHANGED <<decided, stateMsgs, Seqs>>
         /\ Reached' \subseteq Reached \cup {installing[s].InstallView}
         /\ installing[s].InstallView \in Reached'
         /\ \A v \in Reached : v \in Reached' \/ (\A i \in Seqs : i.AssociatedView # v)
<1>1. /\ pc[s] = "sync"
      /\ currentView' = [currentView EXCEPT ![s] = installing[s].InstallView]
      /\ UNCHANGED <<decided, stateMsgs>>
  BY DEF updateCurrentView
<1>2. UNCHANGED Seqs
  BY <1>1 DEF Seqs, InstallOf
<1>3. /\ installing[s] \in Seqs
      /\ IsNewer(installing[s].InstallView, currentView[s])
      /\ HasMember(installing[s].InstallView, s)
  BY <1>1 DEF InstallInv, PhaseInv
<1>4. \A t \in Process : currentView'[t] = IF t = s THEN installing[s].InstallView ELSE currentView[t]
  BY <1>1 DEF InstallInv, ViewsInv
<1>5. /\ Reached' \subseteq Reached \cup {installing[s].InstallView}
      /\ installing[s].InstallView \in Reached'
  BY <1>2, <1>4 DEF Reached, Views
<1>6. \A v \in Reached : v \in Reached' \/ (\A i \in Seqs : i.AssociatedView # v)
  BY <1>2 DEF Reached
<1> QED
  BY <1>1, <1>2, <1>3, <1>5, <1>6

(* Installing the successor of a view keeps the chain.                     *)
LEMMA ChainInstall ==
  ASSUME InstallInv, Agreed, ChainInv, NEW s \in Process, updateCurrentView(s)
  PROVE  ChainInv'
<1> DEFINE k == installing[s]
           w == k.InstallView
           a == k.AssociatedView
<1>1. /\ k \in Seqs
      /\ UNCHANGED Seqs
      /\ Reached' \subseteq Reached \cup {w}
      /\ w \in Reached'
      /\ \A v \in Reached : v \in Reached' \/ (\A i \in Seqs : i.AssociatedView # v)
  BY InstallsNewer
<1>2. a \in Reached /\ a \in Reached' /\ IsNewer(w, a)
  BY <1>1, Agreement, ReachedAreViews
<1>3. \A u \in Reached : \/ u \subseteq a /\ IsNewer(w, u)
                         \/ IsNewer(u, a) /\ w \subseteq u /\ w \in Reached
  BY <1>1, Successor
<1>4. \A u, v \in Reached : u \subseteq v \/ v \subseteq u
  BY DEF ChainInv
<1>5. \A u, v \in Reached : IsNewer(v, u) =>
         \E i \in Seqs : /\ i.AssociatedView = u
                         /\ i.InstallView \subseteq v
                         /\ i.InstallView \in Reached
  BY DEF ChainInv
<1> HIDE DEF k, w, a
(* A view that is no longer reached was the last one. *)
<1>6. ASSUME NEW u \in Reached, NEW v \in Reached, v \in Reached', IsNewer(v, u)
      PROVE  \E i \in Seqs : /\ i.AssociatedView = u
                             /\ i.InstallView \subseteq v
                             /\ i.InstallView \in Reached'
  <2>1. PICK i \in Seqs : /\ i.AssociatedView = u
                          /\ i.InstallView \subseteq v
                          /\ i.InstallView \in Reached
    BY <1>5, <1>6
  <2>2. CASE i.InstallView = v
    BY <1>6, <2>1, <2>2
  <2>3. CASE i.InstallView # v
    <3>1. IsNewer(v, i.InstallView)
      BY <2>1, <2>3 DEF IsNewer
    <3>2. \E j \in Seqs : j.AssociatedView = i.InstallView
      BY <1>5, <2>1, <3>1
    <3>3. i.InstallView \in Reached'
      BY <1>1, <2>1, <3>2
    <3> QED
      BY <2>1, <3>3
  <2> QED
    BY <2>2, <2>3
<1>7. \A u, v \in Reached' : u \subseteq v \/ v \subseteq u
  BY <1>1, <1>3, <1>4 DEF IsNewer
<1>8. ASSUME NEW u \in Reached', NEW v \in Reached', IsNewer(v, u)
      PROVE  \E i \in Seqs : /\ i.AssociatedView = u
                             /\ i.InstallView \subseteq v
                             /\ i.InstallView \in Reached'
  <2>1. CASE u \in Reached /\ v \in Reached
    BY <1>6, <1>8, <2>1
  <2>2. CASE u \in Reached /\ v = w
    <3>1. CASE u = a
      BY <1>1, <2>2, <3>1 DEF k, a, w
    <3>2. CASE IsNewer(a, u)
      <4>1. PICK i \in Seqs : /\ i.AssociatedView = u
                              /\ i.InstallView \subseteq a
                              /\ i.InstallView \in Reached'
        BY <1>2, <1>6, <2>2, <3>2
      <4> QED
        BY <1>2, <2>2, <4>1 DEF IsNewer
    <3>3. CASE IsNewer(u, a)
      BY <1>3, <1>8, <2>2, <3>3 DEF IsNewer
    <3> QED
      BY <1>3, <2>2, <3>1, <3>2, <3>3 DEF IsNewer
  <2>3. CASE u = w /\ v \in Reached
    <3>1. w \in Reached
      BY <1>2, <1>3, <1>8, <2>3 DEF IsNewer
    <3> QED
      BY <1>6, <1>8, <2>3, <3>1
  <2>4. CASE u = w /\ v = w
    BY <1>8, <2>4 DEF IsNewer
  <2> QED
    BY <1>1, <2>1, <2>2, <2>3, <2>4
<1> QED
  BY <1>1, <1>7, <1>8 DEF ChainInv

(* A generator works for a view that is reached already.                   *)
LEMMA ReachedByDecide ==
  ASSUME InstallInv, NEW w \in Views, Decide(w)
  PROVE  /\ Seqs \subseteq Seqs'
         /\ UNCHANGED Reached
         /\ UNCHANGED <<serverVars, installMsgs, stateMsgs, installedMsgs>>
<1>1. PICK seq : decided' = decided \cup {[view |-> w, seq |-> seq]}
  BY DEF Decide
<1>2. UNCHANGED <<serverVars, installMsgs, stateMsgs, installedMsgs>>
  BY DEF Decide
<1>3. UNCHANGED Views
  BY <1>2 DEF Views, serverVars
<1>4. Seqs' = Seqs \cup {InstallOf([view |-> w, seq |-> seq])}
  BY <1>1 DEF Seqs, InstallOf
<1>5. InstallOf([view |-> w, seq |-> seq]).AssociatedView = w
  BY DEF InstallOf
<1>6. Reached' = Reached
  BY <1>3, <1>4, <1>5 DEF Reached
<1> QED
  BY <1>2, <1>4, <1>6

(* The chain of views in every other step.                                 *)
LEMMA ChainKept ==
  ASSUME ChainInv, Seqs \subseteq Seqs', UNCHANGED Reached
  PROVE  ChainInv'
BY DEF ChainInv

(* Nothing is reached while nobody installs and nothing is generated.      *)
LEMMA ReachedKept ==
  ASSUME UNCHANGED <<currentView, decided>>
  PROVE  UNCHANGED <<Seqs, Reached>>
<1>1. UNCHANGED Seqs /\ UNCHANGED Views
  BY DEF Seqs, InstallOf, Views
<1> QED
  BY <1>1 DEF Reached

-----------------------------------------------------------------------------
(***************************************************************************)
(* Who has sent its state                                                  *)
(***************************************************************************)
(* A counter that has reached its quorum stays there.                      *)
LEMMA CountedStays ==
  ASSUME Types, NEW s \in Process, NEW i, CountInstallSeq(s, i),
         NEW t \in Process, NEW j,
         Counted(t, j) = QuorumSize(j.AssociatedView)
  PROVE  Counted(t, j)' = QuorumSize(j.AssociatedView)
<1>1. /\ \A p \in Process : p # s => counter'[p] = counter[p]
      /\ counter'[s] = [q \in DOMAIN counter[s] \cup {i} |->
           IF q # i THEN counter[s][q]
           ELSE IF Counted(s, i) = QuorumSize(i.AssociatedView) THEN Counted(s, i)
           ELSE Counted(s, i) + 1]
  BY DEF CountInstallSeq, Types, LoopTypes
<1>2. CASE t # s
  BY <1>1, <1>2 DEF Counted
<1>3. CASE t = s /\ j # i
  BY <1>1, <1>3 DEF Counted
<1>4. CASE t = s /\ j = i
  BY <1>1, <1>4 DEF Counted
<1> QED
  BY <1>2, <1>3, <1>4

(* Who reaches the quorum had not sent its state, and will not do it       *)
(* again.                                                                  *)
LEMMA CountedReaches ==
  ASSUME Types, InstallInv, Agreed, NEW s \in Process, NEW i \in Seqs,
         CountInstallSeq(s, i), ReachesQuorum(s, i)
  PROVE  /\ Counted(s, i) # QuorumSize(i.AssociatedView)
         /\ Counted(s, i)' = QuorumSize(i.AssociatedView)
<1>1. QuorumSize(i.AssociatedView) \in Nat
  BY Agreement, QuorumIsMajority
<1>2. Counted(s, i) \in Int
  BY <1>1 DEF Counted, Types, LoopTypes
<1>3. counter'[s] = [q \in DOMAIN counter[s] \cup {i} |->
           IF q # i THEN counter[s][q]
           ELSE IF Counted(s, i) = QuorumSize(i.AssociatedView) THEN Counted(s, i)
           ELSE Counted(s, i) + 1]
  BY DEF CountInstallSeq, Types, LoopTypes
<1>4. Counted(s, i) # QuorumSize(i.AssociatedView)
  BY <1>1, <1>2 DEF ReachesQuorum
<1>5. counter'[s][i] = QuorumSize(i.AssociatedView) /\ i \in DOMAIN counter'[s]
  BY <1>3, <1>4 DEF ReachesQuorum
<1> QED
  BY <1>4, <1>5 DEF Counted

(* Steps in which nobody sends a state: whoever had moved on still has.    *)
LEMMA SendersKept ==
  ASSUME SenderInv, InstallInv, UNCHANGED stateMsgs, Seqs \subseteq Seqs',
         \A m \in stateMsgs : MovesOn(m) => MovesOn(m)',
         \A t \in Process : \A j \in Seqs :
           Counted(t, j) = QuorumSize(j.AssociatedView)
             => Counted(t, j)' = QuorumSize(j.AssociatedView)
  PROVE  SenderInv'
<1> SUFFICES ASSUME NEW m \in stateMsgs
             PROVE  /\ m.InstallSeq \in Seqs'
                    /\ m.from \in Members(m.InstallSeq.AssociatedView)
                    /\ MovesOn(m)'
                    /\ Counted(m.from, m.InstallSeq)' = QuorumSize(m.InstallSeq.AssociatedView)
  <2>1. \A m, n \in stateMsgs' : m.from = n.from /\ m.InstallSeq = n.InstallSeq => m = n
    BY DEF SenderInv
  <2> QED
    BY <2>1 DEF SenderInv
<1>1. /\ m.InstallSeq \in Seqs
      /\ m.from \in Members(m.InstallSeq.AssociatedView)
      /\ MovesOn(m)
      /\ Counted(m.from, m.InstallSeq) = QuorumSize(m.InstallSeq.AssociatedView)
  BY DEF SenderInv
<1>2. m.from \in Process
  BY <1>1, MembersAreProcesses
<1> QED
  BY <1>1, <1>2

(* A server sends its state: once for each InstallSeq.                     *)
LEMMA SendersGrow ==
  ASSUME Types, InstallInv, Agreed, SenderInv,
         NEW s \in Process, NEW i \in Seqs,
         CountInstallSeq(s, i), ReachesQuorum(s, i), SendState(s, i), UNCHANGED Seqs,
         \A m \in stateMsgs : MovesOn(m) => MovesOn(m)',
         \A m \in stateMsgs' : m.from = s /\ m.InstallSeq = i => MovesOn(m)'
  PROVE  SenderInv'
<1> DEFINE new == [from |-> s, InstallSeq |-> i, Timestamp |-> register[s], Recv |-> recv[s],
                      sentIn |-> currentView[s]]
<1>1. new.from = s /\ new.InstallSeq = i
  OBVIOUS
<1>2. stateMsgs' = IF HasMember(i.AssociatedView, s) THEN stateMsgs \cup {new} ELSE stateMsgs
  BY DEF SendState
<1>3. /\ Counted(s, i) # QuorumSize(i.AssociatedView)
      /\ Counted(s, i)' = QuorumSize(i.AssociatedView)
  BY CountedReaches
<1> HIDE DEF new
<1>4. \A m \in stateMsgs : ~(m.from = s /\ m.InstallSeq = i)
  BY <1>3 DEF SenderInv
<1>5. \A m, n \in stateMsgs' : m.from = n.from /\ m.InstallSeq = n.InstallSeq => m = n
  BY <1>1, <1>2, <1>4 DEF SenderInv
<1>6. ASSUME NEW m \in stateMsgs'
      PROVE  /\ m.InstallSeq \in Seqs'
             /\ m.from \in Members(m.InstallSeq.AssociatedView)
             /\ MovesOn(m)'
             /\ Counted(m.from, m.InstallSeq)' = QuorumSize(m.InstallSeq.AssociatedView)
  <2>1. CASE m \in stateMsgs
    <3>1. /\ m.InstallSeq \in Seqs
          /\ m.from \in Members(m.InstallSeq.AssociatedView)
          /\ MovesOn(m)
          /\ Counted(m.from, m.InstallSeq) = QuorumSize(m.InstallSeq.AssociatedView)
      BY <2>1 DEF SenderInv
    <3>2. m.from \in Process
      BY <3>1, MembersAreProcesses
    <3> QED
      BY <2>1, <3>1, <3>2, CountedStays
  <2>2. CASE m = new /\ HasMember(i.AssociatedView, s)
    BY <1>1, <1>3, <2>2 DEF HasMember
  <2> QED
    BY <1>2, <2>1, <2>2
<1> QED
  BY <1>5, <1>6 DEF SenderInv

(* Senders move on: through the waiting for others, to the new view.       *)
LEMMA SenderNext ==
  ASSUME Types, InstallInv, Agreed, ChainInv, SenderInv, Next
  PROVE  SenderInv'
<1>1. \A m \in stateMsgs : m.from \in Process
  BY MembersAreProcesses DEF SenderInv
<1>2. ASSUME UNCHANGED <<currentView, pc, installing, counter, stateMsgs, decided>>
      PROVE  SenderInv'
  <2>1. UNCHANGED Seqs
    BY <1>2, ReachedKept
  <2> QED
    BY <1>2, <2>1 DEF SenderInv, MovesOn, Counted
<1>3. ASSUME NEW v \in Views, Decide(v) PROVE SenderInv'
  <2>1. /\ Seqs \subseteq Seqs'
        /\ UNCHANGED <<currentView, pc, installing, counter, stateMsgs>>
    BY <1>3, ReachedByDecide DEF serverVars
  <2>2. \A m \in stateMsgs : MovesOn(m) => MovesOn(m)'
    BY <2>1 DEF MovesOn
  <2>3. \A t \in Process : \A j \in Seqs : Counted(t, j)' = Counted(t, j)
    BY <2>1 DEF Counted
  <2> QED
    BY <2>1, <2>2, <2>3, SendersKept
<1>4. ASSUME NEW s \in Process, NEW m \in installMsgs,
             NoQuorumYet(s, m) \/ gotLockedMutex(s, m)
      PROVE  SenderInv'
  <2>1. /\ pc[s] = "loop"
        /\ CountInstallSeq(s, m.InstallSeq)
        /\ pc' = pc \/ pc' = [pc EXCEPT ![s] = "stuck"]
        /\ UNCHANGED <<currentView, installing, stateMsgs, decided>>
    BY <1>4 DEF NoQuorumYet, gotLockedMutex, TakeInstallSeq, netVars
  <2>2. UNCHANGED Seqs
    BY <2>1, ReachedKept
  <2>3. \A n \in stateMsgs : MovesOn(n) => MovesOn(n)'
    BY <1>1, <2>1 DEF MovesOn, InstallInv, ViewsInv
  <2> QED
    BY <2>1, <2>2, <2>3, SendersKept, CountedStays
<1>5. ASSUME NEW s \in Process, NEW m \in installMsgs, gotOldInstallView(s, m)
      PROVE  SenderInv'
  <2> DEFINE i == m.InstallSeq
  <2>1. /\ CountInstallSeq(s, i)
        /\ ReachesQuorum(s, i)
        /\ ~NewerThanCurrent(s, i)
        /\ SendState(s, i)
        /\ UNCHANGED <<currentView, pc, installing, decided>>
    BY <1>5 DEF gotOldInstallView, TakeInstallSeq
  <2>2. i \in Seqs /\ UNCHANGED Seqs
    BY <2>1, ReachedKept DEF InstallInv, ViewsInv
  <2>3. i.InstallView \subseteq currentView[s]
    <3>1. currentView[s] \in View /\ i.InstallView \in View /\ currentView[s] \in Reached
      BY <2>2, Agreement, ReachedAreViews DEF InstallInv, ViewsInv
    <3>2. ~IsNewer(i.InstallView, currentView[s])
      BY <2>1, <3>1, MoreUpdatedIsSuperset DEF NewerThanCurrent, IsNewer
    <3> QED
      BY <2>2, <3>1, <3>2, Successor
  <2>4. \A n \in stateMsgs : MovesOn(n) => MovesOn(n)'
    BY <2>1 DEF MovesOn
  <2>5. \A n \in stateMsgs' : n.from = s /\ n.InstallSeq = i => MovesOn(n)'
    BY <2>1, <2>3 DEF MovesOn
  <2> QED
    BY <2>1, <2>2, <2>4, <2>5, SendersGrow
<1>6. ASSUME NEW s \in Process, NEW m \in installMsgs, gotInstallSeqQuorum(s, m)
      PROVE  SenderInv'
  <2> DEFINE i == m.InstallSeq
  <2>1. /\ CountInstallSeq(s, i)
        /\ ReachesQuorum(s, i)
        /\ SendState(s, i)
        /\ pc[s] = "loop"
        /\ installing' = [installing EXCEPT ![s] = i]
        /\ pc' = [pc EXCEPT ![s] = IF HasMember(i.InstallView, s) THEN "sync" ELSE "leaving"]
        /\ UNCHANGED <<currentView, decided>>
    BY <1>6 DEF gotInstallSeqQuorum, TakeInstallSeq
  <2>2. i \in Seqs /\ UNCHANGED Seqs
    BY <2>1, ReachedKept DEF InstallInv, ViewsInv
  <2> HIDE DEF i
  <2>3. pc'[s] \in {"sync", "leaving"} /\ installing'[s] = i
    BY <2>1 DEF InstallInv, ViewsInv
  <2>4. \A n \in stateMsgs : MovesOn(n) => MovesOn(n)'
    BY <1>1, <2>1 DEF MovesOn, InstallInv, ViewsInv
  <2>5. \A n \in stateMsgs' : n.from = s /\ n.InstallSeq = i => MovesOn(n)'
    BY <2>3 DEF MovesOn
  <2> QED
    BY <2>1, <2>2, <2>4, <2>5, SendersGrow
<1>7. ASSUME NEW s \in Process, updateCurrentView(s) PROVE SenderInv'
  <2> DEFINE w == installing[s].InstallView
  <2>1. /\ pc[s] = "sync"
        /\ pc' = [pc EXCEPT ![s] = "loop"]
        /\ installing' = [installing EXCEPT ![s] = NoSeq]
        /\ UNCHANGED counter
    BY <1>7 DEF updateCurrentView
  <2>2. /\ IsNewer(w, currentView[s])
        /\ currentView' = [currentView EXCEPT ![s] = w]
        /\ UNCHANGED <<stateMsgs, Seqs>>
    BY <1>7, InstallsNewer
  <2>3. ASSUME NEW n \in stateMsgs, MovesOn(n) PROVE MovesOn(n)'
    <3>1. CASE n.from = s
      <4>1. currentView'[s] = w
        BY <2>2 DEF InstallInv, ViewsInv
      <4> QED
        BY <2>2, <2>3, <3>1, <4>1 DEF MovesOn, IsNewer
    <3>2. CASE n.from # s
      BY <1>1, <2>1, <2>2, <2>3, <3>2 DEF MovesOn, InstallInv, ViewsInv
    <3> QED
      BY <3>1, <3>2
  <2>4. \A t \in Process : \A j \in Seqs : Counted(t, j)' = Counted(t, j)
    BY <2>1 DEF Counted
  <2> QED
    BY <2>2, <2>3, <2>4, SendersKept
<1>8. ASSUME NEW s \in Process, ViewInstalled(s) \/ Crash(s) PROVE SenderInv'
  <2>1. /\ \/ pc[s] = "leaving" /\ pc' = [pc EXCEPT ![s] = "left"]
           \/ pc[s] # "left" /\ pc' = [pc EXCEPT ![s] = "down"]
        /\ UNCHANGED <<currentView, installing, counter, stateMsgs, decided>>
    BY <1>8 DEF ViewInstalled, Crash, Running, netVars
  <2>2. UNCHANGED Seqs
    BY <2>1, ReachedKept
  <2>3. \A n \in stateMsgs : MovesOn(n) => MovesOn(n)'
    BY <1>1, <2>1 DEF MovesOn, InstallInv, ViewsInv
  <2>4. \A t \in Process : \A j \in Seqs : Counted(t, j)' = Counted(t, j)
    BY <2>1 DEF Counted
  <2> QED
    BY <2>1, <2>2, <2>3, <2>4, SendersKept
<1>9. ASSUME \/ \E u \in asked : Ask(u)
             \/ \E s \in Process :
                  \/ \E m \in reconfigMsgs : Reconfig(s, m)
                  \/ \E d \in decided : generatedViewSeq(s, d)
                  \/ \E m \in stateMsgs : StateUpdate(s, m)
                  \/ \E r \in requests : Write(s, r) \/ WriteWaits(s, r)
             \/ ClientReturn
      PROVE  UNCHANGED <<currentView, pc, installing, counter, stateMsgs, decided>>
  BY <1>9 DEF Ask, Reconfig, generatedViewSeq,
     StateUpdate, Write, WriteWaits, ClientReturn, serverVars, callVars, netVars
<1>10. ASSUME Proposes \/ \E s \in Process : ClientRetry(s)
      PROVE  UNCHANGED <<currentView, pc, installing, counter, stateMsgs, decided>>
  BY <1>10, ProposingIsQuiet, RetryingIsQuiet DEF serverVars
<1> QED
  BY <1>10, <1>2, <1>3, <1>4, <1>5, <1>6, <1>7, <1>8, <1>9 DEF Next, Proposes

-----------------------------------------------------------------------------
(***************************************************************************)
(* What a quorum has left                                                  *)
(***************************************************************************)
(* Enough states for a view are the states of a majority of it: every      *)
(* sender counts once, because there is one InstallSeq for the view.       *)
LEMMA StatesAreMajority ==
  ASSUME Types, InstallInv, Agreed, SenderInv,
         NEW s \in Process, NEW v \in View, EnoughStates(s, v)
  PROVE  /\ {m.from : m \in StatesFor(s, v)} \in QuorumsOf(v)
         /\ {m.from : m \in StatesFor(s, v)} \subseteq Senders(v)
<1> DEFINE M == StatesFor(s, v)
<1>1. \A m \in M : m \in stateMsgs /\ m.InstallSeq.AssociatedView = v
  <2>1. \A m \in M : m \in stateMsgs /\ Equal(m.InstallSeq.AssociatedView, v)
    BY DEF StatesFor, Types, UpdateTypes
  <2>2. \A m \in stateMsgs : m.InstallSeq.AssociatedView \in View
    BY Agreement DEF SenderInv
  <2> QED
    BY <2>1, <2>2, EqualIsEqual
<1>2. \A m, n \in M : m.from = n.from => m = n
  BY <1>1, Agreement DEF SenderInv
<1>3. Cardinality(M) = QuorumSize(v)
  BY DEF EnoughStates
<1> HIDE DEF M
<1>4. {m.from : m \in M} \in SUBSET Members(v)
  BY <1>1 DEF SenderInv
<1>5. Cardinality({m.from : m \in M}) = QuorumSize(v)
  BY <1>2, <1>3, <1>4, MembersAreProcesses, OneMessageEach
<1>6. QuorumSize(v) \in Nat
  BY QuorumIsMajority
<1>7. {m.from : m \in M} \subseteq Senders(v)
  BY <1>1 DEF Senders
<1> QED
  BY <1>4, <1>5, <1>6, <1>7 DEF QuorumsOf, M

(* More senders are still a quorum.                                        *)
LEMMA QuorumGrows ==
  ASSUME NEW v \in View, NEW Q \in QuorumsOf(v), NEW R \in SUBSET Members(v), Q \subseteq R
  PROVE  R \in QuorumsOf(v)
<1>1. IsFiniteSet(R) /\ IsFiniteSet(Q) /\ Cardinality(Q) <= Cardinality(R)
  BY QuorumIsMajority, FS_Subset, Q \in SUBSET R
<1>2. Cardinality(Q) \in Nat /\ Cardinality(R) \in Nat
  BY <1>1, FS_CardinalityType
<1>3. QuorumSize(v) \in Nat /\ Cardinality(Q) >= QuorumSize(v)
  BY QuorumIsMajority DEF QuorumsOf
<1> QED
  BY <1>1, <1>2, <1>3 DEF QuorumsOf

(* Senders are members.                                                    *)
LEMMA SendersAreMembers ==
  ASSUME SenderInv, NEW v PROVE Senders(v) \subseteq Members(v)
BY DEF SenderInv, Senders

(* A view is passed when its successor is installed, with the states of a  *)
(* quorum.                                                                 *)
LEMMA PassedNext ==
  ASSUME Types, InstallInv, Agreed, ChainInv, SenderInv, SenderInv', PassedInv, Next
  PROVE  PassedInv'
<1>1. ASSUME UNCHANGED Reached, stateMsgs \subseteq stateMsgs'
      PROVE  PassedInv'
  <2> SUFFICES ASSUME NEW v \in Reached, NEW w \in Reached, IsNewer(w, v)
               PROVE  Senders(v)' \in QuorumsOf(v)
    BY <1>1 DEF PassedInv
  <2>1. v \in View /\ Senders(v) \in QuorumsOf(v)
    BY ReachedAreViews DEF PassedInv
  <2>2. Senders(v) \subseteq Senders(v)'
    BY <1>1 DEF Senders
  <2>3. Senders(v)' \subseteq Members(v)
    BY DEF SenderInv, Senders
  <2> QED
    BY <2>1, <2>2, <2>3, QuorumGrows
<1>2. ASSUME NEW s \in Process, updateCurrentView(s) PROVE PassedInv'
  <2> DEFINE k == installing[s]
             a == k.AssociatedView
  <2>1. /\ k \in Seqs
        /\ UNCHANGED stateMsgs
        /\ Reached' \subseteq Reached \cup {k.InstallView}
    BY <1>2, InstallsNewer
  <2>2. /\ a \in Reached /\ a \in View
        /\ IsNewer(k.InstallView, a)
        /\ EnoughStates(s, a)
    BY <1>2, <2>1, Agreement, ReachedAreViews DEF updateCurrentView
  <2>3. Senders(a) \in QuorumsOf(a)
    BY <2>2, StatesAreMajority, SendersAreMembers, QuorumGrows
  <2>4. \A u \in Reached : \/ u \subseteq a /\ IsNewer(k.InstallView, u)
                           \/ /\ IsNewer(u, a)
                              /\ k.InstallView \subseteq u
                              /\ k.InstallView \in Reached
    BY <2>1, Successor
  <2> HIDE DEF a, k
  <2> SUFFICES ASSUME NEW v \in Reached', NEW w \in Reached', IsNewer(w, v)
               PROVE  Senders(v) \in QuorumsOf(v)
    <3>1. \A v : UNCHANGED Senders(v)
      BY <2>1 DEF Senders
    <3> QED
      BY <3>1 DEF PassedInv
  <2>5. CASE v \in Reached /\ w \in Reached
    BY <2>5 DEF PassedInv
  <2>6. CASE v \in Reached /\ w = k.InstallView
    <3>1. CASE v = a
      BY <2>3, <3>1
    <3>2. CASE v # a
      <4>1. IsNewer(a, v)
        BY <2>4, <2>6, <3>2 DEF IsNewer
      <4> QED
        BY <2>2, <2>6, <4>1 DEF PassedInv
    <3> QED
      BY <3>1, <3>2
  <2>7. CASE v = k.InstallView /\ w \in Reached
    <3>1. k.InstallView \in Reached
      BY <2>2, <2>4, <2>7 DEF IsNewer
    <3> QED
      BY <2>7, <3>1 DEF PassedInv
  <2> QED
    BY <2>1, <2>5, <2>6, <2>7 DEF IsNewer
<1>3. ASSUME NEW v \in Views, Decide(v) PROVE PassedInv'
  BY <1>1, <1>3, ReachedByDecide
<1>4. ASSUME UNCHANGED <<currentView, decided>>, stateMsgs \subseteq stateMsgs'
      PROVE  PassedInv'
  BY <1>1, <1>4, ReachedKept
<1>5. ASSUME NEW s \in Process, NEW m \in installMsgs,
             \/ NoQuorumYet(s, m) \/ gotOldInstallView(s, m)
             \/ gotLockedMutex(s, m) \/ gotInstallSeqQuorum(s, m)
      PROVE  UNCHANGED <<currentView, decided>> /\ stateMsgs \subseteq stateMsgs'
  BY <1>5 DEF NoQuorumYet, gotOldInstallView, gotLockedMutex, gotInstallSeqQuorum, SendState,
     netVars
<1>6. ASSUME \/ \E u \in asked : Ask(u)
             \/ \E s \in Process :
                  \/ \E m \in reconfigMsgs : Reconfig(s, m)
                  \/ \E d \in decided : generatedViewSeq(s, d)
                  \/ \E m \in stateMsgs : StateUpdate(s, m)
                  \/ ViewInstalled(s)
                  \/ Crash(s)
                  \/ \E r \in requests : Write(s, r) \/ WriteWaits(s, r)
             \/ ClientReturn
      PROVE  UNCHANGED <<currentView, decided, stateMsgs>>
  BY <1>6 DEF Ask, Reconfig, generatedViewSeq,
     StateUpdate, ViewInstalled, Crash, Write, WriteWaits, ClientReturn,
     serverVars, callVars, netVars
<1>7. ASSUME Proposes \/ \E s \in Process : ClientRetry(s)
      PROVE  UNCHANGED <<currentView, decided, stateMsgs>>
  BY <1>7, ProposingIsQuiet, RetryingIsQuiet DEF serverVars
<1> QED
  BY <1>7, <1>2, <1>3, <1>4, <1>5, <1>6 DEF Next, Proposes

(* The chain of views grows at its end.                                    *)
LEMMA ChainNext ==
  ASSUME InstallInv, Agreed, ChainInv, Next
  PROVE  ChainInv'
<1>1. ASSUME NEW s \in Process, updateCurrentView(s) PROVE ChainInv'
  BY <1>1, ChainInstall
<1>2. ASSUME NEW v \in Views, Decide(v) PROVE ChainInv'
  BY <1>2, ReachedByDecide, ChainKept
<1>3. ASSUME UNCHANGED <<currentView, decided>> PROVE ChainInv'
  BY <1>3, ReachedKept, ChainKept
<1>4. ASSUME \/ \E u \in asked : Ask(u)
             \/ \E s \in Process :
                  \/ \E m \in reconfigMsgs : Reconfig(s, m)
                  \/ \E d \in decided : generatedViewSeq(s, d)
                  \/ \E m \in stateMsgs : StateUpdate(s, m)
                  \/ ViewInstalled(s)
                  \/ Crash(s)
                  \/ \E r \in requests : Write(s, r) \/ WriteWaits(s, r)
             \/ ClientReturn
      PROVE  UNCHANGED <<currentView, decided>>
  BY <1>4 DEF Ask, Reconfig, generatedViewSeq,
     StateUpdate, ViewInstalled, Crash, Write, WriteWaits, ClientReturn,
     serverVars, callVars, netVars
<1>5. ASSUME Proposes \/ \E s \in Process : ClientRetry(s)
      PROVE  UNCHANGED <<currentView, decided>>
  BY <1>5, ProposingIsQuiet, RetryingIsQuiet DEF serverVars
<1>6. ASSUME NEW s \in Process, NEW m \in installMsgs,
             \/ NoQuorumYet(s, m) \/ gotOldInstallView(s, m)
             \/ gotLockedMutex(s, m) \/ gotInstallSeqQuorum(s, m)
      PROVE  UNCHANGED <<currentView, decided>>
  BY <1>6 DEF NoQuorumYet, gotOldInstallView, gotLockedMutex, gotInstallSeqQuorum, netVars
<1> QED
  BY <1>5, <1>1, <1>2, <1>3, <1>4, <1>6 DEF Next, Proposes

-----------------------------------------------------------------------------
(***************************************************************************)
(* The register's mutex                                                    *)
(***************************************************************************)
(* A server that is asked to install a view from one without it has not    *)
(* joined before.                                                          *)
LEMMA NotYetJoined ==
  ASSUME InstallInv, Agreed, ChainInv, NEW s \in Process, NEW i \in Seqs,
         IsNewer(i.InstallView, currentView[s]),
         HasMember(i.InstallView, s), ~HasMember(i.AssociatedView, s)
  PROVE  JoinOf(s) \notin currentView[s]
<1>1. IsNewer(i.InstallView, i.AssociatedView)
  BY Agreement
<1>2. JoinOf(s) \notin i.AssociatedView
  BY <1>1 DEF IsNewer, HasMember, Members
<1>3. currentView[s] \subseteq i.AssociatedView
  BY ReachedAreViews, Successor DEF IsNewer
<1> QED
  BY <1>2, <1>3

(* Locks and unlocks alternate.                                            *)
LEMMA LockNext ==
  ASSUME Types, InstallInv, Agreed, ChainInv, LockInv, Next
  PROVE  LockInv'
<1>1. ASSUME UNCHANGED <<disabled, lockOnceDone, pc, installing, currentView>>
      PROVE  LockInv'
  BY <1>1 DEF LockInv
<1>2. ASSUME NEW s \in Process,
             \/ pc' = [pc EXCEPT ![s] = "stuck"]
             \/ pc' = [pc EXCEPT ![s] = "left"]
             \/ pc' = [pc EXCEPT ![s] = "down"],
             UNCHANGED <<disabled, lockOnceDone, installing, currentView>>
      PROVE  LockInv'
  <2>1. \A t \in Process : pc'[t] = pc[t] \/ pc'[t] \notin {"loop", "sync"}
    BY <1>2 DEF InstallInv, ViewsInv
  <2> QED
    BY <1>2, <2>1 DEF LockInv
<1>3. ASSUME NEW s \in Process, NEW m \in installMsgs, gotInstallSeqQuorum(s, m)
      PROVE  LockInv'
  <2> DEFINE i == m.InstallSeq
             old == HasMember(i.AssociatedView, s)
             new == HasMember(i.InstallView, s)
  <2>1. /\ pc[s] = "loop"
        /\ NewerThanCurrent(s, i)
        /\ ~StaysLocked(s, i)
        /\ disabled' = [disabled EXCEPT ![s] = disabled[s] \/ WantsLock(s, i)]
        /\ lockOnceDone' = [lockOnceDone EXCEPT ![s] = lockOnceDone[s] \/ old]
        /\ installing' = [installing EXCEPT ![s] = i]
        /\ pc' = [pc EXCEPT ![s] = IF new THEN "sync" ELSE "leaving"]
        /\ UNCHANGED currentView
    BY <1>3 DEF gotInstallSeqQuorum, TakeInstallSeq
  <2>2. i \in Seqs
    BY DEF InstallInv, ViewsInv
  <2>3. IsNewer(i.InstallView, currentView[s])
    <3>1. currentView[s] \in View /\ i.InstallView \in View
      BY <2>2, Agreement DEF InstallInv, ViewsInv
    <3> QED
      BY <2>1, <3>1, MoreUpdatedIsSuperset DEF NewerThanCurrent, IsNewer
  <2>4. new /\ ~old => JoinOf(s) \notin currentView[s]
    BY <2>2, <2>3, NotYetJoined
  <2>5. /\ lockOnceDone[s] => disabled[s]
        /\ JoinOf(s) \notin currentView[s] => disabled[s] /\ ~lockOnceDone[s]
    BY <2>1 DEF LockInv
  <2>6. old /\ ~lockOnceDone[s] => WantsLock(s, i) /\ ~disabled[s]
    BY <2>1 DEF WantsLock, StaysLocked
  <2>7. WantsLock(s, i) => old
    BY DEF WantsLock
  <2>8. /\ disabled'[s] <=> disabled[s] \/ WantsLock(s, i)
        /\ lockOnceDone'[s] <=> lockOnceDone[s] \/ old
        /\ installing'[s] = i
        /\ pc'[s] = IF new THEN "sync" ELSE "leaving"
        /\ currentView'[s] = currentView[s]
    BY <2>1 DEF Types, FlagTypes, InstallInv, ViewsInv
  <2>9. \A t \in Process : t # s => /\ disabled'[t] = disabled[t]
                                    /\ lockOnceDone'[t] = lockOnceDone[t]
                                    /\ installing'[t] = installing[t]
                                    /\ pc'[t] = pc[t]
                                    /\ currentView'[t] = currentView[t]
    BY <2>1 DEF Types, FlagTypes, InstallInv, ViewsInv
  <2>10. old <=> HasMember(installing'[s].AssociatedView, s)
    BY <2>8
  <2> HIDE DEF old, new, i
  <2>11. /\ pc'[s] = "sync" => disabled'[s]
         /\ pc'[s] # "loop"
         /\ pc'[s] = "sync" /\ ~HasMember(installing'[s].AssociatedView, s) => ~lockOnceDone'[s]
         /\ JoinOf(s) \notin currentView'[s] => disabled'[s] /\ ~lockOnceDone'[s]
    BY <2>4, <2>5, <2>6, <2>7, <2>8, <2>10
  <2> QED
    BY <2>9, <2>11 DEF LockInv
<1>4. ASSUME NEW s \in Process, updateCurrentView(s) PROVE LockInv'
  <2> DEFINE i == installing[s]
             old == HasMember(i.AssociatedView, s)
  <2>1. /\ pc[s] = "sync"
        /\ pc' = [pc EXCEPT ![s] = "loop"]
        /\ disabled' = [disabled EXCEPT ![s] = disabled[s] /\ MoreToInstall(i)]
        /\ lockOnceDone' = [lockOnceDone EXCEPT ![s] =
                              lockOnceDone[s] /\ (MoreToInstall(i) \/ ~old)]
        /\ installing' = [installing EXCEPT ![s] = NoSeq]
    BY <1>4 DEF updateCurrentView, EnableRegister
  <2>2. currentView' = [currentView EXCEPT ![s] = i.InstallView] /\ HasMember(i.InstallView, s)
    BY <1>4, InstallsNewer
  <2>3. disabled[s] /\ (~old => ~lockOnceDone[s])
    BY <2>1 DEF LockInv
  <2>4. JoinOf(s) \in currentView'[s]
    BY <2>2 DEF HasMember, Members, InstallInv, ViewsInv
  <2>5. /\ disabled'[s] <=> disabled[s] /\ MoreToInstall(i)
        /\ lockOnceDone'[s] <=> lockOnceDone[s] /\ (MoreToInstall(i) \/ ~old)
        /\ pc'[s] = "loop"
    BY <2>1 DEF Types, FlagTypes, InstallInv, ViewsInv
  <2>6. \A t \in Process : t # s => /\ disabled'[t] = disabled[t]
                                    /\ lockOnceDone'[t] = lockOnceDone[t]
                                    /\ installing'[t] = installing[t]
                                    /\ pc'[t] = pc[t]
                                    /\ currentView'[t] = currentView[t]
    BY <2>1, <2>2 DEF Types, FlagTypes, InstallInv, ViewsInv
  <2> HIDE DEF i, old
  <2>7. lockOnceDone'[s] => disabled'[s]
    BY <2>3, <2>5
  <2> QED
    BY <2>4, <2>5, <2>6, <2>7 DEF LockInv
<1>5. ASSUME NEW s \in Process, \/ \E m \in installMsgs : gotLockedMutex(s, m)
                                \/ ViewInstalled(s)
                                \/ Crash(s)
      PROVE  LockInv'
  BY <1>2, <1>5 DEF gotLockedMutex, ViewInstalled, Crash
<1>6. ASSUME \/ \E u \in asked : Ask(u)
             \/ \E s \in Process :
                  \/ \E m \in reconfigMsgs : Reconfig(s, m)
                  \/ \E d \in decided : generatedViewSeq(s, d)
                  \/ \E m \in installMsgs : NoQuorumYet(s, m) \/ gotOldInstallView(s, m)
                  \/ \E m \in stateMsgs : StateUpdate(s, m)
                  \/ \E r \in requests : Write(s, r) \/ WriteWaits(s, r)
             \/ \E v \in Views : Decide(v)
             \/ ClientReturn
      PROVE  UNCHANGED <<disabled, lockOnceDone, pc, installing, currentView>>
  BY <1>6 DEF Ask, Reconfig, generatedViewSeq,
     NoQuorumYet, gotOldInstallView, StateUpdate, Write, WriteWaits, Decide,
     ClientReturn, serverVars, callVars, netVars
<1>7. ASSUME Proposes \/ \E s \in Process : ClientRetry(s)
      PROVE  UNCHANGED <<disabled, lockOnceDone, pc, installing, currentView>>
  BY <1>7, ProposingIsQuiet, RetryingIsQuiet DEF serverVars
<1> QED
  BY <1>7, <1>1, <1>3, <1>4, <1>5, <1>6 DEF Next, Proposes

-----------------------------------------------------------------------------
(* MoveInv holds at the beginning, in one view.                            *)
LEMMA MoveInit ==
  ASSUME Init PROVE MoveInv
<1>1. PICK b \in Start :
        /\ currentView = [s \in Process |-> b.view]
        /\ disabled = [s \in Process |-> ~HasMember(b.view, s)]
        /\ decided = {[view |-> b.view, seq |-> seq] : seq \in b.generated}
  BY DEF Init
<1>2. /\ pc = [s \in Process |-> "loop"]
      /\ lockOnceDone = [s \in Process |-> FALSE]
      /\ stateMsgs = {}
  BY DEF Init
<1>3. Reached \subseteq {b.view}
  BY <1>1 DEF Reached, Views, Seqs, InstallOf
<1>4. ChainInv /\ PassedInv
  BY <1>3 DEF ChainInv, PassedInv, IsNewer
<1>5. SenderInv
  BY <1>2 DEF SenderInv
<1>6. LockInv
  BY <1>1, <1>2 DEF LockInv, HasMember, Members
<1> QED
  BY <1>4, <1>5, <1>6 DEF MoveInv

(* MoveInv in every state, as long as the generators agree.                *)
LEMMA MoveInvariance ==
  Spec /\ []GeneratorsAgree => [](MoveInv /\ InstallInv /\ Types /\ Agreed)
<1>1. GeneratesViews /\ GeneratorsAgree => Agreed
  BY DEF Agreed
<1>2. Init => MoveInv
  BY MoveInit
<1>3. ASSUME MoveInv, InstallInv, Types, Agreed, [Next]_vars
      PROVE  MoveInv'
  <2>1. CASE Next
    <3>1. ChainInv' /\ SenderInv' /\ LockInv'
      BY <1>3, <2>1, ChainNext, SenderNext, LockNext DEF MoveInv
    <3>2. PassedInv'
      BY <1>3, <2>1, <3>1, PassedNext DEF MoveInv
    <3> QED
      BY <3>1, <3>2 DEF MoveInv
  <2>2. CASE UNCHANGED vars
    <3>1. UNCHANGED <<currentView, pc, installing, counter, stateMsgs, disabled,
                      lockOnceDone, Seqs, Reached>>
      BY <2>2, ReachedKept DEF vars, serverVars, callVars, netVars
    <3>2. ChainInv' /\ LockInv'
      BY <1>3, <3>1 DEF MoveInv, ChainInv, LockInv
    <3>3. SenderInv'
      BY <1>3, <3>1 DEF MoveInv, SenderInv, MovesOn, Counted
    <3>4. PassedInv'
      BY <1>3, <3>1 DEF MoveInv, PassedInv, Senders
    <3> QED
      BY <3>2, <3>3, <3>4 DEF MoveInv
  <2> QED
    BY <1>3, <2>1, <2>2
<1>4. MoveInv /\ InstallInv /\ Types /\ Agreed /\ [Next]_vars => MoveInv'
  BY <1>3
<1> QED
  BY <1>1, <1>2, <1>4, ReconfigurationInvariance, PTL DEF Spec

-----------------------------------------------------------------------------
(***************************************************************************)
(* Theorems                                                                *)
(***************************************************************************)
(* No quorum answers in a view when somebody is in a newer one: the quorum  *)
(* that has sent its state and moved on meets every other one.             *)
LEMMA PassedViewIsSilent ==
  ASSUME MoveInv, InstallInv, Agreed,
         NEW v \in Reached, NEW w \in Reached, IsNewer(w, v),
         NEW Q \in QuorumsOf(v), Serves(Q, v)
  PROVE  FALSE
<1>1. v \in View
  BY ReachedAreViews
<1>2. Senders(v) \in QuorumsOf(v)
  BY <1>1 DEF MoveInv, PassedInv
<1>3. PICK s \in Q : s \in Senders(v)
  BY <1>1, <1>2, QuorumIntersection DEF QuorumsOf
<1>4. PICK m \in stateMsgs : m.InstallSeq.AssociatedView = v /\ m.from = s
  BY <1>3 DEF Senders
<1>5. pc[s] = "loop" /\ currentView[s] = v
  BY <1>3 DEF Serves, ReadsAndWrites, Serving
<1>6. m.InstallSeq.InstallView \subseteq v
  BY <1>4, <1>5 DEF MoveInv, SenderInv, MovesOn
<1>7. IsNewer(m.InstallSeq.InstallView, v)
  BY <1>4, Agreement DEF MoveInv, SenderInv
<1> QED
  BY <1>6, <1>7 DEF IsNewer

(* A quorum answers clients in the newest view only, in clusters of any    *)
(* size, with any number of reconfigurations at a time and with servers    *)
(* that lag behind: a quorum of every older view has sent its state and    *)
(* moved on, and meets every quorum that would still answer in it.         *)
THEOREM OneViewServes == Spec /\ []GeneratorsAgree => []OneServingView
<1>1. ASSUME MoveInv, InstallInv, Agreed PROVE OneServingView
  <2> SUFFICES ASSUME NEW v \in Views, NEW w \in Views,
                      NEW Q \in QuorumsOf(v), Serves(Q, v)
               PROVE  Equal(v, w) \/ MoreUpdatedThan(v, w)
    BY DEF OneServingView
  <2>1. v \in Reached /\ w \in Reached /\ v \in View /\ w \in View
    BY <1>1, ReachedAreViews DEF Reached
  <2>2. v = w \/ IsNewer(v, w) \/ IsNewer(w, v)
    BY <1>1, <2>1 DEF MoveInv, ChainInv, IsNewer
  <2>3. v = w \/ IsNewer(v, w)
    BY <1>1, <2>1, <2>2, PassedViewIsSilent
  <2> QED
    BY <2>1, <2>3, EqualIsEqual, MoreUpdatedIsSuperset DEF IsNewer
<1>2. MoveInv /\ InstallInv /\ Agreed => OneServingView
  BY <1>1
<1> QED
  BY <1>2, MoveInvariance, PTL

(* The unlock at the end of gotInstallSeqQuorum never meets an unlocked    *)
(* mutex, whether the server joins, stays, or goes through several views   *)
(* of a sequence.                                                          *)
THEOREM UnlocksArePaired == Spec /\ []GeneratorsAgree => []UnlockIsPaired
<1>1. MoveInv => UnlockIsPaired
  BY DEF MoveInv, LockInv, UnlockIsPaired
<1> QED
  BY <1>1, MoveInvariance, PTL

(* The state that syncState continues with is that of a majority.  The     *)
(* hypothesis is needed: with two sequences for a view, one server can     *)
(* count twice.                                                            *)
THEOREM StatesComeFromMajority == Spec /\ []GeneratorsAgree => []StateOfMajority
<1>1. ASSUME MoveInv, InstallInv, Types, Agreed PROVE StateOfMajority
  <2> SUFFICES ASSUME NEW s \in Process, NEW m \in stateSeen[s],
                      EnoughStates(s, m.InstallSeq.AssociatedView)
               PROVE  LET v == m.InstallSeq.AssociatedView IN
                      {n.from : n \in StatesFor(s, v)} \in QuorumsOf(v)
    BY DEF StateOfMajority
  <2>1. m \in stateMsgs
    BY <1>1 DEF Types, UpdateTypes
  <2>2. m.InstallSeq.AssociatedView \in View
    BY <1>1, <2>1, Agreement DEF MoveInv, SenderInv
  <2> QED
    BY <1>1, <2>2, StatesAreMajority DEF MoveInv
<1>2. MoveInv /\ InstallInv /\ Types /\ Agreed => StateOfMajority
  BY <1>1
<1> QED
  BY <1>2, MoveInvariance, PTL

-----------------------------------------------------------------------------
(***************************************************************************)
(* Who lags behind                                                         *)
(***************************************************************************)
(* gotInstallSeqQuorum lets a server send its state for a view that it has *)
(* not installed, and for one that it has long passed.  Early senders have *)
(* not passed the view, and those that lag have not even installed it.     *)
Early(v) ==
  {m.from : m \in {m \in stateMsgs : m.InstallSeq.AssociatedView = v /\ m.sentIn \subseteq v}}

Lagging(v) ==
  {m.from : m \in {m \in stateMsgs : m.InstallSeq.AssociatedView = v /\ IsNewer(v, m.sentIn)}}

(* A sender had joined before, and does not go back.                       *)
OriginInv ==
  \A m \in stateMsgs : /\ m.sentIn \in Reached
                       /\ JoinOf(m.from) \in m.sentIn
                       /\ m.sentIn \subseteq currentView[m.from]

(* A view is passed with the states of a quorum that had not passed it,    *)
(* and has itself been the successor of another one.                       *)
EarlyInv ==
  \A v, w \in Reached : IsNewer(w, v) => /\ Early(v) \in QuorumsOf(v)
                                         /\ \E i \in Seqs : i.InstallView = w

(* Who made a view possible waits for it, and does not lag.                *)
WaitInv ==
  \A m, n \in stateMsgs :
    /\ m.from = n.from
    /\ m.InstallSeq.AssociatedView = n.InstallSeq.InstallView
    /\ n.sentIn \subseteq n.InstallSeq.AssociatedView
    => ~IsNewer(m.InstallSeq.AssociatedView, m.sentIn)

(* Somebody has installed every view that was reached.                     *)
FirstInv ==
  \A v \in Reached :
    Members(v) # {} => \E p \in Members(v) : v \subseteq currentView[p] /\ p \notin Lagging(v)

LagInv == OriginInv /\ EarlyInv /\ WaitInv /\ FirstInv

Base == Types /\ InstallInv /\ MoveInv /\ Agreed

(* A server that reaches the quorum for an InstallSeq has sent no state    *)
(* for its associated view.                                                *)
LEMMA FirstState ==
  ASSUME Base, NEW s \in Process, NEW i \in Seqs,
         CountInstallSeq(s, i), ReachesQuorum(s, i),
         NEW m \in stateMsgs, m.from = s
  PROVE  m.InstallSeq.AssociatedView # i.AssociatedView
<1>1. Counted(s, i) # QuorumSize(i.AssociatedView)
  BY CountedReaches DEF Base
<1>2. /\ m.InstallSeq \in Seqs
      /\ Counted(s, m.InstallSeq) = QuorumSize(m.InstallSeq.AssociatedView)
  BY DEF Base, MoveInv, SenderInv
<1>3. m.InstallSeq.AssociatedView = i.AssociatedView => m.InstallSeq = i
  BY <1>2, Agreement DEF Base
<1> QED
  BY <1>1, <1>2, <1>3

(* A server in its loop is in the view that it sent its last state for, or *)
(* in a later one.                                                         *)
LEMMA LoopHasMoved ==
  ASSUME Base, NEW s \in Process, pc[s] = "loop", NEW m \in stateMsgs, m.from = s
  PROVE  /\ m.InstallSeq \in Seqs
         /\ m.InstallSeq.InstallView \subseteq currentView[s]
         /\ IsNewer(currentView[s], m.InstallSeq.AssociatedView)
<1>1. m.InstallSeq \in Seqs /\ m.InstallSeq.InstallView \subseteq currentView[s]
  BY DEF Base, MoveInv, SenderInv, MovesOn
<1>2. IsNewer(m.InstallSeq.InstallView, m.InstallSeq.AssociatedView)
  BY <1>1, Agreement DEF Base
<1> QED
  BY <1>1, <1>2 DEF IsNewer

(* Views that are reached once stay reached.                               *)
LEMMA ReachedGrows ==
  ASSUME Base, NEW s \in Process, updateCurrentView(s)
  PROVE  Reached \subseteq Reached'
<1> DEFINE k == installing[s]
           c == currentView[s]
<1>1. /\ k \in Seqs
      /\ IsNewer(k.InstallView, c)
      /\ currentView' = [currentView EXCEPT ![s] = k.InstallView]
      /\ \A v \in Reached : v \in Reached' \/ (\A i \in Seqs : i.AssociatedView # v)
  BY InstallsNewer DEF Base
<1>2. c \in Reached /\ k.AssociatedView \in Reached
  BY <1>1, ReachedAreViews DEF Base
<1>3. \E i \in Seqs : i.AssociatedView = c
  <2>1. c \subseteq k.AssociatedView
    BY <1>1, <1>2, Successor DEF Base, MoveInv, IsNewer
  <2>2. CASE c = k.AssociatedView
    BY <1>1, <2>2
  <2>3. CASE c # k.AssociatedView
    <3>1. IsNewer(k.AssociatedView, c)
      BY <2>1, <2>3 DEF IsNewer
    <3> QED
      BY <1>2, <3>1 DEF Base, MoveInv, ChainInv
  <2> QED
    BY <2>2, <2>3
<1>4. c \in Reached'
  BY <1>1, <1>2, <1>3
<1>5. \A t \in Process : t # s => currentView'[t] = currentView[t]
  BY <1>1 DEF Base, InstallInv, ViewsInv
<1>6. \A t \in Process : currentView[t] \in Reached'
  BY <1>4, <1>5 DEF Reached, Views
<1>7. \A i \in Seqs : i.AssociatedView \in Reached'
  BY <1>1, ReachedAreViews DEF Base
<1> QED
  BY <1>6, <1>7 DEF Reached, Views

(* A step in which server s sends its state for i, from its loop.          *)
Sends(s, i) ==
  /\ pc[s] = "loop"
  /\ i \in Seqs
  /\ s \in Members(i.AssociatedView)
  /\ JoinOf(s) \in currentView[s]
  /\ \A x \in stateMsgs : ~(x.from = s /\ x.InstallSeq.AssociatedView = i.AssociatedView)
  /\ UNCHANGED <<currentView, register, recv, Seqs, Reached>>
  /\ stateMsgs' = stateMsgs \cup
       {[from |-> s, InstallSeq |-> i, Timestamp |-> register[s], Recv |-> recv[s],
         sentIn |-> currentView[s]]}

(* Steps in which nobody sends a state or installs a view.                 *)
Quiet ==
  /\ UNCHANGED <<currentView, stateMsgs, Reached>>
  /\ Seqs \subseteq Seqs'
  /\ \A p \in Process : register[p] <= register'[p] /\ recv[p] \subseteq recv'[p]

(* An install-seq quorum makes a member send its state.  Those who have    *)
(* yet to join wait for a register that New locked.                        *)
LEMMA QuorumSends ==
  ASSUME Base, NEW s \in Process, NEW m \in installMsgs,
         gotOldInstallView(s, m) \/ gotInstallSeqQuorum(s, m)
  PROVE  Quiet \/ Sends(s, m.InstallSeq)
<1> DEFINE i == m.InstallSeq
           a == i.AssociatedView
<1>1. /\ pc[s] = "loop"
      /\ CountInstallSeq(s, i)
      /\ ReachesQuorum(s, i)
      /\ ~StaysLocked(s, i)
      /\ SendState(s, i)
      /\ UNCHANGED <<currentView, register, recv, decided>>
  BY DEF gotOldInstallView, gotInstallSeqQuorum, TakeInstallSeq
<1>2. i \in Seqs
  BY DEF Base, InstallInv, ViewsInv
<1>3. UNCHANGED <<Seqs, Reached>>
  BY <1>1, ReachedKept
<1>4. CASE s \notin Members(a)
  <2>1. UNCHANGED stateMsgs
    BY <1>1, <1>4 DEF SendState, HasMember
  <2>2. \A p \in Process : register[p] <= register'[p] /\ recv[p] \subseteq recv'[p]
    BY <1>1, ReconfigurationAssumption DEF Base, Types, RegisterTypes
  <2> QED
    BY <1>1, <1>3, <2>1, <2>2 DEF Quiet
<1>5. CASE s \in Members(a)
  <2>1. \A x \in stateMsgs : ~(x.from = s /\ x.InstallSeq.AssociatedView = a)
    BY <1>1, <1>2, FirstState
  <2>2. JoinOf(s) \in currentView[s]
    <3>1. CASE NewerThanCurrent(s, i)
      BY <1>1, <1>5, <3>1 DEF StaysLocked, WantsLock, HasMember, Base, MoveInv, LockInv
    <3>2. CASE ~NewerThanCurrent(s, i)
      <4>1. /\ currentView[s] \in View /\ i.InstallView \in View /\ currentView[s] \in Reached
            /\ IsNewer(i.InstallView, a)
        BY <1>2, Agreement, ReachedAreViews DEF Base, InstallInv, ViewsInv
      <4>2. ~IsNewer(i.InstallView, currentView[s])
        BY <3>2, <4>1, MoreUpdatedIsSuperset DEF NewerThanCurrent, IsNewer
      <4>3. a \subseteq currentView[s]
        BY <1>2, <4>1, <4>2, Successor DEF Base, MoveInv, IsNewer
      <4> QED
        BY <1>5, <4>3 DEF Members
    <3> QED
      BY <3>1, <3>2
  <2> QED
    BY <1>1, <1>2, <1>3, <1>5, <2>1, <2>2 DEF Sends, SendState, HasMember
<1> QED
  BY <1>4, <1>5

(* All steps are of three kinds.                                           *)
LEMMA StepsAreQuiet ==
  ASSUME Base, [Next]_vars
  PROVE  \/ Quiet
         \/ \E s \in Process : \E i \in Seqs : Sends(s, i)
         \/ \E s \in Process : updateCurrentView(s)
<1>1. register \in [Process -> Nat] /\ recv \in [Process -> SUBSET Update]
  BY ReconfigurationAssumption DEF Base, Types, RegisterTypes, UpdateTypes
<1>2. ASSUME UNCHANGED <<currentView, stateMsgs, Reached, Seqs, register, recv>>
      PROVE  Quiet
  BY <1>1, <1>2 DEF Quiet
<1>3. UNCHANGED <<currentView, decided>> => UNCHANGED <<Reached, Seqs>>
  BY ReachedKept
<1>4. ASSUME NEW s \in Process, NEW m \in reconfigMsgs, Reconfig(s, m) PROVE Quiet
  <2>1. /\ recv' = [recv EXCEPT ![s] = @ \cup {m.Update}]
        /\ UNCHANGED <<currentView, stateMsgs, decided, register>>
    BY <1>4 DEF Reconfig, netVars
  <2>2. \A p \in Process : recv[p] \subseteq recv'[p]
    BY <1>1, <2>1
  <2> QED
    BY <1>1, <1>3, <2>1, <2>2 DEF Quiet
<1>5. ASSUME NEW s \in Process, NEW r \in requests, Write(s, r) PROVE Quiet
  <2>1. /\ register' = [register EXCEPT ![s] = Max2(register[s], r.Timestamp)]
        /\ UNCHANGED <<currentView, stateMsgs, decided, recv>>
    BY <1>5 DEF Write, netVars
  <2>2. r.Timestamp \in Nat
    BY ReconfigurationAssumption DEF Base, Types, ClientTypes
  <2>3. \A p \in Process : register[p] <= register'[p]
    BY <1>1, <2>1, <2>2 DEF Max2
  <2> QED
    BY <1>3, <2>1, <2>3 DEF Quiet
<1>6. ASSUME NEW w \in Views, Decide(w) PROVE Quiet
  <2>1. /\ Seqs \subseteq Seqs'
        /\ UNCHANGED Reached
        /\ UNCHANGED <<currentView, stateMsgs, register, recv>>
    BY <1>6, ReachedByDecide DEF serverVars, Base
  <2> QED
    BY <1>1, <2>1 DEF Quiet
<1>7. ASSUME NEW s \in Process, NEW m \in installMsgs,
             gotOldInstallView(s, m) \/ gotInstallSeqQuorum(s, m)
      PROVE  Quiet \/ \E i \in Seqs : Sends(s, i)
  BY <1>7, QuorumSends DEF Sends
<1>8. ASSUME \/ \E u \in asked : Ask(u)
             \/ \E s \in Process :
                  \/ \E d \in decided : generatedViewSeq(s, d)
                  \/ \E m \in installMsgs : NoQuorumYet(s, m) \/ gotLockedMutex(s, m)
                  \/ \E m \in stateMsgs : StateUpdate(s, m)
                  \/ ViewInstalled(s)
                  \/ Crash(s)
                  \/ \E r \in requests : WriteWaits(s, r)
             \/ ClientReturn
             \/ UNCHANGED vars
      PROVE  UNCHANGED <<currentView, stateMsgs, decided, register, recv>>
  BY <1>8 DEF Ask, generatedViewSeq, NoQuorumYet,
     gotLockedMutex, StateUpdate, ViewInstalled, Crash, WriteWaits, ClientReturn,
     vars, serverVars, callVars, netVars
<1>9. ASSUME Proposes \/ \E s \in Process : ClientRetry(s)
      PROVE  UNCHANGED <<currentView, stateMsgs, decided, register, recv>>
  BY <1>9, ProposingIsQuiet, RetryingIsQuiet DEF serverVars
<1> QED
  BY <1>9, <1>2, <1>3, <1>4, <1>5, <1>6, <1>7, <1>8 DEF Next, Proposes

-----------------------------------------------------------------------------
(* Senders are members, whenever they sent.                                *)
LEMMA EarlyAreSenders ==
  ASSUME Base, NEW v
  PROVE  Early(v) \subseteq Senders(v) /\ Senders(v) \subseteq Members(v)
BY SendersAreMembers DEF Early, Senders, Base, MoveInv

(* Steps in which nobody sends or installs.                                *)
LEMMA QuietLags ==
  ASSUME LagInv, Quiet
  PROVE  LagInv'
<1>1. /\ UNCHANGED <<currentView, stateMsgs, Reached>>
      /\ Seqs \subseteq Seqs'
      /\ \A v : Early(v)' = Early(v) /\ Lagging(v)' = Lagging(v)
  BY DEF Quiet, Early, Lagging
<1> QED
  BY <1>1 DEF LagInv, OriginInv, EarlyInv, WaitInv, FirstInv

(* A server that sends its state has sent none that this one contradicts.  *)
LEMMA SendLags ==
  ASSUME Base, LagInv, NEW s \in Process, NEW i \in Seqs, Sends(s, i)
  PROVE  LagInv'
<1> DEFINE n == [from |-> s, InstallSeq |-> i, Timestamp |-> register[s], Recv |-> recv[s],
                 sentIn |-> currentView[s]]
           a == i.AssociatedView
<1>1. /\ UNCHANGED <<currentView, Seqs, Reached>>
      /\ stateMsgs' = stateMsgs \cup {n}
      /\ pc[s] = "loop" /\ s \in Members(a) /\ JoinOf(s) \in currentView[s]
  BY DEF Sends
<1>2. n.from = s /\ n.InstallSeq = i /\ n.sentIn = currentView[s]
  OBVIOUS
<1>3. currentView[s] \in Reached /\ IsNewer(i.InstallView, a)
  BY Agreement, ReachedAreViews DEF Base
<1>4. \A m \in stateMsgs : m.from = s => /\ m.InstallSeq \in Seqs
                                        /\ m.InstallSeq.InstallView \subseteq currentView[s]
                                        /\ IsNewer(currentView[s], m.InstallSeq.AssociatedView)
  BY <1>1, LoopHasMoved
<1> HIDE DEF n
<1>5. OriginInv'
  BY <1>1, <1>2, <1>3 DEF LagInv, OriginInv
<1>6. EarlyInv'
  <2> SUFFICES ASSUME NEW v \in Reached, NEW w \in Reached, IsNewer(w, v)
               PROVE  Early(v)' \in QuorumsOf(v) /\ \E j \in Seqs : j.InstallView = w
    BY <1>1 DEF EarlyInv
  <2>1. Early(v) \in QuorumsOf(v) /\ \E j \in Seqs : j.InstallView = w
    BY DEF LagInv, EarlyInv
  <2>2. Early(v) \subseteq Early(v)'
    BY <1>1 DEF Early
  <2>3. \A m \in stateMsgs' : m.InstallSeq.AssociatedView = v => m.from \in Members(v)
    BY <1>1, <1>2 DEF Base, MoveInv, SenderInv
  <2>4. Early(v)' \subseteq Members(v)
    BY <2>3 DEF Early
  <2>5. v \in View
    BY ReachedAreViews DEF Base
  <2> QED
    BY <2>1, <2>2, <2>4, <2>5, QuorumGrows
<1>7. WaitInv'
  <2> SUFFICES ASSUME NEW x \in stateMsgs', NEW y \in stateMsgs',
                      x.from = y.from,
                      x.InstallSeq.AssociatedView = y.InstallSeq.InstallView,
                      y.sentIn \subseteq y.InstallSeq.AssociatedView,
                      IsNewer(x.InstallSeq.AssociatedView, x.sentIn)
               PROVE  FALSE
    BY DEF WaitInv
  <2>1. CASE x \in stateMsgs /\ y \in stateMsgs
    BY <2>1 DEF LagInv, WaitInv
  (* s lags in the view that it has waited for. *)
  <2>2. CASE x = n /\ y \in stateMsgs
    BY <1>2, <1>4, <2>2 DEF IsNewer
  (* s waits for the view in which it lagged. *)
  <2>3. CASE x \in stateMsgs /\ y = n
    BY <1>2, <1>3, <1>4, <2>3 DEF IsNewer
  <2>4. CASE x = n /\ y = n
    BY <1>2, <1>3, <2>4 DEF IsNewer
  <2> QED
    BY <1>1, <2>1, <2>2, <2>3, <2>4
<1>8. FirstInv'
  <2> SUFFICES ASSUME NEW v \in Reached, Members(v) # {}
               PROVE  \E p \in Members(v) : v \subseteq currentView[p] /\ p \notin Lagging(v)'
    BY <1>1 DEF FirstInv
  <2>1. PICK p \in Members(v) : v \subseteq currentView[p] /\ p \notin Lagging(v)
    BY DEF LagInv, FirstInv
  <2>2. \A m \in stateMsgs' : m \in stateMsgs \/ m = n
    BY <1>1
  <2>3. p \notin Lagging(v)'
    BY <1>2, <2>1, <2>2 DEF Lagging, IsNewer
  <2> QED
    BY <2>1, <2>3
<1> QED
  BY <1>5, <1>6, <1>7, <1>8 DEF LagInv

(* The first server in a view gets there with states of servers that were  *)
(* in no later one.                                                        *)
LEMMA InstallLags ==
  ASSUME Base, LagInv, NEW s \in Process, updateCurrentView(s)
  PROVE  LagInv'
<1> DEFINE k == installing[s]
           a == k.AssociatedView
           w == k.InstallView
<1>1. /\ k \in Seqs
      /\ IsNewer(w, currentView[s])
      /\ s \in Members(w)
      /\ currentView' = [currentView EXCEPT ![s] = w]
      /\ UNCHANGED <<stateMsgs, Seqs>>
      /\ Reached' \subseteq Reached \cup {w}
  BY InstallsNewer DEF Base, HasMember
<1>2. Reached \subseteq Reached'
  BY ReachedGrows
<1>3. /\ a \in Reached /\ a \in View /\ IsNewer(w, a)
      /\ \A u \in Reached : \/ u \subseteq a /\ IsNewer(w, u)
                            \/ IsNewer(u, a) /\ w \subseteq u /\ w \in Reached
  BY <1>1, Agreement, ReachedAreViews, Successor DEF Base, MoveInv
<1>4. /\ currentView'[s] = w
      /\ \A p \in Process : p # s => currentView'[p] = currentView[p]
  BY <1>1 DEF Base, InstallInv, ViewsInv
<1>5. \A v : Early(v)' = Early(v) /\ Lagging(v)' = Lagging(v)
  BY <1>1 DEF Early, Lagging
<1>6. EnoughStates(s, a)
  BY DEF updateCurrentView
<1>7. Senders(a) \in QuorumsOf(a)
  BY <1>3, <1>6, StatesAreMajority, EarlyAreSenders, QuorumGrows DEF Base, MoveInv
<1>8. \A m \in stateMsgs : m.sentIn \in Reached /\ m.InstallSeq.AssociatedView \in Reached
  BY ReachedAreViews DEF LagInv, OriginInv, Base, MoveInv, SenderInv
<1> HIDE DEF k, a, w
<1>9. OriginInv'
  <2>1. \A m \in stateMsgs : m.from \in Process
    BY MembersAreProcesses DEF Base, MoveInv, SenderInv
  <2>2. \A m \in stateMsgs : m.sentIn \subseteq currentView'[m.from]
    BY <1>1, <1>4, <2>1 DEF LagInv, OriginInv, IsNewer
  <2> QED
    BY <1>1, <1>2, <2>2 DEF LagInv, OriginInv
<1>10. EarlyInv'
  <2> SUFFICES ASSUME NEW v \in Reached', NEW x \in Reached', IsNewer(x, v)
               PROVE  Early(v) \in QuorumsOf(v) /\ \E j \in Seqs : j.InstallView = x
    BY <1>1, <1>5 DEF EarlyInv
  <2>1. CASE v \in Reached /\ x \in Reached
    BY <2>1 DEF LagInv, EarlyInv
  <2>2. CASE v \in Reached /\ x = w /\ w \notin Reached
    <3>1. v \subseteq a
      BY <1>3, <2>2
    <3>2. CASE v = a
      <4>1. \A m \in stateMsgs : m.sentIn \subseteq a
        BY <1>3, <1>8, <2>2
      <4>2. Senders(a) = Early(a)
        BY <4>1 DEF Senders, Early
      <4> QED
        BY <1>1, <1>7, <2>2, <3>2, <4>2 DEF k, w
    <3>3. CASE v # a
      <4>1. IsNewer(a, v)
        BY <3>1, <3>3 DEF IsNewer
      <4> QED
        BY <1>1, <1>3, <2>2, <4>1 DEF LagInv, EarlyInv, k, w
    <3> QED
      BY <3>2, <3>3
  <2>3. CASE v = w /\ w \notin Reached
    <3>1. x \in Reached
      BY <1>1, <2>3 DEF IsNewer
    <3> QED
      BY <1>3, <2>3, <3>1 DEF IsNewer
  <2> QED
    BY <1>1, <2>1, <2>2, <2>3
<1>11. WaitInv'
  BY <1>1 DEF LagInv, WaitInv
<1>12. FirstInv'
  <2> SUFFICES ASSUME NEW v \in Reached', Members(v) # {}
               PROVE  \E p \in Members(v) : v \subseteq currentView'[p] /\ p \notin Lagging(v)
    BY <1>5 DEF FirstInv
  <2>1. CASE v \in Reached
    <3>1. PICK p \in Members(v) : v \subseteq currentView[p] /\ p \notin Lagging(v)
      BY <2>1 DEF LagInv, FirstInv
    <3>2. p \in Process
      BY MembersAreProcesses
    <3>3. v \subseteq currentView'[p]
      BY <1>1, <1>4, <3>1, <3>2 DEF IsNewer
    <3> QED
      BY <3>1, <3>3
  <2>2. CASE v = w /\ w \notin Reached
    <3>1. s \notin Lagging(w)
      BY <1>8, <2>2 DEF Lagging
    <3> QED
      BY <1>1, <1>4, <2>2, <3>1
  <2> QED
    BY <1>1, <2>1, <2>2
<1> QED
  BY <1>9, <1>10, <1>11, <1>12 DEF LagInv

(* LagInv in every state.                                                  *)
LEMMA LagInvariance ==
  Spec /\ []GeneratorsAgree => [](LagInv /\ Base)
<1>1. ASSUME Init PROVE LagInv
  <2>1. PICK b \in Start :
          /\ currentView = [s \in Process |-> b.view]
          /\ decided = {[view |-> b.view, seq |-> seq] : seq \in b.generated}
    BY <1>1 DEF Init
  <2>2. stateMsgs = {}
    BY <1>1 DEF Init
  <2>3. Reached \subseteq {b.view}
    BY <2>1 DEF Reached, Views, Seqs, InstallOf
  <2>4. OriginInv /\ EarlyInv /\ WaitInv
    BY <2>2, <2>3 DEF OriginInv, EarlyInv, WaitInv, IsNewer
  <2>5. FirstInv
    BY <2>1, <2>2, <2>3, MembersAreProcesses DEF FirstInv, Lagging
  <2> QED
    BY <2>4, <2>5 DEF LagInv
<1>2. ASSUME Base, LagInv, [Next]_vars PROVE LagInv'
  BY <1>2, StepsAreQuiet, QuietLags, SendLags, InstallLags
<1>3. Base /\ LagInv /\ [Next]_vars => LagInv'
  BY <1>2
<1>4. Init => LagInv
  BY <1>1
<1>5. MoveInv /\ InstallInv /\ Types /\ Agreed => Base
  BY DEF Base
<1> QED
  BY <1>3, <1>4, <1>5, MoveInvariance, PTL DEF Spec

(* No view is so much smaller than the one before that those which the one *)
(* before need not wait for (NumberOfToleratedFaults) would be a quorum of *)
(* it.  In a view of at most two members everybody is needed anyway.       *)
ShrinksSlowly ==
  \A d \in decided :
    LET v == GetLeastUpdatedView(d.seq)
    IN  NumberOfMembers(v) <= 2 \/ QuorumSize(v) > NumberOfToleratedFaults(d.view)

Settings == Base /\ LagInv /\ ShrinksSlowly

(* Then every quorum of a view has a member that does not lag.             *)
LEMMA LaggardsAreFew ==
  ASSUME Settings, NEW v \in Reached, NEW Q \in QuorumsOf(v)
  PROVE  \E p \in Q : p \notin Lagging(v)
<1> SUFFICES ASSUME Q \subseteq Lagging(v) PROVE FALSE
  OBVIOUS
<1>1. v \in View /\ \E p \in Q : p \in Members(v)
  BY ReachedAreViews, QuorumIntersection DEF Settings, Base, QuorumsOf
<1>2. PICK i \in Seqs : i.InstallView = v
  <2>1. PICK m \in stateMsgs : m.InstallSeq.AssociatedView = v /\ IsNewer(v, m.sentIn)
    BY <1>1 DEF Lagging
  <2>2. m.sentIn \in Reached
    BY DEF Settings, LagInv, OriginInv
  <2> QED
    BY <2>1, <2>2 DEF Settings, LagInv, EarlyInv
<1> DEFINE u == i.AssociatedView
           E == Early(u)
<1>3. /\ u \in Reached /\ u \in View /\ IsNewer(v, u)
      /\ NumberOfMembers(v) <= 2 \/ QuorumSize(v) > NumberOfToleratedFaults(u)
  <2>1. u \in Reached /\ u \in View /\ IsNewer(v, u)
    BY <1>2, Agreement, ReachedAreViews DEF Settings, Base
  <2>2. PICK d \in decided : i.AssociatedView = d.view /\ i.InstallView = GetLeastUpdatedView(d.seq)
    BY DEF Seqs, InstallOf
  <2> QED
    BY <1>2, <2>1, <2>2 DEF Settings, ShrinksSlowly
<1>4. E \in QuorumsOf(u)
  BY <1>3 DEF Settings, LagInv, EarlyInv
(* Those who lag were members of the view before, and not asked.           *)
<1>5. Q \subseteq Members(u) /\ Q \cap E = {}
  <2> SUFFICES ASSUME NEW p \in Q PROVE p \in Members(u) /\ p \notin E
    OBVIOUS
  <2>1. PICK m \in stateMsgs : /\ m.from = p
                               /\ m.InstallSeq.AssociatedView = v
                               /\ IsNewer(v, m.sentIn)
    BY DEF Lagging
  <2>2. m.sentIn \in Reached /\ JoinOf(p) \in m.sentIn
    BY <2>1 DEF Settings, LagInv, OriginInv
  <2>3. m.sentIn \subseteq u
    BY <1>2, <2>1, <2>2, Successor DEF Settings, Base, MoveInv, IsNewer
  <2>4. p \in Members(v)
    BY DEF QuorumsOf
  <2>5. p \in Members(u)
    BY <1>3, <2>2, <2>3, <2>4 DEF Members, IsNewer
  <2>6. ASSUME p \in E PROVE FALSE
    <3>1. PICK n \in stateMsgs : /\ n.from = p
                                 /\ n.InstallSeq.AssociatedView = u
                                 /\ n.sentIn \subseteq u
      BY <2>6 DEF Early
    <3>2. n.InstallSeq \in Seqs
      BY DEF Settings, Base, MoveInv, SenderInv
    <3>3. n.InstallSeq = i
      BY <3>1, <3>2, Agreement DEF Settings, Base
    <3> QED
      BY <1>2, <2>1, <3>1, <3>3 DEF Settings, LagInv, WaitInv
  <2> QED
    BY <2>5, <2>6
<1> HIDE DEF u, E
<1>6. CASE QuorumSize(v) > NumberOfToleratedFaults(u)
  <2>1. /\ IsFiniteSet(Members(u)) /\ IsFiniteSet(Q) /\ IsFiniteSet(E)
        /\ Cardinality(Q \cup E) <= Cardinality(Members(u))
        /\ Cardinality(Q) \in Nat /\ Cardinality(E) \in Nat /\ Cardinality(Members(u)) \in Nat
        /\ QuorumSize(v) \in Nat /\ QuorumSize(u) \in Nat
    BY <1>1, <1>3, <1>4, <1>5, QuorumIsMajority, FS_Subset, FS_CardinalityType DEF QuorumsOf
  <2>2. Cardinality(Q \cup E) = Cardinality(Q) + Cardinality(E)
    <3>1. Cardinality(Q \cup E) = Cardinality(Q) + Cardinality(E) - Cardinality(Q \cap E)
      BY <2>1, FS_Union
    <3>2. Cardinality(Q \cap E) = 0
      BY <1>5, FS_EmptySet
    <3> QED
      BY <2>1, <3>1, <3>2
  <2>3. Cardinality(Q) >= QuorumSize(v) /\ Cardinality(E) >= QuorumSize(u)
    BY <1>4 DEF QuorumsOf
  <2> QED
    BY <1>6, <2>1, <2>2, <2>3 DEF NumberOfToleratedFaults, NumberOfMembers
<1>7. CASE NumberOfMembers(v) <= 2
  <2>1. /\ IsFiniteSet(Members(v)) /\ Q \subseteq Members(v)
        /\ Cardinality(Q) >= QuorumSize(v)
        /\ NumberOfMembers(v) \in Nat
    BY <1>1, QuorumIsMajority DEF QuorumsOf
  <2>2. Cardinality(Q) \in Nat /\ Cardinality(Q) <= NumberOfMembers(v)
    BY <2>1, FS_Subset, FS_CardinalityType DEF NumberOfMembers
  <2>3. Members(v) # {}
    BY <1>1
  <2>4. NumberOfMembers(v) # 0
    BY <2>1, <2>3, FS_EmptySet DEF NumberOfMembers
  <2>5. QuorumSize(v) = NumberOfMembers(v)
    BY <1>7, <2>1, <2>4 DEF QuorumSize
  <2>6. Q = Members(v)
    BY <2>1, <2>2, <2>5, FS_Subset DEF NumberOfMembers
  <2>7. PICK p \in Members(v) : p \notin Lagging(v)
    BY <2>3 DEF Settings, LagInv, FirstInv
  <2> QED
    BY <2>6, <2>7
<1> QED
  BY <1>3, <1>6, <1>7

-----------------------------------------------------------------------------
(***************************************************************************)
(* What the state transfer carries from view to view                       *)
(***************************************************************************)
(* The states sent by servers that had passed the view, and the views in   *)
(* which these were.                                                       *)
Late(M) == {m \in M : ~(m.sentIn \subseteq m.InstallSeq.AssociatedView)}

LateViews(M) == UNION {m.sentIn : m \in Late(M)}

NobodyIsLate == Late(stateMsgs) = {}

(* Timestamp t is at least what a quorum of v that had not passed v has    *)
(* sent in the messages M.  The updates U cover what they sent, but for    *)
(* what late servers had in their views: their recv lacks it by now.       *)
Covers(M, t, U, v) ==
  \E Q \in QuorumsOf(v) :
    /\ \A p \in Q : \E m \in M : m.from = p /\ m.InstallSeq.AssociatedView = v
    /\ \A m \in M : m.InstallSeq.AssociatedView = v /\ m.from \in Q
                      => /\ m.sentIn \subseteq v
                         /\ m.Timestamp <= t
                         /\ m.Recv \subseteq U \cup LateViews(M)

(* Whoever is in a later view covers the states of the earlier ones, and   *)
(* so does what it sends.                                                  *)
CarryInv ==
  \A v \in Reached :
    /\ \A p \in Process : IsNewer(currentView[p], v) =>
         Covers(stateMsgs, register[p], recv[p] \cup currentView[p], v)
    /\ \A m \in stateMsgs : IsNewer(m.sentIn, v) =>
         Covers(stateMsgs, m.Timestamp, m.Recv \cup m.sentIn, v)

(* Process p had timestamp t and updates U in view v, and still has them,  *)
(* or sent them when it left the view.  Nothing is said of one that missed *)
(* its leave, and sends its state when it is in a later view.              *)
Keeps(p, v, t, U) ==
  /\ v \in Reached
  /\ p \in Members(v)
  /\ v \subseteq currentView[p]
  /\ currentView[p] = v => t <= register[p] /\ U \subseteq recv[p]
  /\ \A m \in stateMsgs :
       m.from = p /\ m.InstallSeq.AssociatedView = v /\ m.sentIn \subseteq v
         => t <= m.Timestamp /\ U \subseteq m.Recv

(* Who acknowledged a write keeps it, and who accepted an update.          *)
KeepInv ==
  /\ \A p \in client.acks : Keeps(p, client.view, client.Timestamp, {})
  /\ high > 0 => \E v \in Reached : \E Q \in QuorumsOf(v) : \A p \in Q : Keeps(p, v, high, {})
  /\ \A a \in accepted : Keeps(a.process, a.view, 0, {a.update})

StateInv == CarryInv /\ KeepInv

(* More cover as much.                                                     *)
LEMMA CoversMore ==
  ASSUME NEW M, NEW t \in Nat, NEW U, NEW v, Covers(M, t, U, v),
         NEW t2 \in Nat, t <= t2, NEW U2, U \subseteq U2 \cup LateViews(M),
         \A m \in M : m.Timestamp \in Nat
  PROVE  Covers(M, t2, U2, v)
<1>1. PICK Q \in QuorumsOf(v) :
        /\ \A p \in Q : \E m \in M : m.from = p /\ m.InstallSeq.AssociatedView = v
        /\ \A m \in M : m.InstallSeq.AssociatedView = v /\ m.from \in Q
                          => /\ m.sentIn \subseteq v
                             /\ m.Timestamp <= t
                             /\ m.Recv \subseteq U \cup LateViews(M)
  BY DEF Covers
<1>2. \A m \in M : m.InstallSeq.AssociatedView = v /\ m.from \in Q
                     => /\ m.sentIn \subseteq v
                        /\ m.Timestamp <= t2
                        /\ m.Recv \subseteq U2 \cup LateViews(M)
  BY <1>1
<1> QED
  BY <1>1, <1>2 DEF Covers

(* A first message of a server for a view does not change what the others  *)
(* cover.                                                                  *)
LEMMA CoversStill ==
  ASSUME NEW M, NEW t, NEW U, NEW v, Covers(M, t, U, v), NEW n,
         \A m \in M : ~(/\ m.from = n.from
                        /\ m.InstallSeq.AssociatedView = n.InstallSeq.AssociatedView)
  PROVE  Covers(M \cup {n}, t, U, v)
<1>1. PICK Q \in QuorumsOf(v) :
        /\ \A p \in Q : \E m \in M : m.from = p /\ m.InstallSeq.AssociatedView = v
        /\ \A m \in M : m.InstallSeq.AssociatedView = v /\ m.from \in Q
                          => /\ m.sentIn \subseteq v
                             /\ m.Timestamp <= t
                             /\ m.Recv \subseteq U \cup LateViews(M)
  BY DEF Covers
<1>2. n.InstallSeq.AssociatedView = v => n.from \notin Q
  BY <1>1
<1>3. LateViews(M) \subseteq LateViews(M \cup {n})
  BY DEF Late, LateViews
<1>4. \A m \in M \cup {n} : m.InstallSeq.AssociatedView = v /\ m.from \in Q
                              => /\ m.sentIn \subseteq v
                                 /\ m.Timestamp <= t
                                 /\ m.Recv \subseteq U \cup LateViews(M \cup {n})
  BY <1>1, <1>2, <1>3
<1>5. PICK N : N = M \cup {n}
  OBVIOUS
<1>6. /\ \A p \in Q : \E m \in N : m.from = p /\ m.InstallSeq.AssociatedView = v
      /\ \A m \in N : m.InstallSeq.AssociatedView = v /\ m.from \in Q
                        => /\ m.sentIn \subseteq v
                           /\ m.Timestamp <= t
                           /\ m.Recv \subseteq U \cup LateViews(N)
  BY <1>1, <1>4, <1>5
<1>7. Covers(N, t, U, v)
  BY <1>6 DEF Covers
<1> QED
  BY <1>5, <1>7

(* Timestamps are numbers.                                                 *)
LEMMA Timestamps ==
  ASSUME Types
  PROVE  /\ \A p \in Process : register[p] \in Nat
         /\ \A m \in stateMsgs : m.Timestamp \in Nat
         /\ high \in Nat
         /\ client.Timestamp \in Nat
<1>1. MaxWrites \in Nat
  BY ReconfigurationAssumption
<1> QED
  BY <1>1 DEF Types, RegisterTypes, ClientTypes

-----------------------------------------------------------------------------
(* Who knew something and did not send a state knows it still.             *)
LEMMA QuietCarries ==
  ASSUME Base, Types', CarryInv, Quiet
  PROVE  CarryInv'
<1>1. /\ UNCHANGED <<currentView, stateMsgs, Reached>>
      /\ \A p \in Process : register[p] <= register'[p] /\ recv[p] \subseteq recv'[p]
  BY DEF Quiet
<1>2. /\ \A p \in Process : register[p] \in Nat /\ register'[p] \in Nat
      /\ \A m \in stateMsgs : m.Timestamp \in Nat
  BY ReconfigurationAssumption DEF Base, Types, RegisterTypes
<1>3. ASSUME NEW v \in Reached, NEW p \in Process, IsNewer(currentView[p], v)
      PROVE  Covers(stateMsgs, register'[p], recv'[p] \cup currentView[p], v)
  <2>1. Covers(stateMsgs, register[p], recv[p] \cup currentView[p], v)
    BY <1>3 DEF CarryInv
  <2>2. recv[p] \cup currentView[p] \subseteq recv'[p] \cup currentView[p]
    BY <1>1
  <2> QED
    BY <1>1, <1>2, <2>1, <2>2, CoversMore
<1> QED
  BY <1>1, <1>3 DEF CarryInv

(* ... and so do those that Keeps is about.                                *)
LEMMA QuietKeeps ==
  ASSUME Base, Types', Quiet,
         NEW p, NEW v, NEW t \in Nat, NEW U, Keeps(p, v, t, U)
  PROVE  Keeps(p, v, t, U)'
<1>1. p \in Process
  BY MembersAreProcesses DEF Keeps
<1>2. register[p] \in Nat /\ register'[p] \in Nat
  BY <1>1, ReconfigurationAssumption DEF Base, Types, RegisterTypes
<1>3. /\ UNCHANGED <<currentView, stateMsgs, Reached>>
      /\ register[p] <= register'[p]
      /\ recv[p] \subseteq recv'[p]
  BY <1>1 DEF Quiet
<1> QED
  BY <1>2, <1>3 DEF Keeps

(* What a server sends covers what it knew.                                *)
LEMMA SendCarries ==
  ASSUME Base, CarryInv, NEW s \in Process, NEW i \in Seqs, Sends(s, i)
  PROVE  CarryInv'
<1> DEFINE n == [from |-> s, InstallSeq |-> i, Timestamp |-> register[s], Recv |-> recv[s],
                 sentIn |-> currentView[s]]
<1>1. /\ UNCHANGED <<currentView, register, recv, Reached>>
      /\ \A x \in stateMsgs : ~(x.from = s /\ x.InstallSeq.AssociatedView = i.AssociatedView)
      /\ stateMsgs' = stateMsgs \cup {n}
  BY DEF Sends
<1>2. /\ n.from = s /\ n.InstallSeq = i /\ n.sentIn = currentView[s]
      /\ n.Timestamp = register[s] /\ n.Recv = recv[s]
  OBVIOUS
<1> HIDE DEF n
<1>3. ASSUME NEW t, NEW U, NEW v, Covers(stateMsgs, t, U, v)
      PROVE  Covers(stateMsgs', t, U, v)
  <2>1. Covers(stateMsgs \cup {n}, t, U, v)
    BY <1>1, <1>2, <1>3, CoversStill
  <2> QED
    BY <1>1, <2>1
<1> SUFFICES ASSUME NEW v \in Reached
             PROVE  /\ \A p \in Process : IsNewer(currentView[p], v) =>
                         Covers(stateMsgs', register[p], recv[p] \cup currentView[p], v)
                    /\ \A x \in stateMsgs' : IsNewer(x.sentIn, v) =>
                         Covers(stateMsgs', x.Timestamp, x.Recv \cup x.sentIn, v)
  BY <1>1 DEF CarryInv
<1>4. /\ \A p \in Process : IsNewer(currentView[p], v) =>
           Covers(stateMsgs', register[p], recv[p] \cup currentView[p], v)
      /\ \A x \in stateMsgs : IsNewer(x.sentIn, v) =>
           Covers(stateMsgs', x.Timestamp, x.Recv \cup x.sentIn, v)
  BY <1>3 DEF CarryInv
<1>5. IsNewer(n.sentIn, v) => Covers(stateMsgs', n.Timestamp, n.Recv \cup n.sentIn, v)
  BY <1>2, <1>4
<1>6. \A x \in stateMsgs' : x \in stateMsgs \/ x = n
  BY <1>1
<1> QED
  BY <1>4, <1>5, <1>6

(* What a server keeps is in the state that it sends.                      *)
LEMMA SendKeeps ==
  ASSUME NEW s \in Process, NEW i \in Seqs, Sends(s, i),
         NEW p, NEW v, NEW t, NEW U, Keeps(p, v, t, U)
  PROVE  Keeps(p, v, t, U)'
<1> DEFINE n == [from |-> s, InstallSeq |-> i, Timestamp |-> register[s], Recv |-> recv[s],
                 sentIn |-> currentView[s]]
<1>1. /\ UNCHANGED <<currentView, register, recv, Reached>>
      /\ stateMsgs' = stateMsgs \cup {n}
  BY DEF Sends
<1>2. /\ n.from = s /\ n.InstallSeq = i /\ n.sentIn = currentView[s]
      /\ n.Timestamp = register[s] /\ n.Recv = recv[s]
  OBVIOUS
<1> HIDE DEF n
<1>3. /\ v \subseteq currentView[p]
      /\ currentView[p] = v => t <= register[p] /\ U \subseteq recv[p]
  BY DEF Keeps
<1>4. \A x \in stateMsgs' : x \in stateMsgs \/ x = n
  BY <1>1
<1>5. \A x \in stateMsgs' :
        x.from = p /\ x.InstallSeq.AssociatedView = v /\ x.sentIn \subseteq v
          => t <= x.Timestamp /\ U \subseteq x.Recv
  BY <1>2, <1>3, <1>4 DEF Keeps
<1> QED
  BY <1>1, <1>5 DEF Keeps

-----------------------------------------------------------------------------
(* What a server continues with covers the states of all views before: of  *)
(* the last one, because they come from a quorum of it; of the others,     *)
(* because one of that quorum has been in the last one.                    *)
LEMMA InstallCovers ==
  ASSUME Settings, Types', CarryInv, NEW s \in Process, updateCurrentView(s),
         NEW v \in Reached, IsNewer(installing[s].InstallView, v)
  PROVE  Covers(stateMsgs, register'[s], recv'[s] \cup installing[s].InstallView, v)
<1> DEFINE a == installing[s].AssociatedView
           w == installing[s].InstallView
           M == StatesFor(s, a)
<1>1. installing[s] \in Seqs
  BY InstallsNewer DEF Settings, Base
<1>2. a \in View /\ a \in Reached /\ IsNewer(w, a)
  BY <1>1, Agreement, ReachedAreViews DEF Settings, Base
<1>3. /\ EnoughStates(s, a)
      /\ register' = [register EXCEPT ![s] = NewestTimestamp(M)]
      /\ recv' = [recv EXCEPT ![s] = (recv[s] \cup UNION {m.Recv : m \in M}) \ w]
  BY DEF updateCurrentView, syncState
<1>4. {m.from : m \in M} \in QuorumsOf(a)
  BY <1>2, <1>3, StatesAreMajority DEF Settings, Base, MoveInv
<1>5. \A m \in M : m \in stateMsgs /\ m.InstallSeq.AssociatedView = a
  <2>1. \A m \in M : m \in stateMsgs /\ Equal(m.InstallSeq.AssociatedView, a)
    BY DEF StatesFor, Settings, Base, Types, UpdateTypes
  <2>2. \A m \in stateMsgs : m.InstallSeq.AssociatedView \in View
    BY Agreement DEF Settings, Base, MoveInv, SenderInv
  <2> QED
    BY <1>2, <2>1, <2>2, EqualIsEqual
<1>6. /\ \A m \in stateMsgs : m.Timestamp \in 0..MaxWrites /\ m.Timestamp \in Nat
      /\ register'[s] \in Nat
  BY ReconfigurationAssumption DEF Settings, Base, Types, RegisterTypes
<1>7. register'[s] = NewestTimestamp(M)
  BY <1>3 DEF Settings, Base, Types, RegisterTypes
<1>8. recv'[s] = (recv[s] \cup UNION {m.Recv : m \in M}) \ w
  BY <1>3 DEF Settings, Base, Types, UpdateTypes
<1>9. \A x, y \in stateMsgs :
        x.from = y.from /\ x.InstallSeq.AssociatedView = y.InstallSeq.AssociatedView => x = y
  BY Agreement DEF Settings, Base, MoveInv, SenderInv
<1>10. \A m \in stateMsgs : m.sentIn \subseteq a \/ IsNewer(m.sentIn, a)
  BY <1>2 DEF Settings, LagInv, OriginInv, Base, MoveInv, ChainInv, IsNewer
<1>11. v \subseteq a
  BY <1>1, Successor DEF Settings, Base, MoveInv, IsNewer
<1> HIDE DEF M, a, w
<1>12. M # {}
  <2> SUFFICES ASSUME M = {} PROVE FALSE
    OBVIOUS
  <2>1. {m.from : m \in M} = {}
    OBVIOUS
  <2>2. \E p \in {m.from : m \in M} : p \in {m.from : m \in M}
    BY <1>2, <1>4, QuorumIntersection DEF QuorumsOf
  <2> QED
    BY <2>1, <2>2
<1>13. \A m \in M : m.Timestamp <= register'[s] /\ m.Recv \subseteq recv'[s] \cup w
  <2>1. \A m \in M : m.Timestamp <= register'[s]
    <3>1. MaxWrites \in Nat /\ \A m \in M : m.Timestamp \in 0..MaxWrites
      BY <1>5, <1>6, ReconfigurationAssumption
    <3>2. \A m \in M : m.Timestamp <= NewestTimestamp(M)
      BY <1>12, <3>1, NewestExists
    <3> QED
      BY <1>7, <3>2
  <2> QED
    BY <1>8, <2>1
<1>14. ASSUME NEW m \in M, IsNewer(m.sentIn, v), m.sentIn \subseteq w \cup LateViews(stateMsgs)
       PROVE  Covers(stateMsgs, register'[s], recv'[s] \cup w, v)
  <2>1. Covers(stateMsgs, m.Timestamp, m.Recv \cup m.sentIn, v)
    BY <1>5, <1>14 DEF CarryInv
  <2>2. m.Recv \cup m.sentIn \subseteq (recv'[s] \cup w) \cup LateViews(stateMsgs)
    BY <1>13, <1>14
  <2> QED
    BY <1>5, <1>6, <1>13, <2>1, <2>2, CoversMore
<1>15. \A m \in M : m.sentIn \subseteq w \cup LateViews(stateMsgs)
  <2>1. \A m \in M : m.sentIn \subseteq a \/ m \in Late(stateMsgs)
    BY <1>5 DEF Late
  <2> QED
    BY <1>2, <2>1 DEF LateViews, IsNewer
<1>16. CASE v = a /\ \A m \in M : m.sentIn \subseteq a
  <2>1. \A m \in stateMsgs : m.InstallSeq.AssociatedView = a /\ m.from \in {x.from : x \in M}
                               => m \in M
    BY <1>5, <1>9
  <2>2. \A p \in {x.from : x \in M} :
          \E m \in stateMsgs : m.from = p /\ m.InstallSeq.AssociatedView = a
    BY <1>5
  <2> QED
    BY <1>4, <1>13, <1>16, <2>1, <2>2 DEF Covers, w
<1>17. CASE v = a /\ ~\A m \in M : m.sentIn \subseteq a
  <2>1. PICK m \in M : IsNewer(m.sentIn, a)
    BY <1>5, <1>10, <1>17
  <2> QED
    BY <1>14, <1>15, <1>17, <2>1 DEF w
<1>18. CASE v # a
  <2>1. PICK p \in {m.from : m \in M} : p \notin Lagging(a)
    BY <1>2, <1>4, LaggardsAreFew
  <2>2. PICK m \in M : m.from = p
    BY <2>1
  <2>3. ~IsNewer(a, m.sentIn)
    BY <1>5, <2>1, <2>2 DEF Lagging
  <2>4. a \subseteq m.sentIn
    BY <1>5, <1>10, <2>3 DEF IsNewer
  <2>5. IsNewer(m.sentIn, v)
    BY <1>11, <1>18, <2>4 DEF IsNewer
  <2> QED
    BY <1>14, <1>15, <2>5 DEF w
<1> QED
  BY <1>16, <1>17, <1>18

(* ... and nobody else changes.                                            *)
LEMMA InstallCarries ==
  ASSUME Settings, Types', CarryInv, NEW s \in Process, updateCurrentView(s)
  PROVE  CarryInv'
<1> DEFINE k == installing[s]
           a == k.AssociatedView
           w == k.InstallView
<1>1. /\ k \in Seqs
      /\ currentView' = [currentView EXCEPT ![s] = w]
      /\ UNCHANGED stateMsgs
      /\ Reached' \subseteq Reached \cup {w}
  BY InstallsNewer DEF Settings, Base
<1>2. \A p \in Process : p # s => /\ currentView'[p] = currentView[p]
                                  /\ register'[p] = register[p]
                                  /\ recv'[p] = recv[p]
  BY <1>1 DEF updateCurrentView, syncState, Settings, Base, InstallInv, ViewsInv,
     Types, RegisterTypes, UpdateTypes
<1>3. currentView'[s] = w
  BY <1>1 DEF Settings, Base, InstallInv, ViewsInv
<1>4. \A u \in Reached : \/ u \subseteq a /\ IsNewer(w, u)
                         \/ IsNewer(u, a) /\ w \subseteq u /\ w \in Reached
  BY <1>1, Successor DEF Settings, Base, MoveInv
<1>5. \A m \in stateMsgs : m.sentIn \in Reached
  BY DEF Settings, LagInv, OriginInv
<1>6. \A p \in Process : currentView[p] \in Reached
  BY ReachedAreViews DEF Settings, Base
<1>7. \A v \in Reached : IsNewer(w, v) => Covers(stateMsgs, register'[s], recv'[s] \cup w, v)
  BY InstallCovers
<1> HIDE DEF k, a, w
<1>8. ASSUME NEW v \in Reached
      PROVE  /\ \A p \in Process : IsNewer(currentView'[p], v) =>
                  Covers(stateMsgs, register'[p], recv'[p] \cup currentView'[p], v)
             /\ \A m \in stateMsgs : IsNewer(m.sentIn, v) =>
                  Covers(stateMsgs, m.Timestamp, m.Recv \cup m.sentIn, v)
  <2>1. ASSUME NEW p \in Process, IsNewer(currentView'[p], v)
        PROVE  Covers(stateMsgs, register'[p], recv'[p] \cup currentView'[p], v)
    <3>1. CASE p = s
      BY <1>3, <1>7, <2>1, <3>1
    <3>2. CASE p # s
      BY <1>2, <2>1, <3>2 DEF CarryInv
    <3> QED
      BY <3>1, <3>2
  <2> QED
    BY <2>1 DEF CarryInv
<1>9. ASSUME w \notin Reached
      PROVE  /\ \A p \in Process : ~IsNewer(currentView'[p], w)
             /\ \A m \in stateMsgs : ~IsNewer(m.sentIn, w)
  <2>1. \A u \in Reached : ~IsNewer(u, w)
    BY <1>4, <1>9 DEF IsNewer
  <2>2. ~IsNewer(w, w)
    BY DEF IsNewer
  <2> QED
    BY <1>2, <1>3, <1>5, <1>6, <2>1, <2>2
<1> QED
  BY <1>1, <1>8, <1>9 DEF CarryInv

(* Who moves on has nothing to keep in the view that it installs.          *)
LEMMA InstallKeeps ==
  ASSUME Base, NEW s \in Process, updateCurrentView(s),
         NEW p, NEW v, NEW t, NEW U, Keeps(p, v, t, U)
  PROVE  Keeps(p, v, t, U)'
<1> DEFINE w == installing[s].InstallView
<1>1. /\ IsNewer(w, currentView[s])
      /\ currentView' = [currentView EXCEPT ![s] = w]
      /\ UNCHANGED stateMsgs
  BY InstallsNewer DEF Base
<1>2. v \in Reached'
  BY ReachedGrows DEF Keeps
<1>3. p \in Process
  BY MembersAreProcesses DEF Keeps
<1>4. CASE p = s
  <2>1. currentView'[s] = w
    BY <1>1 DEF Base, InstallInv, ViewsInv
  <2>2. v \subseteq currentView[s]
    BY <1>4 DEF Keeps
  <2>3. v \subseteq currentView'[s] /\ currentView'[s] # v
    BY <1>1, <2>1, <2>2 DEF IsNewer
  <2> QED
    BY <1>1, <1>2, <1>4, <2>3 DEF Keeps
<1>5. CASE p # s
  <2>1. /\ currentView'[p] = currentView[p]
        /\ register'[p] = register[p]
        /\ recv'[p] = recv[p]
    BY <1>1, <1>3, <1>5 DEF updateCurrentView, syncState, Base, InstallInv, ViewsInv,
       Types, RegisterTypes, UpdateTypes
  <2> QED
    BY <1>1, <1>2, <2>1 DEF Keeps
<1> QED
  BY <1>4, <1>5

-----------------------------------------------------------------------------
(* What is kept stays kept.                                                *)
LEMMA KeepsStay ==
  ASSUME Base, Types', [Next]_vars
  PROVE  /\ Reached \subseteq Reached'
         /\ \A p, v, U : \A t \in Nat : Keeps(p, v, t, U) => Keeps(p, v, t, U)'
<1>1. CASE Quiet
  <2>1. UNCHANGED Reached
    BY <1>1 DEF Quiet
  <2>2. ASSUME NEW p, NEW v, NEW U, NEW t \in Nat, Keeps(p, v, t, U) PROVE Keeps(p, v, t, U)'
    BY <1>1, <2>2, QuietKeeps
  <2> QED
    BY <2>1, <2>2
<1>2. ASSUME NEW s \in Process, NEW i \in Seqs, Sends(s, i)
      PROVE  /\ Reached \subseteq Reached'
             /\ \A p, v, U : \A t \in Nat : Keeps(p, v, t, U) => Keeps(p, v, t, U)'
  <2>1. UNCHANGED Reached
    BY <1>2 DEF Sends
  <2>2. ASSUME NEW p, NEW v, NEW U, NEW t \in Nat, Keeps(p, v, t, U) PROVE Keeps(p, v, t, U)'
    BY <1>2, <2>2, SendKeeps
  <2> QED
    BY <2>1, <2>2
<1>3. ASSUME NEW s \in Process, updateCurrentView(s)
      PROVE  /\ Reached \subseteq Reached'
             /\ \A p, v, U : \A t \in Nat : Keeps(p, v, t, U) => Keeps(p, v, t, U)'
  <2>1. Reached \subseteq Reached'
    BY <1>3, ReachedGrows
  <2>2. ASSUME NEW p, NEW v, NEW U, NEW t \in Nat, Keeps(p, v, t, U) PROVE Keeps(p, v, t, U)'
    BY <1>3, <2>2, InstallKeeps
  <2> QED
    BY <2>1, <2>2
<1> QED
  BY <1>1, <1>2, <1>3, StepsAreQuiet

(* A quorum is not empty.                                                  *)
LEMMA QuorumHasMember ==
  ASSUME NEW v \in View, NEW Q \in QuorumsOf(v) PROVE \E p \in Q : p \in Members(v)
BY QuorumIntersection DEF QuorumsOf

(* A server that answers a write keeps it.                                 *)
LEMMA WriteKeeps ==
  ASSUME Base, NEW s \in Process, NEW r \in requests, Write(s, r),
         NEW v, v = r.view, NEW t, t = r.Timestamp
  PROVE  Keeps(s, v, t, {})'
<1>1. /\ s \in Members(v)
      /\ pc[s] = "loop" /\ currentView[s] = v
      /\ register' = [register EXCEPT ![s] = Max2(register[s], t)]
      /\ UNCHANGED <<currentView, decided, stateMsgs>>
  BY DEF Write, HasMember, ReadsAndWrites, Serving, netVars
<1>2. v \in Reached'
  BY <1>1, ReachedKept, ReachedAreViews DEF Base
<1>3. t \in Nat /\ register[s] \in Nat
  BY ReconfigurationAssumption DEF Base, Types, ClientTypes, RegisterTypes
<1>4. t <= register'[s]
  BY <1>1, <1>3 DEF Max2, Base, Types, RegisterTypes
<1>5. \A m \in stateMsgs : m.from = s => m.InstallSeq.AssociatedView # v
  BY <1>1, LoopHasMoved DEF IsNewer
<1> QED
  BY <1>1, <1>2, <1>4, <1>5 DEF Keeps

(* A server that accepts an update keeps it.                               *)
LEMMA ReconfigKeeps ==
  ASSUME Base, NEW s \in Process, NEW m \in reconfigMsgs, Reconfig(s, m),
         NEW v, v = currentView[s]
  PROVE  Keeps(s, v, 0, {m.Update})'
<1>1. /\ s \in Members(m.AssociatedView) /\ Equal(m.AssociatedView, v)
      /\ pc[s] = "loop"
      /\ recv' = [recv EXCEPT ![s] = recv[s] \cup {m.Update}]
      /\ UNCHANGED <<currentView, decided, stateMsgs, register>>
      /\ UNCHANGED reconfigMsgs
  BY DEF Reconfig, HasMember, Serving, netVars
<1>2. m.AssociatedView = v
  BY <1>1, EqualIsEqual DEF Base, Types, UpdateTypes, InstallInv, ViewsInv
<1>3. v \in Reached'
  BY <1>1, ReachedKept, ReachedAreViews DEF Base
<1>4. 0 <= register'[s]
  BY <1>1 DEF Base, Types, RegisterTypes
<1>5. m.Update \in recv'[s]
  BY <1>1 DEF Base, Types, UpdateTypes
<1>6. \A x \in stateMsgs : x.from = s => x.InstallSeq.AssociatedView # v
  BY <1>1, LoopHasMoved DEF IsNewer
<1> QED
  BY <1>1, <1>2, <1>3, <1>4, <1>5, <1>6 DEF Keeps

(* Acknowledged writes and accepted updates in every step.                 *)
LEMMA KeepNext ==
  ASSUME Base, Types', KeepInv, Next
  PROVE  KeepInv'
<1> DEFINE Acked == \A p \in client.acks : Keeps(p, client.view, client.Timestamp, {})
           Returned == high > 0 =>
             \E v \in Reached : \E Q \in QuorumsOf(v) : \A p \in Q : Keeps(p, v, high, {})
           Accepted == \A a \in accepted : Keeps(a.process, a.view, 0, {a.update})
<1>1. /\ Reached \subseteq Reached'
      /\ \A p, v, U : \A t \in Nat : Keeps(p, v, t, U) => Keeps(p, v, t, U)'
  BY KeepsStay
<1>2. client.Timestamp \in Nat /\ high \in Nat
  BY Timestamps DEF Base
<1>3. Acked /\ Returned /\ Accepted
  BY DEF KeepInv
<1>4. PICK cv, ct, ch : cv = client.view /\ ct = client.Timestamp /\ ch = high
  OBVIOUS
<1>5. \A p \in client.acks : Keeps(p, cv, ct, {})'
  BY <1>1, <1>2, <1>3, <1>4
<1>6. ASSUME UNCHANGED high PROVE Returned'
  <2>1. ch > 0 => \E v \in Reached' : \E Q \in QuorumsOf(v) : \A p \in Q : Keeps(p, v, ch, {})'
    BY <1>1, <1>2, <1>3, <1>4
  <2>2. ch = high'
    BY <1>4, <1>6
  <2> QED
    BY <2>1, <2>2 DEF QuorumsOf, Keeps
<1>7. ASSUME NEW a \in accepted PROVE Keeps(a.process, a.view, 0, {a.update})'
  <2>1. PICK p, v, U : p = a.process /\ v = a.view /\ U = {a.update}
    OBVIOUS
  <2>2. Keeps(p, v, 0, U)
    BY <1>3, <2>1
  <2>3. Keeps(p, v, 0, U)'
    BY <1>1, <2>2
  <2> QED
    BY <2>1, <2>3
<1>8. UNCHANGED accepted => Accepted'
  BY <1>7
<1>9. UNCHANGED client => Acked'
  BY <1>4, <1>5 DEF Keeps
<1>10. ASSUME NEW s \in Process, NEW r \in requests, Write(s, r) PROVE KeepInv'
  <2>1. /\ UNCHANGED <<high, accepted>>
        /\ client' = IF r.view = client.view /\ r.Timestamp = client.Timestamp
                     THEN [client EXCEPT !.acks = client.acks \cup {s}] ELSE client
    BY <1>10 DEF Write
  <2>2. CASE r.view = client.view /\ r.Timestamp = client.Timestamp
    <3>1. Keeps(s, cv, ct, {})'
      BY <1>4, <1>10, <2>2, WriteKeeps
    <3>2. client'.view = cv /\ client'.Timestamp = ct /\ client'.acks = client.acks \cup {s}
      BY <1>4, <2>1, <2>2 DEF Base, Types, ClientTypes
    <3>3. \A p \in client'.acks : Keeps(p, cv, ct, {})'
      BY <1>5, <3>1, <3>2
    <3>4. Acked'
      BY <3>2, <3>3 DEF Keeps
    <3> QED
      BY <1>6, <1>8, <2>1, <3>4 DEF KeepInv
  <2>3. CASE ~(r.view = client.view /\ r.Timestamp = client.Timestamp)
    BY <1>6, <1>8, <1>9, <2>1, <2>3 DEF KeepInv
  <2> QED
    BY <2>2, <2>3
<1>11. ASSUME NEW s \in Process, ClientRetry(s) PROVE KeepInv'
  <2>1. /\ UNCHANGED <<high, accepted>>
        /\ client' = [client EXCEPT !.view = currentView[s], !.acks = {}]
    BY <1>11 DEF ClientRetry
  <2>2. client'.acks = {}
    BY <2>1 DEF Base, Types, ClientTypes
  <2>3. Acked'
    BY <2>2
  <2> QED
    BY <1>6, <1>8, <2>1, <2>3 DEF KeepInv
<1>12. CASE ClientReturn
  <2>1. /\ Cardinality(client.acks) >= QuorumSize(client.view)
        /\ high' = client.Timestamp
        /\ client' = [client EXCEPT !.Timestamp = client.Timestamp + 1, !.acks = {}]
        /\ UNCHANGED accepted
    BY <1>12 DEF ClientReturn
  <2>2. client'.acks = {}
    BY <2>1 DEF Base, Types, ClientTypes
  <2>3. Acked'
    BY <2>2
  <2>4. cv \in View
    BY <1>4 DEF Base, Types, ClientTypes
  <2>5. client.acks \in QuorumsOf(cv)
    <3>1. \A p \in client.acks : p \in Members(cv)
      BY <1>3, <1>4 DEF Keeps
    <3> QED
      BY <1>4, <2>1, <3>1 DEF QuorumsOf
  <2>6. cv \in Reached'
    <3>1. \E p \in client.acks : TRUE
      BY <2>4, <2>5, QuorumHasMember
    <3> QED
      BY <1>5, <3>1 DEF Keeps
  <2>7. \E v \in Reached' : \E Q \in QuorumsOf(v) : \A p \in Q : Keeps(p, v, ct, {})'
    BY <1>5, <2>5, <2>6
  <2>8. Returned'
    BY <1>4, <2>1, <2>7 DEF QuorumsOf, Keeps
  <2> QED
    BY <1>8, <2>1, <2>3, <2>8 DEF KeepInv
<1>13. ASSUME NEW s \in Process, NEW m \in reconfigMsgs, Reconfig(s, m) PROVE KeepInv'
  <2>1. PICK v : v = currentView[s]
    OBVIOUS
  <2>2. /\ accepted' = accepted \cup {[process |-> s, view |-> v, update |-> m.Update]}
        /\ UNCHANGED <<client, high>>
    BY <1>13, <2>1 DEF Reconfig, clientVars
  <2>3. Keeps(s, v, 0, {m.Update})'
    BY <1>13, <2>1, ReconfigKeeps
  <2>4. ASSUME NEW a \in accepted' PROVE Keeps(a.process, a.view, 0, {a.update})'
    <3>1. CASE a \in accepted
      BY <1>7, <3>1
    <3>2. CASE a = [process |-> s, view |-> v, update |-> m.Update]
      <4>1. a.process = s /\ a.view = v /\ a.update = m.Update
        BY <3>2
      <4> QED
        BY <2>3, <4>1
    <3> QED
      BY <2>2, <3>1, <3>2
  <2>5. Accepted'
    BY <2>4
  <2> QED
    BY <1>6, <1>9, <2>2, <2>5 DEF KeepInv
<1>14. ASSUME UNCHANGED <<client, high, accepted>> PROVE KeepInv'
  BY <1>6, <1>8, <1>9, <1>14 DEF KeepInv
<1>15. ASSUME NEW s \in Process,
              \/ \E m \in installMsgs : \/ NoQuorumYet(s, m)
                                        \/ gotOldInstallView(s, m)
                                        \/ gotLockedMutex(s, m)
                                        \/ gotInstallSeqQuorum(s, m)
              \/ \E m \in stateMsgs : StateUpdate(s, m)
              \/ updateCurrentView(s)
       PROVE  UNCHANGED <<client, high, accepted>>
  BY <1>15 DEF NoQuorumYet, gotOldInstallView, gotLockedMutex, gotInstallSeqQuorum,
     StateUpdate, updateCurrentView, clientVars
<1>16. ASSUME \/ \E u \in asked : Ask(u)
              \/ \E s \in Process :
                   \/ \E d \in decided : generatedViewSeq(s, d)
                   \/ ViewInstalled(s)
                   \/ Crash(s)
                   \/ \E r \in requests : WriteWaits(s, r)
              \/ \E v \in Views : Decide(v)
       PROVE  UNCHANGED <<client, high, accepted>>
  BY <1>16 DEF Ask, generatedViewSeq, ViewInstalled,
     Crash, WriteWaits, Decide, clientVars
<1>17. ASSUME Proposes PROVE UNCHANGED <<client, high, accepted>>
  BY <1>17, ProposingIsQuiet DEF serverVars
<1> QED
  BY <1>17, <1>10, <1>11, <1>12, <1>13, <1>14, <1>15, <1>16 DEF Next, Proposes

(* At the beginning nobody has moved, and what was accepted is in recv.    *)
LEMMA StateInit ==
  ASSUME Init PROVE StateInv
<1>1. PICK b \in Start :
        /\ currentView = [s \in Process |-> b.view]
        /\ recv = b.recv
        /\ decided = {[view |-> b.view, seq |-> seq] : seq \in b.generated}
        /\ accepted = UNION {{[process |-> s, view |-> b.view, update |-> u] :
                                u \in b.recv[s]} : s \in Process}
        /\ client = [view |-> b.view, acks |-> {},
                     Timestamp |-> IF b.writes THEN 1 ELSE MaxWrites + 1]
  BY DEF Init
<1>2. /\ pc = [s \in Process |-> "loop"]
      /\ register = [s \in Process |-> 0]
      /\ stateMsgs = {}
      /\ high = 0
  BY DEF Init
<1>3. Reached \subseteq {b.view}
  BY <1>1 DEF Reached, Views, Seqs, InstallOf
<1>4. CarryInv
  BY <1>1, <1>2, <1>3 DEF CarryInv, IsNewer
<1>5. client.acks = {}
  BY <1>1
<1>6. ASSUME NEW a \in accepted PROVE Keeps(a.process, a.view, 0, {a.update})
  <2>1. PICK s \in Process : \E u \in b.recv[s] :
          a = [process |-> s, view |-> b.view, update |-> u]
    BY <1>1
  <2>2. a.process = s /\ a.view = b.view /\ a.update \in recv[s]
    BY <1>1, <2>1
  <2>3. s \in Members(b.view)
    BY <1>1, <2>2, ReconfigurationAssumption
  <2>4. b.view \in Reached /\ currentView[s] = b.view /\ register[s] = 0
    BY <1>1, <1>2 DEF Reached, Views
  <2> QED
    BY <1>2, <2>2, <2>3, <2>4 DEF Keeps
<1>7. KeepInv
  BY <1>2, <1>5, <1>6 DEF KeepInv
<1> QED
  BY <1>4, <1>7 DEF StateInv

(* StateInv in every state, as long as views shrink slowly.                *)
LEMMA StateInvariance ==
  Spec /\ []GeneratorsAgree /\ []ShrinksSlowly => [](StateInv /\ Settings)
<1>1. Init => StateInv
  BY StateInit
<1>2. ASSUME StateInv, Settings, Types', [Next]_vars
      PROVE  StateInv'
  <2>1. CarryInv'
    <3>1. CASE Quiet
      BY <1>2, <3>1, QuietCarries DEF StateInv, Settings
    <3>2. ASSUME NEW s \in Process, NEW i \in Seqs, Sends(s, i) PROVE CarryInv'
      BY <1>2, <3>2, SendCarries DEF StateInv, Settings
    <3>3. ASSUME NEW s \in Process, updateCurrentView(s) PROVE CarryInv'
      BY <1>2, <3>3, InstallCarries DEF StateInv
    <3> QED
      BY <1>2, <3>1, <3>2, <3>3, StepsAreQuiet DEF Settings, Base
  <2>2. KeepInv'
    <3>1. CASE Next
      BY <1>2, <3>1, KeepNext DEF StateInv, Settings
    <3>2. CASE UNCHANGED vars
      <4>1. UNCHANGED <<currentView, register, recv, stateMsgs, client, high, accepted, Reached>>
        BY <3>2, ReachedKept DEF vars, serverVars, netVars, clientVars
      <4> QED
        BY <1>2, <4>1 DEF StateInv, KeepInv, Keeps
    <3> QED
      BY <1>2, <3>1, <3>2
  <2> QED
    BY <2>1, <2>2 DEF StateInv
<1>3. StateInv /\ Settings /\ Types' /\ [Next]_vars => StateInv'
  BY <1>2
<1>4. LagInv /\ Base /\ ShrinksSlowly => Settings
  BY DEF Settings
<1>5. Settings => Types
  BY DEF Settings, Base
<1> QED
  BY <1>1, <1>3, <1>4, <1>5, LagInvariance, PTL DEF Spec

(* No reconfiguration loses a write that returned, in clusters of any      *)
(* size, with any number of reconfigurations at a time: wherever a quorum  *)
(* answers reads, one of it knows the value.  The condition on the size of *)
(* views is needed, since gotInstallSeqQuorum lets servers that have not   *)
(* installed the associated view send a state for it: where they are a     *)
(* quorum of it, a write can be lost.                                      *)
THEOREM NoWriteIsLost ==
  Spec /\ []GeneratorsAgree /\ []ShrinksSlowly => []NoLostWrite
<1>1. ASSUME StateInv, Settings PROVE NoLostWrite
  <2> SUFFICES ASSUME NEW v \in Views, NEW Q \in QuorumsOf(v), Serves(Q, v)
               PROVE  \E s \in Q : register[s] >= high
    BY DEF NoLostWrite
  <2>1. v \in Reached /\ v \in View
    BY <1>1, ReachedAreViews DEF Settings, Base, Reached
  <2>2. \A s \in Q : s \in Process /\ currentView[s] = v /\ register[s] \in Nat
    BY <1>1, MembersAreProcesses, Timestamps DEF Settings, Base, QuorumsOf, Serves, ReadsAndWrites
  <2>3. high \in Nat /\ \A m \in stateMsgs : m.Timestamp \in Nat
    BY <1>1, Timestamps DEF Settings, Base
  <2>4. CASE high = 0
    <3>1. \E s \in Q : s \in Members(v)
      BY <2>1, QuorumHasMember
    <3> QED
      BY <2>2, <2>4, <3>1
  <2>5. CASE high # 0
    <3>1. PICK u \in Reached : \E R \in QuorumsOf(u) : \A p \in R : Keeps(p, u, high, {})
      BY <1>1, <2>3, <2>5 DEF StateInv, KeepInv
    <3>2. PICK R \in QuorumsOf(u) : \A p \in R : Keeps(p, u, high, {})
      BY <3>1
    <3>3. u \in View
      BY <1>1, ReachedAreViews DEF Settings, Base
    (* The view in which the write returned. *)
    <3>4. CASE v = u
      <4>1. PICK s \in Q : s \in R
        BY <2>1, <3>4, QuorumIntersection DEF QuorumsOf
      <4>2. high <= register[s]
        BY <2>2, <3>2, <3>4, <4>1 DEF Keeps
      <4> QED
        BY <2>2, <2>3, <4>2
    (* A later view: the states of a quorum are covered by every server. *)
    <3>5. CASE IsNewer(v, u)
      <4>1. PICK s \in Q : s \in Members(v)
        BY <2>1, QuorumHasMember
      <4>2. Covers(stateMsgs, register[s], recv[s] \cup v, u)
        BY <1>1, <2>2, <3>5 DEF StateInv, CarryInv
      <4>3. PICK S \in QuorumsOf(u) :
              /\ \A p \in S : \E m \in stateMsgs : m.from = p /\ m.InstallSeq.AssociatedView = u
              /\ \A m \in stateMsgs : m.InstallSeq.AssociatedView = u /\ m.from \in S
                                        => m.sentIn \subseteq u /\ m.Timestamp <= register[s]
        BY <4>2 DEF Covers
      <4>4. PICK p \in S : p \in R
        BY <3>3, QuorumIntersection DEF QuorumsOf
      <4>5. PICK m \in stateMsgs : m.from = p /\ m.InstallSeq.AssociatedView = u
        BY <4>3
      <4>6. high <= m.Timestamp /\ m.Timestamp <= register[s]
        BY <3>2, <4>3, <4>4, <4>5 DEF Keeps
      <4> QED
        BY <2>2, <2>3, <4>6
    (* An earlier view, in which nobody answers any more. *)
    <3>6. CASE IsNewer(u, v)
      BY <1>1, <2>1, <3>6, PassedViewIsSilent DEF Settings, Base
    <3>7. v = u \/ IsNewer(v, u) \/ IsNewer(u, v)
      BY <1>1, <2>1 DEF Settings, Base, MoveInv, ChainInv, IsNewer
    <3> QED
      BY <3>4, <3>5, <3>6, <3>7
  <2> QED
    BY <2>4, <2>5
<1>2. StateInv /\ Settings => NoLostWrite
  BY <1>1
<1> QED
  BY <1>2, StateInvariance, PTL

(* Update a has been accepted by a quorum of the view in which it was      *)
(* asked for.                                                              *)
AcceptedByQuorum(a) ==
  {b.process : b \in {b \in accepted : b.view = a.view /\ b.update = a.update}}
    \in QuorumsOf(a.view)

(* It is known in every later view, or has got into the view of a server   *)
(* that was late.                                                          *)
LEMMA AcceptedIsCovered ==
  ASSUME StateInv, Settings, NEW a \in accepted, AcceptedByQuorum(a),
         NEW s \in Process, MoreUpdatedThan(currentView[s], a.view)
  PROVE  a.update \in (recv[s] \cup currentView[s]) \cup LateViews(stateMsgs)
<1> DEFINE B == {b \in accepted : b.view = a.view /\ b.update = a.update}
           v == a.view
           R == {b.process : b \in B}
<1>1. \A b \in B : Keeps(b.process, v, 0, {a.update})
  BY DEF StateInv, KeepInv
<1>2. a \in B /\ R \in QuorumsOf(v)
  BY DEF AcceptedByQuorum
<1> HIDE DEF B, v, R
<1>3. v \in Reached /\ v \in View
  BY <1>1, <1>2, ReachedAreViews DEF Settings, Base, Keeps
<1>4. IsNewer(currentView[s], v)
  BY <1>3, MoreUpdatedIsSuperset DEF Settings, Base, InstallInv, ViewsInv, IsNewer, v
<1>5. Covers(stateMsgs, register[s], recv[s] \cup currentView[s], v)
  BY <1>3, <1>4 DEF StateInv, CarryInv
<1>6. PICK S \in QuorumsOf(v) :
        /\ \A p \in S : \E m \in stateMsgs : m.from = p /\ m.InstallSeq.AssociatedView = v
        /\ \A m \in stateMsgs : m.InstallSeq.AssociatedView = v /\ m.from \in S
             => /\ m.sentIn \subseteq v
                /\ m.Recv \subseteq (recv[s] \cup currentView[s]) \cup LateViews(stateMsgs)
  BY <1>5 DEF Covers
<1>7. PICK p \in S : p \in R
  BY <1>2, <1>3, QuorumIntersection DEF QuorumsOf
<1>8. PICK m \in stateMsgs : m.from = p /\ m.InstallSeq.AssociatedView = v
  BY <1>6
<1>9. Keeps(p, v, 0, {a.update})
  BY <1>1, <1>7 DEF R
<1>10. a.update \in m.Recv
  BY <1>6, <1>7, <1>8, <1>9 DEF Keeps
<1> QED
  BY <1>6, <1>7, <1>8, <1>10

(* A request to join or leave that a quorum accepted is in every later     *)
(* view, or in the recv of those that are there: the states of a quorum    *)
(* always hold it.  A server that sends its state for a view which it has  *)
(* passed could spoil that, as its recv lacks the updates of its view.     *)
THEOREM AcceptedUpdatesAreCarried ==
  Spec /\ []GeneratorsAgree /\ []ShrinksSlowly /\ []NobodyIsLate => []AcceptedUpdatesSurvive
<1>1. ASSUME StateInv, Settings, NobodyIsLate PROVE AcceptedUpdatesSurvive
  <2>1. LateViews(stateMsgs) = {}
    BY <1>1 DEF NobodyIsLate, LateViews
  <2>2. ASSUME NEW a \in accepted, AcceptedByQuorum(a),
               NEW s \in Process, MoreUpdatedThan(currentView[s], a.view)
        PROVE  a.update \in currentView[s] \cup recv[s]
    BY <1>1, <2>1, <2>2, AcceptedIsCovered
  <2> QED
    BY <2>2 DEF AcceptedUpdatesSurvive, AcceptedByQuorum
<1>2. StateInv /\ Settings /\ NobodyIsLate => AcceptedUpdatesSurvive
  BY <1>1
<1> QED
  BY <1>2, StateInvariance, PTL

(* What a quorum accepted is still known to whoever is in a later view, or *)
(* is in the view of somebody.                                             *)
Remembered ==
  \A a \in accepted : AcceptedByQuorum(a) =>
    \A s \in Process : MoreUpdatedThan(currentView[s], a.view) =>
      a.update \in recv[s] \cup UNION Views

(* With servers that are late, no request that a quorum accepted is        *)
(* forgotten either: who lacks it got the state of a server that was late, *)
(* and that server has the update in its view.                             *)
THEOREM NoUpdateIsForgotten ==
  Spec /\ []GeneratorsAgree /\ []ShrinksSlowly => []Remembered
<1>1. ASSUME StateInv, Settings PROVE Remembered
  <2>1. ASSUME NEW m \in stateMsgs PROVE m.sentIn \subseteq UNION Views
    <3>1. m.from \in Process
      BY <1>1, MembersAreProcesses DEF Settings, Base, MoveInv, SenderInv
    <3>2. m.sentIn \subseteq currentView[m.from]
      BY <1>1 DEF Settings, LagInv, OriginInv
    <3> QED
      BY <3>1, <3>2 DEF Views
  <2>2. LateViews(stateMsgs) \subseteq UNION Views
    BY <2>1 DEF LateViews, Late
  <2>3. \A s \in Process : currentView[s] \subseteq UNION Views
    BY DEF Views
  <2> QED
    BY <1>1, <2>2, <2>3, AcceptedIsCovered DEF Remembered
<1>2. StateInv /\ Settings => Remembered
  BY <1>1
<1> QED
  BY <1>2, StateInvariance, PTL

-----------------------------------------------------------------------------
(***************************************************************************)
(* When the generators agree                                               *)
(***************************************************************************)
(* Every member of the current view v has accepted the same updates r, and *)
(* nobody is going to ask for more.  The generators have made nothing yet, *)
(* or the view that results.                                               *)
AgreedOn(v, r) ==
  /\ r # {}
  /\ asked = {}
  /\ \A s \in Process : currentView[s] = v
  /\ \A s \in Members(v) : recv[s] = r
  /\ decided \subseteq {[view |-> v, seq |-> <<v \cup r>>]}

AgreedChange == \E v \in View : \E r \in SUBSET (Update \ v) : AgreedOn(v, r)

(* The same, and the new view is not too small to inherit the state.       *)
SlowChange ==
  \E v \in View : \E r \in SUBSET (Update \ v) :
    /\ AgreedOn(v, r)
    /\ \/ NumberOfMembers(v \cup r) <= 2
       \/ QuorumSize(v \cup r) > NumberOfToleratedFaults(v)

(* The same, and nobody joins.                                             *)
AgreedLeave ==
  \E v \in View : \E r \in SUBSET (Update \ v) :
    AgreedOn(v, r) /\ Members(v \cup r) \subseteq Members(v)

(* From then on one view is proposed, for the old view and, by timers that *)
(* fire while it is installed, for itself.  A server is in the old view    *)
(* with r or in the new one with nothing left to do.                       *)
ProposedFor(w, v, r) == w = v \/ (w = v \cup r /\ SlowTimers # {})

ChangeInv(v, r) ==
  /\ asked = {} /\ reconfigMsgs = {} /\ starting = {}
  /\ \A p \in proposed : ProposedFor(p.view, v, r) /\ p.seq = <<v \cup r>>
  /\ \A d \in decided : /\ ProposedFor(d.view, v, r) /\ d.seq = <<v \cup r>>
                         /\ d = [view |-> d.view, seq |-> d.seq]
  /\ \A s \in Process :
       \/ currentView[s] = v /\ recv[s] = IF s \in Members(v) THEN r ELSE {}
       \/ currentView[s] = v \cup r /\ recv[s] = {}
  /\ \A s \in Process : timer[s] => s \in SlowTimers \cap Members(v)
  /\ \A m \in stateMsgs : m.Recv \subseteq r
  /\ \A a \in accepted : a.view = v /\ a.update \in r

(* The timers cannot do more when none is slow or when nobody joins: who   *)
(* joins has nothing in recv and would propose the old view for the new    *)
(* one.                                                                    *)
Calm(v, r) == SlowTimers = {} \/ Members(v \cup r) \subseteq Members(v)

(* Only who has yet to join holds the register while it serves, so nobody  *)
(* waits for it, and who waits for states has locked it.                   *)
FreeInv(v) ==
  \A s \in Process :
    /\ ~reading[s] /\ pc[s] # "stuck"
    /\ pc[s] = "loop" => /\ disabled[s] => s \notin Members(v)
                         /\ s \notin Members(v) => disabled[s] \/ currentView[s] # v
                         /\ disabled[s] => currentView[s] = v
                         /\ ~lockOnceDone[s]
    /\ pc[s] = "sync" => /\ disabled[s]
                         /\ lockOnceDone[s] => HasMember(installing[s].AssociatedView, s)

(* A sequence of one view.                                                 *)
LEMMA OneViewSequence ==
  ASSUME NEW x \in View
  PROVE  /\ GetLeastUpdatedView(<<x>>) = x
         /\ \A c : Merge(<<x>>, <<x>>, c) = <<x>>
         /\ ~HasViewMoreUpdatedThan(<<x>>, x)
         /\ SeqEqual(<<x>>, <<x>>)
<1>1. <<x>> \in Seq(View) /\ <<x>> # <<>> /\ DOMAIN <<x>> = {1} /\ <<x>>[1] = x /\ Len(<<x>>) = 1
  OBVIOUS
<1>2. PICK q \in Seq(View) : q = <<x>>
  BY <1>1
<1>3. q # <<>> /\ DOMAIN q = {1} /\ q[1] = x /\ Len(q) = 1
  BY <1>1, <1>2
<1>4. GetLeastUpdatedView(q) = x
  BY <1>3, LeastIsLeast
<1>5. ~MoreUpdatedThan(x, x) /\ ~Conflict(x, x)
  BY MoreUpdatedIsSuperset, LessUpdatedIsNotSuperset DEF Conflict
<1>6. HasView(q, x)
  BY <1>3, HasViewIsIn
<1>7. AppendViews(q, q) = q
  <2> DEFINE a == AppendViews(q, q)
  <2>1. /\ a \in Seq(View)
        /\ Len(a) >= Len(q) /\ \A k \in 1..Len(q) : a[k] = q[k]
        /\ \A k \in 1..Len(a) : k > Len(q) =>
             \E j \in 1..Len(q) : a[k] = q[j] /\ ~HasView(q, q[j])
    BY AppendAdds
  <2> HIDE DEF a
  <2>2. ASSUME Len(a) > 1 PROVE FALSE
    <3>1. 2 \in 1..Len(a) /\ 2 > Len(q)
      BY <1>3, <2>1, <2>2
    <3>2. PICK j \in 1..Len(q) : ~HasView(q, q[j])
      BY <2>1, <3>1
    <3> QED
      BY <1>3, <1>6, <3>2
  <2>3. Len(a) = 1 /\ a[1] = x
    BY <1>3, <2>1, <2>2
  <2>4. a = q
    BY <1>3, <2>1, <2>3
  <2> QED
    BY <2>4 DEF a
<1>8. \A c : Merge(q, q, c) = q
  BY <1>3, <1>5, <1>7 DEF Merge
<1>9. ~HasViewMoreUpdatedThan(q, x)
  BY <1>3, <1>5 DEF HasViewMoreUpdatedThan
<1>10. SeqEqual(q, q)
  BY <1>3, <1>6 DEF SeqEqual
<1> QED
  BY <1>2, <1>4, <1>8, <1>9, <1>10

(* The one view to install.                                                *)
LEMMA OneInstallSeq ==
  ASSUME NEW v \in View, NEW r \in SUBSET (Update \ v), ChangeInv(v, r), NEW i \in Seqs
  PROVE  /\ ProposedFor(i.AssociatedView, v, r)
         /\ i.InstallView = v \cup r
         /\ i.ViewSeq = <<v \cup r>>
         /\ ~HasViewMoreUpdatedThan(i.ViewSeq, v \cup r)
<1>1. v \cup r \in View
  BY DEF View
<1>2. PICK d \in decided : i = InstallOf(d)
  BY DEF Seqs
<1>3. ProposedFor(d.view, v, r) /\ d.seq = <<v \cup r>>
  BY <1>2 DEF ChangeInv
<1> QED
  BY <1>1, <1>2, <1>3, OneViewSequence DEF InstallOf

(* The view that everybody proposes who is a member or has moved on.       *)
LEMMA OneProposal ==
  ASSUME NEW v \in View, NEW r \in SUBSET (Update \ v), ChangeInv(v, r),
         NEW s \in Process, s \in Members(v) \/ currentView[s] = v \cup r
  PROVE  getInitialViewSeq(s) = <<v \cup r>>
<1>1. \/ currentView[s] = v /\ recv[s] = r
      \/ currentView[s] = v \cup r /\ recv[s] \subseteq r
  BY DEF ChangeInv
<1>2. NewCopyWithUpdates(currentView[s], recv[s]) = v \cup r
  BY <1>1 DEF NewCopyWithUpdates, NewWithUpdates
<1> QED
  BY <1>2 DEF getInitialViewSeq

(* Steps preserve ChangeInv.                                               *)
LEMMA ChangeNext ==
  ASSUME NEW v \in View, NEW r \in SUBSET (Update \ v), r # {}, Calm(v, r),
         ChangeInv(v, r), InstallInv, Types, [Next]_vars
  PROVE  ChangeInv(v, r)'
<1> DEFINE x == v \cup r
<1>1. x \in View /\ MoreUpdatedThan(x, v)
  <2>1. x \in View /\ v \subseteq x /\ x # v
    BY DEF View
  <2> QED
    BY <2>1, MoreUpdatedIsSuperset
<1>2. ASSUME UNCHANGED <<asked, reconfigMsgs, starting, proposed, decided, currentView, recv,
                         timer, stateMsgs, accepted>>
      PROVE  ChangeInv(v, r)'
  BY <1>2 DEF ChangeInv, ProposedFor
<1>3. ASSUME NEW s \in Process, NEW w, ProposedFor(w, v, r), Propose(s, w, <<x>>),
             timer' = timer \/ timer' = [timer EXCEPT ![s] = FALSE],
             UNCHANGED <<asked, reconfigMsgs, starting, decided, currentView, recv, stateMsgs,
                         accepted>>
      PROVE  ChangeInv(v, r)'
  <2>1. \A p \in proposed' : ProposedFor(p.view, v, r) /\ p.seq = <<x>>
    BY <1>3 DEF ChangeInv, Propose
  <2>2. \A p \in Process : timer'[p] => timer[p]
    BY <1>3 DEF Types, FlagTypes
  <2> QED
    BY <1>3, <2>1, <2>2 DEF ChangeInv, ProposedFor
<1>4. ASSUME NEW s \in Process, startReconfiguration(s) PROVE ChangeInv(v, r)'
  <2>1. /\ recv[s] # {} \/ timer[s]
        /\ Propose(s, currentView[s], getInitialViewSeq(s))
        /\ timer' = [timer EXCEPT ![s] = FALSE]
        /\ UNCHANGED <<asked, reconfigMsgs, starting, decided, currentView, recv, stateMsgs,
                       accepted>>
    BY <1>4 DEF startReconfiguration, serverVars
  <2>2. s \in Members(v) /\ ProposedFor(currentView[s], v, r)
    BY <2>1 DEF ChangeInv, ProposedFor
  <2>3. getInitialViewSeq(s) = <<x>>
    BY <2>2, OneProposal
  <2> QED
    BY <1>3, <2>1, <2>2, <2>3
<1>5. ASSUME NEW s \in Process, NEW p \in proposed, createForMessage(s, p.view)
      PROVE  ChangeInv(v, r)'
  <2>1. /\ HasMember(p.view, s)
        /\ Propose(s, p.view, getInitialViewSeq(s))
        /\ UNCHANGED <<asked, reconfigMsgs, starting, decided, currentView, recv, timer,
                       stateMsgs, accepted>>
    BY <1>5 DEF createForMessage, serverVars, callVars
  <2>2. ProposedFor(p.view, v, r)
    BY DEF ChangeInv
  <2>3. s \in Members(v)
    BY <2>1, <2>2 DEF ProposedFor, Calm, HasMember
  <2>4. getInitialViewSeq(s) = <<x>>
    BY <2>3, OneProposal
  <2> QED
    BY <1>3, <2>1, <2>2, <2>4
<1>6. ASSUME NEW w \in Views, Decide(w) PROVE ChangeInv(v, r)'
  <2>1. PICK seq \in Generated(w) : decided' = decided \cup {[view |-> w, seq |-> seq]}
    BY <1>6 DEF Decide
  <2>2. PICK p \in proposed, q \in proposed :
          p.view = w /\ \E c : seq = Merge(p.seq, q.seq, c)
    BY <2>1, GeneratedIsMerge
  <2>3. ProposedFor(w, v, r) /\ p.seq = <<x>> /\ q.seq = <<x>>
    BY <2>2 DEF ChangeInv
  <2>4. seq = <<x>>
    BY <1>1, <2>2, <2>3, OneViewSequence
  <2>5. \A d \in decided' : /\ ProposedFor(d.view, v, r) /\ d.seq = <<x>>
                           /\ d = [view |-> d.view, seq |-> d.seq]
    BY <2>1, <2>3, <2>4 DEF ChangeInv
  <2>6. UNCHANGED <<asked, reconfigMsgs, starting, proposed, currentView, recv, timer,
                    stateMsgs, accepted>>
    BY <1>6 DEF Decide, serverVars, callVars
  <2> QED
    BY <2>5, <2>6 DEF ChangeInv, ProposedFor
(* What is sent, by members or not, is no more than r. *)
<1>7. ASSUME NEW s \in Process, NEW i, SendState(s, i) PROVE \A m \in stateMsgs' : m.Recv \subseteq r
  <2>1. recv[s] \subseteq r
    BY DEF ChangeInv
  <2>2. \A m \in stateMsgs' : m \in stateMsgs \/ m.Recv = recv[s]
    BY <1>7 DEF SendState
  <2> QED
    BY <2>1, <2>2 DEF ChangeInv
<1>8. ASSUME NEW s \in Process, NEW m \in installMsgs, gotOldInstallView(s, m)
      PROVE  ChangeInv(v, r)'
  <2>1. /\ ~NewerThanCurrent(s, m.InstallSeq)
        /\ SendState(s, m.InstallSeq)
        /\ InstallOthers(s, currentView[s], m.InstallSeq)
        /\ UNCHANGED <<asked, reconfigMsgs, proposed, decided, currentView, recv, timer,
                       accepted>>
    BY <1>8 DEF gotOldInstallView
  <2>2. m.InstallSeq \in Seqs
    BY DEF InstallInv, ViewsInv
  <2>3. m.InstallSeq.InstallView = x /\ ~HasViewMoreUpdatedThan(m.InstallSeq.ViewSeq, x)
    BY <2>2, OneInstallSeq
  <2>4. currentView[s] = x
    BY <1>1, <2>1, <2>3 DEF ChangeInv, NewerThanCurrent
  <2>5. UNCHANGED starting
    BY <2>1, <2>3, <2>4 DEF InstallOthers
  <2> QED
    BY <1>7, <2>1, <2>5 DEF ChangeInv, ProposedFor
<1>9. ASSUME NEW s \in Process, NEW m \in installMsgs, gotInstallSeqQuorum(s, m)
      PROVE  ChangeInv(v, r)'
  <2>1. /\ SendState(s, m.InstallSeq)
        /\ UNCHANGED <<asked, reconfigMsgs, starting, proposed, decided, currentView, recv,
                       timer, accepted>>
    BY <1>9 DEF gotInstallSeqQuorum, callVars
  <2> QED
    BY <1>7, <2>1 DEF ChangeInv, ProposedFor
<1>10. ASSUME NEW s \in Process, updateCurrentView(s) PROVE ChangeInv(v, r)'
  <2> DEFINE i == installing[s]
  <2>1. /\ pc[s] = "sync"
        /\ syncState(s, StatesFor(s, i.AssociatedView), i.InstallView)
        /\ currentView' = [currentView EXCEPT ![s] = i.InstallView]
        /\ InstallOthers(s, i.InstallView, i)
        /\ UNCHANGED <<asked, reconfigMsgs, proposed, decided, timer, stateMsgs, accepted>>
    BY <1>10 DEF updateCurrentView
  <2>2. i.InstallView = x /\ ~HasViewMoreUpdatedThan(i.ViewSeq, x)
    BY <2>1, OneInstallSeq DEF InstallInv, PhaseInv
  <2>3. UNCHANGED starting
    BY <2>1, <2>2 DEF InstallOthers
  <2>4. recv[s] \subseteq r /\ \A m \in StatesFor(s, i.AssociatedView) : m.Recv \subseteq r
    BY DEF ChangeInv, StatesFor, Types, UpdateTypes
  <2>5. \A p \in Process : recv'[p] = IF p = s THEN {} ELSE recv[p]
    BY <2>1, <2>2, <2>4 DEF syncState, Types, UpdateTypes
  <2>6. \A p \in Process : currentView'[p] = IF p = s THEN x ELSE currentView[p]
    BY <2>1, <2>2 DEF InstallInv, ViewsInv
  <2> QED
    BY <2>1, <2>3, <2>5, <2>6 DEF ChangeInv, ProposedFor
<1>11. ASSUME NEW s \in Process, hasUpdatesToCurrentView(s) PROVE ChangeInv(v, r)'
  <2>1. /\ s \in SlowTimers /\ recv[s] # {}
        /\ timer' = [timer EXCEPT ![s] = TRUE]
        /\ UNCHANGED <<asked, reconfigMsgs, starting, proposed, decided, currentView, recv,
                       stateMsgs, accepted>>
    BY <1>11 DEF hasUpdatesToCurrentView, serverVars, netVars
  <2>2. s \in Members(v)
    BY <2>1 DEF ChangeInv
  <2>3. \A p \in Process : timer'[p] => timer[p] \/ p = s
    BY <2>1 DEF Types, FlagTypes
  <2> QED
    BY <2>1, <2>2, <2>3 DEF ChangeInv, ProposedFor
<1>12. ASSUME NEW s \in Process, ClientRetry(s)
       PROVE  UNCHANGED <<asked, reconfigMsgs, starting, proposed, decided, currentView, recv,
                          timer, stateMsgs, accepted>>
  BY <1>12 DEF ClientRetry, serverVars, callVars, netVars
<1>13. ASSUME \/ \E s \in Process :
                   \/ \E d \in decided : generatedViewSeq(s, d)
                   \/ \E m \in installMsgs : NoQuorumYet(s, m) \/ gotLockedMutex(s, m)
                   \/ \E m \in stateMsgs : StateUpdate(s, m)
                   \/ ViewInstalled(s)
                   \/ Crash(s)
                   \/ \E q \in requests : Write(s, q) \/ WriteWaits(s, q)
              \/ ClientReturn
              \/ UNCHANGED vars
       PROVE  UNCHANGED <<asked, reconfigMsgs, starting, proposed, decided, currentView, recv,
                          timer, stateMsgs, accepted>>
  BY <1>13 DEF generatedViewSeq, NoQuorumYet, gotLockedMutex, StateUpdate, ViewInstalled,
     Crash, Write, WriteWaits, ClientReturn, serverVars, callVars, netVars, clientVars, vars
<1>14. asked = {} /\ reconfigMsgs = {} /\ starting = {}
  BY DEF ChangeInv
<1> QED
  BY <1>2, <1>4, <1>5, <1>6, <1>8, <1>9, <1>10, <1>11, <1>12, <1>13, <1>14 DEF Next

(* Nobody waits for the register, or with it in hand.                      *)
LEMMA FreeNext ==
  ASSUME NEW v \in View, NEW r \in SUBSET (Update \ v), r # {}, Calm(v, r),
         ChangeInv(v, r), FreeInv(v), InstallInv, Types, [Next]_vars
  PROVE  FreeInv(v)'
<1> DEFINE x == v \cup r
<1>1. x # v /\ x \in View /\ ~MoreUpdatedThan(x, x)
  <2>1. x # v /\ x \in View
    BY DEF View
  <2> QED
    BY <2>1, MoreUpdatedIsSuperset
<1>2. ASSUME UNCHANGED <<reading, disabled, lockOnceDone, currentView, installing>>,
             \A p \in Process : \/ pc'[p] = pc[p]
                                \/ pc'[p] \in {"left", "down"}
      PROVE  FreeInv(v)'
  BY <1>2 DEF FreeInv
(* A member that still serves in v has not locked its register. *)
<1>3. ASSUME NEW s \in Process, NEW m \in installMsgs, TakeInstallSeq(s, m)
      PROVE  ~StaysLocked(s, m.InstallSeq)
  <2>1. ProposedFor(m.InstallSeq.AssociatedView, v, r)
    BY OneInstallSeq DEF InstallInv, ViewsInv
  <2>2. pc[s] = "loop" /\ ~reading[s] /\ (disabled[s] => s \notin Members(v))
    BY <1>3 DEF TakeInstallSeq, FreeInv
  <2>3. HasMember(m.InstallSeq.AssociatedView, s) => s \in Members(v)
    BY <2>1 DEF ProposedFor, Calm, HasMember
  <2> QED
    BY <2>2, <2>3 DEF StaysLocked, WantsLock
<1>4. ASSUME NEW s \in Process, NEW m \in installMsgs, gotLockedMutex(s, m) PROVE FALSE
  BY <1>3, <1>4 DEF gotLockedMutex
<1>5. ASSUME NEW s \in Process, NEW m \in installMsgs, gotInstallSeqQuorum(s, m)
      PROVE  FreeInv(v)'
  <2> DEFINE i == m.InstallSeq
  <2>1. /\ pc[s] = "loop" /\ NewerThanCurrent(s, i)
        /\ disabled' = [disabled EXCEPT ![s] = disabled[s] \/ WantsLock(s, i)]
        /\ lockOnceDone' =
             [lockOnceDone EXCEPT ![s] = lockOnceDone[s] \/ HasMember(i.AssociatedView, s)]
        /\ installing' = [installing EXCEPT ![s] = i]
        /\ pc' = [pc EXCEPT ![s] = IF HasMember(i.InstallView, s) THEN "sync" ELSE "leaving"]
        /\ UNCHANGED <<reading, currentView>>
    BY <1>5 DEF gotInstallSeqQuorum, TakeInstallSeq
  <2>2. ProposedFor(i.AssociatedView, v, r) /\ i.InstallView = x
    BY OneInstallSeq DEF InstallInv, ViewsInv
  <2>3. currentView[s] = v
    BY <1>1, <2>1, <2>2 DEF ChangeInv, NewerThanCurrent
  <2>4. ~lockOnceDone[s] /\ (s \notin Members(v) => disabled[s])
    BY <2>1, <2>3 DEF FreeInv
  <2>5. HasMember(i.AssociatedView, s) => WantsLock(s, i)
    BY <2>1, <2>4 DEF WantsLock
  <2>6. HasMember(x, s) => disabled[s] \/ WantsLock(s, i)
    BY <2>2, <2>4, <2>5 DEF ProposedFor, HasMember
  <2>7. /\ pc'[s] # "stuck" /\ pc'[s] # "loop"
        /\ pc'[s] = "sync" => disabled'[s] /\ installing'[s] = i
        /\ lockOnceDone'[s] => HasMember(i.AssociatedView, s)
    BY <2>1, <2>2, <2>4, <2>6 DEF InstallInv, ViewsInv, PhaseInv, Types, FlagTypes
  <2>8. \A p \in Process : p # s => /\ pc'[p] = pc[p] /\ disabled'[p] = disabled[p]
                                    /\ lockOnceDone'[p] = lockOnceDone[p]
                                    /\ installing'[p] = installing[p]
    BY <2>1 DEF InstallInv, ViewsInv, PhaseInv, Types, FlagTypes
  <2>9. pc'[s] = "sync" /\ lockOnceDone'[s] => HasMember(installing'[s].AssociatedView, s)
    BY <2>7
  <2> QED
    BY <2>1, <2>7, <2>8, <2>9 DEF FreeInv
<1>6. ASSUME NEW s \in Process, updateCurrentView(s) PROVE FreeInv(v)'
  <2> DEFINE i == installing[s]
  <2>1. /\ pc[s] = "sync"
        /\ currentView' = [currentView EXCEPT ![s] = i.InstallView]
        /\ disabled' = [disabled EXCEPT ![s] = disabled[s] /\ MoreToInstall(i)]
        /\ lockOnceDone' = [lockOnceDone EXCEPT ![s] =
             lockOnceDone[s] /\ (MoreToInstall(i) \/ ~HasMember(i.AssociatedView, s))]
        /\ installing' = [installing EXCEPT ![s] = NoSeq]
        /\ pc' = [pc EXCEPT ![s] = "loop"]
        /\ UNCHANGED reading
    BY <1>6 DEF updateCurrentView, EnableRegister
  <2>2. i.InstallView = x /\ ~HasViewMoreUpdatedThan(i.ViewSeq, x)
    BY <2>1, OneInstallSeq DEF InstallInv, PhaseInv
  <2>3. ~MoreToInstall(i)
    BY <2>2 DEF MoreToInstall
  <2>4. lockOnceDone[s] => HasMember(i.AssociatedView, s)
    BY <2>1 DEF FreeInv
  <2>5. \A p \in Process : p # s => /\ pc'[p] = pc[p] /\ disabled'[p] = disabled[p]
                                    /\ lockOnceDone'[p] = lockOnceDone[p]
                                    /\ installing'[p] = installing[p]
                                    /\ currentView'[p] = currentView[p]
    BY <2>1 DEF InstallInv, ViewsInv, PhaseInv, Types, FlagTypes
  <2>6. pc'[s] = "loop" /\ ~disabled'[s] /\ ~lockOnceDone'[s] /\ currentView'[s] = x
    BY <2>1, <2>2, <2>3, <2>4 DEF InstallInv, ViewsInv, Types, FlagTypes
  <2> QED
    BY <1>1, <2>1, <2>5, <2>6 DEF FreeInv
<1>7. ASSUME NEW s \in Process, NEW q \in requests, WriteWaits(s, q) PROVE FALSE
  BY <1>7 DEF WriteWaits, Serving, FreeInv, HasMember
<1>8. ASSUME NEW s \in Process, ViewInstalled(s) \/ Crash(s) PROVE FreeInv(v)'
  <2>1. /\ \E ph \in {"left", "down"} : pc' = [pc EXCEPT ![s] = ph]
        /\ UNCHANGED <<reading, disabled, lockOnceDone, currentView, installing>>
    BY <1>8 DEF ViewInstalled, Crash
  <2>2. \A p \in Process : pc'[p] = pc[p] \/ pc'[p] \in {"left", "down"}
    BY <2>1 DEF InstallInv, ViewsInv
  <2> QED
    BY <1>2, <2>1, <2>2
<1>9. ASSUME UNCHANGED <<reading, disabled, lockOnceDone, currentView, installing, pc>>
      PROVE  FreeInv(v)'
  BY <1>9 DEF FreeInv
<1>10. ASSUME \/ \E u \in asked : Ask(u)
              \/ \E s \in Process :
                   \/ \E m \in reconfigMsgs : Reconfig(s, m)
                   \/ \E d \in decided : generatedViewSeq(s, d)
                   \/ \E m \in installMsgs : NoQuorumYet(s, m) \/ gotOldInstallView(s, m)
                   \/ \E m \in stateMsgs : StateUpdate(s, m)
                   \/ \E q \in requests : Write(s, q)
              \/ \E w \in Views : Decide(w)
              \/ ClientReturn
              \/ UNCHANGED vars
       PROVE  UNCHANGED <<reading, disabled, lockOnceDone, currentView, installing, pc>>
  BY <1>10 DEF Ask, Reconfig, generatedViewSeq, NoQuorumYet, gotOldInstallView, StateUpdate,
     Write, Decide, ClientReturn, serverVars, vars
<1>11. ASSUME Proposes \/ \E s \in Process : ClientRetry(s)
       PROVE  UNCHANGED <<reading, disabled, lockOnceDone, currentView, installing, pc>>
  BY <1>11, ProposingIsQuiet, RetryingIsQuiet DEF serverVars
<1> QED
  BY <1>4, <1>5, <1>6, <1>7, <1>8, <1>9, <1>10, <1>11 DEF Next, Proposes

(* At the beginning, members have what they accepted, and others nothing.  *)
LEMMA ChangeInit ==
  ASSUME Init, NEW v \in View, NEW r \in SUBSET (Update \ v), AgreedOn(v, r)
  PROVE  ChangeInv(v, r) /\ FreeInv(v)
<1>1. PICK b \in Start :
        /\ currentView = [s \in Process |-> b.view]
        /\ disabled = [s \in Process |-> ~HasMember(b.view, s)]
        /\ recv = b.recv
        /\ decided = {[view |-> b.view, seq |-> seq] : seq \in b.generated}
        /\ proposed = UNION {{[process |-> s, view |-> b.view, seq |-> seq] :
                                seq \in b.generated} : s \in Members(b.view)}
        /\ accepted = UNION {{[process |-> s, view |-> b.view, update |-> u] :
                                u \in b.recv[s]} : s \in Process}
  BY DEF Init
<1>2. /\ pc = [s \in Process |-> "loop"]
      /\ reading = [s \in Process |-> FALSE]
      /\ lockOnceDone = [s \in Process |-> FALSE]
      /\ timer = [s \in Process |-> FALSE]
      /\ reconfigMsgs = {} /\ stateMsgs = {} /\ starting = {}
  BY DEF Init
<1>3. \A s \in Process : b.view = v /\ currentView[s] = v
  BY <1>1 DEF AgreedOn
<1>4. \A s \in Process : recv[s] = IF s \in Members(v) THEN r ELSE {}
  BY <1>1, <1>3, ReconfigurationAssumption DEF AgreedOn
<1>5. \A d \in decided : /\ d = [view |-> v, seq |-> <<v \cup r>>]
                         /\ d.view = v /\ d.seq = <<v \cup r>>
  BY DEF AgreedOn
<1>6. \A p \in proposed : p.view = v /\ p.seq = <<v \cup r>>
  <2> SUFFICES ASSUME NEW s \in Members(b.view), NEW seq \in b.generated
               PROVE  b.view = v /\ seq = <<v \cup r>>
    BY <1>1
  <2>1. s \in Process
    BY MembersAreProcesses
  <2>2. [view |-> b.view, seq |-> seq] \in decided
    BY <1>1
  <2>3. [view |-> b.view, seq |-> seq].seq = <<v \cup r>>
    BY <1>5, <2>2
  <2> QED
    BY <1>3, <2>1, <2>3
<1>7. \A a \in accepted : a.view = v /\ a.update \in r
  <2> SUFFICES ASSUME NEW s \in Process, NEW u \in b.recv[s] PROVE b.view = v /\ u \in r
    BY <1>1
  <2> QED
    BY <1>1, <1>3, <1>4
<1>8. ChangeInv(v, r)
  BY <1>2, <1>3, <1>4, <1>5, <1>6, <1>7 DEF ChangeInv, ProposedFor, AgreedOn
<1>9. FreeInv(v)
  BY <1>1, <1>2, <1>3 DEF FreeInv, HasMember
<1> QED
  BY <1>8, <1>9

(* What an agreed change comes to, in every state.                         *)
Changing(v, r) == r # {} /\ Calm(v, r) /\ ChangeInv(v, r) /\ FreeInv(v)

LEMMA ChangingNext ==
  ASSUME NEW v \in View, NEW r \in SUBSET (Update \ v), Changing(v, r),
         InstallInv, Types, [Next]_vars
  PROVE  Changing(v, r)'
<1>1. r # {} /\ Calm(v, r) /\ ChangeInv(v, r) /\ FreeInv(v)
  BY DEF Changing
<1>2. ChangeInv(v, r)' /\ FreeInv(v)'
  BY <1>1, ChangeNext, FreeNext
<1> QED
  BY <1>1, <1>2 DEF Changing, Calm

(* Locks are taken once and released by who took them, and what was        *)
(* accepted is in the only newer view.                                     *)
LEMMA ChangingIsPaired ==
  ASSUME NEW v \in View, NEW r \in SUBSET (Update \ v), Changing(v, r)
  PROVE  UnlockIsPaired /\ LockedOnlyOnce /\ AcceptedUpdatesSurvive
<1>1. UnlockIsPaired /\ LockedOnlyOnce
  BY DEF Changing, FreeInv, UnlockIsPaired, LockedOnlyOnce
<1>2. ASSUME NEW a \in accepted, NEW s \in Process, MoreUpdatedThan(currentView[s], a.view)
      PROVE  a.update \in currentView[s] \cup recv[s]
  <2>1. a.view = v /\ a.update \in r
    BY DEF Changing, ChangeInv
  <2>2. ~MoreUpdatedThan(v, v)
    BY MoreUpdatedIsSuperset
  <2>3. currentView[s] = v \cup r
    BY <1>2, <2>1, <2>2 DEF Changing, ChangeInv
  <2> QED
    BY <2>1, <2>3
<1> QED
  BY <1>1, <1>2 DEF AcceptedUpdatesSurvive

(* Without slow timers the generators agree on the only view there is.     *)
LEMMA ChangingIsAgreed ==
  ASSUME NEW v \in View, NEW r \in SUBSET (Update \ v), Changing(v, r), SlowTimers = {}
  PROVE  /\ GeneratorsAgree
         /\ \A d \in decided : d.view = v /\ d.seq = <<v \cup r>>
<1>1. v \cup r \in View /\ v \subseteq v \cup r /\ v \cup r # v
  BY DEF Changing, View
<1>2. MoreUpdatedThan(v \cup r, v) /\ GetLeastUpdatedView(<<v \cup r>>) = v \cup r
  BY <1>1, MoreUpdatedIsSuperset, OneViewSequence
<1>3. \A d \in decided : d.view = v /\ d.seq = <<v \cup r>> /\ d = [view |-> d.view, seq |-> d.seq]
  BY DEF Changing, ChangeInv, ProposedFor
<1>4. \A d \in decided : d = [view |-> v, seq |-> <<v \cup r>>]
  BY <1>3
<1> QED
  BY <1>2, <1>3, <1>4 DEF GeneratorsAgree

(* Which view it is, and with which updates, does not change on the way.   *)
ChangesIn(C) ==
  \E v \in View : \E r \in SUBSET (Update \ v) : <<v, r>> \in C /\ Changing(v, r)

LEMMA ChangesInNext ==
  ASSUME NEW C, ChangesIn(C), InstallInv, Types, [Next]_vars
  PROVE  ChangesIn(C)'
<1>1. PICK v \in View : \E r \in SUBSET (Update \ v) : <<v, r>> \in C /\ Changing(v, r)
  BY DEF ChangesIn
<1>2. PICK r \in SUBSET (Update \ v) : <<v, r>> \in C /\ Changing(v, r)
  BY <1>1
<1>3. Changing(v, r)'
  BY <1>2, ChangingNext
<1> QED
  BY <1>2, <1>3 DEF ChangesIn, View, Update

(* Where every member has accepted the same updates, the view generators   *)
(* agree, for any number of servers and of updates, and however often the  *)
(* code could generate another sequence: a server that is made to propose  *)
(* by a message, with whatever view and recv it has by then, proposes the  *)
(* same view.  So all that rests on GeneratorsAgree holds without further  *)
(* conditions: one view serves, states are those of a majority, locks are  *)
(* paired and never taken twice, and accepted updates are carried.  What   *)
(* must not happen is that a timer finds updates while a view is installed *)
(* and acts on them afterwards (reconfiguration.go:33 and 44).             *)
THEOREM AgreedChangeIsSafe ==
  ASSUME SlowTimers = {}
  PROVE  Spec /\ AgreedChange
           => [](/\ GeneratorsAgree /\ OneServingView /\ StateOfMajority
                 /\ UnlockIsPaired /\ LockedOnlyOnce /\ AcceptedUpdatesSurvive)
<1> DEFINE C == View \X SUBSET Update
<1>1. Init /\ AgreedChange => ChangesIn(C)
  BY ChangeInit DEF AgreedChange, AgreedOn, Changing, Calm, ChangesIn
<1>2. ChangesIn(C) => GeneratorsAgree /\ LockedOnlyOnce /\ AcceptedUpdatesSurvive
  BY ChangingIsAgreed, ChangingIsPaired DEF ChangesIn
<1>3. ChangesIn(C) /\ InstallInv /\ Types /\ [Next]_vars => ChangesIn(C)'
  BY ChangesInNext
<1>4. Spec /\ AgreedChange => []ChangesIn(C)
  BY <1>1, <1>3, ReconfigurationInvariance, PTL DEF Spec
<1> QED
  BY <1>2, <1>4, OneViewServes, StatesComeFromMajority, UnlocksArePaired, PTL

(* Whatever the timers do, a change in which nobody joins takes every lock *)
(* once, releases it paired, and carries the updates, although a timer may *)
(* make the generators agree, for the new view, on that view itself.  What *)
(* may be lost then are writes (run reconfiguration_timer).                *)
THEOREM AgreedLeaveKeepsLocks ==
  Spec /\ AgreedLeave => [](UnlockIsPaired /\ LockedOnlyOnce /\ AcceptedUpdatesSurvive)
<1> DEFINE C == View \X SUBSET Update
<1>1. Init /\ AgreedLeave => ChangesIn(C)
  BY ChangeInit DEF AgreedLeave, AgreedOn, Changing, Calm, ChangesIn
<1>2. ChangesIn(C) => UnlockIsPaired /\ LockedOnlyOnce /\ AcceptedUpdatesSurvive
  BY ChangingIsPaired DEF ChangesIn
<1>3. ChangesIn(C) /\ InstallInv /\ Types /\ [Next]_vars => ChangesIn(C)'
  BY ChangesInNext
<1> QED
  BY <1>1, <1>2, <1>3, ReconfigurationInvariance, PTL DEF Spec

(* And no write is lost, unless the new view is so small that those whose  *)
(* state was not needed are a quorum of it, or a timer acts late.          *)
THEOREM SlowChangeKeepsWrites ==
  ASSUME SlowTimers = {}
  PROVE  Spec /\ SlowChange => []NoLostWrite
<1> DEFINE Slow(v, r) == \/ NumberOfMembers(v \cup r) <= 2
                         \/ QuorumSize(v \cup r) > NumberOfToleratedFaults(v)
           C == {c \in View \X SUBSET Update : Slow(c[1], c[2])}
<1>1. ASSUME Init, SlowChange PROVE ChangesIn(C)
  <2>1. PICK v \in View : \E r \in SUBSET (Update \ v) : AgreedOn(v, r) /\ Slow(v, r)
    BY <1>1 DEF SlowChange
  <2>2. PICK r \in SUBSET (Update \ v) : AgreedOn(v, r) /\ Slow(v, r)
    BY <2>1
  <2>3. Changing(v, r)
    BY <1>1, <2>2, ChangeInit DEF AgreedOn, Changing, Calm
  <2>4. <<v, r>> \in C
    BY <2>2
  <2> QED
    BY <2>3, <2>4 DEF ChangesIn
<1>2. ASSUME ChangesIn(C) PROVE GeneratorsAgree /\ ShrinksSlowly
  <2>1. PICK v \in View : \E r \in SUBSET (Update \ v) : <<v, r>> \in C /\ Changing(v, r)
    BY <1>2 DEF ChangesIn
  <2>2. PICK r \in SUBSET (Update \ v) : <<v, r>> \in C /\ Changing(v, r)
    BY <2>1
  <2>3. Slow(v, r) /\ v \cup r \in View
    BY <2>2 DEF View
  <2>4. GeneratorsAgree /\ \A d \in decided : d.view = v /\ d.seq = <<v \cup r>>
    BY <2>2, ChangingIsAgreed
  <2>5. GetLeastUpdatedView(<<v \cup r>>) = v \cup r
    BY <2>3, OneViewSequence
  <2>6. ShrinksSlowly
    BY <2>3, <2>4, <2>5 DEF ShrinksSlowly
  <2> QED
    BY <2>4, <2>6
<1>3. ChangesIn(C) /\ InstallInv /\ Types /\ [Next]_vars => ChangesIn(C)'
  BY ChangesInNext
<1> HIDE DEF C
<1>4. (Init /\ SlowChange => ChangesIn(C)) /\ (ChangesIn(C) => GeneratorsAgree /\ ShrinksSlowly)
  BY <1>1, <1>2
<1>5. Spec /\ SlowChange => []ChangesIn(C)
  BY <1>3, <1>4, ReconfigurationInvariance, PTL DEF Spec
<1> QED
  BY <1>4, <1>5, NoWriteIsLost, PTL
=============================================================================
