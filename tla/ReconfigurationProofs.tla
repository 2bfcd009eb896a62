------------------------ MODULE ReconfigurationProofs ------------------------
(***************************************************************************)
(* What Reconfiguration guarantees for every cluster, every change of its  *)
(* members and every bound: the types of all variables, and that no server *)
(* leaves before a quorum has taken over.                                  *)
(***************************************************************************)
EXTENDS Reconfiguration, ViewProofs

(* What the installation of views takes from the generators: sequences of  *)
(* views with a least one.                                                 *)
GeneratesViews ==
  \A d \in decided : d.seq \in Seq(View) /\ GetLeastUpdatedView(d.seq) \in View

(* What the servers may be told to install.                                *)
InstallOf(d) ==
  [AssociatedView |-> d.view, InstallView |-> GetLeastUpdatedView(d.seq), ViewSeq |-> d.seq]

Seqs == {InstallOf(d) : d \in decided}

Phase == {"loop", "sync", "leaving", "left", "stuck", "down"}

(***************************************************************************)
(* The inductive invariant: what a server installs was generated, is newer *)
(* than its view until it is there, and was installed by those that say    *)
(* so, who say it once.                                                    *)
(***************************************************************************)
ViewsInv ==
  /\ currentView \in [Process -> View]
  /\ pc \in [Process -> Phase]
  /\ \A d \in decided : d.view \in View
  /\ installing \in [Process -> Seqs \cup {NoSeq}]
  /\ \A m \in installMsgs : m.InstallSeq \in Seqs

IsNewer(v, w) == w \subseteq v /\ v # w

PhaseInv ==
  \A s \in Process :
    /\ pc[s] \in {"sync", "leaving", "left"} => installing[s] \in Seqs
    /\ pc[s] \in {"sync", "leaving"} => IsNewer(installing[s].InstallView, currentView[s])
    /\ pc[s] = "sync" => HasMember(installing[s].InstallView, s)

InstalledInv ==
  /\ \A m \in installedMsgs :
       /\ m.InstalledView \in View
       /\ m.from \in Members(m.InstalledView)
       /\ m.InstalledView \subseteq currentView[m.from]
  /\ \A m, n \in installedMsgs :
       m.from = n.from /\ m.InstalledView = n.InstalledView => m = n

InstallInv == ViewsInv /\ PhaseInv /\ InstalledInv /\ LeaveIsSafe

-----------------------------------------------------------------------------
(***************************************************************************)
(* Lemmas                                                                  *)
(***************************************************************************)
(* Both views of an InstallSeq are views.                                  *)
LEMMA SeqsAreViews ==
  ASSUME GeneratesViews, \A d \in decided : d.view \in View
  PROVE  \A i \in Seqs : i \in InstallSeq
BY DEF GeneratesViews, Seqs, InstallOf, InstallSeq

(* Members are processes, and no set of them is infinite.                  *)
LEMMA MembersAreProcesses ==
  ASSUME NEW v PROVE Members(v) \subseteq Process
BY DEF Members

(* A step leaves all of this alone, as far as installing is concerned.     *)
installVars == <<currentView, pc, installing, decided, installMsgs, installedMsgs>>

(* What holds of the installed views keeps holding while views grow.       *)
LEMMA LeftStaysSafe ==
  ASSUME InstallInv, GeneratesViews,
         currentView' \in [Process -> View],
         \A p \in Process : currentView[p] \subseteq currentView'[p],
         NEW s \in Process, pc[s] = "left", installing'[s] = installing[s]
  PROVE  LET v == installing'[s].InstallView IN
         {p \in Members(v) : v \subseteq currentView'[p]} \in QuorumsOf(v)
<1> DEFINE v == installing[s].InstallView
           P == {p \in Members(v) : v \subseteq currentView[p]}
           R == {p \in Members(v) : v \subseteq currentView'[p]}
<1>1. v \in View
  BY SeqsAreViews DEF InstallInv, ViewsInv, PhaseInv, InstallSeq
<1>2. P \in QuorumsOf(v)
  BY DEF InstallInv, LeaveIsSafe
<1>3. P \subseteq R /\ R \subseteq Members(v)
  BY MembersAreProcesses
<1>4. IsFiniteSet(R) /\ Cardinality(P) <= Cardinality(R)
  BY <1>1, <1>3, QuorumIsMajority, FS_Subset, P \in SUBSET R, R \in SUBSET Members(v)
<1>5. IsFiniteSet(P) /\ Cardinality(P) \in Nat /\ Cardinality(R) \in Nat
  BY <1>3, <1>4, FS_Subset, FS_CardinalityType, P \in SUBSET R
<1>6. Cardinality(R) >= QuorumSize(v)
  BY <1>1, <1>2, <1>4, <1>5, QuorumIsMajority DEF QuorumsOf
<1> HIDE DEF v, P, R
<1>7. R \in QuorumsOf(v)
  BY <1>3, <1>6 DEF QuorumsOf
<1> QED
  BY <1>7 DEF v, R

(* Steps that have nothing to do with installing a view.                   *)
LEMMA QuietStep ==
  ASSUME InstallInv, UNCHANGED installVars
  PROVE  InstallInv'
<1>1. UNCHANGED Seqs
  BY DEF installVars, Seqs, InstallOf
<1>2. ViewsInv'
  BY <1>1 DEF InstallInv, ViewsInv, installVars
<1>3. PhaseInv'
  BY <1>1 DEF InstallInv, PhaseInv, installVars
<1>4. InstalledInv'
  BY DEF InstallInv, InstalledInv, installVars
<1>5. LeaveIsSafe'
  BY DEF InstallInv, LeaveIsSafe, installVars
<1> QED
  BY <1>2, <1>3, <1>4, <1>5 DEF InstallInv

(* A generated sequence is one more.                                       *)
LEMMA DecideStep ==
  ASSUME InstallInv, GeneratesViews', NEW w \in Views, Decide(w)
  PROVE  InstallInv'
<1>1. PICK seq : decided' = decided \cup {[view |-> w, seq |-> seq]}
  BY DEF Decide
<1>2. UNCHANGED <<currentView, pc, installing, installMsgs, installedMsgs>>
  BY DEF Decide, serverVars
<1>3. w \in View
  BY DEF InstallInv, ViewsInv, Views
<1>4. Seqs \subseteq Seqs'
  BY <1>1 DEF Seqs, InstallOf
<1>5. ViewsInv'
  <2>1. \A d \in decided' : d.view \in View
    BY <1>1, <1>3 DEF InstallInv, ViewsInv
  <2> QED
    BY <1>2, <1>4, <2>1 DEF InstallInv, ViewsInv
<1>6. PhaseInv'
  BY <1>2, <1>4 DEF InstallInv, PhaseInv
<1>7. InstalledInv' /\ LeaveIsSafe'
  BY <1>2 DEF InstallInv, InstalledInv, LeaveIsSafe
<1> QED
  BY <1>5, <1>6, <1>7 DEF InstallInv

(* A member tells the others what was generated.                           *)
LEMMA GeneratedStep ==
  ASSUME InstallInv, NEW s \in Process, NEW d \in decided, generatedViewSeq(s, d)
  PROVE  InstallInv'
<1>1. UNCHANGED <<currentView, pc, installing, decided, installedMsgs, Seqs>>
  BY DEF generatedViewSeq, serverVars, Seqs, InstallOf
<1>2. \A m \in installMsgs' : m.InstallSeq \in Seqs'
  BY <1>1 DEF generatedViewSeq, InstallSeqMsg, InstallInv, ViewsInv, Seqs, InstallOf
<1>3. ViewsInv'
  BY <1>1, <1>2 DEF InstallInv, ViewsInv
<1>4. PhaseInv' /\ InstalledInv' /\ LeaveIsSafe'
  BY <1>1 DEF InstallInv, PhaseInv, InstalledInv, LeaveIsSafe
<1> QED
  BY <1>3, <1>4 DEF InstallInv

(* The loop of a server waits for a mutex for ever, or the server crashes. *)
LEMMA StopStep ==
  ASSUME InstallInv, NEW s \in Process,
         pc' = [pc EXCEPT ![s] = "stuck"] \/ pc' = [pc EXCEPT ![s] = "down"],
         UNCHANGED <<currentView, installing, decided, installMsgs, installedMsgs>>
  PROVE  InstallInv'
<1>1. UNCHANGED Seqs
  BY DEF Seqs, InstallOf
<1>2. ViewsInv'
  BY <1>1 DEF InstallInv, ViewsInv, Phase
<1>3. \A t \in Process : pc'[t] = pc[t] \/ pc'[t] \in {"stuck", "down"}
  BY DEF InstallInv, ViewsInv
<1>4. PhaseInv'
  BY <1>1, <1>3 DEF InstallInv, PhaseInv
<1>5. InstalledInv' /\ LeaveIsSafe'
  BY <1>3 DEF InstallInv, InstalledInv, LeaveIsSafe
<1> QED
  BY <1>2, <1>4, <1>5 DEF InstallInv

(* A server leaves.                                                        *)
LEMMA ViewInstalledStep ==
  ASSUME InstallInv, GeneratesViews, NEW s \in Process, ViewInstalled(s)
  PROVE  InstallInv'
<1> DEFINE v == installing[s].InstallView
           M == {m \in installedMsgs : s \in m.to /\ Equal(m.InstalledView, v)}
           R == {p \in Members(v) : v \subseteq currentView[p]}
<1>1. UNCHANGED <<currentView, installing, decided, installMsgs, installedMsgs, Seqs>>
  BY DEF ViewInstalled, netVars, Seqs, InstallOf
<1>2. /\ pc[s] = "leaving"
      /\ pc' = [pc EXCEPT ![s] = "left"]
  BY DEF ViewInstalled
<1>3. ViewsInv'
  BY <1>1, <1>2 DEF InstallInv, ViewsInv, Phase
<1>4. PhaseInv'
  BY <1>1, <1>2 DEF InstallInv, ViewsInv, PhaseInv
<1>5. InstalledInv'
  BY <1>1 DEF InstallInv, InstalledInv
<1>6. v \in View
  BY <1>2, SeqsAreViews DEF InstallInv, ViewsInv, PhaseInv, InstallSeq
<1>7. Cardinality(M) >= QuorumSize(v)
  BY DEF ViewInstalled
<1>8. \A m \in M : m.from \in R /\ m.InstalledView = v
  BY <1>6, EqualIsEqual DEF InstallInv, InstalledInv
<1>9. Cardinality({m.from : m \in M}) = Cardinality(M)
  <2>1. {m.from : m \in M} \subseteq Process
    BY <1>8, MembersAreProcesses
  <2>2. \A m, n \in M : m.from = n.from => m = n
    BY <1>8 DEF InstallInv, InstalledInv
  <2> QED
    BY <2>1, <2>2, OneMessageEach
<1>10. R \in QuorumsOf(v)
  <2> DEFINE F == {m.from : m \in M}
  <2>1. F \in SUBSET R /\ R \in SUBSET Members(v)
    BY <1>8
  <2>2. IsFiniteSet(R) /\ IsFiniteSet(F) /\ Cardinality(F) <= Cardinality(R)
    BY <1>6, <2>1, QuorumIsMajority, FS_Subset
  <2>3. Cardinality(F) \in Nat /\ Cardinality(R) \in Nat
    BY <2>2, FS_CardinalityType
  <2> HIDE DEF F, R, M, v
  <2> QED
    BY <1>6, <1>7, <1>9, <2>1, <2>2, <2>3, QuorumIsMajority DEF QuorumsOf, F
<1>11. LeaveIsSafe'
  <2> SUFFICES ASSUME NEW t \in Process, pc'[t] = "left"
               PROVE  LET x == installing'[t].InstallView IN
                      {p \in Members(x) : x \subseteq currentView'[p]} \in QuorumsOf(x)
    BY DEF LeaveIsSafe
  <2>1. CASE t = s
    BY <1>1, <1>10, <2>1
  <2>2. CASE t # s
    BY <1>1, <1>2, <2>2 DEF InstallInv, ViewsInv, LeaveIsSafe
  <2> QED
    BY <2>1, <2>2
<1> QED
  BY <1>3, <1>4, <1>5, <1>11 DEF InstallInv

(* A quorum wants a newer view: the server begins to install it.           *)
LEMMA QuorumStep ==
  ASSUME InstallInv, GeneratesViews, NEW s \in Process, NEW m \in installMsgs,
         gotInstallSeqQuorum(s, m)
  PROVE  InstallInv'
<1> DEFINE i == m.InstallSeq
<1>1. UNCHANGED <<currentView, decided, installMsgs, installedMsgs, Seqs>>
  BY DEF gotInstallSeqQuorum, Seqs, InstallOf
<1>2. /\ pc[s] = "loop"
      /\ installing' = [installing EXCEPT ![s] = i]
      /\ pc' = [pc EXCEPT ![s] = IF HasMember(i.InstallView, s) THEN "sync" ELSE "leaving"]
      /\ NewerThanCurrent(s, i)
  BY DEF gotInstallSeqQuorum, TakeInstallSeq
<1>3. i \in Seqs
  BY DEF InstallInv, ViewsInv
<1>4. IsNewer(i.InstallView, currentView[s])
  <2>1. i.InstallView \in View /\ currentView[s] \in View
    BY <1>3, SeqsAreViews DEF InstallInv, ViewsInv, InstallSeq
  <2> QED
    BY <1>2, <2>1, MoreUpdatedIsSuperset DEF NewerThanCurrent, IsNewer
<1> HIDE DEF i
<1>5. ViewsInv'
  BY <1>1, <1>2, <1>3 DEF InstallInv, ViewsInv, Phase
<1>6. PhaseInv'
  <2> SUFFICES ASSUME NEW t \in Process
               PROVE  /\ pc'[t] \in {"sync", "leaving", "left"} => installing'[t] \in Seqs'
                      /\ pc'[t] \in {"sync", "leaving"} =>
                           IsNewer(installing'[t].InstallView, currentView'[t])
                      /\ pc'[t] = "sync" => HasMember(installing'[t].InstallView, t)
    BY DEF PhaseInv
  <2>1. CASE t = s
    BY <1>1, <1>2, <1>3, <1>4, <2>1 DEF InstallInv, ViewsInv
  <2>2. CASE t # s
    <3>1. pc'[t] = pc[t] /\ installing'[t] = installing[t]
      BY <1>2, <2>2 DEF InstallInv, ViewsInv
    <3> QED
      BY <1>1, <3>1 DEF InstallInv, PhaseInv
  <2> QED
    BY <2>1, <2>2
<1>7. InstalledInv'
  BY <1>1 DEF InstallInv, InstalledInv
<1>8. LeaveIsSafe'
  <2> SUFFICES ASSUME NEW t \in Process, pc'[t] = "left"
               PROVE  LET x == installing'[t].InstallView IN
                      {p \in Members(x) : x \subseteq currentView'[p]} \in QuorumsOf(x)
    BY DEF LeaveIsSafe
  <2>1. pc[t] = "left" /\ installing'[t] = installing[t]
    BY <1>2 DEF InstallInv, ViewsInv
  <2> QED
    BY <1>1, <2>1 DEF InstallInv, LeaveIsSafe
<1> QED
  BY <1>5, <1>6, <1>7, <1>8 DEF InstallInv

(* A server installs a view and says so.                                   *)
LEMMA InstallStep ==
  ASSUME InstallInv, GeneratesViews, NEW s \in Process, updateCurrentView(s)
  PROVE  InstallInv'
<1> DEFINE w == installing[s].InstallView
           new == [from |-> s, InstalledView |-> w,
                   to |-> GetMembersNotIn(installing[s].AssociatedView, w)]
<1>1. UNCHANGED <<decided, installMsgs, Seqs>>
  BY DEF updateCurrentView, Seqs, InstallOf
<1>2. /\ pc[s] = "sync"
      /\ pc' = [pc EXCEPT ![s] = "loop"]
      /\ installing' = [installing EXCEPT ![s] = NoSeq]
      /\ currentView' = [currentView EXCEPT ![s] = w]
      /\ installedMsgs' = installedMsgs \cup {new}
  BY DEF updateCurrentView
<1>3. /\ w \in View
      /\ IsNewer(w, currentView[s])
      /\ s \in Members(w)
  BY <1>2, SeqsAreViews DEF InstallInv, ViewsInv, PhaseInv, InstallSeq, HasMember
<1>4. new.from = s /\ new.InstalledView = w
  OBVIOUS
<1> HIDE DEF w, new
<1>5. ViewsInv'
  BY <1>1, <1>2, <1>3 DEF InstallInv, ViewsInv, Phase
<1>6. \A p \in Process : currentView[p] \subseteq currentView'[p]
  BY <1>2, <1>3 DEF InstallInv, ViewsInv, IsNewer
<1>7. \A t \in Process : t # s => /\ pc'[t] = pc[t]
                                  /\ installing'[t] = installing[t]
                                  /\ currentView'[t] = currentView[t]
  BY <1>2 DEF InstallInv, ViewsInv
<1>8. PhaseInv'
  <2>1. pc'[s] = "loop"
    BY <1>2 DEF InstallInv, ViewsInv
  <2> QED
    BY <1>1, <1>7, <2>1 DEF InstallInv, PhaseInv
<1>9. InstalledInv'
  <2>1. currentView'[s] = w
    BY <1>2 DEF InstallInv, ViewsInv
  <2>2. \A n \in installedMsgs : n.from \in Process
    BY MembersAreProcesses DEF InstallInv, InstalledInv
  <2>3. \A n \in installedMsgs' :
          /\ n.InstalledView \in View
          /\ n.from \in Members(n.InstalledView)
          /\ n.InstalledView \subseteq currentView'[n.from]
    BY <1>2, <1>3, <1>4, <1>6, <2>1, <2>2 DEF InstallInv, InstalledInv
  <2>4. \A n \in installedMsgs : ~(n.from = s /\ n.InstalledView = w)
    BY <1>3 DEF InstallInv, InstalledInv, IsNewer
  <2>5. \A n, o \in installedMsgs' :
          n.from = o.from /\ n.InstalledView = o.InstalledView => n = o
    BY <1>2, <1>4, <2>4 DEF InstallInv, InstalledInv
  <2> QED
    BY <2>3, <2>5 DEF InstalledInv
<1>10. LeaveIsSafe'
  <2> SUFFICES ASSUME NEW t \in Process, pc'[t] = "left"
               PROVE  LET x == installing'[t].InstallView IN
                      {p \in Members(x) : x \subseteq currentView'[p]} \in QuorumsOf(x)
    BY DEF LeaveIsSafe
  <2>1. pc[t] = "left" /\ installing'[t] = installing[t]
    BY <1>2 DEF InstallInv, ViewsInv
  <2>2. currentView' \in [Process -> View]
    BY <1>5 DEF ViewsInv
  <2> QED
    BY <1>6, <2>1, <2>2, LeftStaysSafe
<1> QED
  BY <1>5, <1>8, <1>9, <1>10 DEF InstallInv

(* InstallInv holds at the beginning.                                      *)
LEMMA InstallInit ==
  ASSUME Init PROVE InstallInv
<1>1. PICK b \in Start :
        /\ currentView = [s \in Process |-> b.view]
        /\ decided = {[view |-> b.view, seq |-> seq] : seq \in b.generated}
        /\ installMsgs = UNION {{InstallSeqMsg(s, b.view, seq) :
                                   seq \in b.generated} : s \in Members(b.view)}
  BY DEF Init
<1>2. /\ pc = [s \in Process |-> "loop"]
      /\ installing = [s \in Process |-> NoSeq]
      /\ installedMsgs = {}
  BY DEF Init
<1>3. b.view \in View
  BY ReconfigurationAssumption
<1>4. \A m \in installMsgs : m.InstallSeq \in Seqs
  <2> TAKE m \in installMsgs
  <2>1. PICK s \in Members(b.view), seq \in b.generated : m = InstallSeqMsg(s, b.view, seq)
    BY <1>1
  <2>2. m.InstallSeq = InstallOf([view |-> b.view, seq |-> seq])
    BY <2>1 DEF InstallSeqMsg, InstallOf
  <2> QED
    BY <1>1, <2>2 DEF Seqs
<1>5. ViewsInv
  BY <1>1, <1>2, <1>3, <1>4 DEF ViewsInv, Phase
<1>6. PhaseInv /\ InstalledInv /\ LeaveIsSafe
  BY <1>2 DEF PhaseInv, InstalledInv, LeaveIsSafe
<1> QED
  BY <1>5, <1>6 DEF InstallInv

(* Every step preserves InstallInv.                                        *)
LEMMA InstallNext ==
  ASSUME InstallInv, GeneratesViews, GeneratesViews', [Next]_vars
  PROVE  InstallInv'
<1>1. ASSUME UNCHANGED installVars PROVE InstallInv'
  BY <1>1, QuietStep
<1>2. ASSUME NEW u \in asked, Ask(u) PROVE InstallInv'
  BY <1>1, <1>2 DEF Ask, serverVars, installVars
<1>3. ASSUME NEW s \in Process, NEW m \in reconfigMsgs, Reconfig(s, m) PROVE InstallInv'
  BY <1>1, <1>3 DEF Reconfig, netVars, installVars
<1>4. ASSUME NEW s \in Process,
             \/ hasUpdatesToCurrentView(s)
             \/ startReconfiguration(s)
             \/ \E p \in proposed : createForMessage(s, p.view)
      PROVE  InstallInv'
  BY <1>1, <1>4 DEF hasUpdatesToCurrentView, startReconfiguration, createForMessage,
     serverVars, netVars, installVars
<1>5. ASSUME NEW s \in Process, NEW d \in decided, generatedViewSeq(s, d) PROVE InstallInv'
  BY <1>5, GeneratedStep
<1>6. ASSUME NEW s \in Process, NEW m \in installMsgs,
             NoQuorumYet(s, m) \/ gotOldInstallView(s, m)
      PROVE  InstallInv'
  BY <1>1, <1>6 DEF NoQuorumYet, gotOldInstallView, netVars, installVars
<1>7. ASSUME NEW s \in Process, NEW m \in installMsgs, gotLockedMutex(s, m)
      PROVE  InstallInv'
  BY <1>7, StopStep DEF gotLockedMutex, netVars
<1>8. ASSUME NEW s \in Process, NEW m \in installMsgs, gotInstallSeqQuorum(s, m)
      PROVE  InstallInv'
  BY <1>8, QuorumStep
<1>9. ASSUME NEW s \in Process, NEW m \in stateMsgs, StateUpdate(s, m) PROVE InstallInv'
  BY <1>1, <1>9 DEF StateUpdate, netVars, installVars
<1>10. ASSUME NEW s \in Process, updateCurrentView(s) PROVE InstallInv'
  BY <1>10, InstallStep
<1>11. ASSUME NEW s \in Process, ViewInstalled(s) PROVE InstallInv'
  BY <1>11, ViewInstalledStep
<1>12. ASSUME NEW s \in Process, Crash(s) PROVE InstallInv'
  BY <1>12, StopStep DEF Crash, netVars
<1>13. ASSUME NEW s \in Process, NEW r \in requests, Write(s, r) \/ WriteWaits(s, r)
       PROVE  InstallInv'
  BY <1>1, <1>13 DEF Write, WriteWaits, netVars, installVars
<1>14. ASSUME NEW s \in Process, ClientRetry(s) PROVE InstallInv'
  BY <1>1, <1>14 DEF ClientRetry, serverVars, netVars, installVars
<1>15. ASSUME NEW v \in Views, Decide(v) PROVE InstallInv'
  BY <1>15, DecideStep
<1>16. ASSUME ClientReturn PROVE InstallInv'
  BY <1>1, <1>16 DEF ClientReturn, serverVars, netVars, installVars
<1>17. ASSUME NEW g \in starting, generateViewSequence(g) PROVE InstallInv'
  BY <1>1, <1>17 DEF generateViewSequence, serverVars, installVars
<1>18. ASSUME UNCHANGED vars PROVE InstallInv'
  BY <1>1, <1>18 DEF vars, serverVars, netVars, installVars
<1> QED
  BY <1>2, <1>3, <1>4, <1>5, <1>6, <1>7, <1>8, <1>9, <1>10, <1>11, <1>12, <1>13, <1>14,
     <1>15, <1>16, <1>17, <1>18 DEF Next

-----------------------------------------------------------------------------
(***************************************************************************)
(* Types.  The counters stay within their bounds because a counter stops   *)
(* at the quorum, and timestamps because the client stops at MaxWrites.    *)
(***************************************************************************)
LoopTypes ==
  /\ last \in [Process -> [Process -> Seqs \cup {NoSeq}]]
  /\ \A m \in installMsgs : m.Sender \in Process
  /\ counter = [s \in Process |-> counter[s]]
  /\ \A s \in Process : \A i \in DOMAIN counter[s] :
       i \in Seqs /\ counter[s][i] \in 0..QuorumSize(i.AssociatedView)

UpdateTypes ==
  /\ recv \in [Process -> SUBSET Update]
  /\ asked \subseteq Update
  /\ \A m \in reconfigMsgs : m.AssociatedView \in View /\ m.Update \in Update
  /\ \A m \in stateMsgs : m.Recv \subseteq Update
  /\ stateSeen \in [Process -> SUBSET stateMsgs]

FlagTypes ==
  /\ disabled \in [Process -> BOOLEAN]
  /\ lockOnceDone \in [Process -> BOOLEAN]
  /\ reading \in [Process -> BOOLEAN]
  /\ timer \in [Process -> BOOLEAN]

ClientTypes ==
  /\ client \in [view : View, acks : SUBSET Process, Timestamp : 1..(MaxWrites + 1)]
  /\ client.Timestamp > MaxWrites => client.acks = {}
  /\ \A r \in requests : r.Timestamp \in 1..MaxWrites
  /\ high \in 0..MaxWrites

RegisterTypes ==
  /\ register \in [Process -> 0..MaxWrites]
  /\ \A m \in stateMsgs : m.Timestamp \in 0..MaxWrites

Types == LoopTypes /\ UpdateTypes /\ FlagTypes /\ ClientTypes /\ RegisterTypes

(* What a server knows of messages has its type.                           *)
LEMMA LoopTypesNext ==
  ASSUME LoopTypes, InstallInv, GeneratesViews, GeneratesViews', Next
  PROVE  LoopTypes'
<1>1. ASSUME UNCHANGED <<last, installMsgs, counter, Seqs>> PROVE LoopTypes'
  BY <1>1 DEF LoopTypes
<1>2. UNCHANGED decided => UNCHANGED Seqs
  BY DEF Seqs, InstallOf
<1>3. ASSUME NEW s \in Process, NEW m \in installMsgs, TakeInstallSeq(s, m),
             UNCHANGED <<installMsgs, decided>>
      PROVE  LoopTypes'
  <2> DEFINE i == m.InstallSeq
  <2>1. i \in Seqs /\ m.Sender \in Process /\ UNCHANGED Seqs
    BY <1>2, <1>3 DEF InstallInv, ViewsInv, LoopTypes
  <2>2. i.AssociatedView \in View
    BY <2>1, SeqsAreViews DEF InstallInv, ViewsInv, InstallSeq
  <2>3. QuorumSize(i.AssociatedView) \in Nat /\ QuorumSize(i.AssociatedView) > 0
    BY <2>2, QuorumIsMajority
  <2>4. last' \in [Process -> [Process -> Seqs \cup {NoSeq}]]
    <3>1. last' = [last EXCEPT ![s] = [last[s] EXCEPT ![m.Sender] = i]]
      BY <1>3 DEF TakeInstallSeq
    <3>2. [last[s] EXCEPT ![m.Sender] = i] \in [Process -> Seqs \cup {NoSeq}]
      BY <2>1 DEF LoopTypes
    <3> HIDE DEF i
    <3> QED
      BY <3>1, <3>2 DEF LoopTypes
  <2>5. /\ counter' = [t \in Process |-> counter'[t]]
        /\ \A t \in Process : t # s => counter'[t] = counter[t]
        /\ counter'[s] = [j \in DOMAIN counter[s] \cup {i} |->
             IF j # i THEN counter[s][j]
             ELSE IF Counted(s, i) = QuorumSize(i.AssociatedView) THEN Counted(s, i)
             ELSE Counted(s, i) + 1]
    BY <1>3 DEF TakeInstallSeq, CountInstallSeq, LoopTypes
  <2>6. Counted(s, i) \in 0..QuorumSize(i.AssociatedView)
    BY <2>3 DEF Counted, LoopTypes
  <2> HIDE DEF i
  <2>7. \A j \in DOMAIN counter'[s] :
          j \in Seqs /\ counter'[s][j] \in 0..QuorumSize(j.AssociatedView)
    <3> SUFFICES ASSUME NEW j \in DOMAIN counter[s] \cup {i}
                 PROVE  j \in Seqs /\ counter'[s][j] \in 0..QuorumSize(j.AssociatedView)
      BY <2>5
    <3>1. CASE j = i
      BY <2>1, <2>3, <2>5, <2>6, <3>1
    <3>2. CASE j # i
      BY <2>5, <3>2 DEF LoopTypes
    <3> QED
      BY <3>1, <3>2
  <2>8. \A t \in Process : \A j \in DOMAIN counter'[t] :
          j \in Seqs /\ counter'[t][j] \in 0..QuorumSize(j.AssociatedView)
    BY <2>5, <2>7 DEF LoopTypes
  <2> QED
    BY <1>3, <2>1, <2>4, <2>5, <2>8 DEF LoopTypes
<1>4. ASSUME NEW s \in Process, NEW d \in decided, generatedViewSeq(s, d)
      PROVE  LoopTypes'
  BY <1>2, <1>4 DEF generatedViewSeq, InstallSeqMsg, serverVars, LoopTypes
<1>5. ASSUME NEW v \in Views, Decide(v) PROVE LoopTypes'
  <2>1. UNCHANGED <<last, installMsgs, counter>> /\ decided \subseteq decided'
    BY <1>5 DEF Decide, serverVars
  <2>2. Seqs \subseteq Seqs'
    BY <2>1 DEF Seqs, InstallOf
  <2> QED
    BY <2>1, <2>2 DEF LoopTypes
<1>6. ASSUME NEW s \in Process, NEW m \in installMsgs,
             \/ NoQuorumYet(s, m) \/ gotOldInstallView(s, m)
             \/ gotLockedMutex(s, m) \/ gotInstallSeqQuorum(s, m)
      PROVE  LoopTypes'
  BY <1>3, <1>6
     DEF NoQuorumYet, gotOldInstallView, gotLockedMutex, gotInstallSeqQuorum, netVars
<1>7. ASSUME \/ \E u \in asked : Ask(u)
             \/ \E s \in Process :
                  \/ \E m \in reconfigMsgs : Reconfig(s, m)
                  \/ hasUpdatesToCurrentView(s)
                  \/ startReconfiguration(s)
                  \/ \E p \in proposed : createForMessage(s, p.view)
                  \/ \E m \in stateMsgs : StateUpdate(s, m)
                  \/ updateCurrentView(s)
                  \/ ViewInstalled(s)
                  \/ Crash(s)
                  \/ \E r \in requests : Write(s, r) \/ WriteWaits(s, r)
                  \/ ClientRetry(s)
             \/ ClientReturn
             \/ \E g \in starting : generateViewSequence(g)
      PROVE  UNCHANGED <<last, installMsgs, counter, decided>>
  BY <1>7 DEF Ask, Reconfig, hasUpdatesToCurrentView, startReconfiguration, generateViewSequence,
     createForMessage, StateUpdate,
     updateCurrentView, ViewInstalled, Crash, Write, WriteWaits, ClientRetry, ClientReturn,
     serverVars, netVars
<1> QED
  BY <1>1, <1>2, <1>4, <1>5, <1>6, <1>7 DEF Next

(* Updates stay updates, and what counted was sent.                        *)
LEMMA UpdateTypesNext ==
  ASSUME UpdateTypes, InstallInv, Next
  PROVE  UpdateTypes'
<1>1. ASSUME UNCHANGED <<recv, asked, reconfigMsgs, stateMsgs, stateSeen>>
      PROVE  UpdateTypes'
  BY <1>1 DEF UpdateTypes
<1>2. ASSUME NEW u \in asked, Ask(u) PROVE UpdateTypes'
  <2>1. u \in Update /\ u.Process \in Process
    BY DEF UpdateTypes, Update
  <2>2. currentView[u.Process] \in View
    BY <2>1 DEF InstallInv, ViewsInv
  <2> QED
    BY <1>2, <2>1, <2>2 DEF Ask, serverVars, UpdateTypes
<1>3. ASSUME NEW s \in Process, NEW m \in reconfigMsgs, Reconfig(s, m) PROVE UpdateTypes'
  BY <1>3 DEF Reconfig, netVars, UpdateTypes
<1>4. ASSUME NEW s \in Process, NEW i, SendState(s, i),
             UNCHANGED <<recv, asked, reconfigMsgs, stateSeen>>
      PROVE  UpdateTypes'
  <2>1. /\ stateMsgs \subseteq stateMsgs'
        /\ \A m \in stateMsgs' : m \in stateMsgs \/ m.Recv = recv[s]
    BY <1>4 DEF SendState
  <2> QED
    BY <1>4, <2>1 DEF UpdateTypes
<1>5. ASSUME NEW s \in Process, NEW m \in installMsgs,
             gotOldInstallView(s, m) \/ gotInstallSeqQuorum(s, m)
      PROVE  UpdateTypes'
  BY <1>4, <1>5 DEF gotOldInstallView, gotInstallSeqQuorum
<1>6. ASSUME NEW s \in Process, NEW m \in stateMsgs, StateUpdate(s, m) PROVE UpdateTypes'
  BY <1>6 DEF StateUpdate, netVars, UpdateTypes
<1>7. ASSUME NEW s \in Process, updateCurrentView(s) PROVE UpdateTypes'
  <2> DEFINE i == installing[s]
             M == StatesFor(s, i.AssociatedView)
             r == (recv[s] \cup UNION {m.Recv : m \in M}) \ i.InstallView
  <2>1. /\ recv' = [recv EXCEPT ![s] = r]
        /\ UNCHANGED <<asked, reconfigMsgs, stateMsgs, stateSeen>>
    BY <1>7 DEF updateCurrentView, syncState
  <2>2. M \subseteq stateMsgs
    BY DEF StatesFor, UpdateTypes
  <2>3. r \in SUBSET Update
    BY <2>2 DEF UpdateTypes
  <2> HIDE DEF r
  <2> QED
    BY <2>1, <2>3 DEF UpdateTypes
<1>8. ASSUME \/ \E s \in Process :
                  \/ hasUpdatesToCurrentView(s)
                  \/ startReconfiguration(s)
                  \/ \E p \in proposed : createForMessage(s, p.view)
                  \/ \E d \in decided : generatedViewSeq(s, d)
                  \/ \E m \in installMsgs : NoQuorumYet(s, m) \/ gotLockedMutex(s, m)
                  \/ ViewInstalled(s)
                  \/ Crash(s)
                  \/ \E r \in requests : Write(s, r) \/ WriteWaits(s, r)
                  \/ ClientRetry(s)
             \/ \E v \in Views : Decide(v)
             \/ ClientReturn
             \/ \E g \in starting : generateViewSequence(g)
      PROVE  UNCHANGED <<recv, asked, reconfigMsgs, stateMsgs, stateSeen>>
  BY <1>8 DEF hasUpdatesToCurrentView, startReconfiguration, generateViewSequence,
     createForMessage, generatedViewSeq, NoQuorumYet,
     gotLockedMutex, ViewInstalled, Crash, Write, WriteWaits, ClientRetry, Decide,
     ClientReturn, serverVars, netVars
<1> QED
  BY <1>1, <1>2, <1>3, <1>5, <1>6, <1>7, <1>8 DEF Next

(* Flags stay flags.                                                       *)
LEMMA FlagTypesNext ==
  ASSUME FlagTypes, Next
  PROVE  FlagTypes'
<1>1. ASSUME UNCHANGED <<disabled, lockOnceDone, reading, timer>> PROVE FlagTypes'
  BY <1>1 DEF FlagTypes
<1>2. ASSUME NEW s \in Process, NEW m \in installMsgs, gotInstallSeqQuorum(s, m)
      PROVE  FlagTypes'
  <2>1. PICK a, b \in BOOLEAN : /\ disabled' = [disabled EXCEPT ![s] = a]
                                /\ lockOnceDone' = [lockOnceDone EXCEPT ![s] = b]
    <3>1. (disabled[s] \/ WantsLock(s, m.InstallSeq)) \in BOOLEAN
      OBVIOUS
    <3>2. (lockOnceDone[s] \/ HasMember(m.InstallSeq.AssociatedView, s)) \in BOOLEAN
      OBVIOUS
    <3> QED
      BY <1>2, <3>1, <3>2, Zenon DEF gotInstallSeqQuorum
  <2> QED
    BY <1>2, <2>1 DEF gotInstallSeqQuorum, callVars, FlagTypes
<1>3. ASSUME NEW s \in Process, updateCurrentView(s) PROVE FlagTypes'
  <2> DEFINE i == installing[s]
  <2>1. PICK a, b \in BOOLEAN : /\ disabled' = [disabled EXCEPT ![s] = a]
                                /\ lockOnceDone' = [lockOnceDone EXCEPT ![s] = b]
    <3>1. (disabled[s] /\ MoreToInstall(i)) \in BOOLEAN
      OBVIOUS
    <3>2. (lockOnceDone[s] /\ (MoreToInstall(i) \/ ~HasMember(i.AssociatedView, s))) \in BOOLEAN
      OBVIOUS
    <3> QED
      BY <1>3, <3>1, <3>2, Zenon DEF updateCurrentView, EnableRegister
  <2> QED
    BY <1>3, <2>1 DEF updateCurrentView, FlagTypes
<1>4. ASSUME NEW s \in Process, NEW r \in requests, WriteWaits(s, r) PROVE FlagTypes'
  BY <1>4 DEF WriteWaits, callVars, FlagTypes
<1>5. ASSUME NEW s \in Process, hasUpdatesToCurrentView(s) \/ startReconfiguration(s)
      PROVE  FlagTypes'
  BY <1>5 DEF hasUpdatesToCurrentView, startReconfiguration, serverVars, FlagTypes
<1>6. ASSUME \/ \E u \in asked : Ask(u)
             \/ \E s \in Process :
                  \/ \E m \in reconfigMsgs : Reconfig(s, m)
                  \/ \E p \in proposed : createForMessage(s, p.view)
                  \/ \E d \in decided : generatedViewSeq(s, d)
                  \/ \E m \in installMsgs :
                       NoQuorumYet(s, m) \/ gotOldInstallView(s, m) \/ gotLockedMutex(s, m)
                  \/ \E m \in stateMsgs : StateUpdate(s, m)
                  \/ ViewInstalled(s)
                  \/ Crash(s)
                  \/ \E r \in requests : Write(s, r)
                  \/ ClientRetry(s)
             \/ \E v \in Views : Decide(v)
             \/ ClientReturn
             \/ \E g \in starting : generateViewSequence(g)
      PROVE  UNCHANGED <<disabled, lockOnceDone, reading, timer>>
  BY <1>6 DEF Ask, Reconfig, generateViewSequence, createForMessage, generatedViewSeq,
     NoQuorumYet, gotOldInstallView, gotLockedMutex, StateUpdate, ViewInstalled, Crash,
     Write, ClientRetry, Decide, ClientReturn, serverVars, callVars, netVars
<1> QED
  BY <1>1, <1>2, <1>3, <1>4, <1>5, <1>6 DEF Next

(* The client never goes beyond its last write.                            *)
LEMMA ClientTypesNext ==
  ASSUME ClientTypes, InstallInv, Next
  PROVE  ClientTypes'
<1>1. MaxWrites \in Nat
  BY ReconfigurationAssumption
<1>2. ASSUME UNCHANGED clientVars PROVE ClientTypes'
  BY <1>2 DEF ClientTypes, clientVars
<1>3. ASSUME NEW s \in Process, NEW r \in requests, Write(s, r) PROVE ClientTypes'
  <2>1. UNCHANGED <<requests, high>>
    BY <1>3 DEF Write
  <2>2. CASE client' = client
    BY <2>1, <2>2 DEF ClientTypes
  <2>3. CASE r.Timestamp = client.Timestamp /\ client' = [client EXCEPT !.acks = @ \cup {s}]
    <3>1. client.Timestamp <= MaxWrites
      BY <1>1, <2>3 DEF ClientTypes
    <3>2. /\ client' \in [view : View, acks : SUBSET Process, Timestamp : 1..(MaxWrites + 1)]
          /\ client'.Timestamp = client.Timestamp
      BY <2>3 DEF ClientTypes
    <3> QED
      BY <1>1, <2>1, <3>1, <3>2 DEF ClientTypes
  <2> QED
    BY <1>3, <2>2, <2>3 DEF Write
<1>4. \A c : \A r \in Requests(c) : r.Timestamp \in 1..MaxWrites
  BY DEF Requests
<1>5. ASSUME NEW s \in Process, ClientRetry(s) PROVE ClientTypes'
  <2>1. /\ client' = [[client EXCEPT !.view = currentView[s]] EXCEPT !.acks = {}]
        /\ requests' = requests \cup Requests(client')
        /\ UNCHANGED high
    BY <1>5 DEF ClientRetry
  <2>2. currentView[s] \in View
    BY DEF InstallInv, ViewsInv
  <2>3. /\ client' \in [view : View, acks : SUBSET Process, Timestamp : 1..(MaxWrites + 1)]
        /\ client'.acks = {}
    BY <2>1, <2>2 DEF ClientTypes
  <2> QED
    BY <1>4, <2>1, <2>3 DEF ClientTypes
<1>6. ASSUME ClientReturn PROVE ClientTypes'
  <2>1. /\ client' = [[client EXCEPT !.Timestamp = @ + 1] EXCEPT !.acks = {}]
        /\ requests' = requests \cup Requests(client')
        /\ high' = client.Timestamp
        /\ Cardinality(client.acks) >= QuorumSize(client.view)
    BY <1>6 DEF ClientReturn
  <2>2. client.acks # {}
    <3>1. QuorumSize(client.view) \in Nat /\ QuorumSize(client.view) > 0
      BY QuorumIsMajority DEF ClientTypes
    <3> QED
      BY <2>1, <3>1, FS_EmptySet
  <2>3. client.Timestamp \in 1..MaxWrites
    BY <1>1, <2>2 DEF ClientTypes
  <2>4. /\ client' \in [view : View, acks : SUBSET Process, Timestamp : 1..(MaxWrites + 1)]
        /\ client'.acks = {}
    <3> DEFINE next == [client EXCEPT !.Timestamp = @ + 1]
    <3>1. client.Timestamp + 1 \in 1..(MaxWrites + 1)
      BY <1>1, <2>3
    <3>2. next \in [view : View, acks : SUBSET Process, Timestamp : 1..(MaxWrites + 1)]
      BY <3>1 DEF ClientTypes
    <3>3. client' = [next EXCEPT !.acks = {}]
      BY <2>1
    <3> HIDE DEF next
    <3> QED
      BY <3>2, <3>3
  <2> QED
    BY <1>1, <1>4, <2>1, <2>3, <2>4 DEF ClientTypes
<1>7. ASSUME \/ \E u \in asked : Ask(u)
             \/ \E s \in Process :
                  \/ \E m \in reconfigMsgs : Reconfig(s, m)
                  \/ hasUpdatesToCurrentView(s)
                  \/ startReconfiguration(s)
                  \/ \E p \in proposed : createForMessage(s, p.view)
                  \/ \E d \in decided : generatedViewSeq(s, d)
                  \/ \E m \in installMsgs :
                       \/ NoQuorumYet(s, m) \/ gotOldInstallView(s, m)
                       \/ gotLockedMutex(s, m) \/ gotInstallSeqQuorum(s, m)
                  \/ \E m \in stateMsgs : StateUpdate(s, m)
                  \/ updateCurrentView(s)
                  \/ ViewInstalled(s)
                  \/ Crash(s)
                  \/ \E r \in requests : WriteWaits(s, r)
             \/ \E v \in Views : Decide(v)
             \/ \E g \in starting : generateViewSequence(g)
      PROVE  UNCHANGED clientVars
  BY <1>7 DEF Ask, Reconfig, hasUpdatesToCurrentView, startReconfiguration, generateViewSequence,
     createForMessage, generatedViewSeq,
     NoQuorumYet, gotOldInstallView, gotLockedMutex, gotInstallSeqQuorum, StateUpdate,
     updateCurrentView, ViewInstalled, Crash, WriteWaits, Decide
<1> QED
  BY <1>2, <1>3, <1>5, <1>6, <1>7 DEF Next

(* Among the states of a quorum one is the newest.                         *)
LEMMA NewestExists ==
  ASSUME NEW M, M # {}, NEW k \in Nat, \A m \in M : m.Timestamp \in 0..k
  PROVE  /\ NewestTimestamp(M) \in 0..k
         /\ \A m \in M : m.Timestamp <= NewestTimestamp(M)
<1> DEFINE T == {k - m.Timestamp : m \in M}
<1>1. T \subseteq Nat /\ T # {}
  OBVIOUS
<1>2. PICK x \in T : \A y \in T : ~(<<y, x>> \in OpToRel(<, Nat))
  BY <1>1, NatLessThanWellFounded, WFMin
<1>3. \A y \in T : ~(y < x)
  BY <1>1, <1>2 DEF OpToRel
<1>4. PICK n \in M : x = k - n.Timestamp
  OBVIOUS
<1>5. ASSUME NEW m \in M PROVE m.Timestamp <= n.Timestamp
  <2>1. ~(k - m.Timestamp < k - n.Timestamp)
    BY <1>3, <1>4
  <2>2. m.Timestamp \in 0..k /\ n.Timestamp \in 0..k
    OBVIOUS
  <2> QED
    BY <2>1, <2>2
<1>6. \E t \in {m.Timestamp : m \in M} : \A m \in M : m.Timestamp <= t
  BY <1>5
<1>7. /\ NewestTimestamp(M) \in {m.Timestamp : m \in M}
      /\ \A m \in M : m.Timestamp <= NewestTimestamp(M)
  BY <1>6 DEF NewestTimestamp
<1> QED
  BY <1>7

(* Registers hold timestamps of writes that the client made.               *)
LEMMA RegisterTypesNext ==
  ASSUME RegisterTypes, ClientTypes, UpdateTypes, InstallInv, GeneratesViews, Next
  PROVE  RegisterTypes'
<1>1. MaxWrites \in Nat
  BY ReconfigurationAssumption
<1>2. ASSUME UNCHANGED <<register, stateMsgs>> PROVE RegisterTypes'
  BY <1>2 DEF RegisterTypes
<1>3. ASSUME NEW s \in Process, NEW m \in installMsgs,
             gotOldInstallView(s, m) \/ gotInstallSeqQuorum(s, m)
      PROVE  RegisterTypes'
  <2>1. UNCHANGED register /\ \A n \in stateMsgs' : n \in stateMsgs \/ n.Timestamp = register[s]
    BY <1>3 DEF gotOldInstallView, gotInstallSeqQuorum, SendState
  <2> QED
    BY <2>1 DEF RegisterTypes
<1>4. ASSUME NEW s \in Process, updateCurrentView(s) PROVE RegisterTypes'
  <2> DEFINE v == installing[s].AssociatedView
             M == StatesFor(s, v)
  <2>1. /\ register' = [register EXCEPT ![s] = NewestTimestamp(M)]
        /\ UNCHANGED stateMsgs
        /\ pc[s] = "sync"
        /\ Cardinality(M) = QuorumSize(v)
    BY <1>4 DEF updateCurrentView, syncState, EnoughStates
  <2>2. v \in View
    BY <2>1, SeqsAreViews DEF InstallInv, ViewsInv, PhaseInv, InstallSeq
  <2>3. M # {}
    <3>1. QuorumSize(v) \in Nat /\ QuorumSize(v) > 0
      BY <2>2, QuorumIsMajority
    <3> HIDE DEF M, v
    <3> QED
      BY <2>1, <3>1, FS_EmptySet
  <2>4. M \subseteq stateMsgs
    BY DEF StatesFor, UpdateTypes
  <2>5. NewestTimestamp(M) \in 0..MaxWrites
    BY <1>1, <2>3, <2>4, NewestExists DEF RegisterTypes
  <2> HIDE DEF M
  <2> QED
    BY <2>1, <2>5 DEF RegisterTypes
<1>5. ASSUME NEW s \in Process, NEW r \in requests, Write(s, r) PROVE RegisterTypes'
  <2>1. /\ register' = [register EXCEPT ![s] = Max2(register[s], r.Timestamp)]
        /\ UNCHANGED stateMsgs
    BY <1>5 DEF Write, netVars
  <2>2. Max2(register[s], r.Timestamp) \in 0..MaxWrites
    BY <1>1 DEF Max2, RegisterTypes, ClientTypes
  <2> QED
    BY <2>1, <2>2 DEF RegisterTypes
<1>6. ASSUME \/ \E u \in asked : Ask(u)
             \/ \E s \in Process :
                  \/ \E m \in reconfigMsgs : Reconfig(s, m)
                  \/ hasUpdatesToCurrentView(s)
                  \/ startReconfiguration(s)
                  \/ \E p \in proposed : createForMessage(s, p.view)
                  \/ \E d \in decided : generatedViewSeq(s, d)
                  \/ \E m \in installMsgs : NoQuorumYet(s, m) \/ gotLockedMutex(s, m)
                  \/ \E m \in stateMsgs : StateUpdate(s, m)
                  \/ ViewInstalled(s)
                  \/ Crash(s)
                  \/ \E r \in requests : WriteWaits(s, r)
                  \/ ClientRetry(s)
             \/ \E v \in Views : Decide(v)
             \/ ClientReturn
             \/ \E g \in starting : generateViewSequence(g)
      PROVE  UNCHANGED <<register, stateMsgs>>
  BY <1>6 DEF Ask, Reconfig, hasUpdatesToCurrentView, startReconfiguration, generateViewSequence,
     createForMessage, generatedViewSeq,
     NoQuorumYet, gotLockedMutex, StateUpdate, ViewInstalled, Crash, WriteWaits,
     ClientRetry, Decide, ClientReturn, serverVars, netVars
<1> QED
  BY <1>2, <1>3, <1>4, <1>5, <1>6 DEF Next

(* The types hold at the beginning.                                        *)
LEMMA TypesInit ==
  ASSUME Init PROVE Types
<1>1. MaxWrites \in Nat
  BY ReconfigurationAssumption
<1>2. PICK b \in Start :
        /\ disabled = [s \in Process |-> ~HasMember(b.view, s)]
        /\ recv = b.recv
        /\ asked = b.asked
        /\ installMsgs = UNION {{InstallSeqMsg(s, b.view, seq) :
                                   seq \in b.generated} : s \in Members(b.view)}
        /\ client = [view |-> b.view, acks |-> {},
                      Timestamp |-> IF b.writes THEN 1 ELSE MaxWrites + 1]
  BY DEF Init
<1>3. /\ register = [s \in Process |-> 0]
      /\ lockOnceDone = [s \in Process |-> FALSE]
      /\ last = [s \in Process |-> [p \in Process |-> NoSeq]]
      /\ counter = [s \in Process |-> [i \in {} |-> 0]]
      /\ stateSeen = [s \in Process |-> {}]
      /\ reading = [s \in Process |-> FALSE]
      /\ timer = [s \in Process |-> FALSE]
      /\ reconfigMsgs = {} /\ stateMsgs = {}
      /\ requests = Requests(client)
      /\ high = 0
  BY DEF Init
<1>4. /\ b.view \in View
      /\ b.recv \in [Process -> SUBSET (Update \ b.view)]
      /\ b.asked \subseteq Update
  BY ReconfigurationAssumption
<1>5. LoopTypes
  <2>1. \A m \in installMsgs : m.Sender \in Process
    <3> TAKE m \in installMsgs
    <3>1. PICK s \in Members(b.view), seq \in b.generated : m = InstallSeqMsg(s, b.view, seq)
      BY <1>2
    <3> QED
      BY <3>1, MembersAreProcesses DEF InstallSeqMsg
  <2> QED
    BY <1>3, <2>1 DEF LoopTypes
<1>6. UpdateTypes
  BY <1>2, <1>3, <1>4 DEF UpdateTypes
<1>7. FlagTypes
  BY <1>2, <1>3 DEF FlagTypes
<1>8. ClientTypes
  <2>1. \A r \in requests : r.Timestamp \in 1..MaxWrites
    BY <1>3 DEF Requests
  <2>2. (IF b.writes THEN 1 ELSE MaxWrites + 1) \in 1..(MaxWrites + 1)
    BY <1>1
  <2>3. client \in [view : View, acks : SUBSET Process, Timestamp : 1..(MaxWrites + 1)]
    BY <1>2, <1>4, <2>2
  <2>4. client.acks = {}
    BY <1>2
  <2> QED
    BY <1>1, <1>3, <2>1, <2>3, <2>4 DEF ClientTypes
<1>9. RegisterTypes
  BY <1>1, <1>3 DEF RegisterTypes
<1> QED
  BY <1>5, <1>6, <1>7, <1>8, <1>9 DEF Types

(* Steps preserve the types.                                               *)
LEMMA TypesNext ==
  ASSUME Types, InstallInv, GeneratesViews, GeneratesViews', [Next]_vars
  PROVE  Types'
<1>1. CASE Next
  BY <1>1, LoopTypesNext, UpdateTypesNext, FlagTypesNext, ClientTypesNext, RegisterTypesNext
     DEF Types
<1>2. CASE UNCHANGED vars
  <2>1. LoopTypes'
    BY <1>2 DEF vars, serverVars, netVars, Types, LoopTypes, Seqs, InstallOf
  <2>2. UpdateTypes' /\ FlagTypes' /\ ClientTypes' /\ RegisterTypes'
    BY <1>2 DEF vars, serverVars, callVars, netVars, clientVars, Types, UpdateTypes, FlagTypes,
       ClientTypes, RegisterTypes
  <2> QED
    BY <2>1, <2>2 DEF Types
<1> QED
  BY <1>1, <1>2

(* Types and InstallInv are what TypeOK says.                              *)
LEMMA TypesAreTypeOK ==
  ASSUME Types, InstallInv, GeneratesViews PROVE TypeOK
<1>1. \A i \in Seqs \cup {NoSeq} : i \in InstallSeq
  <2>1. NoSeq \in InstallSeq
    BY DEF NoSeq, InstallSeq, View
  <2> QED
    BY <2>1, SeqsAreViews DEF InstallInv, ViewsInv
<1>2. \A s \in Process : installing[s] \in InstallSeq
  BY <1>1 DEF InstallInv, ViewsInv
<1>3. \A s, p \in Process : last[s][p] \in InstallSeq
  BY <1>1 DEF Types, LoopTypes
<1>4. ASSUME NEW s \in Process, NEW i \in InstallSeqs
      PROVE  Counted(s, i) \in 0..QuorumSize(i.AssociatedView)
  <2>1. i \in Seqs
    BY DEF InstallSeqs, InstallInv, ViewsInv
  <2>2. QuorumSize(i.AssociatedView) \in Nat
    BY <1>1, <2>1, QuorumIsMajority DEF InstallSeq
  <2> QED
    BY <2>2 DEF Counted, Types, LoopTypes
<1>5. \A s \in Process : stateSeen[s] \subseteq stateMsgs
  BY DEF Types, UpdateTypes
<1>6. {disabled, lockOnceDone, reading, timer} \subseteq [Process -> BOOLEAN]
  BY DEF Types, FlagTypes
<1> QED
  BY <1>2, <1>3, <1>4, <1>5, <1>6
     DEF TypeOK, Types, UpdateTypes, ClientTypes, RegisterTypes, InstallInv, ViewsInv, Phase

-----------------------------------------------------------------------------
(***************************************************************************)
(* The generators generate views because they merge what servers propose,  *)
(* and servers propose their views with the updates that they know of or   *)
(* what is left of a sequence.                                             *)
(***************************************************************************)
ViewSequence == Seq(View) \ {<<>>}

GenInv ==
  /\ \A p \in proposed : p.seq \in ViewSequence
  /\ \A g \in starting : g.seq \in ViewSequence
  /\ \A d \in decided : d.seq \in ViewSequence

(* A sequence of views has a least view.                                   *)
LEMMA LeastIsView ==
  ASSUME NEW seq \in ViewSequence PROVE GetLeastUpdatedView(seq) \in View
<1>1. seq \in Seq(View) /\ seq # <<>>
  BY DEF ViewSequence
<1>2. PICK i \in DOMAIN seq : GetLeastUpdatedView(seq) = seq[i]
  BY <1>1, LeastIsLeast
<1> QED
  BY <1>1, <1>2

(* Two sequences of views merge to one.                                    *)
LEMMA MergeIsViewSequence ==
  ASSUME NEW seq \in ViewSequence, NEW other \in ViewSequence, NEW c \in Seq(View)
  PROVE  Merge(seq, other, c) \in ViewSequence
<1>1. seq \in Seq(View) /\ other \in Seq(View) /\ Len(seq) > 0
  BY DEF ViewSequence
<1>2. GetMostUpdatedView(seq) \cup GetMostUpdatedView(other) \in View
  BY <1>1, MostIsView DEF View
<1> DEFINE m == GetMostUpdatedView(seq) \cup GetMostUpdatedView(other)
<1> HIDE DEF m
<1>3. AppendViews(c, <<m>>) \in ViewSequence
  <2> DEFINE r == AppendViews(c, <<m>>)
  <2>1. <<m>> \in Seq(View) /\ Len(<<m>>) = 1
    BY <1>2 DEF m
  <2>2. /\ r \in Seq(View)
        /\ \A j \in 1..Len(<<m>>) : HasView(c, <<m>>[j]) \/ \E k \in 1..Len(r) : r[k] = <<m>>[j]
        /\ Len(r) >= Len(c)
    BY <2>1, AppendAdds
  <2>3. HasView(c, m) \/ \E k \in 1..Len(r) : r[k] = m
    BY <2>1, <2>2
  <2> HIDE DEF r
  <2>4. r # <<>>
    BY <2>2, <2>3 DEF HasView
  <2> QED
    BY <2>2, <2>4 DEF ViewSequence, r
<1>4. AppendViews(seq, other) \in Seq(View) /\ Len(AppendViews(seq, other)) >= Len(seq)
  BY <1>1, AppendAdds
<1>5. AppendViews(seq, other) \in ViewSequence
  BY <1>1, <1>4 DEF ViewSequence
<1> QED
  BY <1>3, <1>5 DEF Merge, NewWithUpdates, m

(* The sequences that are generated merge two proposals.                   *)
LEMMA GeneratedIsMerge ==
  ASSUME NEW v, NEW seq \in Generated(v)
  PROVE  \E p, q \in proposed : \E c \in {<<>>} \cup {r.seq : r \in proposed} :
           p.view = v /\ q.view = v /\ seq = Merge(p.seq, q.seq, c)
<1> DEFINE P == {p \in proposed : p.view = v}
           Least(p) == GetLeastUpdatedView(p.seq)
           Backed(p) == Cardinality({q \in P : q.seq = p.seq}) >= QuorumSize(v)
           Converged == {<<>>} \cup {p.seq : p \in {p \in P : Backed(p)}}
           Partners(p) == {q \in P : /\ ~MoreUpdatedThan(Least(p), Least(q))
                                     /\ IF p.seq = q.seq THEN Backed(p)
                                        ELSE \/ NumberOfMembers(v) > 2
                                             \/ Len(Merge(p.seq, q.seq, <<>>)) = 1}
           Merged(p) == UNION {{Merge(p.seq, q.seq, c) : c \in Converged} : q \in Partners(p)}
<1>1. seq \in UNION {Merged(p) : p \in P}
  BY DEF Generated
<1>2. /\ \A p : Partners(p) \subseteq P
      /\ Converged \subseteq {<<>>} \cup {r.seq : r \in proposed}
  OBVIOUS
<1> HIDE DEF Converged, Partners
<1>3. PICK p \in P : seq \in Merged(p)
  BY <1>1
<1>4. PICK q \in Partners(p) : seq \in {Merge(p.seq, q.seq, c) : c \in Converged}
  BY <1>3
<1>5. PICK c \in Converged : seq = Merge(p.seq, q.seq, c)
  BY <1>4
<1> QED
  BY <1>2, <1>5

(* So the generators generate views.                                       *)
LEMMA GeneratorsGenerate ==
  ASSUME GenInv PROVE GeneratesViews
BY LeastIsView DEF GenInv, GeneratesViews, ViewSequence

(* The sequences hold views from the beginning on.                         *)
LEMMA GenInit ==
  ASSUME Init PROVE GenInv
<1>1. PICK b \in Start :
        /\ decided = {[view |-> b.view, seq |-> seq] : seq \in b.generated}
        /\ proposed = UNION {{[process |-> s, view |-> b.view, seq |-> seq] :
                                seq \in b.generated} : s \in Members(b.view)}
  BY DEF Init
<1>2. b.generated \subseteq ViewSequence
  BY ReconfigurationAssumption DEF ViewSequence
<1> QED
  BY <1>1, <1>2 DEF GenInv, Init

(* A proposal of views preserves GenInv.                                   *)
LEMMA ProposeStep ==
  ASSUME GenInv, NEW s, NEW v, NEW seq \in ViewSequence, Propose(s, v, seq),
         starting' \subseteq starting, UNCHANGED decided
  PROVE  GenInv'
BY DEF Propose, GenInv

(* Steps preserve GenInv.                                                  *)
LEMMA GenNext ==
  ASSUME GenInv, InstallInv, UpdateTypes, [Next]_vars
  PROVE  GenInv'
<1>1. ASSUME UNCHANGED <<proposed, starting, decided>> PROVE GenInv'
  BY <1>1 DEF GenInv
<1>2. ASSUME NEW v \in View, NEW r \in SUBSET Update
      PROVE  <<NewCopyWithUpdates(v, r)>> \in ViewSequence
  <2> DEFINE w == NewCopyWithUpdates(v, r)
  <2>1. w \in View
    BY DEF NewCopyWithUpdates, NewWithUpdates, View
  <2>2. ASSUME NEW x \in View PROVE <<x>> \in ViewSequence
    BY DEF ViewSequence
  <2> QED
    BY <2>1, <2>2
<1>3. ASSUME NEW s \in Process PROVE getInitialViewSeq(s) \in ViewSequence
  <2>1. currentView[s] \in View /\ recv[s] \in SUBSET Update
    BY DEF InstallInv, ViewsInv, UpdateTypes
  <2> QED
    BY <1>2, <2>1 DEF getInitialViewSeq
<1>4. ASSUME NEW s \in Process, startReconfiguration(s) PROVE GenInv'
  BY <1>3, <1>4, ProposeStep DEF startReconfiguration
<1>5. ASSUME NEW s \in Process, NEW p \in proposed, createForMessage(s, p.view) PROVE GenInv'
  BY <1>3, <1>5, ProposeStep DEF createForMessage, callVars
<1>6. ASSUME NEW s, NEW cv \in View, NEW i \in Seqs, InstallOthers(s, cv, i),
             UNCHANGED <<proposed, decided>>
      PROVE  GenInv'
  <2>1. i.ViewSeq \in Seq(View)
    BY DEF Seqs, InstallOf, GenInv, ViewSequence
  <2>2. CASE HasViewMoreUpdatedThan(i.ViewSeq, cv)
    <3>1. ViewsMoreUpdatedThan(i.ViewSeq, cv) \in ViewSequence
      BY <2>1, <2>2, KeepsNewer DEF ViewSequence
    <3> QED
      BY <1>6, <2>2, <3>1 DEF InstallOthers, GenInv
  <2>3. CASE ~HasViewMoreUpdatedThan(i.ViewSeq, cv)
    BY <1>1, <1>6, <2>3 DEF InstallOthers
  <2> QED
    BY <2>2, <2>3
<1>7. ASSUME NEW s \in Process, NEW m \in installMsgs, gotOldInstallView(s, m) PROVE GenInv'
  <2>1. currentView[s] \in View /\ m.InstallSeq \in Seqs
    BY DEF InstallInv, ViewsInv
  <2> QED
    BY <1>6, <1>7, <2>1 DEF gotOldInstallView
<1>8. ASSUME NEW s \in Process, updateCurrentView(s) PROVE GenInv'
  <2> DEFINE i == installing[s]
  <2>1. /\ pc[s] = "sync" /\ InstallOthers(s, i.InstallView, i)
        /\ UNCHANGED <<proposed, decided>>
    BY <1>8 DEF updateCurrentView
  <2>2. i \in Seqs
    BY <2>1 DEF InstallInv, PhaseInv
  <2>3. i.InstallView \in View
    BY <2>2, LeastIsView DEF Seqs, InstallOf, GenInv
  <2> QED
    BY <1>6, <2>1, <2>2, <2>3
<1>9. ASSUME NEW v \in Views, Decide(v) PROVE GenInv'
  <2>1. PICK seq \in Generated(v) : decided' = decided \cup {[view |-> v, seq |-> seq]}
    BY <1>9 DEF Decide
  <2>2. PICK p \in proposed, q \in proposed :
          \E c \in {<<>>} \cup {r.seq : r \in proposed} : seq = Merge(p.seq, q.seq, c)
    BY <2>1, GeneratedIsMerge
  <2>3. PICK c \in {<<>>} \cup {r.seq : r \in proposed} : seq = Merge(p.seq, q.seq, c)
    BY <2>2
  <2>4. c \in Seq(View)
    <3>1. CASE c = <<>>
      BY <3>1
    <3>2. CASE \E r \in proposed : c = r.seq
      BY <3>2 DEF GenInv, ViewSequence
    <3> QED
      BY <3>1, <3>2
  <2>5. seq \in ViewSequence
    BY <2>3, <2>4, MergeIsViewSequence DEF GenInv
  <2> QED
    BY <1>9, <2>1, <2>5 DEF Decide, callVars, GenInv
<1>10. ASSUME \/ \E u \in asked : Ask(u)
              \/ \E s \in Process :
                   \/ \E m \in reconfigMsgs : Reconfig(s, m)
                   \/ hasUpdatesToCurrentView(s)
                   \/ \E d \in decided : generatedViewSeq(s, d)
                   \/ \E m \in installMsgs :
                        NoQuorumYet(s, m) \/ gotLockedMutex(s, m) \/ gotInstallSeqQuorum(s, m)
                   \/ \E m \in stateMsgs : StateUpdate(s, m)
                   \/ ViewInstalled(s)
                   \/ Crash(s)
                   \/ \E r \in requests : Write(s, r) \/ WriteWaits(s, r)
                   \/ ClientRetry(s)
              \/ ClientReturn
              \/ UNCHANGED vars
       PROVE  UNCHANGED <<proposed, starting, decided>>
  BY <1>10 DEF Ask, Reconfig, hasUpdatesToCurrentView, generatedViewSeq, NoQuorumYet, gotLockedMutex,
     gotInstallSeqQuorum, StateUpdate, ViewInstalled, Crash, Write, WriteWaits, ClientRetry,
     ClientReturn, serverVars, callVars, netVars, vars
<1>11. ASSUME NEW g \in starting, generateViewSequence(g) PROVE GenInv'
  <2>1. g.seq \in ViewSequence
    BY DEF GenInv
  <2> QED
    BY <1>11, <2>1, ProposeStep DEF generateViewSequence
<1> QED
  BY <1>1, <1>4, <1>5, <1>7, <1>8, <1>9, <1>10, <1>11 DEF Next

-----------------------------------------------------------------------------
(* The generators generate views, InstallInv and the types hold in every   *)
(* state: each of the three needs the others.                              *)
LEMMA ReconfigurationInvariance == Spec => [](GeneratesViews /\ InstallInv /\ Types)
<1> DEFINE Inv == GenInv /\ InstallInv /\ Types
<1>1. Init => Inv
  BY GenInit, InstallInit, TypesInit
<1>2. ASSUME Inv, [Next]_vars PROVE Inv'
  <2>1. GenInv'
    BY <1>2, GenNext DEF Types
  <2>2. GeneratesViews /\ GeneratesViews'
    <3>1. GeneratesViews
      BY <1>2, GeneratorsGenerate
    <3>2. GeneratesViews'
      BY <2>1, LeastIsView DEF GenInv, GeneratesViews, ViewSequence
    <3> QED
      BY <3>1, <3>2
  <2>3. InstallInv'
    BY <1>2, <2>2, InstallNext
  <2>4. Types'
    BY <1>2, <2>2, TypesNext
  <2> QED
    BY <2>1, <2>3, <2>4
<1>3. Inv /\ [Next]_vars => Inv'
  BY <1>2
<1>4. Inv => GeneratesViews /\ InstallInv /\ Types
  BY GeneratorsGenerate
<1> HIDE DEF Inv
<1> QED
  BY <1>1, <1>3, <1>4, PTL DEF Spec

(* A server that is not in the new view exits only after a quorum of that  *)
(* view has installed it, whatever is lost, delayed or repeated: the       *)
(* quorum is of different servers, because a server installs a view once,  *)
(* and it lasts, because views only grow.                                  *)
THEOREM LeavingIsSafe == Spec => []LeaveIsSafe
<1>1. InstallInv => LeaveIsSafe
  BY DEF InstallInv
<1> QED
  BY <1>1, ReconfigurationInvariance, PTL

(* Every variable keeps its type in every cluster and for every number of  *)
(* writes.                                                                 *)
THEOREM ReconfigurationTypeCorrect == Spec => []TypeOK
<1>1. Types /\ InstallInv /\ GeneratesViews => TypeOK
  BY TypesAreTypeOK
<1> QED
  BY <1>1, ReconfigurationInvariance, PTL
=============================================================================
