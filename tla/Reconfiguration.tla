--------------------------- MODULE Reconfiguration ---------------------------
(***************************************************************************)
(* How servers move from view to view (pkg/server/reconfiguration.go,      *)
(* server.go, admin.go): requests to join and leave are collected in recv, *)
(* a view generator turns them into a sequence of views, and the least     *)
(* view of that sequence is installed with the state of a quorum of the    *)
(* old one, while reads and writes are disabled.                           *)
(*                                                                         *)
(* The view generator (pkg/server/viewgenerator.go) is taken here as a     *)
(* black box: from what the servers propose for an associated view it      *)
(* makes sequences of which one always contains the other.  A client       *)
(* writes to the register all along.                                       *)
(*                                                                         *)
(* Broadcasts go to everybody concerned and are re-sent by their           *)
(* receivers, so a message that was sent stays in a set and can be         *)
(* received at any time, or again.                                         *)
(***************************************************************************)
EXTENDS ViewSeqs

CONSTANTS Start,        \* where a run may begin: the view of all servers, the
                        \*   updates that they have accepted so far, those that
                        \*   processes are going to ask for, the sequences that
                        \*   the generators of the view have made, if any, and
                        \*   whether there is a client
          MaxSequences, \* bound on the sequences generated for one view
          MayCrash,     \* the processes that may stop for ever
          SlowTimers,   \* those whose timer may fire while a view is installed
          MaxWrites     \* bound on the writes of the client

ASSUME ReconfigurationAssumption ==
  /\ \A b \in Start :
       /\ b.view \in View
       /\ b.recv \in [Process -> SUBSET (Update \ b.view)]
       /\ \A s \in Process \ Members(b.view) : b.recv[s] = {}
       /\ b.asked \subseteq Update
       /\ b.generated \subseteq Seq(View) \ {<<>>}
       /\ b.writes \in BOOLEAN
  /\ MaxSequences \in Nat
  /\ MayCrash \subseteq Process
  /\ SlowTimers \subseteq Process
  /\ MaxWrites \in Nat

VARIABLES
  currentView,    \* the current view of every server
  register,       \* the timestamp in its register
  disabled,       \* register.mu is held by the reconfiguration
  lockOnceDone,   \* registerLockOnce has been used
  recv,           \* the updates for the next view
  pc,             \* what the install-seq loop of a server is doing
  installing,     \* the InstallSeq it is busy with
  last,           \* processToInstallSeqMsgMap
  counter,        \* installSeqQuorumCounter
  stateSeen,      \* the state updates that counted
  reading         \* a request waits for register.mu and holds currentViewMu

serverVars == <<currentView, register, disabled, lockOnceDone, recv, pc,
                installing, last, counter, stateSeen, reading>>

VARIABLES
  timer,          \* startReconfiguration found updates in recv, and waits for
                  \*   currentViewMu
  starting        \* calls of generateViewSequence that have yet to run

callVars == <<timer, starting>>

VARIABLES
  asked,          \* the requests that processes have yet to make
  reconfigMsgs,   \* ReconfigMsgs that were broadcast
  proposed,       \* the initial sequences of the view generators
  decided,        \* what the view generators agreed on
  installMsgs,    \* InstallSeqMsgs
  stateMsgs,      \* SyncStateMsgs, with their sender, what they are for, and
                  \* the view in which the sender was (history: nobody reads it)
  installedMsgs   \* ViewInstalledMsgs, with their sender and destinations

netVars == <<asked, reconfigMsgs, proposed, decided, installMsgs, stateMsgs,
             installedMsgs>>

VARIABLES
  client,         \* the client: its view, its timestamp, who acknowledged it
  requests,       \* the write requests it has sent
  high,           \* the greatest timestamp whose write returned
  accepted        \* history: who accepted which reconfiguration request

clientVars == <<client, requests, high>>

vars == <<serverVars, callVars, netVars, clientVars, accepted>>

-----------------------------------------------------------------------------
Views == {currentView[s] : s \in Process}

InstallSeqs == {m.InstallSeq : m \in installMsgs}

InstallSeq == [AssociatedView : View, InstallView : View, ViewSeq : Seq(View)]

NoSeq == [AssociatedView |-> {}, InstallView |-> {}, ViewSeq |-> <<>>]

Max2(a, b) == IF a >= b THEN a ELSE b

Running(s) == pc[s] \notin {"left", "down"}

\* currentViewMu is free for readers: the loop is not inside
\* gotInstallSeqQuorum.
Serving(s) == pc[s] = "loop"

\* A read or a write that uses view v is answered with a value.
ReadsAndWrites(s, v) == Serving(s) /\ currentView[s] = v /\ ~disabled[s]

-----------------------------------------------------------------------------
(***************************************************************************)
(* Joining and leaving                                                     *)
(***************************************************************************)
\* joinLocked, when a server starts outside of its view, and AdminService.Leave.
Ask(u) ==
  LET s == u.Process IN
  /\ Serving(s)
  /\ u.Type = Join => ~HasMember(currentView[s], s)
  /\ asked' = asked \ {u}
  /\ reconfigMsgs' = reconfigMsgs \cup
                       {[AssociatedView |-> currentView[s], Update |-> u]}
  /\ UNCHANGED <<serverVars, callVars, proposed, decided, installMsgs, stateMsgs,
                 installedMsgs, clientVars, accepted>>

Reconfig(s, m) ==
  /\ Serving(s)
  /\ HasMember(m.AssociatedView, s)
  /\ Equal(m.AssociatedView, currentView[s])
  /\ m.Update \notin currentView[s]
  /\ recv' = [recv EXCEPT ![s] = @ \cup {m.Update}]
  /\ accepted' = accepted \cup
                   {[process |-> s, view |-> currentView[s], update |-> m.Update]}
  /\ UNCHANGED <<currentView, register, disabled, lockOnceDone, pc, installing, last,
                 counter, stateSeen, reading, callVars, netVars, clientVars>>

-----------------------------------------------------------------------------
(***************************************************************************)
(* The view generator, as seen from here                                   *)
(***************************************************************************)
\* getOrCreateViewGenerator: a server proposes once for each view.
Propose(s, v, seq) ==
  proposed' = IF \E p \in proposed : p.process = s /\ p.view = v THEN proposed
              ELSE proposed \cup {[process |-> s, view |-> v, seq |-> seq]}

getInitialViewSeq(s) == <<NewCopyWithUpdates(currentView[s], recv[s])>>

\* The timer fires during the transfer of the state and finds recv as it was
\* in the old view.  (Outside of it the check may as well be made just before
\* recv is used, since recv only grows.)  A timer is set again only at the end
\* of a reconfiguration or when it found nothing, so this is a server whose
\* generator was created by a message.
hasUpdatesToCurrentView(s) ==
  /\ s \in SlowTimers
  /\ pc[s] = "sync"
  /\ recv[s] # {}
  /\ timer' = [timer EXCEPT ![s] = TRUE]
  /\ UNCHANGED <<serverVars, starting, netVars, clientVars, accepted>>

\* The rest of it, when currentViewMu is free: the view and recv are those of
\* now, and recv may have been emptied since the check.
startReconfiguration(s) ==
  /\ Serving(s)
  /\ recv[s] # {} \/ timer[s]
  /\ timer' = [timer EXCEPT ![s] = FALSE]
  /\ Propose(s, currentView[s], getInitialViewSeq(s))
  /\ UNCHANGED <<serverVars, starting, asked, reconfigMsgs, decided, installMsgs,
                 stateMsgs, installedMsgs, clientVars, accepted>>

\* The goroutine that installOthersViewsFromViewSeqLocked started.  The timer
\* or a message may have created the generator before it gets there.
generateViewSequence(g) ==
  /\ Running(g.process)
  /\ starting' = starting \ {g}
  /\ Propose(g.process, g.view, g.seq)
  /\ UNCHANGED <<serverVars, timer, asked, reconfigMsgs, decided, installMsgs,
                 stateMsgs, installedMsgs, clientVars, accepted>>

\* ProposeSeqView, SeqConv: a message of another generator for view v makes a
\* server create its own, whatever its view and recv are at that time.
createForMessage(s, v) ==
  /\ Serving(s)
  /\ HasMember(v, s)
  /\ \A p \in proposed : p.view = v => p.process # s
  /\ Propose(s, v, getInitialViewSeq(s))
  /\ UNCHANGED <<serverVars, callVars, asked, reconfigMsgs, decided, installMsgs,
                 stateMsgs, installedMsgs, clientVars, accepted>>

\* How a generator combines its proposal with another one, when the last
\* sequence that converged is c.
Merge(seq, other, c) ==
  IF \E i \in DOMAIN seq, j \in DOMAIN other : Conflict(seq[i], other[j])
  THEN AppendViews(c, <<NewWithUpdates(GetMostUpdatedView(seq) \cup GetMostUpdatedView(other))>>)
  ELSE AppendViews(seq, other)

Nested(seq, other) ==
  \/ SeqOps!ToSet(seq) \subseteq SeqOps!ToSet(other)
  \/ SeqOps!ToSet(other) \subseteq SeqOps!ToSet(seq)

\* A quorum has to propose a sequence.  It is either what that quorum began
\* with, or a merge, on top of what a quorum began with when there is a
\* conflict.  Of two servers, each appends the views of the other one to its
\* own, and SeqConv.Equal tells the two orders apart.  This is the worker of
\* module ViewGenerator cut short: merges of merges are left out.
Generated(v) ==
  LET P == {p \in proposed : p.view = v}
      Least(p) == GetLeastUpdatedView(p.seq)
      Backed(p) == Cardinality({q \in P : q.seq = p.seq}) >= QuorumSize(v)
      Converged == {<<>>} \cup {p.seq : p \in {p \in P : Backed(p)}}
      Partners(p) == {q \in P : /\ ~MoreUpdatedThan(Least(p), Least(q))
                                /\ IF p.seq = q.seq THEN Backed(p)
                                   ELSE \/ NumberOfMembers(v) > 2
                                        \/ Len(Merge(p.seq, q.seq, <<>>)) = 1}
      Merged(p) == UNION {{Merge(p.seq, q.seq, c) : c \in Converged} : q \in Partners(p)}
  IN UNION {Merged(p) : p \in P}

\* One of the sequences that the generators of view v agree on.  The order
\* of its views is of no consequence here, so the older ones come first.
Decide(v) ==
  /\ Cardinality({d \in decided : d.view = v}) < MaxSequences
  /\ \E seq \in Generated(v) :
       /\ \A d \in decided : d.view = v => Nested(d.seq, seq) /\ ~SeqEqual(d.seq, seq)
       /\ decided' = decided \cup {[view |-> v, seq |-> seq]}
  /\ UNCHANGED <<serverVars, callVars, asked, reconfigMsgs, proposed, installMsgs,
                 stateMsgs, installedMsgs, clientVars, accepted>>

InstallSeqMsg(s, v, seq) ==
  [Sender |-> s,
   InstallSeq |-> [AssociatedView |-> v, InstallView |-> GetLeastUpdatedView(seq),
                   ViewSeq |-> seq]]

\* The loop that receives what the generator of a member made.
generatedViewSeq(s, d) ==
  /\ Running(s)
  /\ HasMember(d.view, s)
  /\ installMsgs' = installMsgs \cup {InstallSeqMsg(s, d.view, d.seq)}
  /\ UNCHANGED <<serverVars, callVars, asked, reconfigMsgs, proposed, decided,
                 stateMsgs, installedMsgs, clientVars, accepted>>

-----------------------------------------------------------------------------
(***************************************************************************)
(* Installing a view                                                       *)
(***************************************************************************)
Concerned(i) == Members(i.AssociatedView) \cup Members(i.InstallView)

Counted(s, i) == IF i \in DOMAIN counter[s] THEN counter[s][i] ELSE 0

\* A counter stays at its quorum size once it is there: it is only ever
\* compared for equality.
CountInstallSeq(s, i) ==
  counter' = [counter EXCEPT ![s] =
    [j \in DOMAIN counter[s] \cup {i} |->
       IF j # i THEN counter[s][j]
       ELSE IF Counted(s, i) = QuorumSize(i.AssociatedView) THEN Counted(s, i)
       ELSE Counted(s, i) + 1]]

ReachesQuorum(s, i) == Counted(s, i) + 1 = QuorumSize(i.AssociatedView)

NewerThanCurrent(s, i) == MoreUpdatedThan(i.InstallView, currentView[s])

\* The state that a member of the associated view sends, also when the view
\* to install is an old one.
SendState(s, i) ==
  stateMsgs' = IF ~HasMember(i.AssociatedView, s) THEN stateMsgs
               ELSE stateMsgs \cup
                 {[from |-> s, InstallSeq |-> i,
                   Timestamp |-> register[s], Recv |-> recv[s],
                   sentIn |-> currentView[s]]}

\* installOthersViewsFromViewSeqLocked for a server whose view is cv: the
\* rest of the sequence is proposed by a goroutine of its own.
InstallOthers(s, cv, i) ==
  starting' = IF HasViewMoreUpdatedThan(i.ViewSeq, cv)
              THEN starting \cup {[process |-> s, view |-> cv,
                                   seq |-> ViewsMoreUpdatedThan(i.ViewSeq, cv)]}
              ELSE starting

\* The register is to be locked: once, by a member of the associated view.
WantsLock(s, i) ==
  HasMember(i.AssociatedView, s) /\ NewerThanCurrent(s, i) /\ ~lockOnceDone[s]

\* The loop would wait for ever: for currentViewMu, held by a request that
\* itself waits for the register, or for a register that New locked.
StaysLocked(s, i) == reading[s] \/ (WantsLock(s, i) /\ disabled[s])

\* The install-seq loop takes a message that is no duplicate of the last one
\* of the same sender, and counts it.
TakeInstallSeq(s, m) ==
  /\ pc[s] = "loop"
  /\ last[s][m.Sender] # m.InstallSeq
  /\ s \in Concerned(m.InstallSeq)
  /\ last' = [last EXCEPT ![s][m.Sender] = m.InstallSeq]
  /\ CountInstallSeq(s, m.InstallSeq)

NoQuorumYet(s, m) ==
  /\ TakeInstallSeq(s, m)
  /\ ~ReachesQuorum(s, m.InstallSeq)
  /\ UNCHANGED <<currentView, register, disabled, lockOnceDone, recv, pc, installing,
                 stateSeen, reading, callVars, netVars, clientVars, accepted>>

\* gotInstallSeqQuorum with a view that is not newer than the current one.
gotOldInstallView(s, m) ==
  LET i == m.InstallSeq IN
  /\ TakeInstallSeq(s, m)
  /\ ReachesQuorum(s, i)
  /\ ~NewerThanCurrent(s, i)
  /\ ~StaysLocked(s, i)
  /\ SendState(s, i)
  /\ InstallOthers(s, currentView[s], i)
  /\ UNCHANGED <<currentView, register, disabled, lockOnceDone, recv, pc, installing,
                 stateSeen, reading, timer, asked, reconfigMsgs, proposed, decided,
                 installMsgs, installedMsgs, clientVars, accepted>>

\* gotInstallSeqQuorum asks for a mutex that nobody will release.
gotLockedMutex(s, m) ==
  LET i == m.InstallSeq IN
  /\ TakeInstallSeq(s, m)
  /\ ReachesQuorum(s, i)
  /\ StaysLocked(s, i)
  /\ pc' = [pc EXCEPT ![s] = "stuck"]
  /\ UNCHANGED <<currentView, register, disabled, lockOnceDone, recv, installing,
                 stateSeen, reading, callVars, netVars, clientVars, accepted>>

\* gotInstallSeqQuorum up to the point where it waits, for the state of a
\* quorum or for leave to go.
gotInstallSeqQuorum(s, m) ==
  LET i == m.InstallSeq IN
  /\ TakeInstallSeq(s, m)
  /\ ReachesQuorum(s, i)
  /\ NewerThanCurrent(s, i)
  /\ ~StaysLocked(s, i)
  /\ disabled' = [disabled EXCEPT ![s] = @ \/ WantsLock(s, i)]
  /\ lockOnceDone' = [lockOnceDone EXCEPT ![s] = @ \/ HasMember(i.AssociatedView, s)]
  /\ SendState(s, i)
  /\ installing' = [installing EXCEPT ![s] = i]
  /\ pc' = [pc EXCEPT ![s] = IF HasMember(i.InstallView, s) THEN "sync" ELSE "leaving"]
  /\ UNCHANGED <<currentView, register, recv, stateSeen, reading, callVars, asked,
                 reconfigMsgs, proposed, decided, installMsgs, installedMsgs, clientVars,
                 accepted>>

-----------------------------------------------------------------------------
(***************************************************************************)
(* State transfer                                                          *)
(***************************************************************************)
StatesFor(s, v) == {m \in stateSeen[s] : Equal(m.InstallSeq.AssociatedView, v)}

\* Mutant: the state of one server is enough.
EnoughStates_One(s, v) == StatesFor(s, v) # {}

\* Mutant: everybody has to send the state.
EnoughStates_All(s, v) == Cardinality(StatesFor(s, v)) = NumberOfMembers(v)

EnoughStates(s, v) == Cardinality(StatesFor(s, v)) = QuorumSize(v)

\* stateUpdateProcessingLoop counts the messages for an associated view,
\* whoever sent them.  The result is taken at the quorum, so later messages
\* for the same view change nothing.
StateUpdate(s, m) ==
  /\ Running(s)
  /\ HasMember(m.InstallSeq.InstallView, s)
  /\ m \notin stateSeen[s]
  /\ ~EnoughStates(s, m.InstallSeq.AssociatedView)
  /\ stateSeen' = [stateSeen EXCEPT ![s] = @ \cup {m}]
  /\ UNCHANGED <<currentView, register, disabled, lockOnceDone, recv, pc, installing,
                 last, counter, reading, callVars, netVars, clientVars, accepted>>

NewestTimestamp(states) ==
  CHOOSE t \in {m.Timestamp : m \in states} : \A m \in states : m.Timestamp <= t

\* Mutant: the recv of the others is not merged.
syncState_KeepsRecv(s, states, v) ==
  /\ register' = [register EXCEPT ![s] = NewestTimestamp(states)]
  /\ recv' = [recv EXCEPT ![s] = @ \ v]

\* Mutant: the comparison with finalValue, which starts at -1, is inverted.
syncState_Inverted(s, states, v) ==
  /\ register' = [register EXCEPT ![s] = -1]
  /\ recv' = [recv EXCEPT ![s] = (@ \cup UNION {m.Recv : m \in states}) \ v]

\* syncState: the newest value of the quorum, and all updates of the quorum
\* that the new view lacks.
syncState(s, states, v) ==
  /\ register' = [register EXCEPT ![s] = NewestTimestamp(states)]
  /\ recv' = [recv EXCEPT ![s] = (@ \cup UNION {m.Recv : m \in states}) \ v]

MoreToInstall(i) == HasViewMoreUpdatedThan(i.ViewSeq, i.InstallView)

\* Mutant: R/W operations are enabled with every view of the sequence.
EnableRegister_EveryView(s, i) ==
  /\ disabled' = [disabled EXCEPT ![s] = FALSE]
  /\ lockOnceDone' = [lockOnceDone EXCEPT ![s] =
       @ /\ (MoreToInstall(i) \/ ~HasMember(i.AssociatedView, s))]

\* With the last view of the sequence, R/W operations are enabled, and
\* registerLockOnce is renewed unless the server has just joined.
EnableRegister(s, i) ==
  /\ disabled' = [disabled EXCEPT ![s] = @ /\ MoreToInstall(i)]
  /\ lockOnceDone' = [lockOnceDone EXCEPT ![s] =
       @ /\ (MoreToInstall(i) \/ ~HasMember(i.AssociatedView, s))]

\* The rest of gotInstallSeqQuorum in a member of the new view.
updateCurrentView(s) ==
  LET i == installing[s] IN
  /\ pc[s] = "sync"
  /\ EnoughStates(s, i.AssociatedView)
  /\ syncState(s, StatesFor(s, i.AssociatedView), i.InstallView)
  /\ currentView' = [currentView EXCEPT ![s] = i.InstallView]
  /\ installedMsgs' = installedMsgs \cup
       {[from |-> s, InstalledView |-> i.InstallView,
         to |-> GetMembersNotIn(i.AssociatedView, i.InstallView)]}
  /\ InstallOthers(s, i.InstallView, i)
  /\ EnableRegister(s, i)
  /\ pc' = [pc EXCEPT ![s] = "loop"]
  /\ installing' = [installing EXCEPT ![s] = NoSeq]
  /\ UNCHANGED <<last, counter, stateSeen, reading, timer, asked, reconfigMsgs,
                 proposed, decided, installMsgs, stateMsgs, clientVars, accepted>>

\* Mutant: the first view-installed message is enough.
ViewInstalled_First(s) ==
  /\ pc[s] = "leaving"
  /\ \E m \in installedMsgs :
       s \in m.to /\ Equal(m.InstalledView, installing[s].InstallView)
  /\ pc' = [pc EXCEPT ![s] = "left"]
  /\ UNCHANGED <<currentView, register, disabled, lockOnceDone, recv, installing, last,
                 counter, stateSeen, reading, callVars, netVars, clientVars, accepted>>

\* A server that is not in the new view exits after a quorum installed it.
ViewInstalled(s) ==
  LET v == installing[s].InstallView IN
  /\ pc[s] = "leaving"
  /\ Cardinality({m \in installedMsgs : s \in m.to /\ Equal(m.InstalledView, v)})
       >= QuorumSize(v)
  /\ pc' = [pc EXCEPT ![s] = "left"]
  /\ UNCHANGED <<currentView, register, disabled, lockOnceDone, recv, installing, last,
                 counter, stateSeen, reading, callVars, netVars, clientVars, accepted>>

\* A server stops for ever; a majority of its view goes on.
Crash(s) ==
  /\ s \in MayCrash /\ Running(s)
  /\ NumberOfToleratedFaults(currentView[s]) > 0
  /\ pc' = [pc EXCEPT ![s] = "down"]
  /\ UNCHANGED <<currentView, register, disabled, lockOnceDone, recv, installing, last,
                 counter, stateSeen, reading, callVars, netVars, clientVars, accepted>>

-----------------------------------------------------------------------------
(***************************************************************************)
(* A client that writes.  Register shows how it finds the timestamp.       *)
(***************************************************************************)
Write(s, r) ==
  /\ HasMember(r.view, s)
  /\ ReadsAndWrites(s, r.view)
  /\ register' = [register EXCEPT ![s] = Max2(@, r.Timestamp)]
  /\ client' = IF r.view = client.view /\ r.Timestamp = client.Timestamp
               THEN [client EXCEPT !.acks = @ \cup {s}] ELSE client
  /\ UNCHANGED <<currentView, disabled, lockOnceDone, recv, pc, installing, last,
                 counter, stateSeen, reading, callVars, netVars, requests, high, accepted>>

\* A request with the right view finds the register locked between two views
\* of a sequence, and waits for it inside currentViewMu.
WriteWaits(s, r) ==
  /\ HasMember(r.view, s)
  /\ Serving(s) /\ currentView[s] = r.view /\ disabled[s]
  /\ ~reading[s]
  /\ reading' = [reading EXCEPT ![s] = TRUE]
  /\ UNCHANGED <<currentView, register, disabled, lockOnceDone, recv, pc, installing,
                 last, counter, stateSeen, callVars, netVars, clientVars, accepted>>

Requests(c) == {[view |-> c.view, Timestamp |-> t] : t \in {c.Timestamp} \cap 1..MaxWrites}

\* The client learns of a newer view and tries again there.
ClientRetry(s) ==
  /\ client.Timestamp <= MaxWrites
  /\ Serving(s)
  /\ MoreUpdatedThan(currentView[s], client.view)
  /\ client' = [client EXCEPT !.view = currentView[s], !.acks = {}]
  /\ requests' = requests \cup Requests(client')
  /\ UNCHANGED <<serverVars, callVars, netVars, high, accepted>>

\* A quorum acknowledged the write, and the client begins another one.
ClientReturn ==
  /\ Cardinality(client.acks) >= QuorumSize(client.view)
  /\ high' = client.Timestamp
  /\ client' = [client EXCEPT !.Timestamp = @ + 1, !.acks = {}]
  /\ requests' = requests \cup Requests(client')
  /\ UNCHANGED <<serverVars, callVars, netVars, accepted>>

-----------------------------------------------------------------------------
Init ==
  /\ \E b \in Start :
       /\ currentView = [s \in Process |-> b.view]
       /\ disabled = [s \in Process |-> ~HasMember(b.view, s)]
       /\ recv = b.recv
       /\ asked = b.asked
       /\ decided = {[view |-> b.view, seq |-> seq] : seq \in b.generated}
       /\ installMsgs = UNION {{InstallSeqMsg(s, b.view, seq) :
                                  seq \in b.generated} : s \in Members(b.view)}
       /\ proposed = UNION {{[process |-> s, view |-> b.view, seq |-> seq] :
                               seq \in b.generated} : s \in Members(b.view)}
       /\ accepted = UNION {{[process |-> s, view |-> b.view, update |-> u] :
                               u \in b.recv[s]} : s \in Process}
       /\ client = [view |-> b.view, acks |-> {},
                     Timestamp |-> IF b.writes THEN 1 ELSE MaxWrites + 1]
  /\ register = [s \in Process |-> 0]
  /\ lockOnceDone = [s \in Process |-> FALSE]
  /\ pc = [s \in Process |-> "loop"]
  /\ installing = [s \in Process |-> NoSeq]
  /\ last = [s \in Process |-> [p \in Process |-> NoSeq]]
  /\ counter = [s \in Process |-> [i \in {} |-> 0]]
  /\ stateSeen = [s \in Process |-> {}]
  /\ reading = [s \in Process |-> FALSE]
  /\ timer = [s \in Process |-> FALSE]
  /\ starting = {}
  /\ reconfigMsgs = {} /\ stateMsgs = {} /\ installedMsgs = {}
  /\ requests = Requests(client)
  /\ high = 0

Next ==
  \/ \E u \in asked : Ask(u)
  \/ \E s \in Process :
       \/ \E m \in reconfigMsgs : Reconfig(s, m)
       \/ hasUpdatesToCurrentView(s)
       \/ startReconfiguration(s)
       \/ \E p \in proposed : createForMessage(s, p.view)
       \/ \E d \in decided : generatedViewSeq(s, d)
       \/ \E m \in installMsgs :
            \/ NoQuorumYet(s, m)
            \/ gotOldInstallView(s, m)
            \/ gotLockedMutex(s, m)
            \/ gotInstallSeqQuorum(s, m)
       \/ \E m \in stateMsgs : StateUpdate(s, m)
       \/ updateCurrentView(s)
       \/ ViewInstalled(s)
       \/ Crash(s)
       \/ \E r \in requests : Write(s, r) \/ WriteWaits(s, r)
       \/ ClientRetry(s)
  \/ \E g \in starting : generateViewSequence(g)
  \/ \E v \in Views : Decide(v)
  \/ ClientReturn

Spec == Init /\ [][Next]_vars

\* Timers, goroutines and messages get their turn.  Nobody has to crash,
\* to ask for an update, or to write.
Fairness ==
  \A s \in Process :
    /\ WF_vars(\E m \in reconfigMsgs : Reconfig(s, m))
    /\ WF_vars(startReconfiguration(s))
    /\ WF_vars(\E g \in starting : g.process = s /\ generateViewSequence(g))
    /\ WF_vars(\E p \in proposed : createForMessage(s, p.view))
    /\ WF_vars(Decide(currentView[s]))
    /\ WF_vars(\E d \in decided : generatedViewSeq(s, d))
    /\ WF_vars(\E m \in installMsgs :
         \/ NoQuorumYet(s, m) \/ gotOldInstallView(s, m)
         \/ gotLockedMutex(s, m) \/ gotInstallSeqQuorum(s, m))
    /\ WF_vars(\E m \in stateMsgs : StateUpdate(s, m))
    /\ WF_vars(updateCurrentView(s))
    /\ WF_vars(ViewInstalled(s))

FairSpec == Spec /\ Fairness

-----------------------------------------------------------------------------
(***************************************************************************)
(* Properties                                                              *)
(***************************************************************************)
\* Types of all variables.
TypeOK ==
  /\ currentView \in [Process -> View]
  /\ register \in [Process -> 0..MaxWrites]
  /\ {disabled, lockOnceDone, reading, timer} \subseteq [Process -> BOOLEAN]
  /\ recv \in [Process -> SUBSET Update]
  /\ pc \in [Process -> {"loop", "sync", "leaving", "left", "stuck", "down"}]
  /\ \A s \in Process : installing[s] \in InstallSeq
  /\ \A s, p \in Process : last[s][p] \in InstallSeq
  /\ \A s \in Process, i \in InstallSeqs :
       Counted(s, i) \in 0..QuorumSize(i.AssociatedView)
  /\ \A s \in Process : stateSeen[s] \subseteq stateMsgs
  /\ high \in 0..MaxWrites

QuorumsOf(v) == {Q \in SUBSET Members(v) : Cardinality(Q) >= QuorumSize(v)}

\* The generators of a view never disagree, and what they generate is newer
\* than the view itself, although a message makes a server propose with
\* whatever view and recv it has at that time.  This is what the theorems ask
\* of the view generator.  Without consensus two sequences for a view are
\* possible, and a timer that fires during the transfer of the state lets the
\* generators agree on a view that is installed already.
GeneratorsAgree ==
  /\ \A d, e \in decided : d.view = e.view => d = e
  /\ \A d \in decided : MoreUpdatedThan(GetLeastUpdatedView(d.seq), d.view)

\* A client that uses view v gets answers from all of Q.
Serves(Q, v) == \A s \in Q : ReadsAndWrites(s, v)

\* No reconfiguration loses a write that returned: wherever a quorum of a
\* view answers reads, one of it knows the value (or a later one).  This
\* is what disabling the register and the state transfer are for.
NoLostWrite ==
  \A v \in Views : \A Q \in QuorumsOf(v) :
    Serves(Q, v) => \E s \in Q : register[s] >= high

\* A quorum answers clients in the newest view only, so never in two views
\* side by side: as soon as one server installs a view, the older ones have
\* lost their quorums.
OneServingView ==
  \A v, w \in Views :
    (\E Q \in QuorumsOf(v) : Serves(Q, v)) => Equal(v, w) \/ MoreUpdatedThan(v, w)

\* A server exits only after a quorum of the view it waited for has
\* installed it, so that nobody needs its state any more.
LeaveIsSafe ==
  \A s \in Process : pc[s] = "left" =>
    LET v == installing[s].InstallView IN
    {p \in Members(v) : v \subseteq currentView[p]} \in QuorumsOf(v)

\* A request to join or leave that a quorum accepted is never forgotten:
\* whoever serves a later view has it in the view or in recv.
AcceptedUpdatesSurvive ==
  \A a \in accepted :
    {b.process : b \in {b \in accepted : b.view = a.view /\ b.update = a.update}}
        \in QuorumsOf(a.view)
      => \A s \in Process :
           Serving(s) /\ HasMember(currentView[s], s) /\ MoreUpdatedThan(currentView[s], a.view)
             => a.update \in currentView[s] \cup recv[s]

\* The state that a server continues with in a new view is that of a majority
\* of the old one, so that it meets every write that returned there.
StateOfMajority ==
  \A s \in Process : \A v \in {m.InstallSeq.AssociatedView : m \in stateSeen[s]} :
    EnoughStates(s, v) => {m.from : m \in StatesFor(s, v)} \in QuorumsOf(v)

\* A server that waits for the state of others has the register locked, by
\* New or through registerLockOnce, so that the unlock at the end of
\* gotInstallSeqQuorum never meets an unlocked mutex.
UnlockIsPaired == \A s \in Process : pc[s] = "sync" => disabled[s]

\* registerLockOnce makes sure that nobody waits for a register that is
\* locked already, also when a sequence has more than one view.
LockedOnlyOnce == \A s \in Process : pc[s] # "stuck"

\* Every server is done with v: its members answer in it, who had to leave
\* is gone, and the others are not concerned.
Settled(v) ==
  \A s \in Process :
    \/ pc[s] \in {"down", "left"}
    \/ HasMember(v, s) /\ ReadsAndWrites(s, v)
    \/ JoinOf(s) \notin v

\* Reconfigurations end, also when a server stops: in the long run a view
\* with every update that some server accepted is installed and its members
\* answer in it.
ReconfigurationEnds ==
  <>[](\E v \in Views : Settled(v) /\ \A a \in accepted : a.update \in v)
=============================================================================
