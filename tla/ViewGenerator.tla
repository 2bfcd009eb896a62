---------------------------- MODULE ViewGenerator ----------------------------
(***************************************************************************)
(* The view generator without consensus (pkg/server/viewgenerator.go): the *)
(* members of one associated view propose sequences of views to each       *)
(* other, merge what they receive into their own proposal, and announce    *)
(* a sequence as converged when a quorum proposed it.  A sequence that a   *)
(* quorum announced is generated: its least view is installed next.        *)
(*                                                                         *)
(* A server creates its generator when its timer fires, or when the first  *)
(* message of another generator arrives, with the view that it makes of    *)
(* its current view and of recv at that time (pkg/view, addUpdate).        *)
(*                                                                         *)
(* Broadcasts start one RPC per destination, so messages arrive in any     *)
(* order, each of them at most once.  out[s] holds what s has broadcast,   *)
(* taken[d][s] which of it the worker of d has taken from jobChan.         *)
(***************************************************************************)
EXTENDS ViewSeqs

CONSTANTS Start,           \* what servers may find when they begin: the view
                           \*   that is to be followed by another one, their own
                           \*   current views, and their recv
          MaxBroadcasts    \* bound on the broadcasts of one server

ASSUME ViewGeneratorAssumption ==
  /\ Start \subseteq [AssociatedView : View, currentView : [Process -> View],
                     recv : [Process -> SUBSET Update]]
  /\ MaxBroadcasts \in Nat

VARIABLES
  AssociatedView,    \* of all generators
  currentView, recv, \* of every server, when it creates its generator
  initialView,       \* the view that it makes of them, with its two maps
  worker,            \* the local variables of viewGeneratorWorker
  out, taken,        \* the network
  generated          \* the sequences that went to generatedViewSeqChan

vars == <<AssociatedView, currentView, recv, initialView, worker, out, taken, generated>>

-----------------------------------------------------------------------------
(***************************************************************************)
(* The messages and their quorum counters.  A counter is a sequence of     *)
(* messages, each with the number of messages found equal to it.           *)
(***************************************************************************)
ViewSeqMsg(s, proposed, converged) ==
  [type |-> "ViewSeq", Sender |-> s, ProposedSeq |-> proposed,
   LastConvergedSeq |-> converged]

SeqConv(seq) == [type |-> "SeqConv", Seq |-> seq]

SameButDifferentSender(m, m2) ==
  /\ m.Sender # m2.Sender
  /\ SeqEqual(m.ProposedSeq, m2.ProposedSeq)
  /\ SeqEqual(m.LastConvergedSeq, m2.LastConvergedSeq)

\* Views are compared position by position.
SeqConvEqual(m, m2) == m.Seq = m2.Seq

\* Each of the two counters has messages of one type.
Same(m, m2) ==
  \/ m.type = "ViewSeq" /\ SameButDifferentSender(m, m2)
  \/ m.type = "SeqConv" /\ SeqConvEqual(m, m2)

\* The first entry of a counter that counts message m, or the next free one.
Entry(counter, m) ==
  SeqOps!Min({i \in DOMAIN counter : Same(counter[i].msg, m)} \cup {Len(counter) + 1})

Count(counter, m) ==
  LET i == Entry(counter, m) IN
  IF i > Len(counter) THEN Append(counter, [msg |-> m, n |-> 1])
  ELSE [counter EXCEPT ![i].n = @ + 1]

ReachesQuorum(counter, m) ==
  Count(counter, m)[Entry(counter, m)].n = QuorumSize(AssociatedView)

-----------------------------------------------------------------------------
(***************************************************************************)
(* The worker.  Its state is a record; w.out is what it broadcasts.        *)
(***************************************************************************)
NewWorker ==
  [running |-> FALSE, lastProposedSeq |-> <<>>, lastConvergedSeq |-> <<>>,
   viewSeqs |-> <<>>, seqConvs |-> <<>>, out |-> <<>>]

\* Mutant: every proposal is announced, without a quorum.
countViewSeq_NoQuorum(w, m) ==
  [w EXCEPT !.viewSeqs = Count(@, m),
            !.lastConvergedSeq = m.ProposedSeq,
            !.out = Append(@, SeqConv(m.ProposedSeq))]

countViewSeq(w, m) ==
  LET counted == [w EXCEPT !.viewSeqs = Count(@, m)] IN
  IF ReachesQuorum(w.viewSeqs, m)
  THEN [counted EXCEPT !.lastConvergedSeq = m.ProposedSeq,
                       !.out = Append(@, SeqConv(m.ProposedSeq))]
  ELSE counted

\* Mutant: one's own proposal is not counted.
ProposeSeq_NotCounted(w, s, seq) ==
  [w EXCEPT !.out = Append(@, ViewSeqMsg(s, seq, w.lastConvergedSeq)),
            !.lastProposedSeq = seq]

\* Broadcast a proposal and count it as one's own.
ProposeSeq(w, s, seq) ==
  LET m == ViewSeqMsg(s, seq, w.lastConvergedSeq) IN
  [countViewSeq([w EXCEPT !.out = Append(@, m)], m) EXCEPT !.lastProposedSeq = seq]

NewViews(w, m) ==
  {v \in SeqOps!ToSet(m.ProposedSeq) : ~HasView(w.lastProposedSeq, v)}

HasConflict(w, m) ==
  \E v \in NewViews(w, m), v2 \in SeqOps!ToSet(w.lastProposedSeq) : Conflict(v, v2)

\* After a conflict the worker goes back to the last converged sequence, its
\* own or the one it was sent, and adds one view with all updates.
GoBack(w, m) ==
  IF LessUpdatedThan(GetMostUpdatedView(w.lastConvergedSeq),
                     GetMostUpdatedView(m.LastConvergedSeq))
  THEN [w EXCEPT !.lastConvergedSeq = m.LastConvergedSeq] ELSE w

Union(w, m) ==
  NewWithUpdates(GetMostUpdatedView(w.lastProposedSeq) \cup
                 GetMostUpdatedView(m.ProposedSeq))

Merged(w, s, m) ==
  IF NewViews(w, m) = {} THEN w
  ELSE IF HasConflict(w, m)
  THEN LET b == GoBack(w, m) IN
       ProposeSeq(b, s, AppendViews(b.lastConvergedSeq, <<Union(w, m)>>))
  ELSE ProposeSeq(w, s, AppendViews(w.lastProposedSeq, m.ProposedSeq))

-----------------------------------------------------------------------------
(***************************************************************************)
(* The network                                                             *)
(***************************************************************************)
Server == Members(AssociatedView)

\* The broadcasts of s that the worker of d has yet to take.  A ViewSeqMsg
\* is not sent to oneself.
Pending(d, s) ==
  {i \in DOMAIN out[s] \ taken[d][s] : s # d \/ out[s][i].type = "SeqConv"}

Take(d, s, i) == taken' = [taken EXCEPT ![d][s] = @ \cup {i}]

\* The worker of s becomes w and broadcasts w.out.
Goes(s, w) ==
  /\ Len(out[s]) + Len(w.out) <= MaxBroadcasts
  /\ worker' = [worker EXCEPT ![s] = [w EXCEPT !.out = <<>>]]
  /\ out' = [out EXCEPT ![s] = @ \o w.out]

-----------------------------------------------------------------------------
(***************************************************************************)
(* A server makes its first proposal                                       *)
(***************************************************************************)
newView == [Entries |-> {}, Members |-> {}]

\* Mutant: a Join that does not look for the Leave of the same process.
addUpdate_JoinAlwaysAdds(v, u) ==
  [Entries |-> v.Entries \cup {u},
   Members |-> IF u.Type = Leave THEN v.Members \ {u.Process}
               ELSE v.Members \cup {u.Process}]

\* The loop body of View.addUpdate.
addUpdate(v, u) ==
  [Entries |-> v.Entries \cup {u},
   Members |-> IF u.Type = Leave THEN v.Members \ {u.Process}
               ELSE IF LeaveOf(u.Process) \in v.Entries THEN v.Members
               ELSE v.Members \cup {u.Process}]

\* View.NewCopyWithUpdates: the entries and then the updates, both of which
\* come out of a map in any order.
CopiesWithUpdates(entries, updates) ==
  UNION {{SeqOps!FoldLeft(addUpdate, newView, first \o second) :
            second \in SeqOps!SetToSeqs(updates)} : first \in SeqOps!SetToSeqs(entries)}

getOrCreateViewGenerator(s) ==
  /\ s \in Server /\ ~worker[s].running
  /\ \E v \in CopiesWithUpdates(currentView[s], recv[s]) :
       /\ initialView' = [initialView EXCEPT ![s] = v]
       /\ Goes(s, ProposeSeq([NewWorker EXCEPT !.running = TRUE], s, <<v.Entries>>))
  /\ UNCHANGED <<AssociatedView, currentView, recv, taken, generated>>

\* The timer fires: startReconfiguration.  It found updates in recv, but they
\* may be in the view by now: the view and recv are read again after the wait
\* for currentViewMu.  (The other caller, with the rest of a sequence that is
\* being installed, is in module Reconfiguration.)
generateViewSequenceWithoutConsensus(s) == getOrCreateViewGenerator(s)

\* The first message arrives; it waits in jobChan until the worker is there.
createForMessage(s) ==
  (\E d \in Server : Pending(s, d) # {}) /\ getOrCreateViewGenerator(s)

-----------------------------------------------------------------------------
ProposeSeqView(d, s, i) ==
  /\ worker[d].running
  /\ out[s][i].type = "ViewSeq"
  /\ Take(d, s, i)
  /\ Goes(d, countViewSeq(Merged(worker[d], d, out[s][i]), out[s][i]))
  /\ UNCHANGED <<AssociatedView, currentView, recv, initialView, generated>>

ReceiveSeqConv(d, s, i) ==
  LET w == worker[d] IN
  /\ w.running
  /\ out[s][i].type = "SeqConv"
  /\ Take(d, s, i)
  /\ worker' = [worker EXCEPT ![d].seqConvs = Count(@, out[s][i])]
  /\ generated' = IF ReachesQuorum(w.seqConvs, out[s][i])
                  THEN [generated EXCEPT ![d] = @ \cup {out[s][i].Seq}]
                  ELSE generated
  /\ UNCHANGED <<AssociatedView, currentView, recv, initialView, out>>

-----------------------------------------------------------------------------
Init ==
  /\ \E b \in Start : /\ AssociatedView = b.AssociatedView
                      /\ currentView = b.currentView
                      /\ recv = b.recv
  /\ initialView = [s \in Process |-> newView]
  /\ worker = [s \in Process |-> NewWorker]
  /\ out = [s \in Process |-> <<>>]
  /\ taken = [d \in Process |-> [s \in Process |-> {}]]
  /\ generated = [s \in Process |-> {}]

Receive(d, s) ==
  \E i \in Pending(d, s) : ProposeSeqView(d, s, i) \/ ReceiveSeqConv(d, s, i)

Next ==
  \E d \in Server :
    \/ generateViewSequenceWithoutConsensus(d)
    \/ createForMessage(d)
    \/ \E s \in Server : Receive(d, s)

Spec == Init /\ [][Next]_vars

\* The timer of every server with updates fires, and messages arrive.
FairSpec ==
  /\ Spec
  /\ \A s \in Process :
       /\ WF_vars(\/ recv[s] # {} /\ generateViewSequenceWithoutConsensus(s)
                  \/ createForMessage(s))
       /\ \A d \in Process : WF_vars(Receive(d, s))

-----------------------------------------------------------------------------
(***************************************************************************)
(* Properties                                                              *)
(***************************************************************************)
Generated == UNION {generated[s] : s \in Server}

N == INSTANCE NestedSequences WITH
       sequences <- Generated,
       oldViews <- {currentView[s] : s \in Server},
       updates <- UNION {recv[s] : s \in Server}

\* The generators of a view keep the promise of module NestedSequences: of
\* the sequences that quorums of them announced one contains the other,
\* although there is no consensus among them, and all hold accepted updates
\* only.  It is checked for two servers with any updates, and proved for any
\* number of servers whose updates are compatible.
GeneratesNested == N!Spec

Proposals(s) == {m.ProposedSeq : m \in {m \in SeqOps!ToSet(out[s]) : m.type = "ViewSeq"}}

\* The cache of members that addUpdate maintains is the membership that the
\* entries determine, whatever the order in which two maps deliver them: a
\* Leave that comes before the Join of the same process still wins.
MembersCacheCoherent ==
  \A s \in Server : initialView[s].Members = Members(initialView[s].Entries)

\* QuorumSize and NumberOfToleratedFaults fit together in every view that is
\* proposed: two quorums share a member, and the members that remain after
\* as many faults as are tolerated form a quorum, after one fault more not.
QuorumsIntersect ==
  \A s \in Server :
    LET v == initialView[s].Entries
        Quorums == {Q \in SUBSET initialView[s].Members : Cardinality(Q) = QuorumSize(v)}
    IN /\ \A Q1, Q2 \in Quorums : Q1 \cap Q2 # {}
       /\ \A D \in SUBSET initialView[s].Members :
            (\E Q \in Quorums : Q \cap D = {}) <=> Cardinality(D) <= NumberOfToleratedFaults(v)

\* Whatever conflicts there were on the way, every sequence that a server
\* proposes is a chain of views, without duplicates, of which
\* GetLeastUpdatedView finds the least and GetMostUpdatedView the greatest
\* one: the first is what will be installed.
ProposalsAreChains ==
  \A s \in Server : \A seq \in Proposals(s) :
    /\ \A i \in DOMAIN seq :
         GetLeastUpdatedView(seq) \subseteq seq[i] /\ seq[i] \subseteq GetMostUpdatedView(seq)
    /\ \A i, j \in DOMAIN seq :
         /\ seq[i] \subseteq seq[j] \/ seq[j] \subseteq seq[i]
         /\ Equal(seq[i], seq[j]) => i = j

\* Every message has arrived.
Quiet == \A d, s \in Server : worker[d].running /\ Pending(d, s) = {}

\* Servers that accepted the same updates in the same view need nobody to
\* decide for them: in whatever order messages arrived, every one of their
\* generators has made a sequence when the last one has.
SameUpdatesAreInstalled ==
  /\ Quiet
  /\ \A s, d \in Server : recv[s] = recv[d] /\ currentView[s] = currentView[d]
  => \A s \in Server : generated[s] # {}

\* The updates in recv are applied in the next reconfiguration: a sequence
\* is generated whose first view is newer than the current one.
RecvIsApplied ==
  (\E s \in Server : recv[s] # {})
    ~> (\E seq \in Generated : \E s \in Server :
          MoreUpdatedThan(GetLeastUpdatedView(seq), currentView[s]))
=============================================================================
