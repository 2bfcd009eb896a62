--------------------------- MODULE ConsensusProofs ---------------------------
(***************************************************************************)
(* What module Consensus guarantees for any number of members, however     *)
(* often the leader proposes and whichever RPCs fail.                      *)
(*                                                                         *)
(* The argument.  Propose either gets a quorum of acceptors or ends the    *)
(* process, so whoever proposes again does so after a quorum has accepted  *)
(* the first proposal.  From then on a quorum that promises has a member   *)
(* with an accepted proposal, and every later proposal takes over its      *)
(* value.  The value of the first call is the only one that is ever        *)
(* accepted, which makes up for learners that do not look at what they     *)
(* count and for acceptors whose promise is too low.                       *)
(***************************************************************************)
EXTENDS Consensus, ViewProofs, WellFoundedInduction

leader == CHOOSE s \in Proposer : TRUE

n == NumberOfMembers(AssociatedView)

quorum == QuorumSize(AssociatedView)

(* The first proposal of the leader.                                       *)
firstValue == ValueOf(leader, n)

firstProposal == [N |-> n, Value |-> firstValue]

(* A proposal that acceptors may have accepted.                            *)
Sound(p) == p = NoProposal \/ (p.N # 0 /\ p.Value = firstValue)

Accepted == {a \in Member : acceptedProposal[a] # NoProposal}

AcceptedByQuorum == Cardinality(Accepted) >= quorum

(***************************************************************************)
(* The inductive invariant                                                 *)
(***************************************************************************)
(* Whatever is under way or was accepted has the first value.              *)
ValueInv ==
  /\ \A a \in Member : Sound(acceptedProposal[a])
  /\ \A m \in network : m.type = "Accept" => m.p.Value = firstValue
  /\ \A s \in Learner : \A p \in BagToSet(learns[s]) : p.Value = firstValue
  /\ \A s \in Learner : callbackLearnChan[s] \in {firstValue, NoValue}

(* Requests come from the leader, one to each member for each phase.       *)
NetworkInv ==
  /\ \A m \in network :
       /\ m.from = leader /\ leader \in Proposer
       /\ n <= m.p.N /\ m.p.N <= lastProposalNumber[leader]
       /\ m.type = "Accept" /\ pc[leader] = "prepare" => m.p.N < proposal[leader].N
       /\ m.wanted /\ pc[leader] \in {"prepare", "accept"} =>
            /\ m.p = proposal[leader]
            /\ m.type = IF pc[leader] = "prepare" THEN "Prepare" ELSE "Accept"
  /\ \A m, k \in network :
       m.type = "Accept" /\ k.type = "Accept" /\ m.to = k.to /\ m.p.N = k.p.N => m = k

(* C is the set of acceptors whose answers Propose has counted.            *)
CountedInv(C) ==
  /\ Cardinality(C) = successTotal[leader]
  /\ \A r \in resultChan[leader] : r.from \notin C
  /\ \A m \in network : m.wanted => m.to \notin C
  /\ \A r, k \in resultChan[leader] : r.from = k.from => r = k
  /\ \A r \in resultChan[leader], m \in network : m.wanted => m.to # r.from

(* A call after the first one gets to know of an accepted proposal.        *)
LaterCallInv(C) ==
  lastProposalNumber[leader] > n =>
    \E A \in SUBSET Accepted :
      /\ Cardinality(A) >= quorum
      /\ \A r \in resultChan[leader] : ~r.Err /\ r.from \in A => r.p # NoProposal
      /\ A \cap C # {} => highest[leader] # NoProposal

PrepareInv ==
  pc[leader] = "prepare" =>
    /\ Sound(highest[leader])
    /\ \A r \in resultChan[leader] : Sound(r.p)
    /\ \E C \in SUBSET Member : CountedInv(C) /\ LaterCallInv(C)

AcceptInv ==
  pc[leader] = "accept" =>
    /\ \A r \in resultChan[leader] : ~r.Err => r.from \in Accepted
    /\ \E C \in SUBSET Accepted : CountedInv(C)

(* Proposals are numbered upwards, and all but the first one come after a  *)
(* quorum has accepted.                                                    *)
PhaseInv ==
  leader \in Proposer =>
    /\ pc[leader] = "idle" <=> lastProposalNumber[leader] = 0
    /\ pc[leader] \in {"idle", "prepare"} /\ lastProposalNumber[leader] <= n => Accepted = {}
    /\ pc[leader] # "idle" => lastProposalNumber[leader] >= n /\ firstValue \in proposed
    /\ pc[leader] \in {"prepare", "accept"} =>
         /\ proposal[leader].N = lastProposalNumber[leader]
         /\ failedTotal[leader] <= NumberOfToleratedFaults(AssociatedView)
         /\ successTotal[leader] < quorum
    /\ pc[leader] = "wait" \/ lastProposalNumber[leader] > n => AcceptedByQuorum
    /\ PrepareInv
    /\ AcceptInv

(* The learn requests for the first proposal in a bag.                     *)
Copies(B) == IF firstProposal \in DOMAIN B THEN B[firstProposal] ELSE 0

(* Until a quorum has accepted, every acceptor accepts at most once, and   *)
(* the learners have not counted more than the acceptors that did.         *)
LearnInv ==
  \/ AcceptedByQuorum
  \/ /\ \A m \in network : m.type = "Accept" => m.to \notin Accepted
     /\ \A s \in Learner :
          /\ BagToSet(learns[s]) \subseteq {firstProposal}
          /\ learnCounter[s] + Copies(learns[s]) <= Cardinality(Accepted)
          /\ callbackLearnChan[s] = NoValue

OthersInv == \A s \in Member \ Proposer : pc[s] = "wait"

ConsensusInv == TypeOK /\ ValueInv /\ NetworkInv /\ OthersInv /\ PhaseInv /\ LearnInv

-----------------------------------------------------------------------------
(***************************************************************************)
(* The constants                                                           *)
(***************************************************************************)
(* Addresses are different, so there is one leader, the first member.      *)
LEMMA OneLeader ==
  /\ Proposer \subseteq {leader}
  /\ leader \in Proposer =>
       leader \in Member /\ GetProcessPosition(AssociatedView, leader) = 0
<1>1. ASSUME NEW s \in Proposer, NEW t \in Proposer PROVE Address[s] <= Address[t]
  <2> DEFINE Before == {q \in Members(AssociatedView) : Address[q] < Address[s]}
  <2>1. s \in Member /\ t \in Member /\ s \in Process /\ t \in Process
    BY DEF Proposer, Member, Members
  <2>2. Cardinality(Before) = 0
    BY <2>1 DEF Proposer, GetProcessPosition, CONSENSUS_LEADER_PROCESS_POSITION, HasMember,
                Member
  <2>3. IsFiniteSet(Before)
    BY ConsensusAssumption, QuorumIsMajority, FS_Subset, Before \in SUBSET Members(AssociatedView)
  <2>4. Before = {}
    BY <2>2, <2>3, FS_EmptySet
  <2>5. ~(Address[t] < Address[s])
    BY <2>1, <2>4 DEF Member
  <2> QED
    BY <2>1, <2>5, ConsensusAssumption
<1>2. ASSUME NEW s \in Proposer, NEW t \in Proposer PROVE s = t
  <2>1. s \in Process /\ t \in Process
    BY DEF Proposer, Member, Members
  <2>2. Address[s] = Address[t]
    BY <1>1, <2>1, ConsensusAssumption
  <2> QED
    BY <2>1, <2>2, ConsensusAssumption
<1>3. ASSUME NEW s \in Proposer PROVE s = leader
  BY <1>2 DEF leader
<1> QED
  BY <1>3 DEF Proposer, CONSENSUS_LEADER_PROCESS_POSITION

(* A view with members has a leader: somebody has the least address.       *)
LEMMA SomeLeader == Member # {} => leader \in Proposer
<1> SUFFICES ASSUME Member # {} PROVE \E s \in Proposer : TRUE
  BY DEF leader
<1> DEFINE T == {Address[s] : s \in Member}
<1>1. Member \subseteq Process
  BY DEF Member, Members
<1>2. T \subseteq Nat /\ T # {}
  BY <1>1, ConsensusAssumption
<1>3. PICK x \in T : \A y \in T : ~(<<y, x>> \in OpToRel(<, Nat))
  BY <1>2, NatLessThanWellFounded, WFMin
<1>4. \A y \in T : ~(y < x)
  BY <1>2, <1>3 DEF OpToRel
<1>5. PICK s \in Member : Address[s] = x
  OBVIOUS
<1>6. {q \in Members(AssociatedView) : Address[q] < Address[s]} = {}
  BY <1>4, <1>5 DEF Member
<1>7. GetProcessPosition(AssociatedView, s) = 0
  BY <1>6, FS_EmptySet DEF GetProcessPosition, HasMember, Member
<1> QED
  BY <1>7 DEF Proposer, CONSENSUS_LEADER_PROCESS_POSITION

(* What the proofs use of the numbers of members.                          *)
LEMMA Numbers ==
  /\ IsFiniteSet(Member) /\ n = Cardinality(Member)
  /\ n \in Nat /\ quorum \in Nat /\ 2 * quorum > n /\ quorum > 0
  /\ Member # {} => n > 0 /\ n >= quorum
  /\ NumberOfToleratedFaults(AssociatedView) = n - quorum
<1>1. AssociatedView \in View
  BY ConsensusAssumption
<1>2. Member # {} => n # 0
  BY <1>1, QuorumIsMajority, FS_EmptySet DEF Member, n, NumberOfMembers
<1> QED
  BY <1>1, <1>2, QuorumIsMajority DEF n, quorum, Member, NumberOfMembers, NumberOfToleratedFaults

(* The number of a new proposal is greater than that of the last one.      *)
LEMMA NextNumber ==
  ASSUME TypeOK, leader \in Proposer
  PROVE  LET last == lastProposalNumber[leader]
             next == getNextProposalNumber(leader)
         IN /\ next \in Nat /\ next >= n /\ next > last
            /\ last >= n => next > n
            /\ last = 0 => next = n
<1> DEFINE last == lastProposalNumber[leader]
<1>1. /\ leader \in Member /\ GetProcessPosition(AssociatedView, leader) = 0
      /\ n \in Nat /\ n > 0
  BY OneLeader, Numbers
<1>2. last \in Nat
  BY <1>1 DEF TypeOK
<1>3. last % n \in Nat /\ last % n < n /\ last % n <= last
  BY <1>1, <1>2
<1>4. getNextProposalNumber(leader) = IF last = 0 THEN n ELSE (last - (last % n)) + n
  BY <1>1, <1>2, <1>3 DEF getNextProposalNumber, getLastProposalNumber, n
<1> QED
  BY <1>1, <1>2, <1>3, <1>4

-----------------------------------------------------------------------------
(***************************************************************************)
(* Bags of learn requests                                                  *)
(***************************************************************************)
(* One more request.                                                       *)
LEMMA BagAdd ==
  ASSUME NEW B, IsABag(B), NEW p
  PROVE  LET bag == B (+) SetToBag({p}) IN
         /\ IsABag(bag) /\ DOMAIN bag = DOMAIN B \cup {p}
         /\ p = firstProposal => Copies(bag) = Copies(B) + 1
         /\ Copies(B) \in Nat
BY DEF IsABag, SetToBag, (+), Copies

(* One request less.                                                       *)
LEMMA BagRemove ==
  ASSUME NEW B, IsABag(B), NEW p, BagIn(p, B)
  PROVE  LET bag == B (-) SetToBag({p}) IN
         /\ IsABag(bag) /\ DOMAIN bag \subseteq DOMAIN B
         /\ p = firstProposal => Copies(bag) = Copies(B) - 1 /\ Copies(B) > 0
         /\ Copies(B) \in Nat
BY DEF IsABag, SetToBag, (-), Copies, BagIn, BagToSet

-----------------------------------------------------------------------------
(***************************************************************************)
(* Type correctness                                                        *)
(***************************************************************************)
(* An answer in resultChan keeps it well typed.                            *)
LEMMA HandleType ==
  ASSUME TypeOK, NEW m \in network, NEW r \in Result, Handle(m, r)
  PROVE  resultChan' \in [Member -> SUBSET Result] /\ network' \subseteq Request
<1>1. m \in Request /\ m.from \in Member
  BY DEF TypeOK, Request
<1> QED
  BY <1>1 DEF TypeOK, Handle

(* A request nobody waits for any more is still a request.                 *)
LEMMA NobodyWaitsType ==
  ASSUME TypeOK, NEW s \in Member
  PROVE  NobodyWaits(s) \subseteq Request
<1> SUFFICES ASSUME NEW m \in network
             PROVE  [m EXCEPT !.wanted = @ /\ m.from # s] \in Request
  BY DEF NobodyWaits
<1>1. m \in Request
  BY DEF TypeOK
<1> DEFINE b == m.wanted /\ m.from # s
<1>2. b \in BOOLEAN
  OBVIOUS
<1> HIDE DEF b
<1>3. [m EXCEPT !.wanted = b] \in Request
  BY <1>1, <1>2 DEF Request
<1> QED
  BY <1>3 DEF b

(* A phase that begins is well typed.                                      *)
LEMMA StartPhaseType ==
  ASSUME TypeOK, NEW s \in Member, NEW p \in Numbered, NEW kind \in {"Prepare", "Accept"},
         StartPhase(s, kind, p)
  PROVE  /\ proposal' \in [Member -> Numbered]
         /\ successTotal' \in [Member -> 0..QuorumSize(AssociatedView)]
         /\ failedTotal' \in [Member -> 0..NumberOfMembers(AssociatedView)]
         /\ resultChan' \in [Member -> SUBSET Result]
         /\ network' \subseteq Request
<1>1. 0 \in 0..QuorumSize(AssociatedView) /\ 0 \in 0..NumberOfMembers(AssociatedView)
  BY Numbers DEF n, quorum
<1>2. NobodyWaits(s) \subseteq Request
  BY NobodyWaitsType
<1>3. Broadcast(kind, s, p) \subseteq Request
  BY DEF Broadcast, Request
<1> QED
  BY <1>1, <1>2, <1>3 DEF TypeOK, StartPhase, EndPhase

(* Only the leader is ever in a phase of Propose.                          *)
LEMMA OnlyTheLeader ==
  ASSUME ConsensusInv, NEW s \in Member, pc[s] # "wait"
  PROVE  s = leader /\ leader \in Proposer
BY OneLeader DEF ConsensusInv, OthersInv

(* Every step keeps the types.                                             *)
LEMMA TypeStep == ConsensusInv /\ [Next]_vars => TypeOK'
<1> SUFFICES ASSUME ConsensusInv, [Next]_vars PROVE TypeOK'
  OBVIOUS
<1>0. TypeOK
  BY DEF ConsensusInv
<1>1. NoProposal \in Numbered
  BY DEF NoProposal, Numbered
<1>2. ASSUME NEW m \in network, Prepare(m) PROVE TypeOK'
  <2>1. m \in Request /\ m.to \in Member /\ m.p \in Numbered /\ m.p.N \in Nat
    BY <1>0 DEF TypeOK, Request, Numbered
  <2>2. resultChan' \in [Member -> SUBSET Result] /\ network' \subseteq Request
    <3> DEFINE promises == m.p.N > lastPromiseProposalNumber[m.to]
               r == [from |-> m.to, Err |-> ~promises,
                     p |-> IF promises THEN acceptedProposal[m.to] ELSE NoProposal]
    <3>1. r \in Result
      BY <1>0, <1>1, <2>1 DEF TypeOK, Result
    <3>2. Handle(m, r)
      BY <1>2 DEF Prepare
    <3> QED
      BY <1>0, <3>1, <3>2, HandleType
  <2>3. lastPromiseProposalNumber' \in [Member -> Nat]
    BY <1>0, <1>2, <2>1 DEF TypeOK, Prepare
  <2> QED
    BY <1>0, <1>2, <2>2, <2>3 DEF TypeOK, Prepare, learnVars, phaseVars, callVars
<1>3. ASSUME NEW m \in network, Accept(m) PROVE TypeOK'
  <2>1. m \in Request /\ m.to \in Member /\ m.p \in Numbered
    BY <1>0 DEF TypeOK, Request
  <2>2. resultChan' \in [Member -> SUBSET Result] /\ network' \subseteq Request
    <3> DEFINE accepts == m.p.N >= lastPromiseProposalNumber[m.to]
               r == [from |-> m.to, Err |-> ~accepts, p |-> NoProposal]
    <3>1. r \in Result
      BY <1>1, <2>1 DEF Result
    <3>2. Handle(m, r)
      BY <1>3 DEF Accept
    <3> QED
      BY <1>0, <3>1, <3>2, HandleType
  <2>3. acceptedProposal' \in [Member -> Numbered]
    BY <1>0, <1>3, <2>1 DEF TypeOK, Accept
  <2>4. /\ DOMAIN learns' = Learner
        /\ \A s \in Learner : IsABag(learns'[s]) /\ BagToSet(learns'[s]) \subseteq Numbered
    <3>1. CASE learns' = learns
      BY <1>0, <3>1 DEF TypeOK
    <3>2. CASE learns' = [s \in Learner |-> learns[s] (+) SetToBag({m.p})]
      <4> DEFINE bag(s) == learns[s] (+) SetToBag({m.p})
      <4>1. \A s \in Learner : IsABag(bag(s)) /\ DOMAIN bag(s) = DOMAIN learns[s] \cup {m.p}
        BY <1>0, BagAdd DEF TypeOK
      <4>2. learns' = [s \in Learner |-> bag(s)]
        BY <3>2
      <4> HIDE DEF bag
      <4>3. DOMAIN learns' = Learner /\ \A s \in Learner : learns'[s] = bag(s)
        BY <4>2
      <4>4. \A s \in Learner : DOMAIN bag(s) \subseteq Numbered
        <5> SUFFICES ASSUME NEW s \in Learner PROVE DOMAIN bag(s) \subseteq Numbered
          OBVIOUS
        <5>1. DOMAIN learns[s] \subseteq Numbered
          BY <1>0 DEF TypeOK, BagToSet
        <5>2. DOMAIN bag(s) = DOMAIN learns[s] \cup {m.p}
          BY <4>1
        <5> QED
          BY <2>1, <5>1, <5>2
      <4> QED
        BY <4>1, <4>3, <4>4 DEF BagToSet
    <3> QED
      BY <1>3, <3>1, <3>2 DEF Accept
  <2> QED
    BY <1>0, <1>3, <2>2, <2>3, <2>4 DEF TypeOK, Accept, learnVars, phaseVars, callVars
<1>4. ASSUME NEW m \in network, RpcError(m) PROVE TypeOK'
  <2>1. m \in Request /\ m.to \in Member /\ m.from \in Member
    BY <1>0 DEF TypeOK, Request
  <2>2. [m EXCEPT !.wanted = FALSE] \in Request
    BY <2>1 DEF Request
  <2>3. [from |-> m.to, p |-> NoProposal, Err |-> TRUE] \in Result
    BY <1>1, <2>1 DEF Result
  <2> QED
    BY <1>0, <1>4, <2>1, <2>2, <2>3
       DEF TypeOK, RpcError, workerVars, learnVars, phaseVars, callVars
<1>5. ASSUME NEW s \in Learner, NEW p \in BagToSet(learns[s]), Learn(s, p) PROVE TypeOK'
  <2> DEFINE bag == learns[s] (-) SetToBag({p})
  <2>1. IsABag(learns[s]) /\ BagToSet(learns[s]) \subseteq Numbered /\ BagIn(p, learns[s])
    BY <1>0 DEF TypeOK, BagIn
  <2>2. IsABag(bag) /\ DOMAIN bag \subseteq DOMAIN learns[s]
    BY <2>1, BagRemove
  <2>3. learns' = [learns EXCEPT ![s] = bag]
    BY <1>5 DEF Learn
  <2>4. /\ DOMAIN learns' = Learner
        /\ \A t \in Learner : IsABag(learns'[t]) /\ BagToSet(learns'[t]) \subseteq Numbered
    <3> HIDE DEF bag
    <3> QED
      BY <1>0, <2>1, <2>2, <2>3 DEF TypeOK, BagToSet
  <2>5. p.Value \in Value \cup {NoValue}
    BY <2>1 DEF Numbered
  <2>6. learnCounter' \in [Learner -> Nat] /\ callbackLearnChan' \in [Learner -> Value \cup {NoValue}]
    BY <1>0, <1>5, <2>5 DEF TypeOK, Learn
  <2> QED
    BY <1>0, <1>5, <2>4, <2>6 DEF TypeOK, Learn, phaseVars, callVars
<1>6. ASSUME NEW s \in Member, Propose(s) PROVE TypeOK'
  <2>1. s = leader /\ s \in Proposer
    BY <1>6, OneLeader DEF Propose
  <2>2. getNextProposalNumber(s) \in Nat
    BY <1>0, <2>1, NextNumber
  <2>3. [N |-> getNextProposalNumber(s), Value |-> NoValue] \in Numbered
    BY <2>2 DEF Numbered
  <2>4. lastProposalNumber' \in [Member -> Nat]
    BY <1>0, <1>6, <2>2 DEF TypeOK, Propose, saveProposalNumberOnStorage
  <2>5. /\ proposal' \in [Member -> Numbered]
        /\ successTotal' \in [Member -> 0..QuorumSize(AssociatedView)]
        /\ failedTotal' \in [Member -> 0..NumberOfMembers(AssociatedView)]
        /\ resultChan' \in [Member -> SUBSET Result]
        /\ network' \subseteq Request
    BY <1>0, <1>6, <2>3, StartPhaseType DEF Propose
  <2>6. proposed' \subseteq Value
    <3>1. lastProposalNumber'[s] \in Nat
      BY <2>4
    <3>2. ValueOf(s, lastProposalNumber'[s]) \in Value
      BY <2>1, <3>1 DEF ValueOf, Value
    <3> QED
      BY <1>0, <1>6, <3>2 DEF TypeOK, Propose
  <2> QED
    BY <1>0, <1>1, <1>6, <2>4, <2>5, <2>6 DEF TypeOK, Propose, workerVars, learnVars
<1>7. ASSUME NEW s \in Member, NEW r \in resultChan[s],
             ReceiveResult(s, r) \/ AcceptQuorum(s, r) \/ ReceiveError(s, r) \/ PrepareQuorum(s, r)
      PROVE  TypeOK'
  <2>1. r \in Result /\ r.p \in Numbered /\ r.p.N \in Nat
    BY <1>0 DEF TypeOK, Result, Numbered
  <2>2. s = leader /\ leader \in Proposer /\ pc[s] \in {"prepare", "accept"}
    BY <1>7, OnlyTheLeader DEF ReceiveResult, AcceptQuorum, ReceiveError, PrepareQuorum
  <2>3. failedTotal[s] <= n - quorum /\ successTotal[s] < quorum
    BY <2>2, Numbers DEF ConsensusInv, PhaseInv
  <2>4. /\ n \in Nat /\ quorum \in Nat /\ quorum > 0
        /\ n = NumberOfMembers(AssociatedView) /\ quorum = QuorumSize(AssociatedView)
    BY Numbers DEF n, quorum
  <2>5. CASE ReceiveResult(s, r)
    <3>1. successTotal' \in [Member -> 0..QuorumSize(AssociatedView)]
      BY <1>0, <2>4, <2>5 DEF TypeOK, ReceiveResult
    <3> QED
      BY <1>0, <2>1, <2>5, <3>1 DEF TypeOK, ReceiveResult, workerVars, learnVars, callVars
  <2>6. CASE AcceptQuorum(s, r)
    <3>1. NobodyWaits(s) \subseteq Request
      BY <1>0, NobodyWaitsType
    <3>2. 0 \in 0..QuorumSize(AssociatedView) /\ 0 \in 0..NumberOfMembers(AssociatedView)
      BY <2>4
    <3> QED
      BY <1>0, <1>1, <2>6, <3>1, <3>2
         DEF TypeOK, AcceptQuorum, EndPhase, workerVars, learnVars, callVars
  <2>7. CASE ReceiveError(s, r)
    <3>1. failedTotal' \in [Member -> 0..NumberOfMembers(AssociatedView)]
      BY <1>0, <2>3, <2>4, <2>7 DEF TypeOK, ReceiveError
    <3> QED
      BY <1>0, <2>7, <3>1 DEF TypeOK, ReceiveError, workerVars, learnVars, callVars
  <2>8. CASE PrepareQuorum(s, r)
    <3> DEFINE h == IF highest[s].N < r.p.N THEN r.p ELSE highest[s]
    <3>1. h \in Numbered /\ proposal[s] \in Numbered
      BY <1>0, <2>1 DEF TypeOK
    <3>2. ValueToPropose(s, h) \in Value
      BY <2>2, <3>1 DEF ValueToPropose, Numbered, ValueOf, Value
    <3>3. [proposal[s] EXCEPT !.Value = ValueToPropose(s, h)] \in Numbered
      BY <3>1, <3>2 DEF Numbered
    <3>4. StartPhase(s, "Accept", [proposal[s] EXCEPT !.Value = ValueToPropose(s, h)])
      BY <2>8 DEF PrepareQuorum
    <3>5. /\ proposal' \in [Member -> Numbered]
          /\ successTotal' \in [Member -> 0..QuorumSize(AssociatedView)]
          /\ failedTotal' \in [Member -> 0..NumberOfMembers(AssociatedView)]
          /\ resultChan' \in [Member -> SUBSET Result]
          /\ network' \subseteq Request
      BY <1>0, <3>3, <3>4, StartPhaseType
    <3> QED
      BY <1>0, <1>1, <2>8, <3>5 DEF TypeOK, PrepareQuorum, workerVars, learnVars, callVars
  <2> QED
    BY <1>7, <2>5, <2>6, <2>7, <2>8
<1>8. CASE UNCHANGED vars
  BY <1>0, <1>8 DEF TypeOK, vars, workerVars, learnVars, phaseVars, callVars
<1> QED
  BY <1>2, <1>3, <1>4, <1>5, <1>6, <1>7, <1>8 DEF Next

-----------------------------------------------------------------------------
(***************************************************************************)
(* The acceptors                                                           *)
(***************************************************************************)
(* Requests with the same fields are the same.                             *)
LEMMA SameRequest ==
  ASSUME NEW m \in Request, NEW k \in Request, k.wanted = m.wanted,
         k.type = m.type, k.from = m.from, k.to = m.to, k.p = m.p
  PROVE  k = m
BY DEF Request

(* An answer from m.to, which has not been counted, is counted once: it is *)
(* the only answer to the request m.                                       *)
LEMMA OneAnswer ==
  ASSUME ConsensusInv, NEW m \in network, m.wanted,
         pc[leader] \in {"prepare", "accept"},
         NEW r, r.from = m.to,
         resultChan' = [resultChan EXCEPT ![m.from] = @ \cup {r}],
         \A k \in network' : k.wanted => k \in network \ {m},
         UNCHANGED successTotal,
         NEW C, CountedInv(C)
  PROVE  CountedInv(C)'
<1>1. m.from = leader /\ leader \in Member /\ leader \in Proposer /\ m \in Request
  BY OneLeader DEF ConsensusInv, NetworkInv, TypeOK
<1>2. resultChan'[leader] = resultChan[leader] \cup {r}
  BY <1>1 DEF ConsensusInv, TypeOK
<1>3. ASSUME NEW k \in network', k.wanted PROVE k \in network /\ k.to # m.to
  <2>1. k \in network /\ k # m /\ k \in Request
    BY <1>3 DEF ConsensusInv, TypeOK
  <2>2. k.from = m.from /\ k.p = m.p /\ k.type = m.type
    BY <1>1, <1>3, <2>1 DEF ConsensusInv, NetworkInv
  <2>3. k.wanted = m.wanted
    BY <1>1, <1>3, <2>1 DEF Request
  <2> QED
    BY <1>1, <2>1, <2>2, <2>3, SameRequest
<1>4. \A k \in resultChan[leader] : k.from # m.to
  BY DEF CountedInv
<1>5. m.to \notin C
  BY DEF CountedInv
<1> QED
  BY <1>2, <1>3, <1>4, <1>5 DEF CountedInv

(* Requests that go away, or that nobody waits for, do no harm.            *)
LEMMA FewerRequests ==
  ASSUME NEW C, CountedInv(C), UNCHANGED <<successTotal, resultChan>>,
         \A k \in network' : k.wanted => k \in network
  PROVE  CountedInv(C)'
BY DEF CountedInv

(* An acceptor that promises tells what it has accepted.                   *)
LEMMA PrepareStep ==
  ASSUME ConsensusInv, TypeOK', NEW m \in network, Prepare(m)
  PROVE  ConsensusInv'
<1> DEFINE promises == m.p.N > lastPromiseProposalNumber[m.to]
           r == [from |-> m.to, Err |-> ~promises,
                 p |-> IF promises THEN acceptedProposal[m.to] ELSE NoProposal]
<1>1. /\ m.type = "Prepare" /\ network' = network \ {m}
      /\ resultChan' = IF m.wanted THEN [resultChan EXCEPT ![m.from] = @ \cup {r}] ELSE resultChan
      /\ UNCHANGED <<acceptedProposal, learnCounter, callbackLearnChan, learns, pc, proposal,
                     highest, successTotal, failedTotal, lastProposalNumber, proposed>>
  BY DEF Prepare, Handle, learnVars, phaseVars, callVars
<1>2. m.to \in Member /\ m.from = leader /\ leader \in Member /\ leader \in Proposer
  BY OneLeader DEF ConsensusInv, NetworkInv, TypeOK, Request
<1>3. r.from = m.to /\ r.p \in {acceptedProposal[m.to], NoProposal}
      /\ (~r.Err => r.p = acceptedProposal[m.to])
  OBVIOUS
<1> HIDE DEF r
<1>4. ValueInv' /\ NetworkInv' /\ OthersInv'
  BY <1>1 DEF ConsensusInv, ValueInv, NetworkInv, OthersInv
<1>5. UNCHANGED Accepted
  BY <1>1 DEF Accepted
<1>6. LearnInv'
  BY <1>1, <1>5 DEF ConsensusInv, LearnInv, AcceptedByQuorum, Copies
<1>7. PrepareInv'
  <2> SUFFICES ASSUME pc[leader] = "prepare"
               PROVE  /\ Sound(highest'[leader])
                      /\ \A k \in resultChan'[leader] : Sound(k.p)
                      /\ \E C \in SUBSET Member : CountedInv(C)' /\ LaterCallInv(C)'
    BY <1>1 DEF PrepareInv, Sound
  <2>1. /\ Sound(highest[leader])
        /\ \A k \in resultChan[leader] : Sound(k.p)
    BY <1>2 DEF ConsensusInv, PhaseInv, PrepareInv
  <2>2. PICK C \in SUBSET Member : CountedInv(C) /\ LaterCallInv(C)
    BY <1>2 DEF ConsensusInv, PhaseInv, PrepareInv
  <2>3. CASE m.wanted
    <3>1. resultChan'[leader] = resultChan[leader] \cup {r}
      BY <1>1, <1>2, <2>3 DEF ConsensusInv, TypeOK
    <3>2. Sound(r.p)
      BY <1>2, <1>3 DEF ConsensusInv, ValueInv, Sound
    <3>3. CountedInv(C)'
      BY <1>1, <1>3, <2>2, <2>3, OneAnswer
    <3>4. LaterCallInv(C)'
      <4> SUFFICES ASSUME lastProposalNumber[leader] > n
                   PROVE  \E A \in SUBSET Accepted :
                            /\ Cardinality(A) >= quorum
                            /\ \A k \in resultChan'[leader] : ~k.Err /\ k.from \in A => k.p # NoProposal
                            /\ A \cap C # {} => highest[leader] # NoProposal
        BY <1>1, <1>5 DEF LaterCallInv
      <4>1. PICK A \in SUBSET Accepted :
                   /\ Cardinality(A) >= quorum
                   /\ \A k \in resultChan[leader] : ~k.Err /\ k.from \in A => k.p # NoProposal
                   /\ A \cap C # {} => highest[leader] # NoProposal
        BY <2>2 DEF LaterCallInv
      <4>2. ~r.Err /\ r.from \in A => r.p # NoProposal
        BY <1>3 DEF Accepted
      <4> QED
        BY <3>1, <4>1, <4>2
    <3> QED
      BY <1>1, <2>1, <3>1, <3>2, <3>3, <3>4
  <2>4. CASE ~m.wanted
    <3>1. CountedInv(C)'
      BY <1>1, <2>2, <2>4, FewerRequests
    <3>2. LaterCallInv(C)'
      BY <1>1, <1>5, <2>2, <2>4 DEF LaterCallInv
    <3> QED
      BY <1>1, <2>1, <2>4, <3>1, <3>2
  <2> QED
    BY <2>3, <2>4
<1>8. AcceptInv'
  <2> SUFFICES ASSUME pc[leader] = "accept"
               PROVE  /\ \A k \in resultChan'[leader] : ~k.Err => k.from \in Accepted
                      /\ \E C \in SUBSET Accepted : CountedInv(C)'
    BY <1>1, <1>5 DEF AcceptInv
  <2>1. ~m.wanted
    BY <1>1, <1>2 DEF ConsensusInv, NetworkInv
  <2>2. PICK C \in SUBSET Accepted : CountedInv(C)
    BY <1>2 DEF ConsensusInv, PhaseInv, AcceptInv
  <2>3. CountedInv(C)'
    BY <1>1, <2>1, <2>2, FewerRequests
  <2> QED
    BY <1>1, <1>2, <2>1, <2>3 DEF ConsensusInv, PhaseInv, AcceptInv
<1>9. PhaseInv'
  BY <1>1, <1>5, <1>7, <1>8 DEF ConsensusInv, PhaseInv, AcceptedByQuorum
<1> QED
  BY <1>4, <1>6, <1>9 DEF ConsensusInv

(* An RPC that fails leaves its request under way.                         *)
LEMMA RpcErrorStep ==
  ASSUME ConsensusInv, TypeOK', NEW m \in network, RpcError(m)
  PROVE  ConsensusInv'
<1> DEFINE r == [from |-> m.to, p |-> NoProposal, Err |-> TRUE]
           late == [m EXCEPT !.wanted = FALSE]
<1>1. /\ m.wanted /\ network' = (network \ {m}) \cup {late}
      /\ resultChan' = [resultChan EXCEPT ![m.from] = @ \cup {r}]
      /\ UNCHANGED <<acceptedProposal, learnCounter, callbackLearnChan, learns, pc, proposal,
                     highest, successTotal, failedTotal, lastProposalNumber, proposed>>
  BY DEF RpcError, workerVars, learnVars, phaseVars, callVars
<1>2. m \in Request /\ m.from = leader /\ leader \in Member /\ leader \in Proposer
  BY OneLeader DEF ConsensusInv, NetworkInv, TypeOK, Request
<1>3. r.from = m.to /\ r.p = NoProposal /\ r.Err
  OBVIOUS
<1>4. /\ late.type = m.type /\ late.from = m.from /\ late.to = m.to /\ late.p = m.p
      /\ ~late.wanted
  BY <1>2 DEF Request
<1> HIDE DEF r, late
<1>5. ValueInv' /\ OthersInv'
  BY <1>1, <1>4 DEF ConsensusInv, ValueInv, OthersInv
<1>6. NetworkInv'
  <2>1. ASSUME NEW k \in network'
        PROVE  /\ k.from = leader /\ leader \in Proposer
               /\ n <= k.p.N /\ k.p.N <= lastProposalNumber[leader]
               /\ k.type = "Accept" /\ pc[leader] = "prepare" => k.p.N < proposal[leader].N
               /\ k.wanted /\ pc[leader] \in {"prepare", "accept"} =>
                    /\ k.p = proposal[leader]
                    /\ k.type = IF pc[leader] = "prepare" THEN "Prepare" ELSE "Accept"
    BY <1>1, <1>4 DEF ConsensusInv, NetworkInv
  <2>2. ASSUME NEW k \in network', NEW l \in network',
               k.type = "Accept", l.type = "Accept", k.to = l.to, k.p.N = l.p.N
        PROVE  k = l
    BY <1>1, <1>4, <2>2 DEF ConsensusInv, NetworkInv
  <2> QED
    BY <1>1, <2>1, <2>2 DEF NetworkInv
<1>7. UNCHANGED Accepted
  BY <1>1 DEF Accepted
<1>8. LearnInv'
  BY <1>1, <1>4, <1>7 DEF ConsensusInv, LearnInv, AcceptedByQuorum, Copies
<1>9. resultChan'[leader] = resultChan[leader] \cup {r}
  BY <1>1, <1>2 DEF ConsensusInv, TypeOK
<1>10. \A k \in network' : k.wanted => k \in network \ {m}
  BY <1>1, <1>4
<1>11. PrepareInv'
  <2> SUFFICES ASSUME pc[leader] = "prepare"
               PROVE  /\ Sound(highest[leader])
                      /\ \A k \in resultChan'[leader] : Sound(k.p)
                      /\ \E C \in SUBSET Member : CountedInv(C)' /\ LaterCallInv(C)'
    BY <1>1 DEF PrepareInv, Sound
  <2>1. /\ Sound(highest[leader])
        /\ \A k \in resultChan[leader] : Sound(k.p)
    BY <1>2 DEF ConsensusInv, PhaseInv, PrepareInv
  <2>2. PICK C \in SUBSET Member : CountedInv(C) /\ LaterCallInv(C)
    BY <1>2 DEF ConsensusInv, PhaseInv, PrepareInv
  <2>3. CountedInv(C)'
    BY <1>1, <1>3, <1>10, <2>2, OneAnswer
  <2>4. LaterCallInv(C)'
    BY <1>1, <1>3, <1>7, <1>9, <2>2 DEF LaterCallInv
  <2> QED
    BY <1>3, <1>9, <2>1, <2>3, <2>4 DEF Sound
<1>12. AcceptInv'
  <2> SUFFICES ASSUME pc[leader] = "accept"
               PROVE  /\ \A k \in resultChan'[leader] : ~k.Err => k.from \in Accepted
                      /\ \E C \in SUBSET Accepted : CountedInv(C)'
    BY <1>1, <1>7 DEF AcceptInv
  <2>1. PICK C \in SUBSET Accepted : CountedInv(C)
    BY <1>2 DEF ConsensusInv, PhaseInv, AcceptInv
  <2>2. CountedInv(C)'
    BY <1>1, <1>3, <1>10, <2>1, OneAnswer
  <2> QED
    BY <1>2, <1>3, <1>9, <2>2 DEF ConsensusInv, PhaseInv, AcceptInv
<1>13. PhaseInv'
  BY <1>1, <1>7, <1>11, <1>12 DEF ConsensusInv, PhaseInv, AcceptedByQuorum
<1> QED
  BY <1>5, <1>6, <1>8, <1>13 DEF ConsensusInv

(* An acceptor accepts the first value, and before a quorum has done so it *)
(* accepts for the first time.                                             *)
LEMMA AcceptStep ==
  ASSUME ConsensusInv, TypeOK', NEW m \in network, Accept(m)
  PROVE  ConsensusInv'
<1> DEFINE a == m.to
           accepts == m.p.N >= lastPromiseProposalNumber[a]
           r == [from |-> a, Err |-> ~accepts, p |-> NoProposal]
           bag(s) == learns[s] (+) SetToBag({m.p})
<1>1. /\ m.type = "Accept" /\ network' = network \ {m}
      /\ resultChan' = IF m.wanted THEN [resultChan EXCEPT ![m.from] = @ \cup {r}] ELSE resultChan
      /\ learns' = IF accepts THEN [s \in Learner |-> bag(s)] ELSE learns
      /\ acceptedProposal' = [acceptedProposal EXCEPT ![a] = IF accepts THEN m.p ELSE @]
      /\ UNCHANGED <<learnCounter, callbackLearnChan, pc, proposal,
                     highest, successTotal, failedTotal, lastProposalNumber, proposed>>
  BY DEF Accept, Handle, learnVars, phaseVars, callVars
<1>2. /\ a \in Member /\ m.p \in Numbered /\ m.from = leader
      /\ leader \in Member /\ leader \in Proposer
  BY OneLeader DEF ConsensusInv, NetworkInv, TypeOK, Request
<1>3. r.from = a /\ (~r.Err => accepts)
  OBVIOUS
<1>4. \A s \in Learner : /\ IsABag(bag(s)) /\ DOMAIN bag(s) = DOMAIN learns[s] \cup {m.p}
                         /\ m.p = firstProposal => Copies(bag(s)) = Copies(learns[s]) + 1
                         /\ Copies(learns[s]) \in Nat
  BY BagAdd DEF ConsensusInv, TypeOK
<1>5. n \in Nat /\ n > 0 /\ m.p.N \in Nat /\ lastProposalNumber[leader] \in Nat
  BY <1>2, Numbers DEF ConsensusInv, TypeOK, Numbered
<1>6. n <= m.p.N /\ m.p.N <= lastProposalNumber[leader] /\ m.p.Value = firstValue
  BY <1>1 DEF ConsensusInv, NetworkInv, ValueInv
<1>7. Sound(m.p) /\ m.p # NoProposal
  BY <1>5, <1>6 DEF Sound, NoProposal
<1> HIDE DEF r, bag, accepts
<1>8. Accepted' = IF accepts THEN Accepted \cup {a} ELSE Accepted
  BY <1>1, <1>2, <1>7 DEF Accepted, ConsensusInv, TypeOK
<1>9. ValueInv' /\ NetworkInv' /\ OthersInv'
  <2>1. \A s \in Member : Sound(acceptedProposal'[s])
    BY <1>1, <1>2, <1>7 DEF ConsensusInv, ValueInv, TypeOK
  <2>2. \A s \in Learner : \A p \in BagToSet(learns'[s]) : p.Value = firstValue
    BY <1>1, <1>4, <1>6 DEF ConsensusInv, ValueInv, BagToSet
  <2>3. ValueInv'
    BY <1>1, <2>1, <2>2 DEF ConsensusInv, ValueInv, Sound
  <2> QED
    BY <1>1, <2>3 DEF ConsensusInv, NetworkInv, OthersInv
<1>10. /\ IsFiniteSet(Accepted) /\ Cardinality(Accepted) \in Nat
       /\ a \notin Accepted => Cardinality(Accepted \cup {a}) = Cardinality(Accepted) + 1
       /\ a \in Accepted => Accepted \cup {a} = Accepted
  BY Numbers, FS_Subset, FS_CardinalityType, FS_AddElement, Accepted \in SUBSET Member DEF Accepted
<1>11. Cardinality(Accepted') \in Nat /\ Cardinality(Accepted') >= Cardinality(Accepted)
  <2>1. CASE accepts /\ a \notin Accepted
    BY <1>8, <1>10, <2>1
  <2>2. CASE ~accepts \/ a \in Accepted
    <3>1. Accepted' = Accepted
      BY <1>8, <2>2
    <3> QED
      BY <1>10, <3>1
  <2> QED
    BY <2>1, <2>2
<1>12. AcceptedByQuorum => AcceptedByQuorum'
  BY <1>10, <1>11, Numbers DEF AcceptedByQuorum
<1>13. LearnInv'
  <2> SUFFICES ASSUME ~AcceptedByQuorum, accepts
               PROVE  /\ \A k \in network' : k.type = "Accept" => k.to \notin Accepted'
                      /\ \A s \in Learner :
                           /\ BagToSet(learns'[s]) \subseteq {firstProposal}
                           /\ learnCounter[s] + Copies(learns'[s]) <= Cardinality(Accepted')
                           /\ callbackLearnChan[s] = NoValue
    <3>1. CASE AcceptedByQuorum
      BY <1>12, <3>1 DEF LearnInv
    <3>2. CASE ~AcceptedByQuorum /\ ~accepts
      BY <1>1, <1>8, <3>2 DEF ConsensusInv, LearnInv, Copies
    <3>3. CASE ~AcceptedByQuorum /\ accepts
      BY <1>1, <3>3 DEF LearnInv, Copies
    <3> QED
      BY <3>1, <3>2, <3>3
  <2>1. lastProposalNumber[leader] <= n
    BY <1>2, <1>5 DEF ConsensusInv, PhaseInv
  <2>2. m.p = firstProposal
    <3>1. m.p.N = n /\ m.p.Value = firstValue
      BY <1>5, <1>6, <2>1
    <3> QED
      BY <1>2, <3>1 DEF firstProposal, Numbered
  <2>3. a \notin Accepted
    BY <1>1 DEF ConsensusInv, LearnInv
  <2>4. ASSUME NEW k \in network', k.type = "Accept" PROVE k.to \notin Accepted'
    <3>1. k \in network /\ k # m
      BY <1>1, <2>4
    <3>2. k.p.N = m.p.N
      <4>1. n <= k.p.N /\ k.p.N <= lastProposalNumber[leader] /\ k.p.N \in Nat
        BY <3>1 DEF ConsensusInv, NetworkInv, TypeOK, Request, Numbered
      <4> QED
        BY <1>5, <1>6, <2>1, <4>1
    <3>3. k.to # a
      BY <1>1, <2>4, <3>1, <3>2 DEF ConsensusInv, NetworkInv
    <3>4. k.to \notin Accepted
      BY <2>4, <3>1 DEF ConsensusInv, LearnInv
    <3> QED
      BY <1>8, <3>3, <3>4
  <2>5. ASSUME NEW s \in Learner
        PROVE  /\ BagToSet(learns'[s]) \subseteq {firstProposal}
               /\ learnCounter[s] + Copies(learns'[s]) <= Cardinality(Accepted')
               /\ callbackLearnChan[s] = NoValue
    <3>1. learns'[s] = bag(s)
      BY <1>1
    <3>2. /\ BagToSet(learns[s]) \subseteq {firstProposal}
          /\ learnCounter[s] + Copies(learns[s]) <= Cardinality(Accepted)
          /\ callbackLearnChan[s] = NoValue
      BY DEF ConsensusInv, LearnInv
    <3>3. Copies(learns'[s]) = Copies(learns[s]) + 1 /\ Copies(learns[s]) \in Nat
      BY <1>4, <2>2, <3>1
    <3>4. Cardinality(Accepted') = Cardinality(Accepted) + 1
      BY <1>8, <1>10, <2>3
    <3>5. learnCounter[s] \in Nat
      BY DEF ConsensusInv, TypeOK
    <3>6. learnCounter[s] + Copies(learns'[s]) <= Cardinality(Accepted')
      BY <1>10, <3>2, <3>3, <3>4, <3>5
    <3>7. DOMAIN bag(s) = DOMAIN learns[s] \cup {firstProposal}
      BY <1>4, <2>2
    <3> QED
      BY <3>1, <3>2, <3>6, <3>7 DEF BagToSet
  <2> QED
    BY <2>4, <2>5
<1>14. PrepareInv'
  <2> SUFFICES ASSUME pc[leader] = "prepare"
               PROVE  /\ Sound(highest[leader])
                      /\ \A k \in resultChan'[leader] : Sound(k.p)
                      /\ \E C \in SUBSET Member : CountedInv(C)' /\ LaterCallInv(C)'
    BY <1>1 DEF PrepareInv, Sound
  <2>1. ~m.wanted
    BY <1>1, <1>2 DEF ConsensusInv, NetworkInv
  <2>2. UNCHANGED resultChan
    BY <1>1, <2>1
  <2>3. PICK C \in SUBSET Member : CountedInv(C) /\ LaterCallInv(C)
    BY <1>2 DEF ConsensusInv, PhaseInv, PrepareInv
  <2>4. CountedInv(C)'
    BY <1>1, <2>2, <2>3, FewerRequests
  <2>5. LaterCallInv(C)'
    <3>1. Accepted \subseteq Accepted'
      BY <1>8
    <3> QED
      BY <1>1, <2>2, <2>3, <3>1 DEF LaterCallInv
  <2> QED
    BY <1>2, <2>2, <2>4, <2>5 DEF ConsensusInv, PhaseInv, PrepareInv
<1>15. AcceptInv'
  <2> SUFFICES ASSUME pc[leader] = "accept"
               PROVE  /\ \A k \in resultChan'[leader] : ~k.Err => k.from \in Accepted'
                      /\ \E C \in SUBSET Accepted' : CountedInv(C)'
    BY <1>1 DEF AcceptInv
  <2>1. PICK C \in SUBSET Accepted : CountedInv(C)
    BY <1>2 DEF ConsensusInv, PhaseInv, AcceptInv
  <2>2. C \in SUBSET Accepted'
    BY <1>8
  <2>3. CountedInv(C)'
    <3>1. CASE m.wanted
      BY <1>1, <1>3, <2>1, <3>1, OneAnswer
    <3>2. CASE ~m.wanted
      BY <1>1, <2>1, <3>2, FewerRequests
    <3> QED
      BY <3>1, <3>2
  <2>4. resultChan'[leader] \subseteq resultChan[leader] \cup {r}
    BY <1>1, <1>2 DEF ConsensusInv, TypeOK
  <2>5. ~r.Err => r.from \in Accepted'
    BY <1>3, <1>8
  <2>6. \A k \in resultChan[leader] : ~k.Err => k.from \in Accepted'
    BY <1>2, <1>8 DEF ConsensusInv, PhaseInv, AcceptInv
  <2> QED
    BY <2>2, <2>3, <2>4, <2>5, <2>6
<1>16. pc[leader] \in {"idle", "prepare"} => lastProposalNumber[leader] > n
  BY <1>1, <1>2, <1>5, <1>6 DEF ConsensusInv, NetworkInv, PhaseInv
<1>17. PhaseInv'
  BY <1>1, <1>5, <1>12, <1>14, <1>15, <1>16 DEF ConsensusInv, PhaseInv
<1> QED
  BY <1>9, <1>13, <1>17 DEF ConsensusInv

-----------------------------------------------------------------------------
(***************************************************************************)
(* The learners                                                            *)
(***************************************************************************)
(* Before a quorum has accepted, no learner counts a quorum.               *)
LEMMA LearnStep ==
  ASSUME ConsensusInv, TypeOK', NEW s \in Learner, NEW p \in BagToSet(learns[s]), Learn(s, p)
  PROVE  ConsensusInv'
<1> DEFINE bag == learns[s] (-) SetToBag({p})
<1>1. /\ learns' = [learns EXCEPT ![s] = bag]
      /\ learnCounter' = [learnCounter EXCEPT ![s] = @ + 1]
      /\ callbackLearnChan' =
           [callbackLearnChan EXCEPT ![s] = IF learnCounter'[s] = quorum THEN p.Value ELSE @]
      /\ UNCHANGED <<acceptedProposal, lastPromiseProposalNumber, pc, proposal, highest,
                     successTotal, failedTotal, lastProposalNumber, proposed, resultChan, network>>
  BY DEF Learn, phaseVars, callVars, quorum, LearnsNeeded
<1>2. /\ IsABag(bag) /\ DOMAIN bag \subseteq DOMAIN learns[s]
      /\ p = firstProposal => Copies(bag) = Copies(learns[s]) - 1 /\ Copies(learns[s]) > 0
      /\ Copies(learns[s]) \in Nat
  BY BagRemove DEF ConsensusInv, TypeOK, BagIn
<1> HIDE DEF bag
<1>3. learns'[s] = bag /\ \A t \in Learner \ {s} : learns'[t] = learns[t]
  BY <1>1 DEF ConsensusInv, TypeOK
<1>4. UNCHANGED Accepted
  BY <1>1 DEF Accepted
<1>5. NetworkInv' /\ OthersInv'
  BY <1>1 DEF ConsensusInv, NetworkInv, OthersInv
<1>6. PhaseInv'
  <2>1. PrepareInv' /\ AcceptInv' <=> PrepareInv /\ AcceptInv
    BY <1>1, <1>4 DEF PrepareInv, AcceptInv, CountedInv, LaterCallInv, Sound
  <2> QED
    BY <1>1, <1>4, <2>1 DEF ConsensusInv, PhaseInv, AcceptedByQuorum
<1>7. ValueInv'
  <2>1. \A t \in Learner : DOMAIN learns'[t] \subseteq DOMAIN learns[t]
    BY <1>2, <1>3
  <2>2. \A t \in Learner : \A q \in BagToSet(learns'[t]) : q.Value = firstValue
    BY <2>1 DEF ConsensusInv, ValueInv, BagToSet
  <2>3. p.Value = firstValue
    BY DEF ConsensusInv, ValueInv
  <2>4. \A t \in Learner : callbackLearnChan'[t] \in {firstValue, NoValue}
    BY <1>1, <2>3 DEF ConsensusInv, ValueInv, TypeOK
  <2> QED
    BY <1>1, <2>2, <2>4 DEF ConsensusInv, ValueInv, Sound
<1>8. LearnInv'
  <2> SUFFICES ASSUME ~AcceptedByQuorum
               PROVE  \A t \in Learner :
                        /\ BagToSet(learns'[t]) \subseteq {firstProposal}
                        /\ learnCounter'[t] + Copies(learns'[t]) <= Cardinality(Accepted)
                        /\ callbackLearnChan'[t] = NoValue
    BY <1>1, <1>4 DEF ConsensusInv, LearnInv, AcceptedByQuorum, Copies
  <2>1. \A t \in Learner : /\ BagToSet(learns[t]) \subseteq {firstProposal}
                           /\ learnCounter[t] + Copies(learns[t]) <= Cardinality(Accepted)
                           /\ callbackLearnChan[t] = NoValue
    BY DEF ConsensusInv, LearnInv
  <2>2. \A t \in Learner \ {s} : learnCounter'[t] = learnCounter[t]
                                 /\ callbackLearnChan'[t] = callbackLearnChan[t]
    BY <1>1 DEF ConsensusInv, TypeOK
  <2>3. p = firstProposal
    BY <2>1
  <2>4. learnCounter[s] \in Nat /\ learnCounter'[s] = learnCounter[s] + 1
    BY <1>1 DEF ConsensusInv, TypeOK
  <2>5. Cardinality(Accepted) \in Nat /\ quorum \in Nat /\ Cardinality(Accepted) < quorum
    BY Numbers, FS_Subset, FS_CardinalityType, Accepted \in SUBSET Member DEF Accepted, AcceptedByQuorum
  <2>6. /\ learnCounter'[s] + Copies(learns'[s]) <= Cardinality(Accepted)
        /\ learnCounter'[s] # quorum
    BY <1>2, <1>3, <2>1, <2>3, <2>4, <2>5
  <2>7. callbackLearnChan'[s] = NoValue
    BY <1>1, <2>1, <2>6 DEF ConsensusInv, TypeOK
  <2>8. BagToSet(learns'[s]) \subseteq {firstProposal}
    BY <1>2, <1>3, <2>1 DEF BagToSet
  <2> SUFFICES ASSUME NEW t \in Learner
               PROVE  /\ BagToSet(learns'[t]) \subseteq {firstProposal}
                      /\ learnCounter'[t] + Copies(learns'[t]) <= Cardinality(Accepted)
                      /\ callbackLearnChan'[t] = NoValue
    OBVIOUS
  <2>9. CASE t = s
    BY <2>6, <2>7, <2>8, <2>9
  <2>10. CASE t # s
    BY <1>3, <2>1, <2>2, <2>10
  <2> QED
    BY <2>9, <2>10
<1> QED
  BY <1>5, <1>6, <1>7, <1>8 DEF ConsensusInv

-----------------------------------------------------------------------------
(***************************************************************************)
(* Propose                                                                 *)
(***************************************************************************)
(* Requests nobody waits for any more are otherwise what they were.        *)
LEMMA NobodyWaitsSame ==
  ASSUME ConsensusInv, NEW k \in NobodyWaits(leader)
  PROVE  \E m \in network :
           /\ k = [m EXCEPT !.wanted = FALSE] /\ ~k.wanted
           /\ k.type = m.type /\ k.from = m.from /\ k.to = m.to /\ k.p = m.p
<1>1. PICK m \in network : k = [m EXCEPT !.wanted = m.wanted /\ m.from # leader]
  BY DEF NobodyWaits
<1>2. m \in Request /\ m.from = leader
  BY DEF ConsensusInv, TypeOK, NetworkInv
<1>3. (m.wanted /\ m.from # leader) = FALSE
  BY <1>2
<1>4. k = [m EXCEPT !.wanted = FALSE]
  BY <1>1, <1>3
<1> QED
  BY <1>2, <1>4 DEF Request

(* There is still one accept request to a member for a number.             *)
LEMMA NobodyWaitsUnique ==
  ASSUME ConsensusInv, NEW k \in NobodyWaits(leader), NEW l \in NobodyWaits(leader),
         k.type = "Accept", l.type = "Accept", k.to = l.to, k.p.N = l.p.N
  PROVE  k = l
<1>1. PICK m \in network : /\ k = [m EXCEPT !.wanted = FALSE]
                           /\ k.type = m.type /\ k.to = m.to /\ k.p = m.p
  BY NobodyWaitsSame
<1>2. PICK h \in network : /\ l = [h EXCEPT !.wanted = FALSE]
                           /\ l.type = h.type /\ l.to = h.to /\ l.p = h.p
  BY NobodyWaitsSame
<1>3. m = h
  BY <1>1, <1>2 DEF ConsensusInv, NetworkInv
<1> QED
  BY <1>1, <1>2, <1>3

(* One answer more is counted.                                             *)
LEMMA CountOne ==
  ASSUME ConsensusInv, leader \in Proposer, NEW r \in resultChan[leader],
         NEW C \in SUBSET Member, CountedInv(C)
  PROVE  /\ C \cup {r.from} \in SUBSET Member
         /\ Cardinality(C \cup {r.from}) = successTotal[leader] + 1
<1>1. r.from \in Member /\ leader \in Member
  BY OneLeader DEF ConsensusInv, TypeOK, Result
<1>2. IsFiniteSet(C) /\ r.from \notin C
  BY Numbers, FS_Subset DEF CountedInv
<1> QED
  BY <1>1, <1>2, FS_AddElement DEF CountedInv

(* The highest accepted proposal that Propose knows of is sound, and there *)
(* is one as soon as an acceptor of the quorum A has answered.             *)
LEMMA HighestIsSound ==
  ASSUME ConsensusInv, leader \in Proposer, pc[leader] = "prepare",
         NEW r \in resultChan[leader], ~r.Err, NEW C, LaterCallInv(C)
  PROVE  LET h == IF highest[leader].N < r.p.N THEN r.p ELSE highest[leader] IN
         /\ Sound(h)
         /\ lastProposalNumber[leader] > n =>
              \E A \in SUBSET Accepted :
                /\ Cardinality(A) >= quorum
                /\ \A k \in resultChan[leader] : ~k.Err /\ k.from \in A => k.p # NoProposal
                /\ A \cap (C \cup {r.from}) # {} => h # NoProposal
<1> DEFINE h == IF highest[leader].N < r.p.N THEN r.p ELSE highest[leader]
<1>1. Sound(highest[leader]) /\ Sound(r.p)
  BY DEF ConsensusInv, PhaseInv, PrepareInv
<1>2. highest[leader].N \in Nat /\ r.p.N \in Nat
  BY OneLeader DEF ConsensusInv, TypeOK, Result, Numbered
<1>3. Sound(h)
  BY <1>1
<1>4. ASSUME lastProposalNumber[leader] > n
      PROVE  \E A \in SUBSET Accepted :
                /\ Cardinality(A) >= quorum
                /\ \A k \in resultChan[leader] : ~k.Err /\ k.from \in A => k.p # NoProposal
                /\ A \cap (C \cup {r.from}) # {} => h # NoProposal
  <2>1. PICK A \in SUBSET Accepted :
               /\ Cardinality(A) >= quorum
               /\ \A k \in resultChan[leader] : ~k.Err /\ k.from \in A => k.p # NoProposal
               /\ A \cap C # {} => highest[leader] # NoProposal
    BY <1>4 DEF LaterCallInv
  <2>2. ASSUME A \cap (C \cup {r.from}) # {} PROVE h # NoProposal
    <3>1. highest[leader] # NoProposal \/ r.p # NoProposal
      BY <2>1, <2>2
    <3>2. highest[leader].N # 0 \/ r.p.N # 0
      BY <1>1, <3>1 DEF Sound
    <3>3. h.N # 0
      BY <1>2, <3>2
    <3> QED
      BY <3>3 DEF NoProposal
  <2> QED
    BY <2>1, <2>2
<1> QED
  BY <1>3, <1>4

(* A call of Propose: the first one before anything is accepted, all       *)
(* others after a quorum has accepted.                                     *)
LEMMA ProposeStep ==
  ASSUME ConsensusInv, TypeOK', NEW s \in Member, Propose(s)
  PROVE  ConsensusInv'
<1> DEFINE next == getNextProposalNumber(leader)
           last == lastProposalNumber[leader]
           p == [N |-> next, Value |-> NoValue]
<1>1. s = leader /\ leader \in Proposer /\ leader \in Member
  BY OneLeader DEF Propose
<1>2. /\ pc[leader] \in {"idle", "wait"}
      /\ lastProposalNumber' = [lastProposalNumber EXCEPT ![leader] = next]
      /\ network' = NobodyWaits(leader) \cup Broadcast("Prepare", leader, p)
      /\ proposed' = proposed \cup {ValueOf(leader, lastProposalNumber'[leader])}
      /\ UNCHANGED <<acceptedProposal, learnCounter, callbackLearnChan, learns>>
  BY <1>1 DEF Propose, saveProposalNumberOnStorage, StartPhase, EndPhase, workerVars, learnVars
<1>3. /\ pc'[leader] = "prepare" /\ lastProposalNumber'[leader] = next
      /\ highest'[leader] = NoProposal /\ proposal'[leader] = p
      /\ successTotal'[leader] = 0 /\ failedTotal'[leader] = 0
      /\ resultChan'[leader] = {}
      /\ \A t \in Member \ {leader} : pc'[t] = pc[t]
  BY <1>1 DEF ConsensusInv, TypeOK, Propose, saveProposalNumberOnStorage, StartPhase, EndPhase
<1>4. /\ last \in Nat /\ next \in Nat /\ next >= n /\ next > last
      /\ last >= n => next > n
      /\ last = 0 => next = n
      /\ n \in Nat /\ n > 0 /\ quorum \in Nat /\ quorum > 0
      /\ NumberOfToleratedFaults(AssociatedView) = n - quorum /\ n >= quorum
  BY <1>1, NextNumber, Numbers DEF ConsensusInv, TypeOK
<1>5. /\ pc[leader] = "idle" <=> last = 0
      /\ pc[leader] \in {"idle", "prepare"} /\ last <= n => Accepted = {}
      /\ pc[leader] # "idle" => last >= n /\ firstValue \in proposed
      /\ pc[leader] = "wait" \/ last > n => AcceptedByQuorum
  BY <1>1 DEF ConsensusInv, PhaseInv
<1>6. UNCHANGED Accepted
  BY <1>2 DEF Accepted
<1>7. p.N = next
  OBVIOUS
<1> HIDE DEF next, last, p
<1>8. ASSUME NEW k \in network', k.type = "Accept"
      PROVE  /\ k \in NobodyWaits(leader)
             /\ \E m \in network : m.type = "Accept" /\ k.p = m.p /\ k.to = m.to
  <2>1. k \in NobodyWaits(leader)
    BY <1>2, <1>8 DEF Broadcast
  <2> QED
    BY <1>8, <2>1, NobodyWaitsSame
<1>9. ValueInv' /\ OthersInv'
  BY <1>1, <1>2, <1>3, <1>8 DEF ConsensusInv, ValueInv, OthersInv, Sound
<1>10. NetworkInv'
  <2>1. ASSUME NEW k \in NobodyWaits(leader)
        PROVE  k.from = leader /\ n <= k.p.N /\ k.p.N < next /\ ~k.wanted
    <3>1. PICK m \in network : ~k.wanted /\ k.from = m.from /\ k.p = m.p
      BY NobodyWaitsSame
    <3>2. m.from = leader /\ n <= m.p.N /\ m.p.N <= last /\ m.p.N \in Nat
      BY DEF last, ConsensusInv, NetworkInv, TypeOK, Request, Numbered
    <3> QED
      BY <1>4, <3>1, <3>2
  <2>2. ASSUME NEW k \in Broadcast("Prepare", leader, p)
        PROVE  k.from = leader /\ k.p = p /\ k.type = "Prepare"
    BY DEF Broadcast
  <2>3. ASSUME NEW k \in network'
        PROVE  /\ k.from = leader /\ leader \in Proposer
               /\ n <= k.p.N /\ k.p.N <= lastProposalNumber'[leader]
               /\ k.type = "Accept" /\ pc'[leader] = "prepare" => k.p.N < proposal'[leader].N
               /\ k.wanted /\ pc'[leader] \in {"prepare", "accept"} =>
                    /\ k.p = proposal'[leader]
                    /\ k.type = IF pc'[leader] = "prepare" THEN "Prepare" ELSE "Accept"
    <3>1. CASE k \in NobodyWaits(leader)
      <4>1. k.from = leader /\ n <= k.p.N /\ k.p.N < next /\ ~k.wanted
        BY <2>1, <3>1
      <4>2. k.p.N \in Nat
        BY <2>3 DEF TypeOK, Request, Numbered
      <4> QED
        BY <1>1, <1>3, <1>4, <1>7, <4>1, <4>2
    <3>2. CASE k \in Broadcast("Prepare", leader, p)
      <4>1. k.from = leader /\ k.p = p /\ k.type = "Prepare"
        BY <2>2, <3>2
      <4> QED
        BY <1>1, <1>3, <1>4, <1>7, <4>1
    <3> QED
      BY <1>2, <2>3, <3>1, <3>2
  <2>4. ASSUME NEW k \in network', NEW l \in network',
               k.type = "Accept", l.type = "Accept", k.to = l.to, k.p.N = l.p.N
        PROVE  k = l
    BY <1>8, <2>4, NobodyWaitsUnique
  <2> QED
    BY <2>3, <2>4 DEF NetworkInv
<1>11. LearnInv'
  BY <1>2, <1>6, <1>8 DEF ConsensusInv, LearnInv, AcceptedByQuorum, Copies
<1>12. PrepareInv'
  <2>1. CountedInv({})'
    BY <1>3, FS_EmptySet DEF CountedInv
  <2>2. LaterCallInv({})'
    <3> SUFFICES ASSUME next > n
                 PROVE  \E A \in SUBSET Accepted : Cardinality(A) >= quorum
      BY <1>3, <1>6 DEF LaterCallInv
    <3> QED
      BY <1>2, <1>4, <1>5 DEF AcceptedByQuorum
  <2> QED
    BY <1>3, <2>1, <2>2 DEF PrepareInv, Sound
<1>13. PhaseInv'
  <2>1. ~(next = 0) /\ next >= n
    BY <1>4
  <2>2. next <= n => Accepted' = {}
    BY <1>2, <1>4, <1>5, <1>6
  <2>3. firstValue \in proposed'
    BY <1>2, <1>3, <1>4, <1>5 DEF firstValue
  <2>4. next > n => AcceptedByQuorum'
    BY <1>2, <1>4, <1>5, <1>6 DEF AcceptedByQuorum
  <2>5. failedTotal'[leader] <= NumberOfToleratedFaults(AssociatedView)
    BY <1>3, <1>4
  <2>6. AcceptInv'
    BY <1>3 DEF AcceptInv
  <2> QED
    BY <1>3, <1>4, <1>7, <1>12, <2>1, <2>2, <2>3, <2>4, <2>5, <2>6 DEF PhaseInv
<1> QED
  BY <1>9, <1>10, <1>11, <1>13 DEF ConsensusInv

(* An answer is counted, and Propose waits for more.                       *)
LEMMA ReceiveResultStep ==
  ASSUME ConsensusInv, TypeOK', NEW s \in Member, NEW r \in resultChan[s], ReceiveResult(s, r)
  PROVE  ConsensusInv'
<1> DEFINE h == IF highest[leader].N < r.p.N THEN r.p ELSE highest[leader]
<1>1. s = leader /\ leader \in Proposer
  BY OnlyTheLeader DEF ReceiveResult
<1>2. /\ ~r.Err /\ successTotal[leader] + 1 < quorum
      /\ UNCHANGED <<acceptedProposal, learnCounter, callbackLearnChan, lastProposalNumber,
                     proposed, pc, proposal, failedTotal, network, learns>>
  BY <1>1 DEF ReceiveResult, workerVars, learnVars, callVars, quorum
<1>3. /\ successTotal'[leader] = successTotal[leader] + 1
      /\ highest'[leader] = h
      /\ resultChan'[leader] = resultChan[leader] \ {r}
  BY <1>1 DEF ReceiveResult, ConsensusInv, TypeOK
<1>4. UNCHANGED Accepted
  BY <1>2 DEF Accepted
<1>5. ValueInv' /\ NetworkInv' /\ OthersInv' /\ LearnInv'
  BY <1>2, <1>4
     DEF ConsensusInv, ValueInv, NetworkInv, OthersInv, LearnInv, Sound, AcceptedByQuorum, Copies
<1>6. ASSUME NEW C \in SUBSET Member, CountedInv(C)
      PROVE  CountedInv(C \cup {r.from})'
  <2>1. Cardinality(C \cup {r.from}) = successTotal[leader] + 1
    BY <1>1, <1>6, CountOne
  <2> QED
    BY <1>1, <1>2, <1>3, <1>6, <2>1 DEF CountedInv
<1>7. PrepareInv'
  <2> SUFFICES ASSUME pc[leader] = "prepare"
               PROVE  /\ Sound(h)
                      /\ \A k \in resultChan'[leader] : Sound(k.p)
                      /\ \E C \in SUBSET Member : CountedInv(C)' /\ LaterCallInv(C)'
    BY <1>2, <1>3 DEF PrepareInv, Sound
  <2>1. PICK C \in SUBSET Member : CountedInv(C) /\ LaterCallInv(C)
    BY <1>1 DEF ConsensusInv, PhaseInv, PrepareInv
  <2>2. /\ Sound(h)
        /\ lastProposalNumber[leader] > n =>
             \E A \in SUBSET Accepted :
               /\ Cardinality(A) >= quorum
               /\ \A k \in resultChan[leader] : ~k.Err /\ k.from \in A => k.p # NoProposal
               /\ A \cap (C \cup {r.from}) # {} => h # NoProposal
    BY <1>1, <1>2, <2>1, HighestIsSound
  <2> HIDE DEF h
  <2>3. LaterCallInv(C \cup {r.from})'
    BY <1>2, <1>3, <1>4, <2>2 DEF LaterCallInv
  <2>4. C \cup {r.from} \in SUBSET Member
    BY <1>1, <2>1, CountOne
  <2>5. \A k \in resultChan'[leader] : Sound(k.p)
    BY <1>1, <1>3 DEF ConsensusInv, PhaseInv, PrepareInv
  <2> QED
    BY <1>6, <2>1, <2>2, <2>3, <2>4, <2>5
<1>8. AcceptInv'
  <2> SUFFICES ASSUME pc[leader] = "accept"
               PROVE  /\ \A k \in resultChan'[leader] : ~k.Err => k.from \in Accepted
                      /\ \E C \in SUBSET Accepted : CountedInv(C)'
    BY <1>2, <1>4 DEF AcceptInv
  <2>1. PICK C \in SUBSET Accepted : CountedInv(C)
    BY <1>1 DEF ConsensusInv, PhaseInv, AcceptInv
  <2>2. \A k \in resultChan[leader] : ~k.Err => k.from \in Accepted
    BY <1>1 DEF ConsensusInv, PhaseInv, AcceptInv
  <2>3. C \in SUBSET Member /\ C \cup {r.from} \in SUBSET Accepted
    BY <1>1, <1>2, <2>2 DEF Accepted
  <2> QED
    BY <1>3, <1>6, <2>1, <2>2, <2>3
<1>9. PhaseInv'
  BY <1>2, <1>3, <1>4, <1>7, <1>8 DEF ConsensusInv, PhaseInv, AcceptedByQuorum
<1> QED
  BY <1>5, <1>9 DEF ConsensusInv

(* An error is counted; one too many ends the process.                     *)
LEMMA ReceiveErrorStep ==
  ASSUME ConsensusInv, TypeOK', NEW s \in Member, NEW r \in resultChan[s], ReceiveError(s, r)
  PROVE  ConsensusInv'
<1>1. s = leader /\ leader \in Proposer /\ pc[leader] \in {"prepare", "accept"}
  BY OnlyTheLeader DEF ReceiveError
<1>2. UNCHANGED <<acceptedProposal, learnCounter, callbackLearnChan, lastProposalNumber,
                  proposed, proposal, highest, successTotal, network, learns>>
  BY <1>1 DEF ReceiveError, workerVars, learnVars, callVars
<1>3. /\ resultChan'[leader] = resultChan[leader] \ {r}
      /\ \/ pc'[leader] = "exited"
         \/ /\ pc'[leader] = pc[leader]
            /\ ~(failedTotal'[leader] > NumberOfToleratedFaults(AssociatedView))
      /\ \A t \in Member \ {leader} : pc'[t] = pc[t]
  BY <1>1 DEF ReceiveError, ConsensusInv, TypeOK
<1>4. UNCHANGED Accepted
  BY <1>2 DEF Accepted
<1>5. ValueInv' /\ NetworkInv' /\ OthersInv' /\ LearnInv'
  BY <1>1, <1>2, <1>3, <1>4
     DEF ConsensusInv, ValueInv, NetworkInv, OthersInv, LearnInv, Sound, AcceptedByQuorum, Copies
<1>6. \A C : CountedInv(C) => CountedInv(C)'
  BY <1>2, <1>3 DEF CountedInv
<1>7. \A C : LaterCallInv(C) => LaterCallInv(C)'
  BY <1>2, <1>3, <1>4 DEF LaterCallInv
<1>8. PrepareInv'
  <2> SUFFICES ASSUME pc[leader] = "prepare"
               PROVE  /\ Sound(highest[leader])
                      /\ \A k \in resultChan'[leader] : Sound(k.p)
                      /\ \E C \in SUBSET Member : CountedInv(C)' /\ LaterCallInv(C)'
    BY <1>2, <1>3 DEF PrepareInv, Sound
  <2>1. /\ Sound(highest[leader])
        /\ \A k \in resultChan[leader] : Sound(k.p)
        /\ \E C \in SUBSET Member : CountedInv(C) /\ LaterCallInv(C)
    BY <1>1 DEF ConsensusInv, PhaseInv, PrepareInv
  <2> QED
    BY <1>3, <1>6, <1>7, <2>1
<1>9. AcceptInv'
  <2> SUFFICES ASSUME pc[leader] = "accept"
               PROVE  /\ \A k \in resultChan'[leader] : ~k.Err => k.from \in Accepted
                      /\ \E C \in SUBSET Accepted : CountedInv(C)'
    BY <1>2, <1>3, <1>4 DEF AcceptInv
  <2>1. /\ \A k \in resultChan[leader] : ~k.Err => k.from \in Accepted
        /\ \E C \in SUBSET Accepted : CountedInv(C)
    BY <1>1 DEF ConsensusInv, PhaseInv, AcceptInv
  <2> QED
    BY <1>3, <1>6, <2>1
<1>10. failedTotal'[leader] \in Nat /\ n \in Nat /\ quorum \in Nat
       /\ NumberOfToleratedFaults(AssociatedView) = n - quorum
  BY <1>1, OneLeader, Numbers DEF TypeOK, n
<1>11. PhaseInv'
  BY <1>1, <1>2, <1>3, <1>4, <1>8, <1>9, <1>10 DEF ConsensusInv, PhaseInv, AcceptedByQuorum
<1> QED
  BY <1>5, <1>11 DEF ConsensusInv

(* A quorum has promised: the value of the accept phase is the first one.  *)
LEMMA PrepareQuorumStep ==
  ASSUME ConsensusInv, TypeOK', NEW s \in Member, NEW r \in resultChan[s], PrepareQuorum(s, r)
  PROVE  ConsensusInv'
<1> DEFINE h == IF highest[leader].N < r.p.N THEN r.p ELSE highest[leader]
           last == lastProposalNumber[leader]
           p == [proposal[leader] EXCEPT !.Value = ValueToPropose(leader, h)]
<1>1. s = leader /\ leader \in Proposer /\ leader \in Member /\ pc[leader] = "prepare"
  BY OnlyTheLeader, OneLeader DEF PrepareQuorum
<1>2. /\ ~r.Err /\ successTotal[leader] + 1 = quorum
      /\ network' = NobodyWaits(leader) \cup Broadcast("Accept", leader, p)
      /\ UNCHANGED <<acceptedProposal, learnCounter, callbackLearnChan, lastProposalNumber,
                     proposed, learns>>
  BY <1>1 DEF PrepareQuorum, StartPhase, EndPhase, workerVars, learnVars, callVars, quorum
<1>3. /\ pc'[leader] = "accept" /\ proposal'[leader] = p
      /\ successTotal'[leader] = 0 /\ failedTotal'[leader] = 0
      /\ resultChan'[leader] = {}
      /\ \A t \in Member \ {leader} : pc'[t] = pc[t]
  BY <1>1 DEF ConsensusInv, TypeOK, PrepareQuorum, StartPhase, EndPhase
<1>4. /\ last \in Nat /\ last >= n /\ proposal[leader].N = last /\ last # 0
      /\ last <= n => Accepted = {}
      /\ last > n => AcceptedByQuorum
      /\ n \in Nat /\ n > 0 /\ quorum \in Nat /\ quorum > 0
      /\ NumberOfToleratedFaults(AssociatedView) = n - quorum /\ n >= quorum
      /\ firstValue \in proposed
  BY <1>1, Numbers DEF ConsensusInv, TypeOK, PhaseInv
<1>5. Sound(h) /\ (last > n => h # NoProposal)
  <2>1. PICK C \in SUBSET Member : CountedInv(C) /\ LaterCallInv(C)
    BY <1>1 DEF ConsensusInv, PhaseInv, PrepareInv
  <2>2. /\ Sound(h)
        /\ last > n =>
             \E A \in SUBSET Accepted :
               /\ Cardinality(A) >= quorum
               /\ A \cap (C \cup {r.from}) # {} => h # NoProposal
    BY <1>1, <1>2, <2>1, HighestIsSound
  <2> HIDE DEF h, last
  <2>3. C \cup {r.from} \in SUBSET Member /\ Cardinality(C \cup {r.from}) >= quorum
    <3>1. C \cup {r.from} \in SUBSET Member /\ Cardinality(C \cup {r.from}) = quorum
      BY <1>1, <1>2, <2>1, CountOne
    <3> QED
      BY <1>4, <3>1
  <2>4. ASSUME last > n PROVE h # NoProposal
    <3>1. PICK A \in SUBSET Accepted :
                 /\ Cardinality(A) >= quorum
                 /\ A \cap (C \cup {r.from}) # {} => h # NoProposal
      BY <2>2, <2>4
    <3>2. A \in SUBSET Member
      BY DEF Accepted
    <3>3. \E t \in A : t \in C \cup {r.from}
      BY <2>3, <3>1, <3>2, QuorumIntersection, ConsensusAssumption DEF quorum, Member
    <3> QED
      BY <3>1, <3>3
  <2> QED
    BY <2>2, <2>4
<1>6. ValueToPropose(leader, h) = firstValue
  <2>1. firstValue # NoValue
    <3>1. firstValue \in [proposer : Process, N : Nat]
      BY <1>1, <1>4 DEF firstValue, ValueOf, Member, Members
    <3> QED
      BY <3>1, ConsensusAssumption
  <2>2. CASE h = NoProposal
    <3>1. last = n /\ h.Value = NoValue
      BY <1>4, <1>5, <2>2 DEF NoProposal
    <3> QED
      BY <1>4, <3>1 DEF ValueToPropose, firstValue
  <2>3. CASE h # NoProposal
    BY <1>5, <2>1, <2>3 DEF ValueToPropose, Sound
  <2> QED
    BY <2>2, <2>3
<1>7. p.N = last /\ p.Value = firstValue
  BY <1>1, <1>4, <1>6 DEF ConsensusInv, TypeOK, Numbered
<1>8. UNCHANGED Accepted
  BY <1>2 DEF Accepted
<1> HIDE DEF h, last, p
<1>9. ASSUME NEW k \in NobodyWaits(leader)
      PROVE  /\ k.from = leader /\ n <= k.p.N /\ k.p.N <= last /\ ~k.wanted
             /\ k.type = "Accept" => k.p.N < last /\ k.p.Value = firstValue
  <2>1. PICK m \in network : ~k.wanted /\ k.from = m.from /\ k.p = m.p /\ k.type = m.type
    BY NobodyWaitsSame
  <2>2. /\ m.from = leader /\ n <= m.p.N /\ m.p.N <= last
        /\ m.type = "Accept" => m.p.N < last /\ m.p.Value = firstValue
    BY <1>1, <1>4 DEF last, ConsensusInv, NetworkInv, ValueInv
  <2> QED
    BY <2>1, <2>2
<1>10. ASSUME NEW k \in Broadcast("Accept", leader, p)
       PROVE  k.from = leader /\ k.p = p /\ k.type = "Accept"
  BY DEF Broadcast
<1>11. ValueInv' /\ OthersInv'
  <2>1. \A k \in network' : k.type = "Accept" => k.p.Value = firstValue
    BY <1>2, <1>7, <1>9, <1>10
  <2> QED
    BY <1>1, <1>2, <1>3, <2>1 DEF ConsensusInv, ValueInv, OthersInv, Sound
<1>12. NetworkInv'
  <2>1. ASSUME NEW k \in network'
        PROVE  /\ k.from = leader /\ leader \in Proposer
               /\ n <= k.p.N /\ k.p.N <= lastProposalNumber'[leader]
               /\ k.type = "Accept" /\ pc'[leader] = "prepare" => k.p.N < proposal'[leader].N
               /\ k.wanted /\ pc'[leader] \in {"prepare", "accept"} =>
                    /\ k.p = proposal'[leader]
                    /\ k.type = IF pc'[leader] = "prepare" THEN "Prepare" ELSE "Accept"
    <3>1. lastProposalNumber'[leader] = last
      BY <1>2 DEF last
    <3>2. CASE k \in NobodyWaits(leader)
      BY <1>1, <1>3, <1>9, <3>1, <3>2
    <3>3. CASE k \in Broadcast("Accept", leader, p)
      BY <1>1, <1>3, <1>4, <1>7, <1>10, <3>1, <3>3
    <3> QED
      BY <1>2, <2>1, <3>2, <3>3
  <2>2. ASSUME NEW k \in network', NEW l \in network',
               k.type = "Accept", l.type = "Accept", k.to = l.to, k.p.N = l.p.N
        PROVE  k = l
    <3>1. CASE k \in NobodyWaits(leader) /\ l \in NobodyWaits(leader)
      BY <2>2, <3>1, NobodyWaitsUnique
    <3>2. CASE k \in Broadcast("Accept", leader, p) /\ l \in Broadcast("Accept", leader, p)
      <4>1. /\ k.type = l.type /\ k.from = l.from /\ k.p = l.p
            /\ k.wanted = TRUE /\ l.wanted = TRUE
        BY <3>2 DEF Broadcast
      <4>2. k \in Request /\ l \in Request
        BY DEF TypeOK
      <4> QED
        BY <2>2, <4>1, <4>2, SameRequest
    <3>3. ASSUME NEW i \in NobodyWaits(leader), NEW j \in Broadcast("Accept", leader, p),
                 i.type = "Accept"
          PROVE  i.p.N # j.p.N
      <4>1. i.p.N < last
        BY <1>9, <3>3
      <4>2. i.p.N \in Nat
        BY <1>2 DEF TypeOK, Request, Numbered
      <4> QED
        BY <1>4, <1>7, <1>10, <4>1, <4>2
    <3> QED
      BY <1>2, <2>2, <3>1, <3>2, <3>3
  <2> QED
    BY <2>1, <2>2 DEF NetworkInv
<1>13. LearnInv'
  <2>1. CASE AcceptedByQuorum
    BY <1>8, <2>1 DEF LearnInv, AcceptedByQuorum
  <2>2. CASE ~AcceptedByQuorum
    <3>1. Accepted = {}
      BY <1>4, <2>2
    <3> QED
      BY <1>2, <1>8, <2>2, <3>1 DEF ConsensusInv, LearnInv, Copies
  <2> QED
    BY <2>1, <2>2
<1>14. AcceptInv'
  <2>1. CountedInv({})'
    BY <1>3, FS_EmptySet DEF CountedInv
  <2> QED
    BY <1>3, <2>1 DEF AcceptInv
<1>15. PhaseInv'
  <2>1. lastProposalNumber'[leader] = last
    BY <1>2 DEF last
  <2>2. PrepareInv'
    BY <1>3 DEF PrepareInv
  <2>3. last > n => AcceptedByQuorum'
    BY <1>4, <1>8 DEF AcceptedByQuorum
  <2> QED
    BY <1>2, <1>3, <1>4, <1>7, <1>14, <2>1, <2>2, <2>3 DEF PhaseInv
<1> QED
  BY <1>11, <1>12, <1>13, <1>15 DEF ConsensusInv

(* A quorum has accepted.                                                  *)
LEMMA AcceptQuorumStep ==
  ASSUME ConsensusInv, TypeOK', NEW s \in Member, NEW r \in resultChan[s], AcceptQuorum(s, r)
  PROVE  ConsensusInv'
<1>1. s = leader /\ leader \in Proposer /\ leader \in Member /\ pc[leader] = "accept"
  BY OnlyTheLeader, OneLeader DEF AcceptQuorum
<1>2. /\ ~r.Err /\ successTotal[leader] + 1 = quorum
      /\ network' = NobodyWaits(leader)
      /\ UNCHANGED <<acceptedProposal, learnCounter, callbackLearnChan, lastProposalNumber,
                     proposed, learns>>
  BY <1>1 DEF AcceptQuorum, EndPhase, workerVars, learnVars, callVars, quorum
<1>3. pc'[leader] = "wait" /\ \A t \in Member \ {leader} : pc'[t] = pc[t]
  BY <1>1 DEF ConsensusInv, TypeOK, AcceptQuorum
<1>4. UNCHANGED Accepted
  BY <1>2 DEF Accepted
<1>5. AcceptedByQuorum'
  <2>1. PICK C \in SUBSET Accepted : CountedInv(C)
    BY <1>1 DEF ConsensusInv, PhaseInv, AcceptInv
  <2>2. r.from \in Accepted
    BY <1>1, <1>2 DEF ConsensusInv, PhaseInv, AcceptInv
  <2>3. C \in SUBSET Member
    BY DEF Accepted
  <2>4. Cardinality(C \cup {r.from}) = quorum /\ C \cup {r.from} \in SUBSET Accepted
    BY <1>1, <1>2, <2>1, <2>2, <2>3, CountOne
  <2>5. IsFiniteSet(Accepted)
    BY Numbers, FS_Subset, Accepted \in SUBSET Member DEF Accepted
  <2>6. Cardinality(C \cup {r.from}) <= Cardinality(Accepted)
    BY <2>4, <2>5, FS_Subset
  <2>7. Cardinality(Accepted) >= quorum
    BY <2>4, <2>5, <2>6, Numbers, FS_CardinalityType
  <2> QED
    BY <1>4, <2>7 DEF AcceptedByQuorum
<1>6. LearnInv'
  BY <1>5 DEF LearnInv
<1>7. \A k \in network' : \E m \in network :
        ~k.wanted /\ k.from = m.from /\ k.p = m.p /\ k.type = m.type
  BY <1>2, NobodyWaitsSame
<1>8. ValueInv' /\ OthersInv'
  BY <1>1, <1>2, <1>3, <1>7 DEF ConsensusInv, ValueInv, OthersInv, Sound
<1>9. NetworkInv'
  <2>1. ASSUME NEW k \in network', NEW l \in network',
               k.type = "Accept", l.type = "Accept", k.to = l.to, k.p.N = l.p.N
        PROVE  k = l
    BY <1>2, <2>1, NobodyWaitsUnique
  <2>2. ASSUME NEW k \in network'
        PROVE  /\ k.from = leader /\ leader \in Proposer /\ ~k.wanted
               /\ n <= k.p.N /\ k.p.N <= lastProposalNumber'[leader]
    BY <1>1, <1>2, <1>7 DEF ConsensusInv, NetworkInv
  <2> QED
    BY <1>3, <2>1, <2>2 DEF NetworkInv
<1>10. PhaseInv'
  BY <1>1, <1>2, <1>3, <1>5 DEF ConsensusInv, PhaseInv, PrepareInv, AcceptInv
<1> QED
  BY <1>6, <1>8, <1>9, <1>10 DEF ConsensusInv

-----------------------------------------------------------------------------
(***************************************************************************)
(* The theorems                                                            *)
(***************************************************************************)
(* At first nothing was proposed.                                          *)
LEMMA ConsensusInit == Init => ConsensusInv
<1> SUFFICES ASSUME Init PROVE ConsensusInv
  OBVIOUS
<1>1. /\ NoProposal \in Numbered /\ 0 \in Nat
      /\ 0 \in 0..QuorumSize(AssociatedView) /\ 0 \in 0..NumberOfMembers(AssociatedView)
  BY Numbers DEF NoProposal, Numbered, n, quorum
<1>2. IsABag(EmptyBag) /\ DOMAIN EmptyBag = {}
  BY DEF IsABag, EmptyBag, SetToBag
<1>3. /\ DOMAIN learns = Learner
      /\ \A s \in Learner : learns[s] = EmptyBag
  BY DEF Init
<1>4. TypeOK
  BY <1>1, <1>2, <1>3 DEF Init, TypeOK, BagToSet
<1>5. Accepted = {}
  BY DEF Init, Accepted
<1>6. ValueInv /\ NetworkInv /\ OthersInv
  BY <1>2, <1>3 DEF Init, ValueInv, NetworkInv, OthersInv, Sound, BagToSet
<1>7. PhaseInv
  BY <1>5, OneLeader, Numbers DEF Init, PhaseInv, PrepareInv, AcceptInv
<1>8. LearnInv
  <2>1. Cardinality(Accepted) = 0
    BY <1>5, FS_EmptySet
  <2>2. Copies(EmptyBag) = 0
    BY <1>2 DEF Copies
  <2> QED
    BY <1>2, <1>3, <2>1, <2>2 DEF Init, LearnInv, BagToSet
<1> QED
  BY <1>4, <1>6, <1>7, <1>8 DEF ConsensusInv

(* Every step keeps the inductive invariant.                               *)
LEMMA ConsensusStep == ConsensusInv /\ [Next]_vars => ConsensusInv'
<1> SUFFICES ASSUME ConsensusInv, [Next]_vars PROVE ConsensusInv'
  OBVIOUS
<1>1. TypeOK'
  BY TypeStep
<1>2. CASE UNCHANGED vars
  <2>1. UNCHANGED Accepted
    BY <1>2 DEF vars, workerVars, Accepted
  <2>2. PrepareInv' /\ AcceptInv' <=> PrepareInv /\ AcceptInv
    BY <1>2, <2>1 DEF vars, phaseVars, callVars, PrepareInv, AcceptInv, CountedInv, LaterCallInv, Sound
  <2>3. PhaseInv'
    BY <1>2, <2>1, <2>2
       DEF vars, phaseVars, callVars, ConsensusInv, PhaseInv, AcceptedByQuorum
  <2>4. ValueInv' /\ NetworkInv' /\ OthersInv'
    BY <1>2 DEF vars, workerVars, learnVars, phaseVars, callVars, ConsensusInv, ValueInv, NetworkInv,
                OthersInv, Sound
  <2>5. LearnInv'
    BY <1>2, <2>1 DEF vars, workerVars, learnVars, ConsensusInv, LearnInv, AcceptedByQuorum, Copies
  <2> QED
    BY <1>1, <2>3, <2>4, <2>5 DEF ConsensusInv
<1>3. CASE Next
  BY <1>1, <1>3, PrepareStep, AcceptStep, RpcErrorStep, LearnStep, ProposeStep, ReceiveResultStep,
     PrepareQuorumStep, AcceptQuorumStep, ReceiveErrorStep DEF Next
<1> QED
  BY <1>2, <1>3

(* The inductive invariant holds.                                          *)
LEMMA ConsensusInvariance == Spec => []ConsensusInv
BY ConsensusInit, ConsensusStep, PTL DEF Spec

(* Every variable keeps its type; in particular the counts of answers stay *)
(* within what Propose can get.                                            *)
THEOREM TypeCorrect == Spec => []TypeOK
<1>1. ConsensusInv => TypeOK
  BY DEF ConsensusInv
<1> QED
  BY <1>1, ConsensusInvariance, PTL

(* Learners count requests without looking at them; still, what one of     *)
(* them passes on has been accepted by a quorum.                           *)
LEMMA LearnedIsAccepted == ConsensusInv => DecidedIsAccepted
<1> SUFFICES ASSUME ConsensusInv, NEW s \in Learner, NEW v \in Decided(s)
             PROVE  Cardinality({a \in Member : acceptedProposal[a].Value = v})
                      >= QuorumSize(AssociatedView)
  BY DEF DecidedIsAccepted
<1> DEFINE B == {a \in Member : acceptedProposal[a].Value = v}
<1>1. v = firstValue /\ callbackLearnChan[s] # NoValue
  BY DEF Decided, ConsensusInv, ValueInv
<1>2. AcceptedByQuorum
  BY <1>1 DEF ConsensusInv, LearnInv
<1>3. Accepted \in SUBSET B /\ B \in SUBSET Member
  BY <1>1 DEF Accepted, ConsensusInv, ValueInv, Sound
<1>4. IsFiniteSet(B)
  BY <1>3, Numbers, FS_Subset
<1>5. Cardinality(Accepted) <= Cardinality(B) /\ IsFiniteSet(Accepted)
  BY <1>3, <1>4, FS_Subset
<1> HIDE DEF B
<1>6. Cardinality(B) \in Nat /\ Cardinality(Accepted) \in Nat
  BY <1>4, <1>5, FS_CardinalityType
<1>7. Cardinality(B) >= quorum
  BY <1>2, <1>5, <1>6, Numbers DEF AcceptedByQuorum
<1> QED
  BY <1>7 DEF B, quorum

(* A result that one learner has is safe with a quorum of acceptors.       *)
THEOREM ResultsAreAccepted == Spec => []DecidedIsAccepted
BY ConsensusInvariance, LearnedIsAccepted, PTL

(* The consensus implements OneDecision: nobody learns a second value, and *)
(* what is learned was proposed.                                           *)
THEOREM ConsensusDecidesOnce == Spec => DecidesOnce
<1> DEFINE results == UNION {Decided(s) : s \in Learner}
<1>1. Init => D!Init
  BY DEF Init, D!Init, Decided
<1>2. ASSUME ConsensusInv, ConsensusInv', [Next]_vars
      PROVE  [D!Next]_<<proposed, results>>
  <2>1. /\ \A s \in Learner : callbackLearnChan[s] \in {firstValue, NoValue}
        /\ \A s \in Learner : callbackLearnChan'[s] \in {firstValue, NoValue}
    BY <1>2 DEF ConsensusInv, ValueInv
  <2>2. results \in {{}, {firstValue}} /\ results' \in {{}, {firstValue}}
    BY <2>1 DEF Decided
  <2>3. CASE UNCHANGED callbackLearnChan
    <3>1. UNCHANGED results
      BY <2>3 DEF Decided
    <3>2. proposed \subseteq proposed'
      BY <1>2 DEF Next, vars, callVars, Prepare, Accept, RpcError, Learn, Propose, ReceiveResult,
                  PrepareQuorum, AcceptQuorum, ReceiveError
    <3> QED
      BY <3>1, <3>2 DEF D!Next, D!Propose
  <2>4. ASSUME NEW s \in Learner, NEW p \in BagToSet(learns[s]), Learn(s, p)
        PROVE  [D!Next]_<<proposed, results>>
    <3>1. UNCHANGED proposed
      BY <2>4 DEF Learn, callVars
    <3>2. results \subseteq results'
      <4>1. \A t \in Learner : callbackLearnChan[t] = firstValue => callbackLearnChan'[t] = firstValue
        <5>1. p.Value = firstValue
          BY <1>2 DEF ConsensusInv, ValueInv
        <5> QED
          BY <1>2, <2>4, <5>1 DEF Learn, ConsensusInv, TypeOK
      <4> QED
        BY <2>1, <4>1 DEF Decided
    <3>3. CASE results = {firstValue} \/ results' = {}
      BY <2>2, <3>1, <3>2, <3>3
    <3>4. CASE results = {} /\ results' = {firstValue}
      <4>1. PICK t \in Learner : callbackLearnChan'[t] # NoValue
        BY <3>4 DEF Decided
      <4>2. AcceptedByQuorum'
        BY <1>2, <4>1 DEF ConsensusInv, LearnInv
      <4>3. firstValue \in proposed'
        <5>1. leader \in Proposer
          BY SomeLeader, ConsensusAssumption
        <5>2. Accepted' # {}
          BY <4>2, Numbers, FS_EmptySet DEF AcceptedByQuorum
        <5>3. lastProposalNumber'[leader] = 0 => lastProposalNumber'[leader] <= n
          BY Numbers
        <5> QED
          BY <1>2, <5>1, <5>2, <5>3 DEF ConsensusInv, PhaseInv
      <4> QED
        BY <3>1, <3>4, <4>3 DEF D!Next, D!Learn
    <3> QED
      BY <2>2, <3>3, <3>4
  <2> QED
    BY <1>2, <2>3, <2>4 DEF Next, vars, workerVars, learnVars, Prepare, Accept, RpcError, Propose,
                ReceiveResult, PrepareQuorum, AcceptQuorum, ReceiveError
<1> QED
  BY <1>1, <1>2, ConsensusInvariance, PTL DEF Spec, DecidesOnce, D!Spec
=============================================================================
