----------------------------- MODULE Consensus -----------------------------
(***************************************************************************)
(* One instance of the simplified Paxos of pkg/consensus, and the way      *)
(* generateViewSequenceWithConsensus of pkg/server uses it.  Every member  *)
(* of the associated view runs a consensusWorker, which is acceptor and    *)
(* learner; the member with the least address also runs Propose, all wait  *)
(* for the result.                                                         *)
(*                                                                         *)
(* An RPC is sent once, and its request arrives in any order with respect  *)
(* to the others, or not at all.  An RPC to an unreliable member may fail  *)
(* although its request still arrives later.  The storage is in memory     *)
(* and is read back only for the number of the last proposal.              *)
(***************************************************************************)
EXTENDS Views, Bags

CONSTANTS AssociatedView,  \* the view whose successor is agreed upon
          Address,         \* the order of the addresses of the processes
          Learner,         \* the members whose results are looked at: a learner
                           \*   has no influence on anything else
          Unreliable,      \* the members to which an RPC may fail
          NoValue,         \* nil
          MaxProposals     \* bound on the proposals of one member

Member == Members(AssociatedView)

GetProcessPosition(v, p) ==
  IF HasMember(v, p)
  THEN Cardinality({q \in Members(v) : Address[q] < Address[p]}) ELSE -1

CONSENSUS_LEADER_PROCESS_POSITION == 0

\* generateViewSequenceWithConsensus lets one member propose.
Proposer ==
  {s \in Member : GetProcessPosition(AssociatedView, s) = CONSENSUS_LEADER_PROCESS_POSITION}

ASSUME ConsensusAssumption ==
  /\ AssociatedView \in View
  /\ Address \in [Process -> Nat]
  /\ \A p, q \in Process : Address[p] = Address[q] => p = q
  /\ Learner \subseteq Member
  /\ Unreliable \subseteq Member
  /\ NoValue \notin [proposer : Process, N : Nat]
  /\ MaxProposals \in Nat

VARIABLES
  acceptedProposal, lastPromiseProposalNumber, learnCounter,
                       \* the variables of consensusWorker
  callbackLearnChan,   \* the result, which generateViewSequenceWithConsensus
                       \*   takes as soon as it is there
  lastProposalNumber,  \* storage, 0 when there is none
  pc,                  \* where generateViewSequenceWithConsensus is
  proposal,            \* what Propose proposes
  highest,             \* highestNumberedAcceptedProposal
  successTotal, failedTotal,
  resultChan,          \* the answers that wait for Propose
  network,             \* the Prepare and Accept requests under way
  learns,              \* the Learn requests under way to every learner
  proposed             \* history: the values that Propose was called with

learnVars == <<learnCounter, callbackLearnChan>>
workerVars == <<acceptedProposal, lastPromiseProposalNumber, learnVars>>
phaseVars == <<pc, proposal, highest, successTotal, failedTotal>>
callVars == <<lastProposalNumber, proposed>>
vars == <<workerVars, phaseVars, callVars, resultChan, network, learns>>

\* Every call of Propose has a value of its own.
ValueOf(s, n) == [proposer |-> s, N |-> n]

Value == [proposer : Proposer, N : Nat]

Numbered == [N : Nat, Value : Value \cup {NoValue}]

\* Mutant: nothing accepted yet is numbered below zero.
NoProposal_MinusOne == [N |-> -1, Value |-> NoValue]

NoProposal == [N |-> 0, Value |-> NoValue]

\* wanted: somebody still waits for the answer.
Request == [type : {"Prepare", "Accept"}, from : Member, to : Member,
            p : Numbered, wanted : BOOLEAN]

Result == [from : Member, p : Numbered, Err : BOOLEAN]

\* Every variable has its type.
TypeOK ==
  /\ acceptedProposal \in [Member -> Numbered]
  /\ lastPromiseProposalNumber \in [Member -> Nat]
  /\ learnCounter \in [Learner -> Nat]
  /\ callbackLearnChan \in [Learner -> Value \cup {NoValue}]
  /\ lastProposalNumber \in [Member -> Nat]
  /\ pc \in [Member -> {"idle", "prepare", "accept", "wait", "exited"}]
  /\ proposal \in [Member -> Numbered]
  /\ highest \in [Member -> Numbered]
  /\ successTotal \in [Member -> 0..QuorumSize(AssociatedView)]
  /\ failedTotal \in [Member -> 0..NumberOfMembers(AssociatedView)]
  /\ resultChan \in [Member -> SUBSET Result]
  /\ network \subseteq Request
  /\ DOMAIN learns = Learner
  /\ \A s \in Learner : IsABag(learns[s]) /\ BagToSet(learns[s]) \subseteq Numbered
  /\ proposed \subseteq Value

-----------------------------------------------------------------------------
(***************************************************************************)
(* The network                                                             *)
(***************************************************************************)
Broadcast(kind, s, p) ==
  [type : {kind}, from : {s}, to : Member, p : {p}, wanted : {TRUE}]

\* The server that receives m handles it and answers with result; a server
\* whose Propose failed has exited.
Handle(m, result) ==
  /\ m \in network
  /\ pc[m.to] # "exited"
  /\ network' = network \ {m}
  /\ resultChan' = IF m.wanted
                   THEN [resultChan EXCEPT ![m.from] = @ \cup {result}]
                   ELSE resultChan

\* The answers to the phase of s that is over are never read.
NobodyWaits(s) == {[m EXCEPT !.wanted = @ /\ m.from # s] : m \in network}

-----------------------------------------------------------------------------
(***************************************************************************)
(* consensusWorker                                                         *)
(***************************************************************************)
Prepare(m) ==
  LET a == m.to
      promises == m.p.N > lastPromiseProposalNumber[a]
  IN
  /\ m.type = "Prepare"
  /\ Handle(m, [from |-> a, Err |-> ~promises,
                p |-> IF promises THEN acceptedProposal[a] ELSE NoProposal])
  /\ lastPromiseProposalNumber' =
       [lastPromiseProposalNumber EXCEPT ![a] = IF promises THEN m.p.N ELSE @]
  /\ UNCHANGED <<acceptedProposal, learnVars, learns, phaseVars, callVars>>

\* An accepted proposal does not raise the promise.
Accept(m) ==
  LET a == m.to
      accepts == m.p.N >= lastPromiseProposalNumber[a]
  IN
  /\ m.type = "Accept"
  /\ Handle(m, [from |-> a, Err |-> ~accepts, p |-> NoProposal])
  /\ learns' = IF accepts
               THEN [s \in Learner |-> learns[s] (+) SetToBag({m.p})] ELSE learns
  /\ acceptedProposal' =
       [acceptedProposal EXCEPT ![a] = IF accepts THEN m.p ELSE @]
  /\ UNCHANGED <<lastPromiseProposalNumber, learnVars, phaseVars, callVars>>

\* Mutant: one learn request too few, one too many.
LearnsNeeded_OneLess == QuorumSize(AssociatedView) - 1
LearnsNeeded_All == NumberOfMembers(AssociatedView)

LearnsNeeded == QuorumSize(AssociatedView)

\* Every learn request counts, whoever sent it and whatever its number.
Learn(s, p) ==
  /\ BagIn(p, learns[s])
  /\ pc[s] # "exited"
  /\ learns' = [learns EXCEPT ![s] = @ (-) SetToBag({p})]
  /\ learnCounter' = [learnCounter EXCEPT ![s] = @ + 1]
  /\ callbackLearnChan' =
       [callbackLearnChan EXCEPT ![s] =
          IF learnCounter'[s] = LearnsNeeded THEN p.Value ELSE @]
  /\ UNCHANGED <<acceptedProposal, lastPromiseProposalNumber, phaseVars, callVars,
                 resultChan, network>>

-----------------------------------------------------------------------------
(***************************************************************************)
(* Propose                                                                 *)
(***************************************************************************)
\* 0 when there is none.
getLastProposalNumber(s) == lastProposalNumber[s]

saveProposalNumberOnStorage(s, n) ==
  lastProposalNumber' = [lastProposalNumber EXCEPT ![s] = n]

getNextProposalNumber(s) ==
  LET n == NumberOfMembers(AssociatedView)
      last == getLastProposalNumber(s)
      position == GetProcessPosition(AssociatedView, s)
  IN IF last = 0 THEN n + position ELSE (last - (last % n) + n) + position

\* The local variables of prepare and accept when the next phase, with p,
\* begins, or when there is none.
EndPhase(s, p) ==
  /\ proposal' = [proposal EXCEPT ![s] = p]
  /\ successTotal' = [successTotal EXCEPT ![s] = 0]
  /\ failedTotal' = [failedTotal EXCEPT ![s] = 0]
  /\ resultChan' = [resultChan EXCEPT ![s] = {}]

StartPhase(s, kind, p) ==
  /\ EndPhase(s, p)
  /\ network' = NobodyWaits(s) \cup Broadcast(kind, s, p)

\* A member that proposes does so one call after the other.
Propose(s) ==
  /\ s \in Proposer
  /\ pc[s] \in {"idle", "wait"}
  /\ lastProposalNumber[s] < MaxProposals * NumberOfMembers(AssociatedView)
  /\ saveProposalNumberOnStorage(s, getNextProposalNumber(s))
  /\ StartPhase(s, "Prepare", [N |-> getNextProposalNumber(s), Value |-> NoValue])
  /\ pc' = [pc EXCEPT ![s] = "prepare"]
  /\ highest' = [highest EXCEPT ![s] = NoProposal]
  /\ proposed' = proposed \cup {ValueOf(s, lastProposalNumber'[s])}
  /\ UNCHANGED <<workerVars, learns>>

ReceiveResult(s, r) ==
  /\ r \in resultChan[s] /\ ~r.Err
  /\ successTotal[s] + 1 < QuorumSize(AssociatedView)
  /\ pc[s] \in {"prepare", "accept"}
  /\ successTotal' = [successTotal EXCEPT ![s] = @ + 1]
  /\ highest' = [highest EXCEPT ![s] = IF @.N < r.p.N THEN r.p ELSE @]
  /\ resultChan' = [resultChan EXCEPT ![s] = @ \ {r}]
  /\ UNCHANGED <<workerVars, callVars, pc, proposal, failedTotal,
                 network, learns>>

\* Mutant: what the acceptors have accepted is ignored.
ValueToPropose_Default(s, h) == ValueOf(s, proposal[s].N)

\* The value that goes into the accept phase.
ValueToPropose(s, h) ==
  IF h.Value = NoValue THEN ValueOf(s, proposal[s].N) ELSE h.Value

PrepareQuorum(s, r) ==
  LET h == IF highest[s].N < r.p.N THEN r.p ELSE highest[s] IN
  /\ r \in resultChan[s] /\ ~r.Err
  /\ successTotal[s] + 1 = QuorumSize(AssociatedView)
  /\ pc[s] = "prepare"
  /\ pc' = [pc EXCEPT ![s] = "accept"]
  /\ highest' = [highest EXCEPT ![s] = NoProposal]
  /\ StartPhase(s, "Accept", [proposal[s] EXCEPT !.Value = ValueToPropose(s, h)])
  /\ UNCHANGED <<workerVars, callVars, learns>>

AcceptQuorum(s, r) ==
  /\ r \in resultChan[s] /\ ~r.Err
  /\ successTotal[s] + 1 = QuorumSize(AssociatedView)
  /\ pc[s] = "accept"
  /\ pc' = [pc EXCEPT ![s] = "wait"]
  /\ EndPhase(s, NoProposal)
  /\ network' = NobodyWaits(s)
  /\ UNCHANGED <<workerVars, callVars, highest, learns>>

\* Too many errors end the process (log.Fatalf).
ReceiveError(s, r) ==
  /\ r \in resultChan[s] /\ r.Err
  /\ pc[s] \in {"prepare", "accept"}
  /\ failedTotal' = [failedTotal EXCEPT ![s] = @ + 1]
  /\ pc' = [pc EXCEPT ![s] =
       IF failedTotal'[s] > NumberOfToleratedFaults(AssociatedView)
       THEN "exited" ELSE @]
  /\ resultChan' = [resultChan EXCEPT ![s] = @ \ {r}]
  /\ UNCHANGED <<workerVars, callVars, proposal, highest,
                 successTotal, network, learns>>

\* comm.SendRPCRequest returns an error.
RpcError(m) ==
  /\ m \in network /\ m.wanted
  /\ m.to \in Unreliable \/ pc[m.to] = "exited"
  /\ network' = (network \ {m}) \cup {[m EXCEPT !.wanted = FALSE]}
  /\ resultChan' = [resultChan EXCEPT ![m.from] =
       @ \cup {[from |-> m.to, p |-> NoProposal, Err |-> TRUE]}]
  /\ UNCHANGED <<workerVars, phaseVars, callVars, learns>>

-----------------------------------------------------------------------------
Init ==
  /\ acceptedProposal = [s \in Member |-> NoProposal]
  /\ lastPromiseProposalNumber = [s \in Member |-> 0]
  /\ learnCounter = [s \in Learner |-> 0]
  /\ callbackLearnChan = [s \in Learner |-> NoValue]
  /\ lastProposalNumber = [s \in Member |-> 0]
  /\ pc = [s \in Member |-> IF s \in Proposer THEN "idle" ELSE "wait"]
  /\ proposal = [s \in Member |-> NoProposal]
  /\ highest = [s \in Member |-> NoProposal]
  /\ successTotal = [s \in Member |-> 0]
  /\ failedTotal = [s \in Member |-> 0]
  /\ resultChan = [s \in Member |-> {}]
  /\ network = {}
  /\ learns = [s \in Learner |-> EmptyBag]
  /\ proposed = {}

Next ==
  \/ \E m \in network : Prepare(m) \/ Accept(m) \/ RpcError(m)
  \/ \E s \in Member :
       \/ Propose(s)
       \/ \E r \in resultChan[s] :
            \/ ReceiveResult(s, r) \/ PrepareQuorum(s, r)
            \/ AcceptQuorum(s, r) \/ ReceiveError(s, r)
  \/ \E s \in Learner : \E p \in BagToSet(learns[s]) : Learn(s, p)

Spec == Init /\ [][Next]_vars

(* A running member handles what it receives, an RPC to a member that has  *)
(* exited fails, Propose and the goroutine that waits for the result run,  *)
(* and the leader's timer fires.  Nothing is assumed of unreliable ones.   *)
Fairness ==
  \A s \in Member :
    /\ s \notin Unreliable =>
         /\ WF_vars(\E m \in network : m.to = s /\ (Prepare(m) \/ Accept(m)))
         /\ s \in Learner =>
              WF_vars(\E p \in BagToSet(learns[s]) : Learn(s, p))
    /\ WF_vars(\E m \in network :
                 m.to = s /\ pc[s] = "exited" /\ RpcError(m))
    /\ WF_vars(pc[s] = "idle" /\ Propose(s))
    /\ WF_vars(\E r \in resultChan[s] :
         \/ ReceiveResult(s, r) \/ PrepareQuorum(s, r)
         \/ AcceptQuorum(s, r) \/ ReceiveError(s, r))

FairSpec == Spec /\ Fairness
-----------------------------------------------------------------------------
Decided(s) == {callbackLearnChan[s]} \ {NoValue}

D == INSTANCE OneDecision WITH results <- UNION {Decided(s) : s \in Learner}

(* With the leader as the only one that proposes, also when it does so     *)
(* again with another value, what the members learn is a single value,     *)
(* one that was proposed.                                                  *)
DecidesOnce == D!Spec

(* A learner counts learn requests, whoever sent them and whatever they    *)
(* say; still, when it has a result, a majority of the acceptors has       *)
(* accepted that value, so that later proposals find it.                   *)
DecidedIsAccepted ==
  \A s \in Learner : \A v \in Decided(s) :
    Cardinality({a \in Member : acceptedProposal[a].Value = v})
      >= QuorumSize(AssociatedView)

(* Every reliable member gets a result once the leader has proposed,       *)
(* although RPCs to a minority fail.                                       *)
EverybodyLearns ==
  \A s \in Learner \ Unreliable : <>(callbackLearnChan[s] # NoValue)
=============================================================================
