------------------------------- MODULE Views -------------------------------
(***************************************************************************)
(* The view algebra of pkg/view.  A View is determined by its Entries, the *)
(* set of Updates it was built from; Members is a cache and ViewRef a      *)
(* digest, both functions of Entries (module ViewGenerator checks that of  *)
(* the cache).  A view is therefore modelled by its set of updates, and    *)
(* comparing two ViewRefs by comparing the two sets: sha1 is taken to be   *)
(* free of collisions on the canonical encoding that ref.go hashes.        *)
(***************************************************************************)
EXTENDS Integers, FiniteSets

CONSTANT Process            \* the addresses of all processes

ASSUME ProcessAssumption == IsFiniteSet(Process)

Join  == "+"
Leave == "-"

Update == [Type : {Join, Leave}, Process : Process]

JoinOf(p)  == [Type |-> Join,  Process |-> p]
LeaveOf(p) == [Type |-> Leave, Process |-> p]

View == SUBSET Update

(***************************************************************************)
(* Construction and membership                                             *)
(***************************************************************************)
NewWithUpdates(us) == us

NewWithProcesses(ps) == NewWithUpdates({JoinOf(p) : p \in ps})

NewCopyWithUpdates(v, us) == NewWithUpdates(v \cup us)

\* A process that left can never come back: its Leave stays in Entries.
Members(v) == {p \in Process : JoinOf(p) \in v /\ LeaveOf(p) \notin v}

HasMember(v, p) == p \in Members(v)

GetMembersNotIn(v, v2) == Members(v) \ Members(v2)

NumberOfMembers(v) == Cardinality(Members(v))

NumberOfUpdates(v) == Cardinality(v)

(***************************************************************************)
(* The order on views.  The code compares the numbers of entries first and *)
(* only then looks for a missing entry.                                    *)
(***************************************************************************)
\* Mutant: only the numbers of entries are compared.
LessUpdatedThan_CountsOnly(v, v2) == NumberOfUpdates(v2) > NumberOfUpdates(v)

LessUpdatedThan(v, v2) ==
  \/ NumberOfUpdates(v2) > NumberOfUpdates(v)
  \/ \E u \in v2 : u \notin v

MoreUpdatedThan(v, v2) ==
  /\ ~(NumberOfUpdates(v2) > NumberOfUpdates(v))
  /\ \A u \in v2 : u \in v
  /\ NumberOfUpdates(v2) # NumberOfUpdates(v)

Equal(v, v2) ==
  /\ NumberOfUpdates(v) = NumberOfUpdates(v2)
  /\ \A u \in v2 : u \in v

\* The test of the view generator for two views it cannot both propose.
Conflict(v, v2) == LessUpdatedThan(v, v2) /\ LessUpdatedThan(v2, v)

(***************************************************************************)
(* Quorums                                                                 *)
(***************************************************************************)
\* Mutant: half of the members, rounded up.
QuorumSize_Half(v) == (NumberOfMembers(v) + 1) \div 2

QuorumSize(v) ==
  LET n == NumberOfMembers(v) IN ((n + 1) \div 2) + ((n + 1) % 2)

NumberOfToleratedFaults(v) == NumberOfMembers(v) - QuorumSize(v)
=============================================================================
