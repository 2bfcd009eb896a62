----------------------------- MODULE ViewProofs -----------------------------
(***************************************************************************)
(* Facts about the views of pkg/view that the other proofs rest on: the    *)
(* comparisons, which count entries first, are the order by inclusion, and *)
(* quorums are majorities.                                                 *)
(***************************************************************************)
EXTENDS ViewSeqs, FiniteSetTheorems, WellFoundedInduction, TLAPS

(***************************************************************************)
(* The order                                                               *)
(***************************************************************************)
(* There are finitely many updates, so views are finite sets.              *)
LEMMA ViewIsFinite ==
  ASSUME NEW v \in View
  PROVE  IsFiniteSet(v) /\ NumberOfUpdates(v) \in Nat
<1> DEFINE P == {Join, Leave} \X Process
           u == [p \in P |-> [Type |-> p[1], Process |-> p[2]]]
<1>1. IsFiniteSet({Join, Leave})
  <2>1. IsFiniteSet({Join})
    BY FS_Singleton
  <2>2. IsFiniteSet({Join} \cup {Leave})
    BY <2>1, FS_AddElement
  <2> QED
    BY <2>2, {Join} \cup {Leave} = {Join, Leave}
<1>2. IsFiniteSet(P)
  BY <1>1, ProcessAssumption, FS_Product
<1>3. u \in Surjection(P, Update)
  <2>1. u \in [P -> Update]
    BY DEF Update
  <2>2. \A x \in Update : \E p \in P : u[p] = x
    <3> TAKE x \in Update
    <3>1. <<x.Type, x.Process>> \in P
      BY DEF Update
    <3>2. u[<<x.Type, x.Process>>] = x
      BY <3>1 DEF Update
    <3> QED
      BY <3>1, <3>2
  <2> QED
    BY <2>1, <2>2 DEF Surjection
<1>4. IsFiniteSet(Update)
  BY <1>2, <1>3, FS_Surjection
<1>5. v \in SUBSET Update
  BY DEF View
<1> QED
  BY <1>4, <1>5, FS_Subset, FS_CardinalityType DEF NumberOfUpdates

(* A view with as many entries as a part of it is that part.               *)
LEMMA SameSizeIsEqual ==
  ASSUME NEW v \in View, NEW w \in View, w \subseteq v
  PROVE  /\ NumberOfUpdates(w) <= NumberOfUpdates(v)
         /\ NumberOfUpdates(w) = NumberOfUpdates(v) <=> v = w
BY ViewIsFinite, FS_Subset, w \in SUBSET v DEF NumberOfUpdates

(* MoreUpdatedThan is strict inclusion.                                    *)
LEMMA MoreUpdatedIsSuperset ==
  ASSUME NEW v \in View, NEW w \in View
  PROVE  MoreUpdatedThan(v, w) <=> (w \subseteq v /\ v # w)
<1>1. NumberOfUpdates(v) \in Nat /\ NumberOfUpdates(w) \in Nat
  BY ViewIsFinite
<1>2. w \subseteq v => /\ NumberOfUpdates(w) <= NumberOfUpdates(v)
                       /\ NumberOfUpdates(w) = NumberOfUpdates(v) <=> v = w
  BY SameSizeIsEqual
<1>3. ASSUME MoreUpdatedThan(v, w) PROVE w \subseteq v /\ v # w
  BY <1>3 DEF MoreUpdatedThan
<1>4. ASSUME w \subseteq v, v # w PROVE MoreUpdatedThan(v, w)
  <2>1. NumberOfUpdates(w) <= NumberOfUpdates(v) /\ NumberOfUpdates(w) # NumberOfUpdates(v)
    BY <1>2, <1>4
  <2> QED
    BY <1>1, <1>4, <2>1 DEF MoreUpdatedThan
<1> QED
  BY <1>3, <1>4

(* Equal is equality.                                                      *)
LEMMA EqualIsEqual ==
  ASSUME NEW v \in View, NEW w \in View
  PROVE  Equal(v, w) <=> v = w
<1>1. w \subseteq v => (NumberOfUpdates(w) = NumberOfUpdates(v) <=> v = w)
  BY SameSizeIsEqual
<1> QED
  BY <1>1 DEF Equal

(* LessUpdatedThan only says that the other view has something to offer.   *)
LEMMA LessUpdatedIsNotSuperset ==
  ASSUME NEW v \in View, NEW w \in View
  PROVE  LessUpdatedThan(v, w) <=> ~(w \subseteq v)
<1>1. NumberOfUpdates(v) \in Nat /\ NumberOfUpdates(w) \in Nat
  BY ViewIsFinite
<1>2. w \subseteq v => NumberOfUpdates(w) <= NumberOfUpdates(v)
  BY SameSizeIsEqual
<1> QED
  BY <1>1, <1>2 DEF LessUpdatedThan

-----------------------------------------------------------------------------
(***************************************************************************)
(* Quorums                                                                 *)
(***************************************************************************)
(* A quorum is a majority of the members.                                  *)
LEMMA QuorumIsMajority ==
  ASSUME NEW v \in View
  PROVE  /\ IsFiniteSet(Members(v))
         /\ NumberOfMembers(v) \in Nat
         /\ QuorumSize(v) \in Nat
         /\ 2 * QuorumSize(v) > NumberOfMembers(v)
         /\ Members(v) # {} => NumberOfMembers(v) >= QuorumSize(v)
<1>1. Members(v) \in SUBSET Process
  BY DEF Members
<1>2. IsFiniteSet(Members(v))
  BY <1>1, ProcessAssumption, FS_Subset
<1>3. /\ NumberOfMembers(v) \in Nat
      /\ Members(v) # {} => NumberOfMembers(v) # 0
  BY <1>2, FS_CardinalityType, FS_EmptySet DEF NumberOfMembers
<1>4. \A n \in Nat : LET q == ((n + 1) \div 2) + ((n + 1) % 2) IN
                     q \in Nat /\ 2 * q > n /\ (n # 0 => n >= q)
  OBVIOUS
<1> HIDE DEF NumberOfMembers
<1> QED
  BY <1>2, <1>3, <1>4 DEF QuorumSize

(* Two quorums of a view have a member in common.                          *)
LEMMA QuorumIntersection ==
  ASSUME NEW v \in View,
         NEW Q1 \in SUBSET Members(v), Cardinality(Q1) >= QuorumSize(v),
         NEW Q2 \in SUBSET Members(v), Cardinality(Q2) >= QuorumSize(v)
  PROVE  \E s \in Q1 : s \in Q2
<1>1. SUFFICES ASSUME Q1 \cap Q2 = {} PROVE FALSE
  OBVIOUS
<1>2. /\ IsFiniteSet(Q1) /\ IsFiniteSet(Q2)
      /\ Cardinality(Q1 \cup Q2) <= Cardinality(Members(v))
  BY QuorumIsMajority, FS_Subset, Q1 \cup Q2 \in SUBSET Members(v)
<1>5. Cardinality(Q1) \in Nat /\ Cardinality(Q2) \in Nat
  BY <1>2, FS_CardinalityType
<1>3. Cardinality(Q1 \cup Q2)
        = Cardinality(Q1) + Cardinality(Q2) - Cardinality(Q1 \cap Q2)
  BY <1>2, FS_Union
<1>4. Cardinality(Q1 \cap Q2) = 0
  BY <1>1, FS_EmptySet
<1> QED
  BY <1>2, <1>3, <1>4, <1>5, QuorumIsMajority DEF NumberOfMembers

(* When every process has sent one message, there are as many messages as  *)
(* senders.                                                                *)
LEMMA OneMessageEach ==
  ASSUME NEW M, {m.from : m \in M} \subseteq Process,
         \A m, n \in M : m.from = n.from => m = n
  PROVE  Cardinality({m.from : m \in M}) = Cardinality(M)
<1> DEFINE S == {m.from : m \in M}
           f == [m \in M |-> m.from]
<1>1. f \in Injection(M, S) /\ f \in Surjection(M, S)
  BY DEF Injection, IsInjective, Surjection
<1>2. IsFiniteSet(S)
  BY ProcessAssumption, FS_Subset, S \in SUBSET Process
<1> QED
  BY <1>1, <1>2, FS_Injection

-----------------------------------------------------------------------------
(***************************************************************************)
(* Loops over sequences.  FoldLeft is defined by recursion over sets of    *)
(* indices; what it computes is given by the values g[0], g[1], ... that   *)
(* the loop variable has before the loop and after each round.             *)
(***************************************************************************)
(* Induction over a range, for a set of numbers.                           *)
LEMMA RangeInduction ==
  ASSUME NEW n \in Nat, NEW T, 0 \in T, \A i \in 1..n : i - 1 \in T => i \in T
  PROVE  \A i \in 0..n : i \in T
<1> DEFINE C == {i \in 0..n : i \notin T}
<1>1. SUFFICES ASSUME C # {} PROVE FALSE
  OBVIOUS
<1>2. C \subseteq Nat
  OBVIOUS
<1>3. PICK x \in C : \A y \in C : ~(<<y, x>> \in OpToRel(<, Nat))
  BY <1>1, <1>2, NatLessThanWellFounded, WFMin
<1>4. \A y \in C : ~(y < x)
  BY <1>2, <1>3 DEF OpToRel
<1>5. x \in 1..n /\ x - 1 \in 0..n
  OBVIOUS
<1> QED
  BY <1>4, <1>5

(* One more number in a range.                                             *)
LEMMA RangeStep ==
  ASSUME NEW n \in Nat, NEW i \in 1..n
  PROVE  /\ i \in Nat /\ i \in 0..n /\ i - 1 \in 0..n /\ n \in 0..n
         /\ \A j \in 1..i : j = i \/ j \in 1..(i - 1)
         /\ \A j \in 1..(i - 1) : j \in 1..i
         /\ i \in 1..i
OBVIOUS

(* The greatest number of a range.                                         *)
LEMMA MaxIs ==
  ASSUME NEW m \in Nat, NEW S \in SUBSET (1..m), m \in S
  PROVE  SeqOps!Max(S) = m
<1>1. \A y \in S : y \in Nat /\ m >= y
  OBVIOUS
<1>2. ASSUME NEW x \in S, \A y \in S : x >= y PROVE x = m
  BY <1>1, <1>2
<1> QED
  BY <1>1, <1>2 DEF SeqOps!Max

(* ... and of a set of indices is one of them.                             *)
LEMMA MaxIn ==
  ASSUME NEW n \in Nat, NEW S \in SUBSET (1..n), S # {}
  PROVE  SeqOps!Max(S) \in S
<1> DEFINE D == {n - x : x \in S}
<1>1. D \subseteq Nat /\ D # {}
  <2>1. \A x \in S : n - x \in Nat
    OBVIOUS
  <2>2. PICK x : x \in S
    OBVIOUS
  <2>3. n - x \in D
    BY <2>2
  <2> QED
    BY <2>1, <2>3
<1>2. PICK d \in D : \A y \in D : ~(<<y, d>> \in OpToRel(<, Nat))
  BY <1>1, NatLessThanWellFounded, WFMin
<1>3. \A y \in D : ~(y < d)
  BY <1>1, <1>2 DEF OpToRel
<1>4. PICK m \in S : d = n - m
  OBVIOUS
<1>5. \A x \in S : m >= x
  BY <1>3, <1>4
<1> QED
  BY <1>5 DEF SeqOps!Max

(* The recursion of FoldLeft with base b, step[i][x] being what round i    *)
(* makes of x.                                                             *)
Recursion(f, n, b, step) ==
  \A S \in SUBSET (1..n) :
    f[S] = IF S = {} THEN b ELSE step[SeqOps!Max(S)][f[S \ {SeqOps!Max(S)}]]

(* The same, as far as the values of f are in V.                           *)
RecursionIn(V, f, n, b, step) ==
  /\ f[{}] = b
  /\ \A S \in SUBSET (1..n) :
       S # {} /\ f[S \ {SeqOps!Max(S)}] \in V
         => f[S] = step[SeqOps!Max(S)][f[S \ {SeqOps!Max(S)}]]

(* The values of the loop variable.                                        *)
Runs(g, n, b, step) == g[0] = b /\ \A i \in 1..n : g[i] = step[i][g[i - 1]]

(* The recursion has a solution.                                           *)
LEMMA LoopExists ==
  ASSUME NEW V, NEW n \in Nat, NEW b \in V, NEW step \in [1..n -> [V -> V]]
  PROVE  \E f \in [SUBSET (1..n) -> V] : Recursion(f, n, b, step)
<1> DEFINE Solves(f, m) ==
             /\ f \in [SUBSET (1..m) -> V]
             /\ \A S \in SUBSET (1..m) :
                  f[S] = IF S = {} THEN b ELSE step[SeqOps!Max(S)][f[S \ {SeqOps!Max(S)}]]
           T == {m \in 0..n : \E f : Solves(f, m)}
<1>1. 0 \in T
  <2> DEFINE f == [S \in SUBSET (1..0) |-> b]
  <2>1. \A S \in SUBSET (1..0) : S = {}
    OBVIOUS
  <2>2. Solves(f, 0)
    BY <2>1
  <2> HIDE DEF Solves, f
  <2> QED
    BY <2>2
<1>2. ASSUME NEW m \in 1..n, m - 1 \in T PROVE m \in T
  <2>1. PICK g : Solves(g, m - 1)
    BY <1>2
  <2> DEFINE f == [S \in SUBSET (1..m) |-> IF m \in S THEN step[m][g[S \ {m}]] ELSE g[S]]
  <2>2. \A S \in SUBSET (1..m) : /\ S \ {m} \in SUBSET (1..(m - 1))
                                 /\ m \notin S => S \in SUBSET (1..(m - 1))
    BY <1>2
  <2>3. f \in [SUBSET (1..m) -> V]
    BY <1>2, <2>1, <2>2
  <2>4. \A S \in SUBSET (1..m) : m \notin S => f[S] = g[S]
    OBVIOUS
  <2>5. \A S \in SUBSET (1..m) : m \in S => f[S] = step[m][g[S \ {m}]]
    OBVIOUS
  <2> HIDE DEF f
  <2>6. ASSUME NEW S \in SUBSET (1..m)
        PROVE  f[S] = IF S = {} THEN b ELSE step[SeqOps!Max(S)][f[S \ {SeqOps!Max(S)}]]
    <3>1. CASE m \in S
      <4>1. SeqOps!Max(S) = m
        BY <1>2, <3>1, MaxIs
      <4>2. f[S \ {m}] = g[S \ {m}]
        BY <2>4, S \ {m} \in SUBSET (1..m), m \notin S \ {m}
      <4> QED
        BY <2>5, <3>1, <4>1, <4>2
    <3>2. CASE m \notin S
      <4> DEFINE x == SeqOps!Max(S)
      <4>1. f[S] = g[S] /\ f[S \ {x}] = g[S \ {x}]
        BY <2>4, <3>2, S \ {x} \in SUBSET (1..m), m \notin S \ {x}
      <4>2. g[S] = IF S = {} THEN b ELSE step[x][g[S \ {x}]]
        BY <2>1, <2>2, <3>2
      <4> QED
        BY <4>1, <4>2
    <3> QED
      BY <3>1, <3>2
  <2>7. Solves(f, m)
    BY <2>3, <2>6
  <2> HIDE DEF Solves
  <2> QED
    BY <1>2, <2>7
<1>3. \A m \in 1..n : m - 1 \in T => m \in T
  <2> HIDE DEF T
  <2> QED
    BY <1>2
<1>4. \A m \in 0..n : m \in T
  <2> HIDE DEF T
  <2> QED
    BY <1>1, <1>3, RangeInduction
<1>5. \E f : Solves(f, n)
  <2> HIDE DEF Solves
  <2> QED
    BY <1>4
<1> QED
  BY <1>5 DEF Recursion

(* A solution runs through the sequence from left to right.                *)
LEMMA LoopRuns ==
  ASSUME NEW V, NEW n \in Nat, NEW b \in V, NEW step \in [1..n -> [V -> V]],
         NEW f, RecursionIn(V, f, n, b, step)
  PROVE  \E g \in [0..n -> V] : Runs(g, n, b, step) /\ g[n] = f[1..n]
<1> DEFINE T == {i \in 0..n : f[1..i] \in V}
           g == [i \in 0..n |-> f[1..i]]
<1>1. 1..0 = {}
  OBVIOUS
<1>2. ASSUME NEW i \in 1..n, f[1..(i - 1)] \in V
      PROVE  f[1..i] = step[i][f[1..(i - 1)]] /\ f[1..i] \in V
  <2>1. 1..i \in SUBSET (1..n) /\ i \in 1..i
    BY <1>2
  <2>4. (1..i) \ {i} = 1..(i - 1)
    BY <1>2
  <2>2. SeqOps!Max(1..i) = i
    BY <1>2, MaxIs
  <2>3. f[1..i] = step[i][f[1..(i - 1)]]
    BY <1>2, <2>1, <2>2, <2>4 DEF RecursionIn
  <2> QED
    BY <1>2, <2>3
<1>3. 0 \in T
  BY <1>1 DEF RecursionIn
<1>4. \A i \in 1..n : i - 1 \in T => i \in T
  BY <1>2
<1> HIDE DEF T
<1>5. \A i \in 0..n : i \in T
  BY <1>3, <1>4, RangeInduction
<1>6. \A i \in 0..n : f[1..i] \in V
  BY <1>5 DEF T
<1>7. g \in [0..n -> V] /\ g[0] = b /\ g[n] = f[1..n]
  BY <1>1, <1>6 DEF RecursionIn
<1>8. \A i \in 1..n : g[i] = step[i][g[i - 1]]
  BY <1>2, <1>6
<1> QED
  BY <1>7, <1>8 DEF Runs

-----------------------------------------------------------------------------
(***************************************************************************)
(* The operations on sequences of views (pkg/server/viewseq.go)            *)
(***************************************************************************)
(* The search for the least updated view, round by round.                  *)
LEMMA LeastLoop ==
  ASSUME NEW seq \in Seq(View), seq # <<>>
  PROVE  \E g \in [0..Len(seq) -> {seq[i] : i \in 1..Len(seq)}] :
           /\ g[0] = seq[1]
           /\ \A i \in 1..Len(seq) :
                g[i] = IF LessUpdatedThan(seq[i], g[i - 1]) THEN seq[i] ELSE g[i - 1]
           /\ GetLeastUpdatedView(seq) = g[Len(seq)]
<1> DEFINE n == Len(seq)
           V == {seq[i] : i \in 1..Len(seq)}
           Round(i, x) == IF LessUpdatedThan(seq[i], x) THEN seq[i] ELSE x
           step == [i \in 1..n |-> [x \in V |-> Round(i, x)]]
           Solves(f) ==
             f = [S \in SUBSET (1..n) |->
                    IF S = {} THEN seq[1] ELSE Round(SeqOps!Max(S), f[S \ {SeqOps!Max(S)}])]
           F == CHOOSE f : Solves(f)
<1>1. n \in Nat /\ DOMAIN seq = 1..n /\ seq[1] \in V
  OBVIOUS
<1>2. GetLeastUpdatedView(seq) = F[1..n]
  BY <1>1 DEF GetLeastUpdatedView, SeqOps!FoldLeft, SeqOps!MapThenFoldSet
<1>3. \A i \in 1..n : \A x \in V : Round(i, x) \in V
  BY <1>1
<1>4. \A S \in SUBSET (1..n) : S # {} => SeqOps!Max(S) \in 1..n
  BY <1>1, MaxIn
<1> HIDE DEF n, V, Round
<1>5. step \in [1..n -> [V -> V]] /\ \A i \in 1..n : \A x \in V : step[i][x] = Round(i, x)
  BY <1>3
<1> HIDE DEF step
<1>6. \E f : Solves(f)
  <2>1. PICK f \in [SUBSET (1..n) -> V] : Recursion(f, n, seq[1], step)
    BY <1>1, <1>5, LoopExists
  <2>2. \A S \in SUBSET (1..n) :
          f[S] = IF S = {} THEN seq[1] ELSE step[SeqOps!Max(S)][f[S \ {SeqOps!Max(S)}]]
    BY <2>1 DEF Recursion
  <2>3. \A S \in SUBSET (1..n) : S # {} => f[S] = Round(SeqOps!Max(S), f[S \ {SeqOps!Max(S)}])
    BY <1>4, <1>5, <2>2, \A S \in SUBSET (1..n) : S \ {SeqOps!Max(S)} \in SUBSET (1..n)
  <2>4. Solves(f)
    BY <2>2, <2>3
  <2> QED
    BY <2>4
<1>7. Solves(F)
  BY <1>6
<1> HIDE DEF F
<1>8. /\ F[{}] = seq[1]
      /\ \A S \in SUBSET (1..n) : S # {} => F[S] = Round(SeqOps!Max(S), F[S \ {SeqOps!Max(S)}])
  BY <1>7
<1>9. RecursionIn(V, F, n, seq[1], step)
  BY <1>4, <1>5, <1>8 DEF RecursionIn
<1>10. PICK g \in [0..n -> V] : Runs(g, n, seq[1], step) /\ g[n] = F[1..n]
  BY <1>1, <1>5, <1>9, LoopRuns
<1>11. g[0] = seq[1] /\ \A i \in 1..n : g[i] = Round(i, g[i - 1])
  BY <1>1, <1>5, <1>10 DEF Runs
<1> QED
  BY <1>2, <1>10, <1>11 DEF n, V, Round

(* ... and for the most updated one.                                       *)
LEMMA MostLoop ==
  ASSUME NEW seq \in Seq(View), seq # <<>>
  PROVE  \E g \in [0..Len(seq) -> {seq[i] : i \in 1..Len(seq)}] :
           /\ g[0] = seq[1]
           /\ \A i \in 1..Len(seq) :
                g[i] = IF MoreUpdatedThan(seq[i], g[i - 1]) THEN seq[i] ELSE g[i - 1]
           /\ GetMostUpdatedView(seq) = g[Len(seq)]
<1> DEFINE n == Len(seq)
           V == {seq[i] : i \in 1..Len(seq)}
           Round(i, x) == IF MoreUpdatedThan(seq[i], x) THEN seq[i] ELSE x
           step == [i \in 1..n |-> [x \in V |-> Round(i, x)]]
           Solves(f) ==
             f = [S \in SUBSET (1..n) |->
                    IF S = {} THEN seq[1] ELSE Round(SeqOps!Max(S), f[S \ {SeqOps!Max(S)}])]
           F == CHOOSE f : Solves(f)
<1>1. n \in Nat /\ DOMAIN seq = 1..n /\ seq[1] \in V
  OBVIOUS
<1>2. GetMostUpdatedView(seq) = F[1..n]
  BY <1>1 DEF GetMostUpdatedView, SeqOps!FoldLeft, SeqOps!MapThenFoldSet
<1>3. \A i \in 1..n : \A x \in V : Round(i, x) \in V
  BY <1>1
<1>4. \A S \in SUBSET (1..n) : S # {} => SeqOps!Max(S) \in 1..n
  BY <1>1, MaxIn
<1> HIDE DEF n, V, Round
<1>5. step \in [1..n -> [V -> V]] /\ \A i \in 1..n : \A x \in V : step[i][x] = Round(i, x)
  BY <1>3
<1> HIDE DEF step
<1>6. \E f : Solves(f)
  <2>1. PICK f \in [SUBSET (1..n) -> V] : Recursion(f, n, seq[1], step)
    BY <1>1, <1>5, LoopExists
  <2>2. \A S \in SUBSET (1..n) :
          f[S] = IF S = {} THEN seq[1] ELSE step[SeqOps!Max(S)][f[S \ {SeqOps!Max(S)}]]
    BY <2>1 DEF Recursion
  <2>3. \A S \in SUBSET (1..n) : S # {} => f[S] = Round(SeqOps!Max(S), f[S \ {SeqOps!Max(S)}])
    BY <1>4, <1>5, <2>2, \A S \in SUBSET (1..n) : S \ {SeqOps!Max(S)} \in SUBSET (1..n)
  <2>4. Solves(f)
    BY <2>2, <2>3
  <2> QED
    BY <2>4
<1>7. Solves(F)
  BY <1>6
<1> HIDE DEF F
<1>8. /\ F[{}] = seq[1]
      /\ \A S \in SUBSET (1..n) : S # {} => F[S] = Round(SeqOps!Max(S), F[S \ {SeqOps!Max(S)}])
  BY <1>7
<1>9. RecursionIn(V, F, n, seq[1], step)
  BY <1>4, <1>5, <1>8 DEF RecursionIn
<1>10. PICK g \in [0..n -> V] : Runs(g, n, seq[1], step) /\ g[n] = F[1..n]
  BY <1>1, <1>5, <1>9, LoopRuns
<1>11. g[0] = seq[1] /\ \A i \in 1..n : g[i] = Round(i, g[i - 1])
  BY <1>1, <1>5, <1>10 DEF Runs
<1> QED
  BY <1>2, <1>10, <1>11 DEF n, V, Round

(* Append, round by round.                                                 *)
LEMMA AppendLoop ==
  ASSUME NEW seq \in Seq(View), NEW views \in Seq(View)
  PROVE  \E g \in [0..Len(views) -> Seq(View)] :
           /\ g[0] = seq
           /\ \A i \in 1..Len(views) :
                g[i] = IF HasView(seq, views[i]) THEN g[i - 1] ELSE Append(g[i - 1], views[i])
           /\ AppendViews(seq, views) = g[Len(views)]
<1> DEFINE n == Len(views)
           V == Seq(View)
           Round(i, x) == IF HasView(seq, views[i]) THEN x ELSE Append(x, views[i])
           step == [i \in 1..n |-> [x \in V |-> Round(i, x)]]
           Solves(f) ==
             f = [S \in SUBSET (1..n) |->
                    IF S = {} THEN seq ELSE Round(SeqOps!Max(S), f[S \ {SeqOps!Max(S)}])]
           F == CHOOSE f : Solves(f)
<1>1. n \in Nat /\ DOMAIN views = 1..n /\ seq \in V
  OBVIOUS
<1>2. AppendViews(seq, views) = F[1..n]
  BY <1>1 DEF AppendViews, SeqOps!FoldLeft, SeqOps!MapThenFoldSet
<1>3. \A i \in 1..n : \A x \in V : Round(i, x) \in V
  BY <1>1
<1>4. \A S \in SUBSET (1..n) : S # {} => SeqOps!Max(S) \in 1..n
  BY <1>1, MaxIn
<1> HIDE DEF n, V, Round
<1>5. step \in [1..n -> [V -> V]] /\ \A i \in 1..n : \A x \in V : step[i][x] = Round(i, x)
  BY <1>3
<1> HIDE DEF step
<1>6. \E f : Solves(f)
  <2>1. PICK f \in [SUBSET (1..n) -> V] : Recursion(f, n, seq, step)
    BY <1>1, <1>5, LoopExists
  <2>2. \A S \in SUBSET (1..n) :
          f[S] = IF S = {} THEN seq ELSE step[SeqOps!Max(S)][f[S \ {SeqOps!Max(S)}]]
    BY <2>1 DEF Recursion
  <2>3. \A S \in SUBSET (1..n) : S # {} => f[S] = Round(SeqOps!Max(S), f[S \ {SeqOps!Max(S)}])
    BY <1>4, <1>5, <2>2, \A S \in SUBSET (1..n) : S \ {SeqOps!Max(S)} \in SUBSET (1..n)
  <2>4. Solves(f)
    BY <2>2, <2>3
  <2> QED
    BY <2>4
<1>7. Solves(F)
  BY <1>6
<1> HIDE DEF F
<1>8. /\ F[{}] = seq
      /\ \A S \in SUBSET (1..n) : S # {} => F[S] = Round(SeqOps!Max(S), F[S \ {SeqOps!Max(S)}])
  BY <1>7
<1>9. RecursionIn(V, F, n, seq, step)
  BY <1>4, <1>5, <1>8 DEF RecursionIn
<1>10. PICK g \in [0..n -> V] : Runs(g, n, seq, step) /\ g[n] = F[1..n]
  BY <1>1, <1>5, <1>9, LoopRuns
<1>11. g[0] = seq /\ \A i \in 1..n : g[i] = Round(i, g[i - 1])
  BY <1>1, <1>5, <1>10 DEF Runs
<1> QED
  BY <1>2, <1>10, <1>11 DEF n, V, Round

(* The loop of installOthersViewsFromViewSeqLocked.                        *)
LEMMA KeepLoop ==
  ASSUME NEW seq \in Seq(View), NEW v
  PROVE  \E g \in [0..Len(seq) -> Seq(View)] :
           /\ g[0] = <<>>
           /\ \A i \in 1..Len(seq) :
                g[i] = IF MoreUpdatedThan(seq[i], v) THEN Append(g[i - 1], seq[i]) ELSE g[i - 1]
           /\ ViewsMoreUpdatedThan(seq, v) = g[Len(seq)]
<1> DEFINE n == Len(seq)
           V == Seq(View)
           Round(i, x) == IF MoreUpdatedThan(seq[i], v) THEN Append(x, seq[i]) ELSE x
           step == [i \in 1..n |-> [x \in V |-> Round(i, x)]]
           Solves(f) ==
             f = [S \in SUBSET (1..n) |->
                    IF S = {} THEN <<>> ELSE Round(SeqOps!Max(S), f[S \ {SeqOps!Max(S)}])]
           F == CHOOSE f : Solves(f)
<1>1. n \in Nat /\ DOMAIN seq = 1..n /\ <<>> \in V
  OBVIOUS
<1>2. ViewsMoreUpdatedThan(seq, v) = F[1..n]
  BY <1>1 DEF ViewsMoreUpdatedThan, SeqOps!FoldLeft, SeqOps!MapThenFoldSet
<1>3. \A i \in 1..n : \A x \in V : Round(i, x) \in V
  BY <1>1
<1>4. \A S \in SUBSET (1..n) : S # {} => SeqOps!Max(S) \in 1..n
  BY <1>1, MaxIn
<1> HIDE DEF n, V, Round
<1>5. step \in [1..n -> [V -> V]] /\ \A i \in 1..n : \A x \in V : step[i][x] = Round(i, x)
  BY <1>3
<1> HIDE DEF step
<1>6. \E f : Solves(f)
  <2>1. PICK f \in [SUBSET (1..n) -> V] : Recursion(f, n, <<>>, step)
    BY <1>1, <1>5, LoopExists
  <2>2. \A S \in SUBSET (1..n) :
          f[S] = IF S = {} THEN <<>> ELSE step[SeqOps!Max(S)][f[S \ {SeqOps!Max(S)}]]
    BY <2>1 DEF Recursion
  <2>3. \A S \in SUBSET (1..n) : S # {} => f[S] = Round(SeqOps!Max(S), f[S \ {SeqOps!Max(S)}])
    BY <1>4, <1>5, <2>2, \A S \in SUBSET (1..n) : S \ {SeqOps!Max(S)} \in SUBSET (1..n)
  <2>4. Solves(f)
    BY <2>2, <2>3
  <2> QED
    BY <2>4
<1>7. Solves(F)
  BY <1>6
<1> HIDE DEF F
<1>8. /\ F[{}] = <<>>
      /\ \A S \in SUBSET (1..n) : S # {} => F[S] = Round(SeqOps!Max(S), F[S \ {SeqOps!Max(S)}])
  BY <1>7
<1>9. RecursionIn(V, F, n, <<>>, step)
  BY <1>4, <1>5, <1>8 DEF RecursionIn
<1>10. PICK g \in [0..n -> V] : Runs(g, n, <<>>, step) /\ g[n] = F[1..n]
  BY <1>1, <1>5, <1>9, LoopRuns
<1>11. g[0] = <<>> /\ \A i \in 1..n : g[i] = Round(i, g[i - 1])
  BY <1>1, <1>5, <1>10 DEF Runs
<1> QED
  BY <1>2, <1>10, <1>11 DEF n, V, Round

(* Views of which one contains the other, without duplicates.              *)
IsChain(seq) ==
  \A i, j \in DOMAIN seq : /\ seq[i] \subseteq seq[j] \/ seq[j] \subseteq seq[i]
                           /\ seq[i] = seq[j] => i = j

(* The least updated view is a view of the sequence, in a chain the one    *)
(* that all others contain.                                                *)
LEMMA LeastIsLeast ==
  ASSUME NEW seq \in Seq(View), seq # <<>>
  PROVE  /\ \E i \in DOMAIN seq : GetLeastUpdatedView(seq) = seq[i]
         /\ IsChain(seq) => \A j \in DOMAIN seq : GetLeastUpdatedView(seq) \subseteq seq[j]
<1> DEFINE n == Len(seq)
<1>1. PICK g \in [0..n -> {seq[i] : i \in 1..n}] :
        /\ g[0] = seq[1]
        /\ \A i \in 1..n :
             g[i] = IF LessUpdatedThan(seq[i], g[i - 1]) THEN seq[i] ELSE g[i - 1]
        /\ GetLeastUpdatedView(seq) = g[n]
  BY LeastLoop
<1>2. n \in Nat /\ DOMAIN seq = 1..n /\ n \in 0..n /\ \A i \in 1..n : seq[i] \in View
  OBVIOUS
<1> HIDE DEF n
<1>3. \A i \in 0..n : g[i] \in View /\ \E j \in 1..n : g[i] = seq[j]
  BY <1>1, <1>2
<1>4. ASSUME IsChain(seq) PROVE \A j \in 1..n : g[n] \subseteq seq[j]
  <2> DEFINE Good(i) == \A j \in 1..i : g[i] \subseteq seq[j]
             T == {i \in 0..n : Good(i)}
  <2>1. 0 \in T
    BY <1>2
  <2>2. ASSUME NEW i \in 1..n, i - 1 \in T PROVE i \in T
    <3>1. \A j \in 1..(i - 1) : g[i - 1] \subseteq seq[j]
      BY <2>2
    <3>2. i - 1 \in 0..n /\ i \in 0..n /\ \A j \in 1..i : j = i \/ j \in 1..(i - 1)
      BY <1>2, RangeStep
    <3>3. g[i - 1] \subseteq seq[i] \/ seq[i] \subseteq g[i - 1]
      BY <1>2, <1>3, <1>4, <3>2 DEF IsChain
    <3>4. LessUpdatedThan(seq[i], g[i - 1]) <=> ~(g[i - 1] \subseteq seq[i])
      BY <1>2, <1>3, <3>2, LessUpdatedIsNotSuperset
    <3>5. g[i] \subseteq seq[i] /\ g[i] \subseteq g[i - 1]
      BY <1>1, <3>3, <3>4
    <3>6. ASSUME NEW j \in 1..i PROVE g[i] \subseteq seq[j]
      <4>1. CASE j = i
        BY <3>5, <4>1
      <4>2. CASE j \in 1..(i - 1)
        BY <3>1, <3>5, <4>2
      <4> QED
        BY <3>2, <4>1, <4>2
    <3>7. Good(i)
      BY <3>6
    <3> QED
      BY <3>2, <3>7
  <2> HIDE DEF T
  <2>3. \A i \in 1..n : i - 1 \in T => i \in T
    BY <2>2
  <2>4. \A i \in 0..n : i \in T
    BY <1>2, <2>1, <2>3, RangeInduction
  <2>5. n \in T
    BY <1>2, <2>4
  <2> QED
    BY <2>5 DEF T
<1>5. \E i \in 1..n : g[n] = seq[i]
  BY <1>2, <1>3
<1>6. GetLeastUpdatedView(seq) = g[n] /\ DOMAIN seq = 1..n
  BY <1>1, <1>2
<1> QED
  BY <1>4, <1>5, <1>6

(* The most updated view likewise.                                         *)
LEMMA MostIsMost ==
  ASSUME NEW seq \in Seq(View), seq # <<>>
  PROVE  /\ \E i \in DOMAIN seq : GetMostUpdatedView(seq) = seq[i]
         /\ IsChain(seq) => \A j \in DOMAIN seq : seq[j] \subseteq GetMostUpdatedView(seq)
<1> DEFINE n == Len(seq)
<1>1. PICK g \in [0..n -> {seq[i] : i \in 1..n}] :
        /\ g[0] = seq[1]
        /\ \A i \in 1..n :
             g[i] = IF MoreUpdatedThan(seq[i], g[i - 1]) THEN seq[i] ELSE g[i - 1]
        /\ GetMostUpdatedView(seq) = g[n]
  BY MostLoop
<1>2. n \in Nat /\ DOMAIN seq = 1..n /\ n \in 0..n /\ \A i \in 1..n : seq[i] \in View
  OBVIOUS
<1> HIDE DEF n
<1>3. \A i \in 0..n : g[i] \in View /\ \E j \in 1..n : g[i] = seq[j]
  BY <1>1, <1>2
<1>4. ASSUME IsChain(seq) PROVE \A j \in 1..n : seq[j] \subseteq g[n]
  <2> DEFINE Good(i) == \A j \in 1..i : seq[j] \subseteq g[i]
             T == {i \in 0..n : Good(i)}
  <2>1. 0 \in T
    BY <1>2
  <2>2. ASSUME NEW i \in 1..n, i - 1 \in T PROVE i \in T
    <3>1. \A j \in 1..(i - 1) : seq[j] \subseteq g[i - 1]
      BY <2>2
    <3>2. i - 1 \in 0..n /\ i \in 0..n /\ \A j \in 1..i : j = i \/ j \in 1..(i - 1)
      BY <1>2, RangeStep
    <3>3. g[i - 1] \subseteq seq[i] \/ seq[i] \subseteq g[i - 1]
      BY <1>2, <1>3, <1>4, <3>2 DEF IsChain
    <3>4. MoreUpdatedThan(seq[i], g[i - 1]) <=> (g[i - 1] \subseteq seq[i] /\ seq[i] # g[i - 1])
      BY <1>2, <1>3, <3>2, MoreUpdatedIsSuperset
    <3>5. seq[i] \subseteq g[i] /\ g[i - 1] \subseteq g[i]
      BY <1>1, <3>3, <3>4
    <3>6. ASSUME NEW j \in 1..i PROVE seq[j] \subseteq g[i]
      <4>1. CASE j = i
        BY <3>5, <4>1
      <4>2. CASE j \in 1..(i - 1)
        BY <3>1, <3>5, <4>2
      <4> QED
        BY <3>2, <4>1, <4>2
    <3>7. Good(i)
      BY <3>6
    <3> QED
      BY <3>2, <3>7
  <2> HIDE DEF T
  <2>3. \A i \in 1..n : i - 1 \in T => i \in T
    BY <2>2
  <2>4. \A i \in 0..n : i \in T
    BY <1>2, <2>1, <2>3, RangeInduction
  <2>5. n \in T
    BY <1>2, <2>4
  <2> QED
    BY <2>5 DEF T
<1>5. \E i \in 1..n : g[n] = seq[i]
  BY <1>2, <1>3
<1>6. GetMostUpdatedView(seq) = g[n] /\ DOMAIN seq = 1..n
  BY <1>1, <1>2
<1> QED
  BY <1>4, <1>5, <1>6

(* The most updated view of no views is the empty one.                     *)
LEMMA MostIsView ==
  ASSUME NEW seq \in Seq(View) PROVE GetMostUpdatedView(seq) \in View
<1>1. CASE seq = <<>>
  BY <1>1 DEF GetMostUpdatedView, NewWithUpdates, View
<1>2. CASE seq # <<>>
  BY <1>2, MostIsMost
<1> QED
  BY <1>1, <1>2

(* Membership in a sequence of views.                                      *)
LEMMA HasViewIsIn ==
  ASSUME NEW seq \in Seq(View), NEW v \in View
  PROVE  HasView(seq, v) <=> \E i \in DOMAIN seq : seq[i] = v
BY EqualIsEqual DEF HasView

(* Append keeps the sequence, adds views that it lacks, and leaves out     *)
(* none.                                                                   *)
LEMMA AppendAdds ==
  ASSUME NEW seq \in Seq(View), NEW views \in Seq(View)
  PROVE  LET r == AppendViews(seq, views) IN
         /\ r \in Seq(View)
         /\ Len(r) >= Len(seq) /\ \A k \in 1..Len(seq) : r[k] = seq[k]
         /\ \A k \in 1..Len(r) : k > Len(seq) =>
              \E j \in 1..Len(views) : r[k] = views[j] /\ ~HasView(seq, views[j])
         /\ \A j \in 1..Len(views) : HasView(seq, views[j]) \/ \E k \in 1..Len(r) : r[k] = views[j]
         /\ (\A i, j \in DOMAIN views : views[i] = views[j] => i = j)
              => \A k, l \in 1..Len(r) : k > Len(seq) /\ l > Len(seq) /\ r[k] = r[l] => k = l
<1> DEFINE n == Len(views)
           m == Len(seq)
           Unique == \A i, j \in 1..n : views[i] = views[j] => i = j
           Good(i, r) ==
             /\ Len(r) >= m /\ \A k \in 1..m : r[k] = seq[k]
             /\ \A k \in 1..Len(r) : k > m =>
                  \E j \in 1..i : r[k] = views[j] /\ ~HasView(seq, views[j])
             /\ \A j \in 1..i : HasView(seq, views[j]) \/ \E k \in 1..Len(r) : r[k] = views[j]
             /\ Unique => \A k, l \in 1..Len(r) : k > m /\ l > m /\ r[k] = r[l] => k = l
<1>1. PICK g \in [0..n -> Seq(View)] :
        /\ g[0] = seq
        /\ \A i \in 1..n :
             g[i] = IF HasView(seq, views[i]) THEN g[i - 1] ELSE Append(g[i - 1], views[i])
        /\ AppendViews(seq, views) = g[n]
  BY AppendLoop
<1>2. /\ n \in Nat /\ m \in Nat /\ n \in 0..n
      /\ DOMAIN views = 1..n /\ \A i \in 1..n : views[i] \in View
  OBVIOUS
<1> HIDE DEF n
<1> DEFINE T == {i \in 0..n : Good(i, g[i])}
<1>3. 0 \in T
  BY <1>1, <1>2
<1>4. ASSUME NEW i \in 1..n, i - 1 \in T PROVE i \in T
  <2> DEFINE r == g[i - 1]
  <2>1. /\ i \in 0..n /\ i \in 1..i /\ 1..(i - 1) \subseteq 1..i
        /\ \A j \in 1..i : j = i \/ j \in 1..(i - 1)
    BY <1>2, RangeStep
  <2>2. Good(i - 1, r) /\ r \in Seq(View) /\ Len(r) \in Nat
    BY <1>1, <1>2, <1>4
  <2>3. CASE HasView(seq, views[i])
    <3>1. g[i] = r
      BY <1>1, <2>3
    <3> HIDE DEF r
    <3>2. \A k \in 1..Len(r) : k > m => \E j \in 1..i : r[k] = views[j] /\ ~HasView(seq, views[j])
      BY <2>1, <2>2
    <3>3. \A j \in 1..i : HasView(seq, views[j]) \/ \E k \in 1..Len(r) : r[k] = views[j]
      BY <2>1, <2>2, <2>3
    <3>4. Good(i, r)
      BY <2>2, <3>2, <3>3
    <3> HIDE DEF Good
    <3> QED
      BY <2>1, <3>1, <3>4
  <2>4. CASE ~HasView(seq, views[i])
    <3> DEFINE q == Append(r, views[i])
    <3>1. g[i] = q
      BY <1>1, <2>4
    <3> HIDE DEF r
    <3>2. /\ Len(q) = Len(r) + 1 /\ q[Len(r) + 1] = views[i]
          /\ \A k \in 1..Len(r) : q[k] = r[k]
      BY <1>2, <2>2
    <3> HIDE DEF q
    <3>3. Len(q) >= m /\ \A k \in 1..m : q[k] = seq[k]
      BY <1>2, <2>2, <3>2
    <3>4. \A k \in 1..Len(q) : k > m => \E j \in 1..i : q[k] = views[j] /\ ~HasView(seq, views[j])
      <4> SUFFICES ASSUME NEW k \in 1..Len(q), k > m
                   PROVE  \E j \in 1..i : q[k] = views[j] /\ ~HasView(seq, views[j])
        OBVIOUS
      <4>1. CASE k = Len(r) + 1
        BY <1>2, <2>4, <3>2, <4>1
      <4>2. CASE k # Len(r) + 1
        <5>1. k \in 1..Len(r) /\ q[k] = r[k]
          BY <2>2, <3>2, <4>2
        <5>2. PICK j \in 1..(i - 1) : r[k] = views[j] /\ ~HasView(seq, views[j])
          BY <2>2, <5>1
        <5> QED
          BY <1>2, <5>1, <5>2
      <4> QED
        BY <4>1, <4>2
    <3>5. \A j \in 1..i : HasView(seq, views[j]) \/ \E k \in 1..Len(q) : q[k] = views[j]
      <4> SUFFICES ASSUME NEW j \in 1..i, ~HasView(seq, views[j])
                   PROVE  \E k \in 1..Len(q) : q[k] = views[j]
        OBVIOUS
      <4>1. CASE j = i
        BY <2>2, <3>2, <4>1
      <4>2. CASE j # i
        <5>1. j \in 1..(i - 1)
          BY <1>2, <4>2
        <5>2. PICK k \in 1..Len(r) : r[k] = views[j]
          BY <2>2, <5>1
        <5> QED
          BY <2>2, <3>2, <5>2
      <4> QED
        BY <4>1, <4>2
    <3>6. ASSUME Unique, NEW k \in 1..Len(r), k > m PROVE r[k] # views[i]
      <4>1. PICK j \in 1..(i - 1) : r[k] = views[j]
        BY <2>2, <3>6
      <4>2. j \in 1..n /\ j # i
        BY <1>2
      <4> QED
        BY <3>6, <4>1, <4>2
    <3>7. ASSUME Unique, NEW k \in 1..Len(q), NEW l \in 1..Len(q), k > m, l > m, q[k] = q[l]
          PROVE  k = l
      <4>1. (k = Len(r) + 1 \/ k \in 1..Len(r)) /\ (l = Len(r) + 1 \/ l \in 1..Len(r))
        BY <2>2, <3>2
      <4>2. \A x, y \in 1..Len(r) : x > m /\ y > m /\ r[x] = r[y] => x = y
        BY <2>2, <3>7
      <4>3. \A x \in 1..Len(r) : x > m => r[x] # views[i]
        BY <3>6, <3>7
      <4> QED
        BY <3>2, <3>7, <4>1, <4>2, <4>3
    <3>8. Unique => \A k, l \in 1..Len(q) : k > m /\ l > m /\ q[k] = q[l] => k = l
      BY <3>7
    <3> HIDE DEF Unique
    <3>9. Good(i, q)
      BY <3>3, <3>4, <3>5, <3>8
    <3> HIDE DEF Good
    <3> QED
      BY <2>1, <3>1, <3>9
  <2> QED
    BY <2>3, <2>4
<1> HIDE DEF T
<1>5. \A i \in 1..n : i - 1 \in T => i \in T
  BY <1>4
<1>6. \A i \in 0..n : i \in T
  BY <1>2, <1>3, <1>5, RangeInduction
<1>7. n \in T
  BY <1>2, <1>6
<1>8. Good(n, AppendViews(seq, views)) /\ AppendViews(seq, views) \in Seq(View)
  BY <1>1, <1>2, <1>7 DEF T
<1> QED
  BY <1>2, <1>8 DEF n

(* The views that are left to install.                                     *)
LEMMA KeepsNewer ==
  ASSUME NEW seq \in Seq(View), NEW v
  PROVE  LET r == ViewsMoreUpdatedThan(seq, v) IN
         /\ r \in Seq(View)
         /\ HasViewMoreUpdatedThan(seq, v) => r # <<>>
<1> DEFINE n == Len(seq)
<1>1. PICK g \in [0..n -> Seq(View)] :
        /\ g[0] = <<>>
        /\ \A i \in 1..n :
             g[i] = IF MoreUpdatedThan(seq[i], v) THEN Append(g[i - 1], seq[i]) ELSE g[i - 1]
        /\ ViewsMoreUpdatedThan(seq, v) = g[n]
  BY KeepLoop
<1>2. n \in Nat /\ n \in 0..n /\ DOMAIN seq = 1..n /\ \A i \in 1..n : seq[i] \in View
  OBVIOUS
<1> HIDE DEF n
<1> DEFINE T == {i \in 0..n : (\E j \in 1..i : MoreUpdatedThan(seq[j], v)) => g[i] # <<>>}
<1>3. 0 \in T
  BY <1>2
<1>4. ASSUME NEW i \in 1..n, i - 1 \in T PROVE i \in T
  <2>1. i \in 0..n /\ i - 1 \in 0..n /\ \A j \in 1..i : j = i \/ j \in 1..(i - 1)
    BY <1>2, RangeStep
  <2>2. g[i - 1] \in Seq(View) /\ g[i] \in Seq(View)
    BY <2>1
  <2>3. CASE MoreUpdatedThan(seq[i], v)
    <3>1. g[i] = Append(g[i - 1], seq[i])
      BY <1>1, <2>3
    <3>2. Len(g[i]) = Len(g[i - 1]) + 1 /\ Len(g[i - 1]) \in Nat
      BY <1>2, <2>2, <3>1
    <3>3. g[i] # <<>>
      BY <3>2
    <3> QED
      BY <2>1, <3>3
  <2>4. CASE ~MoreUpdatedThan(seq[i], v)
    <3>1. g[i] = g[i - 1]
      BY <1>1, <2>4
    <3>2. (\E j \in 1..i : MoreUpdatedThan(seq[j], v))
            => \E j \in 1..(i - 1) : MoreUpdatedThan(seq[j], v)
      BY <2>1, <2>4
    <3> QED
      BY <2>1, <1>4, <3>1, <3>2
  <2> QED
    BY <2>3, <2>4
<1> HIDE DEF T
<1>5. \A i \in 1..n : i - 1 \in T => i \in T
  BY <1>4
<1>6. \A i \in 0..n : i \in T
  BY <1>2, <1>3, <1>5, RangeInduction
<1>7. n \in T
  BY <1>2, <1>6
<1>8. HasViewMoreUpdatedThan(seq, v) => g[n] # <<>>
  BY <1>2, <1>7 DEF T, HasViewMoreUpdatedThan
<1> QED
  BY <1>1, <1>2, <1>8
=============================================================================
