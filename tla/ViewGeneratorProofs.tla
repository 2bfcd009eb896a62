------------------------- MODULE ViewGeneratorProofs -------------------------
(***************************************************************************)
(* What the view generator without consensus guarantees for every cluster, *)
(* every current view and every set of accepted updates.                   *)
(***************************************************************************)
EXTENDS ViewGenerator, ViewProofs

-----------------------------------------------------------------------------
(***************************************************************************)
(* The cache of members                                                    *)
(***************************************************************************)
CachedView == [Entries : View, Members : SUBSET Process]

(* addUpdate makes a view of a view.                                       *)
LEMMA AddIsCached ==
  ASSUME NEW v \in CachedView, NEW u \in Update PROVE addUpdate(v, u) \in CachedView
<1>1. v.Entries \cup {u} \in View
  BY DEF CachedView, View
<1>2. u.Process \in Process /\ v.Members \in SUBSET Process
  BY DEF CachedView, Update
<1> QED
  BY <1>1, <1>2 DEF addUpdate, CachedView

(* addUpdate for one update after the other.                               *)
LEMMA AddLoop ==
  ASSUME NEW seq \in Seq(Update)
  PROVE  \E g \in [0..Len(seq) -> CachedView] :
           /\ g[0] = newView
           /\ \A i \in 1..Len(seq) :
                g[i] = addUpdate(g[i - 1], seq[i])
           /\ SeqOps!FoldLeft(addUpdate, newView, seq) = g[Len(seq)]
<1> DEFINE n == Len(seq)
           V == CachedView
           Round(i, x) == addUpdate(x, seq[i])
           step == [i \in 1..n |-> [x \in V |-> Round(i, x)]]
           Solves(f) ==
             f = [S \in SUBSET (1..n) |->
                    IF S = {} THEN newView ELSE Round(SeqOps!Max(S), f[S \ {SeqOps!Max(S)}])]
           F == CHOOSE f : Solves(f)
<1>1. n \in Nat /\ DOMAIN seq = 1..n /\ newView \in V
  BY DEF newView, CachedView, View
<1>2. SeqOps!FoldLeft(addUpdate, newView, seq) = F[1..n]
  BY <1>1 DEF SeqOps!FoldLeft, SeqOps!MapThenFoldSet
<1>3. \A i \in 1..n : \A x \in V : Round(i, x) \in V
  BY <1>1, AddIsCached
<1>4. \A S \in SUBSET (1..n) : S # {} => SeqOps!Max(S) \in 1..n
  BY <1>1, MaxIn
<1> HIDE DEF n, V, Round
<1>5. step \in [1..n -> [V -> V]] /\ \A i \in 1..n : \A x \in V : step[i][x] = Round(i, x)
  BY <1>3
<1> HIDE DEF step
<1>6. \E f : Solves(f)
  <2>1. PICK f \in [SUBSET (1..n) -> V] : Recursion(f, n, newView, step)
    BY <1>1, <1>5, LoopExists
  <2>2. \A S \in SUBSET (1..n) :
          f[S] = IF S = {} THEN newView ELSE step[SeqOps!Max(S)][f[S \ {SeqOps!Max(S)}]]
    BY <2>1 DEF Recursion
  <2>3. \A S \in SUBSET (1..n) : S # {} => f[S] = Round(SeqOps!Max(S), f[S \ {SeqOps!Max(S)}])
    BY <1>4, <1>5, <2>2, \A S \in SUBSET (1..n) : S \ {SeqOps!Max(S)} \in SUBSET (1..n)
  <2>4. Solves(f)
    BY <2>2, <2>3
  <2> QED
    BY <2>4
<1>7. Solves(F)
  BY <1>6
<1> HIDE DEF F
<1>8. /\ F[{}] = newView
      /\ \A S \in SUBSET (1..n) : S # {} => F[S] = Round(SeqOps!Max(S), F[S \ {SeqOps!Max(S)}])
  BY <1>7
<1>9. RecursionIn(V, F, n, newView, step)
  BY <1>4, <1>5, <1>8 DEF RecursionIn
<1>10. PICK g \in [0..n -> V] : Runs(g, n, newView, step) /\ g[n] = F[1..n]
  BY <1>1, <1>5, <1>9, LoopRuns
<1>11. g[0] = newView /\ \A i \in 1..n : g[i] = Round(i, g[i - 1])
  BY <1>1, <1>5, <1>10 DEF Runs
<1> QED
  BY <1>2, <1>10, <1>11 DEF n, V, Round

(* The cache is right after every update if it was right before.           *)
LEMMA AddKeepsCache ==
  ASSUME NEW v \in CachedView, v.Members = Members(v.Entries), NEW u \in Update
  PROVE  addUpdate(v, u).Members = Members(addUpdate(v, u).Entries)
<1>1. u.Type \in {Join, Leave} /\ u.Process \in Process
  BY DEF Update
<1>2. u = IF u.Type = Leave THEN LeaveOf(u.Process) ELSE JoinOf(u.Process)
  BY <1>1 DEF Update, JoinOf, LeaveOf
<1>3. \A p, q \in Process : /\ JoinOf(p) # LeaveOf(q)
                            /\ JoinOf(p) = JoinOf(q) => p = q
                            /\ LeaveOf(p) = LeaveOf(q) => p = q
  BY DEF JoinOf, LeaveOf, Join, Leave
<1>4. Join # Leave
  BY DEF Join, Leave
<1> HIDE DEF Join, Leave
<1>5. CASE u.Type = Leave
  BY <1>1, <1>2, <1>3, <1>5 DEF addUpdate, Members
<1>6. CASE u.Type = Join
  BY <1>1, <1>2, <1>3, <1>4, <1>6 DEF addUpdate, Members
<1> QED
  BY <1>1, <1>5, <1>6

(* In whatever order updates come, they become the entries of the view.    *)
LEMMA CacheOfAll ==
  ASSUME NEW seq \in Seq(Update)
  PROVE  LET v == SeqOps!FoldLeft(addUpdate, newView, seq) IN
         /\ v \in CachedView
         /\ v.Members = Members(v.Entries)
         /\ v.Entries = {seq[j] : j \in 1..Len(seq)}
<1> DEFINE n == Len(seq)
<1>1. PICK g \in [0..n -> CachedView] :
        /\ g[0] = newView
        /\ \A i \in 1..n : g[i] = addUpdate(g[i - 1], seq[i])
        /\ SeqOps!FoldLeft(addUpdate, newView, seq) = g[n]
  BY AddLoop
<1>2. n \in Nat /\ n \in 0..n /\ \A i \in 1..n : seq[i] \in Update
  OBVIOUS
<1> HIDE DEF n
<1> DEFINE Good(i) == /\ g[i].Members = Members(g[i].Entries)
                      /\ g[i].Entries = {seq[j] : j \in 1..i}
           T == {i \in 0..n : Good(i)}
<1>3. 0 \in T
  BY <1>1, <1>2 DEF newView, Members
<1>4. ASSUME NEW i \in 1..n, i - 1 \in T PROVE i \in T
  <2>1. /\ i \in 0..n /\ i - 1 \in 0..n /\ i \in 1..i
        /\ \A j \in 1..i : j = i \/ j \in 1..(i - 1)
        /\ \A j \in 1..(i - 1) : j \in 1..i
    BY <1>2, RangeStep
  <2>2. /\ g[i - 1] \in CachedView /\ g[i - 1].Members = Members(g[i - 1].Entries)
        /\ g[i - 1].Entries = {seq[j] : j \in 1..(i - 1)}
    BY <1>4, <2>1
  <2>3. addUpdate(g[i - 1], seq[i]).Members = Members(addUpdate(g[i - 1], seq[i]).Entries)
    BY <1>2, <2>2, AddKeepsCache
  <2>4. g[i].Members = Members(g[i].Entries)
    BY <1>1, <2>3
  <2>5. g[i].Entries = g[i - 1].Entries \cup {seq[i]}
    <3>1. g[i] = addUpdate(g[i - 1], seq[i])
      BY <1>1
    <3>2. ASSUME NEW x, NEW u PROVE addUpdate(x, u).Entries = x.Entries \cup {u}
      BY DEF addUpdate
    <3> QED
      BY <3>1, <3>2
  <2>6. g[i].Entries = {seq[j] : j \in 1..i}
    BY <2>1, <2>2, <2>5
  <2> QED
    BY <2>1, <2>4, <2>6
<1> HIDE DEF T
<1>5. \A i \in 1..n : i - 1 \in T => i \in T
  BY <1>4
<1>6. \A i \in 0..n : i \in T
  BY <1>2, <1>3, <1>5, RangeInduction
<1>7. n \in T
  BY <1>2, <1>6
<1> QED
  BY <1>1, <1>2, <1>7 DEF T, n

(* The order in which a map delivers its entries is a sequence of them.    *)
LEMMA OrdersAreSequences ==
  ASSUME NEW S \in SUBSET Update, NEW f \in SeqOps!SetToSeqs(S)
  PROVE  f \in Seq(Update) /\ {f[i] : i \in 1..Len(f)} = S
<1> DEFINE n == Cardinality(S)
           R == {f[i] : i \in 1..n}
<1>1. IsFiniteSet(S) /\ n \in Nat
  BY ViewIsFinite DEF View, NumberOfUpdates
<1>2. SeqOps!Cardinality(S) = Cardinality(S)
  BY DEF SeqOps!Cardinality, Cardinality
<1>3. f \in [1..n -> S] /\ \A i, j \in 1..n : i # j => f[i] # f[j]
  BY <1>2 DEF SeqOps!SetToSeqs
<1>4. f \in Seq(Update) /\ Len(f) = n
  BY <1>1, <1>3
(* A one-to-one sequence as long as the set leaves out nothing. *)
<1>5. R \in SUBSET S
  BY <1>3
<1>6. IsFiniteSet(1..n) /\ Cardinality(1..n) = n
  BY <1>1, FS_Interval
<1>7. f \in Surjection(1..n, R)
  BY <1>3 DEF Surjection
<1>8. f \in Injection(1..n, R)
  BY <1>3 DEF Injection, IsInjective
<1>9. f \in Bijection(1..n, R)
  BY <1>7, <1>8 DEF Bijection
<1> HIDE DEF R
<1>10. ExistsBijection(1..n, R)
  BY <1>9 DEF ExistsBijection
<1>11. Cardinality(R) = n
  BY <1>6, <1>10, FS_Bijection
<1>12. R = S
  BY <1>1, <1>5, <1>11, FS_Subset
<1> QED
  BY <1>4, <1>12 DEF R

(* Every copy of a view with updates has the right cache.                  *)
LEMMA CopiesAreCoherent ==
  ASSUME NEW entries \in View, NEW updates \in SUBSET Update,
         NEW v \in CopiesWithUpdates(entries, updates)
  PROVE  /\ v \in CachedView
         /\ v.Members = Members(v.Entries)
         /\ v.Entries = entries \cup updates
<1>1. PICK f \in SeqOps!SetToSeqs(entries), h \in SeqOps!SetToSeqs(updates) :
        v = SeqOps!FoldLeft(addUpdate, newView, f \o h)
  BY DEF CopiesWithUpdates
<1>2. /\ f \in Seq(Update) /\ {f[i] : i \in 1..Len(f)} = entries
      /\ h \in Seq(Update) /\ {h[i] : i \in 1..Len(h)} = updates
  BY OrdersAreSequences DEF View
<1> DEFINE q == f \o h
           m == Len(f)
           n == Len(h)
<1>3. /\ q \in Seq(Update) /\ Len(q) = m + n /\ m \in Nat /\ n \in Nat
      /\ \A i \in 1..(m + n) : q[i] = IF i <= m THEN f[i] ELSE h[i - m]
  BY <1>2
<1> HIDE DEF q, m, n
<1>4. {q[i] : i \in 1..Len(q)} = entries \cup updates
  <2>1. \A i \in 1..m : i \in 1..(m + n) /\ q[i] = f[i]
    BY <1>3
  <2>2. \A i \in 1..n : m + i \in 1..(m + n) /\ q[m + i] = h[i]
    BY <1>3
  <2>3. \A i \in 1..(m + n) : \/ i \in 1..m /\ q[i] = f[i]
                              \/ i - m \in 1..n /\ q[i] = h[i - m]
    BY <1>3
  <2>4. {q[i] : i \in 1..(m + n)} = {f[i] : i \in 1..m} \cup {h[i] : i \in 1..n}
    BY <2>1, <2>2, <2>3
  <2> QED
    BY <1>2, <1>3, <2>4 DEF m, n
<1> QED
  BY <1>1, <1>3, <1>4, CacheOfAll DEF q

(***************************************************************************)
(* What a server begins with                                               *)
(***************************************************************************)
StartInv ==
  /\ AssociatedView \in View
  /\ currentView \in [Process -> View]
  /\ recv \in [Process -> SUBSET Update]
  /\ initialView \in [Process -> CachedView]
  /\ \A s \in Process : initialView[s].Members = Members(initialView[s].Entries)

(* StartInv holds at the beginning and after every step.                   *)
LEMMA StartInvariance == Spec => []StartInv
<1>1. Init => StartInv
  <2> SUFFICES ASSUME Init PROVE StartInv
    OBVIOUS
  <2>1. newView \in CachedView /\ newView.Members = Members(newView.Entries)
    BY DEF newView, CachedView, View, Members
  <2>2. initialView = [s \in Process |-> newView]
    BY DEF Init
  <2>3. /\ AssociatedView \in View
        /\ currentView \in [Process -> View]
        /\ recv \in [Process -> SUBSET Update]
    BY ViewGeneratorAssumption DEF Init
  <2> HIDE DEF newView
  <2> QED
    BY <2>1, <2>2, <2>3 DEF StartInv
<1>2. StartInv /\ [Next]_vars => StartInv'
  <2> SUFFICES ASSUME StartInv, [Next]_vars PROVE StartInv'
    OBVIOUS
  <2>1. ASSUME NEW s \in Process, getOrCreateViewGenerator(s) PROVE StartInv'
    <3>1. PICK v \in CopiesWithUpdates(currentView[s], recv[s]) :
            initialView' = [initialView EXCEPT ![s] = v]
      BY <2>1 DEF getOrCreateViewGenerator
    <3>2. v \in CachedView /\ v.Members = Members(v.Entries)
      BY CopiesAreCoherent DEF StartInv
    <3> QED
      BY <2>1, <3>1, <3>2 DEF getOrCreateViewGenerator, StartInv
  <2>2. ASSUME UNCHANGED <<AssociatedView, currentView, recv, initialView>> PROVE StartInv'
    BY <2>2 DEF StartInv
  <2>3. ASSUME NEW d, NEW s, Receive(d, s) PROVE StartInv'
    BY <2>2, <2>3 DEF Receive, ProposeSeqView, ReceiveSeqConv
  <2>4. Server \subseteq Process
    BY DEF Server, Members
  <2> QED
    BY <2>1, <2>2, <2>3, <2>4
       DEF Next, vars, generateViewSequenceWithoutConsensus, createForMessage
<1> QED
  BY <1>1, <1>2, PTL DEF Spec

(* The cache of members is right in every view that a server makes, of     *)
(* whatever entries and updates, and in whatever order two maps deliver    *)
(* them.                                                                   *)
THEOREM CacheIsCoherent == Spec => []MembersCacheCoherent
<1>1. StartInv => MembersCacheCoherent
  BY DEF StartInv, MembersCacheCoherent, Server, Members
<1> QED
  BY <1>1, StartInvariance, PTL

-----------------------------------------------------------------------------
(***************************************************************************)
(* Quorums                                                                 *)
(***************************************************************************)
(* A finite set has a subset of every smaller size.                        *)
LEMMA SubsetOfSize ==
  ASSUME NEW S, IsFiniteSet(S), NEW k \in 0..Cardinality(S)
  PROVE  \E Q \in SUBSET S : Cardinality(Q) = k
<1> DEFINE n == Cardinality(S)
           T == {i \in 0..n : \E Q \in SUBSET S : Cardinality(Q) = i}
<1>1. n \in Nat
  BY FS_CardinalityType
<1>2. 0 \in T
  BY <1>1, FS_EmptySet
<1>3. ASSUME NEW i \in 1..n, i - 1 \in T PROVE i \in T
  <2>1. PICK Q \in SUBSET S : Cardinality(Q) = i - 1
    BY <1>3
  <2>2. IsFiniteSet(Q)
    BY FS_Subset
  <2>3. Q # S
    BY <1>1, <2>1
  <2>4. PICK x \in S : x \notin Q
    BY <2>3
  <2>5. Cardinality(Q \cup {x}) = i
    <3>1. Cardinality(Q \cup {x}) = Cardinality(Q) + 1
      BY <2>2, <2>4, FS_AddElement
    <3> QED
      BY <1>1, <2>1, <3>1
  <2>6. i \in 0..n
    BY <1>1, RangeStep
  <2> QED
    BY <2>5, <2>6
<1> HIDE DEF T
<1>4. \A i \in 1..n : i - 1 \in T => i \in T
  BY <1>3
<1>5. k \in T
  BY <1>1, <1>2, <1>4, RangeInduction
<1> QED
  BY <1>5 DEF T

(* As many faults leave a quorum as are tolerated, and no more.            *)
LEMMA FaultsLeaveQuorum ==
  ASSUME NEW v \in View, NEW D \in SUBSET Members(v)
  PROVE  (\E Q \in SUBSET Members(v) : Cardinality(Q) = QuorumSize(v) /\ Q \cap D = {})
           <=> Cardinality(D) <= NumberOfToleratedFaults(v)
<1> DEFINE M == Members(v)
           R == M \ D
           n == NumberOfMembers(v)
           q == QuorumSize(v)
<1>1. IsFiniteSet(M) /\ n = Cardinality(M) /\ n \in Nat /\ q \in Nat
  BY QuorumIsMajority DEF NumberOfMembers
<1>2. IsFiniteSet(D) /\ Cardinality(D) \in Nat
  BY <1>1, FS_Subset, FS_CardinalityType
<1>3. M \cap D = D
  OBVIOUS
<1> HIDE DEF M
<1>4. IsFiniteSet(R) /\ Cardinality(R) \in Nat /\ Cardinality(R) = n - Cardinality(D)
  <2>1. IsFiniteSet(M \ D) /\ Cardinality(M \ D) = Cardinality(M) - Cardinality(M \cap D)
    BY <1>1, FS_Difference
  <2>2. Cardinality(R) = n - Cardinality(D)
    BY <1>1, <1>3, <2>1
  <2> QED
    BY <2>1, <2>2, FS_CardinalityType
<1>5. NumberOfToleratedFaults(v) = n - q
  BY DEF NumberOfToleratedFaults
<1>6. ASSUME NEW Q \in SUBSET M, Cardinality(Q) = q, Q \cap D = {} PROVE q <= Cardinality(R)
  <2>1. Q \in SUBSET R
    BY <1>6
  <2> QED
    BY <1>4, <1>6, <2>1, FS_Subset
<1>7. ASSUME q <= Cardinality(R) PROVE \E Q \in SUBSET M : Cardinality(Q) = q /\ Q \cap D = {}
  <2>1. q \in 0..Cardinality(R)
    BY <1>1, <1>4, <1>7
  <2>2. PICK Q \in SUBSET R : Cardinality(Q) = q
    BY <1>4, <2>1, SubsetOfSize
  <2> QED
    BY <2>2
<1>8. q <= Cardinality(R) <=> Cardinality(D) <= n - q
  BY <1>1, <1>2, <1>4
<1> HIDE DEF R, n, q
<1>9. (\E Q \in SUBSET M : Cardinality(Q) = q /\ Q \cap D = {}) <=> Cardinality(D) <= n - q
  BY <1>6, <1>7, <1>8
<1> QED
  BY <1>5, <1>9 DEF M, q

(* QuorumSize and NumberOfToleratedFaults fit together in views of any     *)
(* size, the view without members included, which has no quorum.           *)
THEOREM QuorumsFit == Spec => []QuorumsIntersect
<1>1. ASSUME StartInv PROVE QuorumsIntersect
  <2> SUFFICES ASSUME NEW s \in Server
               PROVE  LET v == initialView[s].Entries
                          Quorums == {Q \in SUBSET initialView[s].Members :
                                        Cardinality(Q) = QuorumSize(v)}
                      IN /\ \A Q1, Q2 \in Quorums : Q1 \cap Q2 # {}
                         /\ \A D \in SUBSET initialView[s].Members :
                              (\E Q \in Quorums : Q \cap D = {})
                                <=> Cardinality(D) <= NumberOfToleratedFaults(v)
    BY DEF QuorumsIntersect
  <2> DEFINE v == initialView[s].Entries
  <2>1. v \in View /\ initialView[s].Members = Members(v)
    BY <1>1 DEF StartInv, CachedView, Server, Members
  <2> HIDE DEF v
  <2>2. ASSUME NEW Q1 \in SUBSET Members(v), NEW Q2 \in SUBSET Members(v),
               Cardinality(Q1) = QuorumSize(v), Cardinality(Q2) = QuorumSize(v)
        PROVE  Q1 \cap Q2 # {}
    BY <2>1, <2>2, QuorumIntersection, QuorumIsMajority
  <2>3. \A D \in SUBSET Members(v) :
          (\E Q \in SUBSET Members(v) : Cardinality(Q) = QuorumSize(v) /\ Q \cap D = {})
            <=> Cardinality(D) <= NumberOfToleratedFaults(v)
    BY <2>1, FaultsLeaveQuorum
  <2> QED
    BY <2>1, <2>2, <2>3 DEF v
<1>2. StartInv => QuorumsIntersect
  BY <1>1
<1> QED
  BY <1>2, StartInvariance, PTL

-----------------------------------------------------------------------------
(***************************************************************************)
(* Chains                                                                  *)
(***************************************************************************)
Chains == {seq \in Seq(View) : seq # <<>> /\ IsChain(seq)}

Below(seq, v) == \A i \in DOMAIN seq : seq[i] \subseteq v

Contains(seq, part) == \A i \in DOMAIN part : \E k \in DOMAIN seq : seq[k] = part[i]

(* Chains are sequences of views, and so is the empty one.                 *)
LEMMA ChainsAreSequences == Chains \cup {<<>>} \subseteq Seq(View)
<1>1. Chains \subseteq Seq(View)
  BY DEF Chains
<1>2. <<>> \in Seq(View)
  OBVIOUS
<1> QED
  BY <1>1, <1>2

(* The views of a chain are below its most updated one, and so is          *)
(* everything that it contains.                                            *)
LEMMA ChainIsBelowMost ==
  ASSUME NEW seq \in Chains, NEW part, Contains(seq, part)
  PROVE  GetMostUpdatedView(seq) \in View /\ Below(part, GetMostUpdatedView(seq))
<1>1. seq \in Seq(View) /\ seq # <<>> /\ IsChain(seq)
  BY DEF Chains
<1>2. \A j \in DOMAIN seq : seq[j] \subseteq GetMostUpdatedView(seq)
  BY <1>1, MostIsMost
<1> QED
  BY <1>1, <1>2, MostIsView DEF Contains, Below

(* Two chains make one if no view of the second is in conflict with one of *)
(* the first.                                                              *)
LEMMA AppendChains ==
  ASSUME NEW seq \in Chains \cup {<<>>}, NEW views \in Chains,
         \A i \in DOMAIN seq, j \in DOMAIN views :
           ~HasView(seq, views[j]) => seq[i] \subseteq views[j] \/ views[j] \subseteq seq[i]
  PROVE  LET r == AppendViews(seq, views) IN
         r \in Chains /\ Contains(r, seq) /\ Contains(r, views)
<1> DEFINE r == AppendViews(seq, views)
           m == Len(seq)
           n == Len(views)
           l == Len(r)
<1>1. seq \in Seq(View) /\ views \in Seq(View) /\ n > 0 /\ IsChain(views)
  <2>1. views \in Seq(View) /\ views # <<>> /\ IsChain(views)
    BY DEF Chains
  <2>2. n > 0
    BY <2>1
  <2>3. seq \in Seq(View)
    BY ChainsAreSequences
  <2> QED
    BY <2>1, <2>2, <2>3
<1>2. IsChain(seq)
  BY DEF Chains, IsChain
<1>3. DOMAIN seq = 1..m /\ DOMAIN views = 1..n /\ m \in Nat /\ n \in Nat
  BY <1>1
<1>4. \A i, j \in DOMAIN views : views[i] = views[j] => i = j
  BY <1>1 DEF IsChain
<1>5. /\ r \in Seq(View)
      /\ l >= m /\ \A k \in 1..m : r[k] = seq[k]
      /\ \A k \in 1..l : k > m => \E j \in 1..n : r[k] = views[j] /\ ~HasView(seq, views[j])
      /\ \A j \in 1..n : HasView(seq, views[j]) \/ \E k \in 1..l : r[k] = views[j]
      /\ \A k, x \in 1..l : k > m /\ x > m /\ r[k] = r[x] => k = x
  BY <1>1, <1>4, AppendAdds
<1> HIDE DEF r
<1>6. DOMAIN r = 1..l /\ l \in Nat
  BY <1>5
<1> HIDE DEF m, n, l
<1>7. \A j \in 1..n : HasView(seq, views[j]) <=> \E i \in 1..m : seq[i] = views[j]
  BY <1>1, <1>3, HasViewIsIn
<1>8. Contains(r, seq)
  <2>1. ASSUME NEW i \in 1..m PROVE i \in 1..l /\ r[i] = seq[i]
    BY <1>3, <1>5, <1>6
  <2> QED
    BY <1>3, <1>6, <2>1 DEF Contains
<1>9. Contains(r, views)
  <2> SUFFICES ASSUME NEW j \in 1..n PROVE \E k \in 1..l : r[k] = views[j]
    BY <1>3, <1>6 DEF Contains
  <2> QED
    BY <1>3, <1>5, <1>6, <1>7, <1>8 DEF Contains
<1>10. ASSUME NEW k \in 1..l
       PROVE  \/ k \in 1..m /\ r[k] = seq[k]
              \/ /\ k > m
                 /\ \E j \in 1..n : r[k] = views[j] /\ ~HasView(seq, views[j])
  BY <1>3, <1>5, <1>6
<1>11. ASSUME NEW k \in 1..l, NEW x \in 1..l
       PROVE  /\ r[k] \subseteq r[x] \/ r[x] \subseteq r[k]
              /\ r[k] = r[x] => k = x
  <2>1. CASE k \in 1..m /\ x \in 1..m
    BY <1>2, <1>3, <1>5, <2>1 DEF IsChain
  <2>2. CASE k \in 1..m /\ x > m
    <3>1. PICK j \in 1..n : r[x] = views[j] /\ ~HasView(seq, views[j])
      BY <1>5, <2>2
    <3>2. seq[k] \subseteq views[j] \/ views[j] \subseteq seq[k]
      BY <1>3, <2>2, <3>1
    <3>3. seq[k] # views[j]
      BY <1>7, <2>2, <3>1
    <3> QED
      BY <1>5, <2>2, <3>1, <3>2, <3>3
  <2>3. CASE x \in 1..m /\ k > m
    <3>1. PICK j \in 1..n : r[k] = views[j] /\ ~HasView(seq, views[j])
      BY <1>5, <2>3
    <3>2. seq[x] \subseteq views[j] \/ views[j] \subseteq seq[x]
      BY <1>3, <2>3, <3>1
    <3>3. seq[x] # views[j]
      BY <1>7, <2>3, <3>1
    <3> QED
      BY <1>5, <2>3, <3>1, <3>2, <3>3
  <2>4. CASE k > m /\ x > m
    <3>1. PICK i \in 1..n : r[k] = views[i]
      BY <1>5, <2>4
    <3>2. PICK j \in 1..n : r[x] = views[j]
      BY <1>5, <2>4
    <3>3. views[i] \subseteq views[j] \/ views[j] \subseteq views[i]
      BY <1>1, <1>3 DEF IsChain
    <3> QED
      BY <1>5, <2>4, <3>1, <3>2, <3>3
  <2> QED
    BY <1>10, <2>1, <2>2, <2>3, <2>4
<1>12. IsChain(r)
  BY <1>6, <1>11 DEF IsChain
<1>13. r # <<>>
  <2>1. 1 \in 1..n
    BY <1>1, <1>3 DEF n
  <2>2. DOMAIN r # {}
    BY <1>3, <1>9, <2>1 DEF Contains
  <2> QED
    BY <2>2
<1> QED
  BY <1>5, <1>8, <1>9, <1>12, <1>13 DEF Chains, r

(* A view alone is a chain.                                                *)
LEMMA OneViewIsChain ==
  ASSUME NEW v \in View
  PROVE  <<v>> \in Chains /\ DOMAIN <<v>> = {1} /\ <<v>>[1] = v
BY DEF Chains, IsChain

(***************************************************************************)
(* What workers propose                                                    *)
(***************************************************************************)
(* A worker, whatever its counters hold.                                   *)
IsWorker(w) ==
  w = [running |-> w.running, lastProposedSeq |-> w.lastProposedSeq,
       lastConvergedSeq |-> w.lastConvergedSeq, viewSeqs |-> w.viewSeqs,
       seqConvs |-> w.seqConvs, out |-> w.out]

(* What was announced last is below what is proposed.                      *)
Proposal(proposed, converged) ==
  /\ proposed \in Chains
  /\ converged \in Chains \cup {<<>>}
  /\ Below(converged, GetMostUpdatedView(proposed))

ProposalMsg ==
  {m \in [type : {"ViewSeq"}, Sender : Process, ProposedSeq : Seq(View),
          LastConvergedSeq : Seq(View)] : Proposal(m.ProposedSeq, m.LastConvergedSeq)}

Message == ProposalMsg \cup [type : {"SeqConv"}, Seq : Seq(View)]

Proposes(w) ==
  /\ IsWorker(w)
  /\ Proposal(w.lastProposedSeq, w.lastConvergedSeq)
  /\ w.out \in Seq(Message)

(* All views that a worker, or a message, speaks of are in W; a union of   *)
(* two of them is, too.                                                    *)
Within(seq, W) == \A i \in DOMAIN seq : seq[i] \in W

MessageWithin(m, W) ==
  \/ m.type = "ViewSeq" /\ Within(m.ProposedSeq, W) /\ Within(m.LastConvergedSeq, W)
  \/ m.type = "SeqConv" /\ m.Seq # <<>> /\ Within(m.Seq, W)

WorkerWithin(w, W) ==
  /\ Within(w.lastProposedSeq, W)
  /\ Within(w.lastConvergedSeq, W)
  /\ \A i \in DOMAIN w.out : MessageWithin(w.out[i], W)

ClosedUnderUnion(W) == \A u, v \in W : u \cup v \in W

(* Counting a proposal changes what was announced last, or nothing.        *)
LEMMA CountStep ==
  ASSUME NEW w, IsWorker(w), w.out \in Seq(Message), NEW m \in ProposalMsg
  PROVE  LET r == countViewSeq(w, m) IN
         /\ IsWorker(r)
         /\ r.running = w.running
         /\ r.lastProposedSeq = w.lastProposedSeq
         /\ r.lastConvergedSeq \in {w.lastConvergedSeq, m.ProposedSeq}
         /\ r.out \in Seq(Message)
         /\ r.viewSeqs = Count(w.viewSeqs, m)
         /\ r.seqConvs = w.seqConvs
         /\ r.out = IF ReachesQuorum(w.viewSeqs, m)
                    THEN Append(w.out, SeqConv(m.ProposedSeq)) ELSE w.out
<1> DEFINE c == Count(w.viewSeqs, m)
           q == Append(w.out, SeqConv(m.ProposedSeq))
           quiet == [w EXCEPT !.viewSeqs = c]
           said == [quiet EXCEPT !.lastConvergedSeq = m.ProposedSeq]
           loud == [said EXCEPT !.out = q]
<1>1. SeqConv(m.ProposedSeq) \in Message
  BY DEF SeqConv, Message, ProposalMsg
<1>2. q \in Seq(Message)
  BY <1>1
<1>3. quiet = [running |-> w.running, lastProposedSeq |-> w.lastProposedSeq,
               lastConvergedSeq |-> w.lastConvergedSeq, viewSeqs |-> c,
               seqConvs |-> w.seqConvs, out |-> w.out]
  <2> HIDE DEF c
  <2> QED
    BY DEF IsWorker
<1>4. loud = [running |-> w.running, lastProposedSeq |-> w.lastProposedSeq,
              lastConvergedSeq |-> m.ProposedSeq, viewSeqs |-> c,
              seqConvs |-> w.seqConvs, out |-> q]
  <2> HIDE DEF c, q, quiet
  <2>1. said = [running |-> w.running, lastProposedSeq |-> w.lastProposedSeq,
                lastConvergedSeq |-> m.ProposedSeq, viewSeqs |-> c,
                seqConvs |-> w.seqConvs, out |-> w.out]
    BY <1>3
  <2> HIDE DEF said
  <2> QED
    BY <2>1
<1>5. countViewSeq(w, m) = IF ReachesQuorum(w.viewSeqs, m) THEN loud ELSE quiet
  <2>1. quiet.out = w.out
    BY <1>3
  <2>2. said.out = w.out
    <3> HIDE DEF c, quiet
    <3> QED
      BY <1>3
  <2> QED
    BY <2>1, <2>2 DEF countViewSeq
<1> HIDE DEF c, q, quiet, loud
<1>6. CASE ReachesQuorum(w.viewSeqs, m)
  <2>1. countViewSeq(w, m) = loud
    BY <1>5, <1>6
  <2> QED
    BY <1>2, <1>4, <1>6, <2>1 DEF IsWorker, c, q
<1>7. CASE ~ReachesQuorum(w.viewSeqs, m)
  <2>1. countViewSeq(w, m) = quiet
    BY <1>5, <1>7
  <2> QED
    BY <1>3, <1>7, <2>1 DEF IsWorker, c
<1> QED
  BY <1>6, <1>7

(* A proposal is broadcast, and may be announced at once.                  *)
LEMMA ProposeStep ==
  ASSUME NEW w, IsWorker(w), w.out \in Seq(Message), NEW s \in Process, NEW seq,
         Proposal(seq, w.lastConvergedSeq)
  PROVE  LET r == ProposeSeq(w, s, seq) IN
         /\ Proposes(r)
         /\ r.running = w.running
         /\ r.lastProposedSeq = seq
         /\ r.lastConvergedSeq \in {w.lastConvergedSeq, seq}
         /\ LET m == ViewSeqMsg(s, seq, w.lastConvergedSeq) IN
            /\ r.viewSeqs = Count(w.viewSeqs, m)
            /\ r.seqConvs = w.seqConvs
            /\ r.out = IF ReachesQuorum(w.viewSeqs, m)
                       THEN Append(Append(w.out, m), SeqConv(seq)) ELSE Append(w.out, m)
<1> DEFINE m == ViewSeqMsg(s, seq, w.lastConvergedSeq)
           a == Append(w.out, m)
           x == [w EXCEPT !.out = a]
           y == countViewSeq(x, m)
<1>1. m \in ProposalMsg /\ m.ProposedSeq = seq
  <2>1. m = [type |-> "ViewSeq", Sender |-> s, ProposedSeq |-> seq,
             LastConvergedSeq |-> w.lastConvergedSeq]
    BY DEF ViewSeqMsg
  <2>2. seq \in Seq(View) /\ w.lastConvergedSeq \in Seq(View)
    BY ChainsAreSequences DEF Proposal
  <2> QED
    BY <2>1, <2>2 DEF ProposalMsg
<1> HIDE DEF m
<1>2. a \in Seq(Message)
  BY <1>1 DEF Message
<1> HIDE DEF a
<1>3. x = [running |-> w.running, lastProposedSeq |-> w.lastProposedSeq,
           lastConvergedSeq |-> w.lastConvergedSeq, viewSeqs |-> w.viewSeqs,
           seqConvs |-> w.seqConvs, out |-> a]
  BY DEF IsWorker
<1> HIDE DEF x
<1>4. /\ IsWorker(x) /\ x.running = w.running
      /\ x.lastConvergedSeq = w.lastConvergedSeq
      /\ x.out \in Seq(Message)
      /\ x.viewSeqs = w.viewSeqs /\ x.seqConvs = w.seqConvs /\ x.out = a
  BY <1>2, <1>3 DEF IsWorker
<1>5. /\ IsWorker(y) /\ y.running = w.running
      /\ y.lastConvergedSeq \in {w.lastConvergedSeq, seq}
      /\ y.out \in Seq(Message)
      /\ y.viewSeqs = Count(w.viewSeqs, m)
      /\ y.seqConvs = w.seqConvs
      /\ y.out = IF ReachesQuorum(w.viewSeqs, m) THEN Append(a, SeqConv(seq)) ELSE a
  BY <1>1, <1>4, CountStep
<1> HIDE DEF y
<1> DEFINE r == [y EXCEPT !.lastProposedSeq = seq]
<1>6. ProposeSeq(w, s, seq) = r
  BY DEF ProposeSeq, m, a, x, y
<1>7. /\ IsWorker(r) /\ r.running = w.running /\ r.lastProposedSeq = seq
      /\ r.lastConvergedSeq \in {w.lastConvergedSeq, seq}
      /\ r.out \in Seq(Message)
      /\ r.viewSeqs = y.viewSeqs /\ r.seqConvs = y.seqConvs /\ r.out = y.out
  BY <1>5 DEF IsWorker
<1> HIDE DEF r
<1>8. seq \in Chains /\ Contains(seq, seq)
  BY DEF Proposal, Contains
<1>9. Proposal(seq, seq)
  BY <1>8, ChainIsBelowMost DEF Proposal
<1>10. Proposal(r.lastProposedSeq, r.lastConvergedSeq)
  BY <1>7, <1>9
<1> QED
  BY <1>5, <1>6, <1>7, <1>10 DEF Proposes, m, a

(* A message that is broadcast is a message of the worker.                 *)
LEMMA AppendWithin ==
  ASSUME NEW o \in Seq(Message), NEW m \in Message, NEW W,
         \A i \in DOMAIN o : MessageWithin(o[i], W), MessageWithin(m, W)
  PROVE  \A i \in DOMAIN Append(o, m) : MessageWithin(Append(o, m)[i], W)
<1>1. \A i \in DOMAIN Append(o, m) : \/ Append(o, m)[i] = m
                                     \/ i \in DOMAIN o /\ Append(o, m)[i] = o[i]
  OBVIOUS
<1> QED
  BY <1>1

(* Counting a proposal brings in no other view than the proposal has.      *)
LEMMA CountWithin ==
  ASSUME NEW w, IsWorker(w), w.out \in Seq(Message), NEW m \in ProposalMsg,
         NEW W, WorkerWithin(w, W), MessageWithin(m, W)
  PROVE  WorkerWithin(countViewSeq(w, m), W)
<1> DEFINE r == countViewSeq(w, m)
           b == SeqConv(m.ProposedSeq)
<1>1. /\ r.lastProposedSeq = w.lastProposedSeq
      /\ r.lastConvergedSeq \in {w.lastConvergedSeq, m.ProposedSeq}
      /\ r.out = w.out \/ r.out = Append(w.out, b)
  BY CountStep
<1>2. /\ Within(m.ProposedSeq, W) /\ m.ProposedSeq # <<>> /\ m.ProposedSeq \in Seq(View)
  BY DEF MessageWithin, ProposalMsg, Proposal, Chains
<1>3. b \in Message /\ MessageWithin(b, W)
  BY <1>2 DEF SeqConv, Message, MessageWithin
<1> HIDE DEF r, b
<1>4. \A i \in DOMAIN r.out : MessageWithin(r.out[i], W)
  BY <1>1, <1>3, AppendWithin DEF WorkerWithin
<1> QED
  BY <1>1, <1>2, <1>4 DEF WorkerWithin, r

(* Nor does a proposal of one's own.                                       *)
LEMMA ProposeWithin ==
  ASSUME NEW w, IsWorker(w), w.out \in Seq(Message), NEW s \in Process, NEW seq,
         Proposal(seq, w.lastConvergedSeq), NEW W, WorkerWithin(w, W), Within(seq, W)
  PROVE  WorkerWithin(ProposeSeq(w, s, seq), W)
<1> DEFINE r == ProposeSeq(w, s, seq)
           m == ViewSeqMsg(s, seq, w.lastConvergedSeq)
           a == Append(w.out, m)
           b == SeqConv(seq)
<1>1. /\ r.lastProposedSeq = seq
      /\ r.lastConvergedSeq \in {w.lastConvergedSeq, seq}
      /\ r.out = a \/ r.out = Append(a, b)
  BY ProposeStep
<1>2. /\ seq # <<>> /\ seq \in Seq(View) /\ w.lastConvergedSeq \in Seq(View)
  BY ChainsAreSequences DEF Proposal, Chains
<1>3. m \in Message /\ MessageWithin(m, W)
  <2>1. m = [type |-> "ViewSeq", Sender |-> s, ProposedSeq |-> seq,
             LastConvergedSeq |-> w.lastConvergedSeq]
    BY DEF ViewSeqMsg
  <2> HIDE DEF m
  <2> QED
    BY <1>2, <2>1 DEF Message, ProposalMsg, MessageWithin, WorkerWithin
<1>4. b \in Message /\ MessageWithin(b, W)
  BY <1>2 DEF SeqConv, Message, MessageWithin
<1> HIDE DEF r, m, b
<1>5. a \in Seq(Message) /\ \A i \in DOMAIN a : MessageWithin(a[i], W)
  BY <1>3, AppendWithin DEF WorkerWithin
<1> HIDE DEF a
<1>6. \A i \in DOMAIN r.out : MessageWithin(r.out[i], W)
  BY <1>1, <1>4, <1>5, AppendWithin
<1> QED
  BY <1>1, <1>6 DEF WorkerWithin, r

(* The views of two sequences are those of both.                           *)
LEMMA AppendsWithin ==
  ASSUME NEW seq \in Seq(View), NEW views \in Seq(View), NEW W,
         Within(seq, W), Within(views, W)
  PROVE  Within(AppendViews(seq, views), W)
<1> DEFINE r == AppendViews(seq, views)
<1>1. /\ r \in Seq(View) /\ Len(r) >= Len(seq) /\ \A k \in 1..Len(seq) : r[k] = seq[k]
      /\ \A k \in 1..Len(r) : k > Len(seq) => \E j \in 1..Len(views) : r[k] = views[j]
  BY AppendAdds
<1> HIDE DEF r
<1>2. \A k \in 1..Len(r) : k > Len(seq) \/ k \in 1..Len(seq)
  BY <1>1
<1>3. /\ DOMAIN r = 1..Len(r) /\ DOMAIN seq = 1..Len(seq) /\ DOMAIN views = 1..Len(views)
  BY <1>1
<1> QED
  BY <1>1, <1>2, <1>3 DEF Within, r

(* What a worker proposes after it has merged a proposal holds all of it,  *)
(* or is above all of it.                                                  *)
LEMMA MergeStep ==
  ASSUME NEW w, Proposes(w), NEW s \in Process, NEW m \in ProposalMsg
  PROVE  LET r == Merged(w, s, m) IN
         /\ Proposes(r)
         /\ r.running = w.running
         /\ Below(m.ProposedSeq, GetMostUpdatedView(r.lastProposedSeq))
         /\ NewViews(w, m) = {} => r = w
         /\ NewViews(w, m) # {} /\ ~HasConflict(w, m) =>
              LET seq == AppendViews(w.lastProposedSeq, m.ProposedSeq) IN
              /\ r = ProposeSeq(w, s, seq)
              /\ Proposal(seq, w.lastConvergedSeq)
              /\ Contains(seq, w.lastProposedSeq) /\ Contains(seq, m.ProposedSeq)
         /\ \A W : ClosedUnderUnion(W) /\ WorkerWithin(w, W) /\ MessageWithin(m, W)
                     => WorkerWithin(r, W)
<1> DEFINE p == w.lastProposedSeq
           c == w.lastConvergedSeq
           q == m.ProposedSeq
           e == m.LastConvergedSeq
           r == Merged(w, s, m)
<1>1. /\ IsWorker(w) /\ w.out \in Seq(Message)
      /\ p \in Chains /\ c \in Chains \cup {<<>>} /\ Below(c, GetMostUpdatedView(p))
      /\ q \in Chains /\ e \in Chains \cup {<<>>} /\ Below(e, GetMostUpdatedView(q))
  BY DEF Proposes, Proposal, ProposalMsg
<1>2. p \in Seq(View) /\ q \in Seq(View)
  BY <1>1 DEF Chains
<1>3. /\ \A j \in DOMAIN q : q[j] \in NewViews(w, m) <=> ~HasView(p, q[j])
      /\ \A v \in NewViews(w, m) : \E j \in DOMAIN q : v = q[j]
  BY DEF NewViews, SeqOps!ToSet
<1>4. CASE NewViews(w, m) = {}
  <2>1. r = w
    BY <1>4 DEF Merged
  <2>2. Contains(p, q)
    <3> SUFFICES ASSUME NEW j \in DOMAIN q PROVE \E k \in DOMAIN p : p[k] = q[j]
      BY DEF Contains
    <3>1. HasView(p, q[j]) /\ q[j] \in View
      BY <1>2, <1>3, <1>4
    <3> QED
      BY <1>2, <3>1, HasViewIsIn
  <2>3. Below(q, GetMostUpdatedView(p))
    BY <1>1, <2>2, ChainIsBelowMost
  <2> QED
    BY <1>4, <2>1, <2>3
<1>5. CASE NewViews(w, m) # {} /\ HasConflict(w, m)
  <2> DEFINE b == GoBack(w, m)
             d == b.lastConvergedSeq
             u == Union(w, m)
             seq == AppendViews(d, <<u>>)
  <2>1. /\ GetMostUpdatedView(p) \in View /\ Below(p, GetMostUpdatedView(p))
        /\ GetMostUpdatedView(q) \in View /\ Below(q, GetMostUpdatedView(q))
    BY <1>1, ChainIsBelowMost DEF Contains
  <2>2. u \in View /\ Below(c, u) /\ Below(e, u) /\ Below(q, u)
    BY <1>1, <2>1 DEF Union, NewWithUpdates, View, Below
  <2>3. /\ IsWorker(b) /\ b.running = w.running /\ b.out = w.out
        /\ d \in {c, e}
    BY <1>1 DEF GoBack, IsWorker
  <2>4. r = ProposeSeq(b, s, seq)
    BY <1>5 DEF Merged
  <2> HIDE DEF b, d, u, r
  <2>5. <<u>> \in Chains /\ DOMAIN <<u>> = {1} /\ <<u>>[1] = u
    BY <2>2, OneViewIsChain
  <2>6. d \in Chains \cup {<<>>} /\ Below(d, u)
    BY <1>1, <2>2, <2>3
  <2>7. \A i \in DOMAIN d, j \in DOMAIN <<u>> :
          ~HasView(d, <<u>>[j]) => d[i] \subseteq <<u>>[j] \/ <<u>>[j] \subseteq d[i]
    BY <2>5, <2>6 DEF Below
  <2>8. seq \in Chains /\ Contains(seq, d) /\ Contains(seq, <<u>>)
    BY <2>5, <2>6, <2>7, AppendChains
  <2> HIDE DEF seq
  <2>9. Below(d, GetMostUpdatedView(seq)) /\ Below(<<u>>, GetMostUpdatedView(seq))
    BY <2>8, ChainIsBelowMost
  <2>10. Proposal(seq, b.lastConvergedSeq)
    BY <2>6, <2>8, <2>9 DEF Proposal, d
  <2>11. Proposes(r) /\ r.running = w.running /\ r.lastProposedSeq = seq
    BY <1>1, <2>3, <2>4, <2>10, ProposeStep
  <2>12. Below(q, GetMostUpdatedView(seq))
    BY <2>2, <2>5, <2>9 DEF Below
  <2>13. ASSUME NEW W, ClosedUnderUnion(W), WorkerWithin(w, W), MessageWithin(m, W)
         PROVE  WorkerWithin(r, W)
    <3>1. Within(p, W) /\ Within(c, W) /\ Within(q, W) /\ Within(e, W)
      BY <2>13 DEF WorkerWithin, MessageWithin, ProposalMsg
    <3>2. GetMostUpdatedView(p) \in W /\ GetMostUpdatedView(q) \in W
      BY <1>1, <1>2, <3>1, MostIsMost DEF Chains, Within
    <3>3. u \in W
      BY <2>13, <3>2 DEF ClosedUnderUnion, u, Union, NewWithUpdates
    <3>4. Within(d, W) /\ Within(<<u>>, W)
      BY <2>3, <2>5, <3>1, <3>3 DEF Within
    <3>5. d \in Seq(View) /\ <<u>> \in Seq(View)
      BY <2>2, <2>6, ChainsAreSequences
    <3>6. Within(seq, W)
      BY <3>4, <3>5, AppendsWithin DEF seq
    <3>7. WorkerWithin(b, W)
      <4>1. b.lastProposedSeq = p
        BY <1>1 DEF b, GoBack, IsWorker
      <4> QED
        BY <2>3, <2>13, <3>1, <3>4, <4>1 DEF WorkerWithin, d
    <3> QED
      BY <1>1, <2>3, <2>4, <2>10, <3>6, <3>7, ProposeWithin
  <2> QED
    BY <1>5, <2>11, <2>12, <2>13 DEF r
<1>6. CASE NewViews(w, m) # {} /\ ~HasConflict(w, m)
  <2> DEFINE seq == AppendViews(p, q)
  <2>1. r = ProposeSeq(w, s, seq)
    BY <1>6 DEF Merged
  <2> HIDE DEF r
  <2>2. ASSUME NEW i \in DOMAIN p, NEW j \in DOMAIN q, ~HasView(p, q[j])
        PROVE  p[i] \subseteq q[j] \/ q[j] \subseteq p[i]
    <3>1. q[j] \in NewViews(w, m) /\ p[i] \in SeqOps!ToSet(w.lastProposedSeq)
      BY <1>3, <2>2 DEF SeqOps!ToSet
    <3>2. ~Conflict(q[j], p[i])
      BY <1>6, <3>1 DEF HasConflict
    <3>3. p[i] \in View /\ q[j] \in View
      BY <1>2
    <3> QED
      BY <3>2, <3>3, LessUpdatedIsNotSuperset DEF Conflict
  <2>3. seq \in Chains /\ Contains(seq, p) /\ Contains(seq, q)
    BY <1>1, <2>2, AppendChains
  <2> HIDE DEF seq
  <2>4. Below(p, GetMostUpdatedView(seq)) /\ Below(q, GetMostUpdatedView(seq))
    BY <2>3, ChainIsBelowMost
  <2>5. Below(c, GetMostUpdatedView(seq))
    <3>1. p \in Seq(View) /\ p # <<>>
      BY <1>1 DEF Chains
    <3>2. PICK i \in DOMAIN p : GetMostUpdatedView(p) = p[i]
      BY <3>1, MostIsMost
    <3> QED
      BY <1>1, <2>4, <3>2 DEF Below
  <2>6. Proposal(seq, w.lastConvergedSeq)
    BY <1>1, <2>3, <2>5 DEF Proposal
  <2>7. Proposes(r) /\ r.running = w.running /\ r.lastProposedSeq = seq
    BY <1>1, <2>1, <2>6, ProposeStep
  <2>8. ASSUME NEW W, ClosedUnderUnion(W), WorkerWithin(w, W), MessageWithin(m, W)
        PROVE  WorkerWithin(r, W)
    <3>1. Within(p, W) /\ Within(q, W)
      BY <2>8 DEF WorkerWithin, MessageWithin, ProposalMsg
    <3>2. Within(seq, W)
      BY <1>2, <3>1, AppendsWithin DEF seq
    <3> QED
      BY <1>1, <2>1, <2>6, <2>8, <3>2, ProposeWithin
  <2> QED
    BY <1>6, <2>1, <2>3, <2>4, <2>6, <2>7, <2>8 DEF r, seq
<1> QED
  BY <1>4, <1>5, <1>6

(* The worker of a generator that was just created.                        *)
LEMMA NewWorkerRuns ==
  LET w == [NewWorker EXCEPT !.running = TRUE] IN
  /\ IsWorker(w) /\ w.running /\ w.lastProposedSeq = <<>>
  /\ w.lastConvergedSeq = <<>> /\ w.viewSeqs = <<>> /\ w.seqConvs = <<>> /\ w.out = <<>>
<1> DEFINE w == [NewWorker EXCEPT !.running = TRUE]
<1>1. PICK f, t, e : /\ f = FALSE /\ t = TRUE /\ e = <<>>
                     /\ NewWorker = [running |-> f, lastProposedSeq |-> e,
                                     lastConvergedSeq |-> e, viewSeqs |-> e,
                                     seqConvs |-> e, out |-> e]
  BY DEF NewWorker
<1>2. w = [NewWorker EXCEPT !.running = t]
  BY <1>1
<1> HIDE DEF w, NewWorker
<1>3. w = [running |-> t, lastProposedSeq |-> e, lastConvergedSeq |-> e,
           viewSeqs |-> e, seqConvs |-> e, out |-> e]
  BY <1>1, <1>2
<1> QED
  BY <1>1, <1>3 DEF IsWorker, w

(***************************************************************************)
(* The inductive invariant: whoever is running proposes a chain above what *)
(* it has announced, and so does every message.                            *)
(***************************************************************************)
Rests(w) == IsWorker(w) /\ w.out = <<>> /\ (w.running => Proposes(w))

ProposalInv ==
  /\ out \in [Process -> Seq(Message)]
  /\ worker = [s \in Process |-> worker[s]]
  /\ \A s \in Process : Rests(worker[s])

(* What a worker broadcasts are messages, and it goes on with nothing to   *)
(* send.                                                                   *)
LEMMA GoesStep ==
  ASSUME ProposalInv, NEW s \in Process, NEW w, Proposes(w), Goes(s, w)
  PROVE  ProposalInv'
<1> DEFINE x == [w EXCEPT !.out = <<>>]
<1>1. IsWorker(w) /\ w.out \in Seq(Message) /\ Proposal(w.lastProposedSeq, w.lastConvergedSeq)
  BY DEF Proposes
<1>2. x = [running |-> w.running, lastProposedSeq |-> w.lastProposedSeq,
           lastConvergedSeq |-> w.lastConvergedSeq, viewSeqs |-> w.viewSeqs,
           seqConvs |-> w.seqConvs, out |-> <<>>]
  BY <1>1 DEF IsWorker
<1>3. worker' = [worker EXCEPT ![s] = x] /\ out' = [out EXCEPT ![s] = @ \o w.out]
  BY DEF Goes
<1> HIDE DEF x
<1>4. Rests(x)
  <2>1. <<>> \in Seq(Message)
    OBVIOUS
  <2>2. IsWorker(x) /\ x.out = <<>> /\ Proposes(x)
    BY <1>1, <1>2, <2>1 DEF IsWorker, Proposes
  <2> QED
    BY <2>2 DEF Rests
<1>5. out' \in [Process -> Seq(Message)]
  <2>1. out[s] \o w.out \in Seq(Message)
    BY <1>1 DEF ProposalInv
  <2> QED
    BY <1>3, <2>1 DEF ProposalInv
<1>6. /\ worker' = [p \in Process |-> worker'[p]]
      /\ \A p \in Process : worker'[p] = IF p = s THEN x ELSE worker[p]
  BY <1>3 DEF ProposalInv
<1>7. \A p \in Process : Rests(worker'[p])
  BY <1>4, <1>6 DEF ProposalInv
<1> QED
  BY <1>5, <1>6, <1>7 DEF ProposalInv

(* ProposalInv holds at the beginning.                                     *)
LEMMA ProposalInit ==
  ASSUME Init PROVE ProposalInv
<1>1. worker = [s \in Process |-> NewWorker] /\ out = [s \in Process |-> <<>>]
  BY DEF Init
<1>2. Rests(NewWorker)
  BY DEF Rests, IsWorker, NewWorker
<1>3. <<>> \in Seq(Message)
  OBVIOUS
<1> HIDE DEF NewWorker
<1> QED
  BY <1>1, <1>2, <1>3 DEF ProposalInv

(* Every step preserves ProposalInv.                                       *)
LEMMA ProposalNext ==
  ASSUME ProposalInv, StartInv, [Next]_vars
  PROVE  ProposalInv'
<1>1. Server \subseteq Process
  BY DEF Server, Members
<1>2. ASSUME NEW s \in Process, getOrCreateViewGenerator(s) PROVE ProposalInv'
  <2> DEFINE w == [NewWorker EXCEPT !.running = TRUE]
  <2>1. PICK v \in CopiesWithUpdates(currentView[s], recv[s]) :
          Goes(s, ProposeSeq(w, s, <<v.Entries>>))
    BY <1>2 DEF getOrCreateViewGenerator
  <2>2. v.Entries \in View
    BY CopiesAreCoherent DEF StartInv, CachedView
  <2>3. PICK f, t, e : /\ f = FALSE /\ t = TRUE /\ e = <<>>
                       /\ NewWorker = [running |-> f, lastProposedSeq |-> e,
                                       lastConvergedSeq |-> e, viewSeqs |-> e,
                                       seqConvs |-> e, out |-> e]
    BY DEF NewWorker
  <2>4. IsWorker(w) /\ w.out = <<>> /\ w.lastConvergedSeq = <<>>
    <3>1. w = [NewWorker EXCEPT !.running = t]
      BY <2>3
    <3> HIDE DEF w, NewWorker
    <3>2. w = [running |-> t, lastProposedSeq |-> e, lastConvergedSeq |-> e,
               viewSeqs |-> e, seqConvs |-> e, out |-> e]
      BY <2>3, <3>1
    <3> QED
      BY <2>3, <3>2 DEF IsWorker
  <2> HIDE DEF w
  <2>5. PICK y : y = v.Entries
    OBVIOUS
  <2>6. <<y>> \in Chains
    BY <2>2, <2>5, OneViewIsChain
  <2>7. Proposal(<<y>>, w.lastConvergedSeq)
    <3>1. DOMAIN w.lastConvergedSeq = {}
      BY <2>4
    <3> QED
      BY <2>4, <2>6, <3>1 DEF Proposal, Below
  <2>8. w.out \in Seq(Message)
    BY <2>4
  <2>9. Proposes(ProposeSeq(w, s, <<y>>))
    BY <2>4, <2>7, <2>8, ProposeStep
  <2> QED
    BY <2>1, <2>5, <2>9, GoesStep
<1>3. ASSUME NEW d \in Process, NEW s \in Process, NEW i \in Pending(d, s),
             ProposeSeqView(d, s, i)
      PROVE  ProposalInv'
  <2> DEFINE w == worker[d]
             m == out[s][i]
             r == Merged(w, d, m)
             c == countViewSeq(r, m)
  <2>1. w.running /\ m.type = "ViewSeq" /\ Goes(d, c)
    BY <1>3 DEF ProposeSeqView
  <2>2. Proposes(w)
    BY <2>1 DEF ProposalInv, Rests
  <2>3. m \in ProposalMsg
    <3>1. i \in DOMAIN out[s] /\ out[s] \in Seq(Message)
      BY DEF Pending, ProposalInv
    <3>2. m \in Message
      BY <3>1
    <3> QED
      BY <2>1, <3>2 DEF Message
  <2> HIDE DEF w, m
  <2>4. /\ Proposes(r) /\ Below(m.ProposedSeq, GetMostUpdatedView(r.lastProposedSeq))
    BY <2>2, <2>3, MergeStep
  <2> HIDE DEF r
  <2>5. /\ IsWorker(c) /\ c.lastProposedSeq = r.lastProposedSeq
        /\ c.lastConvergedSeq \in {r.lastConvergedSeq, m.ProposedSeq}
        /\ c.out \in Seq(Message)
    BY <2>3, <2>4, CountStep DEF Proposes
  <2> HIDE DEF c
  <2>6. m.ProposedSeq \in Chains
    BY <2>3 DEF ProposalMsg, Proposal
  <2>7. Proposal(c.lastProposedSeq, c.lastConvergedSeq)
    BY <2>4, <2>5, <2>6 DEF Proposes, Proposal
  <2> QED
    BY <2>1, <2>5, <2>7, GoesStep DEF Proposes
<1>4. ASSUME NEW d \in Process, NEW s, NEW i, ReceiveSeqConv(d, s, i) PROVE ProposalInv'
  <2> DEFINE w == worker[d]
             c == Count(w.seqConvs, out[s][i])
             x == [w EXCEPT !.seqConvs = c]
  <2>1. worker' = [worker EXCEPT ![d] = x] /\ UNCHANGED out
    BY <1>4 DEF ReceiveSeqConv
  <2>2. IsWorker(w) /\ w.out = <<>> /\ (w.running => Proposes(w))
    BY DEF ProposalInv, Rests
  <2> HIDE DEF w, c
  <2>3. x = [running |-> w.running, lastProposedSeq |-> w.lastProposedSeq,
             lastConvergedSeq |-> w.lastConvergedSeq, viewSeqs |-> w.viewSeqs,
             seqConvs |-> c, out |-> w.out]
    BY <2>2 DEF IsWorker
  <2> HIDE DEF x
  <2>4. Rests(x)
    BY <2>2, <2>3 DEF Rests, IsWorker, Proposes
  <2>5. /\ worker' = [p \in Process |-> worker'[p]]
        /\ \A p \in Process : worker'[p] = IF p = d THEN x ELSE worker[p]
    BY <2>1 DEF ProposalInv
  <2>6. \A p \in Process : Rests(worker'[p])
    BY <2>4, <2>5 DEF ProposalInv
  <2> QED
    BY <2>1, <2>5, <2>6 DEF ProposalInv
<1>5. ASSUME UNCHANGED vars PROVE ProposalInv'
  BY <1>5 DEF vars, ProposalInv
<1> QED
  BY <1>1, <1>2, <1>3, <1>4, <1>5
     DEF Next, Receive, generateViewSequenceWithoutConsensus, createForMessage

(* ProposalInv is an invariant.                                            *)
LEMMA ProposalInvariance == Spec => []ProposalInv
<1>1. Init => ProposalInv
  BY ProposalInit
<1>2. ProposalInv /\ StartInv /\ [Next]_vars => ProposalInv'
  BY ProposalNext
<1> QED
  BY <1>1, <1>2, StartInvariance, PTL DEF Spec

(* Whatever was proposed is a chain, for any number of servers, any        *)
(* updates, and in whatever order proposals meet: a worker that goes back  *)
(* after a conflict puts the union on top of a sequence that is below it,  *)
(* because what was announced is always below what its announcer proposes. *)
THEOREM ProposalsStayChains == Spec => []ProposalsAreChains
<1>1. ASSUME ProposalInv PROVE ProposalsAreChains
  <2> SUFFICES ASSUME NEW s \in Server, NEW seq \in Proposals(s)
               PROVE  /\ \A i \in DOMAIN seq : /\ GetLeastUpdatedView(seq) \subseteq seq[i]
                                               /\ seq[i] \subseteq GetMostUpdatedView(seq)
                      /\ \A i, j \in DOMAIN seq :
                           /\ seq[i] \subseteq seq[j] \/ seq[j] \subseteq seq[i]
                           /\ Equal(seq[i], seq[j]) => i = j
    BY DEF ProposalsAreChains
  <2>1. PICK i \in DOMAIN out[s] : out[s][i].type = "ViewSeq" /\ seq = out[s][i].ProposedSeq
    BY DEF Proposals, SeqOps!ToSet
  <2>2. out[s] \in Seq(Message)
    BY <1>1 DEF ProposalInv, Server, Members
  <2>3. out[s][i] \in ProposalMsg
    <3>1. out[s][i] \in Message
      BY <2>1, <2>2
    <3> QED
      BY <2>1, <3>1 DEF Message
  <2>4. seq \in Seq(View) /\ seq # <<>> /\ IsChain(seq)
    BY <2>1, <2>3 DEF ProposalMsg, Proposal, Chains
  <2>5. \A k \in DOMAIN seq : /\ GetLeastUpdatedView(seq) \subseteq seq[k]
                             /\ seq[k] \subseteq GetMostUpdatedView(seq)
    BY <2>4, LeastIsLeast, MostIsMost
  <2>6. \A k, l \in DOMAIN seq : Equal(seq[k], seq[l]) <=> seq[k] = seq[l]
    BY <2>4, EqualIsEqual
  <2> QED
    BY <2>4, <2>5, <2>6 DEF IsChain
<1>2. ProposalInv => ProposalsAreChains
  BY <1>1
<1> QED
  BY <1>2, ProposalInvariance, PTL

-----------------------------------------------------------------------------
(***************************************************************************)
(* Accepted updates                                                        *)
(***************************************************************************)
(* All views that workers, messages and generated sequences speak of are   *)
(* in W.                                                                   *)
WithinInv(W) ==
  /\ \A s \in Server : worker[s].running => WorkerWithin(worker[s], W)
  /\ \A s \in Server : \A i \in DOMAIN out[s] : MessageWithin(out[s][i], W)
  /\ generated = [s \in Process |-> generated[s]]
  /\ \A s \in Server : \A seq \in generated[s] : seq # <<>> /\ Within(seq, W)

(* The view that server s makes of its current view and of recv.           *)
Initial(s) == currentView[s] \cup recv[s]

(* Messages that follow others.                                            *)
LEMMA ConcatWithin ==
  ASSUME NEW o \in Seq(Message), NEW q \in Seq(Message), NEW W,
         \A i \in DOMAIN o : MessageWithin(o[i], W), \A i \in DOMAIN q : MessageWithin(q[i], W)
  PROVE  \A i \in DOMAIN (o \o q) : MessageWithin((o \o q)[i], W)
<1> DEFINE m == Len(o)
           n == Len(q)
           r == o \o q
<1>1. /\ m \in Nat /\ n \in Nat /\ DOMAIN r = 1..(m + n)
      /\ DOMAIN o = 1..m /\ DOMAIN q = 1..n
      /\ \A j \in 1..(m + n) : r[j] = IF j <= m THEN o[j] ELSE q[j - m]
  OBVIOUS
<1> HIDE DEF m, n, r
<1>2. \A j \in 1..(m + n) : \/ j \in 1..m /\ r[j] = o[j]
                            \/ j - m \in 1..n /\ r[j] = q[j - m]
  BY <1>1
<1> QED
  BY <1>1, <1>2 DEF r

(* The views of a server and of its messages after a step of its worker.   *)
LEMMA GoesWithin ==
  ASSUME NEW W, ProposalInv, WithinInv(W), UNCHANGED <<AssociatedView, generated>>,
         NEW d \in Server, NEW w, Proposes(w), WorkerWithin(w, W), Goes(d, w)
  PROVE  WithinInv(W)'
<1> DEFINE x == [w EXCEPT !.out = <<>>]
<1>1. IsWorker(w) /\ w.out \in Seq(Message)
  BY DEF Proposes
<1>2. x = [running |-> w.running, lastProposedSeq |-> w.lastProposedSeq,
           lastConvergedSeq |-> w.lastConvergedSeq, viewSeqs |-> w.viewSeqs,
           seqConvs |-> w.seqConvs, out |-> <<>>]
  BY <1>1 DEF IsWorker
<1>3. worker' = [worker EXCEPT ![d] = x] /\ out' = [out EXCEPT ![d] = @ \o w.out]
  BY DEF Goes
<1> HIDE DEF x
<1>4. Server' = Server /\ Server \subseteq Process
  BY DEF Server, Members
<1>6. WorkerWithin(x, W)
  <2>1. DOMAIN x.out = {}
    BY <1>2
  <2> QED
    BY <1>2, <2>1 DEF WorkerWithin
<1>7. \A p \in Server : worker'[p] = IF p = d THEN x ELSE worker[p]
  BY <1>3, <1>4 DEF ProposalInv
<1>8. ASSUME NEW p \in Server, NEW i \in DOMAIN out'[p] PROVE MessageWithin(out'[p][i], W)
  <2>1. CASE p # d
    <3>1. out'[p] = out[p]
      BY <1>3, <1>4, <2>1 DEF ProposalInv
    <3> QED
      BY <1>8, <3>1 DEF WithinInv
  <2>2. CASE p = d
    <3>1. out[d] \in Seq(Message) /\ out'[d] = out[d] \o w.out
      BY <1>3, <1>4 DEF ProposalInv
    <3>2. \A j \in DOMAIN (out[d] \o w.out) : MessageWithin((out[d] \o w.out)[j], W)
      BY <1>1, <3>1, ConcatWithin DEF WithinInv, WorkerWithin
    <3> QED
      BY <1>8, <2>2, <3>1, <3>2
  <2> QED
    BY <2>1, <2>2
<1>9. \A p \in Server : worker'[p].running => WorkerWithin(worker'[p], W)
  BY <1>6, <1>7 DEF WithinInv
<1> QED
  BY <1>4, <1>8, <1>9 DEF WithinInv

(* Every step preserves WithinInv, if the first views of all servers are   *)
(* in W.                                                                   *)
LEMMA WithinNext ==
  ASSUME NEW W, WithinInv(W), ClosedUnderUnion(W), \A s \in Server : Initial(s) \in W,
         ProposalInv, StartInv, [Next]_vars
  PROVE  WithinInv(W)'
<1>1. Server \subseteq Process
  BY DEF Server, Members
<1>2. UNCHANGED <<AssociatedView, currentView, recv>>
  BY DEF vars, Next, Receive, generateViewSequenceWithoutConsensus, createForMessage,
         getOrCreateViewGenerator, ProposeSeqView, ReceiveSeqConv
<1>3. Server' = Server
  BY <1>2 DEF Server
<1>5. ASSUME NEW s \in Server, getOrCreateViewGenerator(s) PROVE WithinInv(W)'
  <2> DEFINE w == [NewWorker EXCEPT !.running = TRUE]
  <2>1. PICK c \in CopiesWithUpdates(currentView[s], recv[s]) :
          Goes(s, ProposeSeq(w, s, <<c.Entries>>))
    BY <1>5 DEF getOrCreateViewGenerator
  <2>2. currentView[s] \in View /\ recv[s] \in SUBSET Update
    BY <1>1 DEF StartInv
  <2>3. c.Entries \in View /\ c.Entries = currentView[s] \cup recv[s]
    BY <2>2, CopiesAreCoherent DEF CachedView
  <2>4. c.Entries \in W
    BY <2>3 DEF Initial
  <2>5. PICK y, seq : y = c.Entries /\ seq = <<y>>
    OBVIOUS
  <2>6. seq \in Chains /\ DOMAIN seq = {1} /\ seq[1] = y
    BY <2>3, <2>5, OneViewIsChain
  <2>7. IsWorker(w) /\ w.out = <<>> /\ w.lastConvergedSeq = <<>>
    BY NewWorkerRuns
  <2>8. w.lastProposedSeq = <<>>
    BY NewWorkerRuns
  <2> HIDE DEF w
  <2>9. DOMAIN w.lastConvergedSeq = {} /\ DOMAIN w.lastProposedSeq = {} /\ DOMAIN w.out = {}
    BY <2>7, <2>8
  <2>10. Proposal(seq, w.lastConvergedSeq) /\ w.out \in Seq(Message)
    BY <2>6, <2>7, <2>9 DEF Proposal, Below
  <2>11. WorkerWithin(w, W) /\ Within(seq, W)
    BY <2>4, <2>5, <2>6, <2>9 DEF WorkerWithin, Within
  <2>12. Proposes(ProposeSeq(w, s, seq))
    BY <1>1, <2>7, <2>10, ProposeStep
  <2>13. WorkerWithin(ProposeSeq(w, s, seq), W)
    BY <1>1, <2>7, <2>10, <2>11, ProposeWithin
  <2>14. Goes(s, ProposeSeq(w, s, seq)) /\ UNCHANGED generated
    BY <1>5, <2>1, <2>5 DEF getOrCreateViewGenerator
  <2> QED
    BY <1>2, <2>12, <2>13, <2>14, GoesWithin
<1>6. ASSUME NEW d \in Server, NEW s \in Server, NEW i \in Pending(d, s),
             ProposeSeqView(d, s, i)
      PROVE  WithinInv(W)'
  <2> DEFINE w == worker[d]
             m == out[s][i]
             r == Merged(w, d, m)
             c == countViewSeq(r, m)
  <2>1. w.running /\ m.type = "ViewSeq" /\ Goes(d, c) /\ UNCHANGED generated
    BY <1>6 DEF ProposeSeqView
  <2>2. Proposes(w) /\ WorkerWithin(w, W)
    BY <1>1, <2>1 DEF ProposalInv, Rests, WithinInv
  <2>3. m \in ProposalMsg /\ MessageWithin(m, W)
    <3>1. i \in DOMAIN out[s] /\ out[s] \in Seq(Message)
      BY <1>1 DEF Pending, ProposalInv
    <3>2. m \in Message
      BY <3>1
    <3> QED
      BY <2>1, <3>1, <3>2 DEF Message, WithinInv
  <2> HIDE DEF w, m
  <2>4. /\ Proposes(r) /\ Below(m.ProposedSeq, GetMostUpdatedView(r.lastProposedSeq))
        /\ WorkerWithin(r, W)
    BY <1>1, <2>2, <2>3, MergeStep
  <2> HIDE DEF r
  <2>5. /\ IsWorker(c) /\ c.lastProposedSeq = r.lastProposedSeq
        /\ c.lastConvergedSeq \in {r.lastConvergedSeq, m.ProposedSeq}
        /\ c.out \in Seq(Message)
    BY <2>3, <2>4, CountStep DEF Proposes
  <2>6. WorkerWithin(c, W)
    BY <2>3, <2>4, CountWithin DEF Proposes
  <2> HIDE DEF c
  <2>7. m.ProposedSeq \in Chains
    BY <2>3 DEF ProposalMsg, Proposal
  <2>8. Proposes(c)
    BY <2>4, <2>5, <2>7 DEF Proposes, Proposal
  <2> QED
    BY <1>2, <2>1, <2>6, <2>8, GoesWithin
<1>7. ASSUME NEW d \in Server, NEW s \in Server, NEW i \in Pending(d, s),
             ReceiveSeqConv(d, s, i)
      PROVE  WithinInv(W)'
  <2> DEFINE w == worker[d]
             m == out[s][i]
             c == Count(w.seqConvs, m)
             x == [w EXCEPT !.seqConvs = c]
  <2>1. /\ worker' = [worker EXCEPT ![d] = x] /\ UNCHANGED out /\ m.type = "SeqConv"
        /\ \/ UNCHANGED generated
           \/ generated' = [generated EXCEPT ![d] = @ \cup {m.Seq}]
    BY <1>7 DEF ReceiveSeqConv
  <2>2. m.Seq # <<>> /\ Within(m.Seq, W)
    <3>1. i \in DOMAIN out[s]
      BY DEF Pending
    <3> QED
      BY <2>1, <3>1 DEF WithinInv, MessageWithin
  <2>3. IsWorker(w) /\ w.out = <<>>
    BY <1>1 DEF ProposalInv, Rests
  <2> HIDE DEF w, c, m
  <2>4. x = [running |-> w.running, lastProposedSeq |-> w.lastProposedSeq,
             lastConvergedSeq |-> w.lastConvergedSeq, viewSeqs |-> w.viewSeqs,
             seqConvs |-> c, out |-> w.out]
    BY <2>3 DEF IsWorker
  <2> HIDE DEF x
  <2>5. \A p \in Server : worker'[p] = IF p = d THEN x ELSE worker[p]
    BY <1>1, <2>1 DEF ProposalInv
  <2>6. x.running => WorkerWithin(x, W)
    BY <2>4 DEF WithinInv, WorkerWithin, w
  <2>7. \A p \in Server : worker'[p].running => WorkerWithin(worker'[p], W)
    BY <2>5, <2>6 DEF WithinInv
  <2>8. /\ generated' = [p \in Process |-> generated'[p]]
        /\ \A p \in Server : generated'[p] \subseteq generated[p] \cup {m.Seq}
    BY <1>1, <2>1 DEF WithinInv
  <2>9. \A p \in Server : \A seq \in generated'[p] : seq # <<>> /\ Within(seq, W)
    BY <2>2, <2>8 DEF WithinInv
  <2> QED
    BY <1>3, <2>1, <2>7, <2>8, <2>9 DEF WithinInv
<1>8. ASSUME UNCHANGED vars PROVE WithinInv(W)'
  BY <1>3, <1>8 DEF vars, WithinInv
<1> QED
  BY <1>5, <1>6, <1>7, <1>8
     DEF Next, Receive, generateViewSequenceWithoutConsensus, createForMessage

(* WithinInv holds at the beginning, whatever W is.                        *)
LEMMA WithinInit ==
  ASSUME Init, NEW W PROVE WithinInv(W)
<1>1. /\ worker = [s \in Process |-> NewWorker] /\ out = [s \in Process |-> <<>>]
      /\ generated = [s \in Process |-> {}]
  BY DEF Init
<1>2. ~NewWorker.running
  BY DEF NewWorker
<1>3. Server \subseteq Process
  BY DEF Server, Members
<1>4. DOMAIN <<>> = {}
  OBVIOUS
<1> HIDE DEF NewWorker
<1> QED
  BY <1>1, <1>2, <1>3, <1>4 DEF WithinInv

(* The servers, their views and what they accepted stay the same.          *)
LEMMA StartStays ==
  ASSUME [Next]_vars
  PROVE  UNCHANGED <<AssociatedView, currentView, recv>> /\ Server' = Server
<1>1. UNCHANGED <<AssociatedView, currentView, recv>>
  BY DEF vars, Next, Receive, generateViewSequenceWithoutConsensus, createForMessage,
         getOrCreateViewGenerator, ProposeSeqView, ReceiveSeqConv
<1> QED
  BY <1>1 DEF Server

(* The views that follow the current view of some server with updates that *)
(* some server accepted.                                                   *)
Justified ==
  {v \in View :
     /\ \E s \in Server : currentView[s] \subseteq v
     /\ v \subseteq (UNION {recv[s] : s \in Server}) \cup (UNION {currentView[s] : s \in Server})}

AcceptedInv == WithinInv(Justified)

(* AcceptedInv is an invariant.                                            *)
LEMMA AcceptedInvariance == Spec => []AcceptedInv
<1>1. Init => AcceptedInv
  BY WithinInit DEF AcceptedInv, WithinInv
<1>2. ASSUME AcceptedInv, ProposalInv, StartInv, [Next]_vars PROVE AcceptedInv'
  <2>1. Justified' = Justified
    BY <1>2, StartStays DEF Justified
  <2>2. PICK W : W = Justified /\ W = Justified'
    BY <2>1
  <2>3. ClosedUnderUnion(W)
    BY <2>2 DEF ClosedUnderUnion, Justified, View
  <2>4. \A s \in Server : Initial(s) \in W
    BY <1>2, <2>2 DEF Initial, Justified, StartInv, Server, Members, View
  <2>5. WithinInv(W)
    BY <1>2, <2>2 DEF AcceptedInv
  <2>6. WithinInv(W)'
    BY <1>2, <2>3, <2>4, <2>5, WithinNext
  <2> QED
    BY <2>2, <2>6 DEF AcceptedInv, WithinInv
<1>3. AcceptedInv /\ ProposalInv /\ StartInv /\ [Next]_vars => AcceptedInv'
  BY <1>2
<1> QED
  BY <1>1, <1>3, StartInvariance, ProposalInvariance, PTL DEF Spec

(* All that was generated is valid.                                        *)
LEMMA AcceptedIsValid ==
  ASSUME AcceptedInv PROVE \A seq \in Generated : N!Valid(seq)
<1> SUFFICES ASSUME NEW seq \in Generated PROVE N!Valid(seq)
  OBVIOUS
<1>1. seq # <<>> /\ Within(seq, Justified)
  BY DEF Generated, AcceptedInv, WithinInv
<1>2. \A v \in N!SeqOps!ToSet(seq) : v \in Justified
  BY <1>1 DEF N!SeqOps!ToSet, Within
<1> QED
  BY <1>1, <1>2 DEF N!Valid, Justified

(* Half of what NestedSequences promises holds for all servers, whatever   *)
(* they accepted and however they disagree: no view that may be installed  *)
(* holds an update that nobody accepted, or lacks all of an old view.      *)
THEOREM GeneratedIsValid == Spec => [](\A seq \in Generated : N!Valid(seq))
<1>1. AcceptedInv => \A seq \in Generated : N!Valid(seq)
  BY AcceptedIsValid
<1> QED
  BY <1>1, AcceptedInvariance, PTL

-----------------------------------------------------------------------------
(***************************************************************************)
(* Servers that make the same view                                         *)
(***************************************************************************)
SameStart(v) == \A s \in Server : currentView[s] \cup recv[s] = v

(* The proposal that they all make.                                        *)
First(s, v) == ViewSeqMsg(s, <<v>>, <<>>)

(* Whose proposal, and whose announcement, the worker of s has taken.      *)
Heard(s) == {p \in Server \ {s} : 1 \in taken[s][p]}
Told(s) == {p \in Server : 2 \in taken[s][p]}

(* Each of the two counters has one entry.  A server has announced the     *)
(* proposal when a quorum made it, and generated the sequence when a       *)
(* quorum announced it: h is Heard(s), t is Told(s), k the size of a       *)
(* quorum.                                                                 *)
Stood(k, s, v, w, o, g, h, t) ==
  /\ w.running
  /\ w.lastProposedSeq = <<v>>
  /\ w.viewSeqs = <<[msg |-> First(s, v), n |-> 1 + Cardinality(h)]>>
  /\ w.seqConvs = IF t = {} THEN <<>> ELSE <<[msg |-> SeqConv(<<v>>), n |-> Cardinality(t)]>>
  /\ o = IF 1 + Cardinality(h) >= k THEN <<First(s, v), SeqConv(<<v>>)>> ELSE <<First(s, v)>>
  /\ g = IF Cardinality(t) >= k THEN {<<v>>} ELSE {}

Stands(s, v) ==
  Stood(QuorumSize(AssociatedView), s, v, worker[s], out[s], generated[s], Heard(s), Told(s))

Idles(s) ==
  /\ ~worker[s].running
  /\ out[s] = <<>>
  /\ generated[s] = {}
  /\ \A p \in Server : taken[s][p] = {}

NetworkInv ==
  /\ taken = [d \in Process |-> taken[d]]
  /\ \A d \in Process : taken[d] = [s \in Process |-> taken[d][s]]
  /\ generated = [s \in Process |-> generated[s]]

AlikeInv ==
  /\ NetworkInv
  /\ \A v \in View : SameStart(v) => \A s \in Server : Idles(s) \/ Stands(s, v)

(* What it takes to be counted as the same message.                        *)
LEMMA SameFirst ==
  ASSUME NEW v \in View, NEW s, NEW p, s # p
  PROVE  Same(First(s, v), First(p, v))
<1>1. First(s, v).type = "ViewSeq" /\ First(s, v).Sender = s /\ First(p, v).Sender = p
  BY DEF First, ViewSeqMsg
<1>2. /\ First(s, v).ProposedSeq = <<v>> /\ First(p, v).ProposedSeq = <<v>>
      /\ First(s, v).LastConvergedSeq = <<>> /\ First(p, v).LastConvergedSeq = <<>>
  BY DEF First, ViewSeqMsg
<1>3. SeqEqual(<<v>>, <<v>>)
  <2>1. Equal(v, v)
    BY DEF Equal
  <2>2. HasView(<<v>>, v)
    BY <2>1 DEF HasView
  <2> QED
    BY <2>2 DEF SeqEqual
<1>4. SeqEqual(<<>>, <<>>)
  BY DEF SeqEqual
<1> QED
  BY <1>1, <1>2, <1>3, <1>4 DEF Same, SameButDifferentSender

(* The first message makes an entry.                                       *)
LEMMA CountFirst ==
  ASSUME NEW m
  PROVE  /\ Count(<<>>, m) = <<[msg |-> m, n |-> 1]>>
         /\ ReachesQuorum(<<>>, m) <=> QuorumSize(AssociatedView) = 1
<1>1. {i \in DOMAIN <<>> : Same(<<>>[i].msg, m)} \cup {Len(<<>>) + 1} = {1}
  OBVIOUS
<1>2. Entry(<<>>, m) = 1
  <2>1. SeqOps!Min({1}) = 1
    BY DEF SeqOps!Min
  <2> QED
    BY <1>1, <2>1 DEF Entry
<1>3. Count(<<>>, m) = <<[msg |-> m, n |-> 1]>>
  BY <1>2 DEF Count
<1> QED
  BY <1>2, <1>3 DEF ReachesQuorum

(* Another one that is the same is counted.                                *)
LEMMA CountAgain ==
  ASSUME NEW a, NEW m, NEW k \in Nat, Same(a, m)
  PROVE  LET c == <<[msg |-> a, n |-> k]>> IN
         /\ Count(c, m) = <<[msg |-> a, n |-> k + 1]>>
         /\ ReachesQuorum(c, m) <=> k + 1 = QuorumSize(AssociatedView)
<1> DEFINE e == [msg |-> a, n |-> k]
           c == <<e>>
<1>1. e.msg = a /\ e.n = k /\ [e EXCEPT !.n = @ + 1] = [msg |-> a, n |-> k + 1]
  OBVIOUS
<1> HIDE DEF e
<1>2. DOMAIN c = {1} /\ Len(c) = 1 /\ c[1] = e
  OBVIOUS
<1> DEFINE z == [e EXCEPT !.n = @ + 1]
<1>3. [c EXCEPT ![1] = z] = <<z>>
  <2> HIDE DEF z
  <2> QED
    BY <1>2
<1> HIDE DEF c
<1>4. Entry(c, m) = 1
  <2>1. SeqOps!Min({1, 2}) = 1
    BY DEF SeqOps!Min
  <2>2. {i \in DOMAIN c : Same(c[i].msg, m)} = {1}
    BY <1>1, <1>2
  <2>3. {i \in DOMAIN c : Same(c[i].msg, m)} \cup {Len(c) + 1} = {1, 2}
    BY <1>2, <2>2
  <2> QED
    BY <2>1, <2>3 DEF Entry
<1>5. Count(c, m) = [c EXCEPT ![1] = z]
  <2>1. ~(1 > Len(c))
    BY <1>2
  <2>2. Count(c, m) = IF 1 > Len(c) THEN Append(c, [msg |-> m, n |-> 1])
                      ELSE [c EXCEPT ![1].n = @ + 1]
    BY <1>4, Zenon DEF Count
  <2>3. Count(c, m) = [c EXCEPT ![1].n = @ + 1]
    BY <2>1, <2>2, Zenon
  <2> QED
    BY <1>2, <2>3
<1>6. Count(c, m) = <<[msg |-> a, n |-> k + 1]>>
  BY <1>1, <1>3, <1>5
<1>7. Count(c, m)[1].n = k + 1
  BY <1>6
<1> QED
  BY <1>4, <1>6, <1>7 DEF ReachesQuorum, c, e

(* Short sequences.                                                        *)
LEMMA TwoMessages ==
  ASSUME NEW a, NEW b
  PROVE  Append(<<a>>, b) = <<a, b>> /\ <<a>> \o <<b>> = <<a, b>>
<1> DEFINE r == Append(<<a>>, b)
           q == <<a>> \o <<b>>
           t == <<a, b>>
<1>1. <<a>> \in Seq({a, b}) /\ <<b>> \in Seq({a, b}) /\ t \in Seq({a, b})
  OBVIOUS
<1>2. /\ r \in Seq({a, b}) /\ Len(r) = 2 /\ r[1] = a /\ r[2] = b
      /\ q \in Seq({a, b}) /\ Len(q) = 2 /\ q[1] = a /\ q[2] = b
  BY <1>1
<1>3. Len(t) = 2 /\ t[1] = a /\ t[2] = b
  OBVIOUS
<1> HIDE DEF r, q, t
<1>4. \A i \in 1..2 : i = 1 \/ i = 2
  OBVIOUS
<1>5. /\ \A i \in 1..Len(r) : r[i] = t[i]
      /\ \A i \in 1..Len(q) : q[i] = t[i]
  BY <1>2, <1>3, <1>4
<1>6. r = t /\ q = t
  BY <1>1, <1>2, <1>3, <1>5
<1> QED
  BY <1>6 DEF r, q, t

(* What a server keeps of the worker that it goes on with.                 *)
LEMMA GoesKeeps ==
  ASSUME ProposalInv, NEW s \in Process, NEW w, IsWorker(w), Goes(s, w)
  PROVE  /\ worker'[s].running = w.running
         /\ worker'[s].lastProposedSeq = w.lastProposedSeq
         /\ worker'[s].viewSeqs = w.viewSeqs
         /\ worker'[s].seqConvs = w.seqConvs
         /\ out'[s] = out[s] \o w.out
         /\ \A p \in Process : p # s => worker'[p] = worker[p] /\ out'[p] = out[p]
<1> DEFINE x == [w EXCEPT !.out = <<>>]
<1>1. x = [running |-> w.running, lastProposedSeq |-> w.lastProposedSeq,
           lastConvergedSeq |-> w.lastConvergedSeq, viewSeqs |-> w.viewSeqs,
           seqConvs |-> w.seqConvs, out |-> <<>>]
  BY DEF IsWorker
<1>2. worker' = [worker EXCEPT ![s] = x] /\ out' = [out EXCEPT ![s] = @ \o w.out]
  BY DEF Goes
<1> HIDE DEF x
<1>3. /\ worker'[s] = x /\ out'[s] = out[s] \o w.out
      /\ \A p \in Process : p # s => worker'[p] = worker[p] /\ out'[p] = out[p]
  BY <1>2 DEF ProposalInv
<1> QED
  BY <1>1, <1>3

(* A server that did not take the step is where it was.                    *)
LEMMA OthersStay ==
  ASSUME NEW v, NEW p, Idles(p) \/ Stands(p, v), UNCHANGED AssociatedView,
         worker'[p] = worker[p], out'[p] = out[p], generated'[p] = generated[p],
         taken'[p] = taken[p]
  PROVE  Idles(p)' \/ Stands(p, v)'
<1>1. Server' = Server
  BY DEF Server
<1>2. Heard(p)' = Heard(p) /\ Told(p)' = Told(p)
  BY <1>1 DEF Heard, Told
<1>3. Idles(p) => Idles(p)'
  BY <1>1 DEF Idles
<1>4. Stands(p, v) => Stands(p, v)'
  BY <1>2 DEF Stands
<1> QED
  BY <1>3, <1>4

(* There are so many servers.                                              *)
LEMMA ServersAreFinite ==
  ASSUME StartInv
  PROVE  /\ IsFiniteSet(Server) /\ Server \subseteq Process
         /\ QuorumSize(AssociatedView) \in Nat /\ QuorumSize(AssociatedView) >= 1
         /\ Server # {} => Cardinality(Server) >= QuorumSize(AssociatedView)
         /\ \A s \in Process : /\ IsFiniteSet(Heard(s)) /\ Cardinality(Heard(s)) \in Nat
                               /\ IsFiniteSet(Told(s)) /\ Cardinality(Told(s)) \in Nat
<1>1. Server \subseteq Process
  BY DEF Server, Members
<1>2. IsFiniteSet(Server)
  BY <1>1, ProcessAssumption, FS_Subset
<1>3. /\ NumberOfMembers(AssociatedView) \in Nat /\ QuorumSize(AssociatedView) \in Nat
      /\ 2 * QuorumSize(AssociatedView) > NumberOfMembers(AssociatedView)
      /\ Server # {} => Cardinality(Server) >= QuorumSize(AssociatedView)
  BY QuorumIsMajority DEF StartInv, Server, NumberOfMembers
<1>4. \A s \in Process : Heard(s) \subseteq Server /\ Told(s) \subseteq Server
  BY DEF Heard, Told
<1>5. QuorumSize(AssociatedView) >= 1
  BY <1>3
<1> QED
  BY <1>1, <1>2, <1>3, <1>4, <1>5, FS_Subset, FS_CardinalityType

(* A server creates its generator.                                         *)
LEMMA AlikeBegins ==
  ASSUME StartInv, ProposalInv, NetworkInv, NEW v \in View, SameStart(v),
         NEW s \in Server, Idles(s), getOrCreateViewGenerator(s)
  PROVE  Stands(s, v)'
<1> DEFINE k == QuorumSize(AssociatedView)
           w == [NewWorker EXCEPT !.running = TRUE]
           r == ProposeSeq(w, s, <<v>>)
<1>1. s \in Process /\ k \in Nat /\ k >= 1
  BY ServersAreFinite
<1>2. PICK c \in CopiesWithUpdates(currentView[s], recv[s]) :
        Goes(s, ProposeSeq(w, s, <<c.Entries>>))
  BY DEF getOrCreateViewGenerator
<1>3. c.Entries = v
  <2>1. currentView[s] \in View /\ recv[s] \in SUBSET Update
    BY <1>1 DEF StartInv
  <2>2. c.Entries = currentView[s] \cup recv[s]
    BY <2>1, CopiesAreCoherent
  <2> QED
    BY <2>2 DEF SameStart
<1>4. Goes(s, r)
  BY <1>2, <1>3
<1>5. /\ IsWorker(w) /\ w.running
      /\ w.lastConvergedSeq = <<>> /\ w.viewSeqs = <<>> /\ w.seqConvs = <<>> /\ w.out = <<>>
  BY NewWorkerRuns
<1> HIDE DEF w
<1>6. <<v>> \in Chains
  BY OneViewIsChain
<1>7. Proposal(<<v>>, w.lastConvergedSeq)
  <2>1. DOMAIN w.lastConvergedSeq = {}
    BY <1>5
  <2> QED
    BY <1>5, <1>6, <2>1 DEF Proposal, Below
<1>8. /\ Proposes(r) /\ r.running = w.running /\ r.lastProposedSeq = <<v>>
      /\ r.viewSeqs = Count(<<>>, First(s, v))
      /\ r.seqConvs = <<>>
      /\ r.out = IF ReachesQuorum(<<>>, First(s, v))
                 THEN Append(Append(<<>>, First(s, v)), SeqConv(<<v>>))
                 ELSE Append(<<>>, First(s, v))
  <2>1. w.out \in Seq(Message)
    BY <1>5
  <2>2. PICK y : y = <<v>>
    OBVIOUS
  <2>3. Proposal(y, w.lastConvergedSeq)
    BY <1>7, <2>2
  <2> DEFINE z == ProposeSeq(w, s, y)
             m == ViewSeqMsg(s, y, w.lastConvergedSeq)
  <2> HIDE DEF m, z
  <2>4. /\ Proposes(z) /\ z.running = w.running /\ z.lastProposedSeq = y
        /\ z.viewSeqs = Count(w.viewSeqs, m)
        /\ z.seqConvs = w.seqConvs
        /\ z.out = IF ReachesQuorum(w.viewSeqs, m)
                   THEN Append(Append(w.out, m), SeqConv(y)) ELSE Append(w.out, m)
    <3>1. IsWorker(w)
      BY <1>5
    <3> QED
      BY <1>1, <2>1, <2>3, <3>1, ProposeStep DEF m, z
  <2> USE DEF m, z
  <2>5. m = First(s, v)
    BY <1>5, <2>2 DEF First
  <2>6. z = r
    BY <2>2
  <2> HIDE DEF z, m, r
  <2> QED
    BY <1>5, <2>2, <2>4, <2>5, <2>6, Zenon
<1> HIDE DEF r
<1> DEFINE a == First(s, v)
           b == SeqConv(<<v>>)
<1>9. r.viewSeqs = <<[msg |-> a, n |-> 1]>>
  BY <1>8, CountFirst
<1>10. r.out = IF k = 1 THEN <<a, b>> ELSE <<a>>
  <2>1. ReachesQuorum(<<>>, a) <=> k = 1
    BY CountFirst
  <2> HIDE DEF a, b, k
  <2>2. Append(<<>>, a) = <<a>>
    OBVIOUS
  <2>3. Append(<<a>>, b) = <<a, b>>
    BY TwoMessages
  <2>4. r.out = IF ReachesQuorum(<<>>, a) THEN Append(Append(<<>>, a), b)
                ELSE Append(<<>>, a)
    BY <1>8 DEF a, b
  <2> QED
    BY <2>1, <2>2, <2>3, <2>4, Zenon
<1>11. /\ worker'[s].running /\ worker'[s].lastProposedSeq = <<v>>
       /\ worker'[s].viewSeqs = r.viewSeqs /\ worker'[s].seqConvs = <<>>
       /\ out'[s] = out[s] \o r.out
  <2>1. IsWorker(r)
    BY <1>8 DEF Proposes
  <2> QED
    BY <1>1, <1>4, <1>5, <1>8, <2>1, GoesKeeps
<1>12. UNCHANGED <<AssociatedView, taken, generated>>
  BY DEF getOrCreateViewGenerator
<1>13. Heard(s)' = {} /\ Told(s)' = {} /\ generated'[s] = {} /\ k' = k
  BY <1>12 DEF Idles, Heard, Told, Server, QuorumSize
<1>14. out'[s] = IF 1 + 0 >= k THEN <<a, b>> ELSE <<a>>
  <2>1. out[s] = <<>> /\ (k = 1 <=> 1 + 0 >= k)
    BY <1>1 DEF Idles
  <2> HIDE DEF a, b, k
  <2>2. <<>> \o <<a, b>> = <<a, b>> /\ <<>> \o <<a>> = <<a>>
    OBVIOUS
  <2> QED
    BY <1>10, <1>11, <2>1, <2>2
<1>15. Cardinality({}) = 0 /\ 1 + 0 = 1 /\ ~(0 >= k)
  BY <1>1, FS_EmptySet
<1>16. Stood(k, s, v, worker'[s], out'[s], {}, {}, {})
  BY <1>9, <1>11, <1>14, <1>15 DEF Stood
<1> QED
  BY <1>13, <1>16 DEF Stands

(* What a standing server has broadcast.                                   *)
LEMMA StandingOut ==
  ASSUME NEW v, NEW s, Idles(s) \/ Stands(s, v), NEW i \in DOMAIN out[s]
  PROVE  /\ out[s][i].type = "ViewSeq" => i = 1 /\ out[s][i] = First(s, v)
         /\ out[s][i].type = "SeqConv" => i = 2 /\ out[s][i] = SeqConv(<<v>>)
<1>1. DOMAIN <<>> = {}
  OBVIOUS
<1>2. Stands(s, v)
  BY <1>1 DEF Idles
<1>3. PICK a, b : a = First(s, v) /\ b = SeqConv(<<v>>)
  OBVIOUS
<1>4. a.type = "ViewSeq" /\ b.type = "SeqConv"
  BY <1>3 DEF First, ViewSeqMsg, SeqConv
<1>5. out[s] = <<a, b>> \/ out[s] = <<a>>
  BY <1>2, <1>3 DEF Stands, Stood
<1> QED
  BY <1>3, <1>4, <1>5

(* A proposal of another server is counted.                                *)
LEMMA AlikeProposes ==
  ASSUME StartInv, ProposalInv, NetworkInv, NEW v \in View,
         NEW d \in Server, NEW s \in Server, NEW i \in Pending(d, s), Stands(d, v),
         Idles(s) \/ Stands(s, v), ProposeSeqView(d, s, i)
  PROVE  Stands(d, v)'
<1> DEFINE k == QuorumSize(AssociatedView)
           w == worker[d]
           m == First(s, v)
           a == First(d, v)
           b == SeqConv(<<v>>)
           c == countViewSeq(w, m)
           h == Heard(d)
           H == h \cup {s}
           n == Cardinality(h)
<1>1. /\ d \in Process /\ s \in Process /\ k \in Nat /\ k >= 1
      /\ IsFiniteSet(h) /\ n \in Nat
  BY ServersAreFinite
<1>2. /\ out[s][i].type = "ViewSeq" /\ Goes(d, countViewSeq(Merged(w, d, out[s][i]), out[s][i]))
      /\ taken' = [taken EXCEPT ![d][s] = @ \cup {i}]
      /\ UNCHANGED <<AssociatedView, generated>>
  BY DEF ProposeSeqView, Take
<1>3. i \in DOMAIN out[s] /\ i \notin taken[d][s] /\ s # d
  BY <1>2 DEF Pending
<1>4. i = 1 /\ out[s][i] = m
  BY <1>2, <1>3, StandingOut
<1>5. m \in ProposalMsg
  <2>1. out[s] \in Seq(Message)
    BY <1>1 DEF ProposalInv
  <2>2. m \in Message
    BY <1>3, <1>4, <2>1
  <2> QED
    BY <1>2, <1>4, <2>2 DEF Message
<1>6. /\ IsWorker(w) /\ w.out = <<>> /\ w.running /\ w.lastProposedSeq = <<v>>
      /\ w.viewSeqs = <<[msg |-> a, n |-> 1 + n]>>
      /\ out[d] = IF 1 + n >= k THEN <<a, b>> ELSE <<a>>
  BY <1>1 DEF ProposalInv, Rests, Stands, Stood
<1>7. Merged(w, d, m) = w
  <2>1. m.ProposedSeq = <<v>>
    BY DEF First, ViewSeqMsg
  <2>2. HasView(<<v>>, v)
    <3>1. Equal(v, v)
      BY DEF Equal
    <3> QED
      BY <3>1 DEF HasView
  <2>3. SeqOps!ToSet(<<v>>) = {v}
    BY DEF SeqOps!ToSet
  <2> HIDE DEF w, m
  <2>4. NewViews(w, m) = {}
    BY <1>6, <2>1, <2>2, <2>3 DEF NewViews
  <2> QED
    BY <2>4 DEF Merged
<1>8. Goes(d, c)
  BY <1>2, <1>4, <1>7
<1>9. m.ProposedSeq = <<v>>
  BY DEF First, ViewSeqMsg
<1> HIDE DEF w
<1>10. /\ IsWorker(c) /\ c.running = w.running /\ c.lastProposedSeq = w.lastProposedSeq
       /\ c.viewSeqs = Count(w.viewSeqs, m)
       /\ c.seqConvs = w.seqConvs
       /\ c.out = IF ReachesQuorum(w.viewSeqs, m) THEN Append(w.out, b) ELSE w.out
  <2>1. w.out \in Seq(Message)
    BY <1>6
  <2> HIDE DEF m
  <2> QED
    BY <1>5, <1>6, <1>9, <2>1, CountStep
<1> HIDE DEF c
<1>11. /\ c.viewSeqs = <<[msg |-> a, n |-> (1 + n) + 1]>>
       /\ ReachesQuorum(w.viewSeqs, m) <=> (1 + n) + 1 = k
  <2>1. Same(a, m)
    BY <1>3, SameFirst
  <2>2. 1 + n \in Nat
    BY <1>1
  <2> HIDE DEF a, m, n
  <2> QED
    BY <1>6, <1>10, <2>1, <2>2, CountAgain
<1>12. /\ Heard(d)' = H /\ s \notin h /\ Told(d)' = Told(d) /\ Server' = Server
  <2>1. Server' = Server
    BY <1>2 DEF Server
  <2>2. \A p \in Process : taken'[d][p] = IF p = s THEN taken[d][p] \cup {1} ELSE taken[d][p]
    BY <1>1, <1>2, <1>4 DEF NetworkInv
  <2>3. Server \subseteq Process
    BY ServersAreFinite
  <2>4. \A p \in Server : 1 \in taken'[d][p] <=> p = s \/ 1 \in taken[d][p]
    BY <2>2, <2>3
  <2>5. \A p \in Server : 2 \in taken'[d][p] <=> 2 \in taken[d][p]
    <3>1. \A S : 2 \in S \cup {1} <=> 2 \in S
      OBVIOUS
    <3> QED
      BY <2>2, <2>3, <3>1, Zenon
  <2> QED
    BY <1>3, <1>4, <2>1, <2>4, <2>5 DEF Heard, Told
<1>13. Cardinality(H) = n + 1
  <2> HIDE DEF h
  <2> QED
    BY <1>1, <1>12, FS_AddElement
<1>14. (1 + n) + 1 = 1 + Cardinality(H)
  <2> HIDE DEF n, H
  <2> QED
    BY <1>1, <1>13
<1>15. /\ worker'[d].running /\ worker'[d].lastProposedSeq = <<v>>
       /\ worker'[d].viewSeqs = c.viewSeqs /\ worker'[d].seqConvs = w.seqConvs
       /\ out'[d] = out[d] \o c.out
  BY <1>1, <1>6, <1>8, <1>10, GoesKeeps
<1>16. out'[d] = IF 1 + Cardinality(H) >= k THEN <<a, b>> ELSE <<a>>
  <2>1. c.out = IF (1 + n) + 1 = k THEN <<b>> ELSE <<>>
    <3>1. Append(<<>>, b) = <<b>>
      <4> HIDE DEF b
      <4> QED
        OBVIOUS
    <3> HIDE DEF a, b, m, n, k
    <3> QED
      BY <1>6, <1>10, <1>11, <3>1
  <2> HIDE DEF a, b, n, k, H
  <2>2. CASE (1 + n) + 1 = k
    <3>1. out[d] = <<a>> /\ c.out = <<b>>
      BY <1>1, <1>6, <2>1, <2>2
    <3>2. <<a>> \o <<b>> = <<a, b>>
      BY TwoMessages
    <3>3. 1 + Cardinality(H) >= k
      BY <1>1, <1>14, <2>2
    <3> QED
      BY <1>15, <3>1, <3>2, <3>3
  <2>3. CASE (1 + n) + 1 # k
    <3>1. c.out = <<>> /\ (1 + n >= k <=> 1 + Cardinality(H) >= k)
      BY <1>1, <1>14, <2>1, <2>3
    <3>2. <<a>> \o <<>> = <<a>> /\ <<a, b>> \o <<>> = <<a, b>>
      OBVIOUS
    <3> QED
      BY <1>6, <1>15, <3>1, <3>2
  <2> QED
    BY <2>2, <2>3
<1>17. k' = k /\ generated'[d] = generated[d]
  BY <1>2
<1>18. Stood(k, d, v, w, out[d], generated[d], h, Told(d))
  BY DEF Stands, w
<1>19. Stood(k, d, v, worker'[d], out'[d], generated'[d], H, Told(d))
  <2>1. worker'[d].viewSeqs = <<[msg |-> a, n |-> 1 + Cardinality(H)]>>
    BY <1>11, <1>14, <1>15
  <2> HIDE DEF k, H, n, h
  <2> QED
    BY <1>15, <1>16, <1>17, <1>18, <2>1 DEF Stood
<1> QED
  BY <1>12, <1>17, <1>19 DEF Stands

(* An announcement is counted.                                             *)
LEMMA AlikeReceives ==
  ASSUME StartInv, ProposalInv, NetworkInv, NEW v \in View,
         NEW d \in Server, NEW s \in Server, NEW i \in Pending(d, s), Stands(d, v),
         Idles(s) \/ Stands(s, v), ReceiveSeqConv(d, s, i)
  PROVE  Stands(d, v)'
<1> DEFINE k == QuorumSize(AssociatedView)
           w == worker[d]
           b == SeqConv(<<v>>)
           c == Count(w.seqConvs, b)
           x == [w EXCEPT !.seqConvs = c]
           t == Told(d)
           T == t \cup {s}
           n == Cardinality(t)
<1>1. /\ d \in Process /\ s \in Process /\ k \in Nat /\ k >= 1
      /\ IsFiniteSet(t) /\ n \in Nat
  BY ServersAreFinite
<1>2. /\ out[s][i].type = "SeqConv"
      /\ worker' = [worker EXCEPT ![d].seqConvs = Count(@, out[s][i])]
      /\ taken' = [taken EXCEPT ![d][s] = @ \cup {i}]
      /\ generated' = IF ReachesQuorum(w.seqConvs, out[s][i])
                      THEN [generated EXCEPT ![d] = @ \cup {out[s][i].Seq}]
                      ELSE generated
      /\ UNCHANGED <<AssociatedView, out>>
  BY DEF ReceiveSeqConv, Take
<1>3. i \in DOMAIN out[s] /\ i \notin taken[d][s]
  BY DEF Pending
<1>4. i = 2 /\ out[s][i] = b
  BY <1>2, <1>3, StandingOut
<1>5. IsWorker(w)
  BY <1>1 DEF ProposalInv, Rests
<1>6. Stood(k, d, v, w, out[d], generated[d], Heard(d), t)
  BY DEF Stands
<1>7. worker'[d] = x
  BY <1>1, <1>2, <1>4 DEF ProposalInv
<1>8. b.Seq = <<v>>
  BY DEF SeqConv
<1> HIDE DEF w, b
<1>9. /\ c = <<[msg |-> b, n |-> n + 1]>>
      /\ ReachesQuorum(w.seqConvs, b) <=> n + 1 = k
  <2>1. CASE t = {}
    <3>1. w.seqConvs = <<>> /\ n = 0 /\ n + 1 = 1
      BY <1>6, <2>1, FS_EmptySet DEF Stood
    <3>2. /\ Count(<<>>, b) = <<[msg |-> b, n |-> 1]>>
          /\ ReachesQuorum(<<>>, b) <=> k = 1
      BY CountFirst
    <3> HIDE DEF n, k
    <3> QED
      BY <3>1, <3>2
  <2>2. CASE t # {}
    <3>1. w.seqConvs = <<[msg |-> b, n |-> n]>>
      BY <1>6, <2>2 DEF Stood, b
    <3>2. Same(b, b)
      BY DEF Same, SeqConvEqual, b, SeqConv
    <3> HIDE DEF n, k
    <3>3. /\ Count(<<[msg |-> b, n |-> n]>>, b) = <<[msg |-> b, n |-> n + 1]>>
          /\ ReachesQuorum(<<[msg |-> b, n |-> n]>>, b) <=> n + 1 = k
      BY <1>1, <3>2, CountAgain DEF k
    <3> QED
      BY <3>1, <3>3
  <2> QED
    BY <2>1, <2>2
<1>10. x = [running |-> w.running, lastProposedSeq |-> w.lastProposedSeq,
            lastConvergedSeq |-> w.lastConvergedSeq, viewSeqs |-> w.viewSeqs,
            seqConvs |-> c, out |-> w.out]
  <2> HIDE DEF c
  <2> QED
    BY <1>5 DEF IsWorker
<1> HIDE DEF x
<1>11. /\ worker'[d].running /\ worker'[d].lastProposedSeq = w.lastProposedSeq
       /\ worker'[d].viewSeqs = w.viewSeqs /\ worker'[d].seqConvs = c
  BY <1>6, <1>7, <1>10 DEF Stood
<1>12. /\ Told(d)' = T /\ s \notin t /\ Heard(d)' = Heard(d) /\ Server' = Server
  <2>1. Server' = Server
    BY <1>2 DEF Server
  <2>2. \A p \in Process : taken'[d][p] = IF p = s THEN taken[d][p] \cup {2} ELSE taken[d][p]
    BY <1>1, <1>2, <1>4 DEF NetworkInv
  <2>3. Server \subseteq Process
    BY ServersAreFinite
  <2>4. \A p \in Server : 1 \in taken'[d][p] <=> 1 \in taken[d][p]
    <3>1. \A S : 1 \in S \cup {2} <=> 1 \in S
      OBVIOUS
    <3> QED
      BY <2>2, <2>3, <3>1, Zenon
  <2>5. \A p \in Server : 2 \in taken'[d][p] <=> p = s \/ 2 \in taken[d][p]
    BY <2>2, <2>3
  <2> QED
    BY <1>3, <1>4, <2>1, <2>4, <2>5 DEF Heard, Told
<1>13. Cardinality(T) = n + 1
  <2> HIDE DEF t
  <2> QED
    BY <1>1, <1>12, FS_AddElement
<1>14. generated'[d] = IF n + 1 >= k THEN {<<v>>} ELSE {}
  <2>1. generated[d] = IF n >= k THEN {<<v>>} ELSE {}
    BY <1>6 DEF Stood
  <2>2. generated'[d] = IF n + 1 = k THEN generated[d] \cup {<<v>>} ELSE generated[d]
    <3>1. generated' = IF n + 1 = k THEN [generated EXCEPT ![d] = @ \cup {<<v>>}] ELSE generated
      BY <1>2, <1>4, <1>8, <1>9
    <3> HIDE DEF n, k
    <3> QED
      BY <1>1, <3>1 DEF NetworkInv
  <2> HIDE DEF n, k
  <2> QED
    BY <1>1, <2>1, <2>2
<1>15. k' = k /\ out'[d] = out[d]
  BY <1>2
<1>16. Stood(k, d, v, worker'[d], out'[d], generated'[d], Heard(d), T)
  <2>1. worker'[d].seqConvs = IF T = {} THEN <<>> ELSE <<[msg |-> b, n |-> Cardinality(T)]>>
    BY <1>9, <1>11, <1>13
  <2>2. generated'[d] = IF Cardinality(T) >= k THEN {<<v>>} ELSE {}
    BY <1>13, <1>14
  <2> HIDE DEF k, T, n, t
  <2> QED
    BY <1>6, <1>11, <1>15, <2>1, <2>2 DEF Stood, b
<1> QED
  BY <1>12, <1>15, <1>16 DEF Stands

(* AlikeInv holds at the beginning and after every step.                   *)
LEMMA AlikeInvariance == Spec => []AlikeInv
<1>1. Init => AlikeInv
  <2> SUFFICES ASSUME Init PROVE AlikeInv
    OBVIOUS
  <2>1. /\ worker = [s \in Process |-> NewWorker] /\ out = [s \in Process |-> <<>>]
        /\ taken = [d \in Process |-> [s \in Process |-> {}]]
        /\ generated = [s \in Process |-> {}]
    BY DEF Init
  <2>2. ~NewWorker.running
    BY DEF NewWorker
  <2>3. Server \subseteq Process
    BY DEF Server, Members
  <2> HIDE DEF NewWorker
  <2>4. \A s \in Server : Idles(s)
    BY <2>1, <2>2, <2>3 DEF Idles
  <2>5. NetworkInv
    BY <2>1 DEF NetworkInv
  <2> QED
    BY <2>4, <2>5 DEF AlikeInv
<1>2. ASSUME AlikeInv, ProposalInv, StartInv, [Next]_vars PROVE AlikeInv'
  <2>1. Server \subseteq Process /\ NetworkInv
    BY <1>2 DEF Server, Members, AlikeInv
  <2>2. UNCHANGED <<AssociatedView, currentView, recv>>
    BY <1>2 DEF vars, Next, Receive, generateViewSequenceWithoutConsensus, createForMessage,
                getOrCreateViewGenerator, ProposeSeqView, ReceiveSeqConv
  <2>3. NetworkInv'
    <3>1. CASE UNCHANGED <<taken, generated>>
      BY <2>1, <3>1 DEF NetworkInv
    <3>2. ASSUME NEW d, NEW s, NEW i, ProposeSeqView(d, s, i) \/ ReceiveSeqConv(d, s, i)
          PROVE  NetworkInv'
      <4>1. /\ taken' = [taken EXCEPT ![d][s] = @ \cup {i}]
            /\ \/ UNCHANGED generated
               \/ generated' = [generated EXCEPT ![d] = @ \cup {out[s][i].Seq}]
        BY <3>2 DEF ProposeSeqView, ReceiveSeqConv, Take
      <4> QED
        BY <2>1, <4>1 DEF NetworkInv
    <3> QED
      BY <1>2, <3>1, <3>2
         DEF vars, Next, Receive, generateViewSequenceWithoutConsensus, createForMessage,
             getOrCreateViewGenerator
  <2>4. ASSUME NEW v \in View, SameStart(v)', NEW p \in Server'
        PROVE  Idles(p)' \/ Stands(p, v)'
    <3>1. Server' = Server /\ SameStart(v) /\ p \in Server /\ p \in Process
      BY <2>1, <2>2, <2>4 DEF Server, SameStart
    <3>2. \A s \in Server : Idles(s) \/ Stands(s, v)
      BY <1>2, <3>1 DEF AlikeInv
    <3>3. CASE UNCHANGED vars
      BY <2>2, <3>1, <3>2, <3>3, OthersStay DEF vars
    <3>4. ASSUME NEW s \in Server, getOrCreateViewGenerator(s)
          PROVE  Idles(p)' \/ Stands(p, v)'
      <4>1. CASE p = s
        <5>1. ~worker[s].running
          BY <3>4 DEF getOrCreateViewGenerator
        <5>2. Idles(s)
          BY <3>2, <5>1 DEF Stands, Stood
        <5> QED
          BY <1>2, <2>1, <3>1, <3>4, <4>1, <5>2, AlikeBegins
      <4>2. CASE p # s
        <5>1. \E w : worker' = [worker EXCEPT ![s] = w]
          BY <3>4 DEF getOrCreateViewGenerator, Goes
        <5>2. \E o : out' = [out EXCEPT ![s] = o]
          BY <3>4 DEF getOrCreateViewGenerator, Goes
        <5>3. worker'[p] = worker[p] /\ out'[p] = out[p]
          BY <1>2, <3>1, <4>2, <5>1, <5>2 DEF ProposalInv
        <5>4. taken'[p] = taken[p] /\ generated'[p] = generated[p]
          BY <3>4 DEF getOrCreateViewGenerator
        <5> QED
          BY <2>2, <3>1, <3>2, <5>3, <5>4, OthersStay
      <4> QED
        BY <4>1, <4>2
    <3>5. ASSUME NEW d \in Server, NEW s \in Server, NEW i \in Pending(d, s),
                 ProposeSeqView(d, s, i) \/ ReceiveSeqConv(d, s, i)
          PROVE  Idles(p)' \/ Stands(p, v)'
      <4>1. CASE p = d
        <5>1. worker[d].running
          BY <3>5 DEF ProposeSeqView, ReceiveSeqConv
        <5>2. Stands(d, v)
          BY <3>2, <5>1 DEF Idles
        <5> QED
          BY <1>2, <2>1, <3>2, <3>5, <4>1, <5>2, AlikeProposes, AlikeReceives
      <4>2. CASE p # d
        <5>1. \E w : worker' = [worker EXCEPT ![d] = w]
          BY <3>5 DEF ProposeSeqView, ReceiveSeqConv, Goes
        <5>2. UNCHANGED out \/ \E o : out' = [out EXCEPT ![d] = o]
          BY <3>5 DEF ProposeSeqView, ReceiveSeqConv, Goes
        <5>3. worker'[p] = worker[p] /\ out'[p] = out[p]
          BY <1>2, <3>1, <4>2, <5>1, <5>2 DEF ProposalInv
        <5>4. \E t : taken' = [taken EXCEPT ![d] = t]
          BY <3>5 DEF ProposeSeqView, ReceiveSeqConv, Take
        <5>5. UNCHANGED generated \/ \E g : generated' = [generated EXCEPT ![d] = g]
          BY <3>5 DEF ProposeSeqView, ReceiveSeqConv
        <5>6. taken'[p] = taken[p] /\ generated'[p] = generated[p]
          BY <2>1, <3>1, <4>2, <5>4, <5>5 DEF NetworkInv
        <5> QED
          BY <2>2, <3>1, <3>2, <5>3, <5>6, OthersStay
      <4> QED
        BY <4>1, <4>2
    <3> QED
      BY <1>2, <3>3, <3>4, <3>5
         DEF Next, Receive, generateViewSequenceWithoutConsensus, createForMessage
  <2> QED
    BY <2>3, <2>4 DEF AlikeInv
<1>3. AlikeInv /\ ProposalInv /\ StartInv /\ [Next]_vars => AlikeInv'
  BY <1>2
<1>4. Init => ProposalInv
  BY ProposalInit
<1>5. ProposalInv /\ StartInv /\ [Next]_vars => ProposalInv'
  BY ProposalNext
<1> QED
  BY <1>1, <1>3, <1>4, <1>5, StartInvariance, PTL DEF Spec

(* However many servers there are, and in whatever order messages arrive:  *)
(* those that make the same view of the same updates generate a sequence   *)
(* with it before the last message has been taken, without consensus.      *)
THEOREM SameUpdatesGenerate == Spec => []SameUpdatesAreInstalled
<1>1. ASSUME AlikeInv, StartInv PROVE SameUpdatesAreInstalled
  <2> SUFFICES ASSUME Quiet,
                      \A s, d \in Server : recv[s] = recv[d] /\ currentView[s] = currentView[d],
                      NEW s \in Server
               PROVE  generated[s] # {}
    BY DEF SameUpdatesAreInstalled
  <2> DEFINE k == QuorumSize(AssociatedView)
  <2>1. /\ IsFiniteSet(Server) /\ Server \subseteq Process
        /\ k \in Nat /\ Cardinality(Server) >= k
    BY <1>1, ServersAreFinite
  <2>2. PICK v \in View : SameStart(v)
    <3>1. currentView[s] \cup recv[s] \in View
      BY <1>1, <2>1 DEF StartInv, View
    <3>2. SameStart(currentView[s] \cup recv[s])
      BY DEF SameStart
    <3> QED
      BY <3>1, <3>2
  <2>3. \A p \in Server : Stands(p, v)
    BY <1>1, <2>2 DEF AlikeInv, Idles, Quiet
  <2>4. ASSUME NEW p \in Server
        PROVE  DOMAIN out[p] = {1, 2} /\ out[p][2].type = "SeqConv"
    <3>1. ASSUME NEW q \in Server, q # p PROVE 1 \in taken[p][q]
      <4>1. DOMAIN <<First(q, v), SeqConv(<<v>>)>> = {1, 2} /\ DOMAIN <<First(q, v)>> = {1}
        OBVIOUS
      <4>2. 1 \in DOMAIN out[q]
        BY <2>3, <4>1 DEF Stands, Stood
      <4>3. Pending(p, q) = {}
        BY DEF Quiet
      <4> QED
        BY <3>1, <4>2, <4>3 DEF Pending
    <3>2. Heard(p) = Server \ {p}
      BY <3>1 DEF Heard
    <3>3. 1 + Cardinality(Heard(p)) >= k
      <4> HIDE DEF k
      <4>1. Cardinality(Server \ {p}) = Cardinality(Server) - 1 /\ Cardinality(Server) \in Nat
        BY <2>1, FS_RemoveElement, FS_CardinalityType
      <4> QED
        BY <2>1, <3>2, <4>1
    <3>4. PICK a, b : /\ a = First(p, v) /\ b = SeqConv(<<v>>) /\ b.type = "SeqConv"
                      /\ out[p] = <<a, b>>
      BY <2>3, <3>3 DEF Stands, Stood, SeqConv
    <3> QED
      BY <3>4
  <2>5. Told(s) = Server
    <3> SUFFICES ASSUME NEW q \in Server PROVE 2 \in taken[s][q]
      BY DEF Told
    <3>1. 2 \in DOMAIN out[q] /\ out[q][2].type = "SeqConv"
      BY <2>4
    <3>2. Pending(s, q) = {}
      BY DEF Quiet
    <3> QED
      BY <3>1, <3>2 DEF Pending
  <2>6. generated[s] = {<<v>>}
    BY <2>1, <2>3, <2>5 DEF Stands, Stood
  <2> QED
    BY <2>6
<1>2. AlikeInv /\ StartInv => SameUpdatesAreInstalled
  BY <1>1
<1> QED
  BY <1>2, AlikeInvariance, StartInvariance, PTL


-----------------------------------------------------------------------------
(***************************************************************************)
(* Servers whose first views are compatible                                *)
(***************************************************************************)
(* Of the views that two servers begin with, one contains the other: the   *)
(* updates that they have accepted so far differ, though they do not       *)
(* conflict.                                                               *)
Compatible ==
  \A s, d \in Server : Initial(s) \subseteq Initial(d) \/ Initial(d) \subseteq Initial(s)

Initials == {Initial(s) : s \in Server}

(* The views of a sequence, in whatever order.                             *)
Elems(seq) == {seq[i] : i \in DOMAIN seq}

(* Two chains that Equal cannot tell apart have the same views.            *)
LEMMA SameElems ==
  ASSUME NEW seq \in Chains, NEW other \in Chains, SeqEqual(seq, other)
  PROVE  Elems(seq) = Elems(other)
<1>1. ASSUME NEW c \in Chains
      PROVE  IsFiniteSet(Elems(c)) /\ Cardinality(Elems(c)) = Len(c)
  <2>1. c \in Seq(View) /\ IsChain(c) /\ Len(c) \in Nat /\ DOMAIN c = 1..Len(c)
    BY <1>1 DEF Chains
  <2>2. c \in Bijection(1..Len(c), Elems(c))
    <3>1. c \in [1..Len(c) -> Elems(c)]
      BY <2>1 DEF Elems
    <3>2. \A a, b \in 1..Len(c) : c[a] = c[b] => a = b
      BY <2>1 DEF IsChain
    <3> QED
      BY <2>1, <3>1, <3>2 DEF Bijection, Injection, IsInjective, Surjection, Elems
  <2>3. ExistsBijection(1..Len(c), Elems(c))
    BY <2>2 DEF ExistsBijection
  <2>4. IsFiniteSet(1..Len(c)) /\ Cardinality(1..Len(c)) = Len(c)
    BY <2>1, FS_Interval
  <2> QED
    BY <2>3, <2>4, FS_Bijection
<1>2. seq \in Seq(View) /\ other \in Seq(View)
  BY DEF Chains
<1>3. Elems(seq) \subseteq Elems(other)
  <2> SUFFICES ASSUME NEW i \in DOMAIN seq PROVE seq[i] \in Elems(other)
    BY DEF Elems
  <2>1. HasView(other, seq[i]) /\ seq[i] \in View
    BY <1>2 DEF SeqEqual
  <2> QED
    BY <1>2, <2>1, HasViewIsIn DEF Elems
<1>4. Len(seq) = Len(other)
  BY DEF SeqEqual
<1> QED
  BY <1>1, <1>3, <1>4, FS_Subset

(* A message is counted in an entry for the same message, or in a new one. *)
LEMMA EntryIs ==
  ASSUME NEW S, NEW c \in Seq(S), NEW m
  PROVE  \/ Entry(c, m) = Len(c) + 1
         \/ Entry(c, m) \in DOMAIN c /\ Same(c[Entry(c, m)].msg, m)
<1> DEFINE E == {i \in DOMAIN c : Same(c[i].msg, m)} \cup {Len(c) + 1}
<1>1. E \subseteq Nat /\ E # {}
  OBVIOUS
<1> HIDE DEF E
<1>2. PICK d \in E : \A y \in E : ~(<<y, d>> \in OpToRel(<, Nat))
  BY <1>1, NatLessThanWellFounded, WFMin
<1>3. \A y \in E : d <= y
  <2>1. \A y \in E : ~(y < d)
    BY <1>1, <1>2 DEF OpToRel
  <2> QED
    BY <1>1, <2>1
<1>4. SeqOps!Min(E) \in E
  BY <1>3 DEF SeqOps!Min
<1> QED
  BY <1>4 DEF Entry, E

(***************************************************************************)
(* Counting proposals.  A pair of a server and a set of views says that    *)
(* the server proposed these views.                                        *)
(***************************************************************************)
Backing(K, X) == {q \in Server : <<q, X>> \in K}

Counts == Seq([msg : ProposalMsg, n : Nat])

(* No entry of a counter counts more proposals than there are servers      *)
(* known to have made them.                                                *)
Fits(c, K) ==
  /\ c \in Counts
  /\ \A k \in DOMAIN c : c[k].n <= Cardinality(Backing(K, Elems(c[k].msg.ProposedSeq)))

(* Who is known to propose something is one of finitely many.              *)
LEMMA BackingGrows ==
  ASSUME AssociatedView \in View, NEW K, NEW L, K \subseteq L, NEW X
  PROVE  /\ IsFiniteSet(Backing(L, X)) /\ Cardinality(Backing(L, X)) \in Nat
         /\ Cardinality(Backing(K, X)) \in Nat
         /\ Cardinality(Backing(K, X)) <= Cardinality(Backing(L, X))
<1>1. IsFiniteSet(Server)
  BY QuorumIsMajority DEF Server
<1>2. Backing(L, X) \in SUBSET Server /\ Backing(K, X) \in SUBSET Backing(L, X)
  BY DEF Backing
<1> QED
  BY <1>1, <1>2, FS_Subset, FS_CardinalityType

(* A counter fits as well if more is known.                                *)
LEMMA FitsMore ==
  ASSUME AssociatedView \in View, NEW K, NEW L, K \subseteq L, NEW c, Fits(c, K)
  PROVE  Fits(c, L)
<1> SUFFICES ASSUME NEW k \in DOMAIN c
             PROVE  c[k].n <= Cardinality(Backing(L, Elems(c[k].msg.ProposedSeq)))
  BY DEF Fits
<1>1. c[k].n \in Nat
  <2>1. c \in Seq([msg : ProposalMsg, n : Nat])
    BY DEF Fits, Counts
  <2> DEFINE R == [msg : ProposalMsg, n : Nat]
  <2>2. c \in Seq(R)
    BY <2>1
  <2> HIDE DEF R
  <2>3. c[k] \in R
    BY <2>2
  <2> QED
    BY <2>3 DEF R
<1>2. c[k].n <= Cardinality(Backing(K, Elems(c[k].msg.ProposedSeq)))
  BY DEF Fits
<1> QED
  BY <1>1, <1>2, BackingGrows

(* A counter that counts what was not known before still fits, and a       *)
(* quorum of messages is a quorum of servers.                              *)
LEMMA CountFits ==
  ASSUME AssociatedView \in View, NEW K, NEW c, Fits(c, K), NEW m \in ProposalMsg,
         NEW q \in Server, <<q, Elems(m.ProposedSeq)>> \notin K
  PROVE  LET L == K \cup {<<q, Elems(m.ProposedSeq)>>} IN
         /\ Fits(Count(c, m), L)
         /\ ReachesQuorum(c, m) =>
              Cardinality(Backing(L, Elems(m.ProposedSeq))) >= QuorumSize(AssociatedView)
<1> DEFINE X == Elems(m.ProposedSeq)
           L == K \cup {<<q, X>>}
           e == Entry(c, m)
           new == [msg |-> m, n |-> 1]
<1>1. c \in Counts /\ Len(c) \in Nat /\ DOMAIN c = 1..Len(c) /\ c \in Seq([msg : ProposalMsg, n : Nat])
  BY DEF Fits, Counts
<1>2. Fits(c, L)
  BY FitsMore
<1>3. Cardinality(Backing(L, X)) = Cardinality(Backing(K, X)) + 1
  <2>1. Backing(L, X) = Backing(K, X) \cup {q} /\ q \notin Backing(K, X)
    BY DEF Backing
  <2>2. IsFiniteSet(Backing(K, X))
    BY BackingGrows
  <2> QED
    BY <2>1, <2>2, FS_AddElement
<1>4. Cardinality(Backing(K, X)) \in Nat /\ QuorumSize(AssociatedView) \in Nat
  BY BackingGrows, QuorumIsMajority
<1>5. e = Len(c) + 1 \/ (e \in DOMAIN c /\ Same(c[e].msg, m))
  BY <1>1, EntryIs
<1> HIDE DEF e
<1>6. CASE e = Len(c) + 1
  <2>1. Count(c, m) = Append(c, new)
    BY <1>1, <1>6 DEF Count, e
  <2>2. new \in [msg : ProposalMsg, n : Nat] /\ new.msg = m /\ new.n = 1
    OBVIOUS
  <2> HIDE DEF new, X, L
  <2>3. /\ Append(c, new) \in Counts /\ DOMAIN Append(c, new) = 1..(Len(c) + 1)
        /\ Append(c, new)[Len(c) + 1] = new
        /\ \A k \in 1..Len(c) : Append(c, new)[k] = c[k]
    BY <1>1, <2>2 DEF Counts
  <2>4. \A k \in 1..(Len(c) + 1) : k = Len(c) + 1 \/ k \in 1..Len(c)
    BY <1>1
  <2>5. new.n <= Cardinality(Backing(L, Elems(new.msg.ProposedSeq)))
    BY <1>3, <1>4, <2>2 DEF X
  <2>6. Fits(Append(c, new), L)
    BY <1>1, <1>2, <2>3, <2>4, <2>5 DEF Fits
  <2>7. Count(c, m)[e].n = 1
    BY <1>6, <2>1, <2>2, <2>3
  <2>8. ReachesQuorum(c, m) => QuorumSize(AssociatedView) = 1
    BY <2>7 DEF ReachesQuorum, e
  <2> QED
    BY <1>3, <1>4, <2>1, <2>6, <2>8 DEF L, X
<1>7. CASE e \in DOMAIN c /\ Same(c[e].msg, m)
  <2> DEFINE old == c[e]
             more == [old EXCEPT !.n = @ + 1]
             r == [c EXCEPT ![e] = more]
  <2>1. old \in [msg : ProposalMsg, n : Nat]
    <3> DEFINE R == [msg : ProposalMsg, n : Nat]
    <3>1. c \in Seq(R)
      BY <1>1
    <3> HIDE DEF R
    <3>2. c[e] \in R
      BY <1>7, <3>1
    <3> QED
      BY <3>2 DEF R
  <2>2. Elems(old.msg.ProposedSeq) = X
    <3>1. old.msg.type = "ViewSeq" /\ m.type = "ViewSeq"
      BY <2>1 DEF ProposalMsg
    <3>2. SeqEqual(old.msg.ProposedSeq, m.ProposedSeq)
      BY <1>7, <3>1 DEF Same, SameButDifferentSender
    <3>3. old.msg.ProposedSeq \in Chains /\ m.ProposedSeq \in Chains
      BY <2>1 DEF ProposalMsg, Proposal
    <3> QED
      BY <3>2, <3>3, SameElems
  <2>3. old.n <= Cardinality(Backing(K, X))
    BY <1>7, <2>2 DEF Fits
  <2>4. more \in [msg : ProposalMsg, n : Nat] /\ more.msg = old.msg /\ more.n = old.n + 1
    BY <2>1
  <2>5. Count(c, m) = r
    <3>1. ~(e > Len(c))
      BY <1>1, <1>7
    <3>2. Count(c, m) = IF e > Len(c) THEN Append(c, new) ELSE [c EXCEPT ![e].n = @ + 1]
      BY DEF Count, e
    <3>3. Count(c, m) = [c EXCEPT ![e].n = @ + 1]
      BY <3>1, <3>2, Zenon
    <3> QED
      BY <3>3
  <2> HIDE DEF old, more, X, L
  <2>6. r \in Counts /\ DOMAIN r = DOMAIN c /\ \A k \in DOMAIN c : r[k] = IF k = e THEN more ELSE c[k]
    BY <1>1, <1>7, <2>4 DEF Counts
  <2> HIDE DEF r
  <2>7. more.n <= Cardinality(Backing(L, Elems(more.msg.ProposedSeq)))
    BY <1>3, <1>4, <2>1, <2>2, <2>3, <2>4
  <2>8. Fits(r, L)
    BY <1>2, <2>6, <2>7 DEF Fits
  <2>9. Count(c, m)[e].n = more.n
    BY <1>7, <2>5, <2>6
  <2>10. ReachesQuorum(c, m) => more.n = QuorumSize(AssociatedView)
    BY <2>9 DEF ReachesQuorum, e
  <2> QED
    BY <1>4, <2>2, <2>4, <2>5, <2>7, <2>8, <2>10 DEF L, X
<1> QED
  BY <1>5, <1>6, <1>7

(***************************************************************************)
(* What servers propose one after the other                                *)
(***************************************************************************)
ProposalsIn(o) == {i \in DOMAIN o : o[i].type = "ViewSeq"}

Proposed(o, i) == Elems(o[i].ProposedSeq)

(* The proposals in o hold more and more views, none more than T.          *)
Growing(o, T) ==
  /\ \A i \in ProposalsIn(o) : Proposed(o, i) \subseteq T
  /\ \A i, j \in ProposalsIn(o) :
       /\ Proposed(o, i) \subseteq Proposed(o, j) \/ Proposed(o, j) \subseteq Proposed(o, i)
       /\ Proposed(o, i) = Proposed(o, j) => i = j

(* The proposals that the worker of d has taken or made.                   *)
Knows(d, q, X) ==
  \E i \in ProposalsIn(out[q]) : (q = d \/ i \in taken[d][q]) /\ Proposed(out[q], i) = X

Known(d) == {k \in Server \X (SUBSET View) : Knows(d, k[1], k[2])}

(* A quorum has proposed the views of seq.                                 *)
Proposers(X) == {q \in Server : \E i \in ProposalsIn(out[q]) : Proposed(out[q], i) = X}

Backed(seq) == Cardinality(Proposers(Elems(seq))) >= QuorumSize(AssociatedView)

CompatibleInv ==
  /\ \A s \in Server : ~worker[s].running => out[s] = <<>>
  /\ \A s \in Server : Growing(out[s], Elems(worker[s].lastProposedSeq))
  /\ \A s \in Server : worker[s].running => Fits(worker[s].viewSeqs, Known(s))
  /\ \A s \in Server : \A i \in DOMAIN out[s] :
       out[s][i].type = "SeqConv" => Backed(out[s][i].Seq)
  /\ \A s \in Server : \A seq \in generated[s] : Backed(seq)

(* A broadcast of one step: a proposal of T comes first, if any, and what  *)
(* is announced is known to be proposed by a quorum.                       *)
Broadcast(o, K, T) ==
  \A k \in DOMAIN o :
    \/ o[k].type = "ViewSeq" /\ k = 1 /\ Proposed(o, k) = T
    \/ /\ o[k].type = "SeqConv"
       /\ Cardinality(Backing(K, Elems(o[k].Seq))) >= QuorumSize(AssociatedView)

(* Where the messages of two sequences are.                                *)
LEMMA ConcatIs ==
  ASSUME NEW o \in Seq(Message), NEW p \in Seq(Message)
  PROVE  /\ \A j \in DOMAIN o : j \in DOMAIN (o \o p) /\ (o \o p)[j] = o[j]
         /\ \A k \in DOMAIN p : Len(o) + k \in DOMAIN (o \o p) /\ (o \o p)[Len(o) + k] = p[k]
         /\ \A j \in DOMAIN (o \o p) :
              j \in DOMAIN o \/ \E k \in DOMAIN p : j = Len(o) + k
<1> DEFINE m == Len(o)
           n == Len(p)
           r == o \o p
<1>1. /\ m \in Nat /\ n \in Nat /\ DOMAIN r = 1..(m + n)
      /\ DOMAIN o = 1..m /\ DOMAIN p = 1..n
      /\ \A j \in 1..(m + n) : r[j] = IF j <= m THEN o[j] ELSE p[j - m]
  OBVIOUS
<1> HIDE DEF m, n, r
<1>2. \A j \in 1..m : j \in 1..(m + n) /\ r[j] = o[j]
  BY <1>1
<1>3. ASSUME NEW k \in 1..n PROVE m + k \in 1..(m + n) /\ r[m + k] = p[k]
  <2>1. m + k \in 1..(m + n) /\ ~(m + k <= m) /\ (m + k) - m = k
    BY <1>1
  <2> QED
    BY <1>1, <2>1
<1>4. ASSUME NEW j \in 1..(m + n) PROVE j \in 1..m \/ \E k \in 1..n : j = m + k
  <2>1. j \in 1..m \/ (j - m \in 1..n /\ j = m + (j - m))
    BY <1>1
  <2> QED
    BY <2>1
<1> QED
  BY <1>1, <1>2, <1>3, <1>4 DEF m, r

(* Proposals go on growing when the next one holds more.                   *)
LEMMA GrowingMore ==
  ASSUME NEW o \in Seq(Message), NEW p \in Seq(Message), NEW L, NEW T, Growing(o, L),
         \A i \in ProposalsIn(o) : L \subseteq T,
         \A k \in ProposalsIn(p) : k = 1 /\ Proposed(p, k) = T,
         ProposalsIn(p) # {} => \A i \in ProposalsIn(o) : Proposed(o, i) # T
  PROVE  Growing(o \o p, T)
<1> DEFINE r == o \o p
<1>1. /\ \A j \in DOMAIN o : j \in DOMAIN r /\ r[j] = o[j]
      /\ \A k \in DOMAIN p : Len(o) + k \in DOMAIN r /\ r[Len(o) + k] = p[k]
      /\ \A j \in DOMAIN r : j \in DOMAIN o \/ \E k \in DOMAIN p : j = Len(o) + k
  BY ConcatIs
<1> HIDE DEF r
<1>2. ASSUME NEW j \in ProposalsIn(r)
      PROVE  \/ j \in ProposalsIn(o) /\ Proposed(r, j) = Proposed(o, j)
             \/ j = Len(o) + 1 /\ Proposed(r, j) = T /\ ProposalsIn(p) # {}
  <2>1. j \in DOMAIN r /\ r[j].type = "ViewSeq"
    BY DEF ProposalsIn
  <2>2. CASE j \in DOMAIN o
    BY <1>1, <2>1, <2>2 DEF ProposalsIn, Proposed
  <2>3. CASE \E k \in DOMAIN p : j = Len(o) + k
    <3>1. PICK k \in DOMAIN p : j = Len(o) + k
      BY <2>3
    <3>2. r[j] = p[k]
      BY <1>1, <3>1
    <3>3. k \in ProposalsIn(p)
      BY <2>1, <3>2 DEF ProposalsIn
    <3> QED
      BY <3>1, <3>2, <3>3 DEF Proposed
  <2> QED
    BY <1>1, <2>1, <2>2, <2>3
<1>3. \A i \in ProposalsIn(o) : Proposed(o, i) \subseteq T
  BY DEF Growing
<1>4. \A j \in ProposalsIn(r) : Proposed(r, j) \subseteq T
  BY <1>2, <1>3
<1>5. ASSUME NEW i \in ProposalsIn(r), NEW j \in ProposalsIn(r)
      PROVE  /\ Proposed(r, i) \subseteq Proposed(r, j) \/ Proposed(r, j) \subseteq Proposed(r, i)
             /\ Proposed(r, i) = Proposed(r, j) => i = j
  <2>1. CASE i \in ProposalsIn(o) /\ j \in ProposalsIn(o) /\ Proposed(r, i) = Proposed(o, i)
             /\ Proposed(r, j) = Proposed(o, j)
    BY <2>1 DEF Growing
  <2>2. CASE i = Len(o) + 1 /\ Proposed(r, i) = T /\ ProposalsIn(p) # {}
    BY <1>2, <1>4, <2>2
  <2>3. CASE j = Len(o) + 1 /\ Proposed(r, j) = T /\ ProposalsIn(p) # {}
    BY <1>2, <1>4, <2>3
  <2> QED
    BY <1>2, <2>1, <2>2, <2>3
<1> QED
  BY <1>4, <1>5 DEF Growing, r

(* One more announcement of what a quorum proposed.                        *)
LEMMA BroadcastMore ==
  ASSUME AssociatedView \in View, NEW o \in Seq(Message), NEW K, NEW L, K \subseteq L, NEW T,
         Broadcast(o, K, T), NEW seq \in Seq(View), NEW b \in BOOLEAN,
         b => Cardinality(Backing(L, Elems(seq))) >= QuorumSize(AssociatedView)
  PROVE  Broadcast(IF b THEN Append(o, SeqConv(seq)) ELSE o, L, T)
<1>1. Broadcast(o, L, T)
  <2> SUFFICES ASSUME NEW k \in DOMAIN o, o[k].type = "SeqConv",
                      Cardinality(Backing(K, Elems(o[k].Seq))) >= QuorumSize(AssociatedView)
               PROVE  Cardinality(Backing(L, Elems(o[k].Seq))) >= QuorumSize(AssociatedView)
    BY DEF Broadcast
  <2>1. QuorumSize(AssociatedView) \in Nat
    BY QuorumIsMajority
  <2> QED
    BY <2>1, BackingGrows
<1>2. CASE b
  <2> DEFINE x == SeqConv(seq)
             a == Append(o, x)
  <2>1. x.type = "SeqConv" /\ x.Seq = seq
    BY DEF SeqConv
  <2>2. x \in Message
    BY DEF SeqConv, Message
  <2> HIDE DEF x
  <2>3. \A k \in DOMAIN a : a[k] = x \/ (k \in DOMAIN o /\ a[k] = o[k])
    BY <2>2
  <2> HIDE DEF a
  <2>4. Broadcast(a, L, T)
    BY <1>1, <1>2, <2>1, <2>3 DEF Broadcast, Proposed
  <2> QED
    BY <1>2, <2>4 DEF a, x
<1> QED
  BY <1>1, <1>2

(* What was proposed stays, and what was known.                            *)
LEMMA KnownGrows ==
  ASSUME ProposalInv, AssociatedView' = AssociatedView, NEW d \in Server, NEW w, Proposes(w),
         Goes(d, w), \A p, q \in Process : taken[p][q] \subseteq taken'[p][q]
  PROVE  /\ \A q \in Server : \A i \in DOMAIN out[q] : i \in DOMAIN out'[q] /\ out'[q][i] = out[q][i]
         /\ \A q \in Server : \A i \in ProposalsIn(out[q]) :
              i \in ProposalsIn(out'[q]) /\ Proposed(out'[q], i) = Proposed(out[q], i)
         /\ \A p \in Server : Known(p) \subseteq Known(p)'
         /\ \A X : Proposers(X) \subseteq Proposers(X)'
         /\ \A k \in ProposalsIn(w.out) : <<d, Proposed(w.out, k)>> \in Known(d)'
<1>1. Server' = Server /\ Server \subseteq Process
  BY DEF Server, Members
<1>2. /\ out \in [Process -> Seq(Message)] /\ w.out \in Seq(Message)
      /\ out' = [out EXCEPT ![d] = @ \o w.out]
  BY DEF ProposalInv, Proposes, Goes
<1>3. out'[d] = out[d] \o w.out /\ \A q \in Server : q # d => out'[q] = out[q]
  BY <1>1, <1>2
<1>4. /\ \A j \in DOMAIN out[d] : j \in DOMAIN out'[d] /\ out'[d][j] = out[d][j]
      /\ \A k \in DOMAIN w.out : /\ Len(out[d]) + k \in DOMAIN out'[d]
                                 /\ out'[d][Len(out[d]) + k] = w.out[k]
  <2>1. PICK o, p : o = out[d] /\ p = w.out /\ o \in Seq(Message) /\ p \in Seq(Message)
    BY <1>1, <1>2
  <2>2. /\ \A j \in DOMAIN o : j \in DOMAIN (o \o p) /\ (o \o p)[j] = o[j]
        /\ \A k \in DOMAIN p : Len(o) + k \in DOMAIN (o \o p) /\ (o \o p)[Len(o) + k] = p[k]
    BY <2>1, ConcatIs
  <2> QED
    BY <1>3, <2>1, <2>2, Zenon
<1>5. \A q \in Server : \A i \in DOMAIN out[q] : i \in DOMAIN out'[q] /\ out'[q][i] = out[q][i]
  BY <1>3, <1>4
<1>6. \A q \in Server : \A i \in ProposalsIn(out[q]) :
        i \in ProposalsIn(out'[q]) /\ Proposed(out'[q], i) = Proposed(out[q], i)
  BY <1>5 DEF ProposalsIn, Proposed
<1>7. ASSUME NEW p \in Server, NEW q \in Server, NEW X, Knows(p, q, X) PROVE Knows(p, q, X)'
  <2>1. PICK i \in ProposalsIn(out[q]) :
          (q = p \/ i \in taken[p][q]) /\ Proposed(out[q], i) = X
    BY <1>7 DEF Knows
  <2>2. q = p \/ i \in taken'[p][q]
    BY <1>1, <2>1
  <2> QED
    BY <1>6, <2>1, <2>2 DEF Knows
<1>8. ASSUME NEW p \in Server PROVE Known(p) \subseteq Known(p)'
  BY <1>1, <1>7 DEF Known
<1>9. \A X : Proposers(X) \subseteq Proposers(X)'
  BY <1>1, <1>6 DEF Proposers
<1>10. ASSUME NEW k \in ProposalsIn(w.out) PROVE <<d, Proposed(w.out, k)>> \in Known(d)'
  <2> DEFINE i == Len(out[d]) + k
             X == Proposed(w.out, k)
  <2>1. k \in DOMAIN w.out /\ w.out[k].type = "ViewSeq"
    BY DEF ProposalsIn
  <2>2. i \in DOMAIN out'[d] /\ out'[d][i] = w.out[k]
    BY <1>4, <2>1
  <2>3. Knows(d, d, X)'
    BY <2>1, <2>2 DEF Knows, ProposalsIn, Proposed
  <2>4. X \in SUBSET View
    <3>1. w.out[k] \in Message
      BY <1>2, <2>1
    <3>2. w.out[k].ProposedSeq \in Seq(View)
      BY <2>1, <3>1 DEF Message, ProposalMsg
    <3> QED
      BY <3>2 DEF Proposed, Elems
  <2> HIDE DEF X
  <2> QED
    BY <1>1, <2>3, <2>4 DEF Known, X
<1> QED
  BY <1>5, <1>6, <1>8, <1>9, <1>10

(* What is backed stays so.                                                *)
LEMMA BackedStays ==
  ASSUME AssociatedView \in View, AssociatedView' = AssociatedView,
         \A X : Proposers(X) \subseteq Proposers(X)', NEW seq, Backed(seq)
  PROVE  Backed(seq)'
<1> DEFINE X == Elems(seq)
<1>1. Proposers(X) \in SUBSET Proposers(X)'
  OBVIOUS
<1>2. IsFiniteSet(Server) /\ Server' = Server /\ Proposers(X)' \in SUBSET Server'
  BY QuorumIsMajority DEF Server, Proposers
<1>3. /\ Cardinality(Proposers(X)) \in Nat /\ Cardinality(Proposers(X)') \in Nat
      /\ Cardinality(Proposers(X)) <= Cardinality(Proposers(X)')
  BY <1>1, <1>2, FS_Subset, FS_CardinalityType
<1>4. QuorumSize(AssociatedView) \in Nat
  BY QuorumIsMajority
<1>5. /\ Backed(seq) <=> Cardinality(Proposers(X)) >= QuorumSize(AssociatedView)
      /\ Backed(seq)' <=> Cardinality(Proposers(X)') >= QuorumSize(AssociatedView)
  BY DEF Backed
<1> QED
  BY <1>3, <1>4, <1>5

(* A worker that has sent what it broadcasts.                              *)
LEMMA RestsOut ==
  ASSUME NEW w, IsWorker(w)
  PROVE  [w EXCEPT !.out = <<>>] =
           [running |-> w.running, lastProposedSeq |-> w.lastProposedSeq,
            lastConvergedSeq |-> w.lastConvergedSeq, viewSeqs |-> w.viewSeqs,
            seqConvs |-> w.seqConvs, out |-> <<>>]
BY DEF IsWorker

(* The worker of d goes on with w.                                         *)
LEMMA CompatibleGoes ==
  ASSUME AssociatedView \in View, ProposalInv, CompatibleInv,
         UNCHANGED <<AssociatedView, generated>>,
         NEW d \in Server, NEW w, Proposes(w), w.running, Goes(d, w),
         \A p, q \in Process : taken[p][q] \subseteq taken'[p][q],
         NEW K, K \subseteq Known(d)', Fits(w.viewSeqs, K),
         Broadcast(w.out, K, Elems(w.lastProposedSeq)),
         Growing(out[d] \o w.out, Elems(w.lastProposedSeq))
  PROVE  CompatibleInv'
<1> DEFINE x == [w EXCEPT !.out = <<>>]
<1>1. IsWorker(w) /\ w.out \in Seq(Message)
  BY DEF Proposes
<1>2. x = [running |-> w.running, lastProposedSeq |-> w.lastProposedSeq,
           lastConvergedSeq |-> w.lastConvergedSeq, viewSeqs |-> w.viewSeqs,
           seqConvs |-> w.seqConvs, out |-> <<>>]
  BY <1>1, RestsOut
<1>3. worker' = [worker EXCEPT ![d] = x] /\ out' = [out EXCEPT ![d] = @ \o w.out]
  BY DEF Goes
<1> HIDE DEF x
<1>4. Server' = Server /\ Server \subseteq Process
  BY DEF Server, Members
<1>5. \A p \in Server : worker'[p] = IF p = d THEN x ELSE worker[p]
  BY <1>3, <1>4 DEF ProposalInv
<1>6. \A p \in Server : out'[p] = IF p = d THEN out[d] \o w.out ELSE out[p]
  BY <1>3, <1>4 DEF ProposalInv
<1>7. /\ \A p \in Server : Known(p) \subseteq Known(p)'
      /\ \A X : Proposers(X) \subseteq Proposers(X)'
  BY KnownGrows
<1>8. \A s \in Server : ~worker'[s].running => out'[s] = <<>>
  BY <1>2, <1>5, <1>6 DEF CompatibleInv
<1>9. \A s \in Server : Growing(out'[s], Elems(worker'[s].lastProposedSeq))
  BY <1>2, <1>5, <1>6 DEF CompatibleInv
<1>10. ASSUME NEW s \in Server, worker'[s].running, NEW c, c = worker'[s].viewSeqs,
              NEW L, L = Known(s)'
       PROVE  Fits(c, L)
  <2>1. CASE s = d
    <3>1. c = w.viewSeqs /\ K \subseteq L
      BY <1>2, <1>5, <1>10, <2>1
    <3> QED
      BY <3>1, FitsMore
  <2>2. CASE s # d
    <3>1. Fits(c, Known(s)) /\ Known(s) \subseteq L
      BY <1>5, <1>7, <1>10, <2>2 DEF CompatibleInv
    <3> QED
      BY <3>1, FitsMore
  <2> QED
    BY <2>1, <2>2
<1>11. ASSUME NEW seq, Backed(seq) PROVE Backed(seq)'
  BY <1>7, <1>11, BackedStays
<1>12. ASSUME NEW s \in Server, NEW i \in DOMAIN out'[s], out'[s][i].type = "SeqConv",
              NEW seq, seq = out'[s][i].Seq
       PROVE  Backed(seq)'
  <2>1. CASE i \in DOMAIN out[s] /\ out'[s][i] = out[s][i]
    BY <1>11, <1>12, <2>1 DEF CompatibleInv
  <2>2. CASE s = d /\ \E k \in DOMAIN w.out : out'[s][i] = w.out[k]
    <3>1. PICK k \in DOMAIN w.out : out'[s][i] = w.out[k]
      BY <2>2
    <3>2. seq = w.out[k].Seq /\ w.out[k].type = "SeqConv"
      BY <1>12, <3>1
    <3>3. Cardinality(Backing(K, Elems(seq))) >= QuorumSize(AssociatedView)
      BY <1>12, <3>1, <3>2 DEF Broadcast
    <3>4. Cardinality(Proposers(Elems(seq))') >= QuorumSize(AssociatedView)
      <4>1. Backing(K, Elems(seq)) \in SUBSET Proposers(Elems(seq))'
        BY <1>4 DEF Backing, Known, Knows, Proposers
      <4>2. IsFiniteSet(Server) /\ Proposers(Elems(seq))' \in SUBSET Server
        BY <1>4, QuorumIsMajority DEF Server, Proposers
      <4>3. /\ Cardinality(Backing(K, Elems(seq))) <= Cardinality(Proposers(Elems(seq))')
            /\ Cardinality(Backing(K, Elems(seq))) \in Nat
            /\ Cardinality(Proposers(Elems(seq))') \in Nat
        BY <4>1, <4>2, FS_Subset, FS_CardinalityType
      <4>4. QuorumSize(AssociatedView) \in Nat
        BY QuorumIsMajority
      <4> QED
        BY <3>3, <4>3, <4>4
    <3> QED
      BY <3>4 DEF Backed
  <2>3. \/ i \in DOMAIN out[s] /\ out'[s][i] = out[s][i]
        \/ s = d /\ \E k \in DOMAIN w.out : out'[s][i] = w.out[k]
    <3>1. CASE s # d
      BY <1>6, <3>1
    <3>2. CASE s = d
      <4>1. PICK o, p : /\ o = out[d] /\ p = w.out /\ o \in Seq(Message) /\ p \in Seq(Message)
                        /\ out'[d] = o \o p
        BY <1>1, <1>4, <1>6 DEF ProposalInv
      <4>2. /\ \A j \in DOMAIN o : j \in DOMAIN (o \o p) /\ (o \o p)[j] = o[j]
            /\ \A k \in DOMAIN p : (o \o p)[Len(o) + k] = p[k]
            /\ \A j \in DOMAIN (o \o p) : j \in DOMAIN o \/ \E k \in DOMAIN p : j = Len(o) + k
        BY <4>1, ConcatIs
      <4>3. i \in DOMAIN (o \o p) /\ out'[s][i] = (o \o p)[i]
        BY <3>2, <4>1
      <4>4. CASE i \in DOMAIN o
        BY <3>2, <4>1, <4>2, <4>3, <4>4
      <4>5. CASE \E k \in DOMAIN p : i = Len(o) + k
        BY <3>2, <4>1, <4>2, <4>3, <4>5
      <4> QED
        BY <4>2, <4>3, <4>4, <4>5
    <3> QED
      BY <3>1, <3>2
  <2> QED
    BY <2>1, <2>2, <2>3
<1>13. ASSUME NEW s \in Server, NEW seq \in generated'[s] PROVE Backed(seq)'
  <2>1. Backed(seq)
    BY <1>13 DEF CompatibleInv
  <2> QED
    BY <1>11, <2>1
<1>14. ASSUME NEW s \in Server, worker'[s].running
       PROVE  Fits(worker[s].viewSeqs, Known(s))'
  <2>1. PICK c, L : c = worker'[s].viewSeqs /\ L = Known(s)' /\ Fits(c, L)
    BY <1>10, <1>14
  <2> QED
    BY <1>4, <2>1 DEF Fits, Backing
<1>15. ASSUME NEW s \in Server, NEW i \in DOMAIN out'[s], out'[s][i].type = "SeqConv"
       PROVE  Backed(out[s][i].Seq)'
  <2>1. PICK seq : seq = out'[s][i].Seq /\ Backed(seq)'
    BY <1>12, <1>15
  <2> QED
    BY <2>1 DEF Backed, Proposers
<1> QED
  BY <1>4, <1>8, <1>9, <1>13, <1>14, <1>15 DEF CompatibleInv

(***************************************************************************)
(* The steps of a worker whose views do not conflict                       *)
(***************************************************************************)
(* A proposal of another server is counted, and announced if a quorum made *)
(* it.                                                                     *)
LEMMA CountBroadcasts ==
  ASSUME AssociatedView \in View, NEW w, IsWorker(w), w.out \in Seq(Message),
         NEW K, NEW T, Fits(w.viewSeqs, K), Broadcast(w.out, K, T),
         NEW m \in ProposalMsg, NEW q \in Server, <<q, Elems(m.ProposedSeq)>> \notin K
  PROVE  LET r == countViewSeq(w, m)
             L == K \cup {<<q, Elems(m.ProposedSeq)>>}
         IN /\ Fits(r.viewSeqs, L)
            /\ Broadcast(r.out, L, T)
            /\ 1 \in ProposalsIn(w.out) =>
                 1 \in ProposalsIn(r.out) /\ Proposed(r.out, 1) = Proposed(w.out, 1)
<1> DEFINE r == countViewSeq(w, m)
           L == K \cup {<<q, Elems(m.ProposedSeq)>>}
           o == w.out
           x == SeqConv(m.ProposedSeq)
<1>1. /\ r.viewSeqs = Count(w.viewSeqs, m)
      /\ r.out = IF ReachesQuorum(w.viewSeqs, m) THEN Append(o, x) ELSE o
  BY CountStep
<1>2. /\ Fits(Count(w.viewSeqs, m), L)
      /\ ReachesQuorum(w.viewSeqs, m) =>
           Cardinality(Backing(L, Elems(m.ProposedSeq))) >= QuorumSize(AssociatedView)
  BY CountFits
<1>3. m.ProposedSeq \in Seq(View) /\ K \subseteq L
  BY DEF ProposalMsg
<1> HIDE DEF r, L
<1>4. PICK b \in BOOLEAN : b <=> ReachesQuorum(w.viewSeqs, m)
  BY DEF ReachesQuorum
<1>5. r.out = IF b THEN Append(o, x) ELSE o
  BY <1>1, <1>4
<1>6. Broadcast(IF b THEN Append(o, SeqConv(m.ProposedSeq)) ELSE o, L, T)
  BY <1>2, <1>3, <1>4, BroadcastMore
<1>7. \A k \in DOMAIN o : k \in DOMAIN Append(o, x) /\ Append(o, x)[k] = o[k]
  <2>1. x \in Message
    BY <1>3 DEF SeqConv, Message
  <2> HIDE DEF x, o
  <2>2. o \in Seq(Message)
    BY DEF o
  <2> QED
    BY <2>1, <2>2
<1> HIDE DEF x
<1>8. 1 \in ProposalsIn(w.out) =>
        1 \in ProposalsIn(r.out) /\ Proposed(r.out, 1) = Proposed(w.out, 1)
  BY <1>5, <1>7 DEF ProposalsIn, Proposed
<1> QED
  BY <1>1, <1>2, <1>5, <1>6, <1>8 DEF r, L, x

(* A new proposal is broadcast, counted, and announced if it is a quorum.  *)
LEMMA ProposeBroadcasts ==
  ASSUME AssociatedView \in View, NEW w, IsWorker(w), w.out = <<>>,
         NEW K, Fits(w.viewSeqs, K), NEW d \in Server, NEW seq,
         Proposal(seq, w.lastConvergedSeq), <<d, Elems(seq)>> \notin K
  PROVE  LET r == ProposeSeq(w, d, seq)
             L == K \cup {<<d, Elems(seq)>>}
         IN /\ Fits(r.viewSeqs, L)
            /\ Broadcast(r.out, L, Elems(seq))
            /\ 1 \in ProposalsIn(r.out) /\ Proposed(r.out, 1) = Elems(seq)
<1> DEFINE r == ProposeSeq(w, d, seq)
           L == K \cup {<<d, Elems(seq)>>}
           m == ViewSeqMsg(d, seq, w.lastConvergedSeq)
           o == <<m>>
           x == SeqConv(seq)
<1>1. d \in Process
  BY DEF Server, Members
<1>2. seq \in Seq(View) /\ w.lastConvergedSeq \in Seq(View) /\ K \subseteq L
  BY ChainsAreSequences DEF Proposal
<1>3. m.type = "ViewSeq" /\ m.ProposedSeq = seq /\ m \in ProposalMsg
  BY <1>1, <1>2 DEF ViewSeqMsg, ProposalMsg
<1>4. w.out \in Seq(Message)
  OBVIOUS
<1>5. /\ r.viewSeqs = Count(w.viewSeqs, m)
      /\ r.out = IF ReachesQuorum(w.viewSeqs, m)
                 THEN Append(Append(w.out, m), x) ELSE Append(w.out, m)
  BY <1>1, <1>4, ProposeStep
<1>6. <<d, Elems(m.ProposedSeq)>> \notin K
  BY <1>3
<1>7. /\ Fits(Count(w.viewSeqs, m), L)
      /\ ReachesQuorum(w.viewSeqs, m) =>
           Cardinality(Backing(L, Elems(seq))) >= QuorumSize(AssociatedView)
  BY <1>3, <1>6, CountFits
<1> HIDE DEF r, L, m
<1>8. m \in Message /\ x \in Message /\ x.type = "SeqConv"
  BY <1>2, <1>3 DEF Message, SeqConv
<1> HIDE DEF x
<1>9. Append(w.out, m) = o /\ o \in Seq(Message) /\ DOMAIN o = {1} /\ o[1] = m /\ Len(o) = 1
  BY <1>8
<1>10. Broadcast(o, L, Elems(seq))
  <2> HIDE DEF o
  <2> QED
    BY <1>3, <1>9 DEF Broadcast, Proposed
<1> HIDE DEF o
<1>11. PICK b \in BOOLEAN : b <=> ReachesQuorum(w.viewSeqs, m)
  BY DEF ReachesQuorum
<1>12. r.out = IF b THEN Append(o, x) ELSE o
  BY <1>5, <1>9, <1>11
<1>13. Broadcast(IF b THEN Append(o, SeqConv(seq)) ELSE o, L, Elems(seq))
  BY <1>2, <1>7, <1>9, <1>10, <1>11, BroadcastMore
<1>14. 1 \in DOMAIN Append(o, x) /\ Append(o, x)[1] = m
  <2>1. Append(o, x) = <<m, x>>
    BY TwoMessages DEF o
  <2> QED
    BY <2>1
<1>15. 1 \in DOMAIN r.out /\ r.out[1] = m
  BY <1>9, <1>12, <1>14
<1> QED
  BY <1>3, <1>5, <1>7, <1>12, <1>13, <1>15 DEF r, L, x, ProposalsIn, Proposed

(* Of comparable views none is in conflict with another one.               *)
LEMMA ComparableDoNotConflict ==
  ASSUME NEW W, \A u, v \in W : u \subseteq v \/ v \subseteq u,
         NEW w, Proposes(w), WorkerWithin(w, W), NEW m \in ProposalMsg, MessageWithin(m, W)
  PROVE  ~HasConflict(w, m)
<1> SUFFICES ASSUME NEW v \in NewViews(w, m), NEW v2 \in SeqOps!ToSet(w.lastProposedSeq)
             PROVE  ~Conflict(v, v2)
  BY DEF HasConflict
<1>1. w.lastProposedSeq \in Seq(View) /\ m.ProposedSeq \in Seq(View)
  BY DEF Proposes, Proposal, ProposalMsg, Chains
<1>2. Within(w.lastProposedSeq, W) /\ Within(m.ProposedSeq, W)
  BY DEF WorkerWithin, MessageWithin, ProposalMsg
<1>3. v \in View /\ v \in W
  BY <1>1, <1>2 DEF NewViews, SeqOps!ToSet, Within
<1>4. v2 \in View /\ v2 \in W
  BY <1>1, <1>2 DEF SeqOps!ToSet, Within
<1> QED
  BY <1>3, <1>4, LessUpdatedIsNotSuperset DEF Conflict

(* A merged sequence holds the views of both, and more than the worker had *)
(* proposed, if it lacked one.                                             *)
LEMMA MergedElems ==
  ASSUME NEW w, Proposes(w), NEW m \in ProposalMsg, NEW seq \in Chains,
         Contains(seq, w.lastProposedSeq), Contains(seq, m.ProposedSeq), NewViews(w, m) # {}
  PROVE  /\ Elems(w.lastProposedSeq) \subseteq Elems(seq)
         /\ ~(Elems(seq) \subseteq Elems(w.lastProposedSeq))
<1>1. w.lastProposedSeq \in Seq(View) /\ m.ProposedSeq \in Seq(View)
  BY DEF Proposes, Proposal, ProposalMsg, Chains
<1>2. /\ Elems(w.lastProposedSeq) \subseteq Elems(seq)
      /\ Elems(m.ProposedSeq) \subseteq Elems(seq)
  BY DEF Contains, Elems
<1>3. PICK v \in SeqOps!ToSet(m.ProposedSeq) : ~HasView(w.lastProposedSeq, v)
  BY DEF NewViews
<1>4. v \in Elems(m.ProposedSeq) /\ v \in View
  BY <1>1 DEF SeqOps!ToSet, Elems
<1>5. v \notin Elems(w.lastProposedSeq)
  BY <1>1, <1>3, <1>4, HasViewIsIn DEF Elems
<1> QED
  BY <1>2, <1>4, <1>5

(***************************************************************************)
(* CompatibleInv is an invariant                                           *)
(***************************************************************************)
(* A server creates its generator.                                         *)
LEMMA CompatibleBegins ==
  ASSUME StartInv, ProposalInv, CompatibleInv, NEW d \in Server, getOrCreateViewGenerator(d)
  PROVE  CompatibleInv'
<1> DEFINE w == [NewWorker EXCEPT !.running = TRUE]
<1>1. PICK v \in CopiesWithUpdates(currentView[d], recv[d]) :
        Goes(d, ProposeSeq(w, d, <<v.Entries>>))
  BY DEF getOrCreateViewGenerator
<1>2. d \in Process /\ AssociatedView \in View
  BY DEF StartInv, Server, Members
<1>3. currentView[d] \in View /\ recv[d] \in SUBSET Update
  BY <1>2 DEF StartInv
<1>4. v.Entries \in View
  BY <1>3, CopiesAreCoherent DEF CachedView
<1>5. PICK seq : seq = <<v.Entries>> /\ seq \in Chains
  BY <1>4, OneViewIsChain
<1>6. /\ IsWorker(w) /\ w.out = <<>> /\ w.lastConvergedSeq = <<>> /\ w.viewSeqs = <<>>
  BY NewWorkerRuns
<1>7. w.running
  BY NewWorkerRuns
<1> HIDE DEF w
<1>8. w.out \in Seq(Message) /\ Proposal(seq, w.lastConvergedSeq)
  BY <1>5, <1>6 DEF Proposal, Below
<1> DEFINE r == ProposeSeq(w, d, seq)
           X == Elems(seq)
           K == {<<d, X>>}
<1>9. Proposes(r) /\ r.running /\ r.lastProposedSeq = seq
  <2>1. Proposes(r) /\ r.running = w.running /\ r.lastProposedSeq = seq
    BY <1>2, <1>6, <1>8, ProposeStep
  <2> HIDE DEF r
  <2> QED
    BY <1>7, <2>1
<1>10. PICK J : J = {} /\ Fits(w.viewSeqs, J)
  BY <1>6 DEF Fits, Counts
<1>11. /\ Fits(r.viewSeqs, J \cup {<<d, Elems(seq)>>})
       /\ Broadcast(r.out, J \cup {<<d, Elems(seq)>>}, Elems(seq))
       /\ 1 \in ProposalsIn(r.out) /\ Proposed(r.out, 1) = Elems(seq)
  <2>1. <<d, Elems(seq)>> \notin J
    BY <1>10
  <2> QED
    BY <1>2, <1>6, <1>8, <1>10, <2>1, ProposeBroadcasts
<1>12. Fits(r.viewSeqs, K) /\ Broadcast(r.out, K, X) /\ Proposed(r.out, 1) = X
  <2>1. J \cup {<<d, X>>} = K
    BY <1>10
  <2> HIDE DEF r, K
  <2> QED
    BY <1>11, <2>1 DEF X
<1>13. Goes(d, r) /\ UNCHANGED <<AssociatedView, generated, taken>>
  BY <1>1, <1>5 DEF getOrCreateViewGenerator
<1> HIDE DEF r, X
<1>14. K \subseteq Known(d)'
  BY <1>9, <1>11, <1>12, <1>13, KnownGrows
<1>15. Growing(out[d] \o r.out, Elems(r.lastProposedSeq))
  <2>1. out[d] = <<>>
    BY DEF getOrCreateViewGenerator, CompatibleInv
  <2>2. <<>> \in Seq(Message) /\ DOMAIN <<>> = {}
    OBVIOUS
  <2>3. PICK o : o = <<>> /\ o \in Seq(Message) /\ DOMAIN o = {}
    BY <2>2
  <2>4. ProposalsIn(o) = {}
    BY <2>3 DEF ProposalsIn
  <2>5. PICK p : p = r.out /\ p \in Seq(Message)
    BY <1>9 DEF Proposes
  <2>6. Growing(o, X)
    BY <2>4 DEF Growing
  <2>7. \A k \in ProposalsIn(p) : k = 1 /\ Proposed(p, k) = X
    BY <1>12, <2>5 DEF Broadcast, ProposalsIn
  <2>8. Growing(o \o p, X)
    BY <2>3, <2>6, <2>7, <2>4, <2>5, GrowingMore
  <2> QED
    BY <1>9, <2>1, <2>3, <2>8, <2>5 DEF X
<1>16. Broadcast(r.out, K, Elems(r.lastProposedSeq))
  BY <1>9, <1>12 DEF X
<1>17. \A p, q \in Process : taken[p][q] \subseteq taken'[p][q]
  BY <1>13
<1> HIDE DEF K
<1> QED
  BY <1>2, <1>9, <1>12, <1>13, <1>14, <1>15, <1>16, <1>17, CompatibleGoes

(* The worker takes a proposal of another server, which it did not know.   *)
LEMMA TakesUnknown ==
  ASSUME NetworkInv, CompatibleInv, NEW d \in Server, NEW s \in Server,
         NEW i \in Pending(d, s), out[s][i].type = "ViewSeq"
  PROVE  s # d /\ <<s, Proposed(out[s], i)>> \notin Known(d)
<1>1. s # d /\ i \notin taken[d][s] /\ i \in ProposalsIn(out[s])
  BY DEF Pending, ProposalsIn
<1>2. ~Knows(d, s, Proposed(out[s], i))
  BY <1>1 DEF Knows, CompatibleInv, Growing
<1> QED
  BY <1>1, <1>2 DEF Known

(* It knows it afterwards.                                                 *)
LEMMA TakesKnown ==
  ASSUME ProposalInv, NetworkInv, AssociatedView' = AssociatedView,
         NEW d \in Server, NEW w, Proposes(w), Goes(d, w),
         NEW s \in Server, NEW i \in Pending(d, s), out[s][i].type = "ViewSeq", Take(d, s, i)
  PROVE  /\ \A p, q \in Process : taken[p][q] \subseteq taken'[p][q]
         /\ <<s, Proposed(out[s], i)>> \in Known(d)'
<1>1. PICK X : X = Proposed(out[s], i)
  OBVIOUS
<1>2. Server' = Server /\ Server \subseteq Process
  BY DEF Server, Members
<1>3. /\ \A p, q \in Process : taken[p][q] \subseteq taken'[p][q]
      /\ i \in taken'[d][s]
  BY <1>2 DEF NetworkInv, Take
<1>4. i \in ProposalsIn(out[s])
  BY DEF Pending, ProposalsIn
<1>5. i \in ProposalsIn(out'[s]) /\ Proposed(out'[s], i) = X
  BY <1>3, <1>4, <1>1, KnownGrows
<1>6. Knows(d, s, X)'
  BY <1>3, <1>5 DEF Knows
<1>7. X \in SUBSET View
  <2>1. out[s] \in Seq(Message) /\ i \in DOMAIN out[s]
    BY <1>2 DEF ProposalInv, Pending
  <2>2. out[s][i] \in Message
    BY <2>1
  <2>3. out[s][i].ProposedSeq \in Seq(View)
    BY <2>2 DEF Message, ProposalMsg
  <2> QED
    BY <1>1, <2>3 DEF Proposed, Elems
<1>8. <<s, X>> \in Known(d)'
  BY <1>2, <1>6, <1>7 DEF Known
<1> QED
  BY <1>3, <1>8, <1>1

(* A server takes a proposal of another one, and merges it into its own.   *)
LEMMA CompatibleProposes ==
  ASSUME StartInv, ProposalInv, NetworkInv, CompatibleInv,
         NEW W, \A u, v \in W : u \subseteq v \/ v \subseteq u, WithinInv(W),
         NEW d \in Server, NEW s \in Server, NEW i \in Pending(d, s), ProposeSeqView(d, s, i)
  PROVE  CompatibleInv'
<1> DEFINE w == worker[d]
           m == out[s][i]
           b == Merged(w, d, m)
           r == countViewSeq(b, m)
           X == Elems(w.lastProposedSeq)
           Y == Elems(m.ProposedSeq)
<1>1. /\ w.running /\ m.type = "ViewSeq" /\ Goes(d, r) /\ Take(d, s, i)
      /\ UNCHANGED <<AssociatedView, generated>>
  BY DEF ProposeSeqView
<1>2. d \in Process /\ s \in Process /\ AssociatedView \in View
  BY DEF StartInv, Server, Members
<1>3. Proposes(w) /\ w.out = <<>> /\ WorkerWithin(w, W)
  BY <1>1, <1>2 DEF ProposalInv, Rests, WithinInv
<1>4. m \in ProposalMsg /\ MessageWithin(m, W)
  <2>1. i \in DOMAIN out[s] /\ out[s] \in Seq(Message)
    BY <1>2 DEF Pending, ProposalInv
  <2>2. m \in Message
    BY <2>1
  <2> QED
    BY <1>1, <2>1, <2>2 DEF Message, WithinInv
<1>5. s # d /\ <<s, Y>> \notin Known(d)
  BY <1>1, TakesUnknown DEF Proposed
<1>6. Growing(out[d], X) /\ Fits(w.viewSeqs, Known(d)) /\ out[d] \in Seq(Message)
  BY <1>1, <1>2 DEF CompatibleInv, ProposalInv
<1>7. Y = Proposed(out[s], i)
  BY DEF Proposed
<1>8. m.ProposedSeq \in Chains
  BY <1>4 DEF ProposalMsg, Proposal
<1> HIDE DEF w, m
<1>9. /\ Proposes(b) /\ b.running = w.running
      /\ Below(m.ProposedSeq, GetMostUpdatedView(b.lastProposedSeq))
      /\ NewViews(w, m) = {} => b = w
  BY <1>2, <1>3, <1>4, MergeStep
<1> HIDE DEF b
<1>10. /\ IsWorker(r) /\ r.running = b.running
       /\ r.lastProposedSeq = b.lastProposedSeq
       /\ r.lastConvergedSeq \in {b.lastConvergedSeq, m.ProposedSeq}
       /\ r.out \in Seq(Message)
  BY <1>4, <1>9, CountStep DEF Proposes
<1>11. Proposes(r) /\ r.running
  BY <1>1, <1>8, <1>9, <1>10 DEF Proposes, Proposal
<1>12. /\ \A p, q \in Process : taken[p][q] \subseteq taken'[p][q]
       /\ <<s, Y>> \in Known(d)'
  <2>1. out[s][i].type = "ViewSeq" /\ AssociatedView' = AssociatedView
    BY <1>1 DEF m
  <2> HIDE DEF r, Y
  <2> QED
    BY <1>1, <1>7, <1>11, <2>1, TakesKnown
<1>13. /\ Known(d) \subseteq Known(d)'
       /\ \A k \in ProposalsIn(r.out) : <<d, Proposed(r.out, k)>> \in Known(d)'
  <2> HIDE DEF r
  <2> QED
    BY <1>1, <1>11, <1>12, KnownGrows
<1>14. CASE NewViews(w, m) = {}
  <2> DEFINE K == Known(d) \cup {<<s, Y>>}
  <2>1. b = w
    BY <1>9, <1>14
  <2>2. IsWorker(w) /\ w.out \in Seq(Message) /\ Broadcast(w.out, Known(d), X)
    BY <1>3 DEF Proposes, Broadcast
  <2>3. Fits(r.viewSeqs, K) /\ Broadcast(r.out, K, X)
    BY <1>2, <1>4, <1>5, <1>6, <2>1, <2>2, CountBroadcasts
  <2> HIDE DEF r, X, Y
  <2>4. K \subseteq Known(d)'
    BY <1>12, <1>13
  <2>5. ProposalsIn(r.out) = {}
    <3>1. r.out = IF ReachesQuorum(w.viewSeqs, m) THEN Append(<<>>, SeqConv(m.ProposedSeq)) ELSE <<>>
      BY <1>3, <1>4, <2>1, <2>2, CountStep DEF r
    <3>2. PICK x : x = SeqConv(m.ProposedSeq)
      OBVIOUS
    <3>3. x.type = "SeqConv"
      BY <3>2 DEF SeqConv
    <3>4. r.out = <<x>> \/ r.out = <<>>
      BY <3>1, <3>2
    <3>5. \A k \in DOMAIN r.out : r.out[k] = x
      BY <3>4
    <3> QED
      BY <3>5, <3>3 DEF ProposalsIn
  <2>6. Growing(out[d] \o r.out, X)
    BY <1>6, <1>10, <2>5, GrowingMore
  <2>7. X = Elems(r.lastProposedSeq)
    BY <1>10, <2>1 DEF X
  <2> HIDE DEF K
  <2> QED
    BY <1>1, <1>2, <1>11, <1>12, <2>3, <2>4, <2>6, <2>7, CompatibleGoes
<1>15. CASE NewViews(w, m) # {}
  <2>1. ~HasConflict(w, m)
    BY <1>3, <1>4, ComparableDoNotConflict
  <2>2. PICK seq : /\ b = ProposeSeq(w, d, seq) /\ Proposal(seq, w.lastConvergedSeq)
                   /\ Contains(seq, w.lastProposedSeq) /\ Contains(seq, m.ProposedSeq)
    BY <1>2, <1>3, <1>4, <1>15, <2>1, MergeStep DEF b
  <2> DEFINE Z == Elems(seq)
             K == Known(d) \cup {<<d, Z>>}
             L == K \cup {<<s, Y>>}
  <2>3. X \subseteq Z /\ ~(Z \subseteq X)
    BY <1>3, <1>4, <1>15, <2>2, MergedElems DEF Proposal
  <2>4. \A j \in ProposalsIn(out[d]) : Proposed(out[d], j) \subseteq X
    BY <1>6 DEF Growing
  <2>5. <<d, Z>> \notin Known(d)
    <3>1. ~Knows(d, d, Z)
      BY <2>3, <2>4 DEF Knows
    <3> QED
      BY <3>1 DEF Known
  <2>6. b.lastProposedSeq = seq
    BY <1>2, <1>3, <2>2, ProposeStep DEF Proposes
  <2>7. /\ Fits(b.viewSeqs, K) /\ Broadcast(b.out, K, Z)
        /\ 1 \in ProposalsIn(b.out) /\ Proposed(b.out, 1) = Z
    BY <1>2, <1>3, <1>6, <2>2, <2>5, ProposeBroadcasts DEF Proposes
  <2>8. <<s, Y>> \notin K
    BY <1>5
  <2> HIDE DEF Z, K
  <2>9. IsWorker(b) /\ b.out \in Seq(Message) /\ <<s, Elems(m.ProposedSeq)>> \notin K
    BY <1>9, <2>8 DEF Proposes
  <2>10. Fits(r.viewSeqs, L) /\ Broadcast(r.out, L, Z)
    BY <1>2, <1>4, <2>7, <2>9, CountBroadcasts
  <2>11. 1 \in ProposalsIn(r.out) /\ Proposed(r.out, 1) = Z
    BY <1>2, <1>4, <2>7, <2>9, CountBroadcasts
  <2> HIDE DEF r, X, Y
  <2>12. L \subseteq Known(d)'
    BY <1>12, <1>13, <2>11 DEF K
  <2>13. \A k \in ProposalsIn(r.out) : k = 1 /\ Proposed(r.out, k) = Z
    BY <2>10 DEF Broadcast, ProposalsIn
  <2>14. Growing(out[d] \o r.out, Z)
    BY <1>6, <1>10, <2>3, <2>4, <2>13, GrowingMore
  <2>15. Z = Elems(r.lastProposedSeq)
    BY <1>10, <2>6 DEF Z
  <2> HIDE DEF L
  <2> QED
    BY <1>1, <1>2, <1>11, <1>12, <2>12, <2>14, <2>15, <2>10, CompatibleGoes
<1> QED
  BY <1>14, <1>15

(* A server takes an announcement: what it generates was announced, and    *)
(* therefore proposed by a quorum.                                         *)
LEMMA CompatibleReceives ==
  ASSUME StartInv, ProposalInv, NetworkInv, CompatibleInv,
         NEW d \in Server, NEW s \in Server, NEW i \in Pending(d, s), ReceiveSeqConv(d, s, i)
  PROVE  CompatibleInv'
<1> DEFINE w == worker[d]
           m == out[s][i]
           c == Count(w.seqConvs, m)
           x == [w EXCEPT !.seqConvs = c]
<1>1. /\ worker' = [worker EXCEPT ![d] = x] /\ m.type = "SeqConv" /\ Take(d, s, i)
      /\ UNCHANGED <<out, AssociatedView>>
      /\ \/ UNCHANGED generated
         \/ generated' = [generated EXCEPT ![d] = @ \cup {m.Seq}]
  BY DEF ReceiveSeqConv
<1>2. Server \subseteq Process /\ AssociatedView \in View /\ Server' = Server
  BY <1>1 DEF StartInv, Server, Members
<1>3. IsWorker(w)
  BY <1>2 DEF ProposalInv, Rests
<1>4. Backed(m.Seq)
  BY <1>1 DEF Pending, CompatibleInv
<1>5. \A p \in Server : generated'[p] \subseteq generated[p] \cup {m.Seq}
  BY <1>1, <1>2 DEF NetworkInv
<1> HIDE DEF c, m
<1>6. x = [running |-> w.running, lastProposedSeq |-> w.lastProposedSeq,
           lastConvergedSeq |-> w.lastConvergedSeq, viewSeqs |-> w.viewSeqs,
           seqConvs |-> c, out |-> w.out]
  <2> HIDE DEF w
  <2> QED
    BY <1>3 DEF IsWorker
<1> HIDE DEF x
<1>7. \A p \in Server : /\ worker'[p].running = worker[p].running
                        /\ worker'[p].lastProposedSeq = worker[p].lastProposedSeq
                        /\ worker'[p].viewSeqs = worker[p].viewSeqs
  <2>1. \A p \in Server : worker'[p] = IF p = d THEN x ELSE worker[p]
    BY <1>1, <1>2 DEF ProposalInv
  <2> QED
    BY <1>6, <2>1
<1>8. \A p, q \in Process : taken[p][q] \subseteq taken'[p][q]
  BY <1>1 DEF NetworkInv, Take
<1>9. ASSUME NEW p \in Server PROVE Known(p) \subseteq Known(p)'
  <2>1. ASSUME NEW q \in Server, NEW X, Knows(p, q, X) PROVE Knows(p, q, X)'
    BY <1>1, <1>2, <1>8, <2>1 DEF Knows
  <2> QED
    BY <1>2, <2>1 DEF Known
<1>10. \A seq : Backed(seq)' <=> Backed(seq)
  BY <1>1, <1>2 DEF Backed, Proposers
<1>11. ASSUME NEW p \in Server, worker'[p].running
       PROVE  Fits(worker[p].viewSeqs, Known(p))'
  <2>1. PICK v, L : /\ v = worker'[p].viewSeqs /\ L = Known(p)'
                    /\ Fits(v, Known(p)) /\ Known(p) \subseteq L
    BY <1>7, <1>9, <1>11 DEF CompatibleInv
  <2>2. Fits(v, L)
    BY <1>2, <2>1, FitsMore
  <2> QED
    BY <1>2, <2>1, <2>2 DEF Fits, Backing
<1>12. ASSUME NEW p \in Server, NEW j \in DOMAIN out'[p], out'[p][j].type = "SeqConv"
       PROVE  Backed(out[p][j].Seq)'
  <2>1. PICK seq : seq = out[p][j].Seq /\ seq = out'[p][j].Seq /\ Backed(seq)
    BY <1>1, <1>12 DEF CompatibleInv
  <2>2. Backed(seq)'
    BY <1>10, <2>1
  <2> QED
    BY <2>1, <2>2 DEF Backed, Proposers
<1>13. ASSUME NEW p \in Server, NEW seq \in generated'[p] PROVE Backed(seq)'
  <2>1. Backed(seq)
    BY <1>4, <1>5, <1>13 DEF CompatibleInv
  <2> QED
    BY <1>10, <2>1
<1>14. \A p \in Server : /\ ~worker'[p].running => out'[p] = <<>>
                         /\ Growing(out'[p], Elems(worker'[p].lastProposedSeq))
  BY <1>1, <1>7 DEF CompatibleInv
<1> QED
  BY <1>2, <1>11, <1>12, <1>13, <1>14 DEF CompatibleInv

(* CompatibleInv, together with where the views come from.                 *)
CompatibleState == Compatible /\ CompatibleInv /\ WithinInv(Initials)

(* Nothing is proposed at the beginning.                                   *)
LEMMA CompatibleInit ==
  ASSUME Init, Compatible PROVE CompatibleState
<1>1. /\ worker = [s \in Process |-> NewWorker] /\ out = [s \in Process |-> <<>>]
      /\ generated = [s \in Process |-> {}]
  BY DEF Init
<1>2. ~NewWorker.running
  BY DEF NewWorker
<1>3. Server \subseteq Process
  BY DEF Server, Members
<1>4. DOMAIN <<>> = {}
  OBVIOUS
<1> HIDE DEF NewWorker
<1>5. \A s \in Server : /\ ~worker[s].running /\ out[s] = <<>> /\ generated[s] = {}
                        /\ DOMAIN out[s] = {}
  BY <1>1, <1>2, <1>3, <1>4
<1>6. \A s \in Server : Growing(out[s], Elems(worker[s].lastProposedSeq))
  BY <1>5 DEF Growing, ProposalsIn
<1>7. CompatibleInv
  BY <1>5, <1>6 DEF CompatibleInv
<1>8. WithinInv(Initials)
  BY WithinInit
<1> QED
  BY <1>7, <1>8 DEF CompatibleState

(* Every step preserves it: without a conflict no server goes back, so its *)
(* proposals only grow.                                                    *)
LEMMA CompatibleNext ==
  ASSUME CompatibleState, NetworkInv, ProposalInv, StartInv, [Next]_vars
  PROVE  CompatibleState'
<1>1. UNCHANGED <<AssociatedView, currentView, recv>> /\ Server' = Server
  BY StartStays
<1>2. Initials' = Initials /\ Compatible'
  BY <1>1 DEF CompatibleState, Initials, Initial, Compatible
<1>3. PICK W : W = Initials /\ W = Initials'
  BY <1>2
<1>4. \A u, v \in W : u \subseteq v \/ v \subseteq u
  BY <1>3 DEF CompatibleState, Compatible, Initials
<1>5. ClosedUnderUnion(W)
  <2> SUFFICES ASSUME NEW u \in W, NEW v \in W PROVE u \cup v \in W
    BY DEF ClosedUnderUnion
  <2>1. u \cup v = u \/ u \cup v = v
    BY <1>4
  <2> QED
    BY <2>1
<1>6. \A s \in Server : Initial(s) \in W
  BY <1>3 DEF Initials
<1>7. WithinInv(W)
  BY <1>3 DEF CompatibleState
<1>8. WithinInv(W)'
  BY <1>5, <1>6, <1>7, WithinNext
<1>9. WithinInv(Initials)'
  BY <1>3, <1>8 DEF WithinInv
<1>10. CompatibleInv
  BY DEF CompatibleState
<1>11. ASSUME NEW d \in Server, getOrCreateViewGenerator(d) PROVE CompatibleInv'
  BY <1>10, <1>11, CompatibleBegins
<1>12. ASSUME NEW d \in Server, NEW s \in Server, NEW i \in Pending(d, s),
              ProposeSeqView(d, s, i)
       PROVE  CompatibleInv'
  BY <1>4, <1>7, <1>10, <1>12, CompatibleProposes
<1>13. ASSUME NEW d \in Server, NEW s \in Server, NEW i \in Pending(d, s),
              ReceiveSeqConv(d, s, i)
       PROVE  CompatibleInv'
  BY <1>10, <1>13, CompatibleReceives
<1>14. ASSUME UNCHANGED vars PROVE CompatibleInv'
  <2>1. UNCHANGED <<worker, out, taken, generated>>
    BY <1>14 DEF vars
  <2>2. \A s \in Server : Known(s)' = Known(s)
    BY <1>1, <2>1 DEF Known, Knows
  <2>3. \A seq : Backed(seq)' <=> Backed(seq)
    BY <1>1, <2>1 DEF Backed, Proposers
  <2>4. ASSUME NEW s \in Server, worker'[s].running
        PROVE  Fits(worker[s].viewSeqs, Known(s))'
    <3>1. PICK c, L : /\ c = worker'[s].viewSeqs /\ L = Known(s)' /\ Fits(c, L)
      BY <1>10, <2>1, <2>2, <2>4 DEF CompatibleInv
    <3> QED
      BY <1>1, <3>1 DEF Fits, Backing
  <2>5. ASSUME NEW s \in Server, NEW i \in DOMAIN out'[s], out'[s][i].type = "SeqConv"
        PROVE  Backed(out[s][i].Seq)'
    <3>1. PICK seq : seq = out'[s][i].Seq /\ Backed(seq)
      BY <1>10, <2>1, <2>5 DEF CompatibleInv
    <3>2. Backed(seq)'
      BY <2>3, <3>1
    <3> QED
      BY <3>1, <3>2 DEF Backed, Proposers
  <2>6. \A s \in Server : \A seq \in generated'[s] : Backed(seq)'
    BY <1>10, <2>1, <2>3 DEF CompatibleInv
  <2>7. \A s \in Server : /\ ~worker'[s].running => out'[s] = <<>>
                          /\ Growing(out'[s], Elems(worker'[s].lastProposedSeq))
    BY <1>10, <2>1 DEF CompatibleInv
  <2> QED
    BY <1>1, <2>4, <2>5, <2>6, <2>7 DEF CompatibleInv
<1>15. CompatibleInv'
  BY <1>11, <1>12, <1>13, <1>14
     DEF Next, Receive, generateViewSequenceWithoutConsensus, createForMessage
<1> QED
  BY <1>2, <1>9, <1>15 DEF CompatibleState

(* Of two sequences that quorums proposed, one contains the other: some    *)
(* server proposed both.                                                   *)
LEMMA BackedAreNested ==
  ASSUME StartInv, CompatibleInv, NEW seq, NEW other, Backed(seq), Backed(other)
  PROVE  N!Nested(seq, other)
<1> DEFINE X == Elems(seq)
           Y == Elems(other)
<1>1. AssociatedView \in View
  BY DEF StartInv
<1>2. /\ Proposers(X) \in SUBSET Members(AssociatedView)
      /\ Proposers(Y) \in SUBSET Members(AssociatedView)
  BY DEF Proposers, Server
<1>3. PICK q \in Proposers(X) : q \in Proposers(Y)
  BY <1>1, <1>2, QuorumIntersection DEF Backed
<1>4. PICK i, j \in ProposalsIn(out[q]) : Proposed(out[q], i) = X /\ Proposed(out[q], j) = Y
  BY <1>3 DEF Proposers
<1>5. Growing(out[q], Elems(worker[q].lastProposedSeq))
  BY <1>3 DEF CompatibleInv, Proposers
<1>6. X \subseteq Y \/ Y \subseteq X
  <2> HIDE DEF X, Y
  <2> QED
    BY <1>4, <1>5 DEF Growing
<1>7. N!SeqOps!ToSet(seq) = X /\ N!SeqOps!ToSet(other) = Y
  BY DEF N!SeqOps!ToSet, Elems
<1> QED
  BY <1>6, <1>7 DEF N!Nested

(* However many servers there are, whatever the order of messages and      *)
(* however many servers never propose: the generators of servers whose     *)
(* updates do not conflict keep the promise of module NestedSequences,     *)
(* although some accepted updates that others know nothing of, and         *)
(* although all of them go on proposing after they announced a sequence.   *)
THEOREM CompatibleUpdatesAreNested == Spec /\ Compatible => GeneratesNested
<1> DEFINE old == {currentView[s] : s \in Server}
           new == UNION {recv[s] : s \in Server}
<1>1. Init => N!Init
  <2>1. ASSUME Init PROVE Generated = {}
    <3>1. Server \subseteq Process /\ generated = [s \in Process |-> {}]
      BY <2>1 DEF Init, Server, Members
    <3> QED
      BY <3>1 DEF Generated
  <2> QED
    BY <2>1 DEF N!Init
<1>2. Init /\ Compatible => CompatibleState
  BY CompatibleInit
<1>3. CompatibleState /\ AlikeInv /\ ProposalInv /\ StartInv /\ [Next]_vars => CompatibleState'
  BY CompatibleNext DEF AlikeInv
<1>4. AcceptedInv => \A seq \in Generated : N!Valid(seq)
  BY AcceptedIsValid
<1>5. CompatibleState /\ StartInv => \A seq, other \in Generated : N!Nested(seq, other)
  BY BackedAreNested DEF CompatibleState, CompatibleInv, Generated
<1>6. ASSUME (\A seq \in Generated : N!Valid(seq))', AlikeInv, [Next]_vars,
             (\A seq, other \in Generated : N!Nested(seq, other))'
      PROVE  [N!Next]_<<Generated, old, new>>
  <2>1. UNCHANGED <<AssociatedView, currentView, recv>> /\ Server' = Server
    BY <1>6, StartStays
  <2>2. UNCHANGED old /\ UNCHANGED new
    BY <2>1
  <2>3. \/ UNCHANGED generated
        \/ \E d \in Server : \E seq : generated' = [generated EXCEPT ![d] = @ \cup {seq}]
    BY <1>6 DEF vars, Next, Receive, generateViewSequenceWithoutConsensus, createForMessage,
                getOrCreateViewGenerator, ProposeSeqView, ReceiveSeqConv
  <2>4. CASE UNCHANGED generated
    BY <2>1, <2>2, <2>4 DEF Generated
  <2>5. CASE \E d \in Server : \E seq : generated' = [generated EXCEPT ![d] = @ \cup {seq}]
    <3>1. PICK d \in Server : \E seq : generated' = [generated EXCEPT ![d] = @ \cup {seq}]
      BY <2>5
    <3>2. PICK seq : generated' = [generated EXCEPT ![d] = @ \cup {seq}]
      BY <3>1
    <3>3. Server \subseteq Process /\ generated = [s \in Process |-> generated[s]]
      BY <1>6 DEF Server, Members, AlikeInv, NetworkInv
    <3>4. \A s \in Server : generated'[s] = IF s = d THEN generated[d] \cup {seq} ELSE generated[s]
      BY <3>2, <3>3
    <3>5. Generated' = Generated \cup {seq}
      BY <2>1, <3>4 DEF Generated
    <3>6. N!Valid(seq)
      <4>1. N!Valid(seq)'
        BY <1>6, <3>5
      <4> QED
        BY <2>2, <4>1 DEF N!Valid
    <3>7. \A other \in Generated : N!Nested(seq, other)
      BY <1>6, <3>5
    <3>8. N!Generate(seq) /\ seq \in Generated'
      BY <2>2, <3>5, <3>6, <3>7 DEF N!Generate
    <3> QED
      BY <3>8 DEF N!Next
  <2> QED
    BY <2>3, <2>4, <2>5
<1>7. (\A seq \in Generated : N!Valid(seq))' /\ AlikeInv /\ [Next]_vars
        /\ (\A seq, other \in Generated : N!Nested(seq, other))'
        => [N!Next]_<<Generated, old, new>>
  BY <1>6
<1> QED
  BY <1>1, <1>2, <1>3, <1>4, <1>5, <1>7, AlikeInvariance, AcceptedInvariance,
     ProposalInvariance, StartInvariance, PTL DEF Spec, GeneratesNested, N!Spec
=============================================================================
