# Freestore in TLA+

Specifications, model-checking configurations and proofs for Freestore, a
replicated read/write register whose servers can be added and removed while it
runs. Source paths below are relative to the repository.

## The system

| Part | State | Operations | Hard because |
|---|---|---|---|
| Views (`pkg/view`) | a set of updates `+p` / `-p`, and a cache of the members | constructors, comparisons, quorum size | updates are applied in map order; comparisons count entries first |
| View sequences (`pkg/server/viewseq.go`) | a list of views | append, least and most updated view, equality | the least view is the one that gets installed |
| Client (`pkg/client`) | its view, a sticky error | `Read`, `Write`, two quorum phases | replies, errors and view changes interleave; requests outlive the phase that sent them |
| Register service (`pkg/server/register.go`) | value and timestamp, under `register.mu` | `Read`, `Write`, `GetCurrentView` | answers only requests that use its current view |
| Server start (`server.go`, `admin.go`) | initial view | `New`, `Leave` | a server outside of the view starts with its register locked and asks to join; nothing is stored on disk |
| Reconfiguration (`reconfiguration.go`) | `currentView`, `recv`, `registerLockOnce`, counters of messages | `Reconfig`, timer, install-seq loop, state transfer, leaving | views are installed one by one while clients write, messages repeat, servers crash or lag |
| View generator (`viewgenerator.go`) | proposals and converged sequences per view | `ViewSeq`, `SeqConv` messages, the worker | agreement on sequences without consensus; messages cross, servers create their generators with different updates |
| Consensus (`pkg/consensus`) | promises and accepted proposals, in memory | `Prepare`, `Accept`, `Learn` | alternative to the generator; never enabled by `New` |
| Links (`pkg/comm`) | connection table, faulty links, repair timer | `SendRPCRequest`, `BroadcastRPCRequest`, repair loop | bounded channel used inside a lock; late errors of old connections |
| Commands (`cmd`) | - | flags, loops, measurements | - |

Clients talk to servers by RPC only, and carry the reference of the view they
use; a server with another view answers with its own. Servers talk to each other
by broadcasting RPCs to the members of a view. Inside a server the RPC handlers
and the loops share `currentViewMu`, `register.mu`, `recvMutex` and channels.

What makes each part correct: views form an order and majorities of a view
intersect; the register is atomic while a majority of the newest view answers,
and a client reports an error only without such a majority; a reconfiguration
loses no write, lets no two views answer side by side, forgets no accepted
request, and ends; the sequences that generators make for one view contain one
another; consensus decides once; a broadcast ends and a broken link is repaired.

## Modules

| Module | Models | Used by |
|---|---|---|
| `Views` | `view.go`: a view is its set of updates, which is also what a `ViewRef` identifies | all others |
| `ViewSeqs` | `viewseq.go` | `ViewGenerator`, `Reconfiguration` |
| `AtomicRegister` | abstract: what clients are promised | `Register` (refinement) |
| `Register` | `client.go`, `quorum.go`, the handlers of `register.go`, RPC errors | `MCRegister`, proofs |
| `RegisterObserver` | `Register` with an observer of returned values | `MCRegisterObserver` |
| `RegisterRestart` | `Register` with servers that restart | `MCRegisterRestart` |
| `Reconfiguration` | `reconfiguration.go`, `New`, `Leave`, and a client that writes | `MCReconfiguration` |
| `NestedSequences` | abstract: what generators promise a reconfiguration | `ViewGenerator` (refinement) |
| `ViewGenerator` | the worker of `viewgenerator.go`, and `newView` / `addUpdate` of `view.go`, which make its first view | `MCViewGenerator` |
| `OneDecision` | abstract: what consensus promises | `Consensus` (refinement) |
| `Consensus` | `consensus.go`, `storage.go`, `generateViewSequenceWithConsensus` | `MCConsensus` |
| `Links` | `communication.go`, `repair.go` | `MCLinks` |
| `ViewProofs` | lemmas about views, quorums and the loops over sequences of views | the proofs below |
| `RegisterProofs`, `RegisterAtomicity` | theorems about `Register` | |
| `ReconfigurationProofs` | theorems about `Reconfiguration`, whatever its generators do | `ReconfigurationAgreement` |
| `ReconfigurationAgreement` | theorems about `Reconfiguration` when its generators agree, and when they do | |
| `ViewGeneratorProofs` | theorems about `ViewGenerator` | |
| `ConsensusProofs` | theorems about `Consensus` | |
| `LinksProofs` | theorems about `Links` | |

`MC...` modules define the instances for the `.cfg` files. Definitions whose
name ends in `_...` and that are commented as mutants are bugs put in on purpose:
with one of them in the place of the original, the property it belongs to fails.

### Register

A client is `idle`, in `readQuorum` or in `writeQuorum`. `call[c][s]` is the RPC of
the current phase to server `s`: sent, answered (`ok`, `old`), failed (`error`),
or taken from `resultChan` (`result`, `failed`). Every handler holds both mutexes
and is one step; the client takes one reply per step; the conditions after the
loop body (`SystemFailed`, `QuorumReached`) guard the steps that end a phase.
`msg` is `finalValue` and then `writeMsg`. A phase that ends or starts over in a
newer view leaves its unanswered write requests in `strays`, which servers may
still receive. An RPC to an `Unreliable` process may fail, before or after
the server handled it; a process that is not `Up` only fails. The recursive calls
of `readQuorum` and `writeQuorum` are `Retry`; `couldGetNewView` may find any
running server, or none (`Fail`).

The views of servers are constants here, in a cluster whose last
reconfiguration is over: no quorum of an older view still uses it
(`StableCluster`, part of the assumption on constants). Some servers may still be
behind, and clients may start with any view. `high`, `floor`, `issued` and
`returned` (the record that the last operation of a client returned) are history
variables. `returned` is part of the refinement, so `AtomicRegister` constrains what
each read gives to its caller: a record that was written, and not below the floor of
the read.

### Reconfiguration

Per server: `currentView`, the timestamp in `register` (values do not matter
here), `disabled` (`register.mu` is held by the reconfiguration),
`lockOnceDone`, `recv`, the two tables of the install-seq loop (`last`,
`counter`), and the state updates that counted. `pc` says where the install-seq
loop is: in its loop; waiting in `syncState`; waiting to leave; gone; down; or
`stuck` in a mutex that nobody will release. While it waits it holds
`currentViewMu`, so the server answers nobody (`Serving`).

`gotInstallSeqQuorum` is split where the code waits: up to the wait
(`gotInstallSeqQuorum`, or `gotOldInstallView` when the view is not newer, or
`gotLockedMutex` when a lock is never granted), and after it (`updateCurrentView`,
`ViewInstalled`). Receivers of an install-seq message send it on to everybody, so
messages stay in a set and may be received again; only the comparison with the
last message of the same sender stops them, as in the code.

A run begins in a member of `Start`: the view of all servers, what each has
accepted (`recv`), what processes are going to ask for, and, where a run is about
what happens afterwards, the sequences the generators have made already.

The view generators are a black box. A server creates its generator for a view
with a sequence of its own, when its timer fires (`startReconfiguration`), when it
continues with the rest of a sequence (`InstallOthers` starts the goroutine,
`generateViewSequence` is its step), or when a message of another generator arrives
first (`createForMessage`); these race. The timer looks at `recv` before it waits for
`currentViewMu`, and reads the view and `recv` afterwards. While a view is being
installed the two are separate steps (`hasUpdatesToCurrentView` and the flag
`timer`), for the servers in `SlowTimers`; at other times nothing comes between that
matters, since `recv` only grows.

What is generated (`Decide`) is a sequence that a quorum of generators began with, or
a merge of two proposals; in a conflict the union of their most updated views goes on
top of a sequence that converged before, or of none. A merge of two views takes more
than two members, since `SeqConv.Equal` compares position by position. This is
less than the worker does: it also merges merges, and `Decide` takes only sequences
that contain one another, which three servers with conflicting updates can break (see
"Met outside of the runs"). `ViewGenerator` models the worker itself.

The client writes timestamps 1, 2, ...; `Register` covers how it finds them.
`high`, `accepted` and the field `sentIn` of a state message (the view its sender was in) are
history: no guard reads them.

### ViewGenerator

The generators of one associated view. `worker[s]` is the local state of
`viewGeneratorWorker`: the last proposal of every process, the two converged
sequences, and the two quorum counters, which are lists because the code takes
the first entry that matches. A message is handled in one step, with all the
broadcasts that it causes; the worker is one goroutine that takes jobs from a
channel. Messages of one server may overtake each other. `initialView` has the two
maps of a Go `View`, its entries and the cache of members, since `addUpdate` fills
both in the order of a map iteration. A server that is behind creates its generator
from its own older view. A timer may create one with an empty `recv`, when the updates it
found are in the view by then. The third caller, which proposes the rest of a
sequence that is being installed (`reconfiguration.go:282`), is left to
`Reconfiguration`: here a server begins with one view.

### Consensus

One instance. `consensusWorker` is one goroutine, so a `Prepare`, `Accept` or
`Learn` is one step; `Propose` takes one answer per step. An RPC that fails may
have been handled, or be handled later (`wanted`). The number of the next proposal
comes from the storage. `Proposer` is the member at the leader's position, as
`generateViewSequenceWithConsensus` has it. Only the learners in `Learner` are
followed, since a learner has no influence on anything else.

The calls of `Propose` for one view follow each other. The code does not enforce it:
`startReconfiguration` starts a goroutine for each, and what keeps them apart is the
minute between two timers (`reconfigurationPeriod`). All that is checked and proved of
`Consensus` rests on this.

### Links

The link table of one process. A link's `rpcClient` is nil, live, or broken by a
crash of the other side. The table's mutex is held across steps only while a
goroutine sends to `repairLinkChan`; everything else under it is one step. Dialling
happens before the repair loop takes the mutex, so a new connection may be broken
when it gets into the table. A live call may fail as well, since
`SendRPCRequest` also marks a link as faulty when the remote method returned an
error. Looking up a link that was deleted gives Go's zero value, a link to nobody
(`NoProcess`). The timer runs or not; how long is not modelled.

## Runs

| Run | Instance | Shows |
|---|---|---|
| `register_failures` | 3 servers, RPC errors to 2 of them; writer with 2 operations, reader with 1 | `ReturnedIsHeld`, `TimestampsAreUnique` |
| `register_old_views` | {s1,s2}, then {s2,s3}, then {s3,s4,s5}; s1 gone, s2 behind, RPC errors to s2 and s4, clients in the two old views; fairness | `TypeOK`, `FailsOnlyWithoutMajority`, `ReadsAreFresh`, `Atomic`, `OperationsEnd` |
| `register_two_writers` | 2 servers, 2 writers | violates `SettledReadsAgree` |
| `register_restart` | 1 restart | violates `ReadsAreFresh` |
| `reconfiguration_writes` | five starts: two of three servers leave; s3 replaces s1; s1 asks to leave; two views in one sequence; a second request while the first sequence is being installed. The client writes once (not in the last); the timer of s2 may fire during the transfer of the state | `TypeOK`, `NoLostWrite`, `OneServingView`, `UnlockIsPaired`, `AcceptedUpdatesSurvive` |
| `reconfiguration_leaves` | s1 leaves a view of three, or is replaced in a view of two, and may crash at any moment; fairness | `LeaveIsSafe`, `ReconfigurationEnds` |
| `reconfiguration_deadlock` | s3 joins {s1,s2} and s2 leaves | violates `LockedOnlyOnce` |
| `reconfiguration_timer` | two of five servers leave; the timer of s3 may fire during the transfer of the state; slow links (see below) | violates `NoLostWrite` |
| `view_generator` | two servers with any of four sets of updates each; two of which one is behind; three with the same update | `MembersCacheCoherent`, `QuorumsIntersect`, `ProposalsAreChains`, `SameUpdatesAreInstalled`, `GeneratesNested` |
| `view_generator_stall` | two servers, one of which has an update; fairness | violates `RecvIsApplied` |
| `consensus_leader` | three members, the leader proposes twice, RPCs to s3 may fail; fairness | `TypeOK`, `DecidedIsAccepted`, `DecidesOnce`, `EverybodyLearns` |
| `links` | broadcasts to two processes and calls to one of them, which may crash and come back once; fairness | `TypeOK`, `FaultyLinksAreWatched`, `BroadcastsEnd`, `FaultyLinksAreRepaired` |

Refinements: `Atomic` (`Register` implements `AtomicRegister`; proved for one
writer), `GeneratesNested` (`ViewGenerator` implements `NestedSequences`; proved for
servers with compatible updates), `DecidesOnce` (`Consensus` implements
`OneDecision`; proved).

### Bounds

* `MaxOps` (operations per client): a stale read takes a write, a read that
  returned its value and one more read; a timestamp used twice takes a
  failed write and another one. Longer histories of `Register` are covered by the proofs.
* `MaxWrites`: one write is enough to be lost. `MaxSequences` = 1 bounds what `Decide`
  adds for one view; what can go wrong with two is under "Met outside of the runs". The
  proofs have no such bound.
* Three servers are the smallest view that tolerates a fault. Where a run of
  `Reconfiguration` begins with a filled `recv`, the servers have received the
  requests before it; `Reconfig` leads there from an empty one.
* `reconfiguration_timer` has a state constraint, `SlowLinks`, since five servers are
  beyond an exhaustive search: the client, s1, s2 and s3 are far from s4 and s5,
  install-seq and state messages get through on one side only, and the write returns
  before the first of them is taken. It restricts when messages arrive, so what it
  leaves are behaviours of the code. With `SlowTimers = {}` nothing is violated in the
  same instance (11,688 states).
* Counters of install-seq messages stop at the quorum size, since the code tests
  them for equality only. Channel capacities of the server are not bounded.
* `MaxBroadcasts` is larger than what any server of the `view_generator` runs
  sends, so it cuts nothing off.
* `MaxProposals` = 2: the second call of `Propose` meets what is left of the first.
* `ChanCap` = 1 stands for the 20 places of `repairLinkChan`: with two callers
  the channel gets full as it does with more callers than places. The repair period
  has three values, of which the last is beyond the maximum of the code.

Deadlock checking is off: clients have a bounded number of operations,
reconfigurations and generators end, and a blocked repair loop is a case the
properties of `Links` name.

### Fairness

`Register`: servers that run answer, RPCs to processes that do not run
fail, and a client's goroutine goes on; nothing is assumed about RPC errors
of running servers or about strays. `Reconfiguration`: the timer, the
loops and the delivery of messages get their turn at every server that is
not down; nobody has to ask, to crash or to write. `ViewGenerator`: timers fire and
all messages arrive. `Consensus`: reliable members handle what they get, RPCs to a
process that exited fail, the leader's timer fires; nothing is assumed of unreliable
members. `Links`: goroutines run, a mutex is not withheld for ever from one that
waits for it (Go's mutexes are starvation-free), and `select` takes neither of two
ready cases for ever (it chooses at random); processes need not come back. Go's
scheduler and TCP justify these.

### What the violations show

* `register_two_writers`: a timestamp has no writer in it (`client.go:64` has a
  TODO). Two concurrent writes can leave different values with the same timestamp
  on two servers. `readQuorum` compares timestamps only, and later reads,
  with nothing under way, alternate between the two values, although
  `docs/fault-tolerance-model.md:27` promises linearizability. With one writer the
  theorem `Atomicity` excludes this.
* `register_restart`: a restarted server has an empty register and answers at
  once, so a read can miss a write that returned;
  `docs/fault-tolerance-model.md:49` lists restarts as tolerated.
* `reconfiguration_deadlock`: `New` locks the register of a joiner without
  `registerLockOnce`. When the install-seq messages of the reconfiguration after
  the one it joins with come first, the joiner is a member of their associated
  view, and `registerLockOnce.Do` waits for the mutex that `New` locked. It stays
  there, holding `currentViewMu`.
* `reconfiguration_timer`: {s1,...,s5} becomes {s3,s4,s5}. A write is acknowledged by
  s1, s2 and s3 in the old view. While s3 waits for states, its timer fires and finds
  updates (`reconfiguration.go:33`); it then waits for `currentViewMu`, and after the
  install it proposes the new view for the new view (`reconfiguration.go:44`). The
  message of its generator makes s4, still in the old view with the same updates, propose
  the same, so that view is generated for itself. `gotInstallSeqQuorum` sends the state
  of a server for the associated view without asking whether the server has installed it
  (`reconfiguration.go:164`): s4 and s5 never had the write, are a quorum of the new view,
  send each other their old registers, and install the view without the write.
  `docs/fault-tolerance-model.md:72` says "Read returns the value of the last Write."
* `view_generator_stall`: a server whose generator is created by a message while
  its `recv` is empty proposes the current view (`viewgenerator.go:38`). Of two
  servers, each appends the other's view to its own; the two orders are equal as
  proposals and different as `SeqConv`s (`viewgenerator.go:261`). Nothing is
  generated, and the timer is reset only at the end of a reconfiguration.

### Met outside of the runs

These were found by simulation of larger instances, or while reading, and are
not among the runs because exhaustive checking is out of reach or the model leaves
out what they need.

* Three servers of which two have one update and the third a conflicting one can
  generate sequences that are not nested: proposals that their senders have
  replaced still count (`viewgenerator.go:54`, `:151`), and `SeqConv` has no sender,
  so two announcements of one server count (`viewgenerator.go:158`). With
  compatible updates the sequences are nested (`CompatibleUpdatesAreNested`).
* A write can be lost although the generators agree and no timer interferes, by the same
  check that is missing at `reconfiguration.go:164`. Take {s1,...,s5}, then {s3,s4,s5},
  then {s4,s5}: s4 and s5 are still in the first view when they get the install-seq
  quorum of the last step, send their old registers, and {s4,s5} is installed without a
  write that s1, s2 and s3 acknowledged. TLC follows this trace (33 states,
  `GeneratorsAgree` in all of them) when it is guided. It was met in the proof of
  `NoWriteIsLost`: the step from five to three servers is what its condition
  `ShrinksSlowly` excludes. Three servers are enough for one to lag, or to be so late
  that it sends its state for a view it has passed; no property of the runs was
  violated there (194,219 states).
* When the generators of a view agree on that view itself (as in
  `reconfiguration_timer`, or when a message makes a joiner propose), there is more that
  can stay undone. View-installed messages go to those who are in the associated view and
  not in the new one (`reconfiguration.go:213`), here to nobody, although the comment says
  "Send view-installed to all": a leaver that depends on members who installed the view that way
  waits for ever. The generator of a view is created once, so updates accepted in it later are
  not proposed until a quorum has moved on. A joiner that gets this install-seq quorum
  first is a member of the associated view and waits for its own register lock, as in
  `reconfiguration_deadlock`.
* A server can continue with the state of a minority. `stateUpdateProcessingLoop`
  counts state updates per associated view and not per sender
  (`reconfiguration.go:347`). When the generators made two sequences for a view, one of
  which has the view itself in it (a server with an empty `recv` proposed it), one
  server sends its state for both and is taken for a quorum of three: from a start with
  `generated` = `{<<x>>, <<v, x>>}` TLC finds `StateOfMajority` violated within seconds,
  and simulation a lost write. `README.md:8` of the repository builds on "the idea that
  two majorities always intersect".
* `getCommLink` and `setCommLinkFaulty` send to the bounded `repairLinkChan` while
  they hold the table (`communication.go:57`). If the channel is full and the
  repair loop is about to take the table, both wait for ever, and so does every later
  call. The liveness properties of `links` except this state (`Wedged`); that a waiting
  broadcast always ends without the exception, which is what `communication.go:84`
  says ("It returns an error if it fails to receive a response from a quorum of
  processes"), TLC refutes with a trace of 16 states in the same instance.
* A call that fails after the repair loop deleted its link stores a link of the zero
  process without a connection (`communication.go:53`); a deleted link that is repaired
  gets the zero process as well (`repair.go:37`) and fails in the same way later. The loop
  then dials the zero process, and the real one stays unreachable although it is
  back. `FaultyLinksAreRepaired` is about links that know their process; for all links
  TLC refutes it in the same instance.
* Deleted links stay in `faultyCommLinks` and the period goes on doubling, while
  the comment at `repair.go:15` says that the loop stops trying. Every link that
  cannot be repaired resets the timer (`repair.go:58`), so failures in quick
  succession postpone the others.
* `BroadcastRPCRequest` to a view without members waits for ever; its goroutine leaks.

## Proofs

All theorems hold for every value of the constants that satisfies the assumption of
the module (`RegisterAssumption` and so on): any finite set of processes, any views,
values and bounds. The assumptions are evaluated by TLC in the runs.

| Component | Theorems | Conditions |
|---|---|---|
| Register | `TypeCorrect`, `FreshInvariant`, `ReturnedStaysHeld`, `Freshness`, `ErrorsAreMasked` | |
| | `UniqueTimestamps`, `Atomicity` | one writer |
| Reconfiguration | `ReconfigurationTypeCorrect`, `LeavingIsSafe` | |
| | `OneViewServes`, `UnlocksArePaired`, `StatesComeFromMajority` | `[]GeneratorsAgree` |
| | `NoWriteIsLost` | `[]GeneratorsAgree`, `[]ShrinksSlowly` |
| | `AcceptedUpdatesAreCarried` | `[]GeneratorsAgree`, `[]ShrinksSlowly`, `[]NobodyIsLate` |
| | `NoUpdateIsForgotten` | `[]GeneratorsAgree`, `[]ShrinksSlowly` |
| | `AgreedChangeIsSafe` | `AgreedChange` at the start, `SlowTimers = {}` |
| | `SlowChangeKeepsWrites` | `SlowChange` at the start, `SlowTimers = {}` |
| | `AgreedLeaveKeepsLocks` | `AgreedLeave` at the start |
| View generator | `CacheIsCoherent`, `QuorumsFit`, `ProposalsStayChains`, `GeneratedIsValid`, `SameUpdatesGenerate` | |
| | `CompatibleUpdatesAreNested` | `Compatible` at the start |
| Consensus | `TypeCorrect`, `ResultsAreAccepted`, `ConsensusDecidesOnce` | |
| Links | `LinksTypeCorrect`, `NoLinkIsForgotten` | |

### Register

Two quorums of a view intersect (`QuorumIntersection`, from the
arithmetic of `QuorumSize`), and by `StableCluster` a quorum is only ever reached
in the newest view (`QuorumsAreInNewestView`). `ReadsAreFresh` is not inductive: it
speaks of a full quorum only. `FreshInv` adds what every single reply says
(`CallInv`: an answer `ok` came from a server that has the client's view and still
has at least the timestamp it reported; an acknowledged write is stored),
what the replies together say about `msg` (`FloorInv`), and where errors come from
(`FailInv`). With `ReturnedIsHeld`, any quorum of answers meets the majority
that holds what was returned (`QuorumMeetsFloor`). Since registers only grow
(`RegisterGrows`), strays disturb nothing.

For `Atomicity`, `AtomicInv` adds that everything found in registers, replies
and strays was issued (`IssuedInv`) and that a writer that has not failed issued
nothing beyond its frontier (`WriterInv`): the timestamp of its current write or
what a quorum holds. That is why fail-fast matters: after a failed write the
frontier is unknown. Each step of `Next` then maps to a step of `AtomicRegister` or
leaves its variables unchanged (`AtomicStep`).

### Loops over views

`AppendViews`, `GetLeastUpdatedView`, `GetMostUpdatedView`, `ViewsMoreUpdatedThan`
and `addUpdate` are folds over sequences. Their proofs need no induction over an
operator: `LoopExists` builds, by induction over a set of lengths, a function that
gives the loop's value after each turn, and `LoopRuns` shows that the fold ends with its
last value. What each loop computes is then an invariant of that function:
`LeastIsLeast`, `MostIsMost`, `AppendAdds`, `KeepsNewer`, and `HasViewIsIn` for the
search.

### Reconfiguration

Whatever the generators do, `InstallInv` is inductive: all that is installed was
generated (`ViewsInv`); what a server waits for is newer than its view (`PhaseInv`); those who
say that they installed a view have, are members of it, and say so once
(`InstalledInv`); and `LeaveIsSafe` itself. `Types` adds the types, and `GenInv`
that proposals and their merges are nonempty sequences of views.

The other safety properties are false for arbitrary generators (see
"Met outside of the runs"), so they are proved under `[]GeneratorsAgree`: one
sequence for each view, whose least view is newer. When that is so is the subject
of the next section. Under it `MoveInv` is inductive:

* `ChainInv`: the views that servers reached form a chain, and a newer one is
  reached only through the views that the sequences put before it;
* `SenderInv`: a state message is sent by a member of the associated view, once for
  each sequence; hence the counting per associated view counts senders;
* `PassedInv`: a view that was passed has a quorum of senders of state, none of which
  answers in it any more; so a quorum answers in the newest view only;
* `LockInv`: who holds `register.mu`, and since when.

Lost writes and lost requests are about the states that servers send.
`gotInstallSeqQuorum` lets a server send its state for a view that it has not
installed yet (it lags) and for one that it has passed (it is late). The state of
one that lags covers nothing of the views between. `LagInv` says who they can be:

* `EarlyInv`: a view is passed with the states of a quorum that had not passed it;
* `WaitInv`: those whose states made a view possible wait for it, so they
  do not lag in it;
* `FirstInv`: somebody has installed each view that was reached;
* `OriginInv`: senders had joined, and do not go back to an older view.

So those that lag in a view were members of the one before and not among its
early senders: at most its `NumberOfToleratedFaults`. `ShrinksSlowly` asks that these
are no quorum of the new view, unless it has at most two members, where a quorum is
everybody and `FirstInv` is enough. It is a condition on the generated views
alone; it holds when servers leave one at a time, and in all starts of
`reconfiguration_writes`. Without it a write can be lost (see "Met outside of the
runs"). Then every quorum of states has one that was in the view
(`LaggardsAreFew`), and `StateInv` is inductive: whoever is in a newer view covers
what a quorum of early senders of each older view sent (`CarryInv`, `Covers`), and what
a member once held in a view it still holds, or sent when it left (`KeepInv`,
`Keeps`).

A late state still has at least the timestamp of the early ones, but its `recv` lacks
the updates that are in the sender's view by then (`LateViews`). Therefore
`AcceptedUpdatesAreCarried` has the hypothesis `NobodyIsLate`. TLC finds
nobody late in the starts of `reconfiguration_writes`, and `AcceptedUpdatesSurvive` true
in a three-server instance where some are. With five servers it need not hold (an
argument on paper, out of TLC's reach): let s1, s2, s3 accept an update in the first
view, s3 jump over the second view to the third, which has the update, and then send
its state for the first one; s5, which continues with the states of s3, s4 and its own,
gets to the second view without the update. Nothing is lost by that:
`NoUpdateIsForgotten` drops the hypothesis and concludes that the update is in
`recv` or in the view of some server.

### When the generators agree

`GeneratorsAgree` is a hypothesis of the theorems above and no run checks it: it is
false in general. Without consensus a view may get two sequences, and a timer that
fires during the transfer of the state lets the generators agree on a view that is
installed already (`reconfiguration_timer`). A weaker hypothesis, without the demand that generated
views are newer, would not do: the run shows that a write can be lost then. These
theorems say when it holds, for any number of servers and of updates.

* `AgreedChangeIsSafe`: every member of the first view has accepted the same updates,
  nobody asks for more, and no timer is slow. No bound on the sequences is needed. `ChangeInv`
  says that there is one proposal, one sequence and one new view, and that a server is in
  the old view with all updates or in the new one with none. The point is
  `createForMessage`, which proposes with whatever view and `recv` the server has when a
  message of another generator arrives: before, between and after the change this
  comes to the same view (`OneProposal`). So `OneServingView`, `StateOfMajority`,
  `UnlockIsPaired` and `AcceptedUpdatesSurvive` hold without a hypothesis about
  later states, and so does `LockedOnlyOnce`, which the run
  `reconfiguration_deadlock` violates for a change that was not agreed on: while
  it serves, only who has yet to join holds the register (`FreeInv`).
  `SlowChangeKeepsWrites` adds `NoLostWrite`, with a condition on the sizes of the two
  views.
* `AgreedLeaveKeepsLocks` is about slow timers. If nobody joins, what they add is the new
  view, proposed for itself (`ProposedFor`); then `GeneratorsAgree` is false, but locks are
  still taken once and paired, and updates carried. Where somebody joins this fails: the
  joiner has nothing in `recv`, so it can propose the old view for the new one, and it can
  meet its own register lock (`Calm` excludes the case).

The first two starts of `reconfiguration_writes` and both starts of
`reconfiguration_leaves` are such changes.

### View generator

`CacheIsCoherent` is about `addUpdate` alone: the loop keeps entries and cache
related whatever order the map delivers. `ProposalsStayChains` needs `ProposalInv`:
whoever runs proposes a chain above what it announced last, and the same
holds of the messages on their way. Two chains without a conflict append to a chain
(`AppendChains`), and in a conflict the most updated views are replaced by their union, which is
above both (`MergeStep`). `GeneratedIsValid` rests on
`AcceptedInv`: all views in workers, messages and generated sequences are in
`Justified`, which is closed under union. These hold for all servers and all updates.

When all servers make the same view of their updates (`SameStart`), `AlikeInv`
says where a server stands: it idles, or has one entry in each counter, whose
count is the set of servers it heard of, and has announced exactly when
that set reached the quorum. At the end of all messages everybody was heard by everybody,
which is `SameUpdatesGenerate`.

`CompatibleUpdatesAreNested` asks less: of the views that two servers begin with, one
contains the other (`Compatible`). That is what a request in the middle of a
reconfiguration leads to, and it makes servers propose again and again. Views
then never conflict, because they stay among the initial ones (`WithinInv(Initials)`),
so a proposal is only ever extended. `CompatibleInv` says what follows: the
proposals of a server grow and none is made twice (`Growing`), so the counters of
a worker, which compare sequences and not senders, count different servers (`Fits`,
`Known`); and what is announced or generated has been proposed by a quorum (`Backed`).
Two quorums share a server, of whose two proposals one contains the other: the
sequences are nested. Both steps fail where updates conflict, as a proposal is then
replaced and the old one still counts.

### Consensus

`ConsensusInv` is made of `ValueInv`, `NetworkInv`, `OthersInv`, `PhaseInv` and
`LearnInv`. The code's learners count requests without looking at what they
carry, and its acceptors do not raise their promise when they accept, so the usual
argument about proposal numbers is not available. The proof uses instead that only
the leader proposes and that `Propose` either gets a quorum or ends the process: when
a second proposal begins, a quorum has accepted the first (`LaterCallInv`), its
answers to `Prepare` report that value, and no other value is ever accepted. That the
second proposal begins after the first has ended is part of the model and not
enforced by the code (see "Consensus" above).

### Links

`FaultyLinksAreWatched` is not inductive alone: the end of a tick must lose nothing.
`LinksInv` adds that what the repair loop puts into the table is a connection, and that
it holds none while it deletes (`RepairInv`). `BroadcastInv` bounds the counters of a
broadcast that waits, which the types need.

### Only model-checked

* Liveness: `OperationsEnd`, `ReconfigurationEnds`, `EverybodyLearns`, `BroadcastsEnd`,
  `FaultyLinksAreRepaired`. TLAPS has no rules for fairness and `ENABLED` here.
* The safety of reconfigurations with slow timers, beyond `AgreedLeaveKeepsLocks`, and
  of those where members have accepted different updates or more are asked for.
* `GeneratesNested` for two servers with conflicting updates; for three it is false.
* The violations.

## Not modelled

* The commands, the admin pages and the emulab scripts: flags, profiling,
  measurements and pages around the packages.
* `memoryStorage` (used nowhere), logging, formatting, gob, listening for connections.
* That `ViewSeq.Append` may share the array of its receiver: sequences are values here.
* Restarts of consensus: its storage is in memory, nothing but the number of the
  last proposal is read back, and no server of this version enables it.
* TCP connections that hang without an error, and all durations: timers fire
  some time.
* `Reconfiguration` and `ViewGenerator` in one state space. The two meet in what
  `NestedSequences` and `Decide` say; together they are beyond TLC for three servers.

## What could come next

1. `GeneratesNested` for two servers with conflicting updates. Only the relation between
   their two first views matters, which the run `view_generator` goes through.
2. `OneServingView` for an agreed change with slow timers: `SenderInv` would have to tell
   states for the old view from those for the new view itself.
3. A weaker condition than `AgreedChange`: members whose updates differ and are
   compatible, composed with `CompatibleUpdatesAreNested`.
