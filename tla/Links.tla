------------------------------- MODULE Links -------------------------------
(***************************************************************************)
(* The communication module of one client or server (pkg/comm): the table  *)
(* of links that all its goroutines share, the broadcasts that use them,   *)
(* and the goroutine that repairs links.                                   *)
(*                                                                         *)
(* A crash of a process breaks every connection to it, also the ones that  *)
(* calls under way or the repair loop hold; they stay broken when it comes *)
(* back.  The table's mutex is held across steps only while a goroutine    *)
(* sends a faulty link to the repair loop, through a bounded channel.      *)
(***************************************************************************)
EXTENDS Views, Sequences

CONSTANTS Caller,            \* goroutines that broadcast
          destinationView,   \* the view that each of them broadcasts to
          NoProcess,         \* Go's zero value of a view.Process
          MayCrash,          \* the processes that may crash and come back
          MaxCrashes,        \* bound on their crashes
          ChanCap            \* capacity of repairLinkChan

ASSUME LinksAssumption ==
  /\ destinationView \in [Caller -> View]
  /\ NoProcess \notin Process
  /\ MayCrash \subseteq Process
  /\ MaxCrashes \in Nat /\ ChanCap \in Nat \ {0}

VARIABLES
  up, crashes,           \* the other processes
  commLinkTable,         \* process -> link, or NoLink
  repairLinkChan,
  call,                  \* SendRPCRequest of a caller to a process
  broadcast,             \* BroadcastRPCRequest of a caller
  loop,                  \* local state of repairCommLinkLoop
  faultyCommLinks, commLinkRepairPeriod,
  repairTimer            \* whether it runs or has a tick in its channel

vars == <<up, crashes, commLinkTable, repairLinkChan, call, broadcast, loop,
          faultyCommLinks, commLinkRepairPeriod, repairTimer>>

others == <<up, crashes>>
callVars == <<call, broadcast>>
repairVars == <<loop, faultyCommLinks, commLinkRepairPeriod, repairTimer>>

\* Mutant: a period that no backoff increases.
initialCommLinkRepairPeriod_Zero == 0

initialCommLinkRepairPeriod == 1
maxCommLinkRepairPeriod == 3

Key == Process \cup {NoProcess}
Client == {"nil", "live", "broken"}
Link == [process : Key, rpcClient : Client]
NoLink == [process |-> NoProcess, rpcClient |-> "none"]

-----------------------------------------------------------------------------
(***************************************************************************)
(* Links                                                                   *)
(***************************************************************************)
\* rpc.Dial: the zero process has no address.
Dial(p) == IF p \in Process /\ up[p] THEN "live" ELSE "nil"

\* Looking up a process that is not in the map gives a link of the zero
\* process.
TableEntry(p) ==
  IF commLinkTable[p] = NoLink THEN [process |-> NoProcess, rpcClient |-> "nil"]
  ELSE commLinkTable[p]

SetLink(p, link) == commLinkTable' = [commLinkTable EXCEPT ![p] = link]

commLinkTableMuIsFree == \A c \in Caller, p \in Process : call[c][p].pc # "send"

-----------------------------------------------------------------------------
(***************************************************************************)
(* SendRPCRequest and BroadcastRPCRequest                                  *)
(***************************************************************************)
NoCall == [pc |-> "idle", link |-> NoLink]

NoBroadcast == [waiting |-> FALSE, successTotal |-> 0, failedTotal |-> 0]

\* Mutant: one error more than is tolerated does not end the broadcast.
Answered_OneMore(c, ok) ==
  LET b == [broadcast[c] EXCEPT !.successTotal = @ + (IF ok THEN 1 ELSE 0),
                                !.failedTotal = @ + (IF ok THEN 0 ELSE 1)]
      v == destinationView[c]
      returns == \/ b.failedTotal > NumberOfToleratedFaults(v) + 1
                 \/ b.successTotal = QuorumSize(v)
  IN broadcast' = [broadcast EXCEPT ![c] =
                     IF b.waiting /\ ~returns THEN b ELSE NoBroadcast]

\* The broadcast of c takes one answer.  It returns on a quorum of answers,
\* or on one error more than it tolerates; later answers stay in errorChan.
Answered(c, ok) ==
  LET b == [broadcast[c] EXCEPT !.successTotal = @ + (IF ok THEN 1 ELSE 0),
                                !.failedTotal = @ + (IF ok THEN 0 ELSE 1)]
      v == destinationView[c]
      returns == \/ b.failedTotal > NumberOfToleratedFaults(v)
                 \/ b.successTotal = QuorumSize(v)
  IN broadcast' = [broadcast EXCEPT ![c] =
                     IF b.waiting /\ ~returns THEN b ELSE NoBroadcast]

Return(c, p, ok) ==
  call' = [call EXCEPT ![c][p] = NoCall] /\ Answered(c, ok)

\* Bound: a caller has one broadcast under way.
BroadcastRPCRequest(c) ==
  /\ \A p \in Process : call[c][p] = NoCall
  /\ call' = [call EXCEPT ![c] =
                [p \in Process |-> IF HasMember(destinationView[c], p)
                                   THEN [NoCall EXCEPT !.pc = "get"] ELSE NoCall]]
  /\ broadcast' = [broadcast EXCEPT ![c] = [NoBroadcast EXCEPT !.waiting = TRUE]]
  /\ UNCHANGED <<others, commLinkTable, repairLinkChan, repairVars>>

\* A link of the table.
getCommLink(c, p) ==
  /\ call[c][p].pc = "get" /\ commLinkTableMuIsFree
  /\ commLinkTable[p] # NoLink
  /\ IF commLinkTable[p].rpcClient = "nil" THEN Return(c, p, FALSE)
     ELSE /\ call' = [call EXCEPT ![c][p] = [pc |-> "call", link |-> commLinkTable[p]]]
          /\ UNCHANGED broadcast
  /\ UNCHANGED <<others, commLinkTable, repairLinkChan, repairVars>>

\* A new link.
newCommLink(c, p) ==
  LET link == [process |-> p, rpcClient |-> Dial(p)] IN
  /\ call[c][p].pc = "get" /\ commLinkTableMuIsFree
  /\ commLinkTable[p] = NoLink
  /\ SetLink(p, link)
  /\ call' = [call EXCEPT ![c][p] =
                [pc |-> IF link.rpcClient = "nil" THEN "send" ELSE "call", link |-> link]]
  /\ UNCHANGED <<others, repairLinkChan, broadcast, repairVars>>

CallReturns(c, p) ==
  /\ call[c][p].pc = "call" /\ call[c][p].link.rpcClient = "live"
  /\ Return(c, p, TRUE)
  /\ UNCHANGED <<others, commLinkTable, repairLinkChan, repairVars>>

\* The call fails, because the connection is broken or because the method
\* itself returned an error.  The process is the one that the link names.
setCommLinkFaulty(c, p) ==
  LET process == call[c][p].link.process
      link == [TableEntry(process) EXCEPT !.rpcClient = "nil"]
  IN /\ call[c][p].pc = "call" /\ commLinkTableMuIsFree
     /\ SetLink(process, link)
     /\ call' = [call EXCEPT ![c][p] = [pc |-> "send", link |-> link]]
     /\ UNCHANGED <<others, repairLinkChan, broadcast, repairVars>>

\* The send to repairLinkChan at the end of getCommLink or
\* setCommLinkFaulty, which then unlock the table.
SendToRepair(c, p) ==
  /\ call[c][p].pc = "send"
  /\ Len(repairLinkChan) < ChanCap
  /\ repairLinkChan' = Append(repairLinkChan, call[c][p].link.process)
  /\ Return(c, p, FALSE)
  /\ UNCHANGED <<others, commLinkTable, repairVars>>

-----------------------------------------------------------------------------
(***************************************************************************)
(* repairCommLinkLoop.  loop.link is a connection that repairCommLinkFunc  *)
(* has made and not yet put into the table, loop.todo what a tick has yet  *)
(* to look at.  A timer that was stopped too late leaves a tick that finds *)
(* nothing to do; it is left out.                                          *)
(***************************************************************************)
Idle == [pc |-> "select", link |-> NoLink, todo |-> {}]

\* Mutant: a link that is still broken is dropped.
TakeLink_NotWatched ==
  LET p == Head(repairLinkChan) IN
  /\ loop = Idle /\ repairLinkChan # <<>>
  /\ repairLinkChan' = Tail(repairLinkChan)
  /\ IF Dial(p) = "live"
     THEN loop' = [loop EXCEPT !.link = [process |-> p, rpcClient |-> "live"]]
     ELSE UNCHANGED loop
  /\ UNCHANGED <<faultyCommLinks, commLinkRepairPeriod, repairTimer>>
  /\ UNCHANGED <<others, commLinkTable, callVars>>

TakeLink ==
  LET p == Head(repairLinkChan) IN
  /\ loop = Idle /\ repairLinkChan # <<>>
  /\ repairLinkChan' = Tail(repairLinkChan)
  /\ IF Dial(p) = "live"
     THEN /\ loop' = [loop EXCEPT !.link = [process |-> p, rpcClient |-> "live"]]
          /\ UNCHANGED <<faultyCommLinks, commLinkRepairPeriod, repairTimer>>
     ELSE /\ faultyCommLinks' = faultyCommLinks \cup {p}
          /\ commLinkRepairPeriod' = initialCommLinkRepairPeriod
          /\ repairTimer' = TRUE
          /\ UNCHANGED loop
  /\ UNCHANGED <<others, commLinkTable, callVars>>

\* Only the client of the table's entry is replaced.
repairCommLinkFunc ==
  LET p == loop.link.process IN
  /\ loop.link # NoLink /\ commLinkTableMuIsFree
  /\ SetLink(p, [TableEntry(p) EXCEPT !.rpcClient = loop.link.rpcClient])
  /\ loop' = [loop EXCEPT !.link = NoLink]
  /\ faultyCommLinks' = IF loop.pc = "tick" THEN faultyCommLinks \ {p} ELSE faultyCommLinks
  /\ UNCHANGED <<others, repairLinkChan, callVars, commLinkRepairPeriod, repairTimer>>

Tick ==
  /\ loop = Idle /\ repairTimer
  /\ repairTimer' = FALSE
  /\ loop' = [loop EXCEPT !.pc = "tick", !.todo = faultyCommLinks]
  /\ UNCHANGED <<others, commLinkTable, repairLinkChan, callVars,
                 faultyCommLinks, commLinkRepairPeriod>>

\* Faulty links are taken in the order of a map iteration.
TickRepair(p) ==
  /\ loop.pc = "tick" /\ loop.link = NoLink /\ p \in loop.todo
  /\ loop' = [loop EXCEPT !.todo = @ \ {p},
                          !.link = IF Dial(p) = "live"
                                   THEN [process |-> p, rpcClient |-> "live"] ELSE NoLink]
  /\ UNCHANGED <<others, commLinkTable, repairLinkChan, callVars,
                 faultyCommLinks, commLinkRepairPeriod, repairTimer>>

\* Mutant: the timer is stopped although links are still faulty.
FinishTick_Stops(todo) ==
  /\ loop' = IF todo = {} THEN Idle ELSE [loop EXCEPT !.pc = "delete", !.todo = todo]
  /\ repairTimer' = FALSE

\* The timer runs again, unless all links are repaired.
FinishTick(todo) ==
  /\ loop' = IF todo = {} THEN Idle ELSE [loop EXCEPT !.pc = "delete", !.todo = todo]
  /\ repairTimer' = (todo = {} /\ faultyCommLinks # {})

\* Periods above the maximum are not told apart.
TickBackoff ==
  LET period == IF commLinkRepairPeriod > maxCommLinkRepairPeriod
                THEN commLinkRepairPeriod ELSE 2 * commLinkRepairPeriod
  IN /\ loop.pc = "tick" /\ loop.link = NoLink /\ loop.todo = {}
     /\ commLinkRepairPeriod' = period
     /\ FinishTick(IF period > maxCommLinkRepairPeriod THEN faultyCommLinks ELSE {})
     /\ UNCHANGED <<others, commLinkTable, repairLinkChan, callVars, faultyCommLinks>>

deleteCommLink(p) ==
  /\ loop.pc = "delete" /\ p \in loop.todo /\ commLinkTableMuIsFree
  /\ SetLink(p, NoLink)
  /\ FinishTick(loop.todo \ {p})
  /\ UNCHANGED <<others, repairLinkChan, callVars, faultyCommLinks, commLinkRepairPeriod>>

-----------------------------------------------------------------------------
(***************************************************************************)
(* The other processes                                                     *)
(***************************************************************************)
Broken(link) ==
  IF link.rpcClient = "live" THEN [link EXCEPT !.rpcClient = "broken"] ELSE link

Crash(p) ==
  /\ up[p] /\ crashes < MaxCrashes
  /\ up' = [up EXCEPT ![p] = FALSE]
  /\ crashes' = crashes + 1
  /\ commLinkTable' = [commLinkTable EXCEPT ![p] = Broken(@)]
  /\ call' = [c \in Caller |-> [call[c] EXCEPT ![p].link = Broken(@)]]
  /\ loop' = IF loop.link.process = p THEN [loop EXCEPT !.link = Broken(@)] ELSE loop
  /\ UNCHANGED <<repairLinkChan, broadcast, faultyCommLinks, commLinkRepairPeriod, repairTimer>>

Recover(p) ==
  /\ ~up[p]
  /\ up' = [up EXCEPT ![p] = TRUE]
  /\ UNCHANGED <<crashes, commLinkTable, repairLinkChan, callVars, repairVars>>

-----------------------------------------------------------------------------
Init ==
  /\ crashes = 0
  /\ up = [p \in Process |-> TRUE]
  /\ commLinkTable = [p \in Key |-> NoLink]
  /\ repairLinkChan = <<>>
  /\ call = [c \in Caller |-> [p \in Process |-> NoCall]]
  /\ broadcast = [c \in Caller |-> NoBroadcast]
  /\ loop = Idle
  /\ faultyCommLinks = {}
  /\ commLinkRepairPeriod = initialCommLinkRepairPeriod
  /\ repairTimer = TRUE

SendRPCRequest(c, p) ==
  \/ getCommLink(c, p)
  \/ newCommLink(c, p)
  \/ CallReturns(c, p)
  \/ setCommLinkFaulty(c, p)
  \/ SendToRepair(c, p)

TickSteps ==
  \/ \E p \in Key : TickRepair(p) \/ deleteCommLink(p)
  \/ TickBackoff

Next ==
  \/ \E c \in Caller : BroadcastRPCRequest(c)
  \/ \E c \in Caller : \E p \in Members(destinationView[c]) : SendRPCRequest(c, p)
  \/ TakeLink \/ repairCommLinkFunc \/ Tick \/ TickSteps
  \/ \E p \in MayCrash : Crash(p) \/ Recover(p)

Spec == Init /\ [][Next]_vars

\* Goroutines run, a mutex is not withheld for ever from one that waits for
\* it, and select takes neither of two ready cases for ever.
FairSpec ==
  /\ Spec
  /\ \A c \in Caller : \A p \in Members(destinationView[c]) : SF_vars(SendRPCRequest(c, p))
  /\ SF_vars(TakeLink) /\ SF_vars(Tick)
  /\ SF_vars(TickSteps \/ repairCommLinkFunc)

-----------------------------------------------------------------------------
(***************************************************************************)
(* Properties                                                              *)
(***************************************************************************)
\* Every variable has its type.
TypeOK ==
  /\ up \in [Process -> BOOLEAN]
  /\ crashes \in 0..MaxCrashes
  /\ commLinkTable \in [Key -> Link \cup {NoLink}]
  /\ repairLinkChan \in Seq(Key) /\ Len(repairLinkChan) <= ChanCap
  /\ call \in [Caller -> [Process -> [pc : {"idle", "get", "call", "send"},
                                      link : Link \cup {NoLink}]]]
  /\ broadcast \in [Caller -> [waiting : BOOLEAN, successTotal : 0..Cardinality(Process),
                               failedTotal : 0..Cardinality(Process)]]
  /\ loop \in [pc : {"select", "tick", "delete"}, link : Link \cup {NoLink}, todo : SUBSET Key]
  /\ faultyCommLinks \subseteq Key
  /\ commLinkRepairPeriod \in {1, 2, 4}
  /\ repairTimer \in BOOLEAN

\* A goroutine holds the table while it sends to the full channel, and the
\* repair loop, which alone can make room, waits for the table.
Wedged ==
  /\ ~commLinkTableMuIsFree
  /\ Len(repairLinkChan) = ChanCap
  /\ loop.link # NoLink \/ loop.pc = "delete"

\* SendRPCRequest returns an error to every goroutine that meets one, and a
\* broadcast ends with a quorum of answers or with too many errors, however
\* crashes, repairs and other broadcasts interleave; the only thing that can
\* keep it is a repair loop and a full channel that wait for each other.
BroadcastsEnd == \A c \in Caller : broadcast[c].waiting ~> (~broadcast[c].waiting \/ Wedged)

Watched(p) ==
  \/ \E i \in DOMAIN repairLinkChan : repairLinkChan[i] = p
  \/ p \in faultyCommLinks
  \/ loop.link.process = p
  \/ \E c \in Caller, q \in Process : call[c][q].pc = "send" /\ call[c][q].link.process = p

\* A link that knows its process and has no connection is known to the
\* repair loop, or on its way there: no failed repair, late error of an old
\* connection, or deletion of a link loses it.
FaultyLinksAreWatched ==
  \A p \in Process : commLinkTable[p] = [process |-> p, rpcClient |-> "nil"] => Watched(p)

\* Such a link works again when its process is back, if it was not deleted
\* meanwhile and the loop is not blocked for ever.
FaultyLinksAreRepaired ==
  \A p \in MayCrash :
    commLinkTable[p] = [process |-> p, rpcClient |-> "nil"] ~>
      \/ commLinkTable[p].rpcClient # "nil"
      \/ ~up[p] \/ Wedged
=============================================================================
