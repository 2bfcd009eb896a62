-------------------------- MODULE RegisterObserver --------------------------
(***************************************************************************)
(* Module Register with an observer that knows nothing of timestamps: it   *)
(* compares the values that reads return while nobody writes.              *)
(***************************************************************************)
EXTENDS Register

CONSTANT NoRead      \* no read has returned since the last write

VARIABLES quiet,     \* no write was under way since the read of a client began
          settled    \* the value of the last read of this kind, or NoRead

observerVars == <<quiet, settled>>

\* A write that failed may still take effect at any time.
WritePending ==
  \E c \in Writer : err[c] \/ (pc[c] # "idle" /\ op[c] = "Write")

Begins(c) == pc[c] = "idle" /\ pc'[c] # "idle"

Returns(c) == pc[c] # "idle" /\ pc'[c] = "idle" /\ ~err'[c]

Observe ==
  /\ quiet' = [c \in Client |-> /\ ~WritePending'
                                /\ Begins(c) \/ (quiet[c] /\ pc'[c] # "idle")]
  /\ settled' = IF WritePending' THEN NoRead
                ELSE IF \E c \in Client : quiet[c] /\ Returns(c)
                     THEN LET c == CHOOSE c \in Client : quiet[c] /\ Returns(c)
                          IN msg[c].Value
                ELSE settled

ObserverSpec ==
  /\ Init /\ quiet = [c \in Client |-> FALSE] /\ settled = NoRead
  /\ [][Next /\ Observe]_<<vars, observerVars>>
-----------------------------------------------------------------------------
(* Two reads, the second of which began after the first one returned, with *)
(* no write under way from the first one's beginning to the second one's   *)
(* end, return the same value.                                             *)
SettledReadsAgree ==
  [][settled # NoRead /\ settled' # NoRead => settled' = settled]_settled
=============================================================================
