--------------------------- MODULE UbbdCmdChannel ---------------------------
(***************************************************************************)
(* What the command ring promises to the driver and to the backend: it is  *)
(* a FIFO channel.  The backend takes every submitted command once, in the *)
(* order of submission, and the driver ends a command the backend took.    *)
(* Only a forced removal ends commands that nobody answered.               *)
(***************************************************************************)
EXTENDS Sequences

CONSTANT Reqs

VARIABLES
    chan,      \* commands submitted and not yet taken, oldest first
    taken,     \* commands the backend works on
    removing   \* the queue is being removed by force

chanVars == <<chan, taken, removing>>

ChanInit == chan = <<>> /\ taken = {} /\ removing = FALSE

Submit(r) ==
    /\ ~removing
    /\ r \notin taken
    /\ \A i \in DOMAIN chan : chan[i] # r
    /\ chan' = Append(chan, r)
    /\ UNCHANGED <<taken, removing>>

Take ==
    /\ chan # <<>>
    /\ taken' = taken \cup {Head(chan)}
    /\ chan' = Tail(chan)
    /\ UNCHANGED removing

Finish(r) ==
    /\ r \in taken
    /\ taken' = taken \ {r}
    /\ UNCHANGED <<chan, removing>>

Remove == ~removing /\ removing' = TRUE /\ UNCHANGED <<chan, taken>>

Abort(r) ==
    /\ removing
    /\ chan' = SelectSeq(chan, LAMBDA q : q # r)
    /\ UNCHANGED <<taken, removing>>

ChanNext ==
    \/ \E r \in Reqs : Submit(r) \/ Finish(r) \/ Abort(r)
    \/ Take
    \/ Remove

ChanSpec == ChanInit /\ [][ChanNext]_chanVars

=============================================================================
