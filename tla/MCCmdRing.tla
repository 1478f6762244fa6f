------------------------------ MODULE MCCmdRing ------------------------------
(***************************************************************************)
(* TLC instance of UbbdCmdRing, and the FIFO channel it implements.        *)
(***************************************************************************)
EXTENDS UbbdCmdRing, Sequences

(* The commands met on a walk of at most n entries from offset o. *)
CmdsFrom[o \in Offsets, n \in 0 .. CMDR_SIZE] ==
    IF o = cmd_head \/ n = 0 THEN <<>>
    ELSE (IF ring[o].op = "CMD" /\ ~ring[o].done
            THEN <<ring[o].priv_data>> ELSE <<>>)
         \o CmdsFrom[Update(o, ring[o].len), n - 1]

Channel == INSTANCE UbbdCmdChannel WITH chan <- CmdsFrom[bpos, CMDR_SIZE]

(* The ring implements the channel: the commands between the backend's     *)
(* position and cmd_head are the channel's content, whatever paddings,     *)
(* wraps and out-of-order completions queue_workfn and                     *)
(* complete_inflight_req go through.                                       *)
ImplementsChannel == Channel!ChanSpec

=============================================================================
