----------------------------- MODULE UbbdCmdRing -----------------------------
(***************************************************************************)
(* The command (submission) ring of one ubbd queue: the part of the shared *)
(* memory in which the driver writes submit entries (struct ubbd_se) for   *)
(* the userspace backend.                                                  *)
(*                                                                         *)
(* Offsets and lengths are counted in units of UBBD_OP_ALIGN_SIZE, to      *)
(* which ubbd_get_cmd_size rounds every entry.  ring[o] is what is stored  *)
(* at offset o: the header of an entry that starts there, or ZeroHdr for a *)
(* cell that memset() cleared.  A cell outside the live part of the ring   *)
(* keeps whatever an older entry left there.                               *)
(*                                                                         *)
(* The driver threads that take cmdr_lock are the request workers          *)
(* (ubbd_queue_workfn, identified by their request) and the completers     *)
(* (complete_inflight_req).  The backend takes no lock: it reads cmd_head  *)
(* and walks the entries.                                                  *)
(***************************************************************************)
EXTENDS Integers

CONSTANTS
    CMDR_SIZE,      \* sb->cmdr_size
    CMDR_RESERVED,  \* the part of the ring that is never filled
    U32,            \* the modulus of u32 arithmetic
    CmdSizes,       \* the values ubbd_get_cmd_size can return
    Reqs,           \* block layer requests (tags)
    Completers,     \* threads that run complete_inflight_req
    NoOwner         \* cmdr_lock is free; no request

ASSUME RingAssumption ==
    /\ CMDR_SIZE \in Nat
    /\ CMDR_RESERVED \in 1 .. CMDR_SIZE
    /\ U32 \in Nat /\ U32 > 2 * CMDR_SIZE
    /\ CmdSizes \subseteq Nat \ {0}
    /\ Reqs \cap Completers = {}
    /\ NoOwner \notin Reqs \cup Completers

VARIABLES
    cmd_head,   \* sb_addr->cmd_head: where the next entry is written
    cmd_tail,   \* sb_addr->cmd_tail: the oldest entry not yet retired
    ring,       \* the memory of the ring
    cmdr_lock,  \* holder of ubbd_q->cmdr_lock
    want,       \* want[r]: size of the command r's worker is writing, or 0
    se,         \* se[r]: ubbd_req->se, the offset of r's entry, or NULL
    completer,  \* what each completer is doing
    removing,   \* the queue is being removed by force
    bpos,       \* the backend's position in the ring
    taken       \* requests the backend works on

vars == <<cmd_head, cmd_tail, ring, cmdr_lock, want, se, completer,
          removing, bpos, taken>>

Offsets == 0 .. CMDR_SIZE - 1

\* The NULL of an ubbd_req->se that was not set since the memset.
NULL == -1

Header == [op : {"ZERO", "PAD", "CMD"}, len : Nat, done : BOOLEAN,
           priv_data : Reqs \cup {NoOwner}]

ZeroHdr == [op |-> "ZERO", len |-> 0, done |-> FALSE, priv_data |-> NoOwner]

(* Mutant: the length of a padding is not set. *)
Bug_PadHdr(len) ==
    [op |-> "PAD", len |-> 0, done |-> FALSE, priv_data |-> NoOwner]

PadHdr(len) ==
    [op |-> "PAD", len |-> len, done |-> FALSE, priv_data |-> NoOwner]

CmdHdr(r, len) ==
    [op |-> "CMD", len |-> len, done |-> FALSE, priv_data |-> r]

-----------------------------------------------------------------------------
(* UPDATE_CMDR_HEAD and UPDATE_CMDR_TAIL. *)
Update(pos, used) == ((pos % CMDR_SIZE) + used) % CMDR_SIZE

(* How far offset o lies behind position p, going round the ring. *)
Dist(p, o) == IF o >= p THEN o - p ELSE o + (CMDR_SIZE - p)

space_used == Dist(cmd_tail, cmd_head)

(* Mutant: the padding at the end of the ring is not counted. *)
Bug_space_enough(cmd_size) ==
    (CMDR_SIZE - CMDR_RESERVED - space_used) % U32 >= cmd_size

submit_ring_space_enough(cmd_size) ==
    LET space_max       == CMDR_SIZE - CMDR_RESERVED
        space_available == (space_max - space_used) % U32
        space_needed    == IF CMDR_SIZE - cmd_head > cmd_size
                             THEN cmd_size
                             ELSE cmd_size + CMDR_SIZE - cmd_head
    IN  space_available >= space_needed

(* Mutant: no memset(). *)
Bug_WriteEntry(mem, at, h) == [mem EXCEPT ![at] = h]

(* memset() the entry that starts at offset at, then store its header. *)
WriteEntry(mem, at, h) ==
    [o \in Offsets |-> IF o = at THEN h
                       ELSE IF o \in at .. (at + h.len - 1) THEN ZeroHdr
                       ELSE mem[o]]

-----------------------------------------------------------------------------
Init ==
    /\ cmd_head = 0
    /\ cmd_tail = 0
    /\ ring = [o \in Offsets |-> ZeroHdr]
    /\ cmdr_lock = NoOwner
    /\ want = [r \in Reqs |-> 0]
    /\ se = [r \in Reqs |-> NULL]
    /\ completer = [c \in Completers |-> "idle"]
    /\ removing = FALSE
    /\ bpos = 0
    /\ taken = {}

(* A worker takes cmdr_lock, finds enough space and pads the end of the    *)
(* ring if its command does not fit there.  The padding is published by    *)
(* its own store to cmd_head, before the command is written.  When space   *)
(* is short the worker drops the lock and leaves the ring as it was.       *)
insert_padding(r, cmd_size) ==
    /\ ~removing
    /\ cmdr_lock = NoOwner
    /\ se[r] = NULL
    /\ submit_ring_space_enough(cmd_size)
    /\ cmdr_lock' = r
    /\ want' = [want EXCEPT ![r] = cmd_size]
    /\ LET pad_len == CMDR_SIZE - cmd_head IN
       \/ /\ pad_len >= cmd_size
          /\ UNCHANGED <<cmd_head, ring>>
       \/ /\ pad_len < cmd_size
          /\ ring' = WriteEntry(ring, cmd_head, PadHdr(pad_len))
          /\ cmd_head' = Update(cmd_head, pad_len)
    /\ UNCHANGED <<cmd_tail, se, completer, removing, bpos, taken>>

(* The worker that holds cmdr_lock writes its entry (queue_req_se_init),   *)
(* publishes it by moving cmd_head and unlocks.                            *)
submit_entry(r) ==
    /\ cmdr_lock = r
    /\ ring' = WriteEntry(ring, cmd_head, CmdHdr(r, want[r]))
    /\ se' = [se EXCEPT ![r] = cmd_head]
    /\ cmd_head' = Update(cmd_head, want[r])
    /\ want' = [want EXCEPT ![r] = 0]
    /\ cmdr_lock' = NoOwner
    /\ UNCHANGED <<cmd_tail, completer, removing, bpos, taken>>

(* The first half of complete_inflight_req: mark the entry done and end    *)
(* the request.  A request ends because the backend answered it or, in a   *)
(* forced removal, without an answer.                                      *)
complete_inflight_req(c, r) ==
    /\ completer[c] = "idle"
    /\ se[r] # NULL
    /\ r \in taken \/ removing
    /\ ring' = [ring EXCEPT ![se[r]].done = TRUE]
    /\ se' = [se EXCEPT ![r] = NULL]
    /\ taken' = taken \ {r}
    /\ completer' = [completer EXCEPT ![c] = "ended"]
    /\ UNCHANGED <<cmd_head, cmd_tail, cmdr_lock, want, removing, bpos>>

(* The second half takes cmdr_lock ...                                     *)
advance_lock(c) ==
    /\ completer[c] = "ended"
    /\ cmdr_lock = NoOwner
    /\ cmdr_lock' = c
    /\ completer' = [completer EXCEPT ![c] = "advance"]
    /\ UNCHANGED <<cmd_head, cmd_tail, ring, want, se, removing, bpos, taken>>

(* Mutant: the DONE flag is not tested. *)
Bug_advance_cmd_ring(c) ==
    /\ completer[c] = "advance"
    /\ cmd_tail # cmd_head
    /\ cmd_tail' = Update(cmd_tail, ring[cmd_tail].len)
    /\ UNCHANGED <<cmd_head, ring, cmdr_lock, want, se, completer, removing,
                   bpos, taken>>

(* ... retires done entries from the tail, one per iteration ...           *)
advance_cmd_ring(c) ==
    /\ completer[c] = "advance"
    /\ cmd_tail # cmd_head
    /\ ring[cmd_tail].done
    /\ cmd_tail' = Update(cmd_tail, ring[cmd_tail].len)
    /\ UNCHANGED <<cmd_head, ring, cmdr_lock, want, se, completer, removing,
                   bpos, taken>>

(* Mutant: the loop may stop before it has to. *)
Bug_advance_unlock(c) ==
    /\ completer[c] = "advance"
    /\ cmdr_lock' = NoOwner
    /\ completer' = [completer EXCEPT ![c] = "idle"]
    /\ UNCHANGED <<cmd_head, cmd_tail, ring, want, se, removing, bpos, taken>>

(* ... and stops at the first entry that is not done, or at an empty ring. *)
advance_unlock(c) ==
    /\ completer[c] = "advance"
    /\ cmd_tail = cmd_head \/ ~ring[cmd_tail].done
    /\ cmdr_lock' = NoOwner
    /\ completer' = [completer EXCEPT ![c] = "idle"]
    /\ UNCHANGED <<cmd_head, cmd_tail, ring, want, se, removing, bpos, taken>>

(* A forced removal: the queue status is REMOVING and flush_workqueue has  *)
(* returned, so no worker writes to the ring from here on.                 *)
remove_queue ==
    /\ ~removing
    /\ \A r \in Reqs : want[r] = 0
    /\ removing' = TRUE
    /\ UNCHANGED <<cmd_head, cmd_tail, ring, cmdr_lock, want, se, completer,
                   bpos, taken>>

-----------------------------------------------------------------------------
(* The backend, outside this repository: it handles the entries in ring    *)
(* order, retires a padding by setting its DONE flag, takes a command that *)
(* is not done, and answers the commands it took in any order.             *)
backend_pad ==
    /\ bpos # cmd_head
    /\ ring[bpos].op = "PAD"
    /\ ring' = [ring EXCEPT ![bpos].done = TRUE]
    /\ bpos' = Update(bpos, ring[bpos].len)
    /\ UNCHANGED <<cmd_head, cmd_tail, cmdr_lock, want, se, completer,
                   removing, taken>>

backend_take ==
    /\ bpos # cmd_head
    /\ ring[bpos].op = "CMD"
    /\ taken' = IF ring[bpos].done THEN taken
                ELSE taken \cup {ring[bpos].priv_data}
    /\ bpos' = Update(bpos, ring[bpos].len)
    /\ UNCHANGED <<cmd_head, cmd_tail, ring, cmdr_lock, want, se, completer,
                   removing>>

-----------------------------------------------------------------------------
Next ==
    \/ \E r \in Reqs, s \in CmdSizes : insert_padding(r, s)
    \/ \E r \in Reqs : submit_entry(r)
    \/ \E c \in Completers, r \in Reqs : complete_inflight_req(c, r)
    \/ \E c \in Completers : advance_lock(c)
    \/ \E c \in Completers : advance_cmd_ring(c)
    \/ \E c \in Completers : advance_unlock(c)
    \/ remove_queue
    \/ backend_pad
    \/ backend_take

Spec == Init /\ [][Next]_vars

(* A thread that holds or waits for a spinlock is not preempted for ever,  *)
(* and the backend is a live process that answers what it takes.           *)
Fairness ==
    /\ \A r \in Reqs : WF_vars(submit_entry(r))
    /\ \A r \in Reqs :
          SF_vars(\E c \in Completers : complete_inflight_req(c, r))
    /\ \A c \in Completers :
          /\ SF_vars(advance_lock(c))
          /\ WF_vars(advance_cmd_ring(c))
          /\ WF_vars(advance_unlock(c))
    /\ WF_vars(backend_pad)
    /\ WF_vars(backend_take)

FairSpec == Spec /\ Fairness

-----------------------------------------------------------------------------
TypeOK ==
    /\ cmd_head \in Offsets
    /\ cmd_tail \in Offsets
    /\ ring \in [Offsets -> Header]
    /\ cmdr_lock \in Reqs \cup Completers \cup {NoOwner}
    /\ want \in [Reqs -> CmdSizes \cup {0}]
    /\ se \in [Reqs -> Offsets \cup {NULL}]
    /\ completer \in [Completers -> {"idle", "ended", "advance"}]
    /\ removing \in BOOLEAN
    /\ bpos \in Offsets
    /\ taken \subseteq Reqs

(* Who holds cmdr_lock: a worker between insert_padding and submit_entry,  *)
(* or a completer in advance_cmd_ring.                                     *)
LockInv ==
    /\ \A r \in Reqs : cmdr_lock = r <=> want[r] # 0
    /\ \A r \in Reqs : cmdr_lock = r => se[r] = NULL
    /\ \A c \in Completers : cmdr_lock = c <=> completer[c] = "advance"
    /\ \A o \in Offsets : ring[o].op = "CMD" => ring[o].priv_data \in Reqs

(* The ring is never used up: what lies between cmd_tail and cmd_head      *)
(* leaves the reserved part free, so the u32 subtraction in                *)
(* submit_ring_space_enough does not wrap and cmd_head = cmd_tail always   *)
(* means an empty ring.  A worker that passed the check and padded the end *)
(* still has the room for its command.                                     *)
RingBound ==
    /\ space_used <= CMDR_SIZE - CMDR_RESERVED
    /\ \A r \in Reqs : cmdr_lock = r =>
          /\ space_used + want[r] <= CMDR_SIZE - CMDR_RESERVED
          /\ cmd_head + want[r] <= CMDR_SIZE

Live(tail, head, o) == Dist(tail, o) < Dist(tail, head)

EntryAt(o) == Live(cmd_tail, cmd_head, o) /\ ring[o].op # "ZERO"

(* The part of mem from tail to head is tiled by entries. *)
Tiled(mem, tail, head) ==
    /\ tail # head => mem[tail].op # "ZERO"
    /\ \A o \in Offsets : Live(tail, head, o) /\ mem[o].op # "ZERO" =>
          LET n == mem[o].len IN
          /\ n > 0
          /\ o + n <= CMDR_SIZE
          /\ Dist(tail, o) + n <= Dist(tail, head)
          /\ \A x \in (o + 1) .. (o + n - 1) : mem[x].op = "ZERO"
          /\ Update(o, n) # head => mem[Update(o, n)].op # "ZERO"

(* The live part of the ring is tiled by entries: none wraps over the end  *)
(* of the ring or reaches past cmd_head, none overlaps another, and each   *)
(* one ends where the next begins.  So a walk by header lengths, which is  *)
(* how advance_cmd_ring and the backend read the ring, meets every entry   *)
(* and ends at cmd_head.                                                   *)
Tiling == Tiled(ring, cmd_tail, cmd_head)

(* The entry of a request that has not ended stays in the live part of the *)
(* ring, unchanged and not done: neither a wrap of cmd_head nor an         *)
(* out-of-order completion lets another command overwrite it, so the DONE  *)
(* flag that complete_inflight_req sets lands on its own entry.            *)
SeIntact ==
    \A r \in Reqs : se[r] # NULL =>
        /\ Live(cmd_tail, cmd_head, se[r])
        /\ ring[se[r]].op = "CMD"
        /\ ring[se[r]].priv_data = r
        /\ ~ring[se[r]].done

(* Nothing is left behind in the ring: when no request is outstanding and  *)
(* every completer has run advance_cmd_ring, the ring is empty again, with *)
(* its paddings and the entries that were done out of order retired.       *)
IdleRingEmpty ==
    /\ ~removing
    /\ \A r \in Reqs : se[r] = NULL /\ want[r] = 0
    /\ \A c \in Completers : completer[c] = "idle"
    => cmd_head = cmd_tail

(* Every command that was written to the ring is taken by the backend or   *)
(* ended, over every padding and wrap on the way.                          *)
SubmittedIsTaken ==
    \A r \in Reqs : se[r] # NULL ~> (r \in taken \/ se[r] = NULL)

=============================================================================
