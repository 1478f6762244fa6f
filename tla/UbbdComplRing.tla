---------------------------- MODULE UbbdComplRing ----------------------------
(***************************************************************************)
(* The completion ring of one ubbd queue: the part of the shared memory in *)
(* which the backend writes completion entries (struct ubbd_ce) and from   *)
(* which ubbd_queue_complete, in the write(2) of a backend thread, takes   *)
(* them.                                                                   *)
(*                                                                         *)
(* Positions count in entries.  A completer moves compr_tail past an entry *)
(* under compr_lock and reads the entry afterwards, without a lock: its    *)
(* priv_data when it searches the inflight list, its result only when it   *)
(* ends the request.  What keeps the backend from filling the slot again   *)
(* in between is not in this ring: the command that is being completed     *)
(* still occupies the command ring, whose tail moves over commands that    *)
(* are done in order only.  The command ring is therefore here too, as the *)
(* commands req_tid hands out, numbered in the order of submission.        *)
(***************************************************************************)
EXTENDS Integers, Sequences, FiniteSets

CONSTANTS
    NSlots,      \* sb->compr_size / sizeof(struct ubbd_ce)
    MaxCmds,     \* the most commands that fit in the command ring
    Completers,  \* backend threads that write to the kring device
    MaxSubmits,  \* bound: commands submitted
    MaxReposts   \* bound: completions a restarted backend posts again

ASSUME ComplAssumption ==
    /\ NSlots \in Nat /\ MaxCmds \in Nat \ {0}
    /\ IsFiniteSet(Completers)
    /\ MaxSubmits \in Nat /\ MaxReposts \in Nat

(* The sizes of the two rings, which the header shared with the backend    *)
(* fixes: nothing in the driver compares them.                             *)
ASSUME RingsFit ==
    /\ 2 * MaxCmds + MaxReposts <= NSlots + 1
    /\ MaxCmds + MaxReposts < NSlots

VARIABLES
    compr_head,  \* sb_addr->compr_head: where the backend writes next
    compr_tail,  \* sb_addr->compr_tail: the next entry to take
    slot,        \* the memory of the ring
    filling,     \* the command whose entry the backend is writing, or 0
    req_tid,     \* ubbd_q->req_tid: the id of the last command submitted
    oldest,      \* the command at cmd_tail; req_tid + 1 if there is none
    done,        \* commands with UBBD_SE_HDR_DONE
    inflight,    \* commands whose request is on inflight_reqs
    comp,        \* comp[c]: the state of completer c
    removing,    \* the queue's status is REMOVING
    spliced,     \* requests that a forced removal is going to end
    posts,       \* history: the ids of the entries posted, in order
    taken,       \* history: the number of entries taken
    ended,       \* history: ended[t], the result request t ended with
    reposts      \* how much of MaxReposts is used

rvars == <<compr_head, slot, filling, posts, reposts>>
cvars == <<req_tid, oldest>>
vars == <<rvars, cvars, compr_tail, taken, done, inflight, comp, removing,
          spliced, ended>>

Slots == 0 .. NSlots - 1
Tids == 1 .. MaxSubmits

(* priv_data is the id of the answered command.  The result is the answer  *)
(* to a command, named by the id of that command.                          *)
Entry == [priv_data : Tids \cup {0}, result : Tids \cup {0}]

CompState == [pc : {"idle", "pop", "fetch", "end", "advance"}, idx : Slots,
              pos : Nat, tid : Tids \cup {0}]

EIO == -5

(* A completer at p, with no entry in hand. *)
At(p) == [pc |-> p, idx |-> 0, pos |-> 0, tid |-> 0]

Answered == {posts[i] : i \in 1 .. Len(posts)} \cup {filling}

-----------------------------------------------------------------------------
Init ==
    /\ compr_head = 0 /\ compr_tail = 0
    /\ slot = [i \in Slots |-> [priv_data |-> 0, result |-> 0]]
    /\ filling = 0
    /\ req_tid = 0 /\ oldest = 1
    /\ done = {} /\ inflight = {}
    /\ comp = [c \in Completers |-> At("idle")]
    /\ removing = FALSE /\ spliced = {}
    /\ posts = <<>> /\ taken = 0
    /\ ended = [t \in Tids |-> 0]
    /\ reposts = 0

(* UPDATE_COMPR_TAIL, and the same step of the backend on compr_head. *)
Update(pos) == ((pos % NSlots) + 1) % NSlots

(* Mutant: commands are submitted into a full ring. *)
Bug_ring_space == TRUE

(* submit_ring_space_enough: commands leave the ring at its tail only. *)
ring_space == req_tid + 1 - oldest < MaxCmds

(* ubbd_queue_workfn: the request is listed and its command submitted. *)
submit ==
    /\ ~removing
    /\ req_tid < MaxSubmits
    /\ ring_space
    /\ req_tid' = req_tid + 1
    /\ inflight' = inflight \cup {req_tid + 1}
    /\ UNCHANGED <<rvars, oldest, compr_tail, taken, done, comp, removing,
                   spliced, ended>>

-----------------------------------------------------------------------------
(* The backend, outside this repository.  It answers each command once, in *)
(* any order, and looks at no index of the kernel: it writes the entry at  *)
(* compr_head, priv_data first ...                                         *)
backend_fill(t) ==
    /\ filling = 0
    /\ t \in 1 .. req_tid
    /\ t \notin Answered
    /\ filling' = t
    /\ slot' = [slot EXCEPT ![compr_head].priv_data = t]
    /\ UNCHANGED <<compr_head, posts, reposts, cvars, compr_tail, taken, done,
                   inflight, comp, removing, spliced, ended>>

(* ... after a restart perhaps for a command that was answered before ...  *)
backend_refill(t) ==
    /\ filling = 0
    /\ reposts < MaxReposts
    /\ t \in Answered \ {0}
    /\ filling' = t
    /\ reposts' = reposts + 1
    /\ slot' = [slot EXCEPT ![compr_head].priv_data = t]
    /\ UNCHANGED <<compr_head, posts, cvars, compr_tail, taken, done,
                   inflight, comp, removing, spliced, ended>>

(* ... then the result, and publishes the entry by moving compr_head.      *)
backend_post ==
    /\ filling # 0
    /\ slot' = [slot EXCEPT ![compr_head].result = filling]
    /\ compr_head' = Update(compr_head)
    /\ posts' = Append(posts, filling)
    /\ filling' = 0
    /\ UNCHANGED <<reposts, cvars, compr_tail, taken, done, inflight, comp,
                   removing, spliced, ended>>

-----------------------------------------------------------------------------
(* ubbd_irqcontrol and the entry of ubbd_queue_complete. *)
complete_enter(c) ==
    /\ comp[c].pc = "idle"
    /\ ~removing
    /\ comp' = [comp EXCEPT ![c].pc = "pop"]
    /\ UNCHANGED <<rvars, cvars, compr_tail, taken, done, inflight, removing,
                   spliced, ended>>

(* get_complete_entry finds an entry. *)
get_complete_entry == compr_tail # compr_head

(* The section under compr_lock: the ring is empty, or compr_tail moves    *)
(* past the entry, which the completer keeps a pointer to.                 *)
complete_pop(c) ==
    /\ comp[c].pc = "pop"
    /\ \/ /\ ~get_complete_entry
          /\ comp' = [comp EXCEPT ![c] = At("idle")]
          /\ UNCHANGED <<compr_tail, taken>>
       \/ /\ get_complete_entry
          /\ comp' = [comp EXCEPT ![c] = [pc |-> "fetch", idx |-> compr_tail,
                                          pos |-> taken, tid |-> 0]]
          /\ compr_tail' = Update(compr_tail)
          /\ taken' = taken + 1
    /\ UNCHANGED <<rvars, cvars, done, inflight, removing, spliced, ended>>

(* fetch_inflight_req(ubbd_q, ce->priv_data) under inflight_reqs_lock. *)
complete_fetch(c) ==
    LET t == slot[comp[c].idx].priv_data IN
    /\ comp[c].pc = "fetch"
    /\ \/ /\ t \in inflight
          /\ inflight' = inflight \ {t}
          /\ comp' = [comp EXCEPT ![c].pc = "end", ![c].tid = t]
       \/ /\ t \notin inflight
          /\ comp' = [comp EXCEPT ![c] = At("pop")]
          /\ UNCHANGED inflight
    /\ UNCHANGED <<rvars, cvars, compr_tail, taken, done, removing, spliced,
                   ended>>

(* complete_inflight_req(ubbd_q, ubbd_req, ce->result), up to cmdr_lock. *)
complete_end(c) ==
    LET t == comp[c].tid IN
    /\ comp[c].pc = "end"
    /\ done' = done \cup {t}
    /\ ended' = [ended EXCEPT ![t] = slot[comp[c].idx].result]
    /\ comp' = [comp EXCEPT ![c] = At("advance")]
    /\ UNCHANGED <<rvars, cvars, compr_tail, taken, inflight, removing,
                   spliced>>

(* Mutant: cmd_tail moves to the end of any command that is done. *)
Bug_advance_cmd_ring(d) ==
    /\ oldest' \in {oldest} \cup {t + 1 : t \in d}
    /\ oldest' >= oldest

(* advance_cmd_ring retires the commands that are done (the set d), from   *)
(* the tail on and up to the first that is not.                            *)
advance_cmd_ring(d) ==
    /\ oldest' \in oldest .. req_tid + 1
    /\ oldest .. oldest' - 1 \subseteq d
    /\ oldest' \notin d

complete_advance(c) ==
    /\ comp[c].pc = "advance"
    /\ advance_cmd_ring(done)
    /\ comp' = [comp EXCEPT ![c].pc = "pop"]
    /\ UNCHANGED <<rvars, req_tid, compr_tail, taken, done, inflight,
                   removing, spliced, ended>>

-----------------------------------------------------------------------------
(* A forced removal: REMOVING, after which flush_workqueue leaves no       *)
(* worker, then the splice of the inflight list ...                        *)
remove_set ==
    /\ ~removing
    /\ removing' = TRUE
    /\ UNCHANGED <<rvars, cvars, compr_tail, taken, done, inflight, comp,
                   spliced, ended>>

remove_splice ==
    /\ removing
    /\ inflight # {}
    /\ spliced' = spliced \cup inflight
    /\ inflight' = {}
    /\ UNCHANGED <<rvars, cvars, compr_tail, taken, done, comp, removing,
                   ended>>

(* ... and the end of its requests (ubbd_queue_end_inflight_reqs).         *)
remove_end(t) ==
    /\ t \in spliced
    /\ spliced' = spliced \ {t}
    /\ done' = done \cup {t}
    /\ ended' = [ended EXCEPT ![t] = EIO]
    /\ advance_cmd_ring(done \cup {t})
    /\ UNCHANGED <<rvars, req_tid, compr_tail, taken, inflight, comp,
                   removing>>

-----------------------------------------------------------------------------
Complete(c) ==
    complete_pop(c) \/ complete_fetch(c) \/ complete_end(c) \/ complete_advance(c)

Next ==
    \/ submit
    \/ \E t \in Tids : backend_fill(t) \/ backend_refill(t)
    \/ backend_post
    \/ \E c \in Completers : complete_enter(c) \/ Complete(c)
    \/ remove_set \/ remove_splice
    \/ \E t \in Tids : remove_end(t)

Spec == Init /\ [][Next]_vars

-----------------------------------------------------------------------------
TypeOK ==
    /\ compr_head \in Slots /\ compr_tail \in Slots
    /\ slot \in [Slots -> Entry]
    /\ filling \in Tids \cup {0}
    /\ req_tid \in 0 .. MaxSubmits
    /\ oldest \in 1 .. req_tid + 1
    /\ done \subseteq Tids /\ inflight \subseteq Tids
    /\ comp \in [Completers -> CompState]
    /\ removing \in BOOLEAN /\ spliced \subseteq Tids
    /\ posts \in Seq(Tids)
    /\ taken \in 0 .. Len(posts)
    /\ ended \in [Tids -> Tids \cup {0, EIO}]
    /\ reposts \in 0 .. MaxReposts

(* The ring never holds as many entries as it has slots.  The backend does *)
(* not look at compr_tail, and get_complete_entry takes equal indexes for  *)
(* an empty ring: one entry too many and all of them would be lost.        *)
NoOverflow == Len(posts) - taken < NSlots

(* An entry stays as it was posted until the completer that took it has    *)
(* read both of its fields, although its slot was given back before: as    *)
(* long as no completion is posted twice, at most 2 * MaxCmds - 1 commands *)
(* are answered after it while its own command is not retired.             *)
EntryIntact ==
    reposts = 0 =>
        \A c \in Completers :
            comp[c].pc \in {"fetch", "end"} =>
                slot[comp[c].idx] = [priv_data |-> posts[comp[c].pos + 1],
                                     result |-> posts[comp[c].pos + 1]]

(* A request that a completion ends gets the result of its own command,    *)
(* never that of an entry that was written over the one it was taken from. *)
OwnResult ==
    reposts = 0 => \A t \in Tids : ended[t] \in {0, t, EIO}

=============================================================================
