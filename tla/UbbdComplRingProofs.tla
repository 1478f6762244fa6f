------------------------- MODULE UbbdComplRingProofs -------------------------
(***************************************************************************)
(* Proofs about UbbdComplRing, for every number of slots, commands and     *)
(* completers that fit (RingsFit).                                         *)
(***************************************************************************)
EXTENDS UbbdComplRing, FiniteSetTheorems, TLAPS

One(b) == IF b THEN 1 ELSE 0

Holding(c) == comp[c].pc \in {"fetch", "end"}
Fetching == {c \in Completers : comp[c].pc = "fetch"}

(* The indexes are the counts of entries posted and taken, modulo the      *)
(* number of slots.                                                        *)
Indexes ==
    /\ compr_head = Len(posts) % NSlots
    /\ compr_tail = taken % NSlots
    /\ \A c \in Completers : Holding(c) => /\ comp[c].pos < taken
                                           /\ comp[c].idx = comp[c].pos % NSlots
    /\ \A c, d \in Completers :
          Holding(c) /\ Holding(d) /\ c # d => comp[c].pos # comp[d].pos

(* A command is inflight, held by a completer or a removal, or done.       *)
Owners ==
    /\ 1 .. oldest - 1 \subseteq done
    /\ done \cup inflight \cup spliced \subseteq 1 .. req_tid
    /\ done \cap inflight = {} /\ done \cap spliced = {}
    /\ inflight \cap spliced = {}
    /\ req_tid < oldest + MaxCmds
    /\ \A c \in Completers : comp[c].pc = "end" =>
          comp[c].tid \in (1 .. req_tid) \ (done \cup inflight \cup spliced)
    /\ \A c, d \in Completers :
          comp[c].pc = "end" /\ comp[d].pc = "end" /\ c # d
              => comp[c].tid # comp[d].tid

(* At most MaxCmds commands are submitted whose entry was not taken. *)
Counts ==
    /\ req_tid <= taken + MaxCmds
    /\ ~removing => req_tid + Cardinality(Fetching) <= taken + Cardinality(inflight)
    /\ Answered \subseteq 0 .. req_tid
    /\ Cardinality(Answered \ {0}) + reposts = Len(posts) + One(filling # 0)
    /\ \A i \in 1 .. Len(posts) : posts[i] < i + MaxCmds

(* Every command is answered at most once, and has its own entry. *)
Once ==
    /\ \A i, j \in 1 .. Len(posts) : posts[i] = posts[j] => i = j
    /\ \A i \in 1 .. Len(posts) : posts[i] # filling
OwnTid == \A c \in Completers : comp[c].pc = "end" => comp[c].tid = posts[comp[c].pos + 1]

(* Before a removal, a command leaves the inflight list through its entry. *)
LeftByEntry ==
    ~removing => \A t \in (1 .. req_tid) \ inflight :
        \E i \in 1 .. taken :
            /\ posts[i] = t
            /\ \A c \in Completers : comp[c].pc = "fetch" => comp[c].pos # i - 1

(* Less than MaxCmds commands are submitted behind one whose entry is not  *)
(* read to the end.                                                        *)
Lag ==
    \A t \in 1 .. req_tid :
        \/ req_tid < t + MaxCmds
        \/ \E i \in 1 .. taken :
              /\ posts[i] = t
              /\ \A c \in Completers : Holding(c) => comp[c].pos # i - 1

Window == reposts = 0 => Once /\ OwnTid /\ LeftByEntry /\ Lag

(* A slot holds the last entry that was posted to it, until the backend    *)
(* starts to write the next one.                                           *)
Memory ==
    /\ \A i \in 1 .. Len(posts) :
          Len(posts) + One(filling # 0) < i + NSlots =>
              slot[(i - 1) % NSlots] = [priv_data |-> posts[i], result |-> posts[i]]
    /\ filling # 0 => slot[compr_head].priv_data = filling

ComplInv == TypeOK /\ Indexes /\ Owners /\ Counts /\ Window /\ Memory /\ OwnResult

-----------------------------------------------------------------------------
(* Arithmetic of positions in the ring. *)

(* Division with a remainder. *)
LEMMA DivMod ==
    ASSUME NEW n \in Nat, n > 0, NEW k \in Nat
    PROVE  /\ k = n * (k \div n) + (k % n)
           /\ k % n \in 0 .. n - 1
           /\ k \div n \in Int
OBVIOUS

(* The remainder is unique. *)
LEMMA ModUnique ==
    ASSUME NEW n \in Nat, n > 0, NEW a \in Int, NEW b \in Int,
           NEW r \in 0 .. n - 1, NEW s \in 0 .. n - 1, n * a + r = n * b + s
    PROVE  r = s
<1>1. n * (b - a) = r - s
  OBVIOUS
<1>2. CASE b - a = 0
  BY <1>2
<1>3. CASE b - a >= 1
  <2>1. n * (b - a) >= n
    BY <1>3
  <2> QED BY <2>1, <1>1
<1>4. CASE b - a <= -1
  <2>1. n * (b - a) <= -n
    BY <1>4
  <2> QED BY <2>1, <1>1
<1> QED BY <1>2, <1>3, <1>4

(* The index of the next position is the update of the index. *)
LEMMA UpdateStep ==
    ASSUME NEW k \in Nat
    PROVE  /\ Update(k % NSlots) = (k + 1) % NSlots
           /\ k % NSlots \in Slots
<1> DEFINE r == k % NSlots  a == k \div NSlots
           s == (k + 1) % NSlots  b == (k + 1) \div NSlots
<1>0. NSlots \in Nat /\ NSlots > 0
  BY ComplAssumption, RingsFit
<1>1. k = NSlots * a + r /\ r \in 0 .. NSlots - 1 /\ a \in Int
  BY <1>0, DivMod
<1>2. k + 1 = NSlots * b + s /\ s \in 0 .. NSlots - 1 /\ b \in Int
  BY <1>0, DivMod
<1>3. Update(r) = (r + 1) % NSlots
  <2>1. r % NSlots = r
    BY <1>0, <1>1
  <2> QED BY <2>1, Zenon DEF Update
<1> SUFFICES (r + 1) % NSlots = s
  BY <1>1, <1>3 DEF Slots
<1> HIDE DEF r, a, s, b
<1>4. CASE r + 1 < NSlots
  <2>1. NSlots * a + (r + 1) = NSlots * b + s
    BY <1>0, <1>1, <1>2
  <2>2. r + 1 = s
    BY <2>1, <1>0, <1>1, <1>2, <1>4, ModUnique
  <2> QED BY <2>2, <1>0, <1>2, <1>4
<1>5. CASE r + 1 = NSlots
  <2>1. NSlots * (a + 1) + 0 = NSlots * b + s
    BY <1>0, <1>1, <1>2, <1>5
  <2>2. s = 0
    BY <2>1, <1>0, <1>1, <1>2, ModUnique
  <2>3. NSlots % NSlots = 0
    BY <1>0
  <2> QED BY <2>2, <2>3, <1>5
<1> QED BY <1>0, <1>1, <1>4, <1>5

(* Two positions less than the size of the ring apart have different       *)
(* indexes.                                                                *)
LEMMA ModDistinct ==
    ASSUME NEW k \in Nat, NEW j \in Nat, k < j, j < k + NSlots
    PROVE  k % NSlots # j % NSlots
<1> DEFINE a == k \div NSlots  b == j \div NSlots  r == k % NSlots
<1> SUFFICES ASSUME r = j % NSlots PROVE FALSE
  OBVIOUS
<1>0. NSlots \in Nat /\ NSlots > 0
  BY ComplAssumption, RingsFit
<1>1. k = NSlots * a + r /\ j = NSlots * b + r /\ a \in Int /\ b \in Int /\ r \in Int
  BY <1>0, DivMod
<1> HIDE DEF a, b, r
<1>2. j - k = NSlots * (b - a)
  BY <1>0, <1>1
<1>3. CASE b - a <= 0
  BY <1>0, <1>1, <1>2, <1>3
<1>4. CASE b - a >= 1
  BY <1>0, <1>1, <1>2, <1>4
<1> QED BY <1>1, <1>3, <1>4

-----------------------------------------------------------------------------
(* Two consecutive ranges inside a set make one. *)
LEMMA PrefixJoin ==
    ASSUME NEW a \in Int, NEW b \in Int, NEW S,
           1 .. a - 1 \subseteq S, a .. b - 1 \subseteq S
    PROVE  1 .. b - 1 \subseteq S
<1> SUFFICES ASSUME NEW x \in 1 .. b - 1 PROVE x \in S
  OBVIOUS
<1>1. x \in 1 .. a - 1 \/ x \in a .. b - 1
  OBVIOUS
<1> QED BY <1>1

(* A bound on a distance holds on when the base moves up. *)
LEMMA LtShift ==
    ASSUME NEW q \in Int, NEW a \in Int, NEW b \in Int, NEW m \in Int, q < a + m, a <= b
    PROVE  q < b + m
OBVIOUS

(* A completer that finds the ring not empty takes an entry that was       *)
(* posted.                                                                 *)
LEMMA NotEmpty ==
    ASSUME TypeOK, Indexes, get_complete_entry
    PROVE  taken < Len(posts)
BY DEF TypeOK, Indexes, get_complete_entry

(* Every action preserves the types. *)
LEMMA TypeNext ==
    ASSUME TypeOK, Indexes, Owners, [Next]_vars
    PROVE  TypeOK'
<1>0. NSlots \in Nat /\ NSlots > 0 /\ MaxSubmits \in Nat /\ MaxReposts \in Nat
  BY ComplAssumption, RingsFit
<1> USE DEF TypeOK, Tids
<1>a. At("idle") \in CompState /\ At("pop") \in CompState /\ At("advance") \in CompState
  BY <1>0 DEF Slots, At, CompState
<1>1. CASE submit
  BY <1>1, <1>0 DEF submit, rvars
<1>2. ASSUME NEW t \in Tids, backend_fill(t) \/ backend_refill(t) PROVE TypeOK'
  <2>1. slot' \in [Slots -> Entry]
    BY <1>2 DEF backend_fill, backend_refill, Entry
  <2> QED BY <1>2, <2>1, <1>0 DEF backend_fill, backend_refill, cvars
<1>3. CASE backend_post
  <2>1. compr_head' \in Slots
    <3>1. Len(posts) \in Nat /\ Len(posts) + 1 \in Nat
      OBVIOUS
    <3> QED BY <3>1, <1>3, UpdateStep DEF backend_post, Indexes
  <2>2. posts' \in Seq(Tids) /\ Len(posts') = Len(posts) + 1
    BY <1>3 DEF backend_post
  <2>3. slot' \in [Slots -> Entry]
    BY <1>3 DEF backend_post, Entry
  <2> QED BY <1>3, <2>1, <2>2, <2>3, <1>0 DEF backend_post, cvars
<1>4. ASSUME NEW c \in Completers, complete_enter(c) PROVE TypeOK'
  <2>1. comp' \in [Completers -> CompState]
    BY <1>4 DEF complete_enter, CompState
  <2> QED BY <1>4, <2>1 DEF complete_enter, rvars, cvars
<1>5. ASSUME NEW c \in Completers, complete_pop(c) PROVE TypeOK'
  <2>1. CASE ~get_complete_entry
    <3>1. comp' \in [Completers -> CompState]
      BY <1>5, <2>1, <1>a DEF complete_pop
    <3> QED BY <1>5, <2>1, <3>1 DEF complete_pop, rvars, cvars
  <2>2. CASE get_complete_entry
    <3>1. [pc |-> "fetch", idx |-> compr_tail, pos |-> taken, tid |-> 0] \in CompState
      BY DEF CompState
    <3>2. comp' \in [Completers -> CompState]
      BY <1>5, <2>2, <3>1 DEF complete_pop
    <3>3. taken + 1 \in 0 .. Len(posts)
      BY <2>2, NotEmpty
    <3>4. Update(compr_tail) \in Slots
      <4>1. taken \in Nat /\ taken + 1 \in Nat
        OBVIOUS
      <4> QED BY <4>1, UpdateStep DEF Indexes
    <3> QED BY <1>5, <2>2, <3>2, <3>3, <3>4 DEF complete_pop, rvars, cvars
  <2> QED BY <2>1, <2>2
<1>6. ASSUME NEW c \in Completers, complete_fetch(c) PROVE TypeOK'
  <2>1. slot[comp[c].idx].priv_data \in Tids \cup {0}
    BY DEF CompState, Entry
  <2>2. comp' \in [Completers -> CompState]
    <3>1. [comp[c] EXCEPT !.pc = "end", !.tid = slot[comp[c].idx].priv_data] \in CompState
      BY <2>1 DEF CompState
    <3> QED BY <1>6, <3>1, <1>a DEF complete_fetch
  <2> QED BY <1>6, <2>2 DEF complete_fetch, rvars, cvars
<1>7. ASSUME NEW c \in Completers, complete_end(c) PROVE TypeOK'
  <2>1. comp[c].tid \in Tids
    BY <1>7 DEF complete_end, Owners, CompState
  <2>2. comp' \in [Completers -> CompState]
    BY <1>7, <1>a DEF complete_end
  <2>3. slot[comp[c].idx].result \in Tids \cup {0}
    BY DEF CompState, Entry
  <2> QED BY <1>7, <2>1, <2>2, <2>3 DEF complete_end, rvars, cvars
<1>8. ASSUME NEW c \in Completers, complete_advance(c) PROVE TypeOK'
  <2>1. comp' \in [Completers -> CompState]
    BY <1>8 DEF complete_advance, CompState
  <2> QED BY <1>8, <2>1, <1>0 DEF complete_advance, advance_cmd_ring, rvars
<1>9. CASE remove_set \/ remove_splice
  BY <1>9 DEF remove_set, remove_splice, rvars, cvars
<1>10. ASSUME NEW t \in Tids, remove_end(t) PROVE TypeOK'
  BY <1>10, <1>0 DEF remove_end, advance_cmd_ring, rvars
<1>11. CASE UNCHANGED vars
  BY <1>11 DEF vars, rvars, cvars
<1> QED
  BY <1>1, <1>2, <1>3, <1>4, <1>5, <1>6, <1>7, <1>8, <1>9, <1>10, <1>11
  DEF Next, Complete

(* A step of completer c changes no other completer.  It leaves c at the   *)
(* place that follows, and c keeps its entry from the pop to the end.      *)
LEMMA CompStep ==
    ASSUME TypeOK, NEW c \in Completers, complete_enter(c) \/ Complete(c)
    PROVE  /\ \A d \in Completers : d # c => comp'[d] = comp[d]
           /\ complete_enter(c) => comp'[c].pc = "pop"
           /\ complete_pop(c) =>
                 IF get_complete_entry
                 THEN /\ comp'[c].pc = "fetch" /\ comp'[c].idx = compr_tail
                      /\ comp'[c].pos = taken
                 ELSE comp'[c].pc = "idle"
           /\ complete_fetch(c) =>
                 IF slot[comp[c].idx].priv_data \in inflight
                 THEN /\ comp'[c].pc = "end" /\ comp'[c].idx = comp[c].idx
                      /\ comp'[c].pos = comp[c].pos
                      /\ comp'[c].tid = slot[comp[c].idx].priv_data
                 ELSE comp'[c].pc = "pop"
           /\ complete_end(c) => comp'[c].pc = "advance"
           /\ complete_advance(c) => comp'[c].pc = "pop"
<1>1. comp \in [Completers -> CompState] /\ comp[c] \in CompState
  BY DEF TypeOK
<1>2. \A d \in Completers : d # c => comp'[d] = comp[d]
  BY <1>1 DEF Complete, complete_enter, complete_pop, complete_fetch, complete_end, complete_advance
<1>3. complete_enter(c) => comp'[c].pc = "pop"
  BY <1>1 DEF complete_enter, CompState
<1>4. complete_pop(c) =>
         IF get_complete_entry
         THEN comp'[c] = [pc |-> "fetch", idx |-> compr_tail, pos |-> taken, tid |-> 0]
         ELSE comp'[c] = At("idle")
  BY <1>1 DEF complete_pop
<1>5. complete_fetch(c) =>
         IF slot[comp[c].idx].priv_data \in inflight
         THEN comp'[c] = [comp[c] EXCEPT !.pc = "end", !.tid = slot[comp[c].idx].priv_data]
         ELSE comp'[c] = At("pop")
  BY <1>1 DEF complete_fetch
<1>6. complete_end(c) => comp'[c] = At("advance")
  BY <1>1 DEF complete_end
<1>7. complete_advance(c) => comp'[c].pc = "pop"
  BY <1>1 DEF complete_advance, CompState
<1>8. /\ At("idle").pc = "idle" /\ At("pop").pc = "pop" /\ At("advance").pc = "advance"
      /\ LET r == [pc |-> "fetch", idx |-> compr_tail, pos |-> taken, tid |-> 0]
         IN  r.pc = "fetch" /\ r.idx = compr_tail /\ r.pos = taken
  BY DEF At
<1>9. LET t == slot[comp[c].idx].priv_data
          r == [comp[c] EXCEPT !.pc = "end", !.tid = t]
      IN  r.pc = "end" /\ r.idx = comp[c].idx /\ r.pos = comp[c].pos /\ r.tid = t
  BY <1>1 DEF CompState
<1> QED BY <1>2, <1>3, <1>4, <1>5, <1>6, <1>7, <1>8, <1>9

(* Every action keeps the indexes and the positions in step. *)
LEMMA IndexesNext ==
    ASSUME TypeOK, Indexes, [Next]_vars
    PROVE  Indexes'
<1> USE DEF Indexes, Holding
<1>0. /\ Len(posts) \in Nat /\ taken \in Nat
      /\ \A c \in Completers : comp[c].pos \in Nat
  BY DEF TypeOK, CompState
<1>1. CASE UNCHANGED <<compr_head, posts, compr_tail, taken, comp>>
  BY <1>1
<1>2. CASE backend_post
  <2>1. Len(posts') = Len(posts) + 1
    BY <1>2 DEF backend_post, TypeOK
  <2>2. compr_head' = Len(posts') % NSlots
    BY <1>0, <1>2, <2>1, UpdateStep DEF backend_post
  <2> QED BY <1>2, <2>2 DEF backend_post
<1>3. ASSUME NEW c \in Completers, complete_pop(c), get_complete_entry PROVE Indexes'
  <2>1. compr_tail' = (taken + 1) % NSlots /\ taken' = taken + 1
        /\ UNCHANGED <<compr_head, posts>>
    BY <1>0, <1>3, UpdateStep DEF complete_pop, rvars
  <2>2. /\ \A d \in Completers : d # c => comp'[d] = comp[d]
        /\ comp'[c].pc = "fetch" /\ comp'[c].idx = compr_tail /\ comp'[c].pos = taken
    BY <1>3, CompStep DEF Complete
  <2> QED BY <1>0, <2>1, <2>2
<1>4. ASSUME NEW c \in Completers,
             complete_enter(c) \/ Complete(c), ~(complete_pop(c) /\ get_complete_entry)
      PROVE  Indexes'
  <2>1. UNCHANGED <<compr_head, posts, compr_tail, taken>>
    BY <1>4 DEF Complete, complete_enter, complete_pop, complete_fetch, complete_end,
                complete_advance, rvars
  <2>2. /\ \A d \in Completers : d # c => comp'[d] = comp[d]
        /\ comp'[c].pc \in {"fetch", "end"} =>
              comp[c].pc = "fetch" /\ comp'[c].idx = comp[c].idx /\ comp'[c].pos = comp[c].pos
    BY <1>4, CompStep DEF Complete, complete_fetch
  <2> QED BY <1>0, <2>1, <2>2
<1> QED
  BY <1>1, <1>2, <1>3, <1>4
  DEF Next, Complete, submit, backend_fill, backend_refill, remove_set, remove_splice,
      remove_end, vars, rvars, cvars

(* Every action keeps each command with one owner. *)
LEMMA OwnersNext ==
    ASSUME TypeOK, Owners, [Next]_vars
    PROVE  Owners'
<1> USE DEF Owners
<1>0. req_tid \in Nat /\ oldest \in 1 .. req_tid + 1 /\ MaxCmds \in Nat
  BY ComplAssumption DEF TypeOK
<1>1. CASE UNCHANGED <<req_tid, oldest, done, inflight, spliced, comp>>
  BY <1>1
<1>2. CASE submit
  BY <1>0, <1>2 DEF submit, ring_space
<1>3. ASSUME NEW c \in Completers, complete_enter(c) \/ complete_pop(c) PROVE Owners'
  <2>1. UNCHANGED <<req_tid, oldest, done, inflight, spliced>>
    BY <1>3 DEF complete_enter, complete_pop, cvars
  <2>2. comp'[c].pc # "end" /\ \A d \in Completers : d # c => comp'[d] = comp[d]
    BY <1>3, CompStep DEF Complete
  <2> QED BY <2>1, <2>2
<1>4. ASSUME NEW c \in Completers, complete_fetch(c) PROVE Owners'
  <2> DEFINE t == slot[comp[c].idx].priv_data
  <2>1. UNCHANGED <<req_tid, oldest, done, spliced>>
    BY <1>4 DEF complete_fetch, cvars
  <2>2. \A d \in Completers : d # c => comp'[d] = comp[d]
    BY <1>4, CompStep DEF Complete
  <2>3. CASE t \in inflight
    <3>1. inflight' = inflight \ {t} /\ comp'[c].tid = t
      BY <1>4, <2>3, CompStep DEF Complete, complete_fetch
    <3> HIDE DEF t
    <3> QED BY <2>1, <2>2, <2>3, <3>1
  <2>4. CASE t \notin inflight
    <3>1. inflight' = inflight /\ comp'[c].pc = "pop"
      BY <1>4, <2>4, CompStep DEF Complete, complete_fetch
    <3> HIDE DEF t
    <3> QED BY <2>1, <2>2, <3>1
  <2> QED BY <2>3, <2>4
<1>5. ASSUME NEW c \in Completers, complete_end(c) PROVE Owners'
  <2>1. UNCHANGED <<req_tid, oldest, inflight, spliced>> /\ done' = done \cup {comp[c].tid}
        /\ comp[c].pc = "end"
    BY <1>5 DEF complete_end, cvars
  <2>2. comp'[c].pc # "end" /\ \A d \in Completers : d # c => comp'[d] = comp[d]
    BY <1>5, CompStep DEF Complete
  <2> QED BY <2>1, <2>2
<1>6. ASSUME NEW c \in Completers, complete_advance(c) PROVE Owners'
  <2>1. UNCHANGED <<req_tid, done, inflight, spliced>> /\ advance_cmd_ring(done)
    BY <1>6 DEF complete_advance
  <2>2. comp'[c].pc # "end" /\ \A d \in Completers : d # c => comp'[d] = comp[d]
    BY <1>6, CompStep DEF Complete
  <2>3. 1 .. oldest' - 1 \subseteq done' /\ req_tid' < oldest' + MaxCmds
    <3>1. /\ oldest' \in oldest .. req_tid + 1 /\ oldest .. oldest' - 1 \subseteq done'
          /\ 1 .. oldest - 1 \subseteq done'
      BY <2>1 DEF advance_cmd_ring
    <3>2. 1 .. oldest' - 1 \subseteq done'
      <4>1. oldest \in Int /\ oldest' \in Int
        BY <1>0, <3>1
      <4> QED BY <3>1, <4>1, PrefixJoin
    <3>3. req_tid' < oldest' + MaxCmds
      <4>1. req_tid < oldest + MaxCmds /\ req_tid' = req_tid
        BY <2>1
      <4>2. /\ oldest \in Int /\ oldest' \in Int /\ oldest <= oldest'
            /\ req_tid \in Int /\ MaxCmds \in Int
        BY <1>0, <3>1
      <4> QED BY <4>1, <4>2, LtShift
    <3> QED BY <3>2, <3>3
  <2> QED BY <2>1, <2>2, <2>3
<1>7. CASE remove_set \/ remove_splice
  BY <1>7 DEF remove_set, remove_splice, cvars
<1>8. ASSUME NEW t \in Tids, remove_end(t) PROVE Owners'
  <2>1. /\ UNCHANGED <<req_tid, inflight, comp>> /\ advance_cmd_ring(done \cup {t})
        /\ t \in spliced /\ done' = done \cup {t} /\ spliced' = spliced \ {t}
    BY <1>8 DEF remove_end
  <2>2. 1 .. oldest' - 1 \subseteq done' /\ req_tid' < oldest' + MaxCmds
    <3>1. /\ oldest' \in oldest .. req_tid + 1 /\ oldest .. oldest' - 1 \subseteq done'
          /\ 1 .. oldest - 1 \subseteq done'
      BY <2>1 DEF advance_cmd_ring
    <3>2. 1 .. oldest' - 1 \subseteq done'
      <4>1. oldest \in Int /\ oldest' \in Int
        BY <1>0, <3>1
      <4> QED BY <3>1, <4>1, PrefixJoin
    <3>3. req_tid' < oldest' + MaxCmds
      <4>1. req_tid < oldest + MaxCmds /\ req_tid' = req_tid
        BY <2>1
      <4>2. /\ oldest \in Int /\ oldest' \in Int /\ oldest <= oldest'
            /\ req_tid \in Int /\ MaxCmds \in Int
        BY <1>0, <3>1
      <4> QED BY <4>1, <4>2, LtShift
    <3> QED BY <3>2, <3>3
  <2> QED BY <2>1, <2>2
<1> QED
  BY <1>1, <1>2, <1>3, <1>4, <1>5, <1>6, <1>7, <1>8
  DEF Next, Complete, backend_fill, backend_refill, backend_post, vars, cvars

(* The inflight commands lie between the tail and the head of the command  *)
(* ring.                                                                   *)
LEMMA InflightBound ==
    ASSUME TypeOK, Owners
    PROVE  /\ IsFiniteSet(inflight)
           /\ Cardinality(inflight) \in Nat
           /\ Cardinality(inflight) <= req_tid + 1 - oldest
<1>1. req_tid \in Int /\ oldest \in Int /\ oldest <= req_tid + 1
  BY DEF TypeOK
<1>2. inflight \subseteq oldest .. req_tid
  <2> SUFFICES ASSUME NEW t \in inflight PROVE t \in oldest .. req_tid
    OBVIOUS
  <2>1. t \in 1 .. req_tid /\ t \notin 1 .. oldest - 1
    BY DEF Owners
  <2> QED BY <1>1, <2>1
<1>3. IsFiniteSet(oldest .. req_tid) /\ Cardinality(oldest .. req_tid) = req_tid + 1 - oldest
  BY <1>1, FS_Interval
<1> QED BY <1>2, <1>3, FS_Subset, FS_CardinalityType

(* Every action keeps the counts. *)
LEMMA CountsNext ==
    ASSUME TypeOK, Indexes, Owners, Counts, [Next]_vars
    PROVE  Counts'
<1> DEFINE Entries == {posts[i] : i \in 1 .. Len(posts)}
           A == Answered \ {0}
<1>0. /\ req_tid \in Nat /\ oldest \in 1 .. req_tid + 1 /\ MaxCmds \in Nat \ {0}
      /\ taken \in Nat /\ Len(posts) \in Nat /\ taken <= Len(posts) /\ reposts \in Nat
      /\ posts \in Seq(Tids)
  BY ComplAssumption DEF TypeOK
<1>c. /\ req_tid <= taken + MaxCmds
      /\ ~removing => req_tid + Cardinality(Fetching) <= taken + Cardinality(inflight)
      /\ Answered \subseteq 0 .. req_tid
      /\ Cardinality(A) + reposts = Len(posts) + One(filling # 0)
      /\ \A i \in 1 .. Len(posts) : posts[i] < i + MaxCmds
  BY DEF Counts
<1>i. /\ IsFiniteSet(inflight) /\ Cardinality(inflight) \in Nat
      /\ Cardinality(inflight) <= req_tid + 1 - oldest
  BY InflightBound
<1>f. IsFiniteSet(Fetching) /\ Cardinality(Fetching) \in Nat
  <2>1. Fetching \subseteq Completers
    BY DEF Fetching
  <2> QED BY <2>1, ComplAssumption, FS_Subset, FS_CardinalityType
<1>a. IsFiniteSet(A) /\ Cardinality(A) \in Nat
  <2>1. A \subseteq 0 .. req_tid
    BY <1>c
  <2>2. IsFiniteSet(0 .. req_tid)
    BY <1>0, FS_Interval
  <2> QED BY <2>1, <2>2, FS_Subset, FS_CardinalityType
<1>1. CASE submit
  <2>1. /\ req_tid' = req_tid + 1 /\ inflight' = inflight \cup {req_tid + 1}
        /\ UNCHANGED <<posts, filling, reposts, taken, comp, removing>>
        /\ ~removing /\ req_tid + 1 - oldest < MaxCmds
    BY <1>1 DEF submit, ring_space, rvars
  <2>2. Answered' = Answered /\ Fetching' = Fetching
    BY <2>1 DEF Answered, Fetching
  <2>3. Cardinality(inflight') = Cardinality(inflight) + 1
    <3>1. req_tid + 1 \notin inflight
      BY <1>0 DEF Owners
    <3> QED BY <2>1, <3>1, <1>i, FS_AddElement
  <2>4. req_tid' <= taken' + MaxCmds
    BY <1>0, <1>c, <1>i, <1>f, <2>1
  <2>5. req_tid' + Cardinality(Fetching') <= taken' + Cardinality(inflight')
    BY <1>0, <1>c, <1>i, <1>f, <2>1, <2>2, <2>3
  <2>6. Answered' \subseteq 0 .. req_tid'
    BY <1>0, <1>c, <2>1, <2>2
  <2> QED BY <1>c, <2>1, <2>2, <2>4, <2>5, <2>6 DEF Counts
<1>2. ASSUME NEW t \in Tids, backend_fill(t) \/ backend_refill(t) PROVE Counts'
  <2>1. /\ UNCHANGED <<req_tid, inflight, posts, taken, comp, removing>>
        /\ filling = 0 /\ filling' = t
    BY <1>2 DEF backend_fill, backend_refill, cvars
  <2>2. Fetching' = Fetching
    BY <2>1 DEF Fetching
  <2>3. /\ t # 0 /\ A = Entries \ {0} /\ (Answered \ {0})' = (Entries \ {0}) \cup {t}
        /\ Answered' = Entries \cup {t} /\ Answered = Entries \cup {0}
    BY <2>1 DEF Answered, Tids
  <2>4. One(filling # 0) = 0 /\ One(filling' # 0) = 1
    BY <2>1, <2>3 DEF One
  <2>5. Cardinality((Answered \ {0})') + reposts' = Len(posts') + One(filling' # 0)
    <3>a. (Answered \ {0})' = A \cup {t} /\ Len(posts') = Len(posts)
      BY <2>1, <2>3
    <3>b. Cardinality((Answered \ {0})') = Cardinality(A \cup {t})
      BY <3>a, Zenon
    <3>1. CASE backend_fill(t)
      <4>1. t \notin A /\ reposts' = reposts
        BY <3>1 DEF backend_fill
      <4>2. Cardinality(A \cup {t}) = Cardinality(A) + 1
        BY <4>1, <1>a, FS_AddElement
      <4> HIDE DEF A
      <4> QED BY <4>1, <4>2, <3>a, <3>b, <2>4, <1>c, <1>0, <1>a
    <3>2. CASE backend_refill(t)
      <4>1. t \in A /\ reposts' = reposts + 1
        BY <3>2 DEF backend_refill
      <4>2. Cardinality(A \cup {t}) = Cardinality(A)
        BY <4>1, <1>a, FS_AddElement
      <4> HIDE DEF A
      <4> QED BY <4>1, <4>2, <3>a, <3>b, <2>4, <1>c, <1>0, <1>a
    <3> QED BY <1>2, <3>1, <3>2
  <2>6. Answered' \subseteq 0 .. req_tid'
    <3>1. t \in 0 .. req_tid
      BY <1>2, <1>c, <1>0 DEF backend_fill, backend_refill
    <3> QED BY <3>1, <2>1, <2>3, <1>c
  <2> QED BY <1>c, <2>1, <2>2, <2>5, <2>6 DEF Counts
<1>3. CASE backend_post
  <2>1. /\ UNCHANGED <<req_tid, inflight, reposts, taken, comp, removing>>
        /\ filling # 0 /\ filling' = 0 /\ posts' = Append(posts, filling) /\ filling \in Tids
    BY <1>3 DEF backend_post, cvars, TypeOK
  <2>2. Fetching' = Fetching
    BY <2>1 DEF Fetching
  <2>3. /\ Len(posts') = Len(posts) + 1
        /\ \A i \in 1 .. Len(posts) : posts'[i] = posts[i]
        /\ posts'[Len(posts) + 1] = filling
    BY <2>1, <1>0
  <2>4. Answered' = Answered \cup {0}
    BY <2>1, <2>3, <1>0 DEF Answered
  <2>5. (Answered \ {0})' = A
    BY <2>4
  <2>6. One(filling # 0) = 1 /\ One(filling' # 0) = 0
    BY <2>1 DEF One
  <2>7. filling <= req_tid /\ filling \in Int
    BY <1>c, <2>1, <1>0 DEF Answered
  <2>8. \A i \in 1 .. Len(posts') : posts'[i] < i + MaxCmds
    <3> SUFFICES ASSUME NEW i \in 1 .. Len(posts') PROVE posts'[i] < i + MaxCmds
      OBVIOUS
    <3>1. CASE i \in 1 .. Len(posts)
      BY <3>1, <2>3, <1>c
    <3>2. CASE i = Len(posts) + 1
      BY <3>2, <2>3, <2>7, <1>c, <1>0
    <3> QED BY <3>1, <3>2, <2>3, <1>0
  <2>9. Cardinality((Answered \ {0})') + reposts' = Len(posts') + One(filling' # 0)
    <3> HIDE DEF A
    <3>1. reposts' = reposts /\ Len(posts') = Len(posts) + 1
      BY <2>1, <2>3
    <3>2. Cardinality((Answered \ {0})') = Cardinality(A)
      BY <2>5, Zenon
    <3> QED BY <3>1, <3>2, <2>6, <1>c, <1>0, <1>a
  <2> QED BY <1>c, <1>0, <2>1, <2>2, <2>4, <2>8, <2>9 DEF Counts
<1>4. ASSUME NEW c \in Completers, complete_pop(c) PROVE Counts'
  <2>1. /\ UNCHANGED <<req_tid, inflight, posts, filling, reposts, removing>>
        /\ comp[c].pc = "pop"
    BY <1>4 DEF complete_pop, rvars, cvars
  <2>2. Answered' = Answered
    BY <2>1 DEF Answered
  <2>3. \A d \in Completers : d # c => comp'[d] = comp[d]
    BY <1>4, CompStep DEF Complete
  <2>4. CASE get_complete_entry
    <3>1. comp'[c].pc = "fetch" /\ taken' = taken + 1
      BY <1>4, <2>4, CompStep DEF Complete, complete_pop
    <3>2. Fetching' = Fetching \cup {c} /\ c \notin Fetching
      BY <3>1, <2>1, <2>3 DEF Fetching
    <3>3. Cardinality(Fetching') = Cardinality(Fetching) + 1
      BY <3>2, <1>f, FS_AddElement
    <3>4. ~removing => req_tid + Cardinality(Fetching') <= taken + 1 + Cardinality(inflight)
      BY <3>3, <1>f, <1>i, <1>c, <1>0
    <3>5. req_tid <= taken + 1 + MaxCmds
      BY <1>c, <1>0
    <3> QED BY <3>1, <3>4, <3>5, <2>1, <2>2, <1>c DEF Counts
  <2>5. CASE ~get_complete_entry
    <3>1. comp'[c].pc = "idle" /\ taken' = taken
      BY <1>4, <2>5, CompStep DEF Complete, complete_pop
    <3>2. Fetching' = Fetching
      BY <3>1, <2>1, <2>3 DEF Fetching
    <3> QED BY <3>1, <3>2, <2>1, <2>2, <1>c DEF Counts
  <2> QED BY <2>4, <2>5
<1>5. ASSUME NEW c \in Completers, complete_fetch(c) PROVE Counts'
  <2> DEFINE t == slot[comp[c].idx].priv_data
  <2>1. /\ UNCHANGED <<req_tid, taken, posts, filling, reposts, removing>>
        /\ comp[c].pc = "fetch"
        /\ inflight' = inflight \ {t}
    BY <1>5 DEF complete_fetch, rvars, cvars
  <2>2. Answered' = Answered
    BY <2>1 DEF Answered
  <2>3. comp'[c].pc # "fetch" /\ \A d \in Completers : d # c => comp'[d] = comp[d]
    BY <1>5, CompStep DEF Complete
  <2>4. Cardinality(Fetching') = Cardinality(Fetching) - 1
    <3>1. Fetching' = Fetching \ {c} /\ c \in Fetching
      BY <2>1, <2>3 DEF Fetching
    <3> QED BY <3>1, <1>f, FS_RemoveElement
  <2>5. Cardinality(inflight') \in Nat /\ Cardinality(inflight') >= Cardinality(inflight) - 1
    <3>1. t \in inflight => Cardinality(inflight \ {t}) = Cardinality(inflight) - 1
      BY <1>i, FS_RemoveElement
    <3>2. t \notin inflight => inflight \ {t} = inflight
      OBVIOUS
    <3>3. IsFiniteSet(inflight \ {t}) /\ Cardinality(inflight \ {t}) \in Nat
      BY <1>i, FS_Subset, FS_CardinalityType
    <3>4. Cardinality(inflight') = Cardinality(inflight \ {t})
      BY <2>1, Zenon
    <3>5. t \notin inflight => Cardinality(inflight \ {t}) = Cardinality(inflight)
      BY <3>2, Zenon
    <3> HIDE DEF t
    <3> QED BY <3>1, <3>3, <3>4, <3>5, <1>i
  <2>6. ~removing => req_tid + Cardinality(Fetching') <= taken + Cardinality(inflight')
    <3> HIDE DEF t
    <3> QED BY <2>4, <2>5, <1>c, <1>f, <1>i, <1>0
  <2> QED BY <2>1, <2>2, <2>6, <1>c DEF Counts
<1>6. ASSUME NEW c \in Completers, complete_enter(c) \/ complete_end(c) \/ complete_advance(c)
      PROVE  Counts'
  <2>1. /\ UNCHANGED <<req_tid, taken, inflight, posts, filling, reposts, removing>>
        /\ comp[c].pc # "fetch"
    BY <1>6 DEF complete_enter, complete_end, complete_advance, rvars, cvars
  <2>2. comp'[c].pc # "fetch" /\ \A d \in Completers : d # c => comp'[d] = comp[d]
    BY <1>6, CompStep DEF Complete
  <2>3. Fetching' = Fetching /\ Answered' = Answered
    BY <2>1, <2>2 DEF Fetching, Answered
  <2> QED BY <2>1, <2>3, <1>c DEF Counts
<1>7. CASE remove_set \/ remove_splice \/ UNCHANGED vars \/ \E t \in Tids : remove_end(t)
  <2>1. UNCHANGED <<req_tid, taken, posts, filling, reposts, comp>>
    BY <1>7 DEF remove_set, remove_splice, remove_end, vars, rvars, cvars
  <2>2. Fetching' = Fetching /\ Answered' = Answered
    BY <2>1 DEF Fetching, Answered
  <2>3. CASE remove_set \/ remove_splice
    <3>1. removing' = TRUE
      BY <2>3 DEF remove_set, remove_splice, TypeOK
    <3> QED BY <2>1, <2>2, <3>1, <1>c DEF Counts
  <2>4. CASE UNCHANGED vars \/ \E t \in Tids : remove_end(t)
    <3>1. inflight' = inflight /\ removing' = removing
      BY <2>4 DEF remove_end, vars
    <3> QED BY <2>1, <2>2, <3>1, <1>c DEF Counts
  <2> QED BY <1>7, <2>3, <2>4
<1> QED
  BY <1>1, <1>2, <1>3, <1>4, <1>5, <1>6, <1>7 DEF Next, Complete

(* The entries posted and the one being written answer commands that were  *)
(* submitted, each repeated at most reposts times in all.                  *)
LEMMA PostsBound ==
    ASSUME TypeOK, Counts
    PROVE  /\ Len(posts) + One(filling # 0) <= req_tid + reposts
           /\ One(filling # 0) \in {0, 1}
           /\ \A i \in 1 .. Len(posts) : posts[i] \in 1 .. req_tid
<1>1. req_tid \in Nat /\ reposts \in Nat /\ Len(posts) \in Nat
  BY DEF TypeOK
<1>2. IsFiniteSet(1 .. req_tid) /\ Cardinality(1 .. req_tid) = req_tid
  BY <1>1, FS_Interval
<1>3. Answered \ {0} \subseteq 1 .. req_tid
  BY <1>1 DEF Counts
<1>4. Cardinality(Answered \ {0}) <= req_tid /\ Cardinality(Answered \ {0}) \in Nat
  BY <1>2, <1>3, FS_Subset, FS_CardinalityType
<1>5. One(filling # 0) \in {0, 1}
  BY DEF One
<1>6. ASSUME NEW i \in 1 .. Len(posts) PROVE posts[i] \in 1 .. req_tid
  <2>1. posts[i] \in Answered
    BY DEF Answered
  <2>2. posts[i] # 0
    BY DEF TypeOK, Tids
  <2> QED BY <2>1, <2>2, <1>3
<1> QED BY <1>1, <1>4, <1>5, <1>6 DEF Counts

(* The ring does not overflow. *)
LEMMA NoOverflowInv ==
    ASSUME TypeOK, Counts
    PROVE  NoOverflow
<1>1. Len(posts) \in Nat /\ taken \in Nat /\ reposts \in 0 .. MaxReposts /\ req_tid \in Nat
  BY DEF TypeOK
<1>2. Len(posts) <= req_tid + reposts
  BY <1>1, PostsBound
<1> QED BY <1>1, <1>2, ComplAssumption, RingsFit DEF NoOverflow, Counts

(* An entry in use is intact. *)
LEMMA EntryIntactInv ==
    ASSUME TypeOK, Indexes, Counts, Window, Memory
    PROVE  EntryIntact
<1> SUFFICES ASSUME reposts = 0, NEW c \in Completers, Holding(c)
             PROVE  slot[comp[c].idx] = [priv_data |-> posts[comp[c].pos + 1],
                                         result |-> posts[comp[c].pos + 1]]
  BY DEF EntryIntact, Holding
<1> DEFINE i == comp[c].pos + 1
<1>1. /\ comp[c].pos \in Nat /\ comp[c].idx = (i - 1) % NSlots
      /\ i \in 1 .. taken /\ i \in 1 .. Len(posts) /\ i \in Int
  BY DEF TypeOK, Indexes, CompState
<1>2. posts[i] \in 1 .. req_tid
  BY <1>1, PostsBound
<1>3. req_tid < posts[i] + MaxCmds
  <2>1. ~ \E j \in 1 .. taken : /\ posts[j] = posts[i]
                                /\ \A d \in Completers : Holding(d) => comp[d].pos # j - 1
    <3> SUFFICES ASSUME NEW j \in 1 .. taken, posts[j] = posts[i], comp[c].pos # j - 1
                 PROVE  FALSE
      OBVIOUS
    <3>1. j \in 1 .. Len(posts)
      BY DEF TypeOK
    <3> QED BY <3>1, <1>1 DEF Window, Once
  <2> QED BY <2>1, <1>2 DEF Window, Lag
<1>4. posts[i] < i + MaxCmds
  BY <1>1 DEF Counts
<1>5. Len(posts) + One(filling # 0) <= req_tid /\ One(filling # 0) \in Int
  BY PostsBound DEF TypeOK
<1>6. Len(posts) + One(filling # 0) < i + NSlots
  <2>1. Len(posts) \in Int /\ req_tid \in Int /\ posts[i] \in Int
    BY <1>2 DEF TypeOK
  <2> HIDE DEF i
  <2> QED BY <2>1, <1>1, <1>3, <1>4, <1>5, ComplAssumption, RingsFit
<1>7. slot[(i - 1) % NSlots] = [priv_data |-> posts[i], result |-> posts[i]]
  BY <1>1, <1>6 DEF Memory
<1> QED BY <1>1, <1>7

(* Every action keeps what the slots hold. *)
LEMMA MemoryNext ==
    ASSUME TypeOK, Indexes, Memory, [Next]_vars
    PROVE  Memory'
<1>0. /\ Len(posts) \in Nat /\ NSlots \in Nat /\ NSlots > 0
      /\ slot \in [Slots -> Entry] /\ compr_head \in Slots
      /\ compr_head = Len(posts) % NSlots
  BY ComplAssumption, RingsFit DEF TypeOK, Indexes
<1>1. CASE UNCHANGED <<compr_head, posts, slot, filling>>
  BY <1>1 DEF Memory
<1>a. ASSUME NEW i \in 1 .. Len(posts), Len(posts) + 1 < i + NSlots
      PROVE  (i - 1) % NSlots \in Slots /\ (i - 1) % NSlots # compr_head
  <2>1. i - 1 \in Nat /\ i - 1 < Len(posts) /\ Len(posts) < i - 1 + NSlots
    BY <1>0, <1>a
  <2> QED BY <2>1, <1>0, UpdateStep, ModDistinct
<1>2. ASSUME NEW t \in Tids, backend_fill(t) \/ backend_refill(t) PROVE Memory'
  <2>1. /\ filling = 0 /\ filling' = t /\ t # 0 /\ UNCHANGED <<posts, compr_head>>
        /\ slot' = [slot EXCEPT ![compr_head].priv_data = t]
    BY <1>2 DEF backend_fill, backend_refill, Tids
  <2>2. One(filling # 0) = 0 /\ One(filling' # 0) = 1
    BY <2>1 DEF One
  <2>3. ASSUME NEW i \in 1 .. Len(posts), Len(posts) + 1 < i + NSlots
        PROVE  slot'[(i - 1) % NSlots] = [priv_data |-> posts[i], result |-> posts[i]]
    <3>1. slot'[(i - 1) % NSlots] = slot[(i - 1) % NSlots]
      BY <2>1, <2>3, <1>a, <1>0
    <3>2. Len(posts) + One(filling # 0) < i + NSlots
      BY <2>2, <2>3, <1>0
    <3> QED BY <3>1, <3>2 DEF Memory
  <2>4. slot'[compr_head].priv_data = t
    BY <2>1, <1>0 DEF Entry
  <2> QED BY <2>1, <2>2, <2>3, <2>4 DEF Memory
<1>3. CASE backend_post
  <2>1. /\ filling # 0 /\ filling' = 0 /\ posts' = Append(posts, filling)
        /\ slot' = [slot EXCEPT ![compr_head].result = filling]
    BY <1>3 DEF backend_post
  <2>2. One(filling # 0) = 1 /\ One(filling' # 0) = 0
    BY <2>1 DEF One
  <2>3. /\ Len(posts') = Len(posts) + 1 /\ posts'[Len(posts) + 1] = filling
        /\ \A i \in 1 .. Len(posts) : posts'[i] = posts[i]
    BY <2>1 DEF TypeOK
  <2>4. ASSUME NEW i \in 1 .. Len(posts'), Len(posts') < i + NSlots
        PROVE  slot'[(i - 1) % NSlots] = [priv_data |-> posts'[i], result |-> posts'[i]]
    <3>1. CASE i \in 1 .. Len(posts)
      <4>1. Len(posts) + 1 < i + NSlots
        BY <2>3, <2>4
      <4>2. slot'[(i - 1) % NSlots] = slot[(i - 1) % NSlots]
        BY <3>1, <4>1, <2>1, <1>a, <1>0
      <4>3. Len(posts) + One(filling # 0) < i + NSlots
        BY <2>2, <4>1
      <4> QED BY <3>1, <4>2, <4>3, <2>3 DEF Memory
    <3>2. CASE i = Len(posts) + 1
      <4>1. (i - 1) % NSlots = compr_head /\ posts'[i] = filling
        BY <3>2, <1>0, <2>3
      <4>2. slot[compr_head].priv_data = filling /\ slot[compr_head] \in Entry
        BY <2>1, <1>0 DEF Memory
      <4>3. slot'[compr_head] = [slot[compr_head] EXCEPT !.result = filling]
        BY <2>1, <1>0
      <4>4. [slot[compr_head] EXCEPT !.result = filling]
               = [priv_data |-> filling, result |-> filling]
        BY <4>2 DEF Entry
      <4> QED BY <4>1, <4>3, <4>4
    <3> QED BY <3>1, <3>2, <2>3, <1>0
  <2>5. Len(posts') + One(filling' # 0) = Len(posts')
    BY <2>2, <2>3, <1>0
  <2> QED BY <2>1, <2>4, <2>5 DEF Memory
<1> QED
  BY <1>1, <1>2, <1>3
  DEF Next, Complete, submit, complete_enter, complete_pop, complete_fetch, complete_end,
      complete_advance, remove_set, remove_splice, remove_end, vars, rvars, cvars

(* Posting again is not undone. *)
LEMMA RepostsGrow ==
    ASSUME TypeOK, [Next]_vars, reposts' = 0
    PROVE  reposts = 0
<1>1. ASSUME NEW t \in Tids, backend_refill(t) PROVE FALSE
  <2>1. reposts' = reposts + 1 /\ reposts \in Nat
    BY <1>1 DEF backend_refill, TypeOK
  <2> QED BY <2>1
<1>2. CASE UNCHANGED reposts
  BY <1>2
<1> QED
  BY <1>1, <1>2
  DEF Next, Complete, submit, backend_fill, backend_post, complete_enter, complete_pop,
      complete_fetch, complete_end, complete_advance, remove_set, remove_splice,
      remove_end, vars, rvars

(* Every action keeps the window. *)
LEMMA WindowNext ==
    ASSUME TypeOK, Indexes, Owners, Counts, Window, Memory, [Next]_vars
    PROVE  Window'
<1> SUFFICES ASSUME reposts' = 0 PROVE (Once /\ OwnTid /\ LeftByEntry /\ Lag)'
  BY DEF Window
<1>0. /\ Len(posts) \in Nat /\ taken \in Nat /\ taken <= Len(posts)
      /\ req_tid \in Nat /\ oldest \in 1 .. req_tid + 1 /\ MaxCmds \in Nat \ {0}
      /\ removing \in BOOLEAN /\ reposts \in Nat
      /\ \A c \in Completers : comp[c].pos \in Nat
  BY ComplAssumption DEF TypeOK, CompState
<1>1. reposts = 0
  BY RepostsGrow
<1>w. Once /\ OwnTid /\ LeftByEntry /\ Lag
  BY <1>1 DEF Window
<1>2. CASE submit
  <2>1. /\ req_tid' = req_tid + 1 /\ inflight' = inflight \cup {req_tid + 1}
        /\ UNCHANGED <<posts, filling, taken, comp, removing>>
        /\ ~removing /\ req_tid + 1 - oldest < MaxCmds
    BY <1>2 DEF submit, ring_space, rvars
  <2>2. Once' /\ OwnTid'
    BY <1>w, <2>1 DEF Once, OwnTid
  <2>3. LeftByEntry'
    BY <1>w, <1>0, <2>1 DEF LeftByEntry
  <2>4. ASSUME NEW t \in 1 .. req_tid + 1,
               ~ \E i \in 1 .. taken :
                    /\ posts[i] = t
                    /\ \A c \in Completers : Holding(c) => comp[c].pos # i - 1
        PROVE  req_tid + 1 < t + MaxCmds
    <3>1. CASE t = req_tid + 1
      BY <3>1, <1>0
    <3>2. CASE t >= oldest
      BY <3>2, <2>1, <1>0
    <3>3. CASE t \in 1 .. req_tid /\ t < oldest
      <4>1. t \in 1 .. oldest - 1
        BY <3>3, <1>0
      <4>2. t \in done /\ t \notin inflight
        BY <4>1 DEF Owners
      <4>3. PICK i \in 1 .. taken :
               /\ posts[i] = t
               /\ \A c \in Completers : comp[c].pc = "fetch" => comp[c].pos # i - 1
        BY <3>3, <4>2, <2>1, <1>w DEF LeftByEntry
      <4>4. PICK c \in Completers : Holding(c) /\ comp[c].pos = i - 1
        BY <4>3, <2>4
      <4>5. comp[c].pc = "end" /\ comp[c].pos + 1 = i
        BY <4>3, <4>4, <1>0 DEF Holding
      <4>6. comp[c].tid = t /\ comp[c].tid \notin done
        BY <4>3, <4>5, <1>w DEF OwnTid, Owners
      <4> QED BY <4>2, <4>6
    <3> QED BY <3>1, <3>2, <3>3, <1>0
  <2>5. Lag'
    BY <2>1, <2>4 DEF Lag, Holding
  <2> QED BY <2>2, <2>3, <2>5
<1>3. ASSUME NEW t \in Tids, backend_fill(t) PROVE (Once /\ OwnTid /\ LeftByEntry /\ Lag)'
  <2>1. /\ UNCHANGED <<posts, req_tid, inflight, taken, comp, removing>>
        /\ filling' = t /\ t \notin Answered
    BY <1>3 DEF backend_fill, cvars
  <2>2. \A i \in 1 .. Len(posts) : posts[i] # t
    BY <2>1 DEF Answered
  <2> QED BY <1>w, <2>1, <2>2 DEF Once, OwnTid, LeftByEntry, Lag, Holding
<1>4. CASE backend_post
  <2>1. /\ UNCHANGED <<req_tid, inflight, taken, comp, removing>>
        /\ posts' = Append(posts, filling) /\ filling' = 0 /\ filling \in Tids
        /\ posts \in Seq(Tids)
    BY <1>4 DEF backend_post, cvars, TypeOK
  <2>2. /\ Len(posts') = Len(posts) + 1 /\ posts'[Len(posts) + 1] = filling
        /\ \A i \in 1 .. Len(posts) : posts'[i] = posts[i]
    BY <2>1
  <2>3. Once'
    <3>1. \A i \in 1 .. Len(posts') : i \in 1 .. Len(posts) \/ i = Len(posts) + 1
      BY <2>2, <1>0
    <3>2. \A i, j \in 1 .. Len(posts') : posts'[i] = posts'[j] => i = j
      BY <3>1, <2>2, <1>w DEF Once
    <3>3. \A i \in 1 .. Len(posts') : posts'[i] # 0
      <4>1. \A i \in 1 .. Len(posts) : posts[i] \in Tids
        BY <2>1
      <4>2. 0 \notin Tids
        BY DEF Tids
      <4> QED BY <3>1, <4>1, <4>2, <2>1, <2>2
    <3> QED BY <3>2, <3>3, <2>1 DEF Once
  <2>4. \A i \in 1 .. taken : posts'[i] = posts[i]
    BY <2>2, <1>0
  <2>5. OwnTid'
    <3>1. \A c \in Completers : comp[c].pc = "end" => comp[c].pos + 1 \in 1 .. taken
      BY <1>0 DEF Indexes, Holding
    <3> QED BY <1>w, <3>1, <2>1, <2>4 DEF OwnTid
  <2>6. /\ req_tid' = req_tid /\ inflight' = inflight /\ taken' = taken /\ comp' = comp
        /\ removing' = removing
    BY <2>1
  <2>7. LeftByEntry'
    BY <1>w, <2>4, <2>6 DEF LeftByEntry
  <2>8. Lag'
    BY <1>w, <2>4, <2>6 DEF Lag, Holding
  <2> QED BY <2>3, <2>5, <2>7, <2>8
<1>5. ASSUME NEW c \in Completers, complete_pop(c), get_complete_entry
      PROVE  (Once /\ OwnTid /\ LeftByEntry /\ Lag)'
  <2>1. UNCHANGED <<posts, filling, req_tid, inflight, removing>> /\ taken' = taken + 1
    BY <1>5 DEF complete_pop, rvars, cvars
  <2>2. /\ \A d \in Completers : d # c => comp'[d] = comp[d]
        /\ comp'[c].pc = "fetch" /\ comp'[c].pos = taken
    BY <1>5, CompStep DEF Complete
  <2>3. 1 .. taken \subseteq 1 .. taken' /\ \A i \in 1 .. taken : taken # i - 1
    BY <2>1, <1>0
  <2>4. Once' /\ OwnTid'
    BY <1>w, <2>1, <2>2 DEF Once, OwnTid
  <2>5. LeftByEntry'
    BY <1>w, <2>1, <2>2, <2>3 DEF LeftByEntry
  <2>6. Lag'
    BY <1>w, <2>1, <2>2, <2>3 DEF Lag, Holding
  <2> QED BY <2>4, <2>5, <2>6
<1>6. ASSUME NEW c \in Completers, complete_fetch(c)
      PROVE  (Once /\ OwnTid /\ LeftByEntry /\ Lag)'
  <2>1. /\ UNCHANGED <<posts, filling, req_tid, taken, removing>> /\ comp[c].pc = "fetch"
        /\ inflight' = inflight \ {slot[comp[c].idx].priv_data}
    BY <1>6 DEF complete_fetch, rvars, cvars
  <2>2. EntryIntact
    BY EntryIntactInv
  <2>3. slot[comp[c].idx].priv_data = posts[comp[c].pos + 1]
    <3>1. slot[comp[c].idx] = [priv_data |-> posts[comp[c].pos + 1],
                               result |-> posts[comp[c].pos + 1]]
      BY <2>1, <2>2, <1>1 DEF EntryIntact
    <3> QED BY <3>1
  <2>4. /\ \A d \in Completers : d # c => comp'[d] = comp[d]
        /\ comp'[c].pc = "end" => /\ comp'[c].tid = posts[comp[c].pos + 1]
                                  /\ comp'[c].pos = comp[c].pos
        /\ comp'[c].pc \in {"end", "pop"}
    BY <1>6, <2>3, CompStep DEF Complete
  <2>5. Once' /\ OwnTid'
    BY <1>w, <2>1, <2>4 DEF Once, OwnTid
  <2>6. LeftByEntry'
    <3> SUFFICES ASSUME ~removing, NEW t \in (1 .. req_tid) \ inflight'
                 PROVE  \E i \in 1 .. taken :
                           /\ posts[i] = t
                           /\ \A d \in Completers : comp'[d].pc = "fetch" => comp'[d].pos # i - 1
      BY <2>1 DEF LeftByEntry
    <3>1. CASE t \in inflight
      <4>1. t = posts[comp[c].pos + 1]
        BY <3>1, <2>1, <2>3
      <4>2. comp[c].pos + 1 \in 1 .. taken /\ (comp[c].pos + 1) - 1 = comp[c].pos
        BY <2>1, <1>0 DEF Indexes, Holding
      <4>3. \A d \in Completers : comp'[d].pc = "fetch" => comp'[d].pos # comp[c].pos
        BY <2>1, <2>4 DEF Indexes, Holding
      <4> QED BY <4>1, <4>2, <4>3
    <3>2. CASE t \notin inflight
      BY <3>2, <2>4, <1>w DEF LeftByEntry
    <3> QED BY <3>1, <3>2
  <2>7. Lag'
    BY <1>w, <2>1, <2>4 DEF Lag, Holding
  <2> QED BY <2>5, <2>6, <2>7
<1>7. ASSUME NEW c \in Completers,
             complete_enter(c) \/ (complete_pop(c) /\ ~get_complete_entry)
                \/ complete_end(c) \/ complete_advance(c)
      PROVE  (Once /\ OwnTid /\ LeftByEntry /\ Lag)'
  <2>1. UNCHANGED <<posts, filling, req_tid, inflight, taken, removing>>
    BY <1>7 DEF complete_enter, complete_pop, complete_end, complete_advance, rvars, cvars
  <2>2. ~Holding(c)' /\ \A d \in Completers : d # c => comp'[d] = comp[d]
    BY <1>7, CompStep DEF Complete, Holding
  <2> QED BY <1>w, <2>1, <2>2 DEF Once, OwnTid, LeftByEntry, Lag, Holding
<1>8. CASE remove_set \/ remove_splice \/ UNCHANGED vars \/ \E t \in Tids : remove_end(t)
  <2>1. UNCHANGED <<posts, filling, req_tid, taken, comp>>
    BY <1>8 DEF remove_set, remove_splice, remove_end, vars, rvars, cvars
  <2>2. Once' /\ OwnTid' /\ Lag'
    BY <1>w, <2>1 DEF Once, OwnTid, Lag, Holding
  <2>3. CASE remove_set \/ remove_splice
    <3>1. removing' = TRUE
      BY <2>3, <1>0 DEF remove_set, remove_splice
    <3> QED BY <2>2, <3>1 DEF LeftByEntry
  <2>4. CASE UNCHANGED vars \/ \E t \in Tids : remove_end(t)
    <3>1. inflight' = inflight /\ removing' = removing
      BY <2>4 DEF remove_end, vars
    <3>2. LeftByEntry'
      BY <1>w, <2>1, <3>1 DEF LeftByEntry
    <3> QED BY <2>2, <3>2
  <2> QED BY <1>8, <2>3, <2>4
<1>9. ASSUME NEW t \in Tids, backend_refill(t) PROVE FALSE
  BY <1>0, <1>1, <1>9 DEF backend_refill
<1> QED
  BY <1>2, <1>3, <1>4, <1>5, <1>6, <1>7, <1>8, <1>9 DEF Next, Complete

(* A request is ended with the result of its own command. *)
LEMMA OwnResultNext ==
    ASSUME TypeOK, Indexes, Counts, Window, Memory, OwnResult, [Next]_vars
    PROVE  OwnResult'
<1> SUFFICES ASSUME reposts' = 0, NEW t \in Tids PROVE ended'[t] \in {0, t, EIO}
  BY DEF OwnResult
<1>0. reposts \in Nat /\ ended \in [Tids -> Tids \cup {0, EIO}]
  BY DEF TypeOK
<1>1. reposts = 0
  BY RepostsGrow
<1>2. ended[t] \in {0, t, EIO}
  BY <1>1 DEF OwnResult
<1>3. ASSUME NEW c \in Completers, complete_end(c) PROVE ended'[t] \in {0, t, EIO}
  <2>1. EntryIntact /\ comp[c].pc = "end"
    BY <1>3, EntryIntactInv DEF complete_end
  <2>2. slot[comp[c].idx].result = comp[c].tid
    <3>1. slot[comp[c].idx] = [priv_data |-> posts[comp[c].pos + 1],
                               result |-> posts[comp[c].pos + 1]]
      BY <2>1, <1>1 DEF EntryIntact
    <3>2. comp[c].tid = posts[comp[c].pos + 1]
      BY <2>1, <1>1 DEF Window, OwnTid
    <3> QED BY <3>1, <3>2
  <2>3. ended' = [ended EXCEPT ![comp[c].tid] = comp[c].tid]
    BY <1>3, <2>2 DEF complete_end
  <2> QED BY <2>3, <1>0, <1>2
<1>4. ASSUME NEW r \in Tids, remove_end(r) PROVE ended'[t] \in {0, t, EIO}
  BY <1>4, <1>0, <1>2 DEF remove_end
<1>5. CASE UNCHANGED ended
  BY <1>5, <1>2
<1> QED
  BY <1>3, <1>4, <1>5
  DEF Next, Complete, submit, backend_fill, backend_refill, backend_post, complete_enter,
      complete_pop, complete_fetch, complete_advance, remove_set, remove_splice, vars

(* The initial state satisfies the invariant. *)
LEMMA ComplInit ==
    ASSUME Init
    PROVE  ComplInv
<1> USE DEF Init
<1>0. NSlots \in Nat /\ NSlots > 0 /\ MaxSubmits \in Nat /\ MaxReposts \in Nat /\ MaxCmds \in Nat \ {0}
  BY ComplAssumption, RingsFit
<1>1. \A c \in Completers : comp[c] = At("idle") /\ comp[c].pc = "idle"
  BY DEF At
<1>2. TypeOK
  <2>1. At("idle") \in CompState /\ 0 \in Slots
    BY <1>0 DEF At, CompState, Slots, Tids
  <2>2. [priv_data |-> 0, result |-> 0] \in Entry
    BY DEF Entry
  <2> QED BY <2>1, <2>2, <1>0 DEF TypeOK
<1>3. Indexes
  BY <1>0, <1>1 DEF Indexes, Holding
<1>4. Owners
  BY <1>0, <1>1 DEF Owners
<1>5. Counts
  <2>1. Fetching = {} /\ Answered = {0} /\ Answered \ {0} = {}
    BY <1>1 DEF Fetching, Answered
  <2>2. Cardinality(Fetching) = 0 /\ Cardinality(inflight) = 0 /\ Cardinality(Answered \ {0}) = 0
    BY <2>1, FS_EmptySet
  <2>3. One(filling # 0) = 0
    BY DEF One
  <2> QED BY <2>1, <2>2, <2>3, <1>0 DEF Counts
<1>6. Window
  BY <1>0, <1>1 DEF Window, Once, OwnTid, LeftByEntry, Lag
<1>7. Memory
  BY <1>0 DEF Memory
<1>8. OwnResult
  BY DEF OwnResult
<1> QED BY <1>2, <1>3, <1>4, <1>5, <1>6, <1>7, <1>8 DEF ComplInv

(* The invariant is inductive. *)
THEOREM ComplInvariant == Spec => []ComplInv
<1>1. Init => ComplInv
  BY ComplInit
<1>2. ComplInv /\ [Next]_vars => ComplInv'
  BY TypeNext, IndexesNext, OwnersNext, CountsNext, WindowNext, MemoryNext, OwnResultNext
  DEF ComplInv
<1> QED BY <1>1, <1>2, PTL DEF Spec

(* The entries waiting in the completion ring never reach the number of    *)
(* its slots, although the backend does not look at compr_tail.            *)
THEOREM CompletionsFit == Spec => []NoOverflow
<1>1. ComplInv => NoOverflow
  BY NoOverflowInv DEF ComplInv
<1> QED BY <1>1, ComplInvariant, PTL

(* ubbd_queue_complete reads an entry as it was posted, although it gave   *)
(* the slot back before.                                                   *)
THEOREM EntriesIntact == Spec => []EntryIntact
<1>1. ComplInv => EntryIntact
  BY EntryIntactInv DEF ComplInv
<1> QED BY <1>1, ComplInvariant, PTL

(* complete_inflight_req ends a request with the result of its own command. *)
THEOREM ResultsNotMixed == Spec => []OwnResult
<1>1. ComplInv => OwnResult
  BY DEF ComplInv
<1> QED BY <1>1, ComplInvariant, PTL

=============================================================================
