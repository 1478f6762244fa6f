-------------------------- MODULE UbbdCmdRingProofs --------------------------
(***************************************************************************)
(* Proofs about UbbdCmdRing, for every ring size, reserve, set of command  *)
(* sizes, and any number of requests and completers.                       *)
(***************************************************************************)
EXTENDS UbbdCmdRing, TLAPS

-----------------------------------------------------------------------------
(* Arithmetic of positions in the ring. *)

(* The macros that move cmd_head and cmd_tail stay inside the ring. *)
LEMMA UpdateInRange ==
    ASSUME NEW p \in Offsets, NEW n \in Nat
    PROVE  Update(p, n) \in Offsets
BY RingAssumption DEF Offsets, Update

(* A move by at most what is left before the end of the ring wraps to 0    *)
(* exactly when it reaches the end.                                        *)
LEMMA UpdateValue ==
    ASSUME NEW p \in Offsets, NEW n \in Nat, p + n <= CMDR_SIZE
    PROVE  Update(p, n) = IF p + n = CMDR_SIZE THEN 0 ELSE p + n
<1>1. p % CMDR_SIZE = p
  BY RingAssumption DEF Offsets
<1>2. Update(p, n) = (p + n) % CMDR_SIZE
  BY <1>1, Zenon DEF Update
<1>3. CASE p + n = CMDR_SIZE
  BY <1>2, <1>3, RingAssumption
<1>4. CASE p + n < CMDR_SIZE
  BY <1>2, <1>4, RingAssumption DEF Offsets
<1> QED BY <1>3, <1>4, RingAssumption DEF Offsets

(* What an entry of n units written at head does to the live part. *)
LEMMA AppendDist ==
    ASSUME NEW t \in Offsets, NEW h \in Offsets, NEW n \in Nat, n > 0,
           h + n <= CMDR_SIZE, Dist(t, h) + n < CMDR_SIZE
    PROVE  /\ Update(h, n) \in Offsets
           /\ Dist(t, Update(h, n)) = Dist(t, h) + n
           /\ \A o \in Offsets : Live(t, h, o) => o \notin h .. (h + n - 1)
           /\ \A o \in Offsets : Live(t, Update(h, n), o)
                 <=> Live(t, h, o) \/ o \in h .. (h + n - 1)
<1> DEFINE k == Update(h, n)
<1>1. k \in Offsets /\ k = IF h + n = CMDR_SIZE THEN 0 ELSE h + n
  BY UpdateInRange, UpdateValue, Zenon
<1> HIDE DEF k
<1>2. Dist(t, k) = Dist(t, h) + n
  BY <1>1, RingAssumption DEF Offsets, Dist
<1>3. ASSUME NEW o \in Offsets, Live(t, h, o)
      PROVE  o \notin h .. (h + n - 1)
  BY <1>3, RingAssumption DEF Offsets, Dist, Live
<1>4. ASSUME NEW o \in Offsets
      PROVE  Live(t, k, o) <=> Live(t, h, o) \/ o \in h .. (h + n - 1)
  BY <1>2, RingAssumption DEF Offsets, Dist, Live
<1> QED BY <1>1, <1>2, <1>3, <1>4, Zenon DEF k

(* What retiring an entry of n units at tail does to the live part. *)
LEMMA RetireDist ==
    ASSUME NEW t \in Offsets, NEW h \in Offsets, NEW n \in Nat, n > 0,
           t + n <= CMDR_SIZE, n <= Dist(t, h)
    PROVE  /\ Update(t, n) \in Offsets
           /\ Dist(Update(t, n), h) = Dist(t, h) - n
           /\ \A o \in Offsets : Live(Update(t, n), h, o)
                 <=> Live(t, h, o) /\ o \notin t .. (t + n - 1)
           /\ \A o \in Offsets : Live(Update(t, n), h, o)
                 => Dist(Update(t, n), o) = Dist(t, o) - n
<1> DEFINE k == Update(t, n)
<1>1. k \in Offsets /\ k = IF t + n = CMDR_SIZE THEN 0 ELSE t + n
  BY UpdateInRange, UpdateValue, Zenon
<1> HIDE DEF k
<1>2. Dist(k, h) = Dist(t, h) - n
  BY <1>1, RingAssumption DEF Offsets, Dist
<1>3. ASSUME NEW o \in Offsets
      PROVE  Live(k, h, o) <=> Live(t, h, o) /\ o \notin t .. (t + n - 1)
  BY <1>1, <1>2, RingAssumption DEF Offsets, Dist, Live
<1>4. ASSUME NEW o \in Offsets, Live(k, h, o)
      PROVE  Dist(k, o) = Dist(t, o) - n
  BY <1>1, <1>2, <1>4, RingAssumption DEF Offsets, Dist, Live
<1> QED BY <1>1, <1>2, <1>3, <1>4, Zenon DEF k

(* A distance is an offset. *)
LEMMA DistRange ==
    ASSUME NEW t \in Offsets, NEW o \in Offsets
    PROVE  Dist(t, o) \in Offsets /\ Dist(t, o) \in Nat
BY RingAssumption DEF Dist, Offsets

(* A live entry that ends before head is followed by a live cell. *)
LEMMA NextLive ==
    ASSUME NEW t \in Offsets, NEW h \in Offsets, NEW o \in Offsets,
           NEW n \in Nat, n > 0, o + n <= CMDR_SIZE,
           Dist(t, o) + n <= Dist(t, h), Update(o, n) # h
    PROVE  Update(o, n) \in Offsets /\ Live(t, h, Update(o, n))
<1> DEFINE z == Update(o, n)
<1>1. z \in Offsets /\ z = IF o + n = CMDR_SIZE THEN 0 ELSE o + n
  BY UpdateInRange, UpdateValue, Zenon
<1>2. z # h
  BY Zenon
<1> HIDE DEF z
<1>3. Live(t, h, z)
  BY <1>1, <1>2, RingAssumption DEF Live, Dist, Offsets
<1> QED BY <1>1, <1>3, Zenon DEF z

-----------------------------------------------------------------------------
(* Writing and retiring entries keeps the ring tiled. *)

(* An entry written at head leaves the live cells alone. *)
LEMMA WriteKeepsLive ==
    ASSUME NEW m \in [Offsets -> Header], NEW t \in Offsets, NEW h \in Offsets,
           NEW e \in Header, e.len > 0, h + e.len <= CMDR_SIZE,
           Dist(t, h) + e.len < CMDR_SIZE
    PROVE  /\ WriteEntry(m, h, e) \in [Offsets -> Header]
           /\ WriteEntry(m, h, e)[h] = e
           /\ \A o \in Offsets : o \in (h + 1) .. (h + e.len - 1)
                 => WriteEntry(m, h, e)[o] = ZeroHdr
           /\ \A o \in Offsets : Live(t, h, o) => WriteEntry(m, h, e)[o] = m[o]
<1>1. e.len \in Nat
  BY Zenon DEF Header
<1>2. ZeroHdr \in Header
  BY Zenon DEF ZeroHdr, Header
<1>3. \A o \in Offsets : Live(t, h, o) => o \notin h .. (h + e.len - 1)
  BY <1>1, AppendDist, Zenon
<1>4. h \in h .. (h + e.len - 1)
  BY <1>1 DEF Offsets
<1>5. \A o \in (h + 1) .. (h + e.len - 1) : o # h /\ o \in h .. (h + e.len - 1)
  BY <1>1 DEF Offsets
<1>6. WriteEntry(m, h, e) \in [Offsets -> Header]
  BY <1>2, Zenon DEF WriteEntry
<1>7. WriteEntry(m, h, e)[h] = e
  BY Zenon DEF WriteEntry
<1>8. \A o \in Offsets : o \in (h + 1) .. (h + e.len - 1)
         => WriteEntry(m, h, e)[o] = ZeroHdr
  BY <1>5, Zenon DEF WriteEntry
<1>9. \A o \in Offsets : Live(t, h, o) => WriteEntry(m, h, e)[o] = m[o]
  BY <1>3, <1>4, Zenon DEF WriteEntry
<1> QED BY <1>6, <1>7, <1>8, <1>9, Zenon

(* insert_padding and queue_req_se_init extend a tiled ring by one entry. *)
LEMMA WriteTiled ==
    ASSUME NEW m \in [Offsets -> Header], NEW t \in Offsets, NEW h \in Offsets,
           NEW e \in Header, e.len > 0, h + e.len <= CMDR_SIZE,
           Dist(t, h) + e.len < CMDR_SIZE, e.op # "ZERO", Tiled(m, t, h)
    PROVE  Tiled(WriteEntry(m, h, e), t, Update(h, e.len))
<1> DEFINE w == WriteEntry(m, h, e)
           k == Update(h, e.len)
<1>0. e.len \in Nat
  BY Zenon DEF Header
<1>1. /\ w \in [Offsets -> Header]
      /\ w[h] = e
      /\ \A o \in Offsets : o \in (h + 1) .. (h + e.len - 1) => w[o] = ZeroHdr
      /\ \A o \in Offsets : Live(t, h, o) => w[o] = m[o]
  BY WriteKeepsLive
<1>2. /\ k \in Offsets
      /\ Dist(t, k) = Dist(t, h) + e.len
      /\ \A o \in Offsets : Live(t, k, o) <=> Live(t, h, o) \/ o \in h .. (h + e.len - 1)
  BY <1>0, AppendDist, Zenon
<1> HIDE DEF w, k
<1>3. w[t].op # "ZERO"
  <2>1. CASE t = h
    BY <1>1, <2>1, Zenon
  <2>2. CASE t # h
    <3>1. Live(t, h, t)
      BY <2>2, RingAssumption DEF Live, Dist, Offsets
    <3> QED BY <1>1, <2>2, <3>1, Zenon DEF Tiled
  <2> QED BY <2>1, <2>2, Zenon
<1>4. ASSUME NEW o \in Offsets, Live(t, k, o), w[o].op # "ZERO"
      PROVE  /\ w[o].len > 0
             /\ o + w[o].len <= CMDR_SIZE
             /\ Dist(t, o) + w[o].len <= Dist(t, k)
             /\ \A x \in (o + 1) .. (o + w[o].len - 1) : w[x].op = "ZERO"
             /\ Update(o, w[o].len) # k => w[Update(o, w[o].len)].op # "ZERO"
  <2>1. CASE Live(t, h, o)
    <3>1. w[o] = m[o]
      BY <1>1, <2>1, Zenon
    <3>2. m[o].len \in Nat
      BY Zenon DEF Header
    <3>3. /\ m[o].len > 0
          /\ o + m[o].len <= CMDR_SIZE
          /\ Dist(t, o) + m[o].len <= Dist(t, h)
          /\ \A x \in (o + 1) .. (o + m[o].len - 1) : m[x].op = "ZERO"
          /\ Update(o, m[o].len) # h => m[Update(o, m[o].len)].op # "ZERO"
      BY <1>4, <2>1, <3>1, Zenon DEF Tiled
    <3>4. Dist(t, o) + m[o].len <= Dist(t, k)
      <4>1. Dist(t, o) \in Nat /\ Dist(t, h) \in Nat
        BY DistRange, Zenon
      <4> QED BY <1>0, <1>2, <3>2, <3>3, <4>1
    <3>5. ASSUME NEW x \in (o + 1) .. (o + m[o].len - 1)
          PROVE  w[x].op = "ZERO"
      <4>1. x \in Offsets /\ Live(t, h, x)
        BY <2>1, <3>2, <3>3, RingAssumption DEF Live, Dist, Offsets
      <4> QED BY <1>1, <3>3, <4>1, Zenon
    <3>6. ASSUME Update(o, m[o].len) # k
          PROVE  w[Update(o, m[o].len)].op # "ZERO"
      <4> DEFINE z == Update(o, m[o].len)
      <4>1. CASE z = h
        BY <1>1, <4>1, Zenon
      <4>2. CASE z # h
        <5>1. z \in Offsets /\ Live(t, h, z)
          BY <3>2, <3>3, <4>2, NextLive, Zenon
        <5> QED BY <1>1, <3>3, <4>2, <5>1, Zenon
      <4> QED BY <4>1, <4>2, Zenon
    <3> QED BY <3>1, <3>3, <3>4, <3>5, <3>6, Zenon
  <2>2. CASE ~Live(t, h, o)
    <3>1. o = h
      <4>1. o \in h .. (h + e.len - 1)
        BY <1>2, <1>4, <2>2, Zenon
      <4>2. o # h => o \in (h + 1) .. (h + e.len - 1)
        BY <1>0, <4>1 DEF Offsets
      <4>3. ZeroHdr.op = "ZERO"
        BY Zenon DEF ZeroHdr
      <4> QED BY <1>1, <1>4, <4>2, <4>3, Zenon
    <3>2. \A x \in (h + 1) .. (h + e.len - 1) : w[x].op = "ZERO"
      <4>1. ASSUME NEW x \in (h + 1) .. (h + e.len - 1)
            PROVE  x \in Offsets
        BY <1>0, RingAssumption DEF Offsets
      <4> QED BY <1>1, <4>1 DEF ZeroHdr
    <3>3. Dist(t, h) + e.len <= Dist(t, k)
      <4>1. Dist(t, h) \in Nat
        BY DistRange, Zenon
      <4> QED BY <1>0, <1>2, <4>1
    <3> QED BY <1>1, <3>1, <3>2, <3>3, Zenon DEF k
  <2> QED BY <2>1, <2>2, Zenon
<1> QED BY <1>3, <1>4, Zenon DEF Tiled, w, k

(* advance_cmd_ring retires the entry at tail of a tiled ring: no other    *)
(* entry leaves the live part.                                             *)
LEMMA RetireTiled ==
    ASSUME NEW m \in [Offsets -> Header], NEW t \in Offsets, NEW h \in Offsets,
           t # h, Tiled(m, t, h)
    PROVE  /\ Update(t, m[t].len) \in Offsets
           /\ Dist(Update(t, m[t].len), h) <= Dist(t, h)
           /\ Tiled(m, Update(t, m[t].len), h)
           /\ \A o \in Offsets : Live(t, h, o) /\ m[o].op # "ZERO" /\ o # t
                 => Live(Update(t, m[t].len), h, o)
<1> DEFINE n == m[t].len
           k == Update(t, n)
<1>1. n \in Nat
  BY Zenon DEF Header
<1>2. Live(t, h, t) /\ Dist(t, t) = 0
  BY RingAssumption DEF Live, Dist, Offsets
<1>3. /\ n > 0
      /\ t + n <= CMDR_SIZE
      /\ n <= Dist(t, h)
      /\ \A x \in (t + 1) .. (t + n - 1) : m[x].op = "ZERO"
      /\ k # h => m[k].op # "ZERO"
  <2>1. Dist(t, t) + n <= Dist(t, h)
    BY <1>2, Zenon DEF Tiled
  <2>2. n <= Dist(t, h)
    BY <1>1, <1>2, <2>1
  <2> QED BY <1>2, <2>2, Zenon DEF Tiled
<1>4. /\ k \in Offsets
      /\ Dist(k, h) = Dist(t, h) - n
      /\ \A o \in Offsets : Live(k, h, o) <=> Live(t, h, o) /\ o \notin t .. (t + n - 1)
      /\ \A o \in Offsets : Live(k, h, o) => Dist(k, o) = Dist(t, o) - n
  BY <1>1, <1>3, RetireDist
<1>5. Dist(t, h) \in Nat
  BY DistRange, Zenon
<1> HIDE DEF n, k
<1>6. ASSUME NEW o \in Offsets, Live(t, h, o), m[o].op # "ZERO", o # t
      PROVE  Live(k, h, o)
  <2>1. o \in t .. (t + n - 1) => o \in (t + 1) .. (t + n - 1)
    BY <1>1, <1>6 DEF Offsets
  <2> QED BY <1>3, <1>4, <1>6, <2>1, Zenon
<1>7. ASSUME NEW o \in Offsets, Live(k, h, o), m[o].op # "ZERO"
      PROVE  /\ m[o].len > 0
             /\ o + m[o].len <= CMDR_SIZE
             /\ Dist(k, o) + m[o].len <= Dist(k, h)
             /\ \A x \in (o + 1) .. (o + m[o].len - 1) : m[x].op = "ZERO"
             /\ Update(o, m[o].len) # h => m[Update(o, m[o].len)].op # "ZERO"
  <2>1. Live(t, h, o)
    BY <1>4, <1>7, Zenon
  <2>2. /\ m[o].len > 0
        /\ o + m[o].len <= CMDR_SIZE
        /\ Dist(t, o) + m[o].len <= Dist(t, h)
        /\ \A x \in (o + 1) .. (o + m[o].len - 1) : m[x].op = "ZERO"
        /\ Update(o, m[o].len) # h => m[Update(o, m[o].len)].op # "ZERO"
    BY <1>7, <2>1, Zenon DEF Tiled
  <2>3. m[o].len \in Nat /\ Dist(t, o) \in Nat
    BY DistRange, Zenon DEF Header
  <2>4. Dist(k, o) + m[o].len <= Dist(k, h)
    <3>1. Dist(k, o) = Dist(t, o) - n
      BY <1>4, <1>7, Zenon
    <3> QED BY <1>1, <1>4, <1>5, <2>2, <2>3, <3>1
  <2> QED BY <2>2, <2>4, Zenon
<1>8. Tiled(m, k, h)
  BY <1>3, <1>7, Zenon DEF Tiled
<1>9. Dist(k, h) <= Dist(t, h)
  BY <1>1, <1>4, <1>5
<1> QED BY <1>4, <1>6, <1>8, <1>9, Zenon DEF k, n

(* Setting a DONE flag changes no length and no operation. *)
LEMMA MarkTiled ==
    ASSUME NEW m \in [Offsets -> Header], NEW t \in Offsets, NEW h \in Offsets,
           NEW p \in Offsets, Tiled(m, t, h)
    PROVE  /\ [m EXCEPT ![p].done = TRUE] \in [Offsets -> Header]
           /\ Tiled([m EXCEPT ![p].done = TRUE], t, h)
<1> DEFINE w == [m EXCEPT ![p].done = TRUE]
<1>1. w \in [Offsets -> Header]
  BY Zenon DEF Header
<1>2. \A o \in Offsets : w[o].op = m[o].op /\ w[o].len = m[o].len
  BY Zenon DEF Header
<1> HIDE DEF w
<1>3. ASSUME NEW o \in Offsets, Live(t, h, o), w[o].op # "ZERO"
      PROVE  /\ w[o].len > 0
             /\ o + w[o].len <= CMDR_SIZE
             /\ Dist(t, o) + w[o].len <= Dist(t, h)
             /\ \A x \in (o + 1) .. (o + w[o].len - 1) : w[x].op = "ZERO"
             /\ Update(o, w[o].len) # h => w[Update(o, w[o].len)].op # "ZERO"
  <2>1. /\ m[o].len > 0
        /\ o + m[o].len <= CMDR_SIZE
        /\ Dist(t, o) + m[o].len <= Dist(t, h)
        /\ \A x \in (o + 1) .. (o + m[o].len - 1) : m[x].op = "ZERO"
        /\ Update(o, m[o].len) # h => m[Update(o, m[o].len)].op # "ZERO"
    BY <1>2, <1>3, Zenon DEF Tiled
  <2>2. m[o].len \in Nat
    BY Zenon DEF Header
  <2>3. Update(o, m[o].len) \in Offsets
    BY <2>2, UpdateInRange, Zenon
  <2>4. (o + 1) .. (o + m[o].len - 1) \subseteq Offsets
    BY <2>1, <2>2, RingAssumption DEF Offsets
  <2> QED BY <1>2, <2>1, <2>3, <2>4, Zenon
<1>4. t # h => w[t].op # "ZERO"
  BY <1>2, Zenon DEF Tiled
<1>5. Tiled(w, t, h)
  BY <1>3, <1>4, Zenon DEF Tiled
<1> QED BY <1>1, <1>5, Zenon DEF w

-----------------------------------------------------------------------------
(* The inductive invariant: the lock discipline and the tiling are what    *)
(* the other parts need to survive a step.                                 *)
RingInv == TypeOK /\ LockInv /\ RingBound /\ Tiling /\ SeIntact

(* A command that passes submit_ring_space_enough fits, with the padding   *)
(* that insert_padding may put in front of it.                             *)
LEMMA SpaceIsEnough ==
    ASSUME TypeOK, RingBound, NEW n \in CmdSizes, submit_ring_space_enough(n)
    PROVE  /\ n \in Nat /\ n > 0 /\ n <= CMDR_SIZE
           /\ space_used \in Nat
           /\ CMDR_SIZE - cmd_head >= n
                 => space_used + n <= CMDR_SIZE - CMDR_RESERVED
           /\ CMDR_SIZE - cmd_head < n
                 => space_used + (CMDR_SIZE - cmd_head) + n
                       <= CMDR_SIZE - CMDR_RESERVED
<1> DEFINE avail == CMDR_SIZE - CMDR_RESERVED - space_used
<1>1. n \in Nat /\ n > 0
  BY RingAssumption
<1>2. space_used \in Nat
  BY DistRange, Zenon DEF TypeOK, space_used
<1>3. avail \in Nat /\ avail < U32
  BY <1>2, RingAssumption DEF RingBound
<1>4. avail % U32 = avail
  BY <1>3, RingAssumption
<1>5. avail >= IF CMDR_SIZE - cmd_head > n THEN n ELSE n + CMDR_SIZE - cmd_head
  BY <1>4, Zenon DEF submit_ring_space_enough
<1> QED BY <1>1, <1>2, <1>5, RingAssumption DEF TypeOK, Offsets

(* Init establishes the invariant. *)
LEMMA RingInvInit == Init => RingInv
<1> SUFFICES ASSUME Init PROVE RingInv
  BY Zenon
<1>1. 0 \in Offsets
  BY RingAssumption DEF Offsets
<1>2. ZeroHdr \in Header /\ ZeroHdr.op = "ZERO"
  BY Zenon DEF ZeroHdr, Header
<1>3. TypeOK
  BY <1>1, <1>2, Zenon DEF Init, TypeOK
<1>4. LockInv
  BY <1>2, RingAssumption, Zenon DEF Init, LockInv
<1>5. Dist(0, 0) = 0 /\ space_used = 0
  BY DEF Init, Dist, space_used
<1>6. RingBound
  BY <1>5, RingAssumption DEF Init, RingBound
<1>7. Tiling
  BY <1>2, Zenon DEF Init, Tiling, Tiled
<1>8. SeIntact
  BY Zenon DEF Init, SeIntact
<1> QED BY <1>3, <1>4, <1>6, <1>7, <1>8, Zenon DEF RingInv

(* What storing an entry of length n at cmd_head does to the ring. *)
LEMMA WriteEffect ==
    ASSUME TypeOK, Tiling, SeIntact, NEW e \in Header, NEW n \in Nat,
           e.len = n, n > 0, e.op # "ZERO",
           cmd_head + n <= CMDR_SIZE, space_used + n < CMDR_SIZE,
           NEW w, w = WriteEntry(ring, cmd_head, e),
           NEW k, k = Update(cmd_head, n)
    PROVE  /\ k \in Offsets
           /\ Dist(cmd_tail, k) = space_used + n
           /\ Live(cmd_tail, k, cmd_head)
           /\ w \in [Offsets -> Header]
           /\ w[cmd_head] = e
           /\ \A o \in Offsets :
                 o = cmd_head \/ w[o] = ZeroHdr \/ w[o] = ring[o]
           /\ Tiled(w, cmd_tail, k)
           /\ \A r \in Reqs : se[r] # NULL =>
                 Live(cmd_tail, k, se[r]) /\ w[se[r]] = ring[se[r]]
<1>1. /\ cmd_head \in Offsets /\ cmd_tail \in Offsets
      /\ ring \in [Offsets -> Header]
      /\ Dist(cmd_tail, cmd_head) + e.len < CMDR_SIZE
      /\ cmd_head + e.len <= CMDR_SIZE
  BY Zenon DEF TypeOK, space_used
<1>2. /\ k \in Offsets
      /\ Dist(cmd_tail, k) = space_used + n
      /\ \A o \in Offsets : Live(cmd_tail, k, o)
            <=> Live(cmd_tail, cmd_head, o) \/ o \in cmd_head .. (cmd_head + n - 1)
  BY <1>1, AppendDist, Zenon DEF space_used
<1>3. cmd_head \in cmd_head .. (cmd_head + n - 1)
  BY <1>1, RingAssumption DEF Offsets
<1>4. /\ w \in [Offsets -> Header]
      /\ w[cmd_head] = e
      /\ \A o \in Offsets : Live(cmd_tail, cmd_head, o) => w[o] = ring[o]
  BY <1>1, WriteKeepsLive
<1>5. \A o \in Offsets : o = cmd_head \/ w[o] = ZeroHdr \/ w[o] = ring[o]
  BY Zenon DEF WriteEntry
<1>6. Tiled(w, cmd_tail, k)
  BY <1>1, WriteTiled, Zenon DEF Tiling
<1>7. \A r \in Reqs : se[r] # NULL =>
          se[r] \in Offsets /\ Live(cmd_tail, cmd_head, se[r])
  BY Zenon DEF SeIntact, TypeOK
<1>8. \A r \in Reqs : se[r] # NULL =>
          Live(cmd_tail, k, se[r]) /\ w[se[r]] = ring[se[r]]
  BY <1>2, <1>4, <1>7, Zenon
<1> QED BY <1>1, <1>2, <1>3, <1>4, <1>5, <1>6, <1>8, Zenon

(* insert_padding keeps the invariant. *)
LEMMA PaddingKeeps ==
    ASSUME RingInv, NEW r \in Reqs, NEW n \in CmdSizes, insert_padding(r, n)
    PROVE  RingInv'
<1> USE DEF RingInv
<1> DEFINE pad == CMDR_SIZE - cmd_head
<1>1. /\ n \in Nat /\ n > 0 /\ n <= CMDR_SIZE
      /\ space_used \in Nat
      /\ pad >= n => space_used + n <= CMDR_SIZE - CMDR_RESERVED
      /\ pad < n => space_used + pad + n <= CMDR_SIZE - CMDR_RESERVED
  BY SpaceIsEnough, Zenon DEF insert_padding
<1>2. pad \in Nat /\ pad > 0 /\ cmd_head \in Nat
  BY RingAssumption DEF TypeOK, Offsets
<1>3. /\ cmdr_lock = NoOwner /\ cmdr_lock' = r /\ se[r] = NULL
      /\ want' = [want EXCEPT ![r] = n]
      /\ UNCHANGED <<cmd_tail, se, completer, removing, bpos, taken>>
  BY Zenon DEF insert_padding
<1>4. \A q \in Reqs : want[q] = 0
  BY <1>3, RingAssumption, Zenon DEF LockInv
<1>5. \A c \in Completers : completer[c] # "advance" /\ c # r
  BY <1>3, RingAssumption, Zenon DEF LockInv
<1>6. /\ want' \in [Reqs -> CmdSizes \cup {0}]
      /\ \A q \in Reqs : want'[q] = IF q = r THEN n ELSE 0
  BY <1>3, <1>4, Zenon DEF TypeOK
<1>7. /\ \A q \in Reqs : cmdr_lock' = q <=> want'[q] # 0
      /\ \A q \in Reqs : cmdr_lock' = q => se'[q] = NULL
      /\ \A c \in Completers : cmdr_lock' = c <=> completer'[c] = "advance"
  BY <1>1, <1>3, <1>5, <1>6
<1>8. CASE pad >= n /\ UNCHANGED <<cmd_head, ring>>
  <2>1. TypeOK'
    BY <1>3, <1>6, <1>8, Zenon DEF TypeOK
  <2>2. LockInv'
    BY <1>7, <1>8, Zenon DEF LockInv
  <2>3. space_used' = space_used
    BY <1>3, <1>8, Zenon DEF space_used, Dist
  <2>4. RingBound'
    BY <1>1, <1>2, <1>3, <1>6, <1>8, <2>3, RingAssumption DEF RingBound
  <2>5. Tiling'
    BY <1>3, <1>8, Zenon DEF Tiling
  <2>6. SeIntact'
    BY <1>3, <1>8, Zenon DEF SeIntact, Live
  <2> QED BY <2>1, <2>2, <2>4, <2>5, <2>6, Zenon
<1>9. CASE /\ pad < n
           /\ ring' = WriteEntry(ring, cmd_head, PadHdr(pad))
           /\ cmd_head' = Update(cmd_head, pad)
  <2> DEFINE e == PadHdr(pad)
  <2>1. e \in Header /\ e.len = pad /\ e.op = "PAD"
    BY <1>2, Zenon DEF PadHdr, Header
  <2>2. /\ cmd_head \in Offsets /\ cmd_tail \in Offsets
        /\ cmd_head + pad <= CMDR_SIZE
        /\ space_used + pad < CMDR_SIZE
    BY <1>1, <1>2, <1>9, RingAssumption DEF TypeOK
  <2> HIDE DEF e
  <2>3. /\ cmd_head' \in Offsets
        /\ Dist(cmd_tail, cmd_head') = space_used + pad
        /\ ring' \in [Offsets -> Header]
        /\ ring'[cmd_head] = e
        /\ \A o \in Offsets : o = cmd_head \/ ring'[o] = ZeroHdr \/ ring'[o] = ring[o]
        /\ Tiled(ring', cmd_tail, cmd_head')
        /\ \A q \in Reqs : se[q] # NULL =>
              Live(cmd_tail, cmd_head', se[q]) /\ ring'[se[q]] = ring[se[q]]
    <3>1. ring' = WriteEntry(ring, cmd_head, e)
      BY <1>9, Zenon DEF e
    <3> QED BY <1>2, <1>9, <2>1, <2>2, <3>1, WriteEffect
  <2>4. cmd_head' = 0 /\ space_used' = space_used + pad
    <3>1. cmd_head' = 0
      BY <1>2, <1>9, <2>2, UpdateValue, RingAssumption
    <3> QED BY <1>3, <2>3, <3>1, Zenon DEF space_used
  <2>5. TypeOK'
    BY <1>3, <1>6, <2>3, <2>4, Zenon DEF TypeOK
  <2>6. LockInv'
    <3>1. \A o \in Offsets : ring'[o].op = "CMD" => ring'[o].priv_data \in Reqs
      BY <2>1, <2>3 DEF LockInv, ZeroHdr
    <3> QED BY <1>7, <3>1, Zenon DEF LockInv
  <2>7. RingBound'
    BY <1>1, <1>2, <1>3, <1>6, <1>9, <2>4, RingAssumption DEF RingBound
  <2>8. Tiling'
    BY <1>3, <2>3, Zenon DEF Tiling
  <2>9. SeIntact'
    BY <1>3, <2>3 DEF SeIntact
  <2> QED BY <2>5, <2>6, <2>7, <2>8, <2>9
<1> QED BY <1>8, <1>9, Zenon DEF insert_padding

(* submit_entry keeps the invariant. *)
LEMMA SubmitKeeps ==
    ASSUME RingInv, NEW r \in Reqs, submit_entry(r)
    PROVE  RingInv'
<1> USE DEF RingInv
<1> DEFINE n == want[r]
           e == CmdHdr(r, n)
<1>1. /\ cmdr_lock = r /\ cmdr_lock' = NoOwner
      /\ ring' = WriteEntry(ring, cmd_head, e)
      /\ se' = [se EXCEPT ![r] = cmd_head]
      /\ cmd_head' = Update(cmd_head, n)
      /\ want' = [want EXCEPT ![r] = 0]
      /\ UNCHANGED <<cmd_tail, completer, removing, bpos, taken>>
  BY Zenon DEF submit_entry
<1>2. n \in CmdSizes /\ n \in Nat /\ n > 0
  <2>1. n # 0 /\ n \in CmdSizes \cup {0}
    BY <1>1, Zenon DEF LockInv, TypeOK
  <2> HIDE DEF n
  <2> QED BY <2>1, RingAssumption
<1>3. e \in Header /\ e.len = n /\ e.op = "CMD" /\ e.priv_data = r /\ ~e.done
  BY <1>2, Zenon DEF CmdHdr, Header
<1>4. /\ cmd_head \in Offsets /\ cmd_tail \in Offsets /\ space_used \in Nat
      /\ cmd_head + n <= CMDR_SIZE
      /\ space_used + n <= CMDR_SIZE - CMDR_RESERVED
      /\ space_used + n < CMDR_SIZE
  <2>1. cmd_head \in Offsets /\ cmd_tail \in Offsets /\ space_used \in Nat
    BY DistRange, Zenon DEF TypeOK, space_used
  <2>2. cmd_head + n <= CMDR_SIZE /\ space_used + n <= CMDR_SIZE - CMDR_RESERVED
    BY <1>1, Zenon DEF RingBound
  <2> QED BY <1>2, <2>1, <2>2, RingAssumption
<1> HIDE DEF e
<1>5. /\ cmd_head' \in Offsets
      /\ Dist(cmd_tail, cmd_head') = space_used + n
      /\ Live(cmd_tail, cmd_head', cmd_head)
      /\ ring' \in [Offsets -> Header]
      /\ ring'[cmd_head] = e
      /\ \A o \in Offsets : o = cmd_head \/ ring'[o] = ZeroHdr \/ ring'[o] = ring[o]
      /\ Tiled(ring', cmd_tail, cmd_head')
      /\ \A q \in Reqs : se[q] # NULL =>
            Live(cmd_tail, cmd_head', se[q]) /\ ring'[se[q]] = ring[se[q]]
  <2>1. ring' = WriteEntry(ring, cmd_head, e)
    BY <1>1, Zenon DEF e
  <2> QED BY <1>1, <1>2, <1>3, <1>4, <2>1, WriteEffect
<1>6. space_used' = space_used + n
  BY <1>1, <1>5, Zenon DEF space_used
<1>7. \A q \in Reqs : want'[q] = 0
  BY <1>1, <1>2, Zenon DEF LockInv, TypeOK
<1>8. TypeOK'
  BY <1>1, <1>5, <1>6, Zenon DEF TypeOK
<1>9. LockInv'
  <2>1. \A o \in Offsets : ring'[o].op = "CMD" => ring'[o].priv_data \in Reqs
    BY <1>3, <1>5 DEF LockInv, ZeroHdr
  <2>2. \A c \in Completers : completer[c] # "advance"
    BY <1>1, RingAssumption, Zenon DEF LockInv
  <2> QED BY <1>1, <1>7, <2>1, <2>2, RingAssumption, Zenon DEF LockInv
<1>10. RingBound'
  BY <1>1, <1>4, <1>6, RingAssumption, Zenon DEF RingBound
<1>11. Tiling'
  BY <1>1, <1>5, Zenon DEF Tiling
<1>12. SeIntact'
  <2>1. ASSUME NEW q \in Reqs, se'[q] # NULL
        PROVE  /\ Live(cmd_tail', cmd_head', se'[q])
               /\ ring'[se'[q]].op = "CMD"
               /\ ring'[se'[q]].priv_data = q
               /\ ~ring'[se'[q]].done
    <3>1. CASE q = r
      BY <1>1, <1>3, <1>5, <1>6, <3>1, Zenon DEF TypeOK
    <3>2. CASE q # r
      <4>1. se'[q] = se[q]
        BY <1>1, <3>2, Zenon DEF TypeOK
      <4> QED BY <1>1, <1>5, <2>1, <4>1 DEF SeIntact
    <3> QED BY <3>1, <3>2, Zenon
  <2> QED BY <2>1, Zenon DEF SeIntact
<1> QED BY <1>8, <1>9, <1>10, <1>11, <1>12, Zenon

(* complete_inflight_req marks the entry of the request it ends and no     *)
(* other, and the marked entry stays where it is.                          *)
LEMMA CompleteKeeps ==
    ASSUME RingInv, NEW c \in Completers, NEW r \in Reqs,
           complete_inflight_req(c, r)
    PROVE  RingInv'
<1> USE DEF RingInv
<1>1. /\ completer[c] = "idle" /\ se[r] # NULL
      /\ ring' = [ring EXCEPT ![se[r]].done = TRUE]
      /\ se' = [se EXCEPT ![r] = NULL]
      /\ taken' = taken \ {r}
      /\ completer' = [completer EXCEPT ![c] = "ended"]
      /\ UNCHANGED <<cmd_head, cmd_tail, cmdr_lock, want, removing, bpos>>
  BY Zenon DEF complete_inflight_req
<1>2. se[r] \in Offsets /\ ring[se[r]].priv_data = r
  BY <1>1 DEF TypeOK, SeIntact
<1>3. ring' \in [Offsets -> Header] /\ Tiling'
  BY <1>1, <1>2, MarkTiled, Zenon DEF TypeOK, Tiling
<1>4. \A o \in Offsets : /\ ring'[o].op = ring[o].op
                         /\ ring'[o].priv_data = ring[o].priv_data
                         /\ o # se[r] => ring'[o] = ring[o]
  BY <1>1, <1>2, Zenon DEF TypeOK, Header
<1>5. TypeOK'
  BY <1>1, <1>3, Zenon DEF TypeOK
<1>6. LockInv'
  BY <1>1, <1>4 DEF LockInv, TypeOK
<1>7. RingBound'
  BY <1>1, Zenon DEF RingBound, space_used
<1>8. SeIntact'
  <2>1. ASSUME NEW q \in Reqs, se'[q] # NULL
        PROVE  /\ Live(cmd_tail', cmd_head', se'[q])
               /\ ring'[se'[q]].op = "CMD"
               /\ ring'[se'[q]].priv_data = q
               /\ ~ring'[se'[q]].done
    <3>1. q # r /\ se'[q] = se[q] /\ se[q] \in Offsets
      BY <1>1, <2>1, Zenon DEF TypeOK
    <3>2. ring[se[q]].priv_data = q
      BY <2>1, <3>1, Zenon DEF SeIntact
    <3>3. ring'[se[q]] = ring[se[q]]
      BY <1>2, <1>4, <3>1, <3>2, Zenon
    <3>4. cmd_tail' = cmd_tail /\ cmd_head' = cmd_head
      BY <1>1, Zenon
    <3> QED BY <2>1, <3>1, <3>3, <3>4 DEF SeIntact
  <2> QED BY <2>1, Zenon DEF SeIntact
<1> QED BY <1>3, <1>5, <1>6, <1>7, <1>8, Zenon

(* One iteration of advance_cmd_ring retires the entry at the tail, which  *)
(* is done and so belongs to no outstanding request.                       *)
LEMMA AdvanceKeeps ==
    ASSUME RingInv, NEW c \in Completers, advance_cmd_ring(c)
    PROVE  RingInv'
<1> USE DEF RingInv
<1>1. /\ completer[c] = "advance" /\ cmd_tail # cmd_head /\ ring[cmd_tail].done
      /\ cmd_tail' = Update(cmd_tail, ring[cmd_tail].len)
      /\ UNCHANGED <<cmd_head, ring, cmdr_lock, want, se, completer, removing,
                     bpos, taken>>
  BY Zenon DEF advance_cmd_ring
<1>2. cmdr_lock = c /\ \A r \in Reqs : cmdr_lock # r
  BY <1>1, RingAssumption, Zenon DEF LockInv
<1>3. cmd_tail \in Offsets /\ cmd_head \in Offsets /\ ring \in [Offsets -> Header]
  BY Zenon DEF TypeOK
<1>4. /\ cmd_tail' \in Offsets
      /\ Dist(cmd_tail', cmd_head) <= Dist(cmd_tail, cmd_head)
      /\ Tiled(ring, cmd_tail', cmd_head)
      /\ \A o \in Offsets :
            Live(cmd_tail, cmd_head, o) /\ ring[o].op # "ZERO" /\ o # cmd_tail
                => Live(cmd_tail', cmd_head, o)
  BY <1>1, <1>3, RetireTiled, Zenon DEF Tiling
<1>5. TypeOK'
  BY <1>1, <1>4, Zenon DEF TypeOK
<1>6. LockInv'
  BY <1>1, Zenon DEF LockInv
<1>7. RingBound'
  <2>1. /\ Dist(cmd_tail, cmd_head) \in Nat
        /\ Dist(cmd_tail', cmd_head) \in Nat
        /\ Dist(cmd_tail, cmd_head) <= CMDR_SIZE - CMDR_RESERVED
    BY <1>3, <1>4, DistRange, Zenon DEF RingBound, space_used
  <2>2. Dist(cmd_tail', cmd_head) <= CMDR_SIZE - CMDR_RESERVED
    BY <1>4, <2>1, RingAssumption
  <2> QED BY <1>1, <1>2, <2>2, Zenon DEF RingBound, space_used
<1>8. Tiling'
  BY <1>1, <1>4, Zenon DEF Tiling
<1>9. SeIntact'
  <2>1. \A q \in Reqs : se[q] # NULL =>
            se[q] \in Offsets /\ se[q] # cmd_tail /\ Live(cmd_tail', cmd_head, se[q])
    BY <1>1, <1>4 DEF SeIntact, TypeOK
  <2> QED BY <1>1, <2>1, Zenon DEF SeIntact
<1> QED BY <1>5, <1>6, <1>7, <1>8, <1>9

(* A backend that retires a padding sets the DONE flag of no command. *)
LEMMA BackendPadKeeps ==
    ASSUME RingInv, backend_pad
    PROVE  RingInv'
<1> USE DEF RingInv
<1>1. /\ ring[bpos].op = "PAD"
      /\ ring' = [ring EXCEPT ![bpos].done = TRUE]
      /\ bpos' = Update(bpos, ring[bpos].len)
      /\ UNCHANGED <<cmd_head, cmd_tail, cmdr_lock, want, se, completer,
                     removing, taken>>
  BY Zenon DEF backend_pad
<1>2. bpos \in Offsets /\ ring[bpos].len \in Nat
  BY Zenon DEF TypeOK, Header
<1>3. bpos' \in Offsets
  BY <1>1, <1>2, UpdateInRange, Zenon
<1>4. ring' \in [Offsets -> Header] /\ Tiling'
  BY <1>1, <1>2, MarkTiled, Zenon DEF TypeOK, Tiling
<1>5. \A o \in Offsets : /\ ring'[o].op = ring[o].op
                         /\ ring'[o].priv_data = ring[o].priv_data
                         /\ o # bpos => ring'[o] = ring[o]
  BY <1>1, <1>2, Zenon DEF TypeOK, Header
<1>6. TypeOK'
  BY <1>1, <1>3, <1>4, Zenon DEF TypeOK
<1>7. LockInv'
  BY <1>1, <1>5, Zenon DEF LockInv
<1>8. RingBound'
  BY <1>1, Zenon DEF RingBound, space_used
<1>9. SeIntact'
  <2>1. \A q \in Reqs : se[q] # NULL =>
            se[q] \in Offsets /\ se[q] # bpos /\ ring'[se[q]] = ring[se[q]]
    BY <1>1, <1>5 DEF SeIntact, TypeOK
  <2> QED BY <1>1, <2>1 DEF SeIntact
<1> QED BY <1>4, <1>6, <1>7, <1>8, <1>9, Zenon

(* The strengthened invariant is inductive: one step per action. *)
LEMMA RingInvNext ==
    ASSUME RingInv, [Next]_vars
    PROVE  RingInv'
<1>1. ASSUME NEW r \in Reqs, NEW s \in CmdSizes, insert_padding(r, s)
      PROVE  RingInv'
  BY <1>1, PaddingKeeps, Zenon
<1>2. ASSUME NEW r \in Reqs, submit_entry(r)
      PROVE  RingInv'
  BY <1>2, SubmitKeeps, Zenon
<1>3. ASSUME NEW c \in Completers, NEW r \in Reqs, complete_inflight_req(c, r)
      PROVE  RingInv'
  BY <1>3, CompleteKeeps
<1>4. ASSUME NEW c \in Completers, advance_lock(c)
      PROVE  RingInv'
  <2>1. TypeOK'
    BY <1>4, Zenon DEF RingInv, TypeOK, advance_lock
  <2>2. LockInv'
    BY <1>4, RingAssumption, Zenon DEF RingInv, TypeOK, LockInv, advance_lock
  <2>3. RingBound'
    BY <1>4, RingAssumption, Zenon DEF RingInv, RingBound, space_used, advance_lock
  <2>4. Tiling' /\ SeIntact'
    BY <1>4, Zenon DEF RingInv, Tiling, SeIntact, advance_lock
  <2> QED BY <2>1, <2>2, <2>3, <2>4, Zenon DEF RingInv
<1>5. ASSUME NEW c \in Completers, advance_cmd_ring(c)
      PROVE  RingInv'
  BY <1>5, AdvanceKeeps
<1>6. ASSUME NEW c \in Completers, advance_unlock(c)
      PROVE  RingInv'
  <2>1. TypeOK'
    BY <1>6, Zenon DEF RingInv, TypeOK, advance_unlock
  <2>2. LockInv'
    BY <1>6, RingAssumption, Zenon DEF RingInv, TypeOK, LockInv, advance_unlock
  <2>3. RingBound'
    BY <1>6, RingAssumption, Zenon DEF RingInv, RingBound, space_used, advance_unlock
  <2>4. Tiling' /\ SeIntact'
    BY <1>6, Zenon DEF RingInv, Tiling, SeIntact, advance_unlock
  <2> QED BY <2>1, <2>2, <2>3, <2>4 DEF RingInv
<1>7. CASE remove_queue
  <2>1. TypeOK' /\ LockInv'
    BY <1>7, Zenon DEF RingInv, TypeOK, LockInv, remove_queue
  <2>2. RingBound' /\ Tiling' /\ SeIntact'
    BY <1>7, Zenon DEF RingInv, RingBound, space_used, Tiling, SeIntact, remove_queue
  <2> QED BY <2>1, <2>2, Zenon DEF RingInv
<1>8. CASE backend_pad
  BY <1>8, BackendPadKeeps, Zenon
<1>9. CASE backend_take
  <2>1. bpos \in Offsets /\ ring[bpos].len \in Nat /\ ring[bpos].priv_data \in Reqs
    BY <1>9, Zenon DEF RingInv, TypeOK, LockInv, Header, backend_take
  <2>2. TypeOK'
    BY <1>9, <2>1, UpdateInRange, Zenon DEF RingInv, TypeOK, backend_take
  <2>3. LockInv'
    BY <1>9, Zenon DEF RingInv, LockInv, backend_take
  <2>4. RingBound' /\ Tiling' /\ SeIntact'
    BY <1>9, Zenon DEF RingInv, RingBound, space_used, Tiling, SeIntact, backend_take
  <2> QED BY <2>2, <2>3, <2>4, Zenon DEF RingInv
<1>10. CASE UNCHANGED vars
  BY <1>10, Zenon DEF vars, RingInv, TypeOK, LockInv, RingBound, space_used, Tiling,
              SeIntact
<1> QED
  BY <1>1, <1>2, <1>3, <1>4, <1>5, <1>6, <1>7, <1>8, <1>9, <1>10, Zenon DEF Next

(* RingInv holds of every reachable state, for every ring size, reserve,   *)
(* set of command sizes and number of requests and completers.             *)
THEOREM RingInvariant == Spec => []RingInv
BY RingInvInit, RingInvNext, PTL DEF Spec

(* Every variable keeps its type; in particular cmd_head and cmd_tail stay *)
(* offsets of the ring whatever lengths UPDATE_CMDR_HEAD and _TAIL add.    *)
THEOREM TypeCorrect == Spec => []TypeOK
<1>1. RingInv => TypeOK
  BY Zenon DEF RingInv
<1> QED BY <1>1, RingInvariant, PTL

(* submit_ring_space_enough together with insert_padding never lets the    *)
(* workers eat into the reserve, and never lets a command wrap.            *)
THEOREM RingNeverUsedUp == Spec => []RingBound
<1>1. RingInv => RingBound
  BY Zenon DEF RingInv
<1> QED BY <1>1, RingInvariant, PTL

(* The walk of advance_cmd_ring by header lengths always lands on the      *)
(* start of an entry.                                                      *)
THEOREM RingStaysTiled == Spec => []Tiling
<1>1. RingInv => Tiling
  BY Zenon DEF RingInv
<1> QED BY <1>1, RingInvariant, PTL

(* No command overwrites the entry of a request that has not ended.        *)
THEOREM EntriesStayIntact == Spec => []SeIntact
<1>1. RingInv => SeIntact
  BY Zenon DEF RingInv
<1> QED BY <1>1, RingInvariant, PTL

-----------------------------------------------------------------------------
(* The backend has passed offset o. *)
Passed(o) == Dist(cmd_tail, o) < Dist(cmd_tail, bpos)

(* Where the entry at o ends. *)
After(o) == Update(o, ring[o].len)

(* An entry is done only if the backend has passed it.  A padding is done  *)
(* once the backend has passed it, and is followed by a command, which at  *)
(* first is still to be written.  A command that is not done belongs to a  *)
(* request that has not ended.                                             *)
EntryRight(o) ==
    /\ ring[o].done => Passed(o)
    /\ ring[o].op = "PAD" /\ Passed(o) => ring[o].done
    /\ ring[o].op = "PAD" /\ After(o) = cmd_head => cmdr_lock \in Reqs
    /\ ring[o].op = "PAD" /\ After(o) # cmd_head => ring[After(o)].op = "CMD"
    /\ ring[o].op = "CMD" /\ ~ring[o].done => se[ring[o].priv_data] = o

(* advance_cmd_ring has nothing to retire, but for a padding whose command *)
(* is not done: the backend retires a padding without telling the driver.  *)
Stuck ==
    \/ cmd_tail = cmd_head
    \/ ~ring[cmd_tail].done
    \/ /\ ring[cmd_tail].op = "PAD"
       /\ After(cmd_tail) = cmd_head \/ ~ring[After(cmd_tail)].done

(* The backend walks from entry to entry, between cmd_tail and cmd_head. *)
Walking == bpos = cmd_head \/ EntryAt(bpos)

TakenRight == \A r \in taken : se[r] # NULL /\ Passed(se[r])

AllIdle == \A c \in Completers : completer[c] = "idle"

WalkInv ==
    /\ Walking
    /\ \A o \in Offsets : EntryAt(o) => EntryRight(o)
    /\ TakenRight
    /\ AllIdle => Stuck

IdleInv == ~removing => WalkInv

-----------------------------------------------------------------------------
(* An entry of the tiled ring ends where the next begins, and no entry     *)
(* begins within it.                                                       *)
LEMMA EntryFacts ==
    ASSUME RingInv, NEW o \in Offsets, EntryAt(o)
    PROVE  /\ ring[o].len \in Nat /\ ring[o].len > 0 /\ After(o) \in Offsets
           /\ Dist(cmd_tail, After(o)) = Dist(cmd_tail, o) + ring[o].len
           /\ Dist(cmd_tail, After(o)) <= Dist(cmd_tail, cmd_head)
           /\ After(o) # cmd_head => EntryAt(After(o))
           /\ \A x \in Offsets : EntryAt(x) /\ Dist(cmd_tail, o) < Dist(cmd_tail, x)
                 => Dist(cmd_tail, After(o)) <= Dist(cmd_tail, x)
<1> DEFINE n == ring[o].len
<1>1. /\ cmd_tail \in Offsets /\ cmd_head \in Offsets /\ n \in Nat
      /\ ring[o].op # "ZERO"
  BY Zenon DEF RingInv, TypeOK, Header, EntryAt
<1>2. /\ n > 0 /\ o + n <= CMDR_SIZE
      /\ Dist(cmd_tail, o) + n <= Dist(cmd_tail, cmd_head)
      /\ \A x \in (o + 1) .. (o + n - 1) : ring[x].op = "ZERO"
      /\ Update(o, n) # cmd_head => ring[Update(o, n)].op # "ZERO"
  BY Zenon DEF RingInv, Tiling, Tiled, EntryAt
<1>3. After(o) = Update(o, n)
  BY Zenon DEF After
<1> HIDE DEF n
<1>4. /\ Dist(cmd_tail, cmd_head) \in Nat /\ Dist(cmd_tail, cmd_head) < CMDR_SIZE
      /\ Dist(cmd_tail, o) \in Nat
  <2>1. Dist(cmd_tail, cmd_head) \in Offsets /\ Dist(cmd_tail, o) \in Nat
    BY <1>1, DistRange, Zenon
  <2> QED BY <2>1, RingAssumption DEF Offsets
<1>5. Update(o, n) \in Offsets /\ Dist(cmd_tail, Update(o, n)) = Dist(cmd_tail, o) + n
  <2>1. Dist(cmd_tail, o) + n < CMDR_SIZE
    BY <1>1, <1>2, <1>4, RingAssumption
  <2> QED BY <1>1, <1>2, <2>1, AppendDist, Zenon
<1>6. ASSUME Update(o, n) # cmd_head PROVE EntryAt(Update(o, n))
  <2>1. Live(cmd_tail, cmd_head, Update(o, n))
    BY <1>1, <1>2, <1>6, NextLive, Zenon
  <2> QED BY <1>2, <1>6, <2>1, Zenon DEF EntryAt
<1>7. ASSUME NEW x \in Offsets, EntryAt(x), Dist(cmd_tail, o) < Dist(cmd_tail, x)
      PROVE  Dist(cmd_tail, o) + n <= Dist(cmd_tail, x)
  <2>1. x \notin (o + 1) .. (o + n - 1)
    BY <1>2, <1>7, Zenon DEF EntryAt
  <2> QED BY <1>1, <1>2, <1>7, <2>1, RingAssumption DEF Dist, Offsets
<1> QED BY <1>1, <1>2, <1>3, <1>5, <1>6, <1>7, Zenon DEF n

(* The backend is not past cmd_head. *)
LEMMA WalkBound ==
    ASSUME RingInv, Walking
    PROVE  /\ bpos \in Offsets /\ Dist(cmd_tail, bpos) \in Nat
           /\ Dist(cmd_tail, cmd_head) \in Nat
           /\ Dist(cmd_tail, bpos) <= Dist(cmd_tail, cmd_head)
<1>1. cmd_tail \in Offsets /\ cmd_head \in Offsets /\ bpos \in Offsets
  BY Zenon DEF RingInv, TypeOK
<1>2. Dist(cmd_tail, bpos) \in Nat /\ Dist(cmd_tail, cmd_head) \in Nat
  BY <1>1, DistRange, Zenon
<1> QED BY <1>1, <1>2 DEF Walking, EntryAt, Live

(* Offsets at one distance are the same. *)
LEMMA DistInjective ==
    ASSUME NEW t \in Offsets, NEW o \in Offsets, NEW x \in Offsets, Dist(t, o) = Dist(t, x)
    PROVE  o = x
BY RingAssumption DEF Dist, Offsets

-----------------------------------------------------------------------------
(* What a new entry at cmd_head changes: the others stay, and the backend  *)
(* has not passed it.                                                      *)
LEMMA WriteMoves ==
    ASSUME RingInv, Walking, NEW e \in Header, e.len > 0, e.op # "ZERO",
           cmd_head + e.len <= CMDR_SIZE, space_used + e.len < CMDR_SIZE,
           ring' = WriteEntry(ring, cmd_head, e), cmd_head' = Update(cmd_head, e.len),
           UNCHANGED <<cmd_tail, bpos>>,
           NEW h, h = cmd_head
    PROVE  /\ \A o \in Offsets : EntryAt(o) => EntryAt(o)' /\ ring'[o] = ring[o]
           /\ \A o \in Offsets : EntryAt(o)' => EntryAt(o) \/ o = h
           /\ ring'[h] = e /\ ~Passed(h)' /\ cmd_head' # cmd_head
           /\ \A o : Passed(o)' <=> Passed(o)
           /\ \A o \in Offsets : EntryAt(o) => After(o)' = After(o)
           /\ \A o \in Offsets : EntryAt(o) => After(o) # cmd_head'
           /\ \A o \in Offsets : EntryAt(o) /\ After(o) # cmd_head
                 => ring'[After(o)] = ring[After(o)]
           /\ Walking'
<1>1. /\ cmd_head \in Offsets /\ cmd_tail \in Offsets /\ bpos \in Offsets
      /\ ring \in [Offsets -> Header] /\ e.len \in Nat
      /\ Dist(cmd_tail, cmd_head) + e.len < CMDR_SIZE
      /\ Dist(cmd_tail, cmd_head) \in Nat
  BY DistRange, Zenon DEF RingInv, TypeOK, space_used, Header
<1>2. /\ cmd_head' \in Offsets
      /\ Dist(cmd_tail, cmd_head') = Dist(cmd_tail, cmd_head) + e.len
      /\ \A o \in Offsets : Live(cmd_tail, cmd_head', o)
            <=> Live(cmd_tail, cmd_head, o) \/ o \in cmd_head .. (cmd_head + e.len - 1)
  BY <1>1, AppendDist, Zenon
<1>3. /\ ring'[cmd_head] = e
      /\ \A o \in Offsets : o \in (cmd_head + 1) .. (cmd_head + e.len - 1)
            => ring'[o] = ZeroHdr
      /\ \A o \in Offsets : Live(cmd_tail, cmd_head, o) => ring'[o] = ring[o]
  BY <1>1, WriteKeepsLive
<1>4. \A o \in Offsets :
         EntryAt(o)' <=> Live(cmd_tail, cmd_head', o) /\ ring'[o].op # "ZERO"
  BY Zenon DEF EntryAt
<1>5. ASSUME NEW o \in Offsets, EntryAt(o) PROVE EntryAt(o)' /\ ring'[o] = ring[o]
  BY <1>2, <1>3, <1>4, <1>5, Zenon DEF EntryAt
<1>6. ASSUME NEW o \in Offsets, EntryAt(o)' PROVE EntryAt(o) \/ o = h
  <2>1. CASE Live(cmd_tail, cmd_head, o)
    BY <1>3, <1>4, <1>6, <2>1, Zenon DEF EntryAt
  <2>2. CASE ~Live(cmd_tail, cmd_head, o)
    <3>1. o \in cmd_head .. (cmd_head + e.len - 1)
      BY <1>2, <1>4, <1>6, <2>2, Zenon
    <3>2. o # cmd_head => o \in (cmd_head + 1) .. (cmd_head + e.len - 1)
      BY <1>1, <3>1 DEF Offsets
    <3>3. ZeroHdr.op = "ZERO"
      BY Zenon DEF ZeroHdr
    <3> QED BY <1>3, <1>4, <1>6, <3>2, <3>3, Zenon
  <2> QED BY <2>1, <2>2, Zenon
<1>7. \A o : Passed(o)' <=> Passed(o)
  BY Zenon DEF Passed
<1>8. ~Passed(h)
  BY WalkBound DEF Passed
<1>9. cmd_head' # cmd_head
  BY <1>1, <1>2
<1>10. \A o \in Offsets : EntryAt(o) => After(o)' = After(o)
  BY <1>5, Zenon DEF After
<1>11. ASSUME NEW o \in Offsets, EntryAt(o) PROVE After(o) # cmd_head'
  <2>1. Dist(cmd_tail, After(o)) <= Dist(cmd_tail, cmd_head)
    BY <1>11, EntryFacts, Zenon
  <2> QED BY <1>1, <1>2, <2>1
<1>12. ASSUME NEW o \in Offsets, EntryAt(o), After(o) # cmd_head
       PROVE  ring'[After(o)] = ring[After(o)]
  <2>1. After(o) \in Offsets /\ EntryAt(After(o))
    BY <1>12, EntryFacts, Zenon
  <2> QED BY <1>5, <2>1, Zenon
<1>13. EntryAt(h)'
  <2>1. cmd_head \in cmd_head .. (cmd_head + e.len - 1)
    BY <1>1 DEF Offsets
  <2> QED BY <1>1, <1>2, <1>3, <1>4, <2>1, Zenon
<1>14. Walking'
  <2>1. EntryAt(bpos)' => Walking'
    BY Zenon DEF Walking
  <2>2. bpos' = bpos /\ (bpos = cmd_head \/ EntryAt(bpos))
    BY Zenon DEF Walking
  <2>3. \A o : (o = bpos => (EntryAt(o)' => EntryAt(bpos)'))
    BY <2>2, Zenon DEF EntryAt
  <2> QED BY <1>1, <1>5, <1>13, <2>1, <2>2, <2>3, Zenon
<1> QED BY <1>3, <1>5, <1>6, <1>7, <1>8, <1>9, <1>10, <1>11, <1>12, <1>14, Zenon

(* A ring that is not empty has an entry at cmd_tail. *)
LEMMA TailEntry ==
    ASSUME RingInv, NEW t, t = cmd_tail, cmd_tail # cmd_head
    PROVE  EntryAt(t) /\ Dist(cmd_tail, t) = 0
<1>1. Dist(cmd_tail, cmd_tail) = 0 /\ Live(cmd_tail, cmd_head, cmd_tail)
  BY RingAssumption DEF RingInv, TypeOK, Live, Dist, Offsets
<1> QED BY <1>1, Zenon DEF EntryAt, RingInv, Tiling, Tiled

(* The entry of a request that the backend works on. *)
LEMMA TakenEntry ==
    ASSUME RingInv, TakenRight, NEW q \in taken
    PROVE  se[q] \in Offsets /\ EntryAt(se[q])
<1>1. q \in Reqs /\ se[q] # NULL
  BY Zenon DEF TakenRight, RingInv, TypeOK
<1>2. se[q] \in Offsets
  BY <1>1, Zenon DEF RingInv, TypeOK
<1>3. ring[se[q]].op = "CMD" /\ Live(cmd_tail, cmd_head, se[q])
  BY <1>1, Zenon DEF RingInv, SeIntact
<1>4. ring[se[q]].op # "ZERO"
  BY <1>3, Zenon
<1> QED BY <1>2, <1>3, <1>4, Zenon DEF EntryAt

(* A step that leaves the entries and the positions in the ring alone. *)
LEMMA StillRing ==
    ASSUME UNCHANGED <<cmd_head, cmd_tail, ring, bpos>>
    PROVE  /\ Walking' <=> Walking
           /\ Stuck' <=> Stuck
           /\ \A o : EntryAt(o)' <=> EntryAt(o)
           /\ \A o : Passed(o)' <=> Passed(o)
           /\ \A o : After(o)' = After(o)
BY Zenon DEF Walking, Stuck, EntryAt, Passed, After

(* What insert_padding writes is what the invariant says of a padding. *)
LEMMA PaddingIdle ==
    ASSUME RingInv, WalkInv, NEW r \in Reqs, NEW n \in CmdSizes, insert_padding(r, n)
    PROVE  WalkInv'
<1> DEFINE pad == CMDR_SIZE - cmd_head
<1>1. /\ cmdr_lock = NoOwner /\ cmdr_lock' = r
      /\ UNCHANGED <<cmd_tail, se, completer, bpos, taken>>
  BY Zenon DEF insert_padding
<1>2. cmdr_lock \notin Reqs
  BY <1>1, RingAssumption, Zenon
<1>3. /\ Walking /\ TakenRight /\ (AllIdle => Stuck)
      /\ \A o \in Offsets : EntryAt(o) => EntryRight(o)
  BY Zenon DEF WalkInv
<1>4. AllIdle' <=> AllIdle
  BY <1>1, Zenon DEF AllIdle
<1>5. CASE UNCHANGED <<cmd_head, ring>>
  <2>1. ASSUME NEW o \in Offsets, EntryAt(o)' PROVE EntryRight(o)'
    <3>1. EntryRight(o) /\ After(o)' = After(o) /\ (Passed(o)' <=> Passed(o))
      BY <1>1, <1>3, <1>5, <2>1, StillRing, Zenon
    <3> QED BY <1>1, <1>5, <3>1, Zenon DEF EntryRight
  <2>2. TakenRight'
    BY <1>1, <1>3, <1>5, StillRing, Zenon DEF TakenRight, Passed
  <2> QED BY <1>1, <1>3, <1>4, <1>5, <2>1, <2>2, StillRing, Zenon DEF WalkInv
<1>6. CASE /\ pad < n
           /\ ring' = WriteEntry(ring, cmd_head, PadHdr(pad))
           /\ cmd_head' = Update(cmd_head, pad)
  <2>1. /\ n \in Nat /\ space_used \in Nat
        /\ space_used + pad + n <= CMDR_SIZE - CMDR_RESERVED
    BY <1>6, SpaceIsEnough, Zenon DEF insert_padding, RingInv
  <2>2. pad \in Nat /\ pad > 0 /\ cmd_head \in Nat /\ cmd_head \in Offsets
    BY RingAssumption DEF RingInv, TypeOK, Offsets
  <2>3. cmd_head + pad <= CMDR_SIZE /\ space_used + pad < CMDR_SIZE
    BY <1>6, <2>1, <2>2, RingAssumption
  <2>4. PICK e \in Header : /\ e = PadHdr(pad) /\ e.len = pad /\ e.op = "PAD" /\ ~e.done
    <3>1. /\ PadHdr(pad) \in Header /\ PadHdr(pad).len = pad
          /\ PadHdr(pad).op = "PAD" /\ ~PadHdr(pad).done
      BY <2>2, Zenon DEF PadHdr, Header
    <3> QED BY <3>1, Zenon
  <2>5. PICK h \in Offsets : h = cmd_head
    BY <2>2, Zenon
  <2> HIDE DEF pad
  <2>6. /\ \A o \in Offsets : EntryAt(o) => EntryAt(o)' /\ ring'[o] = ring[o]
        /\ \A o \in Offsets : EntryAt(o)' => EntryAt(o) \/ o = h
        /\ ring'[h] = e /\ ~Passed(h)' /\ cmd_head' # cmd_head
        /\ \A o : Passed(o)' <=> Passed(o)
        /\ \A o \in Offsets : EntryAt(o) => After(o)' = After(o)
        /\ \A o \in Offsets : EntryAt(o) => After(o) # cmd_head'
        /\ \A o \in Offsets : EntryAt(o) /\ After(o) # cmd_head
              => ring'[After(o)] = ring[After(o)]
        /\ Walking'
    <3>1. /\ e.len > 0 /\ e.op # "ZERO"
          /\ cmd_head + e.len <= CMDR_SIZE /\ space_used + e.len < CMDR_SIZE
      BY <2>2, <2>3, <2>4, Zenon
    <3>2. /\ ring' = WriteEntry(ring, cmd_head, e) /\ cmd_head' = Update(cmd_head, e.len)
          /\ UNCHANGED <<cmd_tail, bpos>>
      BY <1>1, <1>6, <2>4, Zenon
    <3> QED BY <1>3, <2>5, <3>1, <3>2, WriteMoves, Zenon
  <2>7. ASSUME NEW o \in Offsets, EntryAt(o)' PROVE EntryRight(o)'
    <3>1. CASE EntryAt(o)
      <4>1. /\ EntryRight(o) /\ ring'[o] = ring[o] /\ (Passed(o)' <=> Passed(o))
            /\ After(o)' = After(o) /\ After(o) # cmd_head'
            /\ After(o) # cmd_head => ring'[After(o)] = ring[After(o)]
        BY <1>3, <2>6, <3>1, Zenon
      <4> QED BY <1>1, <1>2, <4>1, Zenon DEF EntryRight
    <3>2. CASE o = h
      <4>1. ring'[o].op = "PAD" /\ ~ring'[o].done /\ ~Passed(o)' /\ cmdr_lock' \in Reqs
        BY <1>1, <2>4, <2>6, <3>2, Zenon
      <4>2. After(o)' = cmd_head'
        BY <1>6, <2>4, <2>5, <2>6, <3>2, Zenon DEF After
      <4> QED BY <4>1, <4>2, Zenon DEF EntryRight
    <3> QED BY <2>6, <2>7, <3>1, <3>2, Zenon
  <2>8. TakenRight'
    <3>1. \A q \in taken : (Passed(se[q]))' <=> Passed(se[q])
      BY <1>1, Zenon DEF Passed
    <3> QED BY <1>1, <1>3, <3>1, Zenon DEF TakenRight
  <2>9. ASSUME Stuck PROVE Stuck'
    <3>1. CASE cmd_tail = cmd_head
      <4>1. ~ring'[cmd_tail'].done
        BY <1>1, <2>4, <2>5, <2>6, <3>1, Zenon
      <4> QED BY <4>1, Zenon DEF Stuck
    <3>2. CASE cmd_tail # cmd_head
      <4>1. PICK t \in Offsets : t = cmd_tail
        BY Zenon DEF RingInv, TypeOK
      <4>2. EntryAt(t)
        BY <2>5, <3>2, <4>1, TailEntry, Zenon
      <4>3. /\ EntryRight(t) /\ ring'[t] = ring[t] /\ After(t)' = After(t)
            /\ After(t) # cmd_head => ring'[After(t)] = ring[After(t)]
        BY <1>3, <2>6, <4>2, Zenon
      <4>4. \/ ~ring[t].done
            \/ ring[t].op = "PAD" /\ (After(t) = cmd_head \/ ~ring[After(t)].done)
        BY <2>9, <3>2, <4>1, Zenon DEF Stuck, After
      <4>5. \/ ~ring'[t].done
            \/ ring'[t].op = "PAD" /\ ~ring'[After(t)'].done
        BY <1>2, <4>3, <4>4, Zenon DEF EntryRight
      <4>6. cmd_tail' = t
        BY <1>1, <4>1, Zenon
      <4> QED BY <4>5, <4>6, Zenon DEF Stuck, After
    <3> QED BY <3>1, <3>2, Zenon
  <2> QED BY <1>3, <1>4, <2>6, <2>7, <2>8, <2>9, Zenon DEF WalkInv
<1> QED BY <1>5, <1>6, Zenon DEF insert_padding

(* What submit_entry writes is a command of its own request, which follows *)
(* the padding if there is one.                                            *)
LEMMA SubmitIdle ==
    ASSUME RingInv, WalkInv, NEW r \in Reqs, submit_entry(r)
    PROVE  WalkInv'
<1>1. /\ cmdr_lock = r /\ ring' = WriteEntry(ring, cmd_head, CmdHdr(r, want[r]))
      /\ se' = [se EXCEPT ![r] = cmd_head]
      /\ cmd_head' = Update(cmd_head, want[r])
      /\ UNCHANGED <<cmd_tail, completer, bpos, taken>>
  BY Zenon DEF submit_entry
<1>2. /\ Walking /\ TakenRight /\ (AllIdle => Stuck)
      /\ \A o \in Offsets : EntryAt(o) => EntryRight(o)
  BY Zenon DEF WalkInv
<1>3. AllIdle' <=> AllIdle
  BY <1>1, Zenon DEF AllIdle
<1>4. PICK n \in Nat : n = want[r] /\ n > 0
  <2>1. want[r] # 0 /\ want[r] \in CmdSizes \cup {0}
    BY <1>1, Zenon DEF RingInv, LockInv, TypeOK
  <2>2. PICK n : n = want[r]
    BY Zenon
  <2>3. n \in CmdSizes \cup {0} /\ n # 0
    BY <2>1, <2>2, Zenon
  <2>4. n \in Nat /\ n > 0
    BY <2>3, RingAssumption
  <2> QED BY <2>2, <2>4, Zenon
<1>5. /\ cmd_head \in Offsets /\ space_used \in Nat
      /\ cmd_head + n <= CMDR_SIZE /\ space_used + n < CMDR_SIZE
  <2>1. cmd_head \in Offsets /\ cmd_tail \in Offsets /\ space_used \in Nat
    BY DistRange, Zenon DEF RingInv, TypeOK, space_used
  <2>2. cmd_head + n <= CMDR_SIZE /\ space_used + n <= CMDR_SIZE - CMDR_RESERVED
    BY <1>1, <1>4, Zenon DEF RingInv, RingBound
  <2> QED BY <2>1, <2>2, RingAssumption
<1>6. PICK e \in Header : /\ e = CmdHdr(r, n) /\ e.len = n /\ e.op = "CMD" /\ ~e.done
                          /\ e.priv_data = r
  <2>1. /\ CmdHdr(r, n) \in Header /\ CmdHdr(r, n).len = n /\ CmdHdr(r, n).op = "CMD"
        /\ ~CmdHdr(r, n).done /\ CmdHdr(r, n).priv_data = r
    BY Zenon DEF CmdHdr, Header
  <2> QED BY <2>1, Zenon
<1>7. PICK h \in Offsets : h = cmd_head
  BY <1>5, Zenon
<1>8. /\ \A o \in Offsets : EntryAt(o) => EntryAt(o)' /\ ring'[o] = ring[o]
      /\ \A o \in Offsets : EntryAt(o)' => EntryAt(o) \/ o = h
      /\ ring'[h] = e /\ ~Passed(h)' /\ cmd_head' # cmd_head
      /\ \A o : Passed(o)' <=> Passed(o)
      /\ \A o \in Offsets : EntryAt(o) => After(o)' = After(o)
      /\ \A o \in Offsets : EntryAt(o) => After(o) # cmd_head'
      /\ \A o \in Offsets : EntryAt(o) /\ After(o) # cmd_head
            => ring'[After(o)] = ring[After(o)]
      /\ Walking'
  <2>1. /\ e.len > 0 /\ e.op # "ZERO"
        /\ cmd_head + e.len <= CMDR_SIZE /\ space_used + e.len < CMDR_SIZE
    BY <1>4, <1>5, <1>6, Zenon
  <2>2. /\ ring' = WriteEntry(ring, cmd_head, e) /\ cmd_head' = Update(cmd_head, e.len)
        /\ UNCHANGED <<cmd_tail, bpos>>
    BY <1>1, <1>4, <1>6, Zenon
  <2> QED BY <1>2, <1>7, <2>1, <2>2, WriteMoves, Zenon
<1>9. /\ se[r] = NULL /\ se'[r] = h /\ h # NULL
      /\ \A q \in Reqs : q # r => se'[q] = se[q]
  <2>1. se[r] = NULL /\ DOMAIN se = Reqs
    BY <1>1, Zenon DEF RingInv, LockInv, TypeOK
  <2>2. h # NULL
    BY <1>7, RingAssumption DEF Offsets, NULL
  <2> QED BY <1>1, <1>7, <2>1, <2>2, Zenon
<1>10. \A q \in taken : q \in Reqs /\ q # r
  BY <1>2, <1>9, Zenon DEF TakenRight, RingInv, TypeOK
<1>11. ASSUME NEW o \in Offsets, EntryAt(o)' PROVE EntryRight(o)'
  <2>1. CASE EntryAt(o)
    <3>1. /\ EntryRight(o) /\ ring'[o] = ring[o] /\ (Passed(o)' <=> Passed(o))
          /\ After(o)' = After(o) /\ After(o) # cmd_head'
          /\ After(o) # cmd_head => ring'[After(o)] = ring[After(o)]
      BY <1>2, <1>8, <2>1, Zenon
    <3>2. After(o) = cmd_head => ring'[After(o)].op = "CMD"
      BY <1>6, <1>7, <1>8, Zenon
    <3>3. ring[o].op = "CMD" /\ ~ring[o].done => se'[ring[o].priv_data] = o
      <4> SUFFICES ASSUME ring[o].op = "CMD", ~ring[o].done
                   PROVE  se'[ring[o].priv_data] = o
        BY Zenon
      <4>1. ring[o].priv_data \in Reqs /\ se[ring[o].priv_data] = o
        BY <3>1, Zenon DEF EntryRight, RingInv, LockInv
      <4>2. o # NULL
        BY RingAssumption DEF Offsets, NULL
      <4> QED BY <1>9, <4>1, <4>2, Zenon
    <3> QED BY <3>1, <3>2, <3>3, Zenon DEF EntryRight
  <2>2. CASE o = h
    <3>1. /\ ring'[o].op = "CMD" /\ ~ring'[o].done /\ ring'[o].priv_data = r /\ se'[r] = o
      BY <1>6, <1>8, <1>9, <2>2, Zenon
    <3>2. ring'[o].op # "PAD"
      BY <3>1, Zenon
    <3> QED BY <3>1, <3>2, Zenon DEF EntryRight
  <2> QED BY <1>8, <1>11, <2>1, <2>2, Zenon
<1>12. TakenRight'
  <2>1. \A q \in taken : se'[q] = se[q]
    BY <1>9, <1>10, Zenon
  <2>2. \A q \in taken : (Passed(se[q]))' <=> Passed(se[q])
    BY <1>1, <2>1, Zenon DEF Passed
  <2> QED BY <1>1, <1>2, <2>1, <2>2, Zenon DEF TakenRight
<1>13. ASSUME Stuck PROVE Stuck'
  <2>1. CASE cmd_tail = cmd_head
    <3>1. ~ring'[cmd_tail'].done
      BY <1>1, <1>6, <1>7, <1>8, <2>1, Zenon
    <3> QED BY <3>1, Zenon DEF Stuck
  <2>2. CASE cmd_tail # cmd_head
    <3>1. PICK t \in Offsets : t = cmd_tail
      BY Zenon DEF RingInv, TypeOK
    <3>2. EntryAt(t)
      BY <2>2, <3>1, TailEntry, Zenon
    <3>3. /\ ring'[t] = ring[t] /\ After(t)' = After(t)
          /\ After(t) # cmd_head => ring'[After(t)] = ring[After(t)]
      BY <1>8, <3>2, Zenon
    <3>4. \/ ~ring[t].done
          \/ ring[t].op = "PAD" /\ (After(t) = cmd_head \/ ~ring[After(t)].done)
      BY <1>13, <2>2, <3>1, Zenon DEF Stuck, After
    <3>5. \/ ~ring'[t].done
          \/ ring'[t].op = "PAD" /\ ~ring'[After(t)'].done
      BY <1>6, <1>7, <1>8, <3>3, <3>4, Zenon
    <3>6. cmd_tail' = t
      BY <1>1, <3>1, Zenon
    <3> QED BY <3>5, <3>6, Zenon DEF Stuck, After
  <2> QED BY <2>1, <2>2, Zenon
<1> QED BY <1>2, <1>3, <1>8, <1>11, <1>12, <1>13, Zenon DEF WalkInv

(* What setting a DONE flag changes. *)
LEMMA MarkMoves ==
    ASSUME TypeOK, NEW p \in Offsets, ring' = [ring EXCEPT ![p].done = TRUE],
           UNCHANGED <<cmd_head, cmd_tail>>
    PROVE  /\ \A o \in Offsets : ring'[o].op = ring[o].op
           /\ \A o \in Offsets : ring'[o].priv_data = ring[o].priv_data
           /\ \A o \in Offsets : o # p => ring'[o] = ring[o]
           /\ ring'[p].done
           /\ \A o \in Offsets : EntryAt(o)' <=> EntryAt(o)
           /\ \A o \in Offsets : After(o)' = After(o)
<1>1. \A o \in Offsets : /\ ring'[o].op = ring[o].op
                         /\ ring'[o].len = ring[o].len
                         /\ ring'[o].priv_data = ring[o].priv_data
                         /\ o # p => ring'[o] = ring[o]
                         /\ o = p => ring'[o].done
  BY Zenon DEF TypeOK, Header
<1> QED BY <1>1, Zenon DEF EntryAt, After

(* complete_inflight_req marks a command that the backend has passed. *)
LEMMA CompleteIdle ==
    ASSUME RingInv, WalkInv, ~removing, NEW c \in Completers, NEW r \in Reqs,
           complete_inflight_req(c, r)
    PROVE  WalkInv'
<1>1. /\ se[r] # NULL /\ r \in taken
      /\ ring' = [ring EXCEPT ![se[r]].done = TRUE]
      /\ se' = [se EXCEPT ![r] = NULL] /\ taken' = taken \ {r}
      /\ completer' = [completer EXCEPT ![c] = "ended"]
      /\ UNCHANGED <<cmd_head, cmd_tail, cmdr_lock, bpos>>
  BY Zenon DEF complete_inflight_req
<1>2. /\ Walking /\ TakenRight
      /\ \A o \in Offsets : EntryAt(o) => EntryRight(o)
  BY Zenon DEF WalkInv
<1>3. PICK p \in Offsets : p = se[r]
  BY <1>1, Zenon DEF RingInv, TypeOK
<1>4. /\ \A o \in Offsets : ring'[o].op = ring[o].op
      /\ \A o \in Offsets : ring'[o].priv_data = ring[o].priv_data
      /\ \A o \in Offsets : o # p => ring'[o] = ring[o]
      /\ \A o \in Offsets : EntryAt(o)' <=> EntryAt(o)
      /\ \A o \in Offsets : After(o)' = After(o)
  BY <1>1, <1>3, MarkMoves, Zenon DEF RingInv
<1>5. ring[p].op = "CMD" /\ ring'[p].done
  BY <1>1, <1>3, MarkMoves, Zenon DEF RingInv, SeIntact
<1>6. \A o : Passed(o)' <=> Passed(o)
  BY <1>1, Zenon DEF Passed
<1>7. Walking'
  <2>1. bpos' = bpos /\ bpos \in Offsets /\ cmd_head' = cmd_head
    BY <1>1, Zenon DEF RingInv, TypeOK
  <2>2. EntryAt(bpos) => (ring'[bpos].op # "ZERO" /\ Live(cmd_tail, cmd_head, bpos))
    BY <1>4, <2>1, Zenon DEF EntryAt
  <2> QED BY <1>1, <1>2, <2>1, <2>2, Zenon DEF Walking, EntryAt
<1>8. /\ DOMAIN se = Reqs /\ completer \in [Completers -> {"idle", "ended", "advance"}]
      /\ taken \subseteq Reqs
  BY Zenon DEF RingInv, TypeOK
<1>9. ASSUME NEW o \in Offsets, EntryAt(o)' PROVE EntryRight(o)'
  <2>1. EntryRight(o) /\ After(o)' = After(o) /\ (Passed(o)' <=> Passed(o)) /\ EntryAt(o)
    BY <1>2, <1>4, <1>6, <1>9, Zenon
  <2>2. CASE o = p
    <3>1. Passed(o)' /\ ring'[o].op # "PAD" /\ ring'[o].done
      <4>1. ring'[o].op = "CMD" /\ ring'[o].done
        BY <1>4, <1>5, <2>2, Zenon
      <4>2. Passed(o)
        BY <1>1, <1>2, <1>3, <2>2, Zenon DEF TakenRight
      <4> QED BY <2>1, <4>1, <4>2, Zenon
    <3> QED BY <3>1, Zenon DEF EntryRight
  <2>3. CASE o # p
    <3>1. ring'[o] = ring[o]
      BY <1>4, <2>3, Zenon
    <3>2. After(o) \in Offsets /\ ring'[After(o)].op = ring[After(o)].op
      BY <1>4, <2>1, EntryFacts, Zenon
    <3>3. ring[o].op = "CMD" /\ ~ring[o].done => se'[ring[o].priv_data] = o
      <4> SUFFICES ASSUME ring[o].op = "CMD", ~ring[o].done
                   PROVE  se'[ring[o].priv_data] = o
        BY Zenon
      <4>1. ring[o].priv_data \in Reqs /\ se[ring[o].priv_data] = o
        BY <2>1, Zenon DEF EntryRight, RingInv, LockInv
      <4> QED BY <1>1, <1>3, <1>8, <2>3, <4>1, Zenon
    <3> QED BY <1>1, <2>1, <3>1, <3>2, <3>3, Zenon DEF EntryRight
  <2> QED BY <2>2, <2>3, Zenon
<1>10. TakenRight'
  <2>1. ASSUME NEW q \in taken' PROVE q \in taken /\ se'[q] = se[q]
    BY <1>1, <1>8, <2>1, Zenon
  <2>2. \A q \in taken' : (Passed(se[q]))' <=> Passed(se[q])
    BY <1>1, <2>1, Zenon DEF Passed
  <2> QED BY <1>2, <2>1, <2>2, Zenon DEF TakenRight
<1>11. ~AllIdle'
  <2>1. completer'[c] = "ended"
    BY <1>1, <1>8, Zenon
  <2>2. completer'[c] # "idle"
    BY <2>1, Zenon
  <2> QED BY <2>2, Zenon DEF AllIdle
<1> QED BY <1>7, <1>9, <1>10, <1>11, Zenon DEF WalkInv

(* advance_cmd_ring retires an entry that the backend has passed. *)
LEMMA AdvanceIdle ==
    ASSUME RingInv, WalkInv, NEW c \in Completers, advance_cmd_ring(c)
    PROVE  WalkInv'
<1>1. /\ completer[c] = "advance" /\ cmd_tail # cmd_head /\ ring[cmd_tail].done
      /\ cmd_tail' = Update(cmd_tail, ring[cmd_tail].len)
      /\ UNCHANGED <<cmd_head, ring, cmdr_lock, se, completer, bpos, taken>>
  BY Zenon DEF advance_cmd_ring
<1>2. /\ Walking /\ TakenRight
      /\ \A o \in Offsets : EntryAt(o) => EntryRight(o)
  BY Zenon DEF WalkInv
<1>3. PICK t \in Offsets : t = cmd_tail
  BY Zenon DEF RingInv, TypeOK
<1>4. PICK n \in Nat : n = ring[t].len /\ n > 0
  <2>1. EntryAt(t)
    BY <1>1, <1>3, TailEntry, Zenon
  <2> QED BY <2>1, EntryFacts, Zenon
<1>5. EntryAt(t) /\ Dist(t, t) = 0 /\ Passed(t)
  <2>1. EntryAt(t) /\ Dist(cmd_tail, t) = 0
    BY <1>1, <1>3, TailEntry, Zenon
  <2> QED BY <1>1, <1>2, <1>3, <2>1, Zenon DEF EntryRight
<1>6. /\ cmd_head \in Offsets /\ bpos \in Offsets /\ ring \in [Offsets -> Header]
      /\ cmd_tail' = Update(t, n) /\ t # cmd_head
  BY <1>1, <1>3, <1>4, Zenon DEF RingInv, TypeOK
<1>7. /\ Dist(Update(t, n), cmd_head) = Dist(t, cmd_head) - n
      /\ \A o \in Offsets : Live(Update(t, n), cmd_head, o)
            => Live(t, cmd_head, o) /\ o \notin t .. (t + n - 1)
      /\ \A o \in Offsets : Live(Update(t, n), cmd_head, o)
            => Dist(Update(t, n), o) = Dist(t, o) - n
  <2>1. t + n <= CMDR_SIZE /\ Dist(t, t) + n <= Dist(t, cmd_head)
    BY <1>3, <1>4, <1>5, Zenon DEF EntryAt, RingInv, Tiling, Tiled
  <2>2. n <= Dist(t, cmd_head)
    BY <1>4, <1>5, <2>1
  <2> QED BY <1>4, <1>6, <2>1, <2>2, RetireDist
<1>8. \A o \in Offsets : Live(t, cmd_head, o) /\ ring[o].op # "ZERO" /\ o # t
          => Live(Update(t, n), cmd_head, o)
  BY <1>3, <1>4, <1>6, RetireTiled, Zenon DEF RingInv, Tiling
<1>9. \A o \in Offsets : EntryAt(o) <=> Live(t, cmd_head, o) /\ ring[o].op # "ZERO"
  BY <1>3, Zenon DEF EntryAt
<1>10. \A o \in Offsets :
          EntryAt(o)' <=> Live(Update(t, n), cmd_head, o) /\ ring[o].op # "ZERO"
  BY <1>1, <1>6, Zenon DEF EntryAt
<1>11. \A o \in Offsets : EntryAt(o)' => EntryAt(o)
  BY <1>7, <1>9, <1>10, Zenon
<1>12. \A o \in Offsets : EntryAt(o) /\ o # t => EntryAt(o)'
  BY <1>8, <1>9, <1>10, Zenon
<1>13. bpos # t
  BY <1>3, <1>5, <1>6, DistRange DEF Passed
<1>14. Walking'
  <2>1. EntryAt(bpos) => Live(Update(t, n), cmd_head, bpos) /\ ring[bpos].op # "ZERO"
    BY <1>6, <1>8, <1>9, <1>13, Zenon
  <2> QED BY <1>1, <1>2, <1>6, <2>1, Zenon DEF Walking, EntryAt
<1>15. Dist(Update(t, n), bpos) = Dist(t, bpos) - n
  <2>1. CASE bpos = cmd_head
    BY <1>7, <2>1, Zenon
  <2>2. CASE EntryAt(bpos)
    BY <1>6, <1>7, <1>8, <1>9, <1>13, <2>2, Zenon
  <2> QED BY <1>2, <2>1, <2>2, Zenon DEF Walking
<1>16. ASSUME NEW o \in Offsets, EntryAt(o)' PROVE Passed(o)' <=> Passed(o)
  <2>1. Dist(Update(t, n), o) = Dist(t, o) - n
    BY <1>7, <1>10, <1>16, Zenon
  <2>2. Dist(t, o) \in Nat /\ Dist(t, bpos) \in Nat
    BY <1>6, DistRange, Zenon
  <2>3. Dist(t, o) - n < Dist(t, bpos) - n <=> Dist(t, o) < Dist(t, bpos)
    BY <2>2
  <2> QED BY <1>1, <1>3, <1>6, <1>15, <2>1, <2>3, Zenon DEF Passed
<1>17. ASSUME NEW o \in Offsets, EntryAt(o)' PROVE EntryRight(o)'
  <2>1. EntryRight(o) /\ (Passed(o)' <=> Passed(o))
    BY <1>2, <1>11, <1>16, <1>17, Zenon
  <2>2. After(o)' = After(o)
    BY <1>1, Zenon DEF After
  <2> QED BY <1>1, <2>1, <2>2, Zenon DEF EntryRight
<1>18. TakenRight'
  <2> SUFFICES ASSUME NEW q \in taken PROVE se[q] # NULL /\ Passed(se[q])'
    BY <1>1, Zenon DEF TakenRight
  <2>1. PICK o : o = se[q]
    BY Zenon
  <2>2. se[q] # NULL /\ Passed(o) /\ o \in Offsets /\ EntryAt(o)
    BY <1>2, <2>1, TakenEntry, Zenon DEF TakenRight
  <2>3. o # t
    <3>1. ~ring[o].done
      BY <2>1, <2>2, Zenon DEF RingInv, TypeOK, SeIntact
    <3> QED BY <1>1, <1>3, <3>1, Zenon
  <2>4. Passed(o)'
    BY <1>12, <1>16, <2>2, <2>3, Zenon
  <2> QED BY <1>1, <2>1, <2>2, <2>4, Zenon DEF Passed
<1>19. ~AllIdle'
  <2>1. completer'[c] # "idle"
    BY <1>1, Zenon
  <2> QED BY <2>1, Zenon DEF AllIdle
<1> QED BY <1>14, <1>17, <1>18, <1>19, Zenon DEF WalkInv

(* What a step of the backend to the next entry changes: it has passed one *)
(* more entry.                                                             *)
LEMMA BackendMoves ==
    ASSUME RingInv, WalkInv, NEW b, b = bpos, bpos # cmd_head,
           bpos' = After(b), UNCHANGED <<cmd_head, cmd_tail>>,
           \A o \in Offsets : EntryAt(o)' <=> EntryAt(o)
    PROVE  /\ b \in Offsets /\ EntryAt(b) /\ ~Passed(b)
           /\ \A o \in Offsets : EntryAt(o) => (Passed(o)' <=> Passed(o) \/ o = b)
           /\ Walking'
<1>1. Walking /\ EntryAt(b) /\ b \in Offsets
  BY Zenon DEF WalkInv, Walking, RingInv, TypeOK
<1>2. /\ ring[b].len \in Nat /\ ring[b].len > 0 /\ After(b) \in Offsets
      /\ Dist(cmd_tail, After(b)) = Dist(cmd_tail, b) + ring[b].len
      /\ After(b) # cmd_head => EntryAt(After(b))
      /\ \A x \in Offsets : EntryAt(x) /\ Dist(cmd_tail, b) < Dist(cmd_tail, x)
            => Dist(cmd_tail, After(b)) <= Dist(cmd_tail, x)
  BY <1>1, EntryFacts, Zenon
<1>3. cmd_tail \in Offsets
  BY Zenon DEF RingInv, TypeOK
<1>4. Dist(cmd_tail, b) \in Nat
  BY <1>1, <1>3, DistRange, Zenon
<1>5. ~Passed(b)
  BY <1>4 DEF Passed
<1>6. ASSUME NEW o \in Offsets, EntryAt(o) PROVE Passed(o)' <=> Passed(o) \/ o = b
  <2>1. Dist(cmd_tail, o) \in Nat
    BY <1>3, DistRange, Zenon
  <2>2. Passed(o)' <=> Dist(cmd_tail, o) < Dist(cmd_tail, b) + ring[b].len
    BY <1>2, Zenon DEF Passed
  <2>3. Passed(o) <=> Dist(cmd_tail, o) < Dist(cmd_tail, b)
    BY Zenon DEF Passed
  <2>4. Dist(cmd_tail, b) < Dist(cmd_tail, o)
            => Dist(cmd_tail, b) + ring[b].len <= Dist(cmd_tail, o)
    BY <1>2, <1>6, Zenon
  <2>5. Dist(cmd_tail, b) = Dist(cmd_tail, o) => o = b
    BY <1>1, <1>3, DistInjective, Zenon
  <2> QED BY <1>2, <1>4, <2>1, <2>2, <2>3, <2>4, <2>5
<1>7. Walking'
  <2>1. PICK a \in Offsets : a = After(b)
    BY <1>2, Zenon
  <2>2. a # cmd_head => EntryAt(a)'
    BY <1>2, <2>1, Zenon
  <2>3. EntryAt(a)' <=> EntryAt(bpos)'
    BY <2>1, Zenon DEF EntryAt
  <2> QED BY <2>1, <2>2, <2>3, Zenon DEF Walking
<1> QED BY <1>1, <1>5, <1>6, <1>7, Zenon

(* The backend retires a padding: what follows it is not done yet. *)
LEMMA BackendPadIdle ==
    ASSUME RingInv, WalkInv, backend_pad
    PROVE  WalkInv'
<1>1. PICK b \in Offsets : b = bpos
  BY Zenon DEF RingInv, TypeOK
<1>2. /\ bpos # cmd_head /\ ring[b].op = "PAD"
      /\ ring' = [ring EXCEPT ![b].done = TRUE] /\ bpos' = After(b)
      /\ UNCHANGED <<cmd_head, cmd_tail, cmdr_lock, se, completer, taken>>
  BY <1>1, Zenon DEF backend_pad, After
<1>3. /\ Walking /\ TakenRight /\ (AllIdle => Stuck)
      /\ \A o \in Offsets : EntryAt(o) => EntryRight(o)
  BY Zenon DEF WalkInv
<1>4. /\ \A o \in Offsets : ring'[o].op = ring[o].op
      /\ \A o \in Offsets : ring'[o].priv_data = ring[o].priv_data
      /\ \A o \in Offsets : o # b => ring'[o] = ring[o]
      /\ ring'[b].done
      /\ \A o \in Offsets : EntryAt(o)' <=> EntryAt(o)
      /\ \A o \in Offsets : After(o)' = After(o)
  BY <1>2, MarkMoves, Zenon DEF RingInv
<1>5. /\ EntryAt(b) /\ ~Passed(b)
      /\ \A o \in Offsets : EntryAt(o) => (Passed(o)' <=> Passed(o) \/ o = b)
      /\ Walking'
  BY <1>1, <1>2, <1>4, BackendMoves, Zenon
<1>6. ASSUME NEW o \in Offsets, EntryAt(o) PROVE EntryRight(o)'
  <2>1. EntryRight(o) /\ After(o)' = After(o) /\ (Passed(o)' <=> Passed(o) \/ o = b)
    BY <1>3, <1>4, <1>5, <1>6, Zenon
  <2>2. After(o) \in Offsets /\ ring'[After(o)].op = ring[After(o)].op
    BY <1>4, <1>6, EntryFacts, Zenon
  <2>3. CASE o = b
    <3>1. /\ ring'[o].op = "PAD" /\ ring'[o].done /\ Passed(o)'
      BY <1>2, <1>4, <2>1, <2>3, Zenon
    <3>2. ring'[o].op # "CMD" /\ ring[o].op = "PAD"
      BY <1>2, <2>3, <3>1, Zenon
    <3> QED BY <1>2, <2>1, <2>2, <3>1, <3>2, Zenon DEF EntryRight
  <2>4. CASE o # b
    <3>1. ring'[o] = ring[o]
      BY <1>4, <2>4, Zenon
    <3> QED BY <1>2, <2>1, <2>2, <2>4, <3>1, Zenon DEF EntryRight
  <2> QED BY <2>3, <2>4, Zenon
<1>7. TakenRight'
  <2> SUFFICES ASSUME NEW q \in taken PROVE se[q] # NULL /\ Passed(se[q])'
    BY <1>2, Zenon DEF TakenRight
  <2>1. PICK o : o = se[q]
    BY Zenon
  <2>2. se[q] # NULL /\ Passed(o) /\ o \in Offsets /\ EntryAt(o)
    BY <1>3, <2>1, TakenEntry, Zenon DEF TakenRight
  <2>3. Passed(o)'
    BY <1>5, <2>2, Zenon
  <2> QED BY <1>2, <2>1, <2>2, <2>3, Zenon DEF Passed
<1>8. ASSUME Stuck PROVE Stuck'
  <2>1. CASE cmd_tail = cmd_head
    BY <1>2, <2>1, Zenon DEF Stuck
  <2>2. CASE cmd_tail # cmd_head
    <3>1. PICK t \in Offsets : t = cmd_tail
      BY Zenon DEF RingInv, TypeOK
    <3>2. EntryAt(t) /\ Dist(cmd_tail, t) = 0
      BY <2>2, <3>1, TailEntry, Zenon
    <3>3. /\ EntryRight(t) /\ After(t)' = After(t) /\ ring'[t].op = ring[t].op
          /\ After(t) \in Offsets /\ (After(t) # cmd_head => EntryAt(After(t)))
      BY <1>3, <1>4, <3>2, EntryFacts, Zenon
    <3>4. ASSUME ring[t].op = "PAD", After(t) # cmd_head
          PROVE  After(t) # b /\ ring'[After(t)] = ring[After(t)]
      <4>1. ring[After(t)].op = "CMD"
        BY <3>3, <3>4, Zenon DEF EntryRight
      <4>2. After(t) # b
        BY <1>2, <4>1, Zenon
      <4> QED BY <1>4, <3>3, <4>2, Zenon
    <3>5. CASE t = b
      <4>1. ASSUME After(t) # cmd_head PROVE ~ring[After(t)].done
        <5>1. EntryRight(After(t)) /\ EntryAt(After(t))
          BY <1>3, <3>3, <4>1, Zenon
        <5>2. Dist(cmd_tail, bpos) = 0
          BY <1>1, <3>2, <3>5, Zenon
        <5>3. Dist(cmd_tail, After(t)) \in Nat
          BY <3>1, <3>3, DistRange, Zenon
        <5>4. ~Passed(After(t))
          BY <5>2, <5>3 DEF Passed
        <5> QED BY <5>1, <5>4, Zenon DEF EntryRight
      <4>2. ring'[t].op = "PAD" /\ (After(t) = cmd_head \/ ~ring'[After(t)].done)
        BY <1>2, <3>3, <3>4, <3>5, <4>1, Zenon
      <4> QED BY <1>2, <3>1, <3>3, <4>2, Zenon DEF Stuck, After
    <3>6. CASE t # b
      <4>1. ring'[t] = ring[t]
        BY <1>4, <3>6, Zenon
      <4>2. \/ ~ring[t].done
            \/ ring[t].op = "PAD" /\ (After(t) = cmd_head \/ ~ring[After(t)].done)
        BY <1>8, <2>2, <3>1, Zenon DEF Stuck, After
      <4>3. \/ ~ring'[t].done
            \/ ring'[t].op = "PAD" /\ (After(t) = cmd_head \/ ~ring'[After(t)].done)
        BY <3>4, <4>1, <4>2, Zenon
      <4> QED BY <1>2, <3>1, <3>3, <4>3, Zenon DEF Stuck, After
    <3> QED BY <3>5, <3>6, Zenon
  <2> QED BY <2>1, <2>2, Zenon
<1>9. AllIdle' <=> AllIdle
  BY <1>2, Zenon DEF AllIdle
<1> QED BY <1>3, <1>4, <1>5, <1>6, <1>7, <1>8, <1>9, Zenon DEF WalkInv

(* The backend takes a command: it belongs to a request that has not ended *)
(* if it is not done.                                                      *)
LEMMA BackendTakeIdle ==
    ASSUME RingInv, WalkInv, backend_take
    PROVE  WalkInv'
<1>1. PICK b \in Offsets : b = bpos
  BY DEF RingInv, TypeOK
<1>2. /\ bpos # cmd_head /\ ring[b].op = "CMD" /\ bpos' = After(b)
      /\ taken' = IF ring[b].done THEN taken ELSE taken \cup {ring[b].priv_data}
      /\ UNCHANGED <<cmd_head, cmd_tail, ring, cmdr_lock, se, completer>>
  BY <1>1, Zenon DEF backend_take, After
<1>3. /\ Walking /\ TakenRight /\ (AllIdle => Stuck)
      /\ \A o \in Offsets : EntryAt(o) => EntryRight(o)
  BY Zenon DEF WalkInv
<1>4. (\A o : EntryAt(o)' <=> EntryAt(o)) /\ \A o : After(o)' = After(o)
  BY <1>2, Zenon DEF EntryAt, After
<1>5. /\ EntryAt(b) /\ ~Passed(b)
      /\ \A o \in Offsets : EntryAt(o) => (Passed(o)' <=> Passed(o) \/ o = b)
      /\ Walking'
  BY <1>1, <1>2, <1>4, BackendMoves, Zenon
<1>6. ASSUME NEW o \in Offsets, EntryAt(o) PROVE EntryRight(o)'
  <2>1. EntryRight(o) /\ After(o)' = After(o) /\ (Passed(o)' <=> Passed(o) \/ o = b)
    BY <1>3, <1>4, <1>5, <1>6, Zenon
  <2>2. ring[o].op = "PAD" => o # b
    BY <1>2, Zenon
  <2> QED BY <1>2, <2>1, <2>2, Zenon DEF EntryRight
<1>7. TakenRight'
  <2> SUFFICES ASSUME NEW q \in taken' PROVE se[q] # NULL /\ Passed(se[q])'
    BY <1>2, Zenon DEF TakenRight
  <2>1. PICK o : o = se[q]
    BY Zenon
  <2>2. CASE q \in taken
    <3>1. se[q] # NULL /\ Passed(o) /\ o \in Offsets /\ EntryAt(o)
      BY <1>3, <2>1, <2>2, TakenEntry, Zenon DEF TakenRight
    <3>2. Passed(o)'
      BY <1>5, <3>1, Zenon
    <3> QED BY <1>2, <2>1, <3>1, <3>2, Zenon DEF Passed
  <2>3. CASE q \notin taken
    <3>1. q = ring[b].priv_data /\ ~ring[b].done
      BY <1>2, <2>3, Zenon
    <3>2. o = b
      BY <1>2, <1>3, <1>5, <2>1, <3>1, Zenon DEF EntryRight
    <3>3. b # NULL
      BY RingAssumption DEF Offsets, NULL
    <3>4. Passed(o)'
      BY <1>5, <3>2, Zenon
    <3> QED BY <1>2, <2>1, <3>2, <3>3, <3>4, Zenon DEF Passed
  <2> QED BY <2>2, <2>3, Zenon
<1>8. (Stuck' <=> Stuck) /\ (AllIdle' <=> AllIdle)
  BY <1>2, Zenon DEF Stuck, After, AllIdle
<1> QED BY <1>3, <1>4, <1>5, <1>6, <1>7, <1>8, Zenon DEF WalkInv

(* The ring starts empty, with the backend at its start. *)
LEMMA IdleInit == Init => WalkInv
<1> SUFFICES ASSUME Init PROVE WalkInv
  OBVIOUS
<1>1. \A o \in Offsets : ~EntryAt(o)
  BY Zenon DEF Init, EntryAt, ZeroHdr
<1> QED BY <1>1, Zenon DEF Init, WalkInv, Walking, TakenRight, Stuck

(* A step that takes or releases cmdr_lock and changes nothing in the      *)
(* ring; no worker holds the lock before.                                  *)
LEMMA LockIdle ==
    ASSUME RingInv, WalkInv, cmdr_lock \notin Reqs, AllIdle' => Stuck,
           UNCHANGED <<cmd_head, cmd_tail, ring, se, bpos, taken>>
    PROVE  WalkInv'
<1>1. /\ Walking /\ TakenRight
      /\ \A o \in Offsets : EntryAt(o) => EntryRight(o)
  BY Zenon DEF WalkInv
<1>2. ASSUME NEW o \in Offsets, EntryAt(o)' PROVE EntryRight(o)'
  <2>1. EntryRight(o) /\ After(o)' = After(o) /\ (Passed(o)' <=> Passed(o))
    BY <1>1, <1>2, StillRing, Zenon
  <2> QED BY <2>1, Zenon DEF EntryRight
<1>3. TakenRight'
  BY <1>1, Zenon DEF TakenRight, Passed
<1> QED BY <1>1, <1>2, <1>3, StillRing, Zenon DEF WalkInv

(* Every step preserves IdleInv. *)
LEMMA IdleStep ==
    ASSUME RingInv, IdleInv, [Next]_vars
    PROVE  IdleInv'
<1> SUFFICES ASSUME ~removing' PROVE WalkInv'
  BY Zenon DEF IdleInv
<1>1. ~removing
  BY Zenon DEF Next, vars, insert_padding, submit_entry, complete_inflight_req,
     advance_lock, advance_cmd_ring, advance_unlock, remove_queue, backend_pad,
     backend_take
<1>2. WalkInv
  BY <1>1, Zenon DEF IdleInv
<1>3. ASSUME NEW c \in Completers, advance_lock(c) PROVE WalkInv'
  <2>1. /\ cmdr_lock = NoOwner /\ completer'[c] = "advance"
        /\ UNCHANGED <<cmd_head, cmd_tail, ring, se, bpos, taken>>
    BY <1>3, Zenon DEF advance_lock, RingInv, TypeOK
  <2>2. cmdr_lock \notin Reqs /\ completer'[c] # "idle"
    BY <2>1, RingAssumption, Zenon
  <2>3. ~AllIdle'
    BY <2>2, Zenon DEF AllIdle
  <2> QED BY <1>2, <2>1, <2>2, <2>3, LockIdle, Zenon
<1>4. ASSUME NEW c \in Completers, advance_unlock(c) PROVE WalkInv'
  <2>1. /\ completer[c] = "advance" /\ (cmd_tail = cmd_head \/ ~ring[cmd_tail].done)
        /\ UNCHANGED <<cmd_head, cmd_tail, ring, se, bpos, taken>>
    BY <1>4, Zenon DEF advance_unlock
  <2>2. cmdr_lock = c
    BY <2>1, Zenon DEF RingInv, LockInv
  <2>3. cmdr_lock \notin Reqs
    BY <2>2, RingAssumption, Zenon
  <2>4. Stuck
    BY <2>1, Zenon DEF Stuck
  <2> QED BY <1>2, <2>1, <2>3, <2>4, LockIdle, Zenon
<1>5. CASE remove_queue
  BY <1>5, Zenon DEF remove_queue
<1>6. CASE UNCHANGED vars
  <2>1. UNCHANGED <<cmd_head, cmd_tail, ring, cmdr_lock, se, completer, bpos, taken>>
    BY <1>6, Zenon DEF vars
  <2>2. \A o \in Offsets : EntryRight(o)' <=> EntryRight(o)
    BY <2>1, Zenon DEF EntryRight, Passed, After
  <2>3. (TakenRight' <=> TakenRight) /\ (AllIdle' <=> AllIdle)
    BY <2>1, Zenon DEF TakenRight, Passed, AllIdle
  <2> QED BY <1>2, <2>1, <2>2, <2>3, StillRing, Zenon DEF WalkInv
<1> QED BY <1>1, <1>2, <1>3, <1>4, <1>5, <1>6, PaddingIdle, SubmitIdle, CompleteIdle, Zenon,
           AdvanceIdle, BackendPadIdle, BackendTakeIdle, Zenon DEF Next

(* The invariant of the walk through the ring: the backend goes from entry *)
(* to entry and never past cmd_head, advance_cmd_ring never overtakes it,  *)
(* and what the completers leave at cmd_tail is waiting for the backend or *)
(* for a request.                                                          *)
THEOREM WalkInvariant == Spec => [](RingInv /\ IdleInv)
<1>1. Init => RingInv /\ IdleInv
  BY RingInvInit, IdleInit, Zenon DEF IdleInv
<1>2. RingInv /\ IdleInv /\ [Next]_vars => (RingInv /\ IdleInv)'
  BY RingInvNext, IdleStep, Zenon
<1> QED BY <1>1, <1>2, PTL DEF Spec

(* Nothing is left behind: with no request outstanding and all completers  *)
(* through advance_cmd_ring, the ring is empty, although the backend       *)
(* retires paddings without telling the driver and commands end in any     *)
(* order.                                                                  *)
THEOREM NothingLeftBehind == Spec => []IdleRingEmpty
<1>1. RingInv /\ IdleInv => IdleRingEmpty
  <2> SUFFICES ASSUME RingInv, IdleInv, ~removing, cmd_head # cmd_tail,
                      \A r \in Reqs : se[r] = NULL /\ want[r] = 0,
                      \A c \in Completers : completer[c] = "idle"
               PROVE  FALSE
    BY Zenon DEF IdleRingEmpty
  <2>1. WalkInv /\ Stuck /\ \A o \in Offsets : EntryAt(o) => EntryRight(o)
    BY Zenon DEF IdleInv, WalkInv, AllIdle
  <2>2. cmdr_lock \notin Reqs
    BY Zenon DEF RingInv, LockInv
  <2>3. ASSUME NEW o \in Offsets, EntryAt(o), ring[o].op = "CMD"
        PROVE  ring[o].done
    <3>1. EntryRight(o) /\ ring[o].priv_data \in Reqs
      BY <2>1, <2>3, Zenon DEF RingInv, LockInv
    <3>2. o # NULL
      BY RingAssumption DEF Offsets, NULL
    <3> QED BY <2>3, <3>1, <3>2, Zenon DEF EntryRight
  <2>4. PICK t \in Offsets : t = cmd_tail
    BY Zenon DEF RingInv, TypeOK
  <2>5. EntryAt(t) /\ EntryRight(t) /\ Dist(cmd_tail, t) = 0
    BY <2>1, <2>4, TailEntry, Zenon
  <2>6. ring[t].op = "CMD" \/ ring[t].op = "PAD"
    BY <2>5, Zenon DEF RingInv, TypeOK, Header, EntryAt
  <2>7. ring[t].op = "PAD"
    <3>1. ASSUME ring[t].op = "CMD" PROVE FALSE
      <4>1. ring[t].done /\ ring[t].op # "PAD"
        BY <2>3, <2>5, <3>1, Zenon
      <4> QED BY <2>1, <2>4, <4>1, Zenon DEF Stuck
    <3> QED BY <2>6, <3>1, Zenon
  <2>8. After(t) # cmd_head
    BY <2>2, <2>5, <2>7, Zenon DEF EntryRight
  <2>9. /\ After(t) \in Offsets /\ EntryAt(After(t)) /\ ring[After(t)].op = "CMD"
    BY <2>5, <2>7, <2>8, EntryFacts, Zenon DEF EntryRight
  <2>10. ring[After(t)].done
    BY <2>3, <2>9, Zenon
  <2>11. ~ring[t].done
    BY <2>1, <2>4, <2>8, <2>10, Zenon DEF Stuck, After
  <2>12. ~Passed(t) /\ Passed(After(t))
    BY <2>1, <2>5, <2>7, <2>9, <2>10, <2>11, Zenon DEF EntryRight
  <2>13. Dist(cmd_tail, bpos) \in Nat /\ Dist(cmd_tail, After(t)) \in Nat
    BY <2>4, <2>9, DistRange, Zenon DEF RingInv, TypeOK
  <2> QED BY <2>5, <2>12, <2>13 DEF Passed
<1> QED BY <1>1, WalkInvariant, PTL

=============================================================================
