------------------------- MODULE UbbdDataPathProofs -------------------------
(***************************************************************************)
(* Proofs that the data of every request gets where it belongs, and that   *)
(* the backend's mapping of the data pages is stale only after a forced    *)
(* removal and then harmless to the other requests, for every number of    *)
(* pages and requests, every request and every page size, as long as the   *)
(* pages are those of ubbd_release_page (PagesOf4K), the offset of the     *)
(* last page fits an int (IndexesFit) and the bio_vecs of a request lie    *)
(* within pages (BiosAssumption).                                          *)
(***************************************************************************)
EXTENDS UbbdDataPath, TLAPS

MaybePage == Phys \cup {NoPage}

(* Page p has been taken from index i by a forced removal. *)
Gone(i, p) ==
    removing /\ i \notin data_bitmap /\ \A j \in Indexes : data_pages_array[j] # p

(* The page in ubbd_release_page: its index is free, and has it until it   *)
(* is erased; it is not mapped again unless the queue is removed.          *)
RelInv ==
    \/ releasing = Idle
    \/ /\ releasing \in [at : {"erase", "free"}, r : Reqs, i : Indexes, page : Phys]
       /\ releasing.i \notin data_bitmap
       /\ releasing.at = "erase" =>
             /\ data_pages_array[releasing.i] = releasing.page
             /\ pte[releasing.i] = NoPage \/ removing
       /\ releasing.at = "free" =>
             \A j \in Indexes : data_pages_array[j] # releasing.page

(* The page of a fault is that of the address the backend is at, unless a  *)
(* removal has taken it meanwhile.                                         *)
FaultInv ==
    \/ fault = Idle
    \/ /\ fault \in [at : {"get", "map"}, r : Reqs, i : Indexes, page : Phys]
       /\ served[fault.r] \in DOMAIN iov[fault.r] /\ fault.i = Touched(fault.r)
       /\ fault.page = data_pages_array[fault.i] \/ Gone(fault.i, fault.page)

(* The invariant of the mapping. *)
MapInv ==
    /\ data_pages_array \in [Indexes -> MaybePage]
    /\ pte \in [Indexes -> MaybePage]
    /\ late_get => removing
    /\ \A i \in Indexes :
          pte[i] = NoPage \/ pte[i] = data_pages_array[i] \/ Gone(i, pte[i])
    /\ RelInv /\ FaultInv

-----------------------------------------------------------------------------
(* The offset of a page, computed in int by ubbd_release_page, is right. *)
LEMMA IntOffset ==
    ASSUME NEW i \in Indexes
    PROVE  int(i * SZ_4K) = i * PAGE_SIZE
<1> DEFINE x == i * PAGE_SIZE  h == U32 \div 2
<1>1. PAGE_SIZE \in Nat /\ PAGE_SIZE > 0 /\ data_pages \in Nat /\ U32 \in Nat /\ U32 > 0
  BY DataAssumption
<1>2. i \in Nat /\ i + 1 <= data_pages
  BY <1>1 DEF Indexes
<1>3. x \in Nat /\ x < data_pages * PAGE_SIZE
  <2>1. (i + 1) * PAGE_SIZE <= data_pages * PAGE_SIZE
    BY <1>1, <1>2
  <2>2. (i + 1) * PAGE_SIZE = x + PAGE_SIZE
    BY <1>1, <1>2
  <2>3. x \in Nat
    BY <1>1, <1>2
  <2>4. data_pages * PAGE_SIZE \in Nat
    BY <1>1
  <2> HIDE DEF x
  <2> QED BY <2>1, <2>2, <2>3, <2>4, <1>1
<1>4. h \in Nat /\ 2 * h <= U32
  BY <1>1
<1>5. x < h
  <2>1. data_pages * PAGE_SIZE <= h
    BY IndexesFit, PagesOf4K, Zenon
  <2>2. data_pages * PAGE_SIZE \in Nat
    BY <1>1
  <2> HIDE DEF x, h
  <2> QED BY <2>1, <2>2, <1>3, <1>4
<1>6. int(x) = ((x + h) % U32) - h
  BY Zenon DEF int
<1> HIDE DEF x, h
<1>7. (x + h) % U32 = x + h
  <2>1. x + h \in Nat /\ x + h < U32
    BY <1>1, <1>3, <1>4, <1>5
  <2> QED BY <2>1, <1>1
<1>8. int(x) = x
  BY <1>3, <1>4, <1>6, <1>7
<1> QED BY <1>8, PagesOf4K, Zenon DEF x

(* The offset of a page lies in the mapping where its fault looks for it. *)
LEMMA FaultOfOffset ==
    ASSUME NEW i \in Indexes
    PROVE  FaultIndex(RING_SIZE + i * PAGE_SIZE) = i
<1> DEFINE k == RING_SIZE \div PAGE_SIZE
<1>1. PAGE_SIZE \in Nat /\ PAGE_SIZE > 0 /\ RING_SIZE \in Nat /\ RING_SIZE % PAGE_SIZE = 0
  BY DataAssumption
<1>2. i \in Nat
  BY DataAssumption DEF Indexes
<1>3. k \in Nat /\ RING_SIZE = k * PAGE_SIZE
  BY <1>1
<1> HIDE DEF k
<1>4. RING_SIZE + i * PAGE_SIZE = (k + i) * PAGE_SIZE
  BY <1>1, <1>2, <1>3
<1>5. \A n \in Nat : (n * PAGE_SIZE) \div PAGE_SIZE = n
  BY <1>1
<1>6. ((k + i) * PAGE_SIZE) \div PAGE_SIZE = k + i
  BY <1>2, <1>3, <1>5
<1>7. (k + i) * PAGE_SIZE - RING_SIZE = i * PAGE_SIZE
  BY <1>1, <1>2, <1>3
<1> QED BY <1>2, <1>4, <1>5, <1>6, <1>7, Zenon DEF FaultIndex

-----------------------------------------------------------------------------
(* Where a request can be. *)
Places == {"get", "unget", "prepared", "submitted", "release", "ended"}

(* Bio_vec b of r has a page index that its thread has taken and not given *)
(* back: in the loop of ubbd_get_data_pages those before bvec_index, after *)
(* it all, in ubbd_req_release those from bvec_index on.                   *)
Holds(r, b) ==
    \/ pc[r] \in {"get", "unget"} /\ b < bvec_index[r]
    \/ pc[r] \in {"prepared", "submitted"}
    \/ pc[r] = "release" /\ b >= bvec_index[r]

(* The backend has still to follow the iov of bio_vec b: also after a      *)
(* removal has ended r behind its back.                                    *)
Reaches(r, b) == pc[r] \in {"submitted", "release", "ended"} /\ b >= served[r]

Claims(r, b) == Holds(r, b) \/ Reaches(r, b)

Types ==
    /\ op \in [Reqs -> Ops] /\ DOMAIN bios = Reqs
    /\ \A r \in Reqs : op[r] = "DISCARD" \/ bios[r] \in Bios
    /\ pc \in [Reqs -> Places]
    /\ bvec_index \in [Reqs -> Nat] /\ served \in [Reqs -> Nat]
    /\ result \in [Reqs -> {0, EIO}]
    /\ DOMAIN use = Reqs /\ DOMAIN bio_mem = Reqs
    /\ DOMAIN inline_pi = Reqs /\ DOMAIN pi = Reqs
    /\ DOMAIN iov = Reqs /\ DOMAIN got = Reqs
    /\ DOMAIN content = Phys
    /\ data_bitmap \subseteq Indexes
    /\ removing \in BOOLEAN

(* What the backend reads of bio_vec b of a WRITE. *)
Sent(r, b) ==
    [k \in 0 .. Bvec(r, b).len - 1 |-> Value("bio", r, b, Bvec(r, b).off + k)]

(* The iov of r are the addresses of its bio_vecs. *)
IovRight(r) ==
    /\ DOMAIN iov[r] = BvecIndexes(r)
    /\ \A b \in BvecIndexes(r) :
          iov[r][b] = [iov_base |-> iov_base(r, b), iov_len |-> Bvec(r, b).len]

(* The backend has read what it should of the bio_vecs it has worked off. *)
GotRight(r) == got[r] = [b \in 0 .. served[r] - 1 |-> Sent(r, b)]

(* The slots of the first n page indexes of r have been written. *)
Slots(r, n) ==
    \A b \in 0 .. n - 1 :
        IF b < INLINE_PI_MAX THEN b \in DOMAIN inline_pi[r]
                             ELSE b - INLINE_PI_MAX \in DOMAIN pi[r]

(* What holds of a request by itself: where it is, what its command says   *)
(* and what the backend has read for it.                                   *)
Local(r) ==
    /\ bvec_index[r] <= pi_cnt(r) /\ served[r] <= pi_cnt(r)
    /\ pc[r] \in {"get", "unget", "prepared"} =>
          ~removing /\ iov[r] = <<>> /\ served[r] = 0 /\ got[r] = <<>>
    /\ result[r] # 0 => removing /\ pc[r] \in {"release", "ended"}
    /\ pc[r] \in {"release", "ended"} /\ result[r] = 0 => served[r] = pi_cnt(r)
    /\ pc[r] \in {"submitted", "release", "ended"} => IovRight(r)
    /\ pc[r] = "get" => Slots(r, bvec_index[r])
    /\ op[r] = "WRITE" /\ result[r] = 0 /\ pc[r] \in {"submitted", "release"} =>
          GotRight(r)

(* What holds of it and of the pages: an index it holds is marked in the   *)
(* bitmap and has a page, and the page of a bio_vec has the data of a      *)
(* WRITE from the time it is prepared, that of a READ once the backend has *)
(* worked it off.                                                          *)
Shared(r) ==
    \A b \in BvecIndexes(r) :
        /\ Claims(r, b) => ubbd_req_get_pi(r, b) \in Indexes
        /\ Holds(r, b) => /\ ubbd_req_get_pi(r, b) \in data_bitmap
                          /\ ubbd_req_get_page(r, b) # NoPage
        /\ op[r] = "WRITE" /\ pc[r] \in {"prepared", "submitted"} =>
              \A w \in Words : InBvec(r, b, w) =>
                  content[ubbd_req_get_page(r, b)][w] = Value("bio", r, b, w)
        /\ op[r] = "READ" /\ pc[r] = "submitted" /\ b < served[r] =>
              \A w \in Words : InBvec(r, b, w) =>
                  content[ubbd_req_get_page(r, b)][w] = Value("answer", r, b, w)

(* A READ whose answer has been copied out. *)
Done(r) == op[r] = "READ" /\ pc[r] \in {"release", "ended"} /\ result[r] = 0

(* ReadDelivered for one request. *)
Delivered(r) ==
    \A b \in BvecIndexes(r), w \in Words :
        bio_mem[r][b][w] = IF Done(r) /\ InBvec(r, b, w) THEN Value("answer", r, b, w)
                                                        ELSE Value("bio", r, b, w)

(* No index is used for two bio_vecs, by a request or by the backend. *)
Apart ==
    \A r, s \in Reqs : \A b \in BvecIndexes(r), c \in BvecIndexes(s) :
        Claims(r, b) /\ Claims(s, c) /\ ubbd_req_get_pi(r, b) = ubbd_req_get_pi(s, c)
            => r = s /\ b = c

(* No page belongs to two indexes. *)
PagesApart ==
    \A i, j \in Indexes :
        data_pages_array[i] = data_pages_array[j] /\ data_pages_array[i] # NoPage => i = j

(* The inductive invariant, with MapInv. *)
DataInv ==
    /\ Types
    /\ \A r \in Reqs : Local(r) /\ Delivered(r) /\ Shared(r)
    /\ Apart /\ PagesApart /\ SigbusOnlyRemoved

-----------------------------------------------------------------------------
(* An address in the iov, built by ubbd_set_se_iov, is one whose fault     *)
(* looks for the index it was built from, at the offset in the page.       *)
LEMMA FaultOfAddr ==
    ASSUME NEW i \in Indexes, NEW n \in Words
    PROVE  /\ FaultIndex(i * PAGE_SIZE + RING_SIZE + n) = i
           /\ (i * PAGE_SIZE + RING_SIZE + n) % PAGE_SIZE = n
<1> DEFINE k == RING_SIZE \div PAGE_SIZE
<1>1. PAGE_SIZE \in Nat /\ PAGE_SIZE > 0 /\ RING_SIZE \in Nat /\ RING_SIZE % PAGE_SIZE = 0
  BY DataAssumption
<1>2. i \in Nat /\ n \in Nat /\ n < PAGE_SIZE
  BY DataAssumption DEF Indexes, Words
<1>3. k \in Nat /\ RING_SIZE = k * PAGE_SIZE
  BY <1>1
<1> HIDE DEF k
<1>4. i * PAGE_SIZE + RING_SIZE + n = (k + i) * PAGE_SIZE + n
  BY <1>1, <1>2, <1>3
<1>5. \A m \in Nat : /\ (m * PAGE_SIZE + n) \div PAGE_SIZE = m
                      /\ (m * PAGE_SIZE + n) % PAGE_SIZE = n
                      /\ (m * PAGE_SIZE) \div PAGE_SIZE = m
  BY <1>1, <1>2
<1>6. k + i \in Nat
  BY <1>2, <1>3
<1>7. (k + i) * PAGE_SIZE - RING_SIZE = i * PAGE_SIZE
  BY <1>1, <1>2, <1>3
<1>8. /\ (i * PAGE_SIZE + RING_SIZE + n) \div PAGE_SIZE = k + i
      /\ (i * PAGE_SIZE + RING_SIZE + n) % PAGE_SIZE = n
  BY <1>4, <1>5, <1>6, Zenon
<1>9. (i * PAGE_SIZE) \div PAGE_SIZE = i
  BY <1>5, <1>2, Zenon
<1> QED BY <1>7, <1>8, <1>9, Zenon DEF FaultIndex

(* The bio_vecs of a request lie within a page (bio_for_each_segment). *)
LEMMA BvecType ==
    ASSUME Types, NEW r \in Reqs
    PROVE  /\ pi_cnt(r) \in Nat
           /\ \A b \in BvecIndexes(r) :
                 b \in Nat /\ b < pi_cnt(r) /\ Bvec(r, b) \in Segments
<1>1. CASE op[r] = "DISCARD"
  <2>1. pi_cnt(r) = 0
    BY <1>1, Zenon DEF pi_cnt, ubbd_req_segments, ubbd_req_nodata
  <2> QED BY <2>1 DEF BvecIndexes
<1>2. CASE op[r] # "DISCARD"
  <2>1. Bvecs(bios[r]) \in Seq(Segments)
    BY <1>2, BiosAssumption, Zenon DEF Types
  <2>2. pi_cnt(r) = Len(Bvecs(bios[r]))
    BY <1>2, Zenon DEF pi_cnt, ubbd_req_segments, ubbd_req_nodata
  <2>3. pi_cnt(r) \in Nat
    BY <2>1, <2>2
  <2>4. ASSUME NEW b \in BvecIndexes(r)
        PROVE  b \in Nat /\ b < pi_cnt(r) /\ Bvec(r, b) \in Segments
    <3>1. b \in Nat /\ b < pi_cnt(r)
      BY <2>3, <2>4 DEF BvecIndexes
    <3>2. b + 1 \in 1 .. Len(Bvecs(bios[r]))
      BY <2>2, <2>3, <3>1
    <3> QED BY <2>1, <3>1, <3>2 DEF Bvec
  <2> QED BY <2>3, <2>4, Zenon
<1> QED BY <1>1, <1>2, Zenon

(* What depends only on the request itself ... *)
LEMMA DataTerms ==
    ASSUME NEW s \in Reqs, op'[s] = op[s], bios'[s] = bios[s], use'[s] = use[s]
    PROVE  /\ pi_cnt(s)' = pi_cnt(s) /\ BvecIndexes(s)' = BvecIndexes(s)
           /\ \A b : Bvec(s, b)' = Bvec(s, b)
           /\ \A b : Sent(s, b)' = Sent(s, b)
           /\ \A b, w : InBvec(s, b, w)' <=> InBvec(s, b, w)
           /\ \A k, b, w : Value(k, s, b, w)' = Value(k, s, b, w)
<1>1. pi_cnt(s)' = pi_cnt(s) /\ BvecIndexes(s)' = BvecIndexes(s)
  BY Zenon DEF pi_cnt, BvecIndexes
<1>2. \A b : Bvec(s, b)' = Bvec(s, b)
  BY Zenon DEF Bvec
<1>3. \A b, w : InBvec(s, b, w)' <=> InBvec(s, b, w)
  BY <1>2, Zenon DEF InBvec
<1>4. \A k, b, w : Value(k, s, b, w)' = Value(k, s, b, w)
  BY Zenon DEF Value
<1>5. \A b : Sent(s, b)' = Sent(s, b)
  BY <1>2, <1>4 DEF Sent
<1> QED BY <1>1, <1>2, <1>3, <1>4, <1>5, Zenon

(* ... and on its page indexes. *)
LEMMA PiTerms ==
    ASSUME NEW s \in Reqs, inline_pi'[s] = inline_pi[s], pi'[s] = pi[s]
    PROVE  \A b : ubbd_req_get_pi(s, b)' = ubbd_req_get_pi(s, b)
  BY Zenon DEF ubbd_req_get_pi

(* The iov and what was read stay right as long as they and the request    *)
(* do.                                                                     *)
LEMMA IovKept ==
    ASSUME NEW s \in Reqs, op'[s] = op[s], bios'[s] = bios[s], use'[s] = use[s],
           inline_pi'[s] = inline_pi[s], pi'[s] = pi[s], iov'[s] = iov[s]
    PROVE  IovRight(s) => IovRight(s)'
<1>1. BvecIndexes(s)' = BvecIndexes(s)
  BY DataTerms, Zenon
<1>2. ASSUME IovRight(s), NEW b \in BvecIndexes(s)
      PROVE  iov'[s][b] = [iov_base |-> iov_base(s, b)', iov_len |-> Bvec(s, b)'.len]
  <2>1. ubbd_req_get_pi(s, b)' = ubbd_req_get_pi(s, b) /\ Bvec(s, b)' = Bvec(s, b)
    BY DataTerms, PiTerms, Zenon
  <2>2. iov_base(s, b)' = iov_base(s, b)
    BY <2>1, Zenon DEF iov_base
  <2>3. iov[s][b] = [iov_base |-> iov_base(s, b), iov_len |-> Bvec(s, b).len]
    BY <1>2, Zenon DEF IovRight
  <2> QED BY <2>1, <2>2, <2>3, Zenon
<1> QED BY <1>1, <1>2, Zenon DEF IovRight

(* What the backend has read of a request stays right likewise. *)
LEMMA GotKept ==
    ASSUME NEW s \in Reqs, op'[s] = op[s], bios'[s] = bios[s], use'[s] = use[s],
           served'[s] = served[s], got'[s] = got[s]
    PROVE  GotRight(s) => GotRight(s)'
<1>1. \A b : Sent(s, b)' = Sent(s, b)
  BY DataTerms, Zenon
<1>2. [b \in 0 .. served[s] - 1 |-> Sent(s, b)'] = [b \in 0 .. served[s] - 1 |-> Sent(s, b)]
  BY <1>1, Zenon
<1> QED BY <1>2, Zenon DEF GotRight

(* The memory of a request stays right as long as it is left alone. *)
LEMMA BioKept ==
    ASSUME NEW s \in Reqs, op'[s] = op[s], bios'[s] = bios[s], use'[s] = use[s],
           bio_mem'[s] = bio_mem[s], Done(s)' <=> Done(s), Delivered(s)
    PROVE  Delivered(s)'
<1>1. /\ BvecIndexes(s)' = BvecIndexes(s)
      /\ \A b, w : InBvec(s, b, w)' <=> InBvec(s, b, w)
      /\ \A k, b, w : Value(k, s, b, w)' = Value(k, s, b, w)
  BY DataTerms, Zenon
<1> SUFFICES ASSUME NEW b \in BvecIndexes(s), NEW w \in Words
             PROVE  (bio_mem[s][b][w] =
                       IF Done(s) /\ InBvec(s, b, w) THEN Value("answer", s, b, w)
                                                     ELSE Value("bio", s, b, w))'
  BY <1>1, Zenon DEF Delivered, Words
<1>2. bio_mem[s][b][w] = IF Done(s) /\ InBvec(s, b, w) THEN Value("answer", s, b, w)
                                                        ELSE Value("bio", s, b, w)
  BY Zenon DEF Delivered
<1> QED BY <1>1, <1>2, Zenon

(* A step leaves request s alone ... *)
Same(s) ==
    /\ op'[s] = op[s] /\ bios'[s] = bios[s] /\ use'[s] = use[s]
    /\ bio_mem'[s] = bio_mem[s] /\ pc'[s] = pc[s] /\ bvec_index'[s] = bvec_index[s]
    /\ inline_pi'[s] = inline_pi[s] /\ pi'[s] = pi[s] /\ iov'[s] = iov[s]
    /\ served'[s] = served[s] /\ got'[s] = got[s] /\ result'[s] = result[s]

(* ... claims nothing new for it ... *)
Shrinks(s) ==
    \A b \in BvecIndexes(s)' : Claims(s, b)' =>
        /\ b \in BvecIndexes(s) /\ Claims(s, b)
        /\ ubbd_req_get_pi(s, b)' = ubbd_req_get_pi(s, b)

(* ... and leaves what s holds in its pages alone. *)
Keeps(s) ==
    \A b \in BvecIndexes(s) : Holds(s, b) =>
        /\ ubbd_req_get_pi(s, b) \in data_bitmap'
        /\ data_pages_array'[ubbd_req_get_pi(s, b)] = ubbd_req_get_page(s, b)
        /\ content'[ubbd_req_get_page(s, b)] = content[ubbd_req_get_page(s, b)]

(* What depends on a request and its indexes, if a step leaves both alone. *)
LEMMA SameTerms ==
    ASSUME NEW s \in Reqs, Same(s)
    PROVE  /\ pi_cnt(s)' = pi_cnt(s) /\ BvecIndexes(s)' = BvecIndexes(s)
           /\ \A b : ubbd_req_get_pi(s, b)' = ubbd_req_get_pi(s, b)
           /\ \A b : Holds(s, b)' <=> Holds(s, b)
           /\ \A b : Claims(s, b)' <=> Claims(s, b)
           /\ \A b, w : InBvec(s, b, w)' <=> InBvec(s, b, w)
           /\ \A k, b, w : Value(k, s, b, w)' = Value(k, s, b, w)
<1>1. /\ op'[s] = op[s] /\ bios'[s] = bios[s] /\ use'[s] = use[s]
      /\ inline_pi'[s] = inline_pi[s] /\ pi'[s] = pi[s]
  BY Zenon DEF Same
<1>2. /\ pi_cnt(s)' = pi_cnt(s) /\ BvecIndexes(s)' = BvecIndexes(s)
      /\ \A b : ubbd_req_get_pi(s, b)' = ubbd_req_get_pi(s, b)
      /\ \A b, w : InBvec(s, b, w)' <=> InBvec(s, b, w)
      /\ \A k, b, w : Value(k, s, b, w)' = Value(k, s, b, w)
  BY <1>1, DataTerms, PiTerms, Zenon
<1>3. \A b : Holds(s, b)' <=> Holds(s, b)
  BY Zenon DEF Same, Holds
<1>4. \A b : Reaches(s, b)' <=> Reaches(s, b)
  BY Zenon DEF Same, Reaches
<1>5. \A b : Claims(s, b)' <=> Claims(s, b)
  BY <1>3, <1>4, Zenon DEF Claims
<1> QED BY <1>2, <1>3, <1>5, Zenon

(* A request that a step leaves alone stays as it was, also when the queue *)
(* is set to be removed, which waits for the workers.                      *)
LEMMA SameLocal ==
    ASSUME NEW s \in Reqs, Same(s), Local(s), Delivered(s),
           removing' = removing \/ (removing' /\ pc[s] \notin {"get", "unget", "prepared"})
    PROVE  Local(s)' /\ Delivered(s)'
<1>1. /\ pi_cnt(s)' = pi_cnt(s) /\ BvecIndexes(s)' = BvecIndexes(s)
      /\ \A b, w : InBvec(s, b, w)' <=> InBvec(s, b, w)
      /\ \A k, b, w : Value(k, s, b, w)' = Value(k, s, b, w)
  BY SameTerms, Zenon
<1>2. (bvec_index[s] <= pi_cnt(s) /\ served[s] <= pi_cnt(s))'
  BY <1>1, Zenon DEF Same, Local
<1>3. (pc[s] \in {"get", "unget", "prepared"} =>
          ~removing /\ iov[s] = <<>> /\ served[s] = 0 /\ got[s] = <<>>)'
  BY Zenon DEF Same, Local
<1>4. (result[s] # 0 => removing /\ pc[s] \in {"release", "ended"})'
  BY Zenon DEF Same, Local
<1>5. (pc[s] \in {"release", "ended"} /\ result[s] = 0 => served[s] = pi_cnt(s))'
  BY <1>1, Zenon DEF Same, Local
<1>6. (pc[s] \in {"submitted", "release", "ended"} => IovRight(s))'
  <2>1. IovRight(s) => IovRight(s)'
    BY IovKept, Zenon DEF Same
  <2> QED BY <2>1, Zenon DEF Same, Local
<1>7. (pc[s] = "get" => Slots(s, bvec_index[s]))'
  BY Zenon DEF Same, Local, Slots
<1>8. (op[s] = "WRITE" /\ result[s] = 0 /\ pc[s] \in {"submitted", "release"}
          => GotRight(s))'
  <2>1. GotRight(s) => GotRight(s)'
    BY GotKept, Zenon DEF Same
  <2> QED BY <2>1, Zenon DEF Same, Local
<1>9. Delivered(s)'
  BY BioKept, Zenon DEF Done, Same
<1> QED BY <1>2, <1>3, <1>4, <1>5, <1>6, <1>7, <1>8, <1>9, Zenon DEF Local

(* So do its pages. *)
LEMMA SameShared ==
    ASSUME NEW s \in Reqs, Same(s), Shared(s), Keeps(s)
    PROVE  Shared(s)'
<1>1. /\ BvecIndexes(s)' = BvecIndexes(s)
      /\ \A b : ubbd_req_get_pi(s, b)' = ubbd_req_get_pi(s, b)
      /\ \A b : Holds(s, b)' <=> Holds(s, b)
      /\ \A b : Claims(s, b)' <=> Claims(s, b)
      /\ \A b, w : InBvec(s, b, w)' <=> InBvec(s, b, w)
      /\ \A k, b, w : Value(k, s, b, w)' = Value(k, s, b, w)
  BY SameTerms, Zenon
<1> SUFFICES ASSUME NEW b \in BvecIndexes(s)
    PROVE  /\ (Claims(s, b) => ubbd_req_get_pi(s, b) \in Indexes)'
           /\ (Holds(s, b) => /\ ubbd_req_get_pi(s, b) \in data_bitmap
                              /\ ubbd_req_get_page(s, b) # NoPage)'
           /\ (op[s] = "WRITE" /\ pc[s] \in {"prepared", "submitted"} =>
                 \A w \in Words : InBvec(s, b, w) =>
                     content[ubbd_req_get_page(s, b)][w] = Value("bio", s, b, w))'
           /\ (op[s] = "READ" /\ pc[s] = "submitted" /\ b < served[s] =>
                 \A w \in Words : InBvec(s, b, w) =>
                     content[ubbd_req_get_page(s, b)][w] = Value("answer", s, b, w))'
  BY <1>1, Zenon DEF Shared
<1>2. Holds(s, b) => ubbd_req_get_page(s, b)' = ubbd_req_get_page(s, b)
  BY <1>1, Zenon DEF Keeps, ubbd_req_get_page
<1>3. pc[s] \in {"prepared", "submitted"} => Holds(s, b)
  BY Zenon DEF Holds
<1>4. (Claims(s, b) => ubbd_req_get_pi(s, b) \in Indexes)'
  BY <1>1, Zenon DEF Shared, Indexes
<1>5. (Holds(s, b) => /\ ubbd_req_get_pi(s, b) \in data_bitmap
                      /\ ubbd_req_get_page(s, b) # NoPage)'
  BY <1>1, <1>2, Zenon DEF Shared, Keeps
<1>6. (op[s] = "WRITE" /\ pc[s] \in {"prepared", "submitted"} =>
                 \A w \in Words : InBvec(s, b, w) =>
                     content[ubbd_req_get_page(s, b)][w] = Value("bio", s, b, w))'
  <2> SUFFICES ASSUME op[s] = "WRITE", pc[s] \in {"prepared", "submitted"},
                      NEW w \in Words, InBvec(s, b, w)
               PROVE  content'[ubbd_req_get_page(s, b)'][w] = Value("bio", s, b, w)
    BY <1>1, Zenon DEF Same, Words
  <2>1. content'[ubbd_req_get_page(s, b)'] = content[ubbd_req_get_page(s, b)]
    BY <1>2, <1>3, Zenon DEF Keeps
  <2> QED BY <2>1, Zenon DEF Shared
<1>7. (op[s] = "READ" /\ pc[s] = "submitted" /\ b < served[s] =>
                 \A w \in Words : InBvec(s, b, w) =>
                     content[ubbd_req_get_page(s, b)][w] = Value("answer", s, b, w))'
  <2> SUFFICES ASSUME op[s] = "READ", pc[s] = "submitted", b < served[s],
                      NEW w \in Words, InBvec(s, b, w)
               PROVE  content'[ubbd_req_get_page(s, b)'][w] = Value("answer", s, b, w)
    BY <1>1, Zenon DEF Same, Words
  <2>1. content'[ubbd_req_get_page(s, b)'] = content[ubbd_req_get_page(s, b)]
    BY <1>2, <1>3, Zenon DEF Keeps
  <2> QED BY <2>1, Zenon DEF Shared
<1> QED BY <1>4, <1>5, <1>6, <1>7, Zenon

(* A request that a step leaves alone takes no index. *)
LEMMA SameShrinks == ASSUME NEW s \in Reqs, Same(s) PROVE Shrinks(s)
  BY SameTerms, Zenon DEF Shrinks

(* Indexes stay apart when no bio_vec gets a new one. *)
LEMMA ApartShrink ==
    ASSUME Apart, \A s \in Reqs : Shrinks(s)
    PROVE  Apart'
<1> SUFFICES ASSUME NEW r \in Reqs, NEW s \in Reqs,
                    NEW b \in BvecIndexes(r)', NEW c \in BvecIndexes(s)',
                    Claims(r, b)', Claims(s, c)',
                    ubbd_req_get_pi(r, b)' = ubbd_req_get_pi(s, c)'
             PROVE  r = s /\ b = c
  BY Zenon DEF Apart
<1>1. /\ b \in BvecIndexes(r) /\ Claims(r, b)
      /\ ubbd_req_get_pi(r, b)' = ubbd_req_get_pi(r, b)
  BY Zenon DEF Shrinks
<1>2. /\ c \in BvecIndexes(s) /\ Claims(s, c)
      /\ ubbd_req_get_pi(s, c)' = ubbd_req_get_pi(s, c)
  BY Zenon DEF Shrinks
<1> QED BY <1>1, <1>2, Zenon DEF Apart

(* A step that changes no request and no page. *)
LEMMA StillStep ==
    ASSUME DataInv,
           UNCHANGED <<op, bios, use, bio_mem, pc, bvec_index, inline_pi, pi, data_bitmap,
                       data_pages_array, content, iov, served, got, result>>,
           \/ removing' = removing
           \/ removing' = TRUE /\ \A s \in Reqs : pc[s] \notin {"get", "unget", "prepared"},
           sigbus' => removing'
    PROVE  DataInv'
<1>1. ASSUME NEW s \in Reqs PROVE Local(s)' /\ Delivered(s)' /\ Shared(s)' /\ Shrinks(s)
  <2>1. Same(s) /\ Local(s) /\ Delivered(s) /\ Shared(s)
    BY Zenon DEF Same, DataInv
  <2>2. Keeps(s)
    BY <2>1, Zenon DEF Keeps, Shared, ubbd_req_get_page
  <2> QED BY <2>1, <2>2, SameLocal, SameShared, SameShrinks, Zenon
<1>2. Apart'
  BY <1>1, ApartShrink, Zenon DEF DataInv
<1>3. PagesApart' /\ SigbusOnlyRemoved'
  BY Zenon DEF DataInv, PagesApart, SigbusOnlyRemoved
<1>4. Types'
  BY Zenon DEF DataInv, Types, Indexes
<1> QED BY <1>1, <1>2, <1>3, <1>4, Zenon DEF DataInv

(* A step that changes no request and nothing that one holds. *)
LEMMA KeptStep ==
    ASSUME DataInv,
           UNCHANGED <<op, bios, use, bio_mem, pc, bvec_index, inline_pi, pi, data_bitmap,
                       iov, served, got, result, removing, sigbus>>,
           \A s \in Reqs : Keeps(s), DOMAIN content' = Phys, PagesApart'
    PROVE  DataInv'
<1>1. ASSUME NEW s \in Reqs PROVE Local(s)' /\ Delivered(s)' /\ Shared(s)' /\ Shrinks(s)
  <2>1. Same(s) /\ Local(s) /\ Delivered(s) /\ Shared(s) /\ Keeps(s)
    BY Zenon DEF Same, DataInv
  <2> QED BY <2>1, SameLocal, SameShared, SameShrinks, Zenon
<1>2. Apart'
  BY <1>1, ApartShrink, Zenon DEF DataInv
<1>3. SigbusOnlyRemoved'
  BY Zenon DEF DataInv, SigbusOnlyRemoved
<1>4. Types'
  BY Zenon DEF DataInv, Types, Indexes
<1> QED BY <1>1, <1>2, <1>3, <1>4, Zenon DEF DataInv

(* A step of r that leaves the pages alone. *)
Plain(r) ==
    /\ \A s \in Reqs \ {r} : Same(s)
    /\ UNCHANGED <<data_bitmap, data_pages_array, content, sigbus, removing>>

(* What is to be shown of such a step. *)
LEMMA PlainStep ==
    ASSUME DataInv, NEW r \in Reqs, Plain(r), Types',
           Local(r)', Delivered(r)', Shared(r)', Shrinks(r)
    PROVE  DataInv'
<1>1. ASSUME NEW s \in Reqs PROVE Local(s)' /\ Delivered(s)' /\ Shared(s)' /\ Shrinks(s)
  <2>1. CASE s = r
    BY <2>1, Zenon
  <2>2. CASE s # r
    <3>1. Same(s) /\ Local(s) /\ Delivered(s) /\ Shared(s) /\ removing' = removing
      BY <2>2, Zenon DEF Plain, DataInv
    <3>2. Keeps(s)
      BY <3>1, Zenon DEF Plain, Keeps, Shared, ubbd_req_get_page
    <3> QED BY <3>1, <3>2, SameLocal, SameShared, SameShrinks, Zenon
  <2> QED BY <2>1, <2>2, Zenon
<1>2. Apart'
  BY <1>1, ApartShrink, Zenon DEF DataInv
<1>3. PagesApart' /\ SigbusOnlyRemoved'
  BY Zenon DEF DataInv, PagesApart, SigbusOnlyRemoved, Plain
<1> QED BY <1>1, <1>2, <1>3, Zenon DEF DataInv

(* A step of r leaves the other requests and what they hold alone. *)
Framed(r) == \A s \in Reqs \ {r} : Same(s) /\ Keeps(s)

(* What is to be shown of r then. *)
LEMMA FramedStep ==
    ASSUME DataInv, NEW r \in Reqs, Framed(r), removing' = removing,
           Local(r)', Delivered(r)', Shared(r)'
    PROVE  \A s \in Reqs : Local(s)' /\ Delivered(s)' /\ Shared(s)'
<1> SUFFICES ASSUME NEW s \in Reqs PROVE Local(s)' /\ Delivered(s)' /\ Shared(s)'
  BY Zenon
<1>1. CASE s = r
  BY <1>1, Zenon
<1>2. CASE s # r
  <2>1. Same(s) /\ Keeps(s) /\ Local(s) /\ Delivered(s) /\ Shared(s)
    BY <1>2, Zenon DEF Framed, DataInv
  <2> QED BY <2>1, SameLocal, SameShared, Zenon
<1> QED BY <1>1, <1>2, Zenon

(* What bio_vec c of s holds is not what another bio_vec claims: neither   *)
(* the index nor the page.                                                 *)
LEMMA PageApart ==
    ASSUME DataInv, MapInv, NEW r \in Reqs, NEW s \in Reqs,
           NEW b \in BvecIndexes(r), NEW c \in BvecIndexes(s),
           Claims(r, b), Holds(s, c), ~(r = s /\ b = c)
    PROVE  /\ ubbd_req_get_pi(r, b) \in Indexes /\ ubbd_req_get_pi(s, c) \in Indexes
           /\ ubbd_req_get_pi(r, b) # ubbd_req_get_pi(s, c)
           /\ ubbd_req_get_page(s, c) \in Phys
           /\ ubbd_req_get_page(r, b) # ubbd_req_get_page(s, c)
<1>1. Claims(s, c)
  BY Zenon DEF Claims
<1>2. ubbd_req_get_pi(r, b) # ubbd_req_get_pi(s, c)
  BY <1>1, Zenon DEF DataInv, Apart
<1>3. /\ ubbd_req_get_pi(r, b) \in Indexes /\ ubbd_req_get_pi(s, c) \in Indexes
      /\ ubbd_req_get_page(s, c) # NoPage
  BY <1>1, Zenon DEF DataInv, Shared
<1>4. ubbd_req_get_page(r, b) # ubbd_req_get_page(s, c)
  BY <1>2, <1>3, Zenon DEF DataInv, PagesApart, ubbd_req_get_page
<1>5. ubbd_req_get_page(s, c) \in Phys
  BY <1>3, Zenon DEF MapInv, MaybePage, ubbd_req_get_page
<1> QED BY <1>2, <1>3, <1>4, <1>5, Zenon

(* As long as there is no removal, the backend reaches only what is held:  *)
(* no command is completed before it is worked off.                        *)
LEMMA ReachedHeld ==
    ASSUME DataInv, ~removing, NEW s \in Reqs, NEW c \in BvecIndexes(s), Claims(s, c)
    PROVE  Holds(s, c)
<1>1. Types /\ Local(s)
  BY Zenon DEF DataInv
<1>2. pi_cnt(s) \in Nat /\ c \in Nat /\ c < pi_cnt(s)
  BY <1>1, BvecType, Zenon
<1>3. CASE Reaches(s, c)
  <2>1. pc[s] = "submitted"
    BY <1>1, <1>2, <1>3 DEF Local, Reaches
  <2> QED BY <2>1, Zenon DEF Holds
<1> QED BY <1>3, Zenon DEF Claims

-----------------------------------------------------------------------------
(* ubbd_queue_rq starts a request without page indexes. *)
LEMMA QueueRqStep ==
    ASSUME DataInv, NEW r \in Reqs, NEW o \in Ops, NEW bs \in Bios, ubbd_queue_rq(r, o, bs)
    PROVE  DataInv'
<1>1. Types
  BY Zenon DEF DataInv
<1>2. /\ ~removing /\ UNCHANGED <<data_bitmap, data_pages_array, content, sigbus, removing>>
      /\ op' = [op EXCEPT ![r] = o] /\ bios' = [bios EXCEPT ![r] = bs]
      /\ use' = [use EXCEPT ![r] = Uses + 1]
      /\ pc' = [pc EXCEPT ![r] = "get"]
      /\ bvec_index' = [bvec_index EXCEPT ![r] = 0]
      /\ inline_pi' = [inline_pi EXCEPT ![r] = <<>>] /\ pi' = [pi EXCEPT ![r] = <<>>]
      /\ iov' = [iov EXCEPT ![r] = <<>>] /\ got' = [got EXCEPT ![r] = <<>>]
      /\ served' = [served EXCEPT ![r] = 0] /\ result' = [result EXCEPT ![r] = 0]
  BY Zenon DEF ubbd_queue_rq, Goto
<1>3. bio_mem' = [bio_mem EXCEPT ![r] =
          [b \in 0 .. ubbd_req_segments(o, bs) - 1 |->
              [w \in Words |-> <<"bio", Uses + 1, b, w>>]]]
  BY Zenon DEF ubbd_queue_rq
<1>4. /\ op'[r] = o /\ bios'[r] = bs /\ use'[r] = Uses + 1 /\ pc'[r] = "get"
      /\ bvec_index'[r] = 0 /\ iov'[r] = <<>> /\ got'[r] = <<>>
      /\ served'[r] = 0 /\ result'[r] = 0
      /\ bio_mem'[r] = [b \in 0 .. ubbd_req_segments(o, bs) - 1 |->
                           [w \in Words |-> <<"bio", Uses + 1, b, w>>]]
  BY <1>1, <1>2, <1>3, Zenon DEF Types
<1>5. Plain(r)
  <2>1. ASSUME NEW s \in Reqs \ {r} PROVE Same(s)
    BY <1>1, <1>2, <1>3, <2>1, Zenon DEF Types, Same
  <2> QED BY <2>1, <1>2, Zenon DEF Plain
<1>6. Types'
  <2>1. /\ op' \in [Reqs -> Ops] /\ DOMAIN bios' = Reqs
        /\ pc' \in [Reqs -> Places] /\ bvec_index' \in [Reqs -> Nat]
        /\ served' \in [Reqs -> Nat] /\ result' \in [Reqs -> {0, EIO}]
    BY <1>1, <1>2, Zenon DEF Types, Places
  <2>2. /\ DOMAIN use' = Reqs /\ DOMAIN bio_mem' = Reqs
        /\ DOMAIN inline_pi' = Reqs /\ DOMAIN pi' = Reqs
        /\ DOMAIN iov' = Reqs /\ DOMAIN got' = Reqs
        /\ DOMAIN content' = Phys /\ data_bitmap' \subseteq Indexes /\ removing' \in BOOLEAN
    BY <1>1, <1>2, <1>3, Zenon DEF Types
  <2>3. \A s \in Reqs : op'[s] = "DISCARD" \/ bios'[s] \in Bios
    BY <1>1, <1>2, Zenon DEF Types
  <2> QED BY <2>1, <2>2, <2>3, Zenon DEF Types, Indexes
<1>7. pi_cnt(r)' = ubbd_req_segments(o, bs)
  BY <1>4, Zenon DEF pi_cnt, ubbd_req_segments
<1>8. BvecIndexes(r)' = 0 .. ubbd_req_segments(o, bs) - 1
  BY <1>7, Zenon DEF BvecIndexes
<1>9. pi_cnt(r)' \in Nat /\ \A b \in BvecIndexes(r)' : b \in Nat
  <2>1. Len(Bvecs(bs)) \in Nat
    BY BiosAssumption
  <2> QED BY <1>7, <1>8, <2>1 DEF ubbd_req_segments
<1>10. Local(r)'
  <2>1. bvec_index'[r] <= pi_cnt(r)' /\ served'[r] <= pi_cnt(r)'
    BY <1>4, <1>9
  <2>2. Slots(r, bvec_index[r])'
    BY <1>4 DEF Slots
  <2> QED BY <1>2, <1>4, <2>1, <2>2, Zenon DEF Local
<1>11. Delivered(r)'
  <2>1. ~Done(r)'
    BY <1>4, Zenon DEF Done
  <2> SUFFICES ASSUME NEW b \in BvecIndexes(r)', NEW w \in Words
               PROVE  bio_mem'[r][b][w] = Value("bio", r, b, w)'
    BY <2>1, Zenon DEF Delivered, Words
  <2>2. Value("bio", r, b, w)' = <<"bio", Uses + 1, b, w>>
    BY <1>4, Zenon DEF Value
  <2>3. bio_mem'[r][b] = [v \in Words |-> <<"bio", Uses + 1, b, v>>]
    BY <1>4, <1>8, Zenon
  <2>4. bio_mem'[r][b][w] = <<"bio", Uses + 1, b, w>>
    BY <2>3, Zenon
  <2> QED BY <2>2, <2>4, Zenon
<1>12. \A b \in BvecIndexes(r)' : ~Holds(r, b)' /\ ~Claims(r, b)'
  BY <1>4, <1>9 DEF Holds, Reaches, Claims
<1>13. Shared(r)'
  BY <1>4, <1>12, Zenon DEF Shared
<1>14. Shrinks(r)
  BY <1>12, Zenon DEF Shrinks
<1> QED BY <1>5, <1>6, <1>10, <1>11, <1>13, <1>14, PlainStep, Zenon

(* An error in ubbd_get_data_pages. *)
LEMMA FailsStep ==
    ASSUME DataInv, NEW r \in Reqs, get_data_pages_fails(r)
    PROVE  DataInv'
<1>1. Types /\ Local(r) /\ Delivered(r) /\ Shared(r)
  BY Zenon DEF DataInv
<1>2. /\ pc[r] = "get" /\ pc' = [pc EXCEPT ![r] = "unget"]
      /\ UNCHANGED <<op, bios, use, bio_mem, bvec_index, inline_pi, pi, data_bitmap,
                     data_pages_array, content, iov, served, got, result, removing, sigbus>>
  BY Zenon DEF get_data_pages_fails, Goto, request, indexes, backend
<1>3. pc'[r] = "unget" /\ \A s \in Reqs \ {r} : pc'[s] = pc[s]
  BY <1>1, <1>2, Zenon DEF Types
<1>4. Plain(r)
  BY <1>2, <1>3, Zenon DEF Plain, Same
<1>5. Types'
  BY <1>1, <1>2, Zenon DEF Types, Places
<1>6. /\ pi_cnt(r)' = pi_cnt(r) /\ BvecIndexes(r)' = BvecIndexes(r)
      /\ \A b, w : InBvec(r, b, w)' <=> InBvec(r, b, w)
      /\ \A k, b, w : Value(k, r, b, w)' = Value(k, r, b, w)
      /\ \A b : ubbd_req_get_pi(r, b)' = ubbd_req_get_pi(r, b)
  BY <1>2, DataTerms, PiTerms, Zenon
<1>7. Local(r)'
  BY <1>1, <1>2, <1>3, <1>6, Zenon DEF Local
<1>8. Delivered(r)'
  BY <1>1, <1>2, <1>3, BioKept, Zenon DEF Done
<1>9. \A b : (Holds(r, b)' <=> Holds(r, b)) /\ ~Reaches(r, b)'
  BY <1>2, <1>3, Zenon DEF Holds, Reaches
<1>10. \A b : Claims(r, b)' => Claims(r, b)
  BY <1>9, Zenon DEF Claims
<1>11. Shared(r)'
  <2>1. \A b : ubbd_req_get_page(r, b)' = ubbd_req_get_page(r, b)
    BY <1>2, <1>6, Zenon DEF ubbd_req_get_page
  <2>2. ASSUME NEW b \in BvecIndexes(r)
        PROVE  /\ (Claims(r, b) => ubbd_req_get_pi(r, b) \in Indexes)'
               /\ (Holds(r, b) => /\ ubbd_req_get_pi(r, b) \in data_bitmap
                                  /\ ubbd_req_get_page(r, b) # NoPage)'
    BY <1>1, <1>2, <1>6, <1>9, <1>10, <2>1, Zenon DEF Shared, Indexes
  <2>3. pc'[r] \notin {"prepared", "submitted"}
    BY <1>3, Zenon
  <2> QED BY <1>6, <2>2, <2>3, Zenon DEF Shared
<1>12. Shrinks(r)
  BY <1>6, <1>10, Zenon DEF Shrinks
<1> QED BY <1>4, <1>5, <1>7, <1>8, <1>11, <1>12, PlainStep, Zenon

(* The request starts over, without its page indexes. *)
LEMMA RequeueStep ==
    ASSUME DataInv, NEW r \in Reqs, requeue(r) \/ ring_full(r)
    PROVE  DataInv'
<1>1. Types /\ Local(r) /\ Delivered(r)
  BY Zenon DEF DataInv
<1>2. /\ pc[r] \in {"unget", "prepared"} /\ pc' = [pc EXCEPT ![r] = "get"]
      /\ inline_pi' = [inline_pi EXCEPT ![r] = <<>>] /\ pi' = [pi EXCEPT ![r] = <<>>]
      /\ UNCHANGED <<op, bios, use, bio_mem, data_bitmap,
                     data_pages_array, content, iov, served, got, result, removing, sigbus>>
  BY Zenon DEF requeue, ring_full, Goto, request, backend
<1>3. /\ bvec_index' \in [Reqs -> Nat] /\ bvec_index'[r] = 0
      /\ \A s \in Reqs \ {r} : bvec_index'[s] = bvec_index[s]
  <2>1. CASE requeue(r)
    BY <1>1, <2>1, Zenon DEF Types, requeue
  <2>2. CASE ring_full(r)
    BY <1>1, <2>2, Zenon DEF Types, ring_full
  <2> QED BY <2>1, <2>2, Zenon
<1>4. pc'[r] = "get" /\ \A s \in Reqs \ {r} :
          pc'[s] = pc[s] /\ inline_pi'[s] = inline_pi[s] /\ pi'[s] = pi[s]
  BY <1>1, <1>2, Zenon DEF Types
<1>5. Plain(r)
  BY <1>2, <1>3, <1>4, Zenon DEF Plain, Same
<1>6. Types'
  BY <1>1, <1>2, <1>3, Zenon DEF Types, Places
<1>7. /\ pi_cnt(r)' = pi_cnt(r) /\ BvecIndexes(r)' = BvecIndexes(r)
      /\ \A b, w : InBvec(r, b, w)' <=> InBvec(r, b, w)
      /\ \A k, b, w : Value(k, r, b, w)' = Value(k, r, b, w)
  BY <1>2, DataTerms, Zenon
<1>8. pi_cnt(r) \in Nat /\ \A b \in BvecIndexes(r) : b \in Nat
  BY <1>1, BvecType, Zenon
<1>9. Local(r)'
  <2>1. bvec_index'[r] <= pi_cnt(r)
    BY <1>3, <1>8
  <2>2. Slots(r, bvec_index[r])'
    BY <1>3 DEF Slots
  <2> QED BY <1>1, <1>2, <1>3, <1>4, <1>7, <2>1, <2>2, Zenon DEF Local
<1>10. Delivered(r)'
  BY <1>1, <1>2, <1>4, BioKept, Zenon DEF Done
<1>11. \A b \in BvecIndexes(r)' : ~Holds(r, b)' /\ ~Claims(r, b)'
  BY <1>3, <1>4, <1>7, <1>8 DEF Holds, Reaches, Claims
<1>12. Shared(r)'
  BY <1>4, <1>11, Zenon DEF Shared
<1>13. Shrinks(r)
  BY <1>11, Zenon DEF Shrinks
<1> QED BY <1>5, <1>6, <1>9, <1>10, <1>12, <1>13, PlainStep, Zenon

(* The worker submits: ubbd_set_se_iov writes the addresses. *)
LEMMA SubmitStep ==
    ASSUME DataInv, NEW r \in Reqs, submit(r)
    PROVE  DataInv'
<1> DEFINE v == [b \in BvecIndexes(r) |->
                    [iov_base |-> iov_base(r, b), iov_len |-> Bvec(r, b).len]]
<1>1. Types /\ Local(r) /\ Delivered(r) /\ Shared(r)
  BY Zenon DEF DataInv
<1>2. /\ pc[r] = "prepared" /\ pc' = [pc EXCEPT ![r] = "submitted"]
      /\ iov' = [iov EXCEPT ![r] = v]
      /\ bvec_index' = [bvec_index EXCEPT ![r] = 0]
      /\ UNCHANGED <<op, bios, use, bio_mem, inline_pi, pi, data_bitmap,
                     data_pages_array, content, served, got, result, removing, sigbus>>
  BY Zenon DEF submit, Goto, request, indexes, backend
<1>3. /\ DOMAIN v = BvecIndexes(r)
      /\ \A b \in BvecIndexes(r) :
            v[b] = [iov_base |-> iov_base(r, b), iov_len |-> Bvec(r, b).len]
  BY Zenon
<1> HIDE DEF v
<1>4. /\ pc'[r] = "submitted" /\ iov'[r] = v /\ bvec_index'[r] = 0
      /\ \A s \in Reqs \ {r} :
            pc'[s] = pc[s] /\ iov'[s] = iov[s] /\ bvec_index'[s] = bvec_index[s]
  BY <1>1, <1>2, Zenon DEF Types
<1>5. Plain(r)
  BY <1>2, <1>4, Zenon DEF Plain, Same
<1>6. Types'
  BY <1>1, <1>2, Zenon DEF Types, Places
<1>7. /\ pi_cnt(r)' = pi_cnt(r) /\ BvecIndexes(r)' = BvecIndexes(r)
      /\ \A b : Bvec(r, b)' = Bvec(r, b)
      /\ \A b : Sent(r, b)' = Sent(r, b)
      /\ \A b, w : InBvec(r, b, w)' <=> InBvec(r, b, w)
      /\ \A k, b, w : Value(k, r, b, w)' = Value(k, r, b, w)
      /\ \A b : ubbd_req_get_pi(r, b)' = ubbd_req_get_pi(r, b)
  BY <1>2, DataTerms, PiTerms, Zenon
<1>8. \A b : iov_base(r, b)' = iov_base(r, b)
  BY <1>7, Zenon DEF iov_base
<1>9. pi_cnt(r) \in Nat /\ \A b \in BvecIndexes(r) : b \in Nat
  BY <1>1, BvecType, Zenon
<1>10. served[r] = 0 /\ got[r] = <<>> /\ result[r] = 0
  BY <1>1, <1>2, Zenon DEF Local
<1>11. Local(r)'
  <2>1. (bvec_index[r] <= pi_cnt(r) /\ served[r] <= pi_cnt(r))'
    <3>1. bvec_index'[r] = 0 /\ served'[r] = 0 /\ pi_cnt(r)' = pi_cnt(r)
      BY <1>2, <1>4, <1>7, <1>10, Zenon
    <3> QED BY <1>9, <3>1
  <2>2. IovRight(r)'
    <3>1. DOMAIN iov'[r] = BvecIndexes(r)'
      BY <1>3, <1>4, <1>7, Zenon
    <3>2. ASSUME NEW b \in BvecIndexes(r)'
          PROVE  iov'[r][b] = [iov_base |-> iov_base(r, b)', iov_len |-> Bvec(r, b)'.len]
      <4>1. /\ iov_base(r, b)' = iov_base(r, b) /\ Bvec(r, b)' = Bvec(r, b)
            /\ b \in BvecIndexes(r)
        BY <1>7, <1>8, Zenon
      <4> QED BY <1>3, <1>4, <4>1, Zenon
    <3> QED BY <3>1, <3>2, Zenon DEF IovRight
  <2>3. GotRight(r)'
    <3>1. 0 .. served'[r] - 1 = {}
      BY <1>2, <1>10
    <3>2. [b \in {} |-> Sent(r, b)'] = <<>>
      OBVIOUS
    <3> QED BY <1>2, <1>10, <3>1, <3>2, Zenon DEF GotRight
  <2> QED BY <1>2, <1>4, <1>10, <2>1, <2>2, <2>3, Zenon DEF Local
<1>12. Delivered(r)'
  BY <1>1, <1>2, <1>4, BioKept, Zenon DEF Done
<1>13. \A b : Holds(r, b)' /\ Holds(r, b)
  BY <1>2, <1>4, Zenon DEF Holds
<1>14. \A b : Claims(r, b)' /\ Claims(r, b)
  BY <1>13, Zenon DEF Claims
<1>15. Shared(r)'
  <2>1. \A b \in BvecIndexes(r) : ~(b < served'[r])
    BY <1>2, <1>9, <1>10
  <2>2. \A b : ubbd_req_get_page(r, b)' = ubbd_req_get_page(r, b)
    BY <1>2, <1>7, Zenon DEF ubbd_req_get_page
  <2>3. \A b \in BvecIndexes(r) : /\ ubbd_req_get_pi(r, b) \in Indexes
                                  /\ ubbd_req_get_pi(r, b) \in data_bitmap
                                  /\ ubbd_req_get_page(r, b) # NoPage
    BY <1>1, <1>13, <1>14, Zenon DEF Shared
  <2>4. op[r] = "WRITE" => \A b \in BvecIndexes(r) : \A w \in Words : InBvec(r, b, w) =>
            content[ubbd_req_get_page(r, b)][w] = Value("bio", r, b, w)
    BY <1>1, <1>2, Zenon DEF Shared
  <2>5. ASSUME NEW b \in BvecIndexes(r)
        PROVE  /\ (ubbd_req_get_pi(r, b) \in Indexes)'
               /\ (ubbd_req_get_pi(r, b) \in data_bitmap)'
               /\ (ubbd_req_get_page(r, b) # NoPage)'
               /\ (op[r] = "WRITE" => \A w \in Words : InBvec(r, b, w) =>
                    content[ubbd_req_get_page(r, b)][w] = Value("bio", r, b, w))'
    BY <1>2, <1>7, <2>2, <2>3, <2>4, Zenon DEF Indexes, Words
  <2> QED BY <1>2, <1>7, <2>1, <2>5, Zenon DEF Shared
<1>16. Shrinks(r)
  BY <1>7, <1>14, Zenon DEF Shrinks
<1> QED BY <1>5, <1>6, <1>11, <1>12, <1>15, <1>16, PlainStep, Zenon

(* ubbd_queue_complete copies the answer out of pages that nobody else     *)
(* uses.                                                                   *)
LEMMA CompleteStep ==
    ASSUME DataInv, NEW r \in Reqs, complete(r)
    PROVE  DataInv'
<1> DEFINE m == [b \in BvecIndexes(r) |->
                    memcpy(bio_mem[r][b], content[ubbd_req_get_page(r, b)], Bvec(r, b))]
<1>1. Types /\ Local(r) /\ Delivered(r) /\ Shared(r)
  BY Zenon DEF DataInv
<1>2. /\ pc[r] = "submitted" /\ pc' = [pc EXCEPT ![r] = "release"]
      /\ served[r] = pi_cnt(r)
      /\ \/ op[r] = "READ" /\ bio_mem' = [bio_mem EXCEPT ![r] = m]
         \/ op[r] # "READ" /\ bio_mem' = bio_mem
      /\ UNCHANGED <<op, bios, use, bvec_index, inline_pi, pi, data_bitmap,
                     data_pages_array, content, iov, served, got, result, removing, sigbus>>
  BY Zenon DEF complete, copy_data_from_ubbdreq, Goto, request, indexes, backend
<1>3. \A b \in BvecIndexes(r) : \A w \in Words :
          m[b][w] = IF InBvec(r, b, w) THEN content[ubbd_req_get_page(r, b)][w]
                                       ELSE bio_mem[r][b][w]
  BY Zenon DEF memcpy, InBvec
<1> HIDE DEF m
<1>4. /\ pc'[r] = "release"
      /\ \/ op[r] = "READ" /\ bio_mem'[r] = m
         \/ op[r] # "READ" /\ bio_mem'[r] = bio_mem[r]
      /\ \A s \in Reqs \ {r} : pc'[s] = pc[s] /\ bio_mem'[s] = bio_mem[s]
  BY <1>1, <1>2, Zenon DEF Types
<1>5. Plain(r)
  BY <1>2, <1>4, Zenon DEF Plain, Same
<1>6. Types'
  <2>1. pc' \in [Reqs -> Places] /\ DOMAIN bio_mem' = Reqs
    BY <1>1, <1>2, Zenon DEF Types, Places
  <2> QED BY <1>1, <1>2, <2>1, Zenon DEF Types, Indexes
<1>7. /\ pi_cnt(r)' = pi_cnt(r) /\ BvecIndexes(r)' = BvecIndexes(r)
      /\ \A b : Bvec(r, b)' = Bvec(r, b)
      /\ \A b : Sent(r, b)' = Sent(r, b)
      /\ \A b, w : InBvec(r, b, w)' <=> InBvec(r, b, w)
      /\ \A k, b, w : Value(k, r, b, w)' = Value(k, r, b, w)
      /\ \A b : ubbd_req_get_pi(r, b)' = ubbd_req_get_pi(r, b)
  BY <1>2, DataTerms, PiTerms, Zenon
<1>8. IovRight(r)' /\ (GotRight(r) => GotRight(r)')
  BY <1>1, <1>2, IovKept, GotKept, Zenon DEF Local
<1>9. pi_cnt(r) \in Nat /\ \A b \in BvecIndexes(r) : b \in Nat /\ b < pi_cnt(r)
  BY <1>1, BvecType, Zenon
<1>10. result[r] = 0
  BY <1>1, <1>2, Zenon DEF Local
<1>11. Local(r)'
  BY <1>1, <1>2, <1>4, <1>7, <1>8, <1>10, Zenon DEF Local
<1>12. Delivered(r)'
  <2> SUFFICES ASSUME NEW b \in BvecIndexes(r), NEW w \in Words
               PROVE  bio_mem'[r][b][w] =
                        IF op[r] = "READ" /\ InBvec(r, b, w)
                        THEN Value("answer", r, b, w) ELSE Value("bio", r, b, w)
    <3>1. Done(r)' <=> op[r] = "READ"
      BY <1>2, <1>4, <1>10, Zenon DEF Done
    <3> QED BY <1>7, <3>1 DEF Delivered, Words
  <2>1. bio_mem[r][b][w] = Value("bio", r, b, w)
    BY <1>1, <1>2, Zenon DEF Delivered, Done
  <2>2. op[r] = "READ" /\ InBvec(r, b, w) =>
            content[ubbd_req_get_page(r, b)][w] = Value("answer", r, b, w)
    BY <1>1, <1>2, <1>9, Zenon DEF Shared
  <2> QED BY <1>3, <1>4, <2>1, <2>2, Zenon
<1>13. \A b : Holds(r, b)
  BY <1>2, Zenon DEF Holds
<1>14. \A b : Claims(r, b)
  BY <1>13, Zenon DEF Claims
<1>15. Shared(r)'
  <2>1. \A b : ubbd_req_get_page(r, b)' = ubbd_req_get_page(r, b)
    BY <1>2, <1>7, Zenon DEF ubbd_req_get_page
  <2>2. ASSUME NEW b \in BvecIndexes(r)
        PROVE  /\ (Claims(r, b) => ubbd_req_get_pi(r, b) \in Indexes)'
               /\ (Holds(r, b) => /\ ubbd_req_get_pi(r, b) \in data_bitmap
                                  /\ ubbd_req_get_page(r, b) # NoPage)'
    BY <1>1, <1>2, <1>7, <1>13, <1>14, <2>1, Zenon DEF Shared, Indexes
  <2>3. pc'[r] \notin {"prepared", "submitted"}
    BY <1>4, Zenon
  <2> QED BY <1>7, <2>2, <2>3, Zenon DEF Shared
<1>16. Shrinks(r)
  BY <1>7, <1>14, Zenon DEF Shrinks
<1> QED BY <1>5, <1>6, <1>11, <1>12, <1>15, <1>16, PlainStep, Zenon

(* A removal ends a request (ubbd_queue_end_inflight_reqs);                *)
(* blk_mq_end_request.                                                     *)
LEMMA EndStep ==
    ASSUME DataInv, NEW r \in Reqs, end_inflight_req(r) \/ end_request(r)
    PROVE  DataInv'
<1>1. Types /\ Local(r) /\ Delivered(r) /\ Shared(r)
  BY Zenon DEF DataInv
<1>2. /\ \/ /\ pc[r] = "submitted" /\ pc' = [pc EXCEPT ![r] = "release"]
            /\ removing /\ result' = [result EXCEPT ![r] = EIO]
         \/ /\ pc[r] = "release" /\ pc' = [pc EXCEPT ![r] = "ended"]
            /\ result' = result
      /\ UNCHANGED <<op, bios, use, bio_mem, bvec_index, inline_pi, pi, data_bitmap,
                     data_pages_array, content, iov, served, got, removing, sigbus>>
  BY Zenon DEF end_inflight_req, end_request, Goto, request, indexes, backend
<1>3. /\ \/ pc[r] = "submitted" /\ pc'[r] = "release" /\ removing /\ result'[r] = EIO
         \/ pc[r] = "release" /\ pc'[r] = "ended" /\ result'[r] = result[r]
      /\ \A s \in Reqs \ {r} : pc'[s] = pc[s] /\ result'[s] = result[s]
  BY <1>1, <1>2, Zenon DEF Types
<1>4. Plain(r)
  BY <1>2, <1>3, Zenon DEF Plain, Same
<1>5. Types'
  BY <1>1, <1>2, Zenon DEF Types, Places
<1>6. /\ pi_cnt(r)' = pi_cnt(r) /\ BvecIndexes(r)' = BvecIndexes(r)
      /\ \A b : Bvec(r, b)' = Bvec(r, b)
      /\ \A b, w : InBvec(r, b, w)' <=> InBvec(r, b, w)
      /\ \A k, b, w : Value(k, r, b, w)' = Value(k, r, b, w)
      /\ \A b : ubbd_req_get_pi(r, b)' = ubbd_req_get_pi(r, b)
  BY <1>2, DataTerms, PiTerms, Zenon
<1>7. IovRight(r)'
  BY <1>1, <1>2, <1>3, IovKept, Zenon DEF Local
<1>8. EIO # 0
  BY DEF EIO
<1>9. Local(r)'
  <2>2. CASE pc[r] = "submitted" /\ pc'[r] = "release" /\ removing /\ result'[r] = EIO
    BY <1>1, <1>2, <1>6, <1>7, <1>8, <2>2, Zenon DEF Local
  <2>3. CASE pc[r] = "release" /\ pc'[r] = "ended" /\ result'[r] = result[r]
    BY <1>1, <1>2, <1>6, <1>7, <2>3, Zenon DEF Local
  <2> QED BY <1>3, <2>2, <2>3, Zenon
<1>10. Delivered(r)'
  <2>1. CASE pc[r] = "submitted" /\ pc'[r] = "release" /\ removing /\ result'[r] = EIO
    BY <1>1, <1>2, <1>8, <2>1, BioKept, Zenon DEF Done
  <2>2. CASE pc[r] = "release" /\ pc'[r] = "ended" /\ result'[r] = result[r]
    BY <1>1, <1>2, <2>2, BioKept, Zenon DEF Done
  <2> QED BY <1>3, <2>1, <2>2
<1>11. \A b : Holds(r, b)' => Holds(r, b)
  BY <1>2, <1>3, Zenon DEF Holds
<1>12. \A b : Claims(r, b)' => Claims(r, b)
  BY <1>2, <1>3, <1>11, Zenon DEF Claims, Reaches
<1>13. Shared(r)'
  <2>1. \A b : ubbd_req_get_page(r, b)' = ubbd_req_get_page(r, b)
    BY <1>2, <1>6, Zenon DEF ubbd_req_get_page
  <2>2. ASSUME NEW b \in BvecIndexes(r)
        PROVE  /\ (Claims(r, b) => ubbd_req_get_pi(r, b) \in Indexes)'
               /\ (Holds(r, b) => /\ ubbd_req_get_pi(r, b) \in data_bitmap
                                  /\ ubbd_req_get_page(r, b) # NoPage)'
    BY <1>1, <1>2, <1>6, <1>11, <1>12, <2>1, Zenon DEF Shared, Indexes
  <2>3. pc'[r] \notin {"prepared", "submitted"}
    BY <1>3, Zenon
  <2> QED BY <1>6, <2>2, <2>3, Zenon DEF Shared
<1>14. Shrinks(r)
  BY <1>6, <1>12, Zenon DEF Shrinks
<1> QED BY <1>4, <1>5, <1>9, <1>10, <1>13, <1>14, PlainStep, Zenon

-----------------------------------------------------------------------------
(* ubbd_req_set_pi sets the index of bio_vec n, in inline_pi or in pi, and *)
(* keeps those before it.                                                  *)
LEMMA SetPi ==
    ASSUME Types, NEW r \in Reqs, NEW n \in Nat, NEW i, Slots(r, n),
           ubbd_req_set_pi(r, n, i)
    PROVE  /\ ubbd_req_get_pi(r, n)' = i
           /\ \A b \in 0 .. n - 1 : ubbd_req_get_pi(r, b)' = ubbd_req_get_pi(r, b)
           /\ Slots(r, n + 1)'
           /\ DOMAIN inline_pi' = Reqs /\ DOMAIN pi' = Reqs
           /\ \A s \in Reqs \ {r} : inline_pi'[s] = inline_pi[s] /\ pi'[s] = pi[s]
<1>1. DOMAIN inline_pi = Reqs /\ DOMAIN pi = Reqs /\ INLINE_PI_MAX \in Nat
  BY DataAssumption, Zenon DEF Types
<1>2. CASE /\ n < INLINE_PI_MAX /\ pi' = pi
           /\ inline_pi' = [inline_pi EXCEPT ![r] = Put(inline_pi[r], n, i)]
  <2> DEFINE f == Put(inline_pi[r], n, i)
  <2>1. /\ DOMAIN f = DOMAIN inline_pi[r] \cup {n} /\ f[n] = i
        /\ \A y \in DOMAIN inline_pi[r] \ {n} : f[y] = inline_pi[r][y]
    BY Zenon DEF Put
  <2> HIDE DEF f
  <2>2. /\ inline_pi'[r] = f /\ DOMAIN inline_pi' = Reqs
        /\ \A s \in Reqs \ {r} : inline_pi'[s] = inline_pi[s]
    BY <1>1, <1>2, Zenon DEF f
  <2>3. ubbd_req_get_pi(r, n)' = i
    BY <1>2, <2>1, <2>2, Zenon DEF ubbd_req_get_pi
  <2>4. ASSUME NEW b \in 0 .. n - 1
        PROVE  ubbd_req_get_pi(r, b)' = ubbd_req_get_pi(r, b)
    BY <1>1, <1>2, <2>1, <2>2, <2>4 DEF ubbd_req_get_pi, Slots
  <2>5. Slots(r, n + 1)'
    BY <1>1, <1>2, <2>1, <2>2 DEF Slots
  <2> QED BY <1>1, <1>2, <2>2, <2>3, <2>4, <2>5, Zenon
<1>3. CASE /\ n >= INLINE_PI_MAX /\ inline_pi' = inline_pi
           /\ pi' = [pi EXCEPT ![r] = Put(pi[r], n - INLINE_PI_MAX, i)]
  <2> DEFINE k == n - INLINE_PI_MAX
             f == Put(pi[r], k, i)
  <2>1. /\ DOMAIN f = DOMAIN pi[r] \cup {k} /\ f[k] = i
        /\ \A y \in DOMAIN pi[r] \ {k} : f[y] = pi[r][y]
    BY Zenon DEF Put
  <2> HIDE DEF f
  <2>2. /\ pi'[r] = f /\ DOMAIN pi' = Reqs
        /\ \A s \in Reqs \ {r} : pi'[s] = pi[s]
    BY <1>1, <1>3, Zenon DEF f
  <2>3. ubbd_req_get_pi(r, n)' = i
    BY <1>1, <1>3, <2>1, <2>2 DEF ubbd_req_get_pi
  <2>4. ASSUME NEW b \in 0 .. n - 1
        PROVE  ubbd_req_get_pi(r, b)' = ubbd_req_get_pi(r, b)
    BY <1>1, <1>3, <2>1, <2>2, <2>4 DEF ubbd_req_get_pi, Slots
  <2>5. Slots(r, n + 1)'
    BY <1>1, <1>3, <2>1, <2>2 DEF Slots
  <2> QED BY <1>1, <1>3, <2>2, <2>3, <2>4, <2>5, Zenon
<1> QED BY <1>2, <1>3, Zenon DEF ubbd_req_set_pi

(* ubbd_get_data_pages takes an index that nobody holds, and so one the    *)
(* backend does not reach either, with a page that no other index has.     *)
LEMMA GetPageStep ==
    ASSUME DataInv, MapInv, NEW r \in Reqs, ubbd_get_data_page(r)
    PROVE  DataInv'
<1>0. PICK n : n = bvec_index[r]
  BY Zenon
<1>1. Types /\ Local(r) /\ Delivered(r) /\ Shared(r)
  BY Zenon DEF DataInv
<1>2. /\ pc[r] = "get" /\ n < pi_cnt(r)
      /\ bvec_index' = [bvec_index EXCEPT ![r] = n + 1]
      /\ UNCHANGED <<op, bios, use, bio_mem, pc, content, iov, served, got, sigbus,
                     result, removing>>
  BY <1>0, Zenon DEF ubbd_get_data_page, request, backend
<1>3. PICK i \in Indexes :
          /\ i \notin data_bitmap /\ data_bitmap' = data_bitmap \cup {i}
          /\ \/ data_pages_array[i] # NoPage /\ data_pages_array' = data_pages_array
             \/ /\ data_pages_array[i] = NoPage
                /\ \E p \in FreePhys :
                      data_pages_array' = [data_pages_array EXCEPT ![i] = p]
          /\ ubbd_req_set_pi(r, n, i)
  <2>1. \A i \in Indexes : FirstZero(i) => i \notin data_bitmap
    BY Zenon DEF FirstZero
  <2> QED BY <1>0, <2>1, Zenon DEF ubbd_get_data_page
<1>4. /\ pi_cnt(r) \in Nat /\ n \in Nat /\ n \in BvecIndexes(r)
      /\ \A b \in BvecIndexes(r) : b \in Nat /\ b < pi_cnt(r)
  BY <1>0, <1>1, <1>2, BvecType DEF Types, BvecIndexes
<1>5. Slots(r, n)
  BY <1>0, <1>1, <1>2, Zenon DEF Local
<1>6. /\ ubbd_req_get_pi(r, n)' = i
      /\ \A b \in 0 .. n - 1 : ubbd_req_get_pi(r, b)' = ubbd_req_get_pi(r, b)
      /\ Slots(r, n + 1)'
      /\ DOMAIN inline_pi' = Reqs /\ DOMAIN pi' = Reqs
      /\ \A s \in Reqs \ {r} : inline_pi'[s] = inline_pi[s] /\ pi'[s] = pi[s]
  BY <1>1, <1>3, <1>4, <1>5, SetPi, Zenon
<1>7. /\ bvec_index'[r] = n + 1 /\ bvec_index' \in [Reqs -> Nat]
      /\ \A s \in Reqs \ {r} : bvec_index'[s] = bvec_index[s]
  BY <1>1, <1>2, <1>4 DEF Types
<1>8. /\ data_pages_array \in [Indexes -> MaybePage] /\ NoPage \notin Phys
      /\ \A j \in Indexes \ {i} : data_pages_array'[j] = data_pages_array[j]
      /\ data_pages_array'[i] # NoPage
  <2>1. data_pages_array \in [Indexes -> MaybePage] /\ NoPage \notin Phys
    BY DataAssumption, Zenon DEF MapInv
  <2> QED BY <1>3, <2>1, Zenon DEF FreePhys, Referenced
<1>9. /\ pi_cnt(r)' = pi_cnt(r) /\ BvecIndexes(r)' = BvecIndexes(r)
      /\ \A b, w : InBvec(r, b, w)' <=> InBvec(r, b, w)
      /\ \A k, b, w : Value(k, r, b, w)' = Value(k, r, b, w)
  BY <1>2, DataTerms, Zenon
<1>10. ASSUME NEW s \in Reqs, NEW b \in BvecIndexes(s), Holds(s, b)
       PROVE  /\ ubbd_req_get_pi(s, b) \in Indexes \ {i}
              /\ ubbd_req_get_pi(s, b) \in data_bitmap'
              /\ ubbd_req_get_page(s, b) # NoPage
              /\ data_pages_array'[ubbd_req_get_pi(s, b)] = ubbd_req_get_page(s, b)
  <2>1. /\ ubbd_req_get_pi(s, b) \in data_bitmap /\ ubbd_req_get_page(s, b) # NoPage
        /\ data_bitmap \subseteq Indexes
    BY <1>1, <1>10, Zenon DEF DataInv, Shared, Types
  <2>2. ubbd_req_get_page(s, b) = data_pages_array[ubbd_req_get_pi(s, b)]
    BY Zenon DEF ubbd_req_get_page
  <2> QED BY <1>3, <1>8, <2>1, <2>2, Zenon
<1>11. Framed(r)
  <2>1. ASSUME NEW s \in Reqs \ {r} PROVE Same(s) /\ Keeps(s)
    <3>1. Same(s)
      BY <1>2, <1>6, <1>7, <2>1, Zenon DEF Same
    <3>2. Keeps(s)
      BY <1>2, <1>10, <2>1, Zenon DEF Keeps
    <3> QED BY <3>1, <3>2, Zenon
  <2> QED BY <2>1, Zenon DEF Framed
<1>12. Types'
  BY <1>1, <1>2, <1>3, <1>6, <1>7, Zenon DEF Types
<1>13. Local(r)'
  <2>1. n + 1 <= pi_cnt(r)
    BY <1>2, <1>4
  <2>2. Slots(r, bvec_index[r])'
    BY <1>6, <1>7, Zenon DEF Slots
  <2> QED BY <1>1, <1>2, <1>7, <1>9, <2>1, <2>2, Zenon DEF Local
<1>14. Delivered(r)'
  BY <1>1, <1>2, BioKept, Zenon DEF Done
<1>15. ASSUME NEW b \in BvecIndexes(r), Claims(r, b)'
       PROVE  /\ Holds(r, b)'
              /\ \/ b = n
                 \/ b # n /\ Holds(r, b) /\ ubbd_req_get_pi(r, b)' = ubbd_req_get_pi(r, b)
  <2>1. Holds(r, b)'
    BY <1>2, <1>15, Zenon DEF Claims, Reaches
  <2>2. b < n + 1
    BY <1>2, <1>7, <2>1, Zenon DEF Holds
  <2>3. CASE b # n
    <3>1. b \in 0 .. n - 1
      BY <1>4, <2>2, <2>3
    <3>2. Holds(r, b)
      BY <1>0, <1>2, <1>4, <3>1 DEF Holds
    <3> QED BY <1>6, <2>1, <2>3, <3>1, <3>2, Zenon
  <2> QED BY <2>1, <2>3, Zenon
<1>16. Shared(r)'
  <2>1. ASSUME NEW b \in BvecIndexes(r), Claims(r, b)'
        PROVE  (/\ ubbd_req_get_pi(r, b) \in Indexes
                /\ ubbd_req_get_pi(r, b) \in data_bitmap
                /\ ubbd_req_get_page(r, b) # NoPage)'
    <3>1. /\ ubbd_req_get_pi(r, b)' \in Indexes /\ ubbd_req_get_pi(r, b)' \in data_bitmap'
          /\ data_pages_array'[ubbd_req_get_pi(r, b)'] # NoPage
      BY <1>3, <1>6, <1>8, <1>10, <1>15, <2>1
    <3> QED BY <3>1, Zenon DEF ubbd_req_get_page, Indexes
  <2>2. \A b : Holds(r, b)' => Claims(r, b)'
    BY Zenon DEF Claims
  <2>3. pc'[r] \notin {"prepared", "submitted"}
    BY <1>2, Zenon
  <2> QED BY <1>9, <2>1, <2>2, <2>3, Zenon DEF Shared
<1>17. \A s \in Reqs : Local(s)' /\ Delivered(s)' /\ Shared(s)'
  BY <1>2, <1>11, <1>13, <1>14, <1>16, FramedStep, Zenon
<1>18. Apart'
  <2>1. ~removing
    BY <1>1, <1>2, Zenon DEF Local
  <2>2. ASSUME NEW s \in Reqs, NEW c \in BvecIndexes(s)', Claims(s, c)'
        PROVE  \/ s = r /\ c = n /\ ubbd_req_get_pi(s, c)' = i
               \/ /\ c \in BvecIndexes(s) /\ Claims(s, c)
                  /\ ubbd_req_get_pi(s, c)' = ubbd_req_get_pi(s, c)
                  /\ ubbd_req_get_pi(s, c) # i
    <3>1. CASE s = r
      <4>1. c \in BvecIndexes(r)
        BY <1>9, <2>2, <3>1, Zenon
      <4>2. \/ c = n
            \/ c # n /\ Holds(r, c) /\ ubbd_req_get_pi(r, c)' = ubbd_req_get_pi(r, c)
        BY <1>15, <2>2, <3>1, <4>1, Zenon
      <4>3. Holds(r, c) => ubbd_req_get_pi(r, c) # i /\ Claims(r, c)
        BY <1>10, <4>1, Zenon DEF Claims
      <4> QED BY <1>6, <3>1, <4>1, <4>2, <4>3, Zenon
    <3>2. CASE s # r
      <4>1. /\ c \in BvecIndexes(s) /\ Claims(s, c)
            /\ ubbd_req_get_pi(s, c)' = ubbd_req_get_pi(s, c)
        BY <1>11, <2>2, <3>2, SameShrinks, Zenon DEF Framed, Shrinks
      <4>2. Holds(s, c)
        BY <2>1, <4>1, ReachedHeld, Zenon
      <4> QED BY <1>10, <4>1, <4>2, Zenon
    <3> QED BY <3>1, <3>2, Zenon
  <2> SUFFICES ASSUME NEW s \in Reqs, NEW t \in Reqs,
                      NEW b \in BvecIndexes(s)', NEW c \in BvecIndexes(t)',
                      Claims(s, b)', Claims(t, c)',
                      ubbd_req_get_pi(s, b)' = ubbd_req_get_pi(t, c)'
               PROVE  s = t /\ b = c
    BY Zenon DEF Apart
  <2>3. \/ s = r /\ b = n /\ ubbd_req_get_pi(s, b)' = i
        \/ /\ b \in BvecIndexes(s) /\ Claims(s, b)
           /\ ubbd_req_get_pi(s, b)' = ubbd_req_get_pi(s, b)
           /\ ubbd_req_get_pi(s, b) # i
    BY <2>2, Zenon
  <2>4. \/ t = r /\ c = n /\ ubbd_req_get_pi(t, c)' = i
        \/ /\ c \in BvecIndexes(t) /\ Claims(t, c)
           /\ ubbd_req_get_pi(t, c)' = ubbd_req_get_pi(t, c)
           /\ ubbd_req_get_pi(t, c) # i
    BY <2>2, Zenon
  <2>5. Apart
    BY Zenon DEF DataInv
  <2> QED BY <2>3, <2>4, <2>5, Zenon DEF Apart
<1>19. PagesApart'
  <2>1. PagesApart
    BY Zenon DEF DataInv
  <2>2. \A p \in FreePhys : \A j \in Indexes : data_pages_array[j] # p
    BY Zenon DEF FreePhys, Referenced
  <2> QED BY <1>3, <1>8, <2>1, <2>2 DEF PagesApart
<1>20. SigbusOnlyRemoved'
  BY <1>2, Zenon DEF DataInv, SigbusOnlyRemoved
<1> QED BY <1>12, <1>17, <1>18, <1>19, <1>20, Zenon DEF DataInv

(* ubbd_release_page clears the bit of the index of r and no other. *)
LEMMA ReleasePageStep ==
    ASSUME DataInv, MapInv, NEW r \in Reqs, ubbd_req_release(r) \/ unget_page(r)
    PROVE  DataInv'
<1> DEFINE n == IF pc[r] = "release" THEN bvec_index[r] ELSE bvec_index[r] - 1
           m == IF pc[r] = "release" THEN bvec_index[r] + 1 ELSE bvec_index[r] - 1
           i == ubbd_req_get_pi(r, n)
<1>1. Types /\ Local(r) /\ Delivered(r) /\ Shared(r)
  BY Zenon DEF DataInv
<1>2. /\ pc[r] \in {"release", "unget"} /\ ubbd_release_page(r, n)
      /\ bvec_index' = [bvec_index EXCEPT ![r] = m]
      /\ UNCHANGED <<op, bios, use, bio_mem, pc, inline_pi, pi, data_pages_array, content,
                     iov, served, got, sigbus, result, removing>>
  <2>1. CASE ubbd_req_release(r)
    BY <2>1, Zenon DEF ubbd_req_release, request
  <2>2. CASE unget_page(r)
    <3>1. pc[r] # "release"
      BY <2>2, Zenon DEF unget_page
    <3> QED BY <2>2, <3>1, Zenon DEF unget_page, request
  <2> QED BY <2>1, <2>2, Zenon
<1>3. /\ pi_cnt(r) \in Nat /\ bvec_index[r] \in Nat /\ bvec_index[r] <= pi_cnt(r)
      /\ \A b \in BvecIndexes(r) : b \in Nat /\ b < pi_cnt(r)
  BY <1>1, BvecType, Zenon DEF Types, Local
<1>4. n \in BvecIndexes(r) /\ m \in Nat /\ m <= pi_cnt(r)
  <2>1. CASE ubbd_req_release(r)
    BY <2>1, <1>3 DEF ubbd_req_release, BvecIndexes
  <2>2. CASE unget_page(r)
    BY <2>2, <1>3 DEF unget_page, BvecIndexes
  <2> QED BY <2>1, <2>2, Zenon
<1>5. /\ bvec_index'[r] = m /\ bvec_index' \in [Reqs -> Nat]
      /\ \A s \in Reqs \ {r} : bvec_index'[s] = bvec_index[s]
  BY <1>1, <1>2, <1>4, Zenon DEF Types
<1>6. Holds(r, n) /\ \A b \in BvecIndexes(r) : Holds(r, b)' => Holds(r, b) /\ b # n
  BY <1>2, <1>3, <1>4, <1>5 DEF Holds
<1> HIDE DEF n, m
<1>7. data_bitmap' = data_bitmap \ {i}
  BY <1>2, Zenon DEF ubbd_release_page
<1>8. ASSUME NEW s \in Reqs, NEW b \in BvecIndexes(s), Holds(s, b), ~(r = s /\ n = b)
      PROVE  /\ ubbd_req_get_pi(s, b) \in data_bitmap'
             /\ data_pages_array'[ubbd_req_get_pi(s, b)] = ubbd_req_get_page(s, b)
             /\ content'[ubbd_req_get_page(s, b)] = content[ubbd_req_get_page(s, b)]
  <2>1. i # ubbd_req_get_pi(s, b)
    <3>1. Claims(r, n)
      BY <1>6, Zenon DEF Claims
    <3> QED BY <1>4, <1>8, <3>1, PageApart, Zenon
  <2>2. ubbd_req_get_pi(s, b) \in data_bitmap
    BY <1>8, Zenon DEF DataInv, Shared
  <2>3. data_pages_array[ubbd_req_get_pi(s, b)] = ubbd_req_get_page(s, b)
    BY Zenon DEF ubbd_req_get_page
  <2> HIDE DEF i
  <2> QED BY <1>2, <1>7, <2>1, <2>2, <2>3, Zenon
<1>9. Framed(r)
  <2>1. ASSUME NEW s \in Reqs \ {r} PROVE Same(s) /\ Keeps(s)
    BY <1>2, <1>5, <1>8, <2>1, Zenon DEF Same, Keeps
  <2> QED BY <2>1, Zenon DEF Framed
<1>10. Types'
  BY <1>1, <1>2, <1>5, <1>7, Zenon DEF Types
<1>11. /\ pi_cnt(r)' = pi_cnt(r) /\ BvecIndexes(r)' = BvecIndexes(r)
       /\ \A b : Bvec(r, b)' = Bvec(r, b)
       /\ \A b : Sent(r, b)' = Sent(r, b)
       /\ \A b, w : InBvec(r, b, w)' <=> InBvec(r, b, w)
       /\ \A k, b, w : Value(k, r, b, w)' = Value(k, r, b, w)
       /\ \A b : ubbd_req_get_pi(r, b)' = ubbd_req_get_pi(r, b)
  BY <1>2, DataTerms, PiTerms, Zenon
<1>12. (IovRight(r) => IovRight(r)') /\ (GotRight(r) => GotRight(r)')
  BY <1>2, IovKept, GotKept, Zenon
<1>13. Local(r)'
  BY <1>1, <1>2, <1>4, <1>5, <1>11, <1>12, Zenon DEF Local
<1>14. Delivered(r)'
  BY <1>1, <1>2, BioKept, Zenon DEF Done
<1>15. \A b \in BvecIndexes(r) : Claims(r, b)' => Claims(r, b)
  BY <1>2, <1>6, Zenon DEF Claims, Reaches
<1>16. Shared(r)'
  <2>1. ASSUME NEW b \in BvecIndexes(r)
        PROVE  (Claims(r, b) => ubbd_req_get_pi(r, b) \in Indexes)'
    BY <1>1, <1>11, <1>15, Zenon DEF Shared, Indexes
  <2>2. ASSUME NEW b \in BvecIndexes(r), Holds(r, b)'
        PROVE  (/\ ubbd_req_get_pi(r, b) \in data_bitmap
                /\ ubbd_req_get_page(r, b) # NoPage)'
    <3>1. Holds(r, b) /\ b # n
      BY <1>6, <2>2, Zenon
    <3>2. ubbd_req_get_page(r, b) # NoPage
      BY <1>1, <3>1, Zenon DEF Shared
    <3>3. /\ ubbd_req_get_pi(r, b) \in data_bitmap'
          /\ data_pages_array'[ubbd_req_get_pi(r, b)] = ubbd_req_get_page(r, b)
      BY <1>8, <3>1, Zenon
    <3>4. ubbd_req_get_page(r, b)' = data_pages_array'[ubbd_req_get_pi(r, b)]
      BY <1>11, Zenon DEF ubbd_req_get_page
    <3> QED BY <1>11, <3>2, <3>3, <3>4, Zenon
  <2>3. pc'[r] \notin {"prepared", "submitted"}
    BY <1>2, Zenon
  <2> QED BY <1>11, <2>1, <2>2, <2>3, Zenon DEF Shared
<1>17. \A s \in Reqs : Local(s)' /\ Delivered(s)' /\ Shared(s)'
  BY <1>2, <1>9, <1>13, <1>14, <1>16, FramedStep, Zenon
<1>18. Apart'
  <2>1. ASSUME NEW s \in Reqs PROVE Shrinks(s)
    <3>1. CASE s = r
      BY <1>11, <1>15, <3>1, Zenon DEF Shrinks
    <3>2. CASE s # r
      BY <1>9, <3>2, SameShrinks, Zenon DEF Framed
    <3> QED BY <3>1, <3>2, Zenon
  <2> QED BY <2>1, ApartShrink, Zenon DEF DataInv
<1>19. PagesApart' /\ SigbusOnlyRemoved'
  BY <1>2, Zenon DEF DataInv, PagesApart, SigbusOnlyRemoved
<1> QED BY <1>10, <1>17, <1>18, <1>19, Zenon DEF DataInv

(* xa_erase takes the page from an index that nobody holds ... *)
LEMMA EraseStep ==
    ASSUME DataInv, MapInv, xa_erase
    PROVE  DataInv'
<1>1. /\ releasing.at = "erase"
      /\ data_pages_array' = [data_pages_array EXCEPT ![releasing.i] = NoPage]
      /\ UNCHANGED <<op, bios, use, bio_mem, pc, bvec_index, inline_pi, pi, data_bitmap,
                     content, iov, served, got, result, removing, sigbus>>
  BY Zenon DEF xa_erase, request, backend
<1>2. releasing.i \in Indexes /\ releasing.i \notin data_bitmap
  <2>1. releasing # Idle
    BY <1>1 DEF Idle
  <2> QED BY <2>1 DEF MapInv, RelInv
<1>3. data_pages_array \in [Indexes -> MaybePage]
  BY Zenon DEF MapInv
<1>4. ASSUME NEW s \in Reqs PROVE Keeps(s)
  <2> SUFFICES ASSUME NEW b \in BvecIndexes(s), Holds(s, b)
               PROVE  /\ ubbd_req_get_pi(s, b) \in data_bitmap'
                      /\ data_pages_array'[ubbd_req_get_pi(s, b)] = ubbd_req_get_page(s, b)
                      /\ content'[ubbd_req_get_page(s, b)] = content[ubbd_req_get_page(s, b)]
    BY Zenon DEF Keeps
  <2>1. ubbd_req_get_pi(s, b) \in data_bitmap /\ data_bitmap \subseteq Indexes
    BY Zenon DEF DataInv, Shared, Types
  <2>2. data_pages_array[ubbd_req_get_pi(s, b)] = ubbd_req_get_page(s, b)
    BY Zenon DEF ubbd_req_get_page
  <2> QED BY <1>1, <1>2, <1>3, <2>1, <2>2, Zenon
<1>5. PagesApart'
  BY <1>1, <1>2, <1>3, Zenon DEF DataInv, PagesApart
<1>6. DOMAIN content' = Phys
  BY <1>1, Zenon DEF DataInv, Types
<1> QED BY <1>1, <1>4, <1>5, <1>6, KeptStep, Zenon

(* ... and __free_page frees a page that no index has. *)
LEMMA FreeStep ==
    ASSUME DataInv, MapInv, __ubbd_release_page
    PROVE  DataInv'
<1>1. /\ releasing.at = "free"
      /\ content' = content \/ content' = [content EXCEPT ![releasing.page] = Unknown]
      /\ UNCHANGED <<op, bios, use, bio_mem, pc, bvec_index, inline_pi, pi, data_bitmap,
                     data_pages_array, iov, served, got, result, removing, sigbus>>
  BY Zenon DEF __ubbd_release_page, request, backend
<1>2. \A j \in Indexes : data_pages_array[j] # releasing.page
  <2>1. releasing # Idle
    BY <1>1 DEF Idle
  <2> QED BY <1>1, <2>1 DEF MapInv, RelInv
<1>3. DOMAIN content = Phys /\ data_bitmap \subseteq Indexes
  BY Zenon DEF DataInv, Types
<1>4. ASSUME NEW s \in Reqs PROVE Keeps(s)
  <2> SUFFICES ASSUME NEW b \in BvecIndexes(s), Holds(s, b)
               PROVE  /\ ubbd_req_get_pi(s, b) \in data_bitmap'
                      /\ data_pages_array'[ubbd_req_get_pi(s, b)] = ubbd_req_get_page(s, b)
                      /\ content'[ubbd_req_get_page(s, b)] = content[ubbd_req_get_page(s, b)]
    BY Zenon DEF Keeps
  <2>1. /\ ubbd_req_get_pi(s, b) \in data_bitmap /\ ubbd_req_get_pi(s, b) \in Indexes
        /\ ubbd_req_get_page(s, b) # NoPage
    BY <1>3, Zenon DEF DataInv, Shared
  <2>2. data_pages_array[ubbd_req_get_pi(s, b)] = ubbd_req_get_page(s, b)
    BY Zenon DEF ubbd_req_get_page
  <2>3. ubbd_req_get_page(s, b) \in Phys
    BY <2>1, <2>2, Zenon DEF MapInv, MaybePage
  <2>4. ubbd_req_get_page(s, b) # releasing.page
    BY <1>2, <2>1, <2>2, Zenon
  <2> QED BY <1>1, <1>3, <2>1, <2>2, <2>3, <2>4, Zenon
<1>5. PagesApart' /\ DOMAIN content' = Phys
  BY <1>1, <1>3, Zenon DEF DataInv, PagesApart
<1> QED BY <1>1, <1>4, <1>5, KeptStep, Zenon

(* copy_data_to_ubbdreq fills the pages of r and no other. *)
LEMMA CopyTo ==
    ASSUME DataInv, MapInv, NEW r \in Reqs, copy_data_to_ubbdreq(r),
           \A b \in BvecIndexes(r) : Holds(r, b)
    PROVE  /\ DOMAIN content' = Phys
           /\ \A b \in BvecIndexes(r), w \in Words :
                 InBvec(r, b, w) =>
                     content'[ubbd_req_get_page(r, b)][w] = bio_mem[r][b][w]
           /\ \A s \in Reqs \ {r} : \A c \in BvecIndexes(s) :
                 Holds(s, c) => content'[ubbd_req_get_page(s, c)] =
                                    content[ubbd_req_get_page(s, c)]
<1>1. content' = [p \in Phys |->
        IF p \in PagesOf(r)
        THEN memcpy(content[p], bio_mem[r][BvecAt(r, p)], Bvec(r, BvecAt(r, p)))
        ELSE content[p]]
  BY Zenon DEF copy_data_to_ubbdreq
<1>2. \A b \in BvecIndexes(r) : Claims(r, b)
  BY Zenon DEF Claims
<1>3. ASSUME NEW b \in BvecIndexes(r), NEW w \in Words, InBvec(r, b, w)
      PROVE  content'[ubbd_req_get_page(r, b)][w] = bio_mem[r][b][w]
  <2> DEFINE p == ubbd_req_get_page(r, b)
  <2>1. p \in Phys
    <3>1. ubbd_req_get_pi(r, b) \in Indexes /\ p # NoPage
      BY <1>2, <1>3, Zenon DEF DataInv, Shared
    <3> QED BY <3>1, Zenon DEF MapInv, MaybePage, ubbd_req_get_page
  <2>2. p \in PagesOf(r)
    BY Zenon DEF PagesOf
  <2>3. BvecAt(r, p) = b
    <3>1. ASSUME NEW c \in BvecIndexes(r), ubbd_req_get_page(r, c) = p PROVE c = b
      BY <1>2, <1>3, <3>1, PageApart, Zenon
    <3> QED BY <3>1, Zenon DEF BvecAt
  <2>4. content'[p] = memcpy(content[p], bio_mem[r][b], Bvec(r, b))
    BY <1>1, <2>1, <2>2, <2>3, Zenon
  <2>5. memcpy(content[p], bio_mem[r][b], Bvec(r, b))[w] = bio_mem[r][b][w]
    BY <1>3, Zenon DEF memcpy, InBvec
  <2> QED BY <2>4, <2>5, Zenon
<1>4. ASSUME NEW s \in Reqs \ {r}, NEW c \in BvecIndexes(s), Holds(s, c)
      PROVE  content'[ubbd_req_get_page(s, c)] = content[ubbd_req_get_page(s, c)]
  <2> DEFINE p == ubbd_req_get_page(s, c)
  <2>1. p \in Phys
    <3>1. Claims(s, c)
      BY <1>4, Zenon DEF Claims
    <3>2. ubbd_req_get_pi(s, c) \in Indexes /\ p # NoPage
      BY <1>4, <3>1, Zenon DEF DataInv, Shared
    <3> QED BY <3>2, Zenon DEF MapInv, MaybePage, ubbd_req_get_page
  <2>2. p \notin PagesOf(r)
    <3>1. ASSUME NEW b \in BvecIndexes(r) PROVE ubbd_req_get_page(r, b) # p
      BY <1>2, <1>4, PageApart, Zenon
    <3> QED BY <3>1, Zenon DEF PagesOf
  <2> QED BY <1>1, <2>1, <2>2, Zenon
<1>5. DOMAIN content' = Phys
  BY <1>1, Zenon
<1> QED BY <1>3, <1>4, <1>5, Zenon

(* The end of queue_req_prepare. *)
LEMMA PreparedStep ==
    ASSUME DataInv, MapInv, NEW r \in Reqs, prepared(r)
    PROVE  DataInv'
<1>1. Types /\ Local(r) /\ Delivered(r) /\ Shared(r)
  BY Zenon DEF DataInv
<1>2. /\ pc[r] = "get" /\ bvec_index[r] = pi_cnt(r) /\ pc' = [pc EXCEPT ![r] = "prepared"]
      /\ \/ op[r] = "WRITE" /\ copy_data_to_ubbdreq(r)
         \/ op[r] # "WRITE" /\ content' = content
      /\ UNCHANGED <<op, bios, use, bio_mem, bvec_index, inline_pi, pi, data_bitmap,
                     data_pages_array, iov, served, got, result, removing, sigbus>>
  BY Zenon DEF prepared, Goto, request, indexes, backend
<1>3. pc'[r] = "prepared" /\ \A s \in Reqs \ {r} : pc'[s] = pc[s]
  BY <1>1, <1>2, Zenon DEF Types
<1>4. \A b \in BvecIndexes(r) : b \in Nat /\ b < pi_cnt(r)
  BY <1>1, BvecType, Zenon
<1>5. \A b \in BvecIndexes(r) : Holds(r, b)
  BY <1>2, <1>4, Zenon DEF Holds
<1>6. /\ DOMAIN content' = Phys
      /\ op[r] = "WRITE" => \A b \in BvecIndexes(r), w \in Words :
            InBvec(r, b, w) => content'[ubbd_req_get_page(r, b)][w] = bio_mem[r][b][w]
      /\ \A s \in Reqs \ {r} : \A c \in BvecIndexes(s) :
            Holds(s, c) => content'[ubbd_req_get_page(s, c)] =
                               content[ubbd_req_get_page(s, c)]
  <2>1. CASE op[r] = "WRITE" /\ copy_data_to_ubbdreq(r)
    BY <1>5, <2>1, CopyTo, Zenon
  <2>2. CASE op[r] # "WRITE" /\ content' = content
    BY <1>1, <2>2, Zenon DEF Types
  <2> QED BY <1>2, <2>1, <2>2, Zenon
<1>7. Framed(r)
  <2>1. ASSUME NEW s \in Reqs \ {r} PROVE Same(s) /\ Keeps(s)
    <3>1. Same(s)
      BY <1>2, <1>3, <2>1, Zenon DEF Same
    <3>2. Shared(s)
      BY <2>1, Zenon DEF DataInv
    <3>3. Keeps(s)
      BY <1>2, <1>6, <2>1, <3>2, Zenon DEF Keeps, Shared, ubbd_req_get_page
    <3> QED BY <3>1, <3>3, Zenon
  <2> QED BY <2>1, Zenon DEF Framed
<1>8. Types'
  <2>1. pc' \in [Reqs -> Places]
    BY <1>1, <1>2, Zenon DEF Types, Places
  <2> QED BY <1>1, <1>2, <1>6, <2>1, Zenon DEF Types, Indexes
<1>9. /\ pi_cnt(r)' = pi_cnt(r) /\ BvecIndexes(r)' = BvecIndexes(r)
      /\ \A b, w : InBvec(r, b, w)' <=> InBvec(r, b, w)
      /\ \A k, b, w : Value(k, r, b, w)' = Value(k, r, b, w)
      /\ \A b : ubbd_req_get_pi(r, b)' = ubbd_req_get_pi(r, b)
  BY <1>2, DataTerms, PiTerms, Zenon
<1>10. Local(r)'
  BY <1>1, <1>2, <1>3, <1>9, Zenon DEF Local
<1>11. Delivered(r)'
  BY <1>1, <1>2, <1>3, BioKept, Zenon DEF Done
<1>12. \A b \in BvecIndexes(r) : Claims(r, b)
  BY <1>5, Zenon DEF Claims
<1>13. \A b : ubbd_req_get_page(r, b)' = ubbd_req_get_page(r, b)
  BY <1>2, <1>9, Zenon DEF ubbd_req_get_page
<1>14. Shared(r)'
  <2>1. ASSUME NEW b \in BvecIndexes(r)
        PROVE  /\ (ubbd_req_get_pi(r, b) \in Indexes)'
               /\ (ubbd_req_get_pi(r, b) \in data_bitmap)'
               /\ (ubbd_req_get_page(r, b) # NoPage)'
    <3>1. /\ ubbd_req_get_pi(r, b) \in Indexes
          /\ ubbd_req_get_pi(r, b) \in data_bitmap
          /\ ubbd_req_get_page(r, b) # NoPage
      BY <1>1, <1>5, <1>12, Zenon DEF Shared
    <3> QED BY <1>2, <1>9, <1>13, <3>1, Zenon DEF Indexes
  <2>2. ASSUME NEW b \in BvecIndexes(r)
        PROVE  (op[r] = "WRITE" => \A w \in Words : InBvec(r, b, w) =>
                    content[ubbd_req_get_page(r, b)][w] = Value("bio", r, b, w))'
    <3>1. \A w \in Words : bio_mem[r][b][w] = Value("bio", r, b, w)
      BY <1>1, <1>2, Zenon DEF Delivered, Done
    <3> SUFFICES ASSUME op[r] = "WRITE", NEW w \in Words, InBvec(r, b, w)
                 PROVE  content'[ubbd_req_get_page(r, b)][w] = Value("bio", r, b, w)
      BY <1>2, <1>9, <1>13, Zenon DEF Words
    <3> QED BY <1>6, <3>1, Zenon
  <2>3. pc'[r] # "submitted"
    BY <1>3, Zenon
  <2> QED BY <1>9, <2>1, <2>2, <2>3, Zenon DEF Shared
<1>15. \A s \in Reqs : Local(s)' /\ Delivered(s)' /\ Shared(s)'
  BY <1>2, <1>7, <1>10, <1>11, <1>14, FramedStep, Zenon
<1>16. Apart'
  <2>1. ASSUME NEW s \in Reqs PROVE Shrinks(s)
    <3>1. CASE s = r
      BY <1>9, <1>12, <3>1, Zenon DEF Shrinks
    <3>2. CASE s # r
      BY <1>7, <3>2, SameShrinks, Zenon DEF Framed
    <3> QED BY <3>1, <3>2, Zenon
  <2> QED BY <2>1, ApartShrink, Zenon DEF DataInv
<1>17. PagesApart' /\ SigbusOnlyRemoved'
  BY <1>2, Zenon DEF DataInv, SigbusOnlyRemoved, PagesApart
<1> QED BY <1>8, <1>15, <1>16, <1>17, Zenon DEF DataInv

-----------------------------------------------------------------------------
(* The backend follows the iov of a command to the index of the bio_vec,   *)
(* word by word (ubbd_vma_fault).                                          *)
LEMMA Followed ==
    ASSUME DataInv, MapInv, NEW r \in Reqs, NEW b \in DOMAIN iov[r], b = served[r]
    PROVE  /\ b \in BvecIndexes(r) /\ Reaches(r, b)
           /\ ubbd_req_get_pi(r, b) \in Indexes
           /\ FaultIndex(iov[r][b].iov_base) = ubbd_req_get_pi(r, b)
           /\ iov[r][b].iov_len = Bvec(r, b).len
           /\ \A k \in 0 .. Bvec(r, b).len - 1 :
                 (iov[r][b].iov_base + k) % PAGE_SIZE = Bvec(r, b).off + k
<1>1. Types /\ Local(r) /\ Shared(r)
  BY Zenon DEF DataInv
<1>2. pc[r] \in {"submitted", "release", "ended"}
  <2>1. CASE pc[r] \in {"get", "unget", "prepared"}
    <3>1. iov[r] = <<>>
      BY <1>1, <2>1, Zenon DEF Local
    <3> QED BY <3>1
  <2>2. pc[r] \in Places
    BY <1>1, Zenon DEF Types
  <2> QED BY <2>1, <2>2, Zenon DEF Places
<1>3. /\ b \in BvecIndexes(r)
      /\ iov[r][b] = [iov_base |-> iov_base(r, b), iov_len |-> Bvec(r, b).len]
  BY <1>1, <1>2, Zenon DEF Local, IovRight
<1>4. Bvec(r, b) \in Segments /\ b \in Nat
  BY <1>1, <1>3, BvecType, Zenon
<1>5. Reaches(r, b)
  BY <1>2, <1>4 DEF Reaches
<1>6. ubbd_req_get_pi(r, b) \in Indexes
  BY <1>1, <1>3, <1>5, Zenon DEF Shared, Claims
<1>7. iov[r][b].iov_base = iov_base(r, b) /\ iov[r][b].iov_len = Bvec(r, b).len
  BY <1>3
<1>8. PICK i \in Indexes : i = ubbd_req_get_pi(r, b)
  BY <1>6, Zenon
<1>9. PICK o \in Words : o = Bvec(r, b).off
  BY <1>4, Zenon DEF Segments
<1>10. PICK l \in 1 .. PAGE_SIZE : l = Bvec(r, b).len /\ o + l <= PAGE_SIZE
  BY <1>4, <1>9, Zenon DEF Segments
<1>11. iov_base(r, b) = i * PAGE_SIZE + RING_SIZE + o
  BY <1>8, <1>9, Zenon DEF iov_base
<1>12. FaultIndex(iov_base(r, b)) = i
  BY <1>11, FaultOfAddr, Zenon
<1>13. ASSUME NEW k \in 0 .. l - 1
       PROVE  (iov_base(r, b) + k) % PAGE_SIZE = o + k
  <2>1. PAGE_SIZE \in Nat /\ RING_SIZE \in Nat /\ i \in Nat /\ o \in Nat /\ l \in Nat
    BY DataAssumption DEF Indexes, Words
  <2>2. o + k \in Words
    BY <1>10, <2>1 DEF Words
  <2>3. i * PAGE_SIZE \in Nat
    BY <2>1
  <2>4. iov_base(r, b) + k = i * PAGE_SIZE + RING_SIZE + (o + k)
    BY <1>11, <2>1, <2>3
  <2> QED BY <2>2, <2>4, FaultOfAddr, Zenon
<1> QED BY <1>3, <1>5, <1>7, <1>8, <1>9, <1>10, <1>12, <1>13, Zenon

(* The page that is mapped for an index in use is the one the index has;   *)
(* that of any other index belongs to nobody else.                         *)
LEMMA MappedPage ==
    ASSUME DataInv, MapInv, NEW r \in Reqs, NEW b \in BvecIndexes(r),
           ubbd_req_get_pi(r, b) \in Indexes, pte[ubbd_req_get_pi(r, b)] # NoPage
    PROVE  /\ pte[ubbd_req_get_pi(r, b)] \in Phys
           /\ \/ pte[ubbd_req_get_pi(r, b)] = ubbd_req_get_page(r, b)
              \/ /\ ~Holds(r, b)
                 /\ \A j \in Indexes : data_pages_array[j] # pte[ubbd_req_get_pi(r, b)]
<1> DEFINE i == ubbd_req_get_pi(r, b)
<1>1. pte[i] \in Phys
  BY Zenon DEF MapInv, MaybePage
<1>2. pte[i] = data_pages_array[i] \/ Gone(i, pte[i])
  BY Zenon DEF MapInv
<1>3. Holds(r, b) => i \in data_bitmap
  BY Zenon DEF DataInv, Shared
<1> QED BY <1>1, <1>2, <1>3, Zenon DEF Gone, ubbd_req_get_page

(* The backend writes its answer for bio_vec b to page p ... *)
Answered(r, b, p) ==
    /\ op[r] = "READ" /\ got' = got
    /\ content' = [content EXCEPT ![p] =
          [w \in Words |-> IF InBvec(r, b, w) THEN Value("answer", r, b, w)
                           ELSE content[p][w]]]

(* ... or reads from it. *)
Fetched(r, b, p) ==
    /\ op[r] = "WRITE" /\ content' = content
    /\ got' = [got EXCEPT ![r] = Put(got[r], b,
          [k \in 0 .. Bvec(r, b).len - 1 |-> content[p][Bvec(r, b).off + k]])]

(* The step of the backend in terms of the bio_vec it works on. *)
LEMMA BackendCases ==
    ASSUME DataInv, MapInv, NEW r \in Reqs, backend_io(r), NEW b, b = served[r],
           NEW p, p = pte[ubbd_req_get_pi(r, b)]
    PROVE  /\ b \in DOMAIN iov[r] /\ p # NoPage
           /\ UNCHANGED <<op, bios, use, bio_mem, pc, bvec_index, inline_pi, pi,
                          data_bitmap, data_pages_array, iov, result, removing, sigbus>>
           /\ served' = [served EXCEPT ![r] = b + 1]
           /\ Answered(r, b, p) \/ Fetched(r, b, p)
<1> DEFINE e == iov[r][b]
           at == [k \in 0 .. e.iov_len - 1 |-> (e.iov_base + k) % PAGE_SIZE]
<1>1. /\ b \in DOMAIN iov[r]
      /\ UNCHANGED <<op, bios, use, bio_mem, pc, bvec_index, inline_pi, pi, data_bitmap,
                     data_pages_array, iov, result, removing, sigbus>>
      /\ served' = [served EXCEPT ![r] = b + 1]
  BY Zenon DEF backend_io, request, indexes
<1>2. /\ b \in BvecIndexes(r) /\ ubbd_req_get_pi(r, b) \in Indexes
      /\ FaultIndex(e.iov_base) = ubbd_req_get_pi(r, b) /\ e.iov_len = Bvec(r, b).len
      /\ \A k \in 0 .. Bvec(r, b).len - 1 :
            (e.iov_base + k) % PAGE_SIZE = Bvec(r, b).off + k
  BY <1>1, Followed, Zenon
<1>3. p = pte[Touched(r)]
  BY <1>2, Zenon DEF Touched
<1>4. /\ p # NoPage
      /\ \/ /\ op[r] = "WRITE" /\ content' = content
            /\ got' = [got EXCEPT ![r] =
                  Put(got[r], b, [k \in DOMAIN at |-> content[p][at[k]]])]
         \/ /\ op[r] = "READ" /\ got' = got
            /\ content' = [content EXCEPT ![p] =
                  [w \in Words |-> IF \E k \in DOMAIN at : at[k] = w
                                   THEN Value("answer", r, b, w) ELSE content[p][w]]]
  <2> DEFINE q == pte[Touched(r)]
             f == [k \in 0 .. iov[r][served[r]].iov_len - 1 |->
                     (iov[r][served[r]].iov_base + k) % PAGE_SIZE]
  <2>1. /\ q # NoPage
        /\ \/ /\ op[r] = "WRITE" /\ content' = content
              /\ got' = [got EXCEPT ![r] =
                    Put(@, served[r], [k \in DOMAIN f |-> content[q][f[k]]])]
           \/ /\ op[r] = "READ" /\ got' = got
              /\ content' = [content EXCEPT ![q] =
                    [w \in Words |-> IF \E k \in DOMAIN f : f[k] = w
                                     THEN Value("answer", r, served[r], w) ELSE @[w]]]
    BY Zenon DEF backend_io
  <2>2. f = at /\ q = p
    BY <1>3
  <2> HIDE DEF f, q, at
  <2> QED BY <2>1, <2>2
<1>5. /\ DOMAIN at = 0 .. Bvec(r, b).len - 1
      /\ \A k \in DOMAIN at : at[k] = Bvec(r, b).off + k
  BY <1>2, Zenon
<1> HIDE DEF at
<1>6. [k \in DOMAIN at |-> content[p][at[k]]] =
          [k \in 0 .. Bvec(r, b).len - 1 |-> content[p][Bvec(r, b).off + k]]
  BY <1>5, Zenon
<1>7. \A w \in Words : (\E k \in DOMAIN at : at[k] = w) <=> InBvec(r, b, w)
  <2>1. Bvec(r, b) \in Segments
    BY <1>2, BvecType, Zenon DEF DataInv
  <2>2. PICK o \in Nat : o = Bvec(r, b).off
    BY <2>1 DEF Segments, Words
  <2>3. PICK l \in Nat : l = Bvec(r, b).len
    BY <2>1, DataAssumption DEF Segments
  <2>4. \A w \in Words : (\E k \in 0 .. l - 1 : o + k = w) <=> w \in o .. o + l - 1
    <3> SUFFICES ASSUME NEW w \in Words
                 PROVE  (\E k \in 0 .. l - 1 : o + k = w) <=> w \in o .. o + l - 1
      BY Zenon
    <3>1. w \in Int
      BY DataAssumption DEF Words
    <3>2. ASSUME w \in o .. o + l - 1 PROVE \E k \in 0 .. l - 1 : o + k = w
      <4>1. w - o \in 0 .. l - 1 /\ o + (w - o) = w
        BY <3>1, <3>2
      <4> QED BY <4>1, Zenon
    <3> QED BY <3>1, <3>2
  <2> QED BY <1>5, <2>2, <2>3, <2>4 DEF InBvec
<1>8. [w \in Words |-> IF \E k \in DOMAIN at : at[k] = w
                       THEN Value("answer", r, b, w) ELSE content[p][w]] =
      [w \in Words |-> IF InBvec(r, b, w)
                       THEN Value("answer", r, b, w) ELSE content[p][w]]
  BY <1>7, Zenon
<1> QED BY <1>1, <1>4, <1>6, <1>8, Zenon DEF Answered, Fetched

(* The fault finds no page: only a removal takes a page from the backend. *)
LEMMA SigbusStep ==
    ASSUME DataInv, MapInv, NEW r \in Reqs, served[r] \in DOMAIN iov[r],
           ubbd_req_get_page(r, served[r]) = NoPage,
           UNCHANGED <<op, bios, use, bio_mem, pc, bvec_index, inline_pi, pi, data_bitmap,
                       data_pages_array, iov, result, removing, served, got, content>>
    PROVE  DataInv'
<1>1. PICK b : b = served[r]
  BY Zenon
<1>2. b \in BvecIndexes(r) /\ Claims(r, b)
  BY <1>1, Followed, Zenon DEF Claims
<1>3. removing
  <2>1. ASSUME ~removing PROVE FALSE
    <3>1. Holds(r, b)
      BY <1>2, <2>1, ReachedHeld, Zenon
    <3> QED BY <1>1, <1>2, <3>1, Zenon DEF DataInv, Shared
  <2> QED BY <2>1, Zenon
<1> QED BY <1>3, StillStep, Zenon

(* The backend changes the page of its bio_vec, if it still has it, and no *)
(* page of another.                                                        *)
LEMMA BackendPages ==
    ASSUME DataInv, MapInv, NEW r \in Reqs, NEW b \in BvecIndexes(r), Reaches(r, b),
           NEW p, p = pte[ubbd_req_get_pi(r, b)], p # NoPage,
           Answered(r, b, p) \/ Fetched(r, b, p)
    PROVE  /\ DOMAIN content' = Phys
           /\ Holds(r, b) => p = ubbd_req_get_page(r, b)
           /\ op[r] = "READ" => \A w \in Words : InBvec(r, b, w) =>
                 content'[p][w] = Value("answer", r, b, w)
           /\ op[r] = "WRITE" => content' = content
           /\ \A s \in Reqs : \A c \in BvecIndexes(s) : Holds(s, c) /\ ~(r = s /\ b = c) =>
                 content'[ubbd_req_get_page(s, c)] = content[ubbd_req_get_page(s, c)]
<1>1. DOMAIN content = Phys
  BY Zenon DEF DataInv, Types
<1>2. Claims(r, b)
  BY Zenon DEF Claims
<1>3. ubbd_req_get_pi(r, b) \in Indexes
  BY <1>2, Zenon DEF DataInv, Shared
<1>4. /\ p \in Phys
      /\ \/ p = ubbd_req_get_page(r, b)
         \/ ~Holds(r, b) /\ \A j \in Indexes : data_pages_array[j] # p
  BY <1>3, MappedPage, Zenon
<1>5. CASE Fetched(r, b, p)
  BY <1>1, <1>4, <1>5, Zenon DEF Fetched
<1>6. CASE Answered(r, b, p)
  <2> DEFINE v == [w \in Words |-> IF InBvec(r, b, w) THEN Value("answer", r, b, w)
                                   ELSE content[p][w]]
  <2>1. op[r] = "READ" /\ content' = [content EXCEPT ![p] = v]
    BY <1>6, Zenon DEF Answered
  <2>2. \A w \in Words : InBvec(r, b, w) => v[w] = Value("answer", r, b, w)
    BY Zenon
  <2>3. ASSUME NEW s \in Reqs, NEW c \in BvecIndexes(s), Holds(s, c), ~(r = s /\ b = c)
        PROVE  ubbd_req_get_page(s, c) \in Phys /\ p # ubbd_req_get_page(s, c)
    <3>1. /\ ubbd_req_get_pi(s, c) \in Indexes /\ ubbd_req_get_page(s, c) \in Phys
          /\ ubbd_req_get_page(r, b) # ubbd_req_get_page(s, c)
      BY <1>2, <2>3, PageApart, Zenon
    <3>2. ubbd_req_get_page(s, c) = data_pages_array[ubbd_req_get_pi(s, c)]
      BY Zenon DEF ubbd_req_get_page
    <3> QED BY <1>4, <3>1, <3>2, Zenon
  <2> HIDE DEF v
  <2>4. /\ DOMAIN content' = Phys /\ content'[p] = v
        /\ \A q \in Phys \ {p} : content'[q] = content[q]
    BY <1>1, <1>4, <2>1, Zenon
  <2>5. op[r] # "WRITE"
    BY <2>1, Zenon
  <2>6. \A w \in Words : InBvec(r, b, w) => content'[p][w] = Value("answer", r, b, w)
    BY <2>2, <2>4, Zenon
  <2>7. \A s \in Reqs : \A c \in BvecIndexes(s) : Holds(s, c) /\ ~(r = s /\ b = c) =>
           content'[ubbd_req_get_page(s, c)] = content[ubbd_req_get_page(s, c)]
    BY <2>3, <2>4, Zenon
  <2> QED BY <1>4, <2>4, <2>5, <2>6, <2>7, Zenon
<1> QED BY <1>5, <1>6, Zenon

(* What it has read of a WRITE. *)
LEMMA BackendGot ==
    ASSUME DataInv, NEW r \in Reqs, NEW b \in BvecIndexes(r), b = served[r],
           NEW p, Answered(r, b, p) \/ Fetched(r, b, p),
           Holds(r, b) => p = ubbd_req_get_page(r, b)
    PROVE  /\ DOMAIN got' = Reqs /\ \A s \in Reqs \ {r} : got'[s] = got[s]
           /\ op[r] = "WRITE" /\ result[r] = 0 /\ pc[r] = "submitted" =>
                 got'[r] = [c \in 0 .. b |-> Sent(r, c)]
<1>1. Types /\ Local(r) /\ Shared(r)
  BY Zenon DEF DataInv
<1>2. CASE Answered(r, b, p)
  <2>1. op[r] # "WRITE" /\ got' = got
    BY <1>2, Zenon DEF Answered
  <2> QED BY <1>1, <2>1, Zenon DEF Types
<1>3. CASE Fetched(r, b, p)
  <2> DEFINE x == [k \in 0 .. Bvec(r, b).len - 1 |-> content[p][Bvec(r, b).off + k]]
  <2>1. op[r] = "WRITE" /\ got' = [got EXCEPT ![r] = Put(got[r], b, x)]
    BY <1>3, Zenon DEF Fetched
  <2>2. /\ DOMAIN got' = Reqs /\ \A s \in Reqs \ {r} : got'[s] = got[s]
        /\ got'[r] = Put(got[r], b, x)
    BY <1>1, <2>1, Zenon DEF Types
  <2>3. ASSUME result[r] = 0, pc[r] = "submitted"
        PROVE  got'[r] = [c \in 0 .. b |-> Sent(r, c)]
    <3>1. b \in Nat /\ Bvec(r, b) \in Segments
      BY <1>1, BvecType, Zenon
    <3>2. got[r] = [c \in 0 .. b - 1 |-> Sent(r, c)]
      BY <1>1, <2>1, <2>3, Zenon DEF Local, GotRight
    <3>3. \A w \in Words : InBvec(r, b, w) => content[p][w] = Value("bio", r, b, w)
      BY <1>1, <2>1, <2>3, Zenon DEF Shared, Holds
    <3>4. \A k \in 0 .. Bvec(r, b).len - 1 :
             Bvec(r, b).off + k \in Words /\ InBvec(r, b, Bvec(r, b).off + k)
      BY <3>1, DataAssumption DEF Segments, Words, InBvec
    <3>5. x = Sent(r, b)
      BY <3>3, <3>4, Zenon DEF Sent
    <3> HIDE DEF x
    <3>6. Put(got[r], b, Sent(r, b)) = [c \in 0 .. b |-> Sent(r, c)]
      <4>1. (0 .. b - 1) \cup {b} = 0 .. b
        BY <3>1
      <4>2. DOMAIN got[r] = 0 .. b - 1 /\ \A c \in 0 .. b - 1 : got[r][c] = Sent(r, c)
        BY <3>2, Zenon
      <4>3. \A c \in 0 .. b : c # b => c \in 0 .. b - 1
        BY <3>1
      <4> QED BY <4>1, <4>2, <4>3, Zenon DEF Put
    <3> QED BY <2>2, <3>5, <3>6, Zenon
  <2> QED BY <2>2, <2>3, Zenon
<1> QED BY <1>2, <1>3, Zenon

(* A step of the backend. *)
LEMMA BackendStep ==
    ASSUME DataInv, MapInv, NEW r \in Reqs, backend_io(r)
    PROVE  DataInv'
<1>1. Types /\ Local(r) /\ Delivered(r) /\ Shared(r)
  BY Zenon DEF DataInv
<1>2. PICK b, p : b = served[r] /\ p = pte[ubbd_req_get_pi(r, b)]
  BY Zenon
<1>3. /\ b \in DOMAIN iov[r] /\ p # NoPage
      /\ UNCHANGED <<op, bios, use, bio_mem, pc, bvec_index, inline_pi, pi, data_bitmap,
                     data_pages_array, iov, result, removing, sigbus>>
      /\ served' = [served EXCEPT ![r] = b + 1]
      /\ Answered(r, b, p) \/ Fetched(r, b, p)
  BY <1>2, BackendCases, Zenon
<1>4. /\ b \in BvecIndexes(r) /\ Reaches(r, b)
      /\ pi_cnt(r) \in Nat /\ b \in Nat /\ b < pi_cnt(r)
      /\ \A c \in BvecIndexes(r) : c \in Nat
  <2>1. b \in BvecIndexes(r) /\ Reaches(r, b)
    BY <1>2, <1>3, Followed, Zenon
  <2> QED BY <1>1, <2>1, BvecType, Zenon
<1>5. /\ served'[r] = b + 1 /\ served' \in [Reqs -> Nat]
      /\ \A s \in Reqs \ {r} : served'[s] = served[s]
  BY <1>1, <1>2, <1>3, <1>4 DEF Types
<1>6. /\ DOMAIN content' = Phys
      /\ Holds(r, b) => p = ubbd_req_get_page(r, b)
      /\ op[r] = "READ" => \A w \in Words : InBvec(r, b, w) =>
            content'[p][w] = Value("answer", r, b, w)
      /\ op[r] = "WRITE" => content' = content
      /\ \A s \in Reqs : \A c \in BvecIndexes(s) : Holds(s, c) /\ ~(r = s /\ b = c) =>
            content'[ubbd_req_get_page(s, c)] = content[ubbd_req_get_page(s, c)]
  BY <1>2, <1>3, <1>4, BackendPages, Zenon
<1>7. /\ DOMAIN got' = Reqs /\ \A s \in Reqs \ {r} : got'[s] = got[s]
      /\ op[r] = "WRITE" /\ result[r] = 0 /\ pc[r] = "submitted" =>
            got'[r] = [c \in 0 .. b |-> Sent(r, c)]
  BY <1>2, <1>3, <1>4, <1>6, BackendGot, Zenon
<1>8. Framed(r)
  <2>1. ASSUME NEW s \in Reqs \ {r} PROVE Same(s) /\ Keeps(s)
    <3>1. Same(s)
      BY <1>3, <1>5, <1>7, <2>1, Zenon DEF Same
    <3>2. Shared(s)
      BY <2>1, Zenon DEF DataInv
    <3>3. Keeps(s)
      BY <1>3, <1>6, <2>1, <3>2, Zenon DEF Keeps, Shared, ubbd_req_get_page
    <3> QED BY <3>1, <3>3
  <2> QED BY <2>1, Zenon DEF Framed
<1>9. Types'
  BY <1>1, <1>3, <1>5, <1>6, <1>7, Zenon DEF Types, Indexes
<1>10. /\ pi_cnt(r)' = pi_cnt(r) /\ BvecIndexes(r)' = BvecIndexes(r)
       /\ \A c : Bvec(r, c)' = Bvec(r, c)
       /\ \A c : Sent(r, c)' = Sent(r, c)
       /\ \A c, w : InBvec(r, c, w)' <=> InBvec(r, c, w)
       /\ \A k, c, w : Value(k, r, c, w)' = Value(k, r, c, w)
       /\ \A c : ubbd_req_get_pi(r, c)' = ubbd_req_get_pi(r, c)
  BY <1>3, DataTerms, PiTerms, Zenon
<1>11. \A c : ubbd_req_get_page(r, c)' = ubbd_req_get_page(r, c)
  BY <1>3, <1>10, Zenon DEF ubbd_req_get_page
<1>12. /\ pc[r] \in {"submitted", "release", "ended"}
       /\ (pc[r] # "submitted" => result[r] # 0)
  <2>1. pc[r] \in {"submitted", "release", "ended"}
    BY <1>4, Zenon DEF Reaches
  <2> QED BY <1>1, <1>2, <1>4, <2>1 DEF Local
<1>13. Local(r)'
  <2>1. IovRight(r)'
    BY <1>1, <1>3, <1>12, IovKept, Zenon DEF Local
  <2>2. op[r] = "WRITE" /\ result[r] = 0 => GotRight(r)'
    <3>1. 0 .. served'[r] - 1 = 0 .. b
      BY <1>4, <1>5
    <3>2. [c \in 0 .. b |-> Sent(r, c)'] = [c \in 0 .. b |-> Sent(r, c)]
      BY <1>10, Zenon
    <3>3. op[r] = "WRITE" /\ result[r] = 0 => got'[r] = [c \in 0 .. b |-> Sent(r, c)]
      BY <1>7, <1>12, Zenon
    <3> QED BY <3>1, <3>2, <3>3, Zenon DEF GotRight
  <2>3. b + 1 <= pi_cnt(r)
    BY <1>4
  <2> QED BY <1>1, <1>3, <1>5, <1>10, <1>12, <2>1, <2>2, <2>3, Zenon DEF Local
<1>14. Delivered(r)'
  BY <1>1, <1>3, BioKept, Zenon DEF Done
<1>15. /\ \A c \in BvecIndexes(r) : Holds(r, c)' <=> Holds(r, c)
       /\ \A c \in BvecIndexes(r) : Reaches(r, c)' => Reaches(r, c)
  <2>1. \A c \in BvecIndexes(r) : Holds(r, c)' <=> Holds(r, c)
    BY <1>3, Zenon DEF Holds
  <2>2. \A c \in BvecIndexes(r) : Reaches(r, c)' => Reaches(r, c)
    BY <1>2, <1>3, <1>4, <1>5 DEF Reaches
  <2> QED BY <2>1, <2>2, Zenon
<1>16. \A c \in BvecIndexes(r) : Claims(r, c)' => Claims(r, c)
  BY <1>15, Zenon DEF Claims
<1>17. Shared(r)'
  <2>1. ASSUME NEW c \in BvecIndexes(r)
        PROVE  /\ (Claims(r, c) => ubbd_req_get_pi(r, c) \in Indexes)'
               /\ (Holds(r, c) => /\ ubbd_req_get_pi(r, c) \in data_bitmap
                                  /\ ubbd_req_get_page(r, c) # NoPage)'
    <3>1. /\ ubbd_req_get_pi(r, c)' = ubbd_req_get_pi(r, c)
          /\ ubbd_req_get_page(r, c)' = ubbd_req_get_page(r, c)
      BY <1>10, <1>11, Zenon
    <3>2. (Holds(r, c)' => Holds(r, c)) /\ (Claims(r, c)' => Claims(r, c))
      BY <1>15, <1>16, Zenon
    <3> QED BY <1>1, <1>3, <3>1, <3>2, Zenon DEF Shared, Indexes
  <2>2. ASSUME NEW c \in BvecIndexes(r)
        PROVE  (op[r] = "WRITE" /\ pc[r] \in {"prepared", "submitted"} =>
                  \A w \in Words : InBvec(r, c, w) =>
                      content[ubbd_req_get_page(r, c)][w] = Value("bio", r, c, w))'
    <3> SUFFICES ASSUME op[r] = "WRITE", pc[r] \in {"prepared", "submitted"},
                        NEW w \in Words, InBvec(r, c, w)
                 PROVE  content'[ubbd_req_get_page(r, c)][w] = Value("bio", r, c, w)
      <4>1. /\ ubbd_req_get_page(r, c)' = ubbd_req_get_page(r, c)
            /\ \A w : InBvec(r, c, w)' <=> InBvec(r, c, w)
            /\ \A w : Value("bio", r, c, w)' = Value("bio", r, c, w)
        BY <1>10, <1>11, Zenon
      <4> QED BY <1>3, <4>1, Zenon DEF Words
    <3>1. content[ubbd_req_get_page(r, c)][w] = Value("bio", r, c, w)
      BY <1>1, Zenon DEF Shared
    <3> QED BY <1>6, <3>1, Zenon
  <2>3. ASSUME NEW c \in BvecIndexes(r)
        PROVE  (op[r] = "READ" /\ pc[r] = "submitted" /\ c < served[r] =>
                  \A w \in Words : InBvec(r, c, w) =>
                      content[ubbd_req_get_page(r, c)][w] = Value("answer", r, c, w))'
    <3> SUFFICES ASSUME op[r] = "READ", pc[r] = "submitted", c < b + 1,
                        NEW w \in Words, InBvec(r, c, w)
                 PROVE  content'[ubbd_req_get_page(r, c)][w] = Value("answer", r, c, w)
      <4>1. /\ ubbd_req_get_page(r, c)' = ubbd_req_get_page(r, c)
            /\ \A w : InBvec(r, c, w)' <=> InBvec(r, c, w)
            /\ \A w : Value("answer", r, c, w)' = Value("answer", r, c, w)
        BY <1>10, <1>11, Zenon
      <4> QED BY <1>3, <1>5, <4>1, Zenon DEF Words
    <3>1. CASE c = b
      <4>1. Holds(r, b)
        BY Zenon DEF Holds
      <4> QED BY <1>6, <3>1, <4>1, Zenon
    <3>2. CASE c # b
      <4>1. c < served[r]
        <5>1. c \in Nat /\ b \in Nat
          BY <1>4, Zenon
        <5> QED BY <1>2, <3>2, <5>1
      <4>2. content[ubbd_req_get_page(r, c)][w] = Value("answer", r, c, w)
        BY <1>1, <4>1, Zenon DEF Shared
      <4>3. Holds(r, c)
        BY Zenon DEF Holds
      <4> QED BY <1>6, <3>2, <4>2, <4>3, Zenon
    <3> QED BY <3>1, <3>2, Zenon
  <2> QED BY <1>10, <2>1, <2>2, <2>3, Zenon DEF Shared
<1>18. \A s \in Reqs : Local(s)' /\ Delivered(s)' /\ Shared(s)'
  BY <1>3, <1>8, <1>13, <1>14, <1>17, FramedStep, Zenon
<1>19. Apart'
  <2>1. ASSUME NEW s \in Reqs PROVE Shrinks(s)
    <3>1. CASE s = r
      BY <1>10, <1>16, <3>1, Zenon DEF Shrinks
    <3>2. CASE s # r
      BY <1>8, <3>2, SameShrinks, Zenon DEF Framed
    <3> QED BY <3>1, <3>2
  <2> QED BY <2>1, ApartShrink, Zenon DEF DataInv
<1>20. PagesApart' /\ SigbusOnlyRemoved'
  BY <1>3, Zenon DEF DataInv, SigbusOnlyRemoved, PagesApart
<1> QED BY <1>9, <1>18, <1>19, <1>20, Zenon DEF DataInv

-----------------------------------------------------------------------------
(* ubbd_dev_add starts without requests and with an empty bitmap. *)
LEMMA DataInit == Init => DataInv
<1> SUFFICES ASSUME Init PROVE DataInv
  BY Zenon
<1>1. Types
  BY Zenon DEF Init, Types, Ops, Places, Unknown
<1>2. ASSUME NEW r \in Reqs
      PROVE  /\ pi_cnt(r) = 0 /\ BvecIndexes(r) = {}
             /\ Local(r) /\ Delivered(r) /\ Shared(r)
  <2>2. pi_cnt(r) = 0
    BY Zenon DEF Init, pi_cnt, ubbd_req_segments, ubbd_req_nodata
  <2>3. BvecIndexes(r) = {}
    BY <2>2 DEF BvecIndexes
  <2>4. Local(r)
    <3>1. /\ pc[r] = "ended" /\ bvec_index[r] = 0 /\ served[r] = 0 /\ result[r] = 0
          /\ iov[r] = <<>> /\ op[r] = "DISCARD"
      BY Zenon DEF Init
    <3>2. IovRight(r)
      BY <2>3, <3>1 DEF IovRight
    <3>3. bvec_index[r] <= pi_cnt(r) /\ served[r] <= pi_cnt(r)
      BY <2>2, <3>1
    <3> QED BY <2>2, <3>1, <3>2, <3>3, Zenon DEF Local
  <2> QED BY <2>2, <2>3, <2>4, Zenon DEF Delivered, Shared
<1>3. Apart
  BY <1>2, Zenon DEF Apart
<1>4. PagesApart /\ SigbusOnlyRemoved
  BY Zenon DEF Init, PagesApart, SigbusOnlyRemoved
<1> QED BY <1>1, <1>2, <1>3, <1>4, Zenon DEF DataInv

(* Every step preserves DataInv. *)
LEMMA DataStep == DataInv /\ MapInv /\ [Next]_vars => DataInv'
<1> SUFFICES ASSUME DataInv, MapInv, [Next]_vars PROVE DataInv'
  BY Zenon
<1> DEFINE still == UNCHANGED <<op, bios, use, bio_mem, pc, bvec_index, inline_pi, pi,
                      data_bitmap, data_pages_array, content, iov, served, got, result>>
<1>1. ASSUME still, removing' = removing, sigbus' = sigbus PROVE DataInv'
  <2>1. sigbus' => removing'
    BY <1>1, Zenon DEF DataInv, SigbusOnlyRemoved
  <2> QED BY <1>1, <2>1, StillStep, Zenon
<1>2. ASSUME NEW r \in Reqs, Worker(r) PROVE DataInv'
  BY <1>2, GetPageStep, FailsStep, ReleasePageStep, RequeueStep, PreparedStep,
     SubmitStep, Zenon DEF Worker
<1>3. ASSUME NEW r \in Reqs, Completion(r) PROVE DataInv'
  BY <1>3, CompleteStep, EndStep, ReleasePageStep, Zenon DEF Completion
<1>4. CASE remove
  <2>1. /\ removing' = TRUE /\ \A s \in Reqs : pc[s] \notin {"get", "unget", "prepared"}
        /\ still
    BY <1>4, Zenon DEF remove, request, indexes, backend
  <2> QED BY <2>1, StillStep, Zenon
<1>5. ASSUME NEW r \in Reqs, ubbd_try_get_data_page(r) PROVE DataInv'
  <2>1. /\ served[r] \in DOMAIN iov[r] /\ still /\ removing' = removing
        /\ sigbus' = sigbus \/ data_pages_array[Touched(r)] = NoPage
    BY <1>5, Zenon DEF ubbd_try_get_data_page, request, indexes
  <2>2. data_pages_array[Touched(r)] = ubbd_req_get_page(r, served[r])
    BY <2>1, Followed, Zenon DEF Touched, ubbd_req_get_page
  <2> QED BY <1>1, <2>1, <2>2, SigbusStep, Zenon
<1>6. CASE get_page
  BY <1>1, <1>6, Zenon DEF get_page, request, indexes
<1>7. CASE finish_fault
  BY <1>1, <1>7, Zenon DEF finish_fault, request, indexes
<1>8. CASE UNCHANGED vars
  BY <1>1, <1>8, Zenon DEF vars, request, indexes, backend
<1> HIDE DEF still
<1> QED BY <1>2, <1>3, <1>4, <1>5, <1>6, <1>7, <1>8, EraseStep, FreeStep, QueueRqStep,
           BackendStep, Zenon DEF Next

-----------------------------------------------------------------------------
(* The index the backend is at; it is in use unless the queue is removed.  *)
LEMMA TouchedIndex ==
    ASSUME DataInv, MapInv, NEW r \in Reqs, served[r] \in DOMAIN iov[r]
    PROVE  /\ Touched(r) \in Indexes
           /\ ~removing => Touched(r) \in data_bitmap
<1>1. PICK b : b = served[r]
  BY Zenon
<1>2. /\ b \in BvecIndexes(r) /\ Reaches(r, b) /\ ubbd_req_get_pi(r, b) \in Indexes
      /\ Touched(r) = ubbd_req_get_pi(r, b)
  BY <1>1, Followed, Zenon DEF Touched
<1>3. ASSUME ~removing PROVE Touched(r) \in data_bitmap
  <2>1. Claims(r, b)
    BY <1>2, Zenon DEF Claims
  <2>2. Holds(r, b)
    BY <1>2, <1>3, <2>1, ReachedHeld, Zenon
  <2> QED BY <1>2, <2>2, Zenon DEF DataInv, Shared
<1> QED BY <1>2, <1>3, Zenon

(* What a step leaves alone when it has nothing to do with the mapping. *)
Unmapped ==
    /\ UNCHANGED <<data_bitmap, data_pages_array, releasing, pte, fault, late_get>>
    /\ removing' = removing \/ removing' = TRUE
    /\ \A r \in Reqs : fault # Idle /\ fault.r = r =>
          iov'[r] = iov[r] /\ served'[r] = served[r]

(* What has gone stays away: a removed queue gets no pages. *)
LEMMA GoneKept ==
    ASSUME data_bitmap' \subseteq data_bitmap, removing' = removing \/ removing' = TRUE,
           \A j \in Indexes : data_pages_array'[j] \in {data_pages_array[j], NoPage},
           NEW i, NEW p, p # NoPage, Gone(i, p)
    PROVE  Gone(i, p)'
<1>1. ASSUME NEW j \in Indexes PROVE data_pages_array'[j] # p
  <2>1. data_pages_array[j] # p
    BY Zenon DEF Gone
  <2> QED BY <2>1, Zenon
<1>2. removing' /\ i \notin data_bitmap'
  BY Zenon DEF Gone
<1> QED BY <1>1, <1>2, Zenon DEF Gone, Indexes

(* A fault goes on as it was when the backend stays where it is. *)
LEMMA FaultKept ==
    ASSUME MapInv, fault # Idle, fault' = fault,
           iov'[fault.r] = iov[fault.r], served'[fault.r] = served[fault.r],
           \/ fault.page = data_pages_array'[fault.i]
           \/ Gone(fault.i, fault.page)'
    PROVE  FaultInv'
<1>1. /\ fault \in [at : {"get", "map"}, r : Reqs, i : Indexes, page : Phys]
      /\ served[fault.r] \in DOMAIN iov[fault.r] /\ fault.i = Touched(fault.r)
  BY Zenon DEF MapInv, FaultInv
<1>2. PICK g : g = fault
  BY Zenon
<1>3. Touched(g.r)' = Touched(g.r)
  <2>1. iov'[g.r] = iov[g.r] /\ served'[g.r] = served[g.r]
    BY <1>2, Zenon
  <2> QED BY <2>1, Zenon DEF Touched, FaultIndex
<1> QED BY <1>1, <1>2, <1>3, Zenon DEF FaultInv, Indexes

(* A step that leaves the mapping alone. *)
LEMMA UnmappedStep == ASSUME MapInv, Unmapped PROVE MapInv'
<1>1. \A i, p : p # NoPage /\ Gone(i, p) => Gone(i, p)'
  BY GoneKept, Zenon DEF Unmapped
<1>2. RelInv'
  <2>1. CASE releasing = Idle
    BY <2>1, Zenon DEF RelInv, Unmapped, Idle
  <2>2. CASE releasing # Idle
    BY <2>2 DEF MapInv, RelInv, Unmapped, Indexes, Idle
  <2> QED BY <2>1, <2>2, Zenon
<1>3. FaultInv'
  <2>1. CASE fault = Idle
    BY <2>1, Zenon DEF FaultInv, Unmapped, Idle
  <2>2. CASE fault # Idle
    <3>1. /\ fault \in [at : {"get", "map"}, r : Reqs, i : Indexes, page : Phys]
          /\ fault.page = data_pages_array[fault.i] \/ Gone(fault.i, fault.page)
      BY <2>2, Zenon DEF MapInv, FaultInv
    <3>2. fault.r \in Reqs /\ fault.page # NoPage
      BY <3>1, DataAssumption
    <3>3. iov'[fault.r] = iov[fault.r] /\ served'[fault.r] = served[fault.r]
      BY <2>2, <3>2, Zenon DEF Unmapped
    <3>4. fault' = fault /\ data_pages_array' = data_pages_array
      BY Zenon DEF Unmapped
    <3> QED BY <1>1, <2>2, <3>1, <3>2, <3>3, <3>4, FaultKept, Zenon
  <2> QED BY <2>1, <2>2, Zenon
<1>4. /\ data_pages_array' \in [Indexes -> MaybePage] /\ pte' \in [Indexes -> MaybePage]
      /\ late_get' => removing'
  <2>1. late_get' => removing'
    <3>1. late_get => removing
      BY Zenon DEF MapInv
    <3>2. late_get' = late_get /\ (removing' = removing \/ removing' = TRUE)
      BY Zenon DEF Unmapped
    <3> QED BY <3>1, <3>2, Zenon
  <2>2. data_pages_array' = data_pages_array /\ pte' = pte
    BY Zenon DEF Unmapped
  <2> QED BY <2>1, <2>2 DEF MapInv
<1>5. ASSUME NEW i \in Indexes
      PROVE  pte'[i] = NoPage \/ pte'[i] = data_pages_array'[i] \/ Gone(i, pte[i])'
  <2>1. pte' = pte /\ data_pages_array' = data_pages_array
    BY Zenon DEF Unmapped
  <2>2. pte[i] = NoPage \/ pte[i] = data_pages_array[i] \/ Gone(i, pte[i])
    BY Zenon DEF MapInv
  <2>3. pte[i] # NoPage /\ Gone(i, pte[i]) => Gone(i, pte[i])'
    <3>1. PICK q : q = pte[i]
      BY Zenon
    <3> QED BY <1>1, <2>1, <3>1, Zenon DEF Gone
  <2> QED BY <2>1, <2>2, <2>3, Zenon
<1> QED BY <1>2, <1>3, <1>4, <1>5, Zenon DEF MapInv, Indexes

(* ubbd_get_data_page gives a page to an index that the backend is not at. *)
LEMMA GetMapped ==
    ASSUME DataInv, MapInv, NEW r \in Reqs, ubbd_get_data_page(r)
    PROVE  MapInv'
<1>1. Types /\ Local(r)
  BY Zenon DEF DataInv
<1>2. /\ ~removing /\ releasing' = Idle
      /\ UNCHANGED <<iov, pte, fault, served, late_get, removing>>
  BY <1>1, Zenon DEF ubbd_get_data_page, Local, backend
<1>3. PICK i \in Indexes :
         /\ i \notin data_bitmap
         /\ \/ data_pages_array' = data_pages_array
            \/ /\ data_pages_array[i] = NoPage
               /\ \E p \in Phys : data_pages_array' = [data_pages_array EXCEPT ![i] = p]
  BY Zenon DEF ubbd_get_data_page, FirstZero, FreePhys
<1>4. /\ data_pages_array' \in [Indexes -> MaybePage]
      /\ \A j \in Indexes : j # i \/ data_pages_array[i] # NoPage =>
            data_pages_array'[j] = data_pages_array[j]
  BY <1>3, Zenon DEF MapInv, MaybePage
<1>5. ASSUME NEW j \in Indexes PROVE pte[j] = NoPage \/ pte[j] = data_pages_array'[j]
  <2>1. pte[j] = NoPage \/ pte[j] = data_pages_array[j]
    BY <1>2, Zenon DEF MapInv, Gone
  <2> QED BY <1>4, <2>1, Zenon
<1>6. FaultInv'
  <2>1. CASE fault = Idle
    BY <1>2, <2>1, Zenon DEF FaultInv, Idle
  <2>2. CASE fault # Idle
    <3>1. /\ fault \in [at : {"get", "map"}, r : Reqs, i : Indexes, page : Phys]
          /\ served[fault.r] \in DOMAIN iov[fault.r] /\ fault.i = Touched(fault.r)
          /\ fault.page = data_pages_array[fault.i]
      BY <1>2, <2>2, Zenon DEF MapInv, FaultInv, Gone
    <3>2. fault.r \in Reqs /\ fault.i \in Indexes
      BY <3>1
    <3>3. fault.i \in data_bitmap
      BY <1>2, <3>1, <3>2, TouchedIndex, Zenon
    <3>4. fault.page = data_pages_array'[fault.i]
      BY <1>3, <1>4, <3>1, <3>2, <3>3, Zenon
    <3> QED BY <1>2, <2>2, <3>4, FaultKept, Zenon
  <2> QED BY <2>1, <2>2, Zenon
<1>7. RelInv'
  BY <1>2, Zenon DEF RelInv, Idle
<1> QED BY <1>2, <1>4, <1>5, <1>6, <1>7, Zenon DEF MapInv, Indexes, MaybePage

(* ubbd_release_page unmaps the page it is going to erase. *)
LEMMA ReleaseMapped ==
    ASSUME DataInv, MapInv, NEW r \in Reqs, ubbd_req_release(r) \/ unget_page(r)
    PROVE  MapInv'
<1>1. PICK i \in Indexes :
         /\ data_bitmap' = data_bitmap \ {i}
         /\ UNCHANGED <<data_pages_array, iov, served, fault, late_get, removing>>
         /\ releasing = Idle
         /\ \/ UNCHANGED <<pte, releasing>>
            \/ /\ data_pages_array[i] # NoPage
               /\ ubbd_kring_unmap_range(RING_SIZE + int(i * SZ_4K))
               /\ releasing' = [at |-> "erase", r |-> r, i |-> i,
                                page |-> data_pages_array[i]]
  <2>1. Types /\ Local(r) /\ Shared(r)
    BY Zenon DEF DataInv
  <2>2. /\ pi_cnt(r) \in Nat /\ bvec_index[r] \in Nat /\ bvec_index[r] <= pi_cnt(r)
        /\ \A b \in BvecIndexes(r) : b \in Nat /\ b < pi_cnt(r)
    BY <2>1, BvecType, Zenon DEF Types, Local
  <2>3. PICK b \in BvecIndexes(r) : Holds(r, b) /\ ubbd_release_page(r, b)
    <3>1. CASE ubbd_req_release(r)
      <4>1. bvec_index[r] \in BvecIndexes(r) /\ Holds(r, bvec_index[r])
        BY <2>2, <3>1 DEF ubbd_req_release, BvecIndexes, Holds
      <4> QED BY <3>1, <4>1, Zenon DEF ubbd_req_release
    <3>2. CASE unget_page(r)
      <4>1. bvec_index[r] - 1 \in BvecIndexes(r) /\ Holds(r, bvec_index[r] - 1)
        BY <2>2, <3>2 DEF unget_page, BvecIndexes, Holds
      <4> QED BY <3>2, <4>1, Zenon DEF unget_page
    <3> QED BY <3>1, <3>2, Zenon
  <2>4. ubbd_req_get_pi(r, b) \in Indexes
    BY <2>1, <2>3, Zenon DEF Shared, Claims
  <2>5. UNCHANGED <<data_pages_array, iov, served, fault, late_get, removing>>
    BY Zenon DEF ubbd_req_release, unget_page
  <2> QED BY <2>3, <2>4, <2>5, Zenon DEF ubbd_release_page
<1>2. \A j, p : p # NoPage /\ Gone(j, p) => Gone(j, p)'
  BY <1>1, GoneKept, Zenon
<1>3. /\ pte' \in [Indexes -> MaybePage]
      /\ \A j \in Indexes : pte'[j] \in {pte[j], NoPage}
      /\ releasing' # Idle => pte'[i] = NoPage
  <2>1. CASE UNCHANGED <<pte, releasing>>
    BY <1>1, <2>1, Zenon DEF MapInv
  <2>2. CASE ubbd_kring_unmap_range(RING_SIZE + int(i * SZ_4K))
    <3>1. FaultIndex(RING_SIZE + int(i * SZ_4K)) = i
      BY IntOffset, FaultOfOffset, Zenon
    <3> QED BY <2>2, <3>1, Zenon DEF ubbd_kring_unmap_range, MapInv, MaybePage
  <2> QED BY <1>1, <2>1, <2>2, Zenon
<1>4. ASSUME NEW j \in Indexes
      PROVE  pte'[j] = NoPage \/ pte'[j] = data_pages_array'[j] \/ Gone(j, pte[j])'
  <2>1. CASE pte'[j] = NoPage
    BY <2>1, Zenon
  <2>2. CASE pte'[j] # NoPage
    <3>1. PICK q : q = pte[j]
      BY Zenon
    <3>2. pte'[j] = q /\ q # NoPage
      BY <1>3, <2>2, <3>1, Zenon
    <3>3. q = data_pages_array[j] \/ Gone(j, q)
      BY <3>1, <3>2, Zenon DEF MapInv
    <3>4. Gone(j, q) => Gone(j, q)'
      BY <1>2, <3>2, Zenon
    <3> QED BY <1>1, <3>2, <3>3, <3>4, Zenon DEF Gone
  <2> QED BY <2>1, <2>2, Zenon
<1>5. FaultInv'
  <2>1. CASE fault = Idle
    BY <1>1, <2>1, Zenon DEF FaultInv, Idle
  <2>2. CASE fault # Idle
    <3>1. /\ fault \in [at : {"get", "map"}, r : Reqs, i : Indexes, page : Phys]
          /\ fault.page = data_pages_array[fault.i] \/ Gone(fault.i, fault.page)
      BY <2>2, Zenon DEF MapInv, FaultInv
    <3>2. fault.page # NoPage
      BY <3>1, DataAssumption
    <3> QED BY <1>1, <1>2, <2>2, <3>1, <3>2, FaultKept, Zenon
  <2> QED BY <2>1, <2>2, Zenon
<1>6. RelInv'
  <2>1. CASE releasing' = Idle
    BY <2>1, Zenon DEF RelInv, Idle
  <2>2. CASE releasing' # Idle
    <3>1. releasing' = [at |-> "erase", r |-> r, i |-> i, page |-> data_pages_array[i]]
          /\ data_pages_array[i] \in Phys
      BY <1>1, <2>2, Zenon DEF MapInv, MaybePage
    <3> QED BY <1>1, <1>3, <2>2, <3>1 DEF RelInv, Indexes
  <2> QED BY <2>1, <2>2, Zenon
<1>7. data_pages_array' \in [Indexes -> MaybePage] /\ (late_get' => removing')
  BY <1>1, Zenon DEF MapInv
<1> QED BY <1>3, <1>4, <1>5, <1>6, <1>7, Zenon DEF MapInv, Indexes, MaybePage

(* xa_erase takes away a page that is mapped only if a removal, and a      *)
(* fault of a command it has ended, got in between.                        *)
LEMMA EraseMapped == ASSUME DataInv, MapInv, xa_erase PROVE MapInv'
<1>1. PICK i, page : i = releasing.i /\ page = releasing.page
  BY Zenon
<1>2. /\ releasing # Idle /\ releasing.at = "erase"
      /\ UNCHANGED <<data_bitmap, iov, served, pte, fault, late_get, removing>>
  BY DEF xa_erase, Idle, backend
<1>3. /\ releasing \in [at : {"erase", "free"}, r : Reqs, i : Indexes, page : Phys]
      /\ i \notin data_bitmap /\ data_pages_array[i] = page
      /\ pte[i] = NoPage \/ removing
  BY <1>1, <1>2, Zenon DEF MapInv, RelInv
<1>4. i \in Indexes /\ page \in Phys /\ page # NoPage
  BY <1>1, <1>3, DataAssumption
<1>5. /\ data_pages_array' \in [Indexes -> MaybePage]
      /\ data_pages_array'[i] = NoPage
      /\ \A j \in Indexes \ {i} : data_pages_array'[j] = data_pages_array[j]
  BY <1>1, <1>4, Zenon DEF xa_erase, MapInv, MaybePage
<1>6. ASSUME NEW j \in Indexes PROVE data_pages_array'[j] # page
  BY <1>3, <1>4, <1>5, Zenon DEF DataInv, PagesApart
<1>7. RelInv'
  <2>1. releasing' = [releasing EXCEPT !.at = "free"]
    BY Zenon DEF xa_erase
  <2>2. /\ releasing' \in [at : {"erase", "free"}, r : Reqs, i : Indexes, page : Phys]
        /\ releasing'.at = "free" /\ releasing'.i = i /\ releasing'.page = page
    BY <1>1, <1>3, <2>1
  <2>3. releasing'.at # "erase"
    BY <2>2
  <2> QED BY <1>2, <1>3, <1>6, <2>2, <2>3, Zenon DEF RelInv, Indexes
<1>8. \A j, p : p # NoPage /\ Gone(j, p) => Gone(j, p)'
  <2>1. \A j \in Indexes : data_pages_array'[j] \in {data_pages_array[j], NoPage}
    BY <1>5, Zenon
  <2> QED BY <1>2, <2>1, GoneKept, Zenon
<1>9. removing => Gone(i, page)'
  BY <1>2, <1>3, <1>6, Zenon DEF Gone, Indexes
<1>10. ASSUME NEW j \in Indexes
      PROVE  pte'[j] = NoPage \/ pte'[j] = data_pages_array'[j] \/ Gone(j, pte[j])'
  <2>1. PICK q : q = pte[j]
    BY Zenon
  <2>2. q = NoPage \/ q = data_pages_array[j] \/ Gone(j, q)
    BY <2>1, Zenon DEF MapInv
  <2>3. CASE j = i
    <3>1. q = NoPage \/ (q = page /\ removing) \/ Gone(j, q)
      BY <1>3, <2>1, <2>2, <2>3, Zenon
    <3> QED BY <1>2, <1>8, <1>9, <2>1, <2>3, <3>1, Zenon DEF Gone
  <2>4. CASE j # i
    BY <1>2, <1>5, <1>8, <2>1, <2>2, <2>4, Zenon DEF Gone
  <2> QED BY <2>3, <2>4, Zenon
<1>11. FaultInv'
  <2>1. CASE fault = Idle
    BY <1>2, <2>1, Zenon DEF FaultInv, Idle
  <2>2. CASE fault # Idle
    <3>1. /\ fault \in [at : {"get", "map"}, r : Reqs, i : Indexes, page : Phys]
          /\ served[fault.r] \in DOMAIN iov[fault.r] /\ fault.i = Touched(fault.r)
          /\ fault.page = data_pages_array[fault.i] \/ Gone(fault.i, fault.page)
      BY <2>2, Zenon DEF MapInv, FaultInv
    <3>2. fault.r \in Reqs /\ fault.i \in Indexes /\ fault.page # NoPage
      BY <3>1, DataAssumption
    <3>3. ~removing => fault.i \in data_bitmap
      BY <3>1, <3>2, TouchedIndex, Zenon
    <3>4. PICK k, q : k = fault.i /\ q = fault.page
      BY Zenon
    <3>5. q = data_pages_array'[k] \/ Gone(k, q)'
      <4>1. CASE k = i
        BY <1>3, <1>8, <1>9, <3>1, <3>2, <3>3, <3>4, <4>1, Zenon
      <4>2. CASE k # i
        BY <1>5, <1>8, <3>1, <3>2, <3>4, <4>2, Zenon
      <4> QED BY <4>1, <4>2, Zenon
    <3>6. Gone(k, q)' => Gone(fault.i, fault.page)'
      BY <1>2, <3>4, Zenon DEF Gone
    <3> QED BY <1>2, <2>2, <3>4, <3>5, <3>6, FaultKept, Zenon
  <2> QED BY <2>1, <2>2, Zenon
<1> QED BY <1>2, <1>5, <1>7, <1>10, <1>11, Zenon DEF MapInv, Indexes, MaybePage

(* __ubbd_release_page ends the release. *)
LEMMA FreeMapped == ASSUME MapInv, __ubbd_release_page PROVE MapInv'
<1>1. /\ releasing' = Idle
      /\ UNCHANGED <<data_bitmap, data_pages_array, iov, served, pte, fault, late_get,
                     removing>>
  BY Zenon DEF __ubbd_release_page, backend
<1>2. RelInv'
  BY <1>1, Zenon DEF RelInv, Idle
<1> QED BY <1>1, <1>2, Zenon DEF MapInv, FaultInv, Gone, Touched, Indexes, MaybePage, Idle

(* The fault, step by step. *)
LEMMA FaultMapped ==
    ASSUME DataInv, MapInv,
           (\E r \in Reqs : ubbd_try_get_data_page(r)) \/ get_page \/ finish_fault
    PROVE  MapInv'
<1>1. UNCHANGED <<data_bitmap, data_pages_array, releasing, iov, served, removing>>
  BY Zenon DEF ubbd_try_get_data_page, get_page, finish_fault, indexes
<1>2. \A i, p : Gone(i, p)' <=> Gone(i, p)
  BY <1>1, Zenon DEF Gone, Indexes
<1>3. \A s : Touched(s)' = Touched(s)
  BY <1>1, Zenon DEF Touched, FaultIndex
<1>4. data_pages_array' \in [Indexes -> MaybePage]
  BY <1>1, Zenon DEF MapInv
<1>5. ASSUME pte' = pte PROVE RelInv'
  BY <1>1, <1>5, Zenon DEF MapInv, RelInv, Indexes, Idle
<1>6. ASSUME NEW r \in Reqs, ubbd_try_get_data_page(r) PROVE MapInv'
  <2>1. /\ served[r] \in DOMAIN iov[r] /\ pte' = pte /\ late_get' = late_get
        /\ \/ fault' = fault /\ fault = Idle
           \/ /\ data_pages_array[Touched(r)] # NoPage
              /\ fault' = [at |-> "get", r |-> r, i |-> Touched(r),
                           page |-> data_pages_array[Touched(r)]]
    BY <1>6, Zenon DEF ubbd_try_get_data_page
  <2>2. Touched(r) \in Indexes
    BY <2>1, TouchedIndex, Zenon
  <2>3. FaultInv'
    <3>1. CASE fault' = Idle
      BY <3>1, Zenon DEF FaultInv, Idle
    <3>2. CASE data_pages_array[Touched(r)] # NoPage
               /\ fault' = [at |-> "get", r |-> r, i |-> Touched(r),
                            page |-> data_pages_array[Touched(r)]]
      <4>1. data_pages_array[Touched(r)] \in Phys
        BY <2>2, <3>2, Zenon DEF MapInv, MaybePage
      <4>2. /\ fault' \in [at : {"get", "map"}, r : Reqs, i : Indexes, page : Phys]
            /\ fault'.r = r /\ fault'.i = Touched(r)
            /\ fault'.page = data_pages_array[Touched(r)]
        BY <2>2, <3>2, <4>1
      <4> QED BY <1>1, <1>3, <2>1, <4>2, Zenon DEF FaultInv, Indexes
    <3> QED BY <2>1, <3>1, <3>2, Zenon
  <2> QED BY <1>1, <1>2, <1>4, <1>5, <2>1, <2>3, Zenon DEF MapInv, Indexes, MaybePage
<1>7. ASSUME fault # Idle
      PROVE  /\ fault \in [at : {"get", "map"}, r : Reqs, i : Indexes, page : Phys]
             /\ fault.r \in Reqs /\ fault.i \in Indexes /\ fault.page \in Phys
             /\ served[fault.r] \in DOMAIN iov[fault.r] /\ fault.i = Touched(fault.r)
             /\ fault.page = data_pages_array[fault.i] \/ Gone(fault.i, fault.page)
             /\ ~removing => fault.i \in data_bitmap
  <2>1. /\ fault \in [at : {"get", "map"}, r : Reqs, i : Indexes, page : Phys]
        /\ served[fault.r] \in DOMAIN iov[fault.r] /\ fault.i = Touched(fault.r)
        /\ fault.page = data_pages_array[fault.i] \/ Gone(fault.i, fault.page)
    BY <1>7, Zenon DEF MapInv, FaultInv
  <2>2. fault.r \in Reqs /\ fault.i \in Indexes /\ fault.page \in Phys
    BY <2>1
  <2> QED BY <2>1, <2>2, TouchedIndex, Zenon
<1>8. CASE get_page
  <2>1. /\ fault # Idle /\ pte' = pte /\ fault' = [fault EXCEPT !.at = "map"]
        /\ late_get' = (late_get \/ ~Referenced(fault.page))
    BY <1>8 DEF get_page, Idle
  <2>2. FaultInv'
    <3>1. /\ fault' \in [at : {"get", "map"}, r : Reqs, i : Indexes, page : Phys]
          /\ fault'.r = fault.r /\ fault'.i = fault.i /\ fault'.page = fault.page
      BY <1>7, <2>1
    <3>2. PICK s, i, q : s = fault.r /\ i = fault.i /\ q = fault.page
      BY Zenon
    <3>3. served[s] \in DOMAIN iov[s] /\ i = Touched(s)
          /\ (q = data_pages_array[i] \/ Gone(i, q))
      BY <1>7, <2>1, <3>2, Zenon
    <3>4. fault'.r = s /\ fault'.i = i /\ fault'.page = q
      BY <3>1, <3>2, Zenon
    <3>5. Gone(i, q) => Gone(fault.i, fault.page)'
      BY <1>1, <3>4, Zenon DEF Gone, Indexes
    <3> QED BY <1>1, <1>3, <3>1, <3>3, <3>4, <3>5, Zenon DEF FaultInv, Indexes
  <2>3. ASSUME ~Referenced(fault.page) PROVE removing
    <3>1. fault.page # data_pages_array[fault.i]
      BY <1>7, <2>1, <2>3, Zenon DEF Referenced
    <3> QED BY <1>7, <2>1, <3>1, Zenon DEF Gone
  <2>4. late_get' => removing'
    BY <1>1, <2>1, <2>3 DEF MapInv
  <2> QED BY <1>1, <1>2, <1>4, <1>5, <2>1, <2>2, <2>4, Zenon DEF MapInv, Indexes, MaybePage
<1>9. CASE finish_fault
  <2>1. /\ fault # Idle /\ pte' = [pte EXCEPT ![fault.i] = fault.page]
        /\ fault' = Idle /\ late_get' = late_get
    BY <1>9 DEF finish_fault, Idle
  <2>2. FaultInv'
    BY <2>1, Zenon DEF FaultInv, Idle
  <2>3. PICK i, q : i = fault.i /\ q = fault.page
    BY Zenon
  <2>4. /\ i \in Indexes /\ q \in Phys /\ (q = data_pages_array[i] \/ Gone(i, q))
        /\ ~removing => i \in data_bitmap
    BY <1>7, <2>1, <2>3, Zenon
  <2>5. /\ pte' \in [Indexes -> MaybePage] /\ pte'[i] = q
        /\ \A j \in Indexes \ {i} : pte'[j] = pte[j]
    BY <2>1, <2>3, <2>4, Zenon DEF MapInv, MaybePage
  <2>6. RelInv'
    <3>1. CASE releasing = Idle
      BY <1>1, <3>1, Zenon DEF RelInv, Idle
    <3>2. CASE releasing # Idle
      <4>1. /\ releasing \in [at : {"erase", "free"}, r : Reqs, i : Indexes, page : Phys]
            /\ releasing.i \notin data_bitmap
            /\ releasing.at = "erase" =>
                  /\ data_pages_array[releasing.i] = releasing.page
                  /\ pte[releasing.i] = NoPage \/ removing
            /\ releasing.at = "free" =>
                  \A j \in Indexes : data_pages_array[j] # releasing.page
        BY <3>2, Zenon DEF MapInv, RelInv
      <4>2. releasing.i \in Indexes
        BY <4>1
      <4>3. releasing.at = "erase" => pte'[releasing.i] = NoPage \/ removing
        BY <2>4, <2>5, <4>1, <4>2, Zenon
      <4> QED BY <1>1, <4>1, <4>3, Zenon DEF RelInv, Indexes
    <3> QED BY <3>1, <3>2, Zenon
  <2>7. ASSUME NEW j \in Indexes
        PROVE  pte'[j] = NoPage \/ pte'[j] = data_pages_array'[j] \/ Gone(j, pte[j])'
    <3>1. PICK p : p = pte'[j]
      BY Zenon
    <3>2. p = NoPage \/ p = data_pages_array[j] \/ Gone(j, p)
      BY <2>4, <2>5, <3>1, Zenon DEF MapInv
    <3> QED BY <1>1, <1>2, <3>1, <3>2, Zenon DEF Gone
  <2>8. late_get' => removing'
    BY <1>1, <2>1 DEF MapInv
  <2> QED BY <1>4, <2>2, <2>5, <2>6, <2>7, <2>8, Zenon DEF MapInv, Indexes, MaybePage
<1> QED BY <1>6, <1>8, <1>9, Zenon

(* A request that starts or is submitted is not the one of a fault. *)
LEMMA NotFaulting ==
    ASSUME DataInv, MapInv, NEW r \in Reqs,
           pc[r] = "prepared" \/ (pc[r] = "ended" /\ ~removing)
    PROVE  ~(fault # Idle /\ fault.r = r)
<1>1. Types /\ Local(r)
  BY Zenon DEF DataInv
<1>2. served[r] \notin DOMAIN iov[r]
  <2>1. CASE pc[r] = "prepared"
    BY <1>1, <2>1 DEF Local
  <2>2. CASE pc[r] = "ended" /\ ~removing
    <3>1. served[r] = pi_cnt(r) /\ DOMAIN iov[r] = BvecIndexes(r)
      BY <1>1, <2>2, Zenon DEF Local, IovRight
    <3>2. \A b \in BvecIndexes(r) : b < pi_cnt(r)
      BY <1>1, BvecType, Zenon
    <3>3. pi_cnt(r) \in Nat
      BY <1>1, BvecType, Zenon
    <3> QED BY <3>1, <3>2, <3>3
  <2> QED BY <2>1, <2>2, Zenon
<1> QED BY <1>2, Zenon DEF MapInv, FaultInv

(* Every step preserves MapInv. *)
LEMMA MapStep == DataInv /\ MapInv /\ [Next]_vars => MapInv'
<1> SUFFICES ASSUME DataInv, MapInv, [Next]_vars PROVE MapInv'
  BY Zenon
<1> DEFINE still == UNCHANGED <<data_bitmap, data_pages_array, releasing, pte, fault,
                                late_get>>
<1>1. ASSUME still, removing' = removing \/ removing' = TRUE, UNCHANGED <<iov, served>>
      PROVE  MapInv'
  BY <1>1, UnmappedStep, Zenon DEF Unmapped
<1>2. ASSUME NEW r \in Reqs, NEW o, NEW bs, ubbd_queue_rq(r, o, bs) PROVE MapInv'
  <2>1. /\ still /\ removing' = removing /\ pc[r] = "ended" /\ ~removing
        /\ iov' = [iov EXCEPT ![r] = <<>>] /\ served' = [served EXCEPT ![r] = 0]
    BY <1>2, Zenon DEF ubbd_queue_rq
  <2>2. \A s \in Reqs \ {r} : iov'[s] = iov[s] /\ served'[s] = served[s]
    BY <2>1, Zenon DEF DataInv, Types
  <2>3. ~(fault # Idle /\ fault.r = r)
    BY <2>1, NotFaulting, Zenon
  <2> QED BY <2>1, <2>2, <2>3, UnmappedStep, Zenon DEF Unmapped
<1>3. ASSUME NEW r \in Reqs, submit(r) PROVE MapInv'
  <2>1. /\ still /\ removing' = removing /\ pc[r] = "prepared" /\ served' = served
        /\ \A s \in Reqs \ {r} : iov'[s] = iov[s]
    BY <1>3, Zenon DEF submit, indexes, backend, DataInv, Types
  <2>2. ~(fault # Idle /\ fault.r = r)
    BY <2>1, NotFaulting, Zenon
  <2> QED BY <2>1, <2>2, UnmappedStep, Zenon DEF Unmapped
<1>4. ASSUME NEW r \in Reqs, backend_io(r) PROVE MapInv'
  <2>1. still /\ removing' = removing /\ fault = Idle
    BY <1>4, Zenon DEF backend_io, indexes
  <2> QED BY <2>1, UnmappedStep, Zenon DEF Unmapped
<1>5. ASSUME NEW r \in Reqs, Worker(r), ~submit(r) PROVE MapInv'
  <2>1. CASE get_data_pages_fails(r) \/ requeue(r) \/ prepared(r) \/ ring_full(r)
    <3>1. still /\ removing' = removing /\ UNCHANGED <<iov, served>>
      BY <2>1, Zenon DEF get_data_pages_fails, requeue, prepared, ring_full, indexes,
                         backend
    <3> QED BY <1>1, <3>1, Zenon
  <2> QED BY <1>5, <2>1, GetMapped, ReleaseMapped, Zenon DEF Worker
<1>6. ASSUME NEW r \in Reqs, Completion(r) PROVE MapInv'
  <2>1. CASE complete(r) \/ end_inflight_req(r) \/ end_request(r)
    <3>1. still /\ removing' = removing /\ UNCHANGED <<iov, served>>
      BY <2>1, Zenon DEF complete, end_inflight_req, end_request, indexes, backend
    <3> QED BY <1>1, <3>1, Zenon
  <2> QED BY <1>6, <2>1, ReleaseMapped, Zenon DEF Completion
<1>7. CASE remove
  <2>1. still /\ removing' = TRUE /\ UNCHANGED <<iov, served>>
    BY <1>7, Zenon DEF remove, indexes, backend
  <2> QED BY <1>1, <2>1, Zenon
<1>8. CASE UNCHANGED vars
  <2>1. still /\ removing' = removing /\ UNCHANGED <<iov, served>>
    BY <1>8, Zenon DEF vars, indexes, backend
  <2> QED BY <1>1, <2>1, Zenon
<1> HIDE DEF still
<1> QED BY <1>2, <1>3, <1>4, <1>5, <1>6, <1>7, <1>8, EraseMapped, FreeMapped, FaultMapped,
           Zenon DEF Next

-----------------------------------------------------------------------------
(* The indexes and pages of the queue are shared out properly: no two      *)
(* bio_vecs use one index or page, the data of a request stays in its      *)
(* pages from ubbd_req_prepare to its completion, the iov of its command   *)
(* lead to them, and a fault that runs beside ubbd_release_page finds the  *)
(* page of its index or, after a forced removal, one that no index has.    *)
THEOREM DataInvariant == Spec => [](DataInv /\ MapInv)
<1>1. Init => DataInv /\ MapInv
  <2>1. Init => MapInv
    BY Zenon DEF Init, MapInv, RelInv, FaultInv, MaybePage
  <2> QED BY <2>1, DataInit, Zenon
<1>2. DataInv /\ MapInv /\ [Next]_vars => (DataInv /\ MapInv)'
  BY DataStep, MapStep, Zenon
<1> QED BY <1>1, <1>2, PTL DEF Spec

(* The backend's mapping of an index is the page the index has, although   *)
(* ubbd_vma_fault runs without pages_mutex between the unmapping, the      *)
(* erasing and the freeing of ubbd_release_page.  The mapping of an index  *)
(* is stale, or a page is taken after it was freed, only once a forced     *)
(* removal has ended commands that the backend still follows; the index is *)
(* then out of use and the page is not that of another index.              *)
THEOREM MappingCurrent == Spec => []PteCurrent
<1>1. MapInv => PteCurrent
  BY Zenon DEF MapInv, PteCurrent, Gone
<1> QED BY <1>1, DataInvariant, PTL

(* A completed READ has the backend's answer to its own command in the     *)
(* words of its bio_vecs and nowhere else, whatever the other requests do  *)
(* to the pages meanwhile; the memory of no other request is touched       *)
(* (copy_data_from_ubbdreq).                                               *)
THEOREM ReadsDelivered == Spec => []ReadDelivered
<1>1. DataInv => ReadDelivered
  <2> SUFFICES ASSUME DataInv, NEW r \in Reqs, NEW b \in BvecIndexes(r), NEW w \in Words
               PROVE  bio_mem[r][b][w] =
                        IF /\ op[r] = "READ" /\ pc[r] \in {"release", "ended"}
                           /\ result[r] = 0 /\ InBvec(r, b, w)
                        THEN Value("answer", r, b, w)
                        ELSE Value("bio", r, b, w)
    BY Zenon DEF ReadDelivered
  <2>1. bio_mem[r][b][w] = IF Done(r) /\ InBvec(r, b, w) THEN Value("answer", r, b, w)
                                                          ELSE Value("bio", r, b, w)
    BY Zenon DEF DataInv, Delivered
  <2> QED BY <2>1, Zenon DEF Done
<1> QED BY <1>1, DataInvariant, PTL

(* A WRITE that was completed has reached the backend whole and in order:  *)
(* copy_data_to_ubbdreq, ubbd_set_se_iov and ubbd_vma_fault agree on where *)
(* its words are, and nobody overwrites them.                              *)
THEOREM WritesDelivered == Spec => []WriteDelivered
<1>1. DataInv => WriteDelivered
  <2> SUFFICES ASSUME DataInv, NEW r \in Reqs,
                      op[r] = "WRITE", pc[r] = "release", result[r] = 0
               PROVE  got[r] = [b \in BvecIndexes(r) |->
                                   [k \in 0 .. Bvec(r, b).len - 1 |->
                                       Value("bio", r, b, Bvec(r, b).off + k)]]
    BY Zenon DEF WriteDelivered
  <2>1. served[r] = pi_cnt(r) /\ got[r] = [b \in 0 .. served[r] - 1 |-> Sent(r, b)]
    BY Zenon DEF DataInv, Local, GotRight
  <2> QED BY <2>1, Zenon DEF BvecIndexes, Sent
<1> QED BY <1>1, DataInvariant, PTL

(* The backend finds a page at every address of a command, unless a forced *)
(* removal has taken it (ubbd_queue_end_inflight_reqs releases the pages   *)
(* of a command that the backend may still be working on).                 *)
THEOREM NoSigbus == Spec => []SigbusOnlyRemoved
<1>1. DataInv => SigbusOnlyRemoved
  BY Zenon DEF DataInv
<1> QED BY <1>1, DataInvariant, PTL

=============================================================================
