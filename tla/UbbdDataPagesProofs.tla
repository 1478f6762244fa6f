------------------------ MODULE UbbdDataPagesProofs ------------------------
(***************************************************************************)
(* Proofs that requests do not share data pages, that every page index in  *)
(* use has a page and that the counter of pages is right until an update   *)
(* is lost, for every number of pages, requests and segments, every        *)
(* reserve and every width of the counter.                                 *)
(***************************************************************************)
EXTENDS UbbdDataPages, FiniteSetTheorems, TLAPS

PagesInv ==
    /\ pi \in [Reqs -> SUBSET Indexes]
    /\ PagesExclusive
    /\ OwnedHasPage

-----------------------------------------------------------------------------
(* A worker takes an index that nobody has. *)
LEMMA GetStep ==
    ASSUME PagesInv, NEW r \in Reqs, get_page(r)
    PROVE  PagesInv'
<1>1. PICK i \in Indexes :
        /\ i \notin data_bitmap
        /\ data_bitmap' = data_bitmap \cup {i}
        /\ data_pages_array' = data_pages_array \cup {i}
        /\ pi' = [pi EXCEPT ![r] = @ \cup {i}]
  BY Zenon DEF get_page, IsFirstZero
<1>2. leaked' = leaked
  BY Zenon DEF get_page
<1>3. /\ pi' \in [Reqs -> SUBSET Indexes]
      /\ pi'[r] = pi[r] \cup {i}
      /\ \A s \in Reqs \ {r} : pi'[s] = pi[s]
  BY <1>1, Zenon DEF PagesInv
<1>4. i \notin leaked /\ \A s \in Reqs : i \notin pi[s]
  BY <1>1, Zenon DEF PagesInv, PagesExclusive
<1>5. PagesExclusive'
  <2>1. \A s, t \in Reqs : s # t => pi'[s] \cap pi'[t] = {}
    BY <1>3, <1>4 DEF PagesInv, PagesExclusive
  <2>2. \A s \in Reqs : pi'[s] \cap leaked' = {}
    BY <1>2, <1>3, <1>4 DEF PagesInv, PagesExclusive
  <2>3. data_bitmap' = leaked' \cup UNION {pi'[s] : s \in Reqs}
    BY <1>1, <1>2, <1>3 DEF PagesInv, PagesExclusive
  <2> QED BY <2>1, <2>2, <2>3, Zenon DEF PagesExclusive
<1>6. OwnedHasPage'
  BY <1>1, Zenon DEF PagesInv, OwnedHasPage
<1> QED BY <1>3, <1>5, <1>6, Zenon DEF PagesInv

(* A release gives up one index of the request, and its page with it. *)
LEMMA ReleaseStep ==
    ASSUME PagesInv, NEW r \in Reqs, NEW i \in Indexes, ubbd_release_page(r, i)
    PROVE  PagesInv'
<1>1. /\ i \in pi[r]
      /\ data_bitmap' = data_bitmap \ {i}
      /\ data_pages_array' \in {data_pages_array, data_pages_array \ {i}}
      /\ pi' = [pi EXCEPT ![r] = @ \ {i}]
      /\ leaked' = leaked
  BY Zenon DEF ubbd_release_page, clear_bit
<1>2. /\ pi' \in [Reqs -> SUBSET Indexes]
      /\ pi'[r] = pi[r] \ {i}
      /\ \A s \in Reqs \ {r} : pi'[s] = pi[s]
  BY <1>1, Zenon DEF PagesInv
<1>3. i \notin leaked /\ \A s \in Reqs \ {r} : i \notin pi[s]
  BY <1>1, Zenon DEF PagesInv, PagesExclusive
<1>4. PagesExclusive'
  <2>1. \A s, t \in Reqs : s # t => pi'[s] \cap pi'[t] = {}
    BY <1>2, Zenon DEF PagesInv, PagesExclusive
  <2>2. \A s \in Reqs : pi'[s] \cap leaked' = {}
    BY <1>1, <1>2, Zenon DEF PagesInv, PagesExclusive
  <2>3. data_bitmap' = leaked' \cup UNION {pi'[s] : s \in Reqs}
    BY <1>1, <1>2, <1>3 DEF PagesInv, PagesExclusive
  <2> QED BY <2>1, <2>2, <2>3, Zenon DEF PagesExclusive
<1>5. OwnedHasPage'
  BY <1>1, Zenon DEF PagesInv, OwnedHasPage
<1> QED BY <1>2, <1>4, <1>5, Zenon DEF PagesInv

(* A full ring: the worker forgets its indexes, which stay in use. *)
LEMMA FullStep ==
    ASSUME PagesInv, NEW r \in Reqs, ring_full(r)
    PROVE  PagesInv'
<1>1. /\ leaked' = leaked \cup pi[r]
      /\ pi' = [pi EXCEPT ![r] = {}]
      /\ data_bitmap' = data_bitmap /\ data_pages_array' = data_pages_array
  BY Zenon DEF ring_full, pool
<1>2. /\ pi' \in [Reqs -> SUBSET Indexes]
      /\ pi'[r] = {}
      /\ \A s \in Reqs \ {r} : pi'[s] = pi[s]
  BY <1>1, Zenon DEF PagesInv
<1>3. PagesExclusive'
  <2>1. \A s, t \in Reqs : s # t => pi'[s] \cap pi'[t] = {}
    BY <1>2, Zenon DEF PagesInv, PagesExclusive
  <2>2. \A s \in Reqs : pi'[s] \cap leaked' = {}
    BY <1>1, <1>2, Zenon DEF PagesInv, PagesExclusive
  <2>3. data_bitmap' = leaked' \cup UNION {pi'[s] : s \in Reqs}
    BY <1>1, <1>2 DEF PagesInv, PagesExclusive
  <2> QED BY <2>1, <2>2, <2>3, Zenon DEF PagesExclusive
<1> QED BY <1>1, <1>2, <1>3, Zenon DEF PagesInv, OwnedHasPage

(* Every step preserves PagesInv. *)
LEMMA PagesStep == PagesInv /\ [Next]_vars => PagesInv'
<1> SUFFICES ASSUME PagesInv, [Next]_vars PROVE PagesInv'
  BY Zenon
<1>1. ASSUME UNCHANGED <<data_bitmap, data_pages_array, pi, leaked>> PROVE PagesInv'
  BY <1>1, Zenon DEF PagesInv, PagesExclusive, OwnedHasPage
<1>2. ASSUME NEW r \in Reqs, NEW n \in 0 .. MaxSegs, queue_req_prepare(r, n)
      PROVE  PagesInv'
  BY <1>1, <1>2, Zenon DEF queue_req_prepare, pool
<1>3. ASSUME NEW r \in Reqs, GetPages(r) PROVE PagesInv'
  BY <1>1, <1>3, GetStep, Zenon
     DEF GetPages, ubbd_alloc_page, get_page_fails, got_pages, out, pool
<1>4. ASSUME NEW r \in Reqs, Count(r) PROVE PagesInv'
  BY <1>1, <1>4, Zenon DEF Count, load_allocated, store_allocated, pool
<1>5. ASSUME NEW r \in Reqs, Request(r) PROVE PagesInv'
  BY <1>1, <1>5, FullStep, Zenon DEF Request, submit, complete_inflight_req, released, pool
<1>6. ASSUME NEW v \in Reserves, ubbd_dev_config(v) PROVE PagesInv'
  BY <1>1, <1>6, Zenon DEF ubbd_dev_config, pool
<1>7. CASE UNCHANGED vars
  BY <1>1, <1>7, Zenon DEF vars, pool
<1> QED BY <1>2, <1>3, <1>4, <1>5, <1>6, <1>7, ReleaseStep, Zenon DEF Next

(* The inductive invariant holds throughout. *)
THEOREM PagesInvariant == Spec => []PagesInv
<1>1. Init => PagesInv
  BY DEF Init, PagesInv, PagesExclusive, OwnedHasPage
<1> QED BY <1>1, PagesStep, PTL DEF Spec

(* No two requests share a page index, and the bitmap accounts for every   *)
(* one of them, the ones a full command ring leaks included.               *)
THEOREM NoPageShared == Spec => []PagesExclusive
<1>1. PagesInv => PagesExclusive
  BY Zenon DEF PagesInv
<1> QED BY <1>1, PagesInvariant, PTL

(* Every index in use has a page, whatever data_pages_allocated says, so   *)
(* the BUG_ON(!page) of the copy loops cannot fire.                        *)
THEOREM UsedIndexHasPage == Spec => []OwnedHasPage
<1>1. PagesInv => OwnedHasPage
  BY Zenon DEF PagesInv
<1> QED BY <1>1, PagesInvariant, PTL

-----------------------------------------------------------------------------
(* The pages without an index, and the threads that have yet to count a    *)
(* page they allocated or freed.                                           *)
NewPages == {r \in Reqs : new_page[r]}
Incs == {r \in Reqs : pc[r] = "inc"}
Decs == {r \in Reqs : pc[r] \in {"ok_dec", "dec", "rel_dec"}}

(* What the counter should say. *)
Balance == Cardinality(data_pages_array) + Cardinality(NewPages)
              - Cardinality(Incs) + Cardinality(Decs)

Places == Counting \cup {"idle", "get", "ok", "fail", "held", "submitted", "release"}

CountType ==
    /\ data_pages_array \subseteq Indexes
    /\ pc \in [Reqs -> Places]
    /\ new_page \in [Reqs -> BOOLEAN]

CountInv == CountType /\ (~lost => data_pages_allocated = Balance % U32)

(* Division with a remainder. *)
LEMMA DivMod ==
    ASSUME NEW k \in Int, NEW n \in Nat \ {0}
    PROVE  k = n * (k \div n) + (k % n) /\ k % n \in 0 .. n - 1 /\ k \div n \in Int
BY SMT, Zenon

(* The remainder is unique. *)
LEMMA ModUnique ==
    ASSUME NEW n \in Nat \ {0}, NEW a \in Int, NEW b \in Int,
           NEW r \in 0 .. n - 1, NEW s \in 0 .. n - 1, n * a + r = n * b + s
    PROVE  r = s
<1>1. n * (b - a) = r - s
  BY SMT, Zenon
<1>2. CASE b - a = 0
  BY <1>1, <1>2, SMT, Zenon
<1>3. CASE b - a >= 1
  <2>1. n * (b - a) >= n
    BY <1>3, SMT, Zenon
  <2> QED BY <2>1, <1>1, SMT, Zenon
<1>4. CASE b - a <= -1
  <2>1. n * (b - a) <= -n
    BY <1>4, SMT, Zenon
  <2> QED BY <2>1, <1>1, SMT, Zenon
<1> QED BY <1>2, <1>3, <1>4, SMT, Zenon

(* data_pages_allocated++ and -- at any value, wrapped or not. *)
LEMMA ModStep ==
    ASSUME NEW k \in Int, NEW n \in Nat \ {0}, NEW d \in Int
    PROVE  ((k % n) + d) % n = (k + d) % n
<1> DEFINE r == k % n  a == k \div n  s == (k + d) % n  b == (k + d) \div n
           t == (r + d) % n  c == (r + d) \div n
<1>1. k = n * a + r /\ r \in 0 .. n - 1 /\ a \in Int
  BY DivMod, Zenon
<1>2. k + d \in Int /\ r + d \in Int
  BY <1>1, SMT, Zenon
<1>3. k + d = n * b + s /\ s \in 0 .. n - 1 /\ b \in Int
  BY <1>2, DivMod, Zenon
<1>4. r + d = n * c + t /\ t \in 0 .. n - 1 /\ c \in Int
  BY <1>2, DivMod, Zenon
<1> SUFFICES t = s
  BY Zenon
<1> HIDE DEF r, a, s, b, t, c
<1>5. n * (a + c) + t = n * b + s
  BY <1>1, <1>3, <1>4, SMT, Zenon
<1>6. a + c \in Int
  BY <1>1, <1>4, SMT, Zenon
<1> QED BY <1>3, <1>4, <1>5, <1>6, ModUnique, Zenon

(* The sets that are counted are finite. *)
LEMMA CountedFinite ==
    ASSUME CountType
    PROVE  /\ IsFiniteSet(data_pages_array) /\ IsFiniteSet(NewPages)
           /\ IsFiniteSet(Incs) /\ IsFiniteSet(Decs)
           /\ Cardinality(data_pages_array) \in Nat /\ Cardinality(NewPages) \in Nat
           /\ Cardinality(Incs) \in Nat /\ Cardinality(Decs) \in Nat
<1>1. IsFiniteSet(Indexes)
  BY PagesAssumption, FS_Interval DEF Indexes
<1>2. /\ IsFiniteSet(data_pages_array) /\ IsFiniteSet(NewPages)
      /\ IsFiniteSet(Incs) /\ IsFiniteSet(Decs)
  BY <1>1, PagesAssumption, FS_Subset, Zenon DEF CountType, NewPages, Incs, Decs
<1> QED BY <1>2, FS_CardinalityType, Zenon

Bit(b) == IF b THEN 1 ELSE 0

(* Two sets that differ at most in r. *)
LEMMA CountMove ==
    ASSUME NEW S, IsFiniteSet(S), NEW T, NEW r, \A x : x # r => (x \in T <=> x \in S)
    PROVE  Cardinality(T) = Cardinality(S) + Bit(r \in T) - Bit(r \in S)
<1>0. Cardinality(S) \in Nat
  BY FS_CardinalityType, Zenon
<1>1. CASE r \in T <=> r \in S
  <2>1. T = S
    <3>1. \A x : x \in T <=> x \in S
      BY <1>1, Zenon
    <3> QED BY <3>1, Zenon
  <2> QED BY <1>0, <2>1 DEF Bit
<1>2. CASE r \in T /\ r \notin S
  <2>1. T = S \cup {r}
    BY <1>2, Zenon
  <2>2. Cardinality(T) = Cardinality(S) + 1
    BY <1>2, <2>1, FS_AddElement, Zenon
  <2> QED BY <1>0, <1>2, <2>2 DEF Bit
<1>3. CASE r \notin T /\ r \in S
  <2>1. T = S \ {r}
    BY <1>3, Zenon
  <2>2. Cardinality(T) = Cardinality(S) - 1
    BY <1>3, <2>1, FS_RemoveElement, Zenon
  <2> QED BY <1>0, <1>3, <2>2 DEF Bit
<1> QED BY <1>1, <1>2, <1>3, Zenon

(* The thread of request r moves to place l, new_page becomes b, and the   *)
(* pages that have an index change at most at i.                           *)
Moves(r, l, b, i) ==
    /\ pc' = [pc EXCEPT ![r] = l]
    /\ new_page' = [new_page EXCEPT ![r] = b]
    /\ data_pages_array' \subseteq Indexes
    /\ \A x : x # i => (x \in data_pages_array' <=> x \in data_pages_array)

Minus(l) == l \in {"ok_dec", "dec", "rel_dec"}

(* By how much that changes the balance. *)
Change(r, l, b, i) ==
    (Bit(i \in data_pages_array') - Bit(i \in data_pages_array)) + (Bit(b) - Bit(new_page[r]))
       - (Bit(l = "inc") - Bit(pc[r] = "inc")) + (Bit(Minus(l)) - Bit(Minus(pc[r])))

LEMMA BalanceMove ==
    ASSUME CountType, NEW r \in Reqs, NEW l \in Places, NEW b \in BOOLEAN, NEW i,
           Moves(r, l, b, i)
    PROVE  /\ CountType' /\ Balance \in Int
           /\ Balance' = Balance + Change(r, l, b, i)
<1>1. CountType'
  BY Zenon DEF CountType, Moves
<1>2. /\ pc'[r] = l /\ new_page'[r] = b
      /\ \A x \in Reqs : x # r => pc'[x] = pc[x] /\ new_page'[x] = new_page[x]
  BY Zenon DEF CountType, Moves
<1>3. Cardinality(data_pages_array') = Cardinality(data_pages_array)
         + Bit(i \in data_pages_array') - Bit(i \in data_pages_array)
  BY CountedFinite, CountMove, Zenon DEF Moves
<1>4. Cardinality(NewPages') = Cardinality(NewPages) + Bit(b) - Bit(new_page[r])
  <2>1. /\ \A x : x # r => (x \in NewPages' <=> x \in NewPages)
        /\ r \in NewPages' <=> b
        /\ r \in NewPages <=> new_page[r]
    BY <1>2, Zenon DEF NewPages
  <2>2. Cardinality(NewPages') = Cardinality(NewPages) + Bit(r \in NewPages') - Bit(r \in NewPages)
    BY <2>1, CountedFinite, CountMove
  <2> QED BY <2>1, <2>2, Zenon DEF Bit
<1>5. Cardinality(Incs') = Cardinality(Incs) + Bit(l = "inc") - Bit(pc[r] = "inc")
  <2>1. /\ \A x : x # r => (x \in Incs' <=> x \in Incs)
        /\ r \in Incs' <=> l = "inc"
        /\ r \in Incs <=> pc[r] = "inc"
    BY <1>2, Zenon DEF Incs
  <2>2. Cardinality(Incs') = Cardinality(Incs) + Bit(r \in Incs') - Bit(r \in Incs)
    BY <2>1, CountedFinite, CountMove
  <2> QED BY <2>1, <2>2, Zenon DEF Bit
<1>6. Cardinality(Decs') = Cardinality(Decs) + Bit(Minus(l))
         - Bit(Minus(pc[r]))
  <2>1. /\ \A x : x # r => (x \in Decs' <=> x \in Decs)
        /\ r \in Decs' <=> Minus(l)
        /\ r \in Decs <=> Minus(pc[r])
    BY <1>2, Zenon DEF Decs, Minus
  <2>2. Cardinality(Decs') = Cardinality(Decs) + Bit(r \in Decs') - Bit(r \in Decs)
    BY <2>1, CountedFinite, CountMove
  <2> QED BY <2>1, <2>2, Zenon DEF Bit
<1> QED BY <1>1, <1>3, <1>4, <1>5, <1>6, CountedFinite DEF Balance, Change, Bit

(* A step that moves pages and threads but not the counter. *)
LEMMA SilentStep ==
    ASSUME CountInv, NEW r \in Reqs, NEW l \in Places, NEW b \in BOOLEAN, NEW i,
           Moves(r, l, b, i), Change(r, l, b, i) = 0,
           UNCHANGED <<data_pages_allocated, lost>>
    PROVE  CountInv'
<1>1. CountType
  BY Zenon DEF CountInv
<1>2. CountType' /\ Balance \in Int /\ Balance' = Balance + 0
  BY <1>1, BalanceMove, Zenon
<1>3. Balance' = Balance
  BY <1>2
<1> QED BY <1>2, <1>3, Zenon DEF CountInv

(* A step of a thread that neither allocates nor frees a page. *)
LEMMA PlainStep ==
    ASSUME CountInv, NEW r \in Reqs, NEW l \in Places \ Counting,
           pc[r] \notin Counting, Goto(r, l),
           UNCHANGED <<new_page, data_pages_array, data_pages_allocated, lost>>
    PROVE  CountInv'
<1>1. new_page[r] \in BOOLEAN /\ Moves(r, l, new_page[r], r)
  BY Zenon DEF CountInv, CountType, Moves, Goto
<1>2. Change(r, l, new_page[r], r) = 0
  BY <1>1 DEF Change, Bit, Counting, Minus
<1>3. l \in Places
  BY Zenon
<1> QED BY <1>1, <1>2, <1>3, SilentStep, Zenon

(* A worker takes a page: the one at the index, or its new one. *)
LEMMA GetCount ==
    ASSUME CountInv, NEW r \in Reqs, get_page(r)
    PROVE  CountInv'
<1>1. PICK i \in Indexes :
        /\ i \in data_pages_array \/ new_page[r]
        /\ data_pages_array' = data_pages_array \cup {i}
        /\ new_page' = [new_page EXCEPT ![r] = @ /\ i \in data_pages_array]
  BY Zenon DEF get_page
<1>2. /\ pc[r] = "get" /\ "get" \in Places /\ UNCHANGED <<pc, data_pages_allocated, lost>>
      /\ new_page[r] \in BOOLEAN
  BY Zenon DEF get_page, CountInv, CountType, Places, counter
<1>3. PICK b \in BOOLEAN : b <=> (new_page[r] /\ i \in data_pages_array)
  BY Zenon
<1>4. Moves(r, "get", b, i)
  <2>1. pc' = [pc EXCEPT ![r] = "get"] /\ data_pages_array' \subseteq Indexes
    BY <1>1, <1>2, Zenon DEF CountInv, CountType
  <2>2. new_page' = [new_page EXCEPT ![r] = b]
    BY <1>1, <1>2, <1>3, Zenon DEF CountInv, CountType
  <2>3. \A x : x # i => (x \in data_pages_array' <=> x \in data_pages_array)
    BY <1>1, Zenon
  <2> QED BY <2>1, <2>2, <2>3, Zenon DEF Moves
<1>5. Change(r, "get", b, i) = 0
  <2>1. i \in data_pages_array'
    BY <1>1, Zenon
  <2>2. CASE i \in data_pages_array
    BY <1>2, <1>3, <2>1, <2>2 DEF Change, Bit, Minus
  <2>3. CASE i \notin data_pages_array
    BY <1>1, <1>2, <1>3, <2>1, <2>3 DEF Change, Bit, Minus
  <2> QED BY <2>2, <2>3, Zenon
<1> QED BY <1>2, <1>4, <1>5, SilentStep, Zenon

(* ubbd_alloc_page allocates a page, to be counted at inc. *)
LEMMA AllocCount ==
    ASSUME CountInv, NEW r \in Reqs, ubbd_alloc_page(r)
    PROVE  CountInv'
<1>1. /\ pc[r] = "get" /\ ~new_page[r]
      /\ UNCHANGED <<data_pages_array, data_pages_allocated, lost>>
      /\ data_pages_array' \subseteq Indexes
      /\ "inc" \in Places /\ "fail" \in Places \ Counting /\ pc[r] \notin Counting
  BY Zenon DEF ubbd_alloc_page, pool, counter, CountInv, CountType, Places, Counting
<1>2. CASE new_page' = [new_page EXCEPT ![r] = TRUE] /\ Goto(r, "inc")
  <2>1. Moves(r, "inc", TRUE, r)
    BY <1>1, <1>2, Zenon DEF Moves, Goto
  <2>2. Change(r, "inc", TRUE, r) = 0
    BY <1>1 DEF Change, Bit, Minus
  <2> QED BY <1>1, <2>1, <2>2, SilentStep, Zenon
<1>3. CASE UNCHANGED new_page /\ Goto(r, "fail")
  BY <1>1, <1>3, PlainStep, Zenon
<1> QED BY <1>2, <1>3, Zenon DEF ubbd_alloc_page

(* The out label frees a new page that was not used, to be counted. *)
LEMMA OutCount ==
    ASSUME CountInv, NEW r \in Reqs, out(r)
    PROVE  CountInv'
<1>1. /\ pc[r] \in {"ok", "fail"}
      /\ new_page' = [new_page EXCEPT ![r] = FALSE] /\ new_page[r] \in BOOLEAN
      /\ UNCHANGED <<data_pages_array, data_pages_allocated, lost>>
      /\ data_pages_array' \subseteq Indexes
  BY Zenon DEF out, pool, counter, CountInv, CountType
<1>2. PICK l : Goto(r, l) /\ l = IF pc[r] = "ok" THEN IF new_page[r] THEN "ok_dec" ELSE "held"
                                ELSE IF new_page[r] THEN "dec" ELSE "release"
  BY Zenon DEF out
<1>3. l \in Places /\ (Minus(l) <=> new_page[r]) /\ l # "inc"
  BY <1>1, <1>2, Zenon DEF Places, Counting, Minus
<1>4. Moves(r, l, FALSE, r)
  BY <1>1, <1>2, Zenon DEF Moves, Goto
<1>5. Change(r, l, FALSE, r) = 0
  BY <1>1, <1>3 DEF Change, Bit, Minus
<1> QED BY <1>1, <1>3, <1>4, <1>5, SilentStep, Zenon

(* ubbd_release_page frees the page of an index, to be counted under the   *)
(* mutex, or keeps it.                                                     *)
LEMMA ReleaseCount ==
    ASSUME CountInv, NEW r \in Reqs, NEW i \in Indexes, ubbd_release_page(r, i)
    PROVE  CountInv'
<1>1. /\ pc[r] = "release" /\ pc[r] \notin Counting /\ "rel_dec" \in Places
      /\ pc[r] \in Places \ Counting
      /\ UNCHANGED <<new_page, data_pages_allocated, lost>>
      /\ new_page[r] \in BOOLEAN /\ new_page' = [new_page EXCEPT ![r] = new_page[r]]
  BY Zenon DEF ubbd_release_page, counter, CountInv, CountType, Places, Counting
<1>2. CASE UNCHANGED <<data_pages_array, pages_mutex, pc>>
  <2>1. Goto(r, pc[r])
    BY <1>2, Zenon DEF CountInv, CountType, Goto
  <2> QED BY <1>1, <1>2, <2>1, PlainStep, Zenon
<1>3. CASE /\ i \in data_pages_array
           /\ data_pages_array' = data_pages_array \ {i}
           /\ Goto(r, "rel_dec")
  <2>1. /\ data_pages_array' \subseteq Indexes
        /\ \A x : x # i => (x \in data_pages_array' <=> x \in data_pages_array)
    BY <1>3, Zenon DEF CountInv, CountType
  <2>2. Moves(r, "rel_dec", new_page[r], i)
    BY <1>1, <1>3, <2>1, Zenon DEF Moves, Goto
  <2>3. Change(r, "rel_dec", new_page[r], i) = 0
    BY <1>1, <1>3 DEF Change, Bit, Minus
  <2> QED BY <1>1, <2>2, <2>3, SilentStep, Zenon
<1> QED BY <1>2, <1>3, Zenon DEF ubbd_release_page

(* The store: unless another update came between, it counts one page. *)
LEMMA StoreCount ==
    ASSUME CountInv, NEW r \in Reqs, store_allocated(r)
    PROVE  CountInv'
<1> DEFINE d == IF pc[r] = "inc" THEN 1 ELSE -1
<1>1. PICK l : l = After[pc[r]] /\ Goto(r, l)
  BY Zenon DEF store_allocated
<1>2. /\ CountType /\ new_page[r] \in BOOLEAN
      /\ pc[r] \in Counting /\ l \in Places /\ l # "inc" /\ ~Minus(l)
  BY <1>1 DEF store_allocated, CountInv, CountType, Places, Counting, After, Minus
<1>3. Moves(r, l, new_page[r], r)
  BY <1>1, Zenon DEF store_allocated, pool, CountInv, CountType, Moves, Goto
<1>4. Change(r, l, new_page[r], r) = d
  <2>1. data_pages_array' = data_pages_array
    BY Zenon DEF store_allocated, pool
  <2> QED BY <1>2, <2>1 DEF Change, Bit, Minus, Counting
<1>5. CountType' /\ Balance \in Int /\ Balance' = Balance + d
  BY <1>2, <1>3, <1>4, BalanceMove, Zenon
<1>6. ASSUME ~lost' PROVE data_pages_allocated' = Balance' % U32
  <2>1. /\ tmp[r] = Balance % U32
        /\ data_pages_allocated' = Counted(pc[r], Balance % U32)
    BY <1>6, Zenon DEF store_allocated, CountInv
  <2>2. Balance % U32 \in Int /\ d \in Int /\ U32 \in Nat \ {0}
    BY <1>5, PagesAssumption
  <2>3. data_pages_allocated' = ((Balance % U32) + d) % U32
    <3>1. CASE pc[r] = "inc"
      BY <2>1, <3>1, Zenon DEF Counted
    <3>2. CASE pc[r] # "inc"
      <4>1. data_pages_allocated' = ((Balance % U32) - 1) % U32
        BY <2>1, <3>2, Zenon DEF Counted
      <4>2. (Balance % U32) - 1 = (Balance % U32) + d
        BY <2>2, <3>2, Zenon
      <4> QED BY <4>1, <4>2, Zenon
    <3> QED BY <3>1, <3>2, Zenon
  <2> HIDE DEF d
  <2>4. ((Balance % U32) + d) % U32 = (Balance + d) % U32
    BY <1>5, <2>2, ModStep, Zenon
  <2> QED BY <1>5, <2>3, <2>4, Zenon
<1> QED BY <1>5, <1>6, Zenon DEF CountInv

(* Every step preserves CountInv. *)
LEMMA CountStep == CountInv /\ [Next]_vars => CountInv'
<1> SUFFICES ASSUME CountInv, [Next]_vars PROVE CountInv'
  OBVIOUS
<1>1. ASSUME UNCHANGED <<pc, new_page, data_pages_array, data_pages_allocated, lost>>
      PROVE  CountInv'
  BY <1>1, Zenon DEF CountInv, CountType, Balance, NewPages, Incs, Decs
<1>2. ASSUME NEW r \in Reqs, NEW n \in 0 .. MaxSegs, queue_req_prepare(r, n)
      PROVE  CountInv'
  BY <1>2, PlainStep, Zenon DEF queue_req_prepare, pool, counter, Goto, Places, Counting
<1>3. ASSUME NEW r \in Reqs, GetPages(r) PROVE CountInv'
  <2>1. CASE get_page_fails(r)
    BY <2>1, PlainStep, Zenon DEF get_page_fails, pool, counter, Goto, Places, Counting
  <2>2. CASE got_pages(r)
    BY <2>2, PlainStep, Zenon DEF got_pages, pool, counter, Goto, Places, Counting
  <2> QED BY <1>3, <2>1, <2>2, GetCount, AllocCount, OutCount, Zenon DEF GetPages
<1>4. ASSUME NEW r \in Reqs, Count(r) PROVE CountInv'
  <2>1. CASE load_allocated(r)
    BY <1>1, <2>1, Zenon DEF load_allocated, pool, counter
  <2> QED BY <1>4, <2>1, StoreCount, Zenon DEF Count
<1>5. ASSUME NEW r \in Reqs, Request(r) PROVE CountInv'
  <2>1. CASE submit(r)
    BY <2>1, PlainStep, Zenon DEF submit, pool, counter, Goto, Places, Counting
  <2>2. CASE ring_full(r)
    BY <2>2, PlainStep, Zenon DEF ring_full, pool, counter, Goto, Places, Counting
  <2>3. CASE complete_inflight_req(r)
    BY <2>3, PlainStep, Zenon DEF complete_inflight_req, pool, counter, Goto, Places, Counting
  <2>4. CASE released(r)
    BY <2>4, PlainStep, Zenon DEF released, pool, counter, Goto, Places, Counting
  <2> QED BY <1>5, <2>1, <2>2, <2>3, <2>4, Zenon DEF Request
<1>6. ASSUME NEW v \in Reserves, ubbd_dev_config(v) PROVE CountInv'
  BY <1>1, <1>6, Zenon DEF ubbd_dev_config, pool
<1>7. CASE UNCHANGED vars
  BY <1>1, <1>7, Zenon DEF vars, pool, counter
<1> QED BY <1>2, <1>3, <1>4, <1>5, <1>6, <1>7, ReleaseCount DEF Next

(* The counter is the number of pages, less those that were allocated but  *)
(* not counted yet, plus those that were freed but not counted yet, modulo *)
(* 2^32, until two unlocked updates of it overlap.                         *)
THEOREM CountInvariant == Spec => []CountInv
<1>1. Init => CountInv
  <2> SUFFICES ASSUME Init PROVE CountInv
    BY Zenon
  <2>1. CountType
    BY Zenon DEF Init, CountType, Places
  <2>2. data_pages_array = {} /\ NewPages = {} /\ Incs = {} /\ Decs = {}
    BY Zenon DEF Init, NewPages, Incs, Decs
  <2>3. Balance = 0
    BY <2>2, FS_EmptySet DEF Balance
  <2>4. 0 % U32 = 0
    BY PagesAssumption
  <2> QED BY <2>1, <2>3, <2>4, Zenon DEF Init, CountInv
<1> QED BY <1>1, CountStep, PTL DEF Spec

(* data_pages_allocated is right whenever no thread is about to change it  *)
(* and no update was lost: every path of ubbd_get_data_pages and           *)
(* ubbd_release_page, the failures included, counts a page once.           *)
THEOREM CounterRight == Spec => []CountExact
<1>1. CountInv => CountExact
  <2> SUFFICES ASSUME CountInv, ~lost, \A r \in Reqs : Quiet(r)
               PROVE  data_pages_allocated = PagesInUse % U32
    BY Zenon DEF CountExact
  <2>1. Incs = {} /\ Decs = {}
    BY Zenon DEF Quiet, Counting, Incs, Decs
  <2>2. Balance = PagesInUse
    BY <2>1, FS_EmptySet, CountedFinite DEF Balance, PagesInUse, NewPages, CountInv
  <2> QED BY <2>2, Zenon DEF CountInv
<1> QED BY <1>1, CountInvariant, PTL

=============================================================================
