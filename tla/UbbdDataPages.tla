---------------------------- MODULE UbbdDataPages ----------------------------
(***************************************************************************)
(* The data pages of one queue: data_bitmap says which page indexes are in *)
(* use, data_pages_array (an xarray) which of them have a page.  Workers   *)
(* take pages in ubbd_get_data_pages, completions give them back in        *)
(* ubbd_req_release; both work index by index under pages_mutex.           *)
(*                                                                         *)
(* data_pages_allocated is a plain u32.  ubbd_alloc_page and some calls of *)
(* __ubbd_release_page change it without pages_mutex, so every ++ and --   *)
(* is a load and a later store, and updates can be lost.                   *)
(***************************************************************************)
EXTENDS Integers, FiniteSets

CONSTANTS
    data_pages,   \* number of page indexes of the queue
    Reqs,         \* requests of the queue
    MaxSegs,      \* bound: segments of a request
    Reserves,     \* values ubbd_dev_config can give data_pages_reserved
    U32,          \* the modulus of u32 arithmetic
    NoOwner       \* pages_mutex is free

ASSUME PagesAssumption ==
    /\ data_pages \in Nat
    /\ MaxSegs \in Nat
    /\ Reserves # {} /\ Reserves \subseteq Nat
    /\ U32 \in Nat \ {0}
    /\ IsFiniteSet(Reqs) /\ NoOwner \notin Reqs

VARIABLES
    data_bitmap,           \* indexes whose bit is set
    data_pages_array,      \* indexes that have a page
    data_pages_allocated,
    data_pages_reserved,
    pages_mutex,
    pc,         \* pc[r]: where the thread that works on r is
    want,       \* want[r]: segments of r that still need a page
    pi,         \* pi[r]: ubbd_req->pi, the indexes r holds
    new_page,   \* new_page[r]: r's worker holds a page without an index
    tmp,        \* tmp[r]: data_pages_allocated as the thread loaded it
    leaked,     \* history: indexes given up without being released
    lost        \* history: an update of data_pages_allocated was lost

counter == <<data_pages_allocated, data_pages_reserved, lost>>
pool == <<data_bitmap, data_pages_array>>
vars == <<counter, pool, pages_mutex, pc, want, pi, new_page, tmp, leaked>>

Indexes == 0 .. data_pages - 1

(* Where a thread is: idle; in ubbd_get_data_pages: get, inc (++ in        *)
(* ubbd_alloc_page), ok or fail, ok_dec or dec (-- without the mutex);     *)
(* held: prepared; submitted: in the ring; in ubbd_release_page: release,  *)
(* rel_dec (-- under the mutex).                                           *)
Counting == {"inc", "ok_dec", "dec", "rel_dec"}

(* Where a thread goes on after it has changed data_pages_allocated. *)
After == [inc |-> "get", ok_dec |-> "held", dec |-> "release", rel_dec |-> "release"]

NotLoaded == -1

Goto(r, l) == pc' = [pc EXCEPT ![r] = l]

-----------------------------------------------------------------------------
Init ==
    /\ data_bitmap = {}
    /\ data_pages_array = {}
    /\ data_pages_allocated = 0
    /\ data_pages_reserved \in Reserves
    /\ pages_mutex = NoOwner
    /\ pc = [r \in Reqs |-> "idle"]
    /\ want = [r \in Reqs |-> 0]
    /\ pi = [r \in Reqs |-> {}]
    /\ new_page = [r \in Reqs |-> FALSE]
    /\ tmp = [r \in Reqs |-> NotLoaded]
    /\ leaked = {} /\ lost = FALSE

(* queue_req_prepare calls ubbd_get_data_pages for a request of n segments. *)
queue_req_prepare(r, n) ==
    /\ pc[r] = "idle"
    /\ Goto(r, "get")
    /\ want' = [want EXCEPT ![r] = n]
    /\ UNCHANGED <<counter, pool, pages_mutex, pi, new_page, tmp, leaked>>

(* find_first_zero_bit *)
IsFirstZero(i) ==
    /\ i \in Indexes \ data_bitmap
    /\ \A j \in Indexes \ data_bitmap : i <= j

(* The section of ubbd_get_data_pages under pages_mutex finds a free index *)
(* and a page for it: the one already there, or the new one.               *)
get_page(r) ==
    /\ pc[r] = "get" /\ want[r] > 0
    /\ pages_mutex = NoOwner
    /\ \E i \in Indexes :
          /\ IsFirstZero(i)
          /\ i \in data_pages_array \/ new_page[r]
          /\ data_bitmap' = data_bitmap \cup {i}
          /\ data_pages_array' = data_pages_array \cup {i}
          /\ new_page' = [new_page EXCEPT ![r] = @ /\ i \in data_pages_array]
          /\ pi' = [pi EXCEPT ![r] = @ \cup {i}]
    /\ want' = [want EXCEPT ![r] = @ - 1]
    /\ UNCHANGED <<counter, pages_mutex, pc, tmp, leaked>>

(* The index has no page and there is no new one: ubbd_alloc_page. *)
ubbd_alloc_page(r) ==
    /\ pc[r] = "get" /\ want[r] > 0
    /\ pages_mutex = NoOwner
    /\ ~new_page[r]
    /\ \E i \in Indexes : IsFirstZero(i) /\ i \notin data_pages_array
    /\ \/ new_page' = [new_page EXCEPT ![r] = TRUE] /\ Goto(r, "inc")
       \/ UNCHANGED new_page /\ Goto(r, "fail")
    /\ UNCHANGED <<counter, pool, pages_mutex, want, pi, tmp, leaked>>

(* No free index; or xa_store fails, and the new page is released. *)
get_page_fails(r) ==
    /\ pc[r] = "get" /\ want[r] > 0
    /\ pages_mutex = NoOwner
    /\ \/ data_bitmap = Indexes
       \/ new_page[r] /\ \E i \in Indexes : IsFirstZero(i) /\ i \notin data_pages_array
    /\ Goto(r, "fail")
    /\ UNCHANGED <<counter, pool, pages_mutex, want, pi, new_page, tmp,
                   leaked>>

got_pages(r) ==
    /\ pc[r] = "get" /\ want[r] = 0
    /\ Goto(r, "ok")
    /\ UNCHANGED <<counter, pool, pages_mutex, want, pi, new_page, tmp,
                   leaked>>

(* Mutant: an unused new page is freed but not counted after an error. *)
Bug_out(r) ==
    /\ pc[r] \in {"ok", "fail"}
    /\ new_page' = [new_page EXCEPT ![r] = FALSE]
    /\ Goto(r, IF pc[r] = "fail" THEN "release"
               ELSE IF new_page[r] THEN "ok_dec" ELSE "held")
    /\ UNCHANGED <<counter, pool, pages_mutex, want, pi, tmp, leaked>>

(* The out label: a new page that was not used is released, then the pages *)
(* are either kept or, after an error, released one by one.                *)
out(r) ==
    /\ pc[r] \in {"ok", "fail"}
    /\ new_page' = [new_page EXCEPT ![r] = FALSE]
    /\ Goto(r, IF pc[r] = "ok" THEN IF new_page[r] THEN "ok_dec" ELSE "held"
                               ELSE IF new_page[r] THEN "dec" ELSE "release")
    /\ UNCHANGED <<counter, pool, pages_mutex, want, pi, tmp, leaked>>

(* data_pages_allocated++ and --: the load ...                             *)
load_allocated(r) ==
    /\ pc[r] \in Counting /\ tmp[r] = NotLoaded
    /\ tmp' = [tmp EXCEPT ![r] = data_pages_allocated]
    /\ UNCHANGED <<counter, pool, pages_mutex, pc, want, pi, new_page,
                   leaked>>

Counted(l, n) == (IF l = "inc" THEN n + 1 ELSE n - 1) % U32

(* ... and the store; in ubbd_release_page it is followed by the unlock.   *)
store_allocated(r) ==
    /\ pc[r] \in Counting /\ tmp[r] # NotLoaded
    /\ data_pages_allocated' = Counted(pc[r], tmp[r])
    /\ lost' = (lost \/ tmp[r] # data_pages_allocated)
    /\ tmp' = [tmp EXCEPT ![r] = NotLoaded]
    /\ Goto(r, After[pc[r]])
    /\ pages_mutex' = IF pc[r] = "rel_dec" THEN NoOwner ELSE pages_mutex
    /\ UNCHANGED <<data_pages_reserved, pool, want, pi, new_page, leaked>>

(* Mutant: the bit stays set. *)
Bug_clear_bit(i) == UNCHANGED data_bitmap

clear_bit(i) == data_bitmap' = data_bitmap \ {i}

AboveReserve == data_pages_allocated > data_pages_reserved

(* ubbd_release_page for one index of r: clear the bit and, above the      *)
(* reserve, free the page (UbbdDataPath models the unmapping).             *)
ubbd_release_page(r, i) ==
    /\ pc[r] = "release"
    /\ pages_mutex = NoOwner
    /\ i \in pi[r]
    /\ clear_bit(i)
    /\ pi' = [pi EXCEPT ![r] = @ \ {i}]
    /\ \/ /\ AboveReserve
          /\ i \in data_pages_array
          /\ data_pages_array' = data_pages_array \ {i}
          /\ pages_mutex' = r
          /\ Goto(r, "rel_dec")
       \/ /\ ~AboveReserve \/ i \notin data_pages_array
          /\ UNCHANGED <<data_pages_array, pages_mutex, pc>>
    /\ UNCHANGED <<counter, want, new_page, tmp, leaked>>

(* All pages are released: the request ends, or was requeued. *)
released(r) ==
    /\ pc[r] = "release" /\ pi[r] = {}
    /\ Goto(r, "idle")
    /\ UNCHANGED <<counter, pool, pages_mutex, want, pi, new_page, tmp,
                   leaked>>

(* The worker of a prepared request finds space in the command ring. *)
submit(r) ==
    /\ pc[r] = "held"
    /\ Goto(r, "submitted")
    /\ UNCHANGED <<counter, pool, pages_mutex, want, pi, new_page, tmp,
                   leaked>>

(* It finds none: the request is requeued and the next ubbd_queue_rq       *)
(* clears ubbd_req with its pi.  Nothing releases the pages.               *)
ring_full(r) ==
    /\ pc[r] = "held"
    /\ Goto(r, "idle")
    /\ leaked' = leaked \cup pi[r]
    /\ pi' = [pi EXCEPT ![r] = {}]
    /\ UNCHANGED <<counter, pool, pages_mutex, want, new_page, tmp>>

(* complete_inflight_req, by a completion or a forced removal. *)
complete_inflight_req(r) ==
    /\ pc[r] = "submitted"
    /\ Goto(r, "release")
    /\ UNCHANGED <<counter, pool, pages_mutex, want, pi, new_page, tmp,
                   leaked>>

(* ubbd_dev_config writes the reserve without pages_mutex. *)
ubbd_dev_config(v) ==
    /\ data_pages_reserved' = v
    /\ UNCHANGED <<data_pages_allocated, lost, pool, pages_mutex, pc, want,
                   pi, new_page, tmp, leaked>>

-----------------------------------------------------------------------------
GetPages(r) ==
    get_page(r) \/ ubbd_alloc_page(r) \/ get_page_fails(r) \/ got_pages(r) \/ out(r)

Count(r) == load_allocated(r) \/ store_allocated(r)

Request(r) == submit(r) \/ ring_full(r) \/ complete_inflight_req(r) \/ released(r)

Next ==
    \/ \E r \in Reqs, n \in 0 .. MaxSegs : queue_req_prepare(r, n)
    \/ \E r \in Reqs : GetPages(r) \/ Count(r) \/ Request(r)
    \/ \E r \in Reqs, i \in Indexes : ubbd_release_page(r, i)
    \/ \E v \in Reserves : ubbd_dev_config(v)

Spec == Init /\ [][Next]_vars

-----------------------------------------------------------------------------
(* No two requests share a page, and the bitmap is exact: a bit is set if  *)
(* and only if a request holds the index or a full command ring made its   *)
(* worker forget it (workfn takes pages, then finds no ring space).        *)
PagesExclusive ==
    /\ \A r, s \in Reqs : r # s => pi[r] \cap pi[s] = {}
    /\ \A r \in Reqs : pi[r] \cap leaked = {}
    /\ data_bitmap = leaked \cup UNION {pi[r] : r \in Reqs}

(* An index that is in use has a page, so the BUG_ON(!page) in             *)
(* copy_data_to_ubbdreq and copy_data_from_ubbdreq cannot fire, and the    *)
(* backend's fault on it finds a page.  Freeing by other requests, steered *)
(* by a counter that loses updates, never hits it.                         *)
OwnedHasPage == data_bitmap \subseteq data_pages_array

Quiet(r) == pc[r] \notin Counting

(* The number of pages there really are. *)
PagesInUse == Cardinality(data_pages_array) + Cardinality({r \in Reqs : new_page[r]})

(* The counter is right until two unlocked updates of it overlap: every    *)
(* allocation and release is counted once on each path, errors included,   *)
(* and the loss of an update is the only thing that spoils it.             *)
CountExact ==
    ~lost /\ (\A r \in Reqs : Quiet(r)) => data_pages_allocated = PagesInUse % U32

=============================================================================
