---------------------------- MODULE UbbdDataPath ----------------------------
(***************************************************************************)
(* The way of the data of a request between the memory of its bios and the *)
(* backend: the data pages it is copied through, the page indexes kept in  *)
(* inline_pi and pi, the addresses in the iov of the command, and the      *)
(* mapping through which the backend follows them.                         *)
(*                                                                         *)
(* Pages have an identity here and hold words, each an abstract value.     *)
(* What data_pages_allocated decides, whether a released page is freed or  *)
(* kept for its index, is left open: the counter can be wrong              *)
(* (UbbdDataPages).  Completions are as UbbdComplRing shows them: each     *)
(* command is completed by its own answer, once.                           *)
(***************************************************************************)
EXTENDS Integers, Sequences, FiniteSetsExt

CONSTANTS
    data_pages,     \* number of page indexes of the queue
    Phys,           \* pages of the kernel
    NoPage,         \* no page: an empty slot of the xarray, an absent pte
    Reqs,           \* requests (tags) of the queue
    Bios,           \* what a request may consist of: bios of segments
    PAGE_SIZE,      \* in words
    SZ_4K,          \* the number 4096 in ubbd_release_page, in the same unit
    RING_SIZE,      \* size of the rings, in words: where data begins
    INLINE_PI_MAX,  \* UBBD_REQ_INLINE_PI_MAX
    U32,            \* 2 ^ 32, the modulus of int and unsigned int
    MaxUses         \* bound: requests in all

ASSUME DataAssumption ==
    /\ data_pages \in Nat /\ MaxUses \in Nat
    /\ NoPage \notin Phys
    /\ PAGE_SIZE \in Nat \ {0} /\ INLINE_PI_MAX \in Nat
    /\ RING_SIZE \in Nat /\ RING_SIZE % PAGE_SIZE = 0
    /\ U32 \in Nat \ {0}

(* ubbd_release_page counts pages of 4096 bytes and everything else pages  *)
(* of PAGE_SIZE: with larger pages it would unmap the page of another      *)
(* index.                                                                  *)
ASSUME PagesOf4K == SZ_4K = PAGE_SIZE

(* page_index * 4096 is an int: the indexes the driver can unmap.  Nothing *)
(* in ADD_DEV holds data_pages to that.                                    *)
ASSUME IndexesFit == data_pages * SZ_4K <= U32 \div 2

VARIABLES
    op,         \* op[r]: READ, WRITE, or DISCARD for all without data
    bios,       \* bios[r]: req->bio and its bi_next, each a list of bio_vecs
    use,        \* use[r]: the number of the request that uses tag r now
    bio_mem,    \* bio_mem[r][b]: the page of the b-th bio_vec of r
    pc,         \* pc[r]: where r is
    bvec_index, \* bvec_index[r]: loop index of the thread at r
    inline_pi, pi,     \* page indexes, by the number of the bio_vec
    data_bitmap,       \* indexes in use
    data_pages_array,  \* [indexes -> Phys or NoPage]
    content,    \* content[p]: the words of page p
    releasing,  \* the page that the holder of pages_mutex is freeing
    pte,        \* pte[i]: the page the backend has mapped for index i
    fault,      \* the page fault the backend is in
    iov,        \* iov[r]: the addresses in the command of r
    served,     \* served[r]: how many of them the backend has worked off
    got,        \* got[r]: history: what the backend read for a WRITE
    result,     \* result[r]: what r ends with, 0 or EIO
    removing,   \* the queue is REMOVING, and workers are flushed
    sigbus,     \* history: the backend touched an index without a page
    late_get    \* history: a fault took a page that had been freed

request == <<op, bios, use>>
indexes == <<inline_pi, pi, data_bitmap, data_pages_array, releasing>>
backend == <<pte, fault, served, got, sigbus, late_get>>
vars == <<request, bio_mem, pc, bvec_index, indexes, content, iov, backend, result,
          removing>>

Ops == {"READ", "WRITE", "DISCARD"}
Indexes == 0 .. data_pages - 1
Words == 0 .. PAGE_SIZE - 1

(* A bio_vec as bio_for_each_segment yields it: not empty, within a page. *)
Segments ==
    {bv \in [off : Words, len : 1 .. PAGE_SIZE] : bv.off + bv.len <= PAGE_SIZE}

(* The bio_vecs in the order in which the loops over the bios of a request *)
(* (bio_for_each_segment and bi_next) reach them.                          *)
Bvecs(bs) == MapThenFoldSet(\o, <<>>, LAMBDA k : bs[k], Min, DOMAIN bs)

ASSUME BiosAssumption == \A bs \in Bios : Bvecs(bs) \in Seq(Segments)

(* Values of words: of bio memory, of an answer of the backend; a page     *)
(* that is not in use.                                                     *)
Value(kind, r, b, w) == <<kind, use[r], b, w>>
Unknown == [w \in Words |-> <<>>]

EIO == -5

(* No page is being freed; there is no page fault. *)
Idle == [at |-> "idle"]

(* The bio_vecs of a request, counted from 0. *)
Bvec(r, b) == Bvecs(bios[r])[b + 1]

(* ubbd_req_nodata, ubbd_req_segments: requests without data need no page. *)
ubbd_req_nodata(o) == o = "DISCARD"
ubbd_req_segments(o, bs) == IF ubbd_req_nodata(o) THEN 0 ELSE Len(Bvecs(bs))

pi_cnt(r) == ubbd_req_segments(op[r], bios[r])
BvecIndexes(r) == 0 .. pi_cnt(r) - 1

(* Word w of bio_vec b belongs to the request. *)
InBvec(r, b, w) == w \in Bvec(r, b).off .. Bvec(r, b).off + Bvec(r, b).len - 1

-----------------------------------------------------------------------------
Init ==
    /\ op = [r \in Reqs |-> "DISCARD"] /\ bios = [r \in Reqs |-> <<>>]
    /\ use = [r \in Reqs |-> 0]
    /\ bio_mem = [r \in Reqs |-> <<>>]
    /\ pc = [r \in Reqs |-> "ended"]
    /\ bvec_index = [r \in Reqs |-> 0]
    /\ inline_pi = [r \in Reqs |-> <<>>] /\ pi = [r \in Reqs |-> <<>>]
    /\ data_bitmap = {}
    /\ data_pages_array = [i \in Indexes |-> NoPage]
    /\ content = [p \in Phys |-> Unknown]
    /\ releasing = Idle
    /\ pte = [i \in Indexes |-> NoPage] /\ fault = Idle
    /\ iov = [r \in Reqs |-> <<>>] /\ got = [r \in Reqs |-> <<>>]
    /\ served = [r \in Reqs |-> 0] /\ result = [r \in Reqs |-> 0]
    /\ removing = FALSE /\ sigbus = FALSE /\ late_get = FALSE

Uses == Max({use[r] : r \in Reqs})

Goto(r, l) == pc' = [pc EXCEPT ![r] = l]

(* The block layer hands out tag r again: ubbd_queue_rq clears ubbd_req    *)
(* and queues the work.                                                    *)
ubbd_queue_rq(r, o, bs) ==
    /\ pc[r] = "ended" /\ Uses < MaxUses
    /\ ~removing
    /\ op' = [op EXCEPT ![r] = o] /\ bios' = [bios EXCEPT ![r] = bs]
    /\ use' = [use EXCEPT ![r] = Uses + 1]
    /\ bio_mem' = [bio_mem EXCEPT ![r] =
          [b \in 0 .. ubbd_req_segments(o, bs) - 1 |->
              [w \in Words |-> <<"bio", Uses + 1, b, w>>]]]
    /\ Goto(r, "get")
    /\ bvec_index' = [bvec_index EXCEPT ![r] = 0]
    /\ inline_pi' = [inline_pi EXCEPT ![r] = <<>>] /\ pi' = [pi EXCEPT ![r] = <<>>]
    /\ iov' = [iov EXCEPT ![r] = <<>>] /\ got' = [got EXCEPT ![r] = <<>>]
    /\ served' = [served EXCEPT ![r] = 0] /\ result' = [result EXCEPT ![r] = 0]
    /\ UNCHANGED <<data_bitmap, data_pages_array, releasing, content, pte, fault, sigbus,
                   late_get, removing>>

-----------------------------------------------------------------------------
(* Array f with v in slot x, which may be a new one. *)
Put(f, x, v) == [y \in DOMAIN f \cup {x} |-> IF y = x THEN v ELSE f[y]]

ubbd_req_set_pi(r, b, i) ==
    \/ /\ b < INLINE_PI_MAX
       /\ inline_pi' = [inline_pi EXCEPT ![r] = Put(@, b, i)]
       /\ UNCHANGED pi
    \/ /\ b >= INLINE_PI_MAX
       /\ pi' = [pi EXCEPT ![r] = Put(@, b - INLINE_PI_MAX, i)]
       /\ UNCHANGED inline_pi

ubbd_req_get_pi(r, b) ==
    IF b < INLINE_PI_MAX THEN inline_pi[r][b] ELSE pi[r][b - INLINE_PI_MAX]

(* Mutant: the bitmap is not asked. *)
Bug_FirstZero(i) == i = 0

(* find_first_zero_bit *)
FirstZero(i) ==
    i \in Indexes \ data_bitmap /\ \A j \in Indexes \ data_bitmap : i <= j

(* Somebody has a reference to page p: its index, the release that has     *)
(* taken it from there, a mapping or a fault that is about to map it.      *)
Referenced(p) ==
    \/ \E i \in Indexes : p \in {data_pages_array[i], pte[i]}
    \/ releasing # Idle /\ releasing.page = p
    \/ fault.at = "map" /\ fault.page = p

(* A page from alloc_page. *)
FreePhys == {p \in Phys : ~Referenced(p)}

(* ubbd_get_data_pages for one bio_vec, under pages_mutex: the first free  *)
(* index, with the page it has or with a new one.                          *)
ubbd_get_data_page(r) ==
    /\ pc[r] = "get" /\ bvec_index[r] < pi_cnt(r)
    /\ releasing = Idle
    /\ \E i \in Indexes :
          /\ FirstZero(i)
          /\ data_bitmap' = data_bitmap \cup {i}
          /\ \/ /\ data_pages_array[i] # NoPage
                /\ UNCHANGED data_pages_array
             \/ /\ data_pages_array[i] = NoPage
                /\ \E p \in FreePhys :
                      data_pages_array' = [data_pages_array EXCEPT ![i] = p]
          /\ ubbd_req_set_pi(r, bvec_index[r], i)
    /\ bvec_index' = [bvec_index EXCEPT ![r] = @ + 1]
    /\ UNCHANGED <<request, bio_mem, pc, releasing, content, iov, backend, result,
                   removing>>

(* No index is free, alloc_page or xa_store fails: the pages taken so far  *)
(* are given back and the request is requeued, to start over.              *)
get_data_pages_fails(r) ==
    /\ pc[r] = "get" /\ bvec_index[r] < pi_cnt(r)
    /\ Goto(r, "unget")
    /\ UNCHANGED <<request, bio_mem, bvec_index, indexes, content, iov, backend, result,
                   removing>>

-----------------------------------------------------------------------------
(* Mutant: the page is filled from its start. *)
Bug_memcpy(dst, src, bv) ==
    [w \in Words |-> IF w < bv.len THEN src[w + bv.off] ELSE dst[w]]

(* memcpy(dst + bv_offset, src + bv_offset, bv_len) *)
memcpy(dst, src, bv) ==
    [w \in Words |-> IF w \in bv.off .. bv.off + bv.len - 1 THEN src[w] ELSE dst[w]]

ubbd_req_get_page(r, b) == data_pages_array[ubbd_req_get_pi(r, b)]

(* The bio_vec of r that is copied through page p. *)
BvecAt(r, p) == CHOOSE b \in BvecIndexes(r) : ubbd_req_get_page(r, b) = p
PagesOf(r) == {ubbd_req_get_page(r, b) : b \in BvecIndexes(r)}

copy_data_to_ubbdreq(r) ==
    content' = [p \in Phys |->
        IF p \in PagesOf(r)
        THEN memcpy(content[p], bio_mem[r][BvecAt(r, p)], Bvec(r, BvecAt(r, p)))
        ELSE content[p]]

copy_data_from_ubbdreq(r) ==
    bio_mem' = [bio_mem EXCEPT ![r] =
        [b \in BvecIndexes(r) |->
            memcpy(bio_mem[r][b], content[ubbd_req_get_page(r, b)], Bvec(r, b))]]

(* The end of queue_req_prepare: a WRITE fills its pages. *)
prepared(r) ==
    /\ pc[r] = "get" /\ bvec_index[r] = pi_cnt(r)
    /\ \/ op[r] = "WRITE" /\ copy_data_to_ubbdreq(r)
       \/ op[r] # "WRITE" /\ UNCHANGED content
    /\ Goto(r, "prepared")
    /\ UNCHANGED <<request, bio_mem, bvec_index, indexes, iov, backend, result,
                   removing>>

(* Mutant: the address of the page, without the offset in it. *)
Bug_iov_base(r, b) == ubbd_req_get_pi(r, b) * PAGE_SIZE + RING_SIZE

(* ubbd_set_se_iov; the product is a long there. *)
iov_base(r, b) == ubbd_req_get_pi(r, b) * PAGE_SIZE + RING_SIZE + Bvec(r, b).off

(* The worker finds space in the command ring and submits. *)
submit(r) ==
    /\ pc[r] = "prepared"
    /\ iov' = [iov EXCEPT ![r] =
          [b \in BvecIndexes(r) |->
              [iov_base |-> iov_base(r, b), iov_len |-> Bvec(r, b).len]]]
    /\ Goto(r, "submitted")
    /\ bvec_index' = [bvec_index EXCEPT ![r] = 0]
    /\ UNCHANGED <<request, bio_mem, indexes, content, backend, result, removing>>

(* It finds none: the request is requeued, and starts again without the    *)
(* indexes it had, which stay in use.                                      *)
ring_full(r) ==
    /\ pc[r] = "prepared"
    /\ Goto(r, "get")
    /\ bvec_index' = [bvec_index EXCEPT ![r] = 0]
    /\ inline_pi' = [inline_pi EXCEPT ![r] = <<>>] /\ pi' = [pi EXCEPT ![r] = <<>>]
    /\ UNCHANGED <<request, bio_mem, data_bitmap, data_pages_array, releasing, content,
                   iov, backend, result, removing>>

-----------------------------------------------------------------------------
FaultIndex(addr) == ((addr \div PAGE_SIZE) * PAGE_SIZE - RING_SIZE) \div PAGE_SIZE

(* The backend, outside this repository, works off the iov of a command in *)
(* order, also of one that a removal has ended behind its back: it reads   *)
(* for a WRITE and writes its answer for a READ.  It is one thread.        *)
Touched(r) == FaultIndex(iov[r][served[r]].iov_base)

(* An address whose page is not mapped: ubbd_vma_fault, which takes no     *)
(* lock, looks the page up ...                                             *)
ubbd_try_get_data_page(r) ==
    LET i == Touched(r) IN
    /\ served[r] \in DOMAIN iov[r]
    /\ fault = Idle /\ pte[i] = NoPage
    /\ \/ /\ data_pages_array[i] = NoPage
          /\ sigbus' = TRUE /\ UNCHANGED fault
       \/ /\ data_pages_array[i] # NoPage
          /\ fault' = [at |-> "get", r |-> r, i |-> i, page |-> data_pages_array[i]]
          /\ UNCHANGED sigbus
    /\ UNCHANGED <<request, bio_mem, pc, bvec_index, indexes, content, iov, pte, served,
                   got, result, removing, late_get>>

(* ... takes a reference, too late if the page has been freed ...          *)
get_page ==
    /\ fault.at = "get"
    /\ fault' = [fault EXCEPT !.at = "map"]
    /\ late_get' = (late_get \/ ~Referenced(fault.page))
    /\ UNCHANGED <<request, bio_mem, pc, bvec_index, indexes, content, iov, pte, served,
                   got, sigbus, result, removing>>

(* ... and returns; the kernel maps the page.                              *)
finish_fault ==
    /\ fault.at = "map"
    /\ pte' = [pte EXCEPT ![fault.i] = fault.page]
    /\ fault' = Idle
    /\ UNCHANGED <<request, bio_mem, pc, bvec_index, indexes, content, iov, served, got,
                   sigbus, late_get, result, removing>>

(* An address whose page is mapped. *)
backend_io(r) ==
    LET b == served[r]
        base == iov[r][b].iov_base
        p == pte[Touched(r)]
        at == [k \in 0 .. iov[r][b].iov_len - 1 |-> (base + k) % PAGE_SIZE]
    IN
    /\ b \in DOMAIN iov[r]
    /\ fault = Idle /\ p # NoPage
    /\ served' = [served EXCEPT ![r] = @ + 1]
    /\ \/ /\ op[r] = "WRITE"
          /\ got' = [got EXCEPT ![r] =
                Put(@, b, [k \in DOMAIN at |-> content[p][at[k]]])]
          /\ UNCHANGED content
       \/ /\ op[r] = "READ"
          /\ content' = [content EXCEPT ![p] =
                [w \in Words |-> IF \E k \in DOMAIN at : at[k] = w
                                 THEN Value("answer", r, b, w) ELSE @[w]]]
          /\ UNCHANGED got
    /\ UNCHANGED <<request, bio_mem, pc, bvec_index, indexes, iov, pte, fault, sigbus,
                   late_get, result, removing>>

(* ubbd_queue_complete, for a command that was answered: a READ gets its   *)
(* data before complete_inflight_req.                                      *)
complete(r) ==
    /\ pc[r] = "submitted" /\ served[r] = pi_cnt(r)
    /\ \/ op[r] = "READ" /\ copy_data_from_ubbdreq(r)
       \/ op[r] # "READ" /\ UNCHANGED bio_mem
    /\ Goto(r, "release")
    /\ UNCHANGED <<request, bvec_index, indexes, content, iov, backend, result, removing>>

(* A forced removal, after flush_workqueue ...                             *)
remove ==
    /\ ~removing
    /\ \A r \in Reqs : pc[r] \notin {"get", "unget", "prepared"}
    /\ removing' = TRUE
    /\ UNCHANGED <<request, bio_mem, pc, bvec_index, indexes, content, iov, backend,
                   result>>

(* ... ends what is inflight (ubbd_queue_end_inflight_reqs).               *)
end_inflight_req(r) ==
    /\ removing
    /\ pc[r] = "submitted"
    /\ result' = [result EXCEPT ![r] = EIO]
    /\ Goto(r, "release")
    /\ UNCHANGED <<request, bio_mem, bvec_index, indexes, content, iov, backend, removing>>

-----------------------------------------------------------------------------
(* Mutant: the product in a type that is too small. *)
Bug_int(x) == x % PAGE_SIZE

(* A value as an int. *)
int(x) == ((x + U32 \div 2) % U32) - U32 \div 2

(* ubbd_kring_unmap_range for two bytes of the mapping: their page. *)
ubbd_kring_unmap_range(off) ==
    pte' = [i \in Indexes |-> IF FaultIndex(off) = i THEN NoPage ELSE pte[i]]

(* ubbd_release_page, under pages_mutex: the bit is cleared; above the     *)
(* reserve the page is unmapped, ...                                       *)
ubbd_release_page(r, b) ==
    LET i == ubbd_req_get_pi(r, b)
        page == data_pages_array[i]
    IN
    /\ releasing = Idle
    /\ data_bitmap' = data_bitmap \ {i}
    /\ \/ UNCHANGED <<pte, releasing>>
       \/ /\ page # NoPage
          /\ ubbd_kring_unmap_range(RING_SIZE + int(i * SZ_4K))
          /\ releasing' = [at |-> "erase", r |-> r, i |-> i, page |-> page]

(* ... taken from its index ...                                            *)
xa_erase ==
    /\ releasing.at = "erase"
    /\ data_pages_array' = [data_pages_array EXCEPT ![releasing.i] = NoPage]
    /\ releasing' = [releasing EXCEPT !.at = "free"]
    /\ UNCHANGED <<request, bio_mem, pc, bvec_index, inline_pi, pi, data_bitmap, content,
                   iov, backend, result, removing>>

(* ... and given back to the kernel, which frees it unless it is mapped    *)
(* again.  pages_mutex is unlocked.                                        *)
__ubbd_release_page ==
    LET p == releasing.page IN
    /\ releasing.at = "free"
    /\ \/ /\ \/ \E i \in Indexes : pte[i] = p
             \/ fault.at = "map" /\ fault.page = p
          /\ UNCHANGED content
       \/ /\ \A i \in Indexes : pte[i] # p
          /\ ~(fault.at = "map" /\ fault.page = p)
          /\ content' = [content EXCEPT ![p] = Unknown]
    /\ releasing' = Idle
    /\ UNCHANGED <<request, bio_mem, pc, bvec_index, inline_pi, pi, data_bitmap,
                   data_pages_array, iov, backend, result, removing>>

(* The thread of r is in one of these. *)
Releasing(r) == releasing # Idle /\ releasing.r = r

(* The loop of ubbd_req_release. *)
ubbd_req_release(r) ==
    /\ pc[r] = "release" /\ bvec_index[r] < pi_cnt(r)
    /\ ubbd_release_page(r, bvec_index[r])
    /\ bvec_index' = [bvec_index EXCEPT ![r] = @ + 1]
    /\ UNCHANGED <<request, bio_mem, pc, inline_pi, pi, data_pages_array, content, iov,
                   fault, served, got, sigbus, late_get, result, removing>>

(* blk_mq_end_request *)
end_request(r) ==
    /\ pc[r] = "release" /\ bvec_index[r] = pi_cnt(r) /\ ~Releasing(r)
    /\ Goto(r, "ended")
    /\ UNCHANGED <<request, bio_mem, bvec_index, indexes, content, iov, backend, result,
                   removing>>

(* The loop at the end of ubbd_get_data_pages after an error ...           *)
unget_page(r) ==
    /\ pc[r] = "unget" /\ bvec_index[r] > 0
    /\ ubbd_release_page(r, bvec_index[r] - 1)
    /\ bvec_index' = [bvec_index EXCEPT ![r] = @ - 1]
    /\ UNCHANGED <<request, bio_mem, pc, inline_pi, pi, data_pages_array, content, iov,
                   fault, served, got, sigbus, late_get, result, removing>>

(* ... after which the request is requeued.                                *)
requeue(r) ==
    /\ pc[r] = "unget" /\ bvec_index[r] = 0 /\ ~Releasing(r)
    /\ Goto(r, "get")
    /\ inline_pi' = [inline_pi EXCEPT ![r] = <<>>] /\ pi' = [pi EXCEPT ![r] = <<>>]
    /\ UNCHANGED <<request, bio_mem, bvec_index, data_bitmap, data_pages_array, releasing,
                   content, iov, backend, result, removing>>

-----------------------------------------------------------------------------
Worker(r) ==
    \/ ubbd_get_data_page(r) \/ get_data_pages_fails(r) \/ unget_page(r) \/ requeue(r)
    \/ prepared(r) \/ submit(r) \/ ring_full(r)

Completion(r) ==
    complete(r) \/ end_inflight_req(r) \/ ubbd_req_release(r) \/ end_request(r)

Next ==
    \/ \E r \in Reqs, o \in Ops, bs \in Bios : ubbd_queue_rq(r, o, bs)
    \/ \E r \in Reqs : Worker(r) \/ Completion(r)
    \/ xa_erase \/ __ubbd_release_page
    \/ \E r \in Reqs : ubbd_try_get_data_page(r) \/ backend_io(r)
    \/ get_page \/ finish_fault
    \/ remove

Spec == Init /\ [][Next]_vars

-----------------------------------------------------------------------------
(* A WRITE reaches the backend whole: for each bio_vec, in order, the      *)
(* backend reads the words the request has there, whatever page indexes    *)
(* the request got, whoever had them before, and however many bios it is   *)
(* made of (copy_data_to_ubbdreq, ubbd_set_se_iov, ubbd_vma_fault).        *)
WriteDelivered ==
    \A r \in Reqs :
        op[r] = "WRITE" /\ pc[r] = "release" /\ result[r] = 0 =>
            got[r] = [b \in BvecIndexes(r) |->
                         [k \in 0 .. Bvec(r, b).len - 1 |->
                             Value("bio", r, b, Bvec(r, b).off + k)]]

(* The memory of a request holds the backend's answer to its own command   *)
(* once a READ is completed, in the words of its bio_vecs and nowhere      *)
(* else, and is left alone in every other case (copy_data_from_ubbdreq).   *)
ReadDelivered ==
    \A r \in Reqs : \A b \in BvecIndexes(r), w \in Words :
        bio_mem[r][b][w] =
            IF /\ op[r] = "READ" /\ pc[r] \in {"release", "ended"}
               /\ result[r] = 0 /\ InBvec(r, b, w)
            THEN Value("answer", r, b, w)
            ELSE Value("bio", r, b, w)

(* The backend has mapped no page but the one its index has now, although  *)
(* its faults take no lock against ubbd_release_page.  The exception is an *)
(* index of a command that a forced removal has ended and the backend      *)
(* still follows: a fault that falls between the unmapping and the erasing *)
(* (or between the look-up and get_page) maps the old page, which may by   *)
(* then be free.  Even then no request uses the index any more, and the    *)
(* page is not one that another index has.                                 *)
PteCurrent ==
    /\ late_get => removing
    /\ \A i \in Indexes :
          pte[i] \notin {NoPage, data_pages_array[i]} =>
              /\ removing /\ i \notin data_bitmap
              /\ \A j \in Indexes : data_pages_array[j] # pte[i]

(* The backend is not killed by SIGBUS for following the iov of a command, *)
(* unless a forced removal has taken the pages away.                       *)
SigbusOnlyRemoved == sigbus => removing

=============================================================================
