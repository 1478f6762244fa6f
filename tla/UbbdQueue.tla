------------------------------ MODULE UbbdQueue ------------------------------
(***************************************************************************)
(* The request path of a running ubbd device: how the block layer's        *)
(* requests travel through ubbd_queue_rq, the task workqueue, the inflight *)
(* list of a queue, the backend and back, while queues are stopped and     *)
(* started and the disk is removed.                                        *)
(*                                                                         *)
(* Actors: one worker per request (ubbd_queue_workfn on task_wq), the      *)
(* completers (ubbd_queue_complete, which runs in the write(2) of a        *)
(* backend thread), the netlink handler and the block layer's timeout      *)
(* handler.  An action is what an actor does between two points at which   *)
(* others can see or change the state it uses.                             *)
(*                                                                         *)
(* UbbdCmdRing models the command ring in detail.  Here its space, and the *)
(* allocation of data pages, are an outcome: enough, or -ENOMEM.           *)
(***************************************************************************)
EXTENDS Integers, FiniteSets

CONSTANTS
    num_queues,   \* ubbd_dev->num_queues
    Reqs,         \* tags of the block layer
    Completers,   \* backend threads that write to the kring device
    Removers,     \* contexts that can remove the disk: "netlink", "timeout"
    Forces,       \* values of the force flag in a netlink removal
    QueueOps,     \* netlink queue operations in use: "stop", "start"
    MaxIssues,    \* bound: requests issued
    MaxFails,     \* bound: times an allocation or the ring space fails
    MaxReposts    \* bound: completions a restarted backend posts again

Queues == 0 .. num_queues - 1

ASSUME QueueAssumption ==
    /\ num_queues \in Nat \ {0}
    /\ Removers \subseteq {"netlink", "timeout"}
    /\ Forces \subseteq BOOLEAN
    /\ QueueOps \subseteq {"stop", "start"}
    /\ MaxIssues \in Nat /\ MaxFails \in Nat /\ MaxReposts \in Nat

VARIABLES
    status,       \* status[q]: UBBD_QUEUE_KSTATUS_*
    driver_data,  \* driver_data[h]: the queue that hctx h feeds
    dev_status,   \* ubbd_dev->status
    gendisk,      \* the disk was not deleted: it can be opened
    open_count,   \* ubbd_dev->open_count, 0 or 1 opener
    inflight,     \* inflight[q]: requests on q's inflight_reqs list
    rpc,          \* rpc[r]: where request r is, see OnTaskWq
    hctx,         \* hctx[r]: the hardware context r was submitted to
    ubbd_q,       \* ubbd_q[r]: ubbd_req->ubbd_q
    req_tid,      \* req_tid[r]: ubbd_req->req_tid; 0 also means se is NULL
    q_tid,        \* q_tid[q]: ubbd_q->req_tid, the last id handed out
    compr,        \* compr[q]: ids of the completions in q's ring
    answered,     \* answered[q]: ids the backend has answered
    comp,         \* comp[c]: the state of completer c
    rm,           \* rm[m]: the state of a removal of the disk
    stopping,     \* the queue a netlink stop is flushing, or -1
    flush,        \* flush[f]: the work f waits for in flush_workqueue
    issues, fails, reposts   \* how much of the bounds is used

qvars == <<status, driver_data, dev_status, stopping>>
rvars == <<inflight, rpc, hctx, ubbd_q, req_tid, q_tid>>
bvars == <<compr, answered>>
bounds == <<issues, fails, reposts>>
vars == <<qvars, gendisk, open_count, rvars, bvars, comp, rm, flush, bounds>>

(* free: not in use.  dispatch: the block layer will call ubbd_queue_rq.   *)
(* started: in ubbd_queue_rq, before queue_work.  pending: on task_wq.     *)
(* prepare: the worker has passed the status check.  listed: on the        *)
(* inflight list, not in the ring.  submitted: in the ring, worker gone.   *)
OnTaskWq(r) == rpc[r] \in {"pending", "prepare", "listed"}

IdleComp == [pc |-> "idle", q |-> 0, tid |-> 0, holds |-> {}]
IdleRm == [pc |-> "idle", force |-> FALSE, i |-> 0, list |-> {}]

(* The contexts that call flush_workqueue. *)
Flushers == {"stop"} \cup Removers

(* inflight_reqs_lock is held over two actions only in fetch_inflight_req, *)
(* between its read and its write of the queue status.                     *)
InflightLocked(q) == \E c \in Completers : comp[c].pc = "settle" /\ comp[c].q = q

(* ubbd_q->state_lock and ubbd_dev->state_lock are held over two actions   *)
(* only by a stop that waits in flush_workqueue.                           *)
StateLocked(q) == stopping = q
DevLocked == stopping # -1

NetlinkIdle == stopping = -1 /\ \A m \in Removers \cap {"netlink"} : rm[m].pc = "idle"

-----------------------------------------------------------------------------
Init ==
    /\ status = [q \in Queues |-> "RUNNING"]
    /\ driver_data = [h \in Queues |-> h]
    /\ dev_status = "RUNNING"
    /\ gendisk = TRUE
    /\ open_count = 0
    /\ inflight = [q \in Queues |-> {}]
    /\ rpc = [r \in Reqs |-> "free"]
    /\ hctx = [r \in Reqs |-> 0]
    /\ ubbd_q = [r \in Reqs |-> 0]
    /\ req_tid = [r \in Reqs |-> 0]
    /\ q_tid = [q \in Queues |-> 0]
    /\ compr = [q \in Queues |-> {}]
    /\ answered = [q \in Queues |-> {}]
    /\ comp = [c \in Completers |-> IdleComp]
    /\ rm = [m \in Removers |-> IdleRm]
    /\ stopping = -1
    /\ flush = [f \in Flushers |-> {}]
    /\ issues = 0 /\ fails = 0 /\ reposts = 0

-----------------------------------------------------------------------------
(* The block layer: an opener issues requests, and closes once they ended. *)
ubbd_open ==
    /\ open_count = 0
    /\ gendisk
    /\ open_count' = 1
    /\ UNCHANGED <<qvars, gendisk, rvars, bvars, comp, rm, flush, bounds>>

ubbd_release ==
    /\ open_count = 1
    /\ \A r \in Reqs : rpc[r] = "free"
    /\ open_count' = 0
    /\ UNCHANGED <<qvars, gendisk, rvars, bvars, comp, rm, flush, bounds>>

issue(r, h) ==
    /\ open_count = 1
    /\ rpc[r] = "free"
    /\ issues < MaxIssues
    /\ issues' = issues + 1
    /\ rpc' = [rpc EXCEPT ![r] = "dispatch"]
    /\ hctx' = [hctx EXCEPT ![r] = h]
    /\ UNCHANGED <<qvars, gendisk, open_count, inflight, ubbd_q, req_tid,
                   q_tid, bvars, comp, rm, flush, fails, reposts>>

(* Mutant: every queue that does not run fails the request. *)
Bug_ubbd_queue_rq(r) ==
    LET q == driver_data[hctx[r]] IN
    /\ rpc[r] = "dispatch"
    /\ rpc' = [rpc EXCEPT ![r] = IF status[q] = "RUNNING" THEN "started" ELSE "free"]
    /\ ubbd_q' = [ubbd_q EXCEPT ![r] = q]
    /\ req_tid' = [req_tid EXCEPT ![r] = 0]
    /\ UNCHANGED <<qvars, gendisk, open_count, inflight, hctx, q_tid, bvars,
                   comp, rm, flush, bounds>>

(* ubbd_queue_rq: a queue that is removed fails the request, one that is   *)
(* stopped (BLK_STS_RESOURCE) leaves it with the block layer, a running    *)
(* one clears the driver's part of the request.                            *)
ubbd_queue_rq(r) ==
    LET q == driver_data[hctx[r]] IN
    /\ rpc[r] = "dispatch"
    /\ \/ /\ status[q] = "REMOVING"
          /\ rpc' = [rpc EXCEPT ![r] = "free"]
          /\ UNCHANGED <<ubbd_q, req_tid>>
       \/ /\ status[q] = "RUNNING"
          /\ rpc' = [rpc EXCEPT ![r] = "started"]
          /\ ubbd_q' = [ubbd_q EXCEPT ![r] = q]
          /\ req_tid' = [req_tid EXCEPT ![r] = 0]
    /\ UNCHANGED <<qvars, gendisk, open_count, inflight, hctx, q_tid, bvars,
                   comp, rm, flush, bounds>>

queue_work(r) ==
    /\ rpc[r] = "started"
    /\ rpc' = [rpc EXCEPT ![r] = "pending"]
    /\ UNCHANGED <<qvars, gendisk, open_count, inflight, hctx, ubbd_q,
                   req_tid, q_tid, bvars, comp, rm, flush, bounds>>

(* A worker leaves task_wq: flush_workqueue no longer waits for it. *)
Flushed(r) == flush' = [f \in Flushers |-> flush[f] \ {r}]

(* Mutant: no flush_workqueue. *)
Bug_BeginFlush(f) == flush' = [flush EXCEPT ![f] = {}]

(* flush_workqueue by f waits for the work that is on task_wq now. *)
BeginFlush(f) == flush' = [flush EXCEPT ![f] = {r \in Reqs : OnTaskWq(r)}]

(* ubbd_queue_workfn, the status check: -EIO ends the request, -EBUSY      *)
(* requeues it.                                                            *)
workfn_check(r) ==
    LET s == status[ubbd_q[r]] IN
    /\ rpc[r] = "pending"
    /\ \/ /\ s = "REMOVING"
          /\ rpc' = [rpc EXCEPT ![r] = "free"]
          /\ Flushed(r)
       \/ /\ s \in {"STOPPING", "STOPPED"}
          /\ rpc' = [rpc EXCEPT ![r] = "dispatch"]
          /\ Flushed(r)
       \/ /\ s = "RUNNING"
          /\ rpc' = [rpc EXCEPT ![r] = "prepare"]
          /\ UNCHANGED flush
    /\ UNCHANGED <<qvars, gendisk, open_count, inflight, hctx, ubbd_q,
                   req_tid, q_tid, bvars, comp, rm, bounds>>

(* queue_req_prepare, then list_add_tail under inflight_reqs_lock; -ENOMEM *)
(* requeues the request.                                                   *)
workfn_prepare(r) ==
    LET q == ubbd_q[r] IN
    /\ rpc[r] = "prepare"
    /\ \/ /\ ~InflightLocked(q)
          /\ inflight' = [inflight EXCEPT ![q] = @ \cup {r}]
          /\ rpc' = [rpc EXCEPT ![r] = "listed"]
          /\ UNCHANGED <<flush, fails>>
       \/ /\ fails < MaxFails
          /\ fails' = fails + 1
          /\ rpc' = [rpc EXCEPT ![r] = "dispatch"]
          /\ Flushed(r)
          /\ UNCHANGED inflight
    /\ UNCHANGED <<qvars, gendisk, open_count, hctx, ubbd_q, req_tid, q_tid,
                   bvars, comp, rm, issues, reposts>>

(* The section under cmdr_lock: take an id, write the entry, publish it.   *)
(* Without space the request leaves the inflight list and is requeued.     *)
workfn_submit(r) ==
    LET q == ubbd_q[r] IN
    /\ rpc[r] = "listed"
    /\ \/ /\ q_tid' = [q_tid EXCEPT ![q] = @ + 1]
          /\ req_tid' = [req_tid EXCEPT ![r] = q_tid[q] + 1]
          /\ rpc' = [rpc EXCEPT ![r] = "submitted"]
          /\ UNCHANGED <<inflight, fails>>
       \/ /\ ~InflightLocked(q)
          /\ fails < MaxFails
          /\ fails' = fails + 1
          /\ inflight' = [inflight EXCEPT ![q] = @ \ {r}]
          /\ rpc' = [rpc EXCEPT ![r] = "dispatch"]
          /\ UNCHANGED <<q_tid, req_tid>>
    /\ Flushed(r)
    /\ UNCHANGED <<qvars, gendisk, open_count, hctx, ubbd_q, bvars, comp, rm,
                   issues, reposts>>

-----------------------------------------------------------------------------
(* The backend, outside this repository: it answers each submitted command *)
(* once; after a restart it may answer commands again.                     *)
backend_post(q, t) ==
    /\ t \in 1 .. q_tid[q]
    /\ t \notin answered[q]
    /\ compr' = [compr EXCEPT ![q] = @ \cup {t}]
    /\ answered' = [answered EXCEPT ![q] = @ \cup {t}]
    /\ UNCHANGED <<qvars, gendisk, open_count, rvars, comp, rm, flush,
                   bounds>>

backend_repost(q, t) ==
    /\ reposts < MaxReposts
    /\ t \in answered[q]
    /\ reposts' = reposts + 1
    /\ compr' = [compr EXCEPT ![q] = @ \cup {t}]
    /\ UNCHANGED <<qvars, gendisk, open_count, rvars, answered, comp, rm,
                   flush, issues, fails>>

(* ubbd_irqcontrol and the entry of ubbd_queue_complete. *)
complete_enter(c, q) ==
    /\ comp[c].pc = "idle"
    /\ status[q] # "REMOVING"
    /\ comp' = [comp EXCEPT ![c] = [IdleComp EXCEPT !.pc = "pop", !.q = q]]
    /\ UNCHANGED <<qvars, gendisk, open_count, rvars, bvars, rm, flush,
                   bounds>>

(* The section under compr_lock: take a completion entry, or return. *)
complete_pop(c) ==
    LET q == comp[c].q IN
    /\ comp[c].pc = "pop"
    /\ \/ /\ compr[q] = {}
          /\ comp' = [comp EXCEPT ![c] = IdleComp]
          /\ UNCHANGED compr
       \/ \E t \in compr[q] :
          /\ compr' = [compr EXCEPT ![q] = @ \ {t}]
          /\ comp' = [comp EXCEPT ![c].pc = "fetch", ![c].tid = t]
    /\ UNCHANGED <<qvars, gendisk, open_count, rvars, answered, rm, flush,
                   bounds>>

(* fetch_inflight_req under inflight_reqs_lock, up to its test of the      *)
(* status: a completion whose id is on no list is dropped.                 *)
fetch_inflight_req(c) ==
    LET q == comp[c].q
        found == {r \in inflight[q] : req_tid[r] = comp[c].tid}
    IN
    /\ comp[c].pc = "fetch"
    /\ ~InflightLocked(q)
    /\ \/ /\ found = {}
          /\ comp' = [comp EXCEPT ![c].pc = "pop"]
          /\ UNCHANGED inflight
       \/ \E r \in found :
          /\ inflight' = [inflight EXCEPT ![q] = @ \ {r}]
          /\ comp' = [comp EXCEPT
                ![c].pc = IF status[q] = "STOPPING" /\ inflight[q] = {r}
                            THEN "settle" ELSE "end",
                ![c].holds = {r}]
    /\ UNCHANGED <<qvars, gendisk, open_count, rpc, hctx, ubbd_q, req_tid,
                   q_tid, bvars, rm, flush, bounds>>

(* The atomic_set that follows the test; nothing orders it against a       *)
(* status written in between by a holder of ubbd_q->state_lock.            *)
fetch_settle(c) ==
    /\ comp[c].pc = "settle"
    /\ status' = [status EXCEPT ![comp[c].q] = "STOPPED"]
    /\ comp' = [comp EXCEPT ![c].pc = "end"]
    /\ UNCHANGED <<driver_data, dev_status, stopping, gendisk, open_count,
                   rvars, bvars, rm, flush, bounds>>

(* copy_data_from_ubbdreq and complete_inflight_req: the request ends. *)
complete_end(c) ==
    /\ comp[c].pc = "end"
    /\ rpc' = [r \in Reqs |-> IF r \in comp[c].holds THEN "free" ELSE rpc[r]]
    /\ comp' = [comp EXCEPT ![c].pc = "pop", ![c].holds = {}]
    /\ UNCHANGED <<qvars, gendisk, open_count, inflight, hctx, ubbd_q,
                   req_tid, q_tid, bvars, rm, flush, bounds>>

-----------------------------------------------------------------------------
(* find_running_queue: the queue being stopped is still RUNNING here and   *)
(* may be the one that is found.                                           *)
find_running_queue ==
    CHOOSE q \in Queues :
        /\ status[q] = "RUNNING"
        /\ \A p \in Queues : status[p] = "RUNNING" => q <= p

(* queue_stop, up to flush_workqueue. *)
queue_stop(q) ==
    /\ "stop" \in QueueOps
    /\ NetlinkIdle
    /\ dev_status = "RUNNING"
    /\ status[q] = "RUNNING"
    /\ driver_data' = [driver_data EXCEPT ![q] = find_running_queue]
    /\ status' = [status EXCEPT ![q] = "STOPPING"]
    /\ stopping' = q
    /\ BeginFlush("stop")
    /\ UNCHANGED <<dev_status, gendisk, open_count, rvars, bvars, comp, rm,
                   bounds>>

(* Mutant: the stop leaves STOPPED to the completions. *)
Bug_queue_stop_flushed(q) ==
    /\ stopping = q
    /\ flush["stop"] = {}
    /\ ~InflightLocked(q)
    /\ stopping' = -1
    /\ UNCHANGED <<status, driver_data, dev_status, gendisk, open_count,
                   rvars, bvars, comp, rm, flush, bounds>>

(* queue_stop after flush_workqueue. *)
queue_stop_flushed(q) ==
    /\ stopping = q
    /\ flush["stop"] = {}
    /\ ~InflightLocked(q)
    /\ status' = IF inflight[q] = {} THEN [status EXCEPT ![q] = "STOPPED"]
                 ELSE status
    /\ stopping' = -1
    /\ UNCHANGED <<driver_data, dev_status, gendisk, open_count, rvars, bvars,
                   comp, rm, flush, bounds>>

queue_start(q) ==
    /\ "start" \in QueueOps
    /\ NetlinkIdle
    /\ dev_status = "RUNNING"
    /\ status[q] \in {"STOPPING", "STOPPED"}
    /\ status' = [status EXCEPT ![q] = "RUNNING"]
    /\ driver_data' = [driver_data EXCEPT ![q] = q]
    /\ UNCHANGED <<dev_status, stopping, gendisk, open_count, rvars, bvars,
                   comp, rm, flush, bounds>>

-----------------------------------------------------------------------------
(* ubbd_dev_remove_disk(ubbd_dev, force) is entered ...                    *)
StartRemoval(m, force) ==
    /\ rm[m].pc = "idle"
    /\ rm' = [rm EXCEPT ![m] = [IdleRm EXCEPT !.pc = "set", !.force = force]]
    /\ UNCHANGED <<qvars, gendisk, open_count, rvars, bvars, comp, flush,
                   bounds>>

(* ... from netlink, which refuses a device that is open unless forced ... *)
handle_cmd_remove_disk(m, force) ==
    /\ m = "netlink"
    /\ NetlinkIdle
    /\ force \/ open_count = 0
    /\ StartRemoval(m, force)

(* ... or from the timeout of a started request, whose timeout is not      *)
(* UINT_MAX: for such a request __timeout changes nothing and starts the   *)
(* timer anew (BLK_EH_RESET_TIMER).                                        *)
ubbd_timeout(m) ==
    /\ m = "timeout"
    /\ \E r \in Reqs : rpc[r] \notin {"free", "dispatch"}
    /\ StartRemoval(m, TRUE)

(* ubbd_dev_remove_queues, queue i: set the status and flush task_wq. *)
remove_set(m) ==
    /\ rm[m].pc = "set"
    /\ ~StateLocked(rm[m].i)
    /\ status' = [status EXCEPT ![rm[m].i] = "REMOVING"]
    /\ BeginFlush(m)
    /\ rm' = [rm EXCEPT ![m].pc = "flush"]
    /\ UNCHANGED <<driver_data, dev_status, stopping, gendisk, open_count,
                   rvars, bvars, comp, bounds>>

(* Mutant: only the first queue is removed. *)
Bug_NextQueue(m) == rm' = [rm EXCEPT ![m].i = @ + 1, ![m].pc = "status"]

NextQueue(m) ==
    rm' = [rm EXCEPT ![m].i = @ + 1,
                     ![m].pc = IF rm[m].i + 1 = num_queues THEN "status" ELSE "set"]

(* After the flush a forced removal splices the inflight list ...          *)
remove_flushed(m) ==
    LET q == rm[m].i IN
    /\ rm[m].pc = "flush"
    /\ flush[m] = {}
    /\ \/ /\ rm[m].force
          /\ ~InflightLocked(q)
          /\ inflight' = [inflight EXCEPT ![q] = {}]
          /\ rm' = [rm EXCEPT ![m].pc = "end", ![m].list = inflight[q]]
       \/ /\ ~rm[m].force
          /\ NextQueue(m)
          /\ UNCHANGED inflight
    /\ UNCHANGED <<qvars, gendisk, open_count, rpc, hctx, ubbd_q, req_tid,
                   q_tid, bvars, comp, flush, bounds>>

(* ... and ends its requests one by one (ubbd_queue_end_inflight_reqs).    *)
remove_end(m) ==
    /\ rm[m].pc = "end"
    /\ \/ \E r \in rm[m].list :
          /\ rpc' = [rpc EXCEPT ![r] = "free"]
          /\ rm' = [rm EXCEPT ![m].list = @ \ {r}]
       \/ /\ rm[m].list = {}
          /\ NextQueue(m)
          /\ UNCHANGED rpc
    /\ UNCHANGED <<qvars, gendisk, open_count, inflight, hctx, ubbd_q,
                   req_tid, q_tid, bvars, comp, flush, bounds>>

(* The rest of ubbd_dev_remove_disk: the status under state_lock, then     *)
(* del_gendisk by the removal that found the disk RUNNING.                 *)
remove_status(m) ==
    /\ rm[m].pc = "status"
    /\ ~DevLocked
    /\ dev_status' = "REMOVING"
    /\ rm' = [rm EXCEPT ![m] = IF dev_status = "RUNNING" THEN [@ EXCEPT !.pc = "del"]
                                ELSE IdleRm]
    /\ UNCHANGED <<status, driver_data, stopping, gendisk, open_count, rvars,
                   bvars, comp, flush, bounds>>

del_gendisk(m) ==
    /\ rm[m].pc = "del"
    /\ gendisk' = FALSE
    /\ rm' = [rm EXCEPT ![m] = IdleRm]
    /\ UNCHANGED <<qvars, open_count, rvars, bvars, comp, flush, bounds>>

-----------------------------------------------------------------------------
Worker(r) ==
    ubbd_queue_rq(r) \/ queue_work(r) \/ workfn_check(r) \/ workfn_prepare(r)
        \/ workfn_submit(r)

Complete(c) ==
    complete_pop(c) \/ fetch_inflight_req(c) \/ fetch_settle(c) \/ complete_end(c)

Remove(m) ==
    remove_set(m) \/ remove_flushed(m) \/ remove_end(m) \/ remove_status(m)
        \/ del_gendisk(m)

Next ==
    \/ ubbd_open
    \/ ubbd_release
    \/ \E r \in Reqs, h \in Queues : issue(r, h)
    \/ \E r \in Reqs : Worker(r)
    \/ \E q \in Queues : \E t \in 1 .. q_tid[q] :
          backend_post(q, t) \/ backend_repost(q, t)
    \/ \E c \in Completers, q \in Queues : complete_enter(c, q)
    \/ \E c \in Completers : Complete(c)
    \/ \E q \in Queues : queue_stop(q) \/ queue_stop_flushed(q) \/ queue_start(q)
    \/ \E m \in Removers, force \in Forces : handle_cmd_remove_disk(m, force)
    \/ \E m \in Removers : ubbd_timeout(m) \/ Remove(m)

Spec == Init /\ [][Next]_vars

(* The kernel runs every thread that can run; a spinlock or a mutex that   *)
(* is free again and again is obtained (SF).                               *)
KernelFairness ==
    /\ \A r \in Reqs : WF_vars(ubbd_queue_rq(r)) /\ WF_vars(queue_work(r))
                       /\ WF_vars(workfn_check(r)) /\ SF_vars(workfn_prepare(r))
                       /\ WF_vars(workfn_submit(r))
    /\ \A c \in Completers : SF_vars(Complete(c))
    /\ \A q \in Queues : SF_vars(queue_stop_flushed(q))
    /\ \A m \in Removers : SF_vars(Remove(m))

(* The block layer's timer fires for a request that stays started.  This   *)
(* assumes a disk that has been added with an io_timeout that ends: the    *)
(* requests of add_disk itself have UINT_MAX (UbbdDev has these).          *)
TimeoutFairness ==
    \A m \in Removers \cap {"timeout"} : WF_vars(ubbd_timeout(m))

(* A backend that may be dead, and a timeout. *)
TimeoutSpec == Spec /\ KernelFairness /\ TimeoutFairness

-----------------------------------------------------------------------------
(* Every request has one owner who may end it: its worker, one inflight    *)
(* list, one completer or one removal.  So no request is ended twice, and  *)
(* none is ended or requeued by one actor while another still uses it,     *)
(* however completions, a forced removal and the worker interleave.        *)
OneOwner ==
    /\ \A q \in Queues : \A r \in inflight[q] :
          rpc[r] \in {"listed", "submitted"} /\ ubbd_q[r] = q
    /\ \A r \in Reqs : rpc[r] = "listed" => r \in inflight[ubbd_q[r]]
    /\ \A c \in Completers : \A r \in comp[c].holds :
          /\ rpc[r] = "submitted"
          /\ r \notin inflight[ubbd_q[r]]
          /\ \A d \in Completers \ {c} : r \notin comp[d].holds
          /\ \A m \in Removers : r \notin rm[m].list
    /\ \A m \in Removers : \A r \in rm[m].list :
          /\ rpc[r] = "submitted"
          /\ r \notin inflight[ubbd_q[r]]
          /\ \A n \in Removers \ {m} : r \notin rm[n].list

(* complete_inflight_req writes through ubbd_req->se: whoever is about to  *)
(* call it holds a request whose worker has set se.  A request that is on  *)
(* the inflight list but not yet in the ring has no se and id 0; no        *)
(* completion matches it, and flush_workqueue keeps a removal from it.     *)
EndedHasSe ==
    /\ \A c \in Completers : \A r \in comp[c].holds : req_tid[r] = comp[c].tid
    /\ \A c \in Completers : comp[c].pc = "fetch" => comp[c].tid # 0
    /\ \A m \in Removers : \A r \in rm[m].list : req_tid[r] # 0

(* A forced removal leaves nothing behind: on every queue it has passed no *)
(* request is inflight and no worker is past the status check, and none    *)
(* can come back, not even through a completion that runs beside it.       *)
ForcedRemovalDrains ==
    \A m \in Removers : rm[m].force =>
        \A q \in 0 .. rm[m].i - 1 :
            /\ inflight[q] = {}
            /\ \A r \in Reqs : ubbd_q[r] = q => rpc[r] \notin {"prepare", "listed"}

(* A queue does not stay STOPPING with nothing left to wait for: once      *)
(* queue_stop has returned, some request is still inflight, and the        *)
(* completion that takes the last one writes STOPPED.                      *)
StoppingHasInflight ==
    \A q \in Queues :
        status[q] = "STOPPING" /\ ~StateLocked(q) /\ ~InflightLocked(q)
            => inflight[q] # {}

(* Once queue_stop has returned, a STOPPED queue admits nothing: no worker *)
(* that read the status earlier adds a request behind the stop.            *)
StoppedAdmitsNothing ==
    [][\A q \in Queues :
          status[q] = "STOPPED" /\ ~StateLocked(q)
              => inflight'[q] \subseteq inflight[q]]_vars

(* A removed queue stays removed, so that all work that runs after the     *)
(* flush in ubbd_dev_remove_queues finds REMOVING and returns directly.    *)
RemovingIsFinal ==
    [][\A q \in Queues : status[q] = "REMOVING" => status'[q] = "REMOVING"]_vars

(* The removal of the disk finishes the inflight requests first: when      *)
(* ubbd_dev_remove_queues is done, none is left.                           *)
InflightFinishedFirst ==
    \A m \in Removers :
        rm[m].pc \in {"status", "del"} => \A q \in Queues : inflight[q] = {}

(* The block layer's view of the request path. *)
BlockIO == INSTANCE UbbdBlockIO WITH
    outstanding <- {r \in Reqs : rpc[r] # "free"},
    replied <- {r \in Reqs : /\ rpc[r] = "submitted"
                             /\ req_tid[r] \in answered[ubbd_q[r]]},
    gone <- dev_status = "REMOVING" \/ \E m \in Removers : rm[m].pc # "idle"

(* The request path implements the block layer's view of a disk: a         *)
(* completion that a restarted backend posts twice, or one for an earlier  *)
(* use of the same tag, ends no request, because fetch_inflight_req looks  *)
(* requests up by an id that is used once.                                 *)
ImplementsBlockIO == BlockIO!IOSpec

(* Every request ends, if it has a timeout (TimeoutFairness): answered by  *)
(* the backend, or by the forced removal that its timeout starts.          *)
EveryRequestEnds == \A r \in Reqs : rpc[r] # "free" ~> rpc[r] = "free"

=============================================================================
