---------------------------- MODULE UbbdQueueSteps ----------------------------
(***************************************************************************)
(* The inductive invariant of the request path, for every number of        *)
(* queues, requests, completers, failures and repeated answers, and the    *)
(* proofs that the workers, the backend and the completers preserve it.    *)
(* Then the same for the invariant of the end of a stop.                   *)
(* Stops, removals and the theorems are in UbbdQueueProofs.                *)
(***************************************************************************)
EXTENDS UbbdQueue, TLAPS, WellFoundedInduction

(* Requests of queue q whose worker has passed the status check. *)
PastCheck(q) == {r \in Reqs : ubbd_q[r] = q /\ rpc[r] \in {"prepare", "listed"}}

(* Removal m is done with the workers of queue q. *)
Passed(m, q) == q < rm[m].i \/ (q = rm[m].i /\ rm[m].pc = "end")

Gone == dev_status = "REMOVING" \/ \E m \in Removers : rm[m].pc # "idle"

CompRec == [pc : {"idle", "pop", "fetch", "settle", "end"},
            q : Queues, tid : Nat, holds : SUBSET Reqs]

RmRec == [pc : {"idle", "set", "flush", "end", "status", "del"},
          force : BOOLEAN, i : 0 .. num_queues, list : SUBSET Reqs]

ReqPlaces == {"free", "dispatch", "started", "pending", "prepare", "listed", "submitted"}

(* What the proofs need to know of the types of the variables. *)
StatusType ==
    /\ status \in [Queues -> {"RUNNING", "STOPPING", "STOPPED", "REMOVING"}]
    /\ driver_data \in [Queues -> Queues]
    /\ flush \in [Flushers -> SUBSET Reqs]

ReqType ==
    /\ inflight \in [Queues -> SUBSET Reqs]
    /\ rpc \in [Reqs -> ReqPlaces]
    /\ hctx \in [Reqs -> Queues]
    /\ ubbd_q \in [Reqs -> Queues]
    /\ req_tid \in [Reqs -> Nat]

IdType ==
    /\ q_tid \in [Queues -> Nat]
    /\ compr \in [Queues -> SUBSET Nat]
    /\ answered \in [Queues -> SUBSET Nat]

ActorType ==
    /\ comp \in [Completers -> CompRec]
    /\ rm \in [Removers -> RmRec]

QueueType == StatusType /\ ReqType /\ IdType /\ ActorType

(* An id is 0 until the request is in the ring, and then used by it alone; *)
(* only ids that were handed out are answered.                             *)
Ids ==
    /\ \A r \in Reqs :
          rpc[r] \in {"started", "pending", "prepare", "listed"} => req_tid[r] = 0
    /\ \A r \in Reqs :
          rpc[r] = "submitted" => req_tid[r] > 0 /\ req_tid[r] <= q_tid[ubbd_q[r]]
    /\ \A r, s \in Reqs :
          /\ rpc[r] = "submitted" /\ rpc[s] = "submitted"
          /\ ubbd_q[r] = ubbd_q[s] /\ req_tid[r] = req_tid[s]
          => r = s
    /\ \A q \in Queues :
          /\ \A t \in answered[q] : t > 0 /\ t <= q_tid[q]
          /\ compr[q] \subseteq answered[q]

(* A completer holds the request that its completion entry names. *)
Completing ==
    \A c \in Completers :
        /\ comp[c].pc \in {"idle", "pop", "fetch"} => comp[c].holds = {}
        /\ comp[c].pc \in {"fetch", "settle", "end"} => comp[c].tid \in answered[comp[c].q]
        /\ \A r \in comp[c].holds :
              req_tid[r] = comp[c].tid /\ ubbd_q[r] = comp[c].q

(* A removal waits for every worker that may have seen its queue RUNNING;  *)
(* a queue that it has passed has none, and gets none.                     *)
Removing ==
    \A m \in Removers :
        /\ rm[m].pc # "end" => rm[m].list = {}
        /\ rm[m].pc \in {"set", "flush", "end"} => rm[m].i < num_queues
        /\ rm[m].pc = "flush" => /\ status[rm[m].i] # "RUNNING"
                                 /\ PastCheck(rm[m].i) \subseteq flush[m]
        /\ \A q \in Queues : Passed(m, q) =>
              /\ status[q] # "RUNNING"
              /\ PastCheck(q) = {}
              /\ rm[m].force => inflight[q] = {}

(* The same for a stop, and for a completer that is about to end it. *)
Stopping ==
    /\ \A q \in Queues : stopping = q => status[q] \in {"STOPPING", "STOPPED"}
    /\ \A c \in Completers : comp[c].pc = "settle" => status[comp[c].q] # "RUNNING"
    /\ \A q \in Queues :
          status[q] \in {"STOPPING", "STOPPED"} \/ InflightLocked(q)
          => PastCheck(q) \subseteq IF stopping = q THEN flush["stop"] ELSE {}

(* REMOVING is written by a removal, and a removal leaves its mark. *)
GoneIsKept ==
    /\ \A q \in Queues : status[q] = "REMOVING" => Gone
    /\ \A m \in Removers : rm[m].pc = "del" => dev_status = "REMOVING"

QueueInv ==
    QueueType /\ OneOwner /\ Ids /\ Completing /\ Removing /\ Stopping /\ GoneIsKept

-----------------------------------------------------------------------------
(* find_running_queue returns a queue when there is one that is RUNNING. *)
LEMMA RunningQueueFound ==
    ASSUME NEW q \in Queues, status[q] = "RUNNING"
    PROVE  find_running_queue \in Queues
<1> DEFINE T == {p \in Queues : status[p] = "RUNNING"}
           R == OpToRel(<, Nat)
<1>1. Queues \subseteq Nat
  BY QueueAssumption DEF Queues
<1>2. PICK x \in T : \A y \in T : ~(<<y, x>> \in R)
  <2>1. IsWellFoundedOn(R, Nat)
    BY NatLessThanWellFounded, Zenon
  <2>2. T \subseteq Nat /\ T # {}
    BY <1>1, Zenon
  <2> HIDE DEF T, R
  <2> QED BY <2>1, <2>2, WFMin, Zenon
<1>3. \A y \in T : x <= y
  <2> SUFFICES ASSUME NEW y \in T PROVE ~(y < x) BY <1>1
  <2> QED BY <1>1, <1>2, Zenon DEF OpToRel
<1>4. \E x1 \in Queues : status[x1] = "RUNNING" /\ \A p \in Queues : status[p] = "RUNNING" => x1 <= p
  BY <1>3, Zenon
<1> QED BY <1>4, Zenon DEF find_running_queue

(* What the assumptions say of the indexes and of the flushing contexts. *)
LEMMA Indexes ==
    /\ Queues \subseteq Nat /\ 0 \in Queues /\ -1 \notin Queues
    /\ num_queues \in Nat
    /\ \A i \in Nat : i \in Queues <=> i < num_queues
    /\ "stop" \in Flushers /\ Removers \subseteq Flushers /\ "stop" \notin Removers
    /\ Forces \subseteq BOOLEAN
<1>1. /\ Queues \subseteq Nat /\ 0 \in Queues /\ -1 \notin Queues
      /\ num_queues \in Nat
      /\ \A i \in Nat : i \in Queues <=> i < num_queues
  BY QueueAssumption DEF Queues
<1> QED BY <1>1, QueueAssumption, Zenon DEF Flushers

(* A step of request r to place x, for queue q and with id t, which no     *)
(* other actor can see: r is in no list before or after it, and passes the *)
(* status check only while its queue is RUNNING.                           *)
QuietMove(r, x, q, t) ==
    /\ rpc[r] \notin {"listed", "submitted"} /\ x \notin {"listed", "submitted"}
    /\ x \in {"started", "pending", "prepare"} => t = 0
    /\ x = "prepare" => status[q] = "RUNNING"
    /\ rpc' = [rpc EXCEPT ![r] = x]
    /\ ubbd_q' = [ubbd_q EXCEPT ![r] = q]
    /\ req_tid' = [req_tid EXCEPT ![r] = t]
    /\ hctx' \in [Reqs -> Queues]
    /\ flush' \in [Flushers -> SUBSET Reqs]
    /\ \A f \in Flushers : flush[f] \ {r} \subseteq flush'[f]
    /\ UNCHANGED <<qvars, inflight, q_tid, bvars, comp, rm>>

(* Such a step preserves the invariant. *)
LEMMA QuietStep ==
    ASSUME QueueInv, NEW r \in Reqs, NEW x \in ReqPlaces, NEW q \in Queues, NEW t \in Nat,
           QuietMove(r, x, q, t)
    PROVE  QueueInv'
<1>1. UNCHANGED <<status, driver_data, dev_status, stopping, inflight, q_tid, compr, answered,
                  comp, rm>>
  BY Zenon DEF QuietMove, qvars, bvars
<1>2. QueueType'
  BY <1>1, Zenon DEF QueueInv, QueueType, StatusType, ReqType, IdType, ActorType, QuietMove
<1>3. /\ rpc'[r] = x /\ ubbd_q'[r] = q /\ req_tid'[r] = t
      /\ \A s \in Reqs \ {r} :
            rpc'[s] = rpc[s] /\ ubbd_q'[s] = ubbd_q[s] /\ req_tid'[s] = req_tid[s]
  BY Zenon DEF QueueInv, QueueType, ReqType, QuietMove
<1>4. rpc[r] \notin {"listed", "submitted"} /\ x \notin {"listed", "submitted"}
  BY Zenon DEF QuietMove
<1>5. /\ \A p \in Queues : inflight[p] \subseteq Reqs \ {r}
      /\ \A c \in Completers : comp[c].holds \subseteq Reqs \ {r}
      /\ \A m \in Removers : rm[m].list \subseteq Reqs \ {r}
  BY <1>4 DEF QueueInv, QueueType, ReqType, ActorType, CompRec, RmRec, OneOwner
<1>6. OneOwner'
  BY <1>1, <1>3, <1>4, <1>5 DEF QueueInv, OneOwner
<1>7. Ids'
  BY <1>1, <1>3, <1>4 DEF QueueInv, Ids, QuietMove
<1>8. Completing'
  BY <1>1, <1>3, <1>5 DEF QueueInv, Completing
<1>9. \A p \in Queues : \/ PastCheck(p)' \subseteq PastCheck(p) \ {r}
                        \/ PastCheck(p)' \subseteq PastCheck(p) \cup {r} /\ status[p] = "RUNNING"
  BY <1>3, <1>4 DEF PastCheck, QuietMove
<1>10. Removing'
  <2>1. \A m \in Removers : m \in Flushers /\ rm[m].i \in Nat
    BY Indexes DEF QueueInv, QueueType, ActorType, RmRec
  <2> QED BY <1>1, <1>9, <2>1, Indexes DEF QueueInv, Removing, Passed, QuietMove
<1>11. Stopping'
  BY <1>1, <1>9, Indexes DEF QueueInv, QueueType, ActorType, CompRec, Stopping, InflightLocked, QuietMove
<1>12. GoneIsKept'
  BY <1>1, Zenon DEF QueueInv, GoneIsKept, Gone
<1> QED BY <1>2, <1>6, <1>7, <1>8, <1>10, <1>11, <1>12, Zenon DEF QueueInv

(* The steps of the block layer and of a worker up to the inflight list. *)
LEMMA WorkerQuiet ==
    ASSUME QueueInv, NEW r \in Reqs,
           \/ \E h \in Queues : issue(r, h)
           \/ ubbd_queue_rq(r) \/ queue_work(r) \/ workfn_check(r)
           \/ workfn_prepare(r) /\ UNCHANGED inflight
    PROVE  QueueInv'
<1>1. /\ rpc \in [Reqs -> ReqPlaces] /\ ubbd_q \in [Reqs -> Queues]
      /\ req_tid \in [Reqs -> Nat] /\ hctx \in [Reqs -> Queues]
      /\ driver_data \in [Queues -> Queues]
      /\ flush \in [Flushers -> SUBSET Reqs]
  BY Zenon DEF QueueInv, QueueType, StatusType, ReqType
<1>2. ASSUME NEW x \in ReqPlaces, QuietMove(r, x, ubbd_q[r], req_tid[r])
      PROVE  QueueInv'
  BY <1>1, <1>2, QuietStep, Zenon
<1>3. ubbd_q = [ubbd_q EXCEPT ![r] = ubbd_q[r]] /\ req_tid = [req_tid EXCEPT ![r] = req_tid[r]]
  BY <1>1, Zenon
<1>4. rpc[r] \in {"started", "pending", "prepare", "listed"} => req_tid[r] = 0
  BY Zenon DEF QueueInv, Ids
<1>5. ASSUME NEW h \in Queues, issue(r, h) PROVE QueueInv'
  <2>1. QuietMove(r, "dispatch", ubbd_q[r], req_tid[r])
    BY <1>1, <1>3, <1>5, Zenon DEF issue, QuietMove
  <2> QED BY <1>2, <2>1, Zenon DEF ReqPlaces
<1>6. CASE ubbd_queue_rq(r)
  <2> DEFINE q == driver_data[hctx[r]]
  <2>1. q \in Queues
    BY <1>1, Zenon
  <2> HIDE DEF q
  <2>2. CASE QuietMove(r, "free", ubbd_q[r], req_tid[r])
    BY <1>2, <2>2, Zenon DEF ReqPlaces
  <2>3. CASE QuietMove(r, "started", q, 0)
    BY <2>1, <2>3, QuietStep, Zenon DEF ReqPlaces
  <2>4. \/ QuietMove(r, "free", ubbd_q[r], req_tid[r])
        \/ QuietMove(r, "started", q, 0)
    BY <1>1, <1>3, <1>6, Zenon DEF ubbd_queue_rq, QuietMove, q
  <2> QED BY <2>2, <2>3, <2>4, Zenon
<1>7. CASE queue_work(r)
  <2>1. QuietMove(r, "pending", ubbd_q[r], req_tid[r])
    BY <1>1, <1>3, <1>4, <1>7, Zenon DEF queue_work, QuietMove
  <2> QED BY <1>2, <2>1, Zenon DEF ReqPlaces
<1>8. CASE workfn_check(r)
  <2>1. \E x \in {"free", "dispatch", "prepare"} : QuietMove(r, x, ubbd_q[r], req_tid[r])
    BY <1>1, <1>3, <1>4, <1>8 DEF workfn_check, Flushed, QuietMove
  <2> QED BY <1>2, <2>1, Zenon DEF ReqPlaces
<1>9. CASE workfn_prepare(r) /\ UNCHANGED inflight
  <2>1. CASE rpc' = [rpc EXCEPT ![r] = "dispatch"]
    <3>1. QuietMove(r, "dispatch", ubbd_q[r], req_tid[r])
      BY <1>1, <1>3, <1>9, <2>1 DEF workfn_prepare, Flushed, QuietMove
    <3> QED BY <1>2, <3>1, Zenon DEF ReqPlaces
  <2>2. CASE rpc' # [rpc EXCEPT ![r] = "dispatch"]
    <3>1. r \in inflight'[ubbd_q[r]] /\ rpc[r] = "prepare"
      BY <1>1, <1>9, <2>2 DEF workfn_prepare, QueueInv, QueueType, ReqType
    <3> QED BY <1>1, <1>9, <3>1, Zenon DEF QueueInv, OneOwner
  <2> QED BY <2>1, <2>2, Zenon
<1> QED BY <1>5, <1>6, <1>7, <1>8, <1>9, Zenon

(* A worker puts its request on the inflight list of a queue that no       *)
(* removal has passed.                                                     *)
LEMMA PrepareStep ==
    ASSUME QueueInv, NEW r \in Reqs, workfn_prepare(r)
    PROVE  QueueInv'
<1> DEFINE q == ubbd_q[r]
<1>1. CASE UNCHANGED inflight
  BY <1>1, WorkerQuiet, Zenon
<1>2. CASE /\ inflight' = [inflight EXCEPT ![q] = @ \cup {r}]
           /\ rpc' = [rpc EXCEPT ![r] = "listed"]
           /\ UNCHANGED flush
  <2>1. UNCHANGED <<status, driver_data, dev_status, stopping, flush, hctx, ubbd_q, req_tid,
                    q_tid, compr, answered, comp, rm>>
    BY <1>2, Zenon DEF workfn_prepare, qvars, bvars
  <2>2. QueueType'
    BY <1>2, <2>1 DEF QueueInv, QueueType, StatusType, ReqType, IdType, ActorType, ReqPlaces
  <2>3. /\ rpc[r] = "prepare" /\ rpc'[r] = "listed" /\ q \in Queues
        /\ \A s \in Reqs \ {r} : rpc'[s] = rpc[s]
        /\ inflight'[q] = inflight[q] \cup {r}
        /\ \A p \in Queues \ {q} : inflight'[p] = inflight[p]
    BY <1>2, Zenon DEF workfn_prepare, QueueInv, QueueType, ReqType
  <2>4. /\ \A p \in Queues : inflight[p] \subseteq Reqs \ {r}
        /\ \A c \in Completers : comp[c].holds \subseteq Reqs \ {r}
        /\ \A m \in Removers : rm[m].list \subseteq Reqs \ {r}
    BY <2>3 DEF QueueInv, QueueType, ReqType, ActorType, CompRec, RmRec, OneOwner
  <2>5. ubbd_q \in [Reqs -> Queues]
    BY Zenon DEF QueueInv, QueueType, ReqType
  <2> HIDE DEF q
  <2>6. OneOwner'
    BY <2>1, <2>3, <2>4, <2>5 DEF QueueInv, OneOwner, q
  <2>7. Ids'
    BY <2>1, <2>3 DEF QueueInv, Ids
  <2>8. Completing'
    BY <2>1, Zenon DEF QueueInv, Completing
  <2>9. \A p : PastCheck(p)' = PastCheck(p)
    BY <2>1, <2>3, Zenon DEF PastCheck
  <2>10. r \in PastCheck(q)
    BY <2>3, Zenon DEF PastCheck, q
  <2>11. Removing'
    BY <2>1, <2>3, <2>9, <2>10 DEF QueueInv, Removing, Passed
  <2>12. Stopping'
    BY <2>1, <2>9, Zenon DEF QueueInv, Stopping, InflightLocked
  <2>13. GoneIsKept'
    BY <2>1, Zenon DEF QueueInv, GoneIsKept, Gone
  <2> QED BY <2>2, <2>6, <2>7, <2>8, <2>11, <2>12, <2>13, Zenon DEF QueueInv
<1> QED BY <1>1, <1>2, Zenon DEF workfn_prepare

(* A worker takes an id and publishes the command, or gives up for lack of *)
(* space; in both cases it leaves task_wq.                                 *)
LEMMA SubmitStep ==
    ASSUME QueueInv, NEW r \in Reqs, workfn_submit(r)
    PROVE  QueueInv'
<1> DEFINE q == ubbd_q[r]
<1>1. UNCHANGED <<status, driver_data, dev_status, stopping, hctx, ubbd_q, compr, answered,
                  comp, rm>>
  BY Zenon DEF workfn_submit, qvars, bvars
<1>2. /\ rpc[r] = "listed" /\ q \in Queues /\ ubbd_q \in [Reqs -> Queues]
      /\ \A s \in Reqs \ {r} : rpc'[s] = rpc[s] /\ req_tid'[s] = req_tid[s]
      /\ \A p \in Queues \ {q} : inflight'[p] = inflight[p] /\ q_tid'[p] = q_tid[p]
      /\ \/ /\ rpc'[r] = "submitted" /\ req_tid'[r] = q_tid[q] + 1
            /\ q_tid'[q] = q_tid[q] + 1 /\ inflight'[q] = inflight[q]
         \/ /\ rpc'[r] = "dispatch"
            /\ q_tid'[q] = q_tid[q] /\ inflight'[q] = inflight[q] \ {r}
  BY DEF workfn_submit, QueueInv, QueueType, ReqType, IdType
<1>3. flush' = [f \in Flushers |-> flush[f] \ {r}]
  BY Zenon DEF workfn_submit, Flushed
<1>4. \A p \in Queues : q_tid[p] \in Nat /\ q_tid'[p] \in Nat
  BY DEF workfn_submit, QueueInv, QueueType, ReqType, IdType
<1>5. QueueType'
  <2>1. ReqType' /\ IdType'
    BY <1>1 DEF QueueInv, QueueType, ReqType, IdType, ReqPlaces, workfn_submit
  <2>2. StatusType' /\ ActorType'
    BY <1>1, <1>3, Zenon DEF QueueInv, QueueType, StatusType, ActorType
  <2> QED BY <2>1, <2>2, Zenon DEF QueueType
<1>6. /\ \A c \in Completers : comp[c].holds \subseteq Reqs \ {r}
      /\ \A m \in Removers : rm[m].list \subseteq Reqs \ {r}
      /\ \A p \in Queues : r \in inflight[p] => p = q
  BY <1>2, Zenon DEF QueueInv, QueueType, ReqType, ActorType, CompRec, RmRec, OneOwner
<1> HIDE DEF q
<1>7. OneOwner'
  BY <1>1, <1>2, <1>6 DEF QueueInv, QueueType, ReqType, OneOwner, q
<1>8. Ids'
  <2>1. \A s \in Reqs : /\ rpc[s] = "submitted" => req_tid[s] <= q_tid[ubbd_q[s]]
                        /\ req_tid[s] \in Nat
    BY Zenon DEF QueueInv, QueueType, ReqType, Ids
  <2>2. \A p \in Queues : answered[p] \subseteq Nat
    BY Zenon DEF QueueInv, QueueType, IdType
  <2>3. \A s \in Reqs : rpc'[s] = "submitted" =>
            req_tid'[s] > 0 /\ req_tid'[s] <= q_tid'[ubbd_q[s]]
    <3> SUFFICES ASSUME NEW s \in Reqs, rpc'[s] = "submitted"
                 PROVE  req_tid'[s] > 0 /\ req_tid'[s] <= q_tid'[ubbd_q[s]]
      BY Zenon
    <3>1. CASE s = r
      BY <1>2, <1>4, <3>1 DEF q
    <3>2. CASE s # r
      <4>1. /\ rpc[s] = "submitted" /\ req_tid'[s] = req_tid[s] /\ ubbd_q[s] \in Queues
            /\ req_tid[s] > 0 /\ req_tid[s] <= q_tid[ubbd_q[s]]
        BY <1>2, <3>2, Zenon DEF QueueInv, Ids
      <4>2. q_tid[ubbd_q[s]] <= q_tid'[ubbd_q[s]]
        BY <1>2, <1>4, <4>1, SMTT(30)
      <4> QED BY <1>4, <2>1, <4>1, <4>2, SMTT(30)
    <3> QED BY <3>1, <3>2, Zenon
  <2>4. ASSUME NEW s1 \in Reqs, NEW s2 \in Reqs,
               rpc'[s1] = "submitted", rpc'[s2] = "submitted",
               ubbd_q[s1] = ubbd_q[s2], req_tid'[s1] = req_tid'[s2]
        PROVE  s1 = s2
    BY <1>1, <1>2, <1>4, <2>1, <2>4, SMTT(30) DEF QueueInv, Ids, q
  <2>5. \A p \in Queues : \A u \in answered[p] : u > 0 /\ u <= q_tid'[p]
    BY <1>2, <1>4, <2>2 DEF QueueInv, Ids
  <2> QED BY <1>1, <1>2, <2>3, <2>4, <2>5, Zenon DEF QueueInv, Ids
<1>9. Completing'
  BY <1>1, <1>2, <1>6 DEF QueueInv, Completing
<1>10. \A p : PastCheck(p)' = PastCheck(p) \ {r}
  BY <1>1, <1>2, Zenon DEF PastCheck
<1>11. r \in PastCheck(q)
  BY <1>2, Zenon DEF PastCheck, q
<1>12. Removing'
  BY <1>1, <1>2, <1>3, <1>10, <1>11, Indexes DEF QueueInv, Removing, Passed
<1>13. Stopping'
  BY <1>1, <1>3, <1>10, Indexes, Zenon DEF QueueInv, Stopping, InflightLocked
<1>14. GoneIsKept'
  BY <1>1, Zenon DEF QueueInv, GoneIsKept, Gone
<1> QED BY <1>5, <1>7, <1>8, <1>9, <1>12, <1>13, <1>14 DEF QueueInv

(* The backend answers ids that were handed out. *)
LEMMA BackendStep ==
    ASSUME QueueInv, NEW q \in Queues, NEW t \in 1 .. q_tid[q],
           backend_post(q, t) \/ backend_repost(q, t)
    PROVE  QueueInv'
<1>1. UNCHANGED <<status, driver_data, dev_status, stopping, inflight, rpc, hctx, ubbd_q,
                  req_tid, q_tid, comp, rm, flush>>
  BY Zenon DEF backend_post, backend_repost, qvars, rvars
<1>2. q_tid[q] \in Nat
  BY Zenon DEF QueueInv, QueueType, IdType
<1>3. /\ compr'[q] = compr[q] \cup {t} /\ answered'[q] = answered[q] \cup {t}
      /\ \A p \in Queues \ {q} : compr'[p] = compr[p] /\ answered'[p] = answered[p]
  BY Zenon DEF backend_post, backend_repost, QueueInv, QueueType, IdType
<1>4. QueueType'
  <2>1. IdType'
    BY <1>1, <1>2 DEF QueueInv, QueueType, IdType, backend_post, backend_repost
  <2> QED BY <1>1, <2>1, Zenon DEF QueueInv, QueueType, StatusType, ReqType, ActorType
<1>5. Ids'
  BY <1>1, <1>2, <1>3 DEF QueueInv, Ids
<1>6. Completing'
  BY <1>1, <1>3, Zenon DEF QueueInv, QueueType, ActorType, CompRec, Completing
<1>7. OneOwner' /\ GoneIsKept'
  BY <1>1 DEF QueueInv, OneOwner, GoneIsKept, Gone
<1>8. Removing' /\ Stopping'
  BY <1>1 DEF QueueInv, Removing, Stopping, Passed, PastCheck, InflightLocked
<1> QED BY <1>4, <1>5, <1>6, <1>7, <1>8, Zenon DEF QueueInv

(* A step of completer c, to v, in which it holds no request before or     *)
(* after: it enters, takes an entry, or finds no request for it.           *)
LookMove(c, v) ==
    /\ comp[c].holds = {} /\ v.holds = {}
    /\ v.pc \in {"idle", "pop", "fetch"}
    /\ v.pc = "fetch" => v.tid \in answered[v.q]
    /\ comp[c].pc # "settle"
    /\ comp' = [comp EXCEPT ![c] = v]
    /\ compr' \in [Queues -> SUBSET Nat]
    /\ \A q \in Queues : compr'[q] \subseteq compr[q]
    /\ UNCHANGED <<qvars, rvars, answered, rm, flush>>

(* Such a step preserves the invariant. *)
LEMMA LookStep ==
    ASSUME QueueInv, NEW c \in Completers, NEW v \in CompRec, LookMove(c, v)
    PROVE  QueueInv'
<1>1. UNCHANGED <<status, driver_data, dev_status, stopping, inflight, rpc, hctx, ubbd_q,
                  req_tid, q_tid, answered, rm, flush>>
  BY Zenon DEF LookMove, qvars, rvars
<1>2. /\ comp'[c] = v
      /\ \A d \in Completers \ {c} : comp'[d] = comp[d]
      /\ comp' \in [Completers -> CompRec]
  BY Zenon DEF QueueInv, QueueType, ActorType, LookMove
<1>3. QueueType'
  BY <1>1, <1>2, Zenon DEF QueueInv, QueueType, StatusType, ReqType, IdType, ActorType, LookMove
<1>4. OneOwner'
  BY <1>1, <1>2 DEF QueueInv, OneOwner, LookMove
<1>5. Ids'
  BY <1>1, Zenon DEF QueueInv, Ids, LookMove
<1>6. Completing'
  BY <1>1, <1>2 DEF QueueInv, Completing, LookMove
<1>7. Removing' /\ GoneIsKept'
  BY <1>1 DEF QueueInv, Removing, GoneIsKept, Gone, Passed, PastCheck
<1>8. Stopping'
  BY <1>1, <1>2 DEF QueueInv, Stopping, InflightLocked, PastCheck, LookMove
<1> QED BY <1>3, <1>4, <1>5, <1>6, <1>7, <1>8, Zenon DEF QueueInv

(* The steps of a completer up to the request it looks for. *)
LEMMA CompleterLooks ==
    ASSUME QueueInv, NEW c \in Completers,
           \/ \E q \in Queues : complete_enter(c, q)
           \/ complete_pop(c)
           \/ fetch_inflight_req(c) /\ UNCHANGED inflight
    PROVE  QueueInv'
<1>1. /\ compr \in [Queues -> SUBSET Nat] /\ comp[c] \in CompRec
      /\ comp \in [Completers -> CompRec] /\ IdleComp \in CompRec
  BY Indexes, Zenon DEF QueueInv, QueueType, IdType, ActorType, IdleComp, CompRec
<1>2. comp[c].pc \in {"idle", "pop", "fetch"} => comp[c].holds = {}
  BY Zenon DEF QueueInv, Completing
<1>3. ASSUME NEW q \in Queues, complete_enter(c, q) PROVE QueueInv'
  <2> DEFINE v == [IdleComp EXCEPT !.pc = "pop", !.q = q]
  <2>1. v \in CompRec /\ v.holds = {} /\ v.pc = "pop"
    BY Zenon DEF IdleComp, CompRec
  <2> HIDE DEF v
  <2>2. LookMove(c, v)
    BY <1>1, <1>2, <1>3, <2>1, Zenon DEF complete_enter, LookMove, v, bvars
  <2> QED BY <2>1, <2>2, LookStep, Zenon
<1>4. CASE complete_pop(c) /\ comp' = [comp EXCEPT ![c] = IdleComp] /\ UNCHANGED compr
  <2>1. LookMove(c, IdleComp)
    BY <1>1, <1>2, <1>4, Zenon DEF complete_pop, LookMove, IdleComp
  <2> QED BY <1>1, <2>1, LookStep, Zenon
<1>5. ASSUME complete_pop(c), NEW t \in compr[comp[c].q],
             compr' = [compr EXCEPT ![comp[c].q] = @ \ {t}],
             comp' = [comp EXCEPT ![c].pc = "fetch", ![c].tid = t]
      PROVE  QueueInv'
  <2> DEFINE v == [comp[c] EXCEPT !.pc = "fetch", !.tid = t]
  <2>1. v \in CompRec /\ v.holds = comp[c].holds /\ v.pc = "fetch" /\ v.tid = t
        /\ v.q = comp[c].q
    BY <1>1, Zenon DEF CompRec
  <2>2. comp' = [comp EXCEPT ![c] = v]
    BY <1>1, <1>5, Zenon
  <2>3. t \in answered[comp[c].q]
    BY <1>1, Zenon DEF QueueInv, Ids, CompRec
  <2> HIDE DEF v
  <2>4. LookMove(c, v)
    BY <1>1, <1>2, <1>5, <2>1, <2>2, <2>3, Zenon DEF complete_pop, LookMove
  <2> QED BY <2>1, <2>4, LookStep, Zenon
<1>6. CASE fetch_inflight_req(c) /\ UNCHANGED inflight
  <2> DEFINE v == [comp[c] EXCEPT !.pc = "pop"]
  <2>1. v \in CompRec /\ v.holds = comp[c].holds /\ v.pc = "pop"
    BY <1>1, Zenon DEF CompRec
  <2>2. comp' = [comp EXCEPT ![c].pc = "pop"]
    <3>1. inflight \in [Queues -> SUBSET Reqs] /\ comp[c].q \in Queues
      BY <1>1, Zenon DEF QueueInv, QueueType, ReqType, CompRec
    <3> QED BY <1>6, <3>1 DEF fetch_inflight_req
  <2>3. comp' = [comp EXCEPT ![c] = v]
    BY <1>1, <2>2, Zenon
  <2> HIDE DEF v
  <2>4. LookMove(c, v)
    BY <1>1, <1>2, <1>6, <2>1, <2>3, Zenon DEF fetch_inflight_req, LookMove, rvars, bvars
  <2> QED BY <2>1, <2>4, LookStep, Zenon
<1> QED BY <1>3, <1>4, <1>5, <1>6, Zenon DEF complete_pop

(* A completer takes the request that its entry names off the list. *)
LEMMA FetchStep ==
    ASSUME QueueInv, NEW c \in Completers, fetch_inflight_req(c)
    PROVE  QueueInv'
<1> DEFINE q == comp[c].q
<1>1. CASE UNCHANGED inflight
  BY <1>1, CompleterLooks, Zenon
<1>2. ASSUME NEW r \in inflight[q], req_tid[r] = comp[c].tid,
             inflight' = [inflight EXCEPT ![q] = @ \ {r}],
             comp' = [comp EXCEPT
                ![c].pc = IF status[q] = "STOPPING" /\ inflight[q] = {r}
                            THEN "settle" ELSE "end",
                ![c].holds = {r}]
      PROVE  QueueInv'
  <2>1. UNCHANGED <<status, driver_data, dev_status, stopping, rpc, hctx, ubbd_q, req_tid,
                    q_tid, compr, answered, rm, flush>>
    BY Zenon DEF fetch_inflight_req, qvars, bvars
  <2>2. /\ comp \in [Completers -> CompRec] /\ comp[c] \in CompRec /\ q \in Queues
        /\ inflight \in [Queues -> SUBSET Reqs] /\ r \in Reqs
        /\ ubbd_q \in [Reqs -> Queues]
    BY Zenon DEF QueueInv, QueueType, ActorType, ReqType, CompRec
  <2> DEFINE p == IF status[q] = "STOPPING" /\ inflight[q] = {r} THEN "settle" ELSE "end"
             v == [comp[c] EXCEPT !.pc = p, !.holds = {r}]
  <2>3. p \in {"settle", "end"} /\ (p = "settle" => status[q] = "STOPPING")
    BY Zenon
  <2>4. comp' = [comp EXCEPT ![c] = v]
    BY <1>2, <2>2, Zenon
  <2> HIDE DEF p
  <2>5. /\ v \in CompRec /\ v.pc = p /\ v.q = q /\ v.tid = comp[c].tid /\ v.holds = {r}
    BY <2>2, <2>3, Zenon DEF CompRec
  <2> HIDE DEF v
  <2>6. /\ comp'[c] = v /\ comp' \in [Completers -> CompRec]
        /\ \A d \in Completers \ {c} : comp'[d] = comp[d]
        /\ inflight'[q] = inflight[q] \ {r}
        /\ \A u \in Queues \ {q} : inflight'[u] = inflight[u]
    <3>1. /\ comp'[c] = v /\ comp' \in [Completers -> CompRec]
          /\ \A d \in Completers \ {c} : comp'[d] = comp[d]
      BY <2>2, <2>4, <2>5, Zenon
    <3>2. /\ inflight'[q] = inflight[q] \ {r}
          /\ \A u \in Queues \ {q} : inflight'[u] = inflight[u]
      BY <1>2, <2>2, Zenon
    <3> QED BY <3>1, <3>2, Zenon
  <2>7. QueueType'
    BY <1>2, <2>1, <2>2, <2>6, Zenon DEF QueueInv, QueueType, StatusType, ReqType, IdType, ActorType
  <2>8. comp[c].pc = "fetch" /\ comp[c].tid \in answered[q] /\ comp[c].tid > 0
    BY <2>2, Zenon DEF fetch_inflight_req, QueueInv, Completing, Ids
  <2>9. rpc[r] = "submitted" /\ ubbd_q[r] = q
    BY <1>2, <2>2, <2>8 DEF QueueInv, OneOwner, Ids
  <2>10. /\ \A d \in Completers : r \notin comp[d].holds
         /\ \A m \in Removers : r \notin rm[m].list
    BY <1>2, <2>9, Zenon DEF QueueInv, OneOwner
  <2> HIDE DEF q
  <2>11. OneOwner'
    <3>1. /\ \A u \in Queues : \A s \in inflight'[u] :
                rpc[s] \in {"listed", "submitted"} /\ ubbd_q[s] = u
          /\ \A s \in Reqs : rpc[s] = "listed" => s \in inflight'[ubbd_q[s]]
      BY <2>2, <2>6, <2>9 DEF QueueInv, OneOwner
    <3>2. \A s \in Reqs : inflight'[ubbd_q[s]] \subseteq inflight[ubbd_q[s]] \ {r}
      BY <2>2, <2>6, <2>9 DEF QueueInv, OneOwner
    <3>3. ASSUME NEW d \in Completers, NEW s \in comp'[d].holds
          PROVE  /\ rpc[s] = "submitted"
                 /\ s \notin inflight'[ubbd_q[s]]
                 /\ \A e \in Completers \ {d} : s \notin comp'[e].holds
                 /\ \A m \in Removers : s \notin rm[m].list
      <4>1. CASE d = c
        BY <2>2, <2>5, <2>6, <2>9, <2>10, <3>2, <4>1
      <4>2. CASE d # c
        <5>1. s \in comp[d].holds /\ s # r /\ s \in Reqs
          BY <2>2, <2>6, <2>10, <4>2 DEF CompRec
        <5> QED BY <2>5, <2>6, <3>2, <4>2, <5>1 DEF QueueInv, OneOwner
      <4> QED BY <4>1, <4>2, Zenon
    <3>4. \A m \in Removers : \A s \in rm[m].list : s \in Reqs
      BY Zenon DEF QueueInv, QueueType, ActorType, RmRec
    <3> QED BY <2>1, <3>1, <3>2, <3>3, <3>4 DEF QueueInv, OneOwner
  <2>12. Ids'
    BY <2>1, Zenon DEF QueueInv, Ids
  <2>13. Completing'
    <3> SUFFICES ASSUME NEW d \in Completers
                 PROVE  /\ comp'[d].pc \in {"idle", "pop", "fetch"} => comp'[d].holds = {}
                        /\ comp'[d].pc \in {"fetch", "settle", "end"}
                              => comp'[d].tid \in answered[comp'[d].q]
                        /\ \A s \in comp'[d].holds :
                              req_tid[s] = comp'[d].tid /\ ubbd_q[s] = comp'[d].q
      BY <2>1, Zenon DEF Completing
    <3>1. CASE d = c
      <4>1. /\ comp'[d].pc = p /\ comp'[d].q = q
            /\ comp'[d].tid = comp[c].tid /\ comp'[d].holds = {r}
        BY <2>5, <2>6, <3>1, Zenon
      <4>2. p \notin {"idle", "pop", "fetch"}
        BY <2>3, Zenon
      <4>3. comp[c].tid \in answered[q] /\ req_tid[r] = comp[c].tid /\ ubbd_q[r] = q
        BY <1>2, <2>8, <2>9, Zenon
      <4> QED BY <4>1, <4>2, <4>3, Zenon
    <3>2. CASE d # c
      BY <2>6, <3>2 DEF QueueInv, Completing
    <3> QED BY <3>1, <3>2, Zenon
  <2>14. Removing'
    <3>1. \A u : PastCheck(u)' = PastCheck(u)
      BY <2>1, Zenon DEF PastCheck
    <3>2. \A u \in Queues : inflight'[u] \subseteq inflight[u]
      BY <2>6, Zenon
    <3>3. \A n, u : Passed(n, u)' = Passed(n, u)
      BY <2>1, Zenon DEF Passed
    <3>4. Removing
      BY Zenon DEF QueueInv
    <3> QED BY <2>1, <3>1, <3>2, <3>3, <3>4, Zenon DEF Removing
  <2>15. Stopping'
    <3>1. Stopping
      BY DEF QueueInv
    <3>2. \A u : PastCheck(u)' = PastCheck(u)
      BY <2>1, Zenon DEF PastCheck
    <3>3. \A d \in Completers : comp'[d].pc = "settle" =>
              \/ comp[d].pc = "settle" /\ comp'[d] = comp[d]
              \/ comp'[d].q = q /\ status[q] = "STOPPING"
      BY <2>3, <2>5, <2>6
    <3>4. \A d \in Completers : comp'[d].pc = "settle" => status[comp'[d].q] # "RUNNING"
      BY <3>1, <3>3 DEF Stopping
    <3>5. \A u \in Queues : InflightLocked(u)' => InflightLocked(u) \/ status[u] = "STOPPING"
      BY <3>3, Zenon DEF InflightLocked
    <3> QED BY <2>1, <3>1, <3>2, <3>4, <3>5 DEF Stopping
  <2>16. GoneIsKept'
    BY <2>1, Zenon DEF QueueInv, GoneIsKept, Gone
  <2> QED BY <2>7, <2>11, <2>12, <2>13, <2>14, <2>15, <2>16, Zenon DEF QueueInv
<1> QED BY <1>1, <1>2, Zenon DEF fetch_inflight_req

(* The STOPPED that a completer writes does not make a queue RUNNING, and  *)
(* no worker of the queue is past the check behind the stop.               *)
LEMMA SettleStep ==
    ASSUME QueueInv, NEW c \in Completers, fetch_settle(c)
    PROVE  QueueInv'
<1> DEFINE q == comp[c].q
           v == [comp[c] EXCEPT !.pc = "end"]
<1>1. UNCHANGED <<driver_data, dev_status, stopping, inflight, rpc, hctx, ubbd_q, req_tid,
                  q_tid, compr, answered, rm, flush>>
  BY Zenon DEF fetch_settle, rvars, bvars
<1>2. /\ comp \in [Completers -> CompRec] /\ comp[c] \in CompRec /\ q \in Queues
      /\ comp[c].pc = "settle"
  BY Zenon DEF QueueInv, QueueType, ActorType, CompRec, fetch_settle
<1>3. comp' = [comp EXCEPT ![c] = v]
  BY <1>2, Zenon DEF fetch_settle
<1>4. v \in CompRec /\ v.pc = "end" /\ v.q = q /\ v.tid = comp[c].tid /\ v.holds = comp[c].holds
  BY <1>2, Zenon DEF CompRec
<1> HIDE DEF v
<1>5. /\ comp'[c] = v /\ comp' \in [Completers -> CompRec]
      /\ \A d \in Completers \ {c} : comp'[d] = comp[d]
  BY <1>2, <1>3, <1>4, Zenon
<1>6. status'[q] = "STOPPED" /\ \A u \in Queues \ {q} : status'[u] = status[u]
  BY <1>2, Zenon DEF fetch_settle, QueueInv, QueueType, StatusType
<1>7. QueueType'
  BY <1>1, <1>2, <1>5, Zenon
     DEF fetch_settle, QueueInv, QueueType, StatusType, ReqType, IdType, ActorType
<1> HIDE DEF q
<1>8. OneOwner'
  BY <1>1, <1>4, <1>5 DEF QueueInv, OneOwner
<1>9. Ids'
  BY <1>1, Zenon DEF QueueInv, Ids
<1>10. Completing'
  <2> SUFFICES ASSUME NEW d \in Completers
               PROVE  /\ comp'[d].pc \in {"idle", "pop", "fetch"} => comp'[d].holds = {}
                      /\ comp'[d].pc \in {"fetch", "settle", "end"}
                            => comp'[d].tid \in answered[comp'[d].q]
                      /\ \A s \in comp'[d].holds :
                            req_tid[s] = comp'[d].tid /\ ubbd_q[s] = comp'[d].q
    BY <1>1, Zenon DEF Completing
  <2>1. Completing
    BY Zenon DEF QueueInv
  <2>2. CASE d = c
    <3>1. comp[c].tid \in answered[q]
      BY <1>2, <2>1, Zenon DEF Completing, q
    <3>2. \A s \in comp[c].holds : req_tid[s] = comp[c].tid /\ ubbd_q[s] = q
      BY <2>1, Zenon DEF Completing, q
    <3> QED BY <1>4, <1>5, <2>2, <3>1, <3>2, Zenon
  <2>3. CASE d # c
    BY <1>5, <2>1, <2>3 DEF Completing
  <2> QED BY <2>2, <2>3, Zenon
<1>11. \A u : PastCheck(u)' = PastCheck(u)
  BY <1>1, Zenon DEF PastCheck
<1>12. \A u \in Queues : status[u] # "RUNNING" => status'[u] # "RUNNING"
  BY <1>6, Zenon
<1>13. Removing'
  <2>1. Removing
    BY Zenon DEF QueueInv
  <2>2. \A n, u : Passed(n, u)' = Passed(n, u)
    BY <1>1, Zenon DEF Passed
  <2>3. \A n \in Removers : rm[n].pc = "flush" => rm[n].i \in Queues
    BY <2>1, Indexes DEF QueueInv, QueueType, ActorType, RmRec, Removing
  <2> QED BY <1>1, <1>11, <1>12, <2>1, <2>2, <2>3, Zenon DEF Removing
<1>14. Stopping'
  <2>1. Stopping
    BY Zenon DEF QueueInv
  <2>2. \A d \in Completers : comp'[d].pc = "settle" =>
            comp[d].pc = "settle" /\ comp'[d] = comp[d] /\ comp[d].q \in Queues
    BY <1>2, <1>4, <1>5, Zenon DEF CompRec
  <2>3. \A u : InflightLocked(u)' => InflightLocked(u)
    BY <2>2, Zenon DEF InflightLocked
  <2>4. InflightLocked(q)
    BY <1>2, Zenon DEF InflightLocked, q
  <2>5. \A u \in Queues :
            status'[u] \in {"STOPPING", "STOPPED"} \/ InflightLocked(u)'
            => status[u] \in {"STOPPING", "STOPPED"} \/ InflightLocked(u)
    BY <1>6, <2>3, <2>4, Zenon
  <2>6. \A u \in Queues : stopping = u => status'[u] \in {"STOPPING", "STOPPED"}
    BY <1>6, <2>1, Zenon DEF Stopping
  <2>7. \A d \in Completers : comp'[d].pc = "settle" => status'[comp'[d].q] # "RUNNING"
    BY <1>12, <2>1, <2>2, Zenon DEF Stopping
  <2> QED BY <1>1, <1>11, <2>1, <2>5, <2>6, <2>7, Zenon DEF Stopping
<1>15. GoneIsKept'
  BY <1>1, <1>6, Zenon DEF QueueInv, GoneIsKept, Gone
<1> QED BY <1>7, <1>8, <1>9, <1>10, <1>13, <1>14, <1>15 DEF QueueInv

(* Owners that only give up requests, and leave the others where they are, *)
(* stay exclusive.                                                         *)
LEMMA OwnersGiveUp ==
    ASSUME OneOwner, UNCHANGED <<inflight, ubbd_q>>,
           \A u \in Queues : \A s \in inflight[u] : rpc'[s] = rpc[s],
           \A c \in Completers : comp'[c].holds \subseteq comp[c].holds
                                 /\ \A s \in comp'[c].holds : rpc'[s] = rpc[s],
           \A m \in Removers : rm'[m].list \subseteq rm[m].list
                               /\ \A s \in rm'[m].list : rpc'[s] = rpc[s],
           \A s \in Reqs : rpc'[s] = "listed" => rpc[s] = "listed"
    PROVE  OneOwner'
<1>1. /\ \A q \in Queues : \A r \in inflight'[q] :
            rpc'[r] \in {"listed", "submitted"} /\ ubbd_q'[r] = q
      /\ \A r \in Reqs : rpc'[r] = "listed" => r \in inflight'[ubbd_q'[r]]
  BY DEF OneOwner
<1>2. ASSUME NEW c \in Completers, NEW r \in comp'[c].holds
      PROVE  /\ rpc'[r] = "submitted"
             /\ r \notin inflight'[ubbd_q'[r]]
             /\ \A d \in Completers \ {c} : r \notin comp'[d].holds
             /\ \A m \in Removers : r \notin rm'[m].list
  BY <1>2 DEF OneOwner
<1>3. ASSUME NEW m \in Removers, NEW r \in rm'[m].list
      PROVE  /\ rpc'[r] = "submitted"
             /\ r \notin inflight'[ubbd_q'[r]]
             /\ \A n \in Removers \ {m} : r \notin rm'[n].list
  BY <1>3 DEF OneOwner
<1> QED BY <1>1, <1>2, <1>3, Zenon DEF OneOwner

(* A completer ends the request it holds, which nobody else has. *)
LEMMA EndStep ==
    ASSUME QueueInv, NEW c \in Completers, complete_end(c)
    PROVE  QueueInv'
<1> DEFINE v == [comp[c] EXCEPT !.pc = "pop", !.holds = {}]
<1>1. UNCHANGED <<status, driver_data, dev_status, stopping, inflight, hctx, ubbd_q, req_tid,
                  q_tid, compr, answered, rm, flush>>
  BY Zenon DEF complete_end, qvars, bvars
<1>2. /\ comp \in [Completers -> CompRec] /\ comp[c] \in CompRec
      /\ rpc \in [Reqs -> ReqPlaces] /\ comp[c].pc = "end"
      /\ ubbd_q \in [Reqs -> Queues]
  BY Zenon DEF QueueInv, QueueType, ActorType, ReqType, complete_end
<1>3. comp' = [comp EXCEPT ![c] = v]
  BY <1>2, Zenon DEF complete_end
<1>4. v \in CompRec /\ v.pc = "pop" /\ v.holds = {}
  BY <1>2, Zenon DEF CompRec
<1> HIDE DEF v
<1>5. /\ comp'[c] = v /\ comp' \in [Completers -> CompRec]
      /\ \A d \in Completers \ {c} : comp'[d] = comp[d]
  BY <1>2, <1>3, <1>4, Zenon
<1>6. /\ rpc' \in [Reqs -> ReqPlaces]
      /\ \A s \in Reqs \ comp[c].holds : rpc'[s] = rpc[s]
      /\ \A s \in Reqs \cap comp[c].holds : rpc'[s] = "free" /\ rpc[s] = "submitted"
  BY <1>2, Zenon DEF complete_end, ReqPlaces, QueueInv, OneOwner
<1>7. QueueType'
  BY <1>1, <1>5, <1>6, Zenon DEF QueueInv, QueueType, StatusType, ReqType, IdType, ActorType
<1>8. OneOwner'
  <2>1. /\ \A u \in Queues : \A s \in inflight[u] :
              s \in Reqs /\ s \notin comp[c].holds /\ rpc'[s] = rpc[s]
        /\ \A m \in Removers : \A s \in rm[m].list :
              s \in Reqs /\ s \notin comp[c].holds /\ rpc'[s] = rpc[s]
    BY <1>6 DEF QueueInv, QueueType, ReqType, ActorType, RmRec, OneOwner
  <2>2. \A d \in Completers \ {c} : \A s \in comp[d].holds :
              s \in Reqs /\ s \notin comp[c].holds /\ rpc'[s] = rpc[s]
    BY <1>2, <1>6, Zenon DEF QueueInv, CompRec, OneOwner
  <2>3. \A d \in Completers : comp'[d].holds \subseteq comp[d].holds
                               /\ \A s \in comp'[d].holds : rpc'[s] = rpc[s]
    BY <1>4, <1>5, <2>2, Zenon
  <2>4. \A s \in Reqs : rpc'[s] = "listed" => rpc[s] = "listed"
    BY <1>6, Zenon
  <2>5. OneOwner
    BY Zenon DEF QueueInv
  <2> QED BY <1>1, <2>1, <2>3, <2>4, <2>5, OwnersGiveUp
<1>9. Ids'
  BY <1>1, <1>6 DEF QueueInv, Ids
<1>10. Completing'
  BY <1>1, <1>4, <1>5 DEF QueueInv, Completing
<1>11. \A u : PastCheck(u)' = PastCheck(u)
  BY <1>1, <1>6, Zenon DEF PastCheck
<1>12. Removing'
  BY <1>1, <1>11, Zenon DEF QueueInv, Removing, Passed
<1>13. Stopping'
  <2>1. \A d \in Completers : comp'[d].pc = "settle" => d # c /\ comp'[d] = comp[d]
    BY <1>4, <1>5, Zenon
  <2>2. \A u : InflightLocked(u)' => InflightLocked(u)
    BY <2>1, Zenon DEF InflightLocked
  <2>3. Stopping
    BY DEF QueueInv
  <2>4. \A d \in Completers : comp'[d].pc = "settle" => status[comp'[d].q] # "RUNNING"
    BY <2>1, <2>3, Zenon DEF Stopping
  <2> QED BY <1>1, <1>11, <2>2, <2>3, <2>4, Zenon DEF Stopping
<1>14. GoneIsKept'
  BY <1>1, Zenon DEF QueueInv, GoneIsKept, Gone
<1> QED BY <1>7, <1>8, <1>9, <1>10, <1>12, <1>13, <1>14 DEF QueueInv

-----------------------------------------------------------------------------
(* The end of a stop.  Halting says that a queue that is STOPPING has no   *)
(* worker past the status check, or only such that the stop waits for, and *)
(* that a removal does not splice the list of a queue that is STOPPING.    *)
(* Unlike QueueInv it holds for queues that are started again as well,     *)
(* unless the timeout handler removes the disk meanwhile.                  *)
Halting ==
    /\ \A q \in Queues : status[q] = "STOPPING" =>
          IF stopping = q THEN PastCheck(q) \subseteq flush["stop"] ELSE PastCheck(q) = {}
    /\ \A m \in Removers : rm[m].pc = "flush" => status[rm[m].i] \in {"REMOVING", "STOPPED"}
    /\ StoppingHasInflight

HaltInv ==
    /\ QueueType
    /\ \A m \in Removers : rm[m].pc \in {"set", "flush", "end"} => rm[m].i \in Queues
    /\ Halting

(* A step that adds no worker to a STOPPING queue, takes nothing from its  *)
(* inflight list unless the stop is still waiting, and does not begin the  *)
(* flush of a removal.                                                     *)
LEMMA HaltKept ==
    ASSUME Halting, UNCHANGED <<status, stopping>>,
           \A q \in Queues : status[q] = "STOPPING" =>
              /\ PastCheck(q)' \subseteq PastCheck(q)
              /\ PastCheck(q)' \cap flush["stop"] \subseteq flush'["stop"]
              /\ InflightLocked(q) => InflightLocked(q)'
              /\ stopping = q \/ inflight[q] \subseteq inflight'[q],
           \A m \in Removers : rm'[m].pc = "flush" => rm[m].pc = "flush" /\ rm'[m].i = rm[m].i
    PROVE  Halting'
<1>1. \A q \in Queues : status'[q] = "STOPPING" =>
          IF stopping' = q THEN PastCheck(q)' \subseteq flush'["stop"] ELSE PastCheck(q)' = {}
  BY Zenon DEF Halting
<1>2. \A m \in Removers : rm'[m].pc = "flush" => status'[rm'[m].i] \in {"REMOVING", "STOPPED"}
  BY Zenon DEF Halting
<1>3. StoppingHasInflight'
  BY Zenon DEF Halting, StoppingHasInflight, StateLocked
<1> QED BY <1>1, <1>2, <1>3, Zenon DEF Halting

(* A step of request r to place x, for queue q. *)
WorkerMove(r, x, q) ==
    /\ rpc' = [rpc EXCEPT ![r] = x]
    /\ ubbd_q' = [ubbd_q EXCEPT ![r] = q]
    /\ \/ flush' = flush
       \/ flush' = [f \in Flushers |-> flush[f] \ {r}] /\ x \notin {"prepare", "listed"}
    /\ x \in {"prepare", "listed"} =>
          q = ubbd_q[r] /\ (rpc[r] \in {"prepare", "listed"} \/ status[q] = "RUNNING")
    /\ \A p \in Queues : inflight[p] \subseteq inflight'[p] \/ (p = ubbd_q[r] /\ rpc[r] = "listed")
    /\ inflight' \in [Queues -> SUBSET Reqs] /\ hctx' \in [Reqs -> Queues]
    /\ q_tid' \in [Queues -> Nat] /\ req_tid' \in [Reqs -> Nat]
    /\ UNCHANGED <<status, driver_data, stopping, compr, answered, comp, rm>>

LEMMA HaltMove ==
    ASSUME HaltInv, NEW r \in Reqs, NEW x \in ReqPlaces, NEW q \in Queues, WorkerMove(r, x, q)
    PROVE  HaltInv'
<1>1. /\ UNCHANGED <<status, driver_data, stopping, compr, answered, comp, rm>>
      /\ inflight' \in [Queues -> SUBSET Reqs] /\ hctx' \in [Reqs -> Queues]
      /\ q_tid' \in [Queues -> Nat] /\ req_tid' \in [Reqs -> Nat]
  BY Zenon DEF WorkerMove
<1>2. /\ QueueType
      /\ rpc \in [Reqs -> ReqPlaces] /\ ubbd_q \in [Reqs -> Queues]
      /\ flush \in [Flushers -> SUBSET Reqs]
  BY Zenon DEF HaltInv, QueueType, StatusType, ReqType
<1>3. /\ rpc'[r] = x /\ ubbd_q'[r] = q
      /\ \A s \in Reqs \ {r} : rpc'[s] = rpc[s] /\ ubbd_q'[s] = ubbd_q[s]
      /\ rpc' \in [Reqs -> ReqPlaces] /\ ubbd_q' \in [Reqs -> Queues]
  <2>1. rpc' = [rpc EXCEPT ![r] = x] /\ ubbd_q' = [ubbd_q EXCEPT ![r] = q]
    BY Zenon DEF WorkerMove
  <2> QED BY <1>2, <2>1, Zenon
<1>4. flush' \in [Flushers -> SUBSET Reqs]
  <2>1. flush' = flush \/ flush' = [f \in Flushers |-> flush[f] \ {r}]
    BY Zenon DEF WorkerMove
  <2> QED BY <1>2, <2>1, Zenon
<1>5. QueueType'
  BY <1>1, <1>2, <1>3, <1>4, Zenon DEF QueueType, StatusType, ReqType, IdType, ActorType
<1>6. ASSUME NEW p \in Queues, status[p] = "STOPPING"
      PROVE  /\ PastCheck(p)' \subseteq PastCheck(p)
             /\ PastCheck(p)' \cap flush["stop"] \subseteq flush'["stop"]
             /\ InflightLocked(p) => InflightLocked(p)'
             /\ stopping = p \/ inflight[p] \subseteq inflight'[p]
  <2>1. ASSUME NEW s \in Reqs, ubbd_q'[s] = p, rpc'[s] \in {"prepare", "listed"}
        PROVE  ubbd_q[s] = p /\ rpc[s] \in {"prepare", "listed"}
    <3>1. CASE s # r
      BY <1>3, <2>1, <3>1, Zenon
    <3>2. CASE s = r
      <4>1. x \in {"prepare", "listed"} /\ q = p
        BY <1>3, <2>1, <3>2, Zenon
      <4>2. q = ubbd_q[r] /\ (rpc[r] \in {"prepare", "listed"} \/ status[q] = "RUNNING")
        BY <4>1, Zenon DEF WorkerMove
      <4>3. status[q] # "RUNNING"
        BY <1>6, <4>1, Zenon
      <4> QED BY <3>2, <4>1, <4>2, <4>3, Zenon
    <3> QED BY <3>1, <3>2, Zenon
  <2>2. PastCheck(p)' \subseteq PastCheck(p)
    BY <2>1, Zenon DEF PastCheck
  <2>3. PastCheck(p)' \cap flush["stop"] \subseteq flush'["stop"]
    <3>1. CASE flush' = flush
      BY <3>1, Zenon
    <3>2. CASE flush' = [f \in Flushers |-> flush[f] \ {r}] /\ x \notin {"prepare", "listed"}
      <4>1. flush'["stop"] = flush["stop"] \ {r}
        BY <3>2, Indexes, Zenon
      <4>2. r \notin PastCheck(p)'
        BY <1>3, <3>2, Zenon DEF PastCheck
      <4> QED BY <4>1, <4>2, Zenon
    <3> QED BY <3>1, <3>2, Zenon DEF WorkerMove
  <2>4. InflightLocked(p) => InflightLocked(p)'
    BY <1>1, Zenon DEF InflightLocked
  <2>5. CASE p = ubbd_q[r] /\ rpc[r] = "listed"
    <3>1. r \in PastCheck(p)
      BY <2>5, Zenon DEF PastCheck
    <3>2. stopping = p
      BY <1>6, <3>1, Zenon DEF HaltInv, Halting
    <3> QED BY <2>2, <2>3, <2>4, <3>2, Zenon
  <2>6. CASE inflight[p] \subseteq inflight'[p]
    BY <2>2, <2>3, <2>4, <2>6, Zenon
  <2> QED BY <2>5, <2>6, Zenon DEF WorkerMove
<1>7. Halting'
  BY <1>1, <1>6, HaltKept, Zenon DEF HaltInv
<1> QED BY <1>1, <1>5, <1>7, Zenon DEF HaltInv

(* Each step of a request until it is in the ring is such a step. *)
LEMMA HaltWorker ==
    ASSUME HaltInv, NEW r \in Reqs, (\E h \in Queues : issue(r, h)) \/ Worker(r)
    PROVE  HaltInv'
<1> DEFINE q == ubbd_q[r]
<1>1. /\ rpc \in [Reqs -> ReqPlaces] /\ ubbd_q \in [Reqs -> Queues] /\ q \in Queues
      /\ ubbd_q = [ubbd_q EXCEPT ![r] = q]
      /\ req_tid \in [Reqs -> Nat] /\ hctx \in [Reqs -> Queues]
      /\ driver_data \in [Queues -> Queues] /\ inflight \in [Queues -> SUBSET Reqs]
      /\ q_tid \in [Queues -> Nat] /\ q_tid[q] \in Nat
  BY Zenon DEF HaltInv, QueueType, StatusType, ReqType, IdType
<1>2. ReqPlaces = {"free", "dispatch", "started", "pending", "prepare", "listed", "submitted"}
  BY Zenon DEF ReqPlaces
<1>3. ASSUME NEW h \in Queues, issue(r, h) PROVE HaltInv'
  <2>1. WorkerMove(r, "dispatch", q)
    BY <1>1, <1>3, Zenon DEF issue, WorkerMove, qvars, bvars
  <2> QED BY <1>1, <1>2, <2>1, HaltMove, Zenon
<1>4. CASE ubbd_queue_rq(r)
  <2> DEFINE p == driver_data[hctx[r]]
  <2>1. p \in Queues
    BY <1>1, Zenon
  <2>2. UNCHANGED <<status, driver_data, stopping, compr, answered, comp, rm, flush, inflight,
                    hctx, q_tid>>
    BY <1>4, Zenon DEF ubbd_queue_rq, qvars, bvars
  <2>3. CASE rpc' = [rpc EXCEPT ![r] = "free"] /\ UNCHANGED <<ubbd_q, req_tid>>
    <3>1. WorkerMove(r, "free", q)
      BY <1>1, <2>2, <2>3, Zenon DEF WorkerMove
    <3> QED BY <1>1, <1>2, <3>1, HaltMove, Zenon
  <2>4. CASE /\ rpc' = [rpc EXCEPT ![r] = "started"]
             /\ ubbd_q' = [ubbd_q EXCEPT ![r] = p] /\ req_tid' = [req_tid EXCEPT ![r] = 0]
    <3>1. req_tid' \in [Reqs -> Nat]
      BY <1>1, <2>4, Zenon
    <3>2. WorkerMove(r, "started", p)
      BY <1>1, <2>2, <2>4, <3>1, Zenon DEF WorkerMove
    <3> HIDE DEF p
    <3> QED BY <1>2, <2>1, <3>2, HaltMove, Zenon
  <2> QED BY <1>4, <2>3, <2>4, Zenon DEF ubbd_queue_rq
<1>5. CASE queue_work(r)
  <2>1. WorkerMove(r, "pending", q)
    BY <1>1, <1>5, Zenon DEF queue_work, WorkerMove, qvars, bvars
  <2> QED BY <1>1, <1>2, <2>1, HaltMove, Zenon
<1>6. CASE workfn_check(r)
  <2>1. \E x \in {"free", "dispatch", "prepare"} : WorkerMove(r, x, q)
    BY <1>1, <1>6, Zenon DEF workfn_check, Flushed, WorkerMove, qvars, bvars
  <2> QED BY <1>1, <1>2, <2>1, HaltMove, Zenon
<1>7. CASE workfn_prepare(r)
  <2>1. WorkerMove(r, "listed", q) \/ WorkerMove(r, "dispatch", q)
    BY <1>1, <1>7 DEF workfn_prepare, Flushed, WorkerMove, qvars, bvars
  <2> QED BY <1>1, <1>2, <2>1, HaltMove, Zenon
<1>8. CASE workfn_submit(r)
  <2>1. q_tid[q] + 1 \in Nat
    BY <1>1
  <2>2. WorkerMove(r, "submitted", q) \/ WorkerMove(r, "dispatch", q)
    BY <1>1, <1>8, <2>1 DEF workfn_submit, Flushed, WorkerMove, qvars, bvars
  <2> QED BY <1>1, <1>2, <2>2, HaltMove, Zenon
<1> QED BY <1>3, <1>4, <1>5, <1>6, <1>7, <1>8, Zenon DEF Worker

(* A step that leaves the lists of the queues and the flushes alone. *)
ListsKept ==
    /\ UNCHANGED <<status, driver_data, stopping, flush, inflight, hctx, ubbd_q, req_tid, q_tid>>
    /\ rpc' \in [Reqs -> ReqPlaces]
    /\ \A r \in Reqs : rpc'[r] \in {"prepare", "listed"} => rpc'[r] = rpc[r]

LEMMA HaltListsKept ==
    ASSUME HaltInv, ListsKept,
           compr' \in [Queues -> SUBSET Nat], answered' \in [Queues -> SUBSET Nat],
           comp' \in [Completers -> CompRec],
           \A c \in Completers : comp[c].pc = "settle" => comp'[c] = comp[c],
           rm' \in [Removers -> RmRec],
           \A m \in Removers :
              /\ rm'[m].pc = "flush" => rm[m].pc = "flush" /\ rm'[m].i = rm[m].i
              /\ rm'[m].pc \in {"set", "flush", "end"} => rm'[m].i \in Queues
    PROVE  HaltInv'
<1>1. UNCHANGED <<status, driver_data, stopping, flush, inflight, hctx, ubbd_q, req_tid, q_tid>>
  BY Zenon DEF ListsKept
<1>2. QueueType'
  BY <1>1, Zenon DEF HaltInv, QueueType, StatusType, ReqType, IdType, ActorType, ListsKept
<1>3. \A q \in Queues : PastCheck(q)' \subseteq PastCheck(q)
  <2>1. \A r \in Reqs : rpc'[r] \in {"prepare", "listed"} => rpc'[r] = rpc[r]
    BY Zenon DEF ListsKept
  <2> QED BY <1>1, <2>1, Zenon DEF PastCheck
<1>4. \A q \in Queues : InflightLocked(q) => InflightLocked(q)'
  BY Zenon DEF InflightLocked
<1>5. Halting'
  BY <1>1, <1>3, <1>4, HaltKept, Zenon DEF HaltInv
<1> QED BY <1>2, <1>5, Zenon DEF HaltInv

(* What the type invariant says, in the form in which it is used below. *)
LEMMA HaltTypes ==
    ASSUME HaltInv
    PROVE  /\ rpc \in [Reqs -> ReqPlaces] /\ inflight \in [Queues -> SUBSET Reqs]
           /\ compr \in [Queues -> SUBSET Nat] /\ answered \in [Queues -> SUBSET Nat]
           /\ comp \in [Completers -> CompRec] /\ rm \in [Removers -> RmRec]
           /\ flush \in [Flushers -> SUBSET Reqs]
           /\ \A m \in Removers : rm[m].pc \in {"set", "flush", "end"} => rm[m].i \in Queues
           /\ status \in [Queues -> {"RUNNING", "STOPPING", "STOPPED", "REMOVING"}]
           /\ driver_data \in [Queues -> Queues]
BY Zenon DEF HaltInv, QueueType, StatusType, ReqType, IdType, ActorType

(* The opener, and the backend. *)
LEMMA HaltBackend ==
    ASSUME HaltInv,
           \/ ubbd_open \/ ubbd_release
           \/ \E q \in Queues : \E t \in 1 .. q_tid[q] : backend_post(q, t) \/ backend_repost(q, t)
    PROVE  HaltInv'
<1>1. /\ UNCHANGED <<status, driver_data, stopping, flush, inflight, rpc, hctx, ubbd_q, req_tid,
                     q_tid, comp, rm>>
  BY Zenon DEF ubbd_open, ubbd_release, backend_post, backend_repost, qvars, rvars
<1>2. compr' \in [Queues -> SUBSET Nat] /\ answered' \in [Queues -> SUBSET Nat]
  <2>1. \A q \in Queues : 1 .. q_tid[q] \subseteq Nat
    BY DEF HaltInv, QueueType, IdType
  <2>2. CASE ubbd_open \/ ubbd_release
    BY <2>2, HaltTypes, Zenon DEF ubbd_open, ubbd_release, bvars
  <2>3. ASSUME NEW q \in Queues, NEW t \in 1 .. q_tid[q], backend_post(q, t) \/ backend_repost(q, t)
        PROVE  compr' \in [Queues -> SUBSET Nat] /\ answered' \in [Queues -> SUBSET Nat]
    <3>1. t \in Nat
      BY <2>1, Zenon
    <3>2. compr' = [compr EXCEPT ![q] = @ \cup {t}]
      BY <2>3, Zenon DEF backend_post, backend_repost
    <3>3. answered' = answered \/ answered' = [answered EXCEPT ![q] = @ \cup {t}]
      BY <2>3, Zenon DEF backend_post, backend_repost
    <3>4. compr \in [Queues -> SUBSET Nat] /\ answered \in [Queues -> SUBSET Nat]
      BY HaltTypes, Zenon
    <3>5. compr' \in [Queues -> SUBSET Nat]
      BY <3>1, <3>2, <3>4, Zenon
    <3>6. answered' \in [Queues -> SUBSET Nat]
      BY <3>1, <3>3, <3>4, Zenon
    <3> QED BY <3>5, <3>6, Zenon
  <2> QED BY <2>2, <2>3, Zenon
<1>3. ListsKept
  BY <1>1, HaltTypes, Zenon DEF ListsKept
<1> QED BY <1>1, <1>2, <1>3, HaltTypes, HaltListsKept, Zenon

(* Completers that look at the completion ring or end a request. *)
LEMMA HaltCompleter ==
    ASSUME HaltInv, NEW c \in Completers,
           (\E q \in Queues : complete_enter(c, q)) \/ complete_pop(c) \/ complete_end(c)
    PROVE  HaltInv'
<1>1. /\ UNCHANGED <<status, driver_data, stopping, flush, inflight, hctx, ubbd_q, req_tid,
                     q_tid, answered, rm>>
      /\ comp[c].pc # "settle"
  BY Zenon DEF complete_enter, complete_pop, complete_end, qvars, rvars, bvars
<1>2. compr' \in [Queues -> SUBSET Nat] /\ \E v \in CompRec : comp' = [comp EXCEPT ![c] = v]
  <2>1. comp[c] \in CompRec /\ IdleComp \in CompRec
    BY HaltTypes, Indexes, Zenon DEF IdleComp, CompRec
  <2>2. ASSUME NEW q \in Queues, complete_enter(c, q)
        PROVE  /\ compr' \in [Queues -> SUBSET Nat]
               /\ \E v \in CompRec : comp' = [comp EXCEPT ![c] = v]
    <3>1. [IdleComp EXCEPT !.pc = "pop", !.q = q] \in CompRec
      BY Zenon DEF IdleComp, CompRec
    <3> QED BY <2>2, <3>1, HaltTypes, Zenon DEF complete_enter, bvars
  <2>3. CASE complete_pop(c) /\ comp' = [comp EXCEPT ![c] = IdleComp] /\ UNCHANGED compr
    BY <2>1, <2>3, HaltTypes, Zenon
  <2>4. ASSUME NEW t \in compr[comp[c].q],
               compr' = [compr EXCEPT ![comp[c].q] = @ \ {t}],
               comp' = [comp EXCEPT ![c].pc = "fetch", ![c].tid = t]
        PROVE  /\ compr' \in [Queues -> SUBSET Nat]
               /\ \E v \in CompRec : comp' = [comp EXCEPT ![c] = v]
    <3>1. comp[c].q \in Queues /\ compr' \in [Queues -> SUBSET Nat]
      BY <2>1, <2>4, HaltTypes, Zenon DEF CompRec
    <3>2. t \in Nat
      BY <3>1, HaltTypes, Zenon
    <3>3. [comp[c] EXCEPT !.pc = "fetch", !.tid = t] \in CompRec
      BY <2>1, <3>2, Zenon DEF CompRec
    <3>4. comp' = [comp EXCEPT ![c] = [comp[c] EXCEPT !.pc = "fetch", !.tid = t]]
      BY <2>1, <2>4, HaltTypes, Zenon
    <3> QED BY <3>1, <3>3, <3>4, Zenon
  <2>5. CASE complete_end(c)
    <3>1. [comp[c] EXCEPT !.pc = "pop", !.holds = {}] \in CompRec
      BY <2>1, Zenon DEF CompRec
    <3>2. comp' = [comp EXCEPT ![c] = [comp[c] EXCEPT !.pc = "pop", !.holds = {}]]
      BY <2>1, <2>5, HaltTypes, Zenon DEF complete_end
    <3> QED BY <2>5, <3>1, <3>2, HaltTypes, Zenon DEF complete_end, bvars
  <2> QED BY <2>2, <2>3, <2>4, <2>5, Zenon DEF complete_pop
<1>3. /\ rpc' \in [Reqs -> ReqPlaces]
      /\ \A r \in Reqs : rpc'[r] \in {"prepare", "listed"} => rpc'[r] = rpc[r]
  <2>1. CASE rpc' = rpc
    BY <2>1, HaltTypes, Zenon
  <2>2. CASE rpc' = [r \in Reqs |-> IF r \in comp[c].holds THEN "free" ELSE rpc[r]]
    BY <2>2, HaltTypes, Zenon DEF ReqPlaces
  <2> QED BY <2>1, <2>2, Zenon DEF complete_enter, complete_pop, complete_end, rvars
<1>4. ListsKept
  BY <1>1, <1>3, Zenon DEF ListsKept
<1>5. /\ comp' \in [Completers -> CompRec]
      /\ \A d \in Completers : comp[d].pc = "settle" => comp'[d] = comp[d]
  BY <1>1, <1>2, HaltTypes, Zenon
<1> QED BY <1>1, <1>2, <1>4, <1>5, HaltTypes, HaltListsKept, Zenon

(* A completion takes its request off the list.  The one that takes the    *)
(* last request of a STOPPING queue keeps the lock until it has written    *)
(* the status.                                                             *)
LEMMA HaltFetch ==
    ASSUME HaltInv, NEW c \in Completers, fetch_inflight_req(c)
    PROVE  HaltInv'
<1> DEFINE q == comp[c].q
<1>1. /\ UNCHANGED <<status, driver_data, stopping, flush, rpc, hctx, ubbd_q, req_tid,
                     q_tid, compr, answered, rm>>
      /\ comp[c].pc = "fetch" /\ q \in Queues
  BY HaltTypes, Zenon DEF fetch_inflight_req, qvars, bvars, CompRec
<1>2. \E p \in {"pop", "end", "settle"}, h \in SUBSET Reqs :
         /\ comp' = [comp EXCEPT ![c].pc = p, ![c].holds = h]
         /\ \/ inflight' = inflight
            \/ \E r \in inflight[q] :
                  /\ inflight' = [inflight EXCEPT ![q] = @ \ {r}]
                  /\ status[q] = "STOPPING" /\ inflight[q] = {r} => p = "settle"
  <2>1. comp[c] \in CompRec /\ comp[c].holds \in SUBSET Reqs
    BY HaltTypes, Zenon DEF CompRec
  <2>2. CASE comp' = [comp EXCEPT ![c].pc = "pop"] /\ UNCHANGED inflight
    <3>1. comp' = [comp EXCEPT ![c].pc = "pop", ![c].holds = comp[c].holds]
      BY <2>1, <2>2, HaltTypes, Zenon DEF CompRec
    <3> QED BY <2>1, <2>2, <3>1, Zenon
  <2>3. ASSUME NEW r \in inflight[q],
               inflight' = [inflight EXCEPT ![q] = @ \ {r}],
               comp' = [comp EXCEPT
                ![c].pc = IF status[q] = "STOPPING" /\ inflight[q] = {r}
                            THEN "settle" ELSE "end",
                ![c].holds = {r}]
        PROVE  \E p \in {"pop", "end", "settle"}, h \in SUBSET Reqs :
         /\ comp' = [comp EXCEPT ![c].pc = p, ![c].holds = h]
         /\ \/ inflight' = inflight
            \/ \E s \in inflight[q] :
                  /\ inflight' = [inflight EXCEPT ![q] = @ \ {s}]
                  /\ status[q] = "STOPPING" /\ inflight[q] = {s} => p = "settle"
    <3>1. {r} \in SUBSET Reqs
      BY <1>1, HaltTypes, Zenon
    <3>2. CASE status[q] = "STOPPING" /\ inflight[q] = {r}
      BY <2>3, <3>1, <3>2, Zenon
    <3>3. CASE ~(status[q] = "STOPPING" /\ inflight[q] = {r})
      BY <2>3, <3>1, <3>3, Zenon
    <3> QED BY <3>2, <3>3, Zenon
  <2> QED BY <2>2, <2>3, Zenon DEF fetch_inflight_req
<1>3. /\ comp' \in [Completers -> CompRec] /\ \A d \in Completers \ {c} : comp'[d] = comp[d]
      /\ comp'[c].q = q
      /\ inflight' \in [Queues -> SUBSET Reqs]
      /\ \A p \in Queues \ {q} : inflight'[p] = inflight[p]
      /\ \/ inflight'[q] = inflight[q]
         \/ \E r \in inflight[q] :
               /\ inflight'[q] = inflight[q] \ {r}
               /\ status[q] = "STOPPING" /\ inflight[q] = {r} => comp'[c].pc = "settle"
  <2>1. PICK p \in {"pop", "end", "settle"}, h \in SUBSET Reqs :
         /\ comp' = [comp EXCEPT ![c].pc = p, ![c].holds = h]
         /\ \/ inflight' = inflight
            \/ \E r \in inflight[q] :
                  /\ inflight' = [inflight EXCEPT ![q] = @ \ {r}]
                  /\ status[q] = "STOPPING" /\ inflight[q] = {r} => p = "settle"
    BY <1>2, Zenon
  <2>2. comp[c] \in CompRec
    BY HaltTypes, Zenon
  <2>3. /\ comp' \in [Completers -> CompRec] /\ \A d \in Completers \ {c} : comp'[d] = comp[d]
        /\ comp'[c].q = q /\ comp'[c].pc = p
    BY <2>1, <2>2, HaltTypes, Zenon DEF CompRec
  <2>4. /\ inflight' \in [Queues -> SUBSET Reqs]
        /\ \A u \in Queues \ {q} : inflight'[u] = inflight[u]
    <3>1. inflight \in [Queues -> SUBSET Reqs]
      BY HaltTypes, Zenon
    <3>2. CASE inflight' = inflight
      BY <3>1, <3>2, Zenon
    <3>3. ASSUME NEW r \in inflight[q], inflight' = [inflight EXCEPT ![q] = @ \ {r}]
          PROVE  /\ inflight' \in [Queues -> SUBSET Reqs]
                 /\ \A u \in Queues \ {q} : inflight'[u] = inflight[u]
      BY <1>1, <3>1, <3>3, Zenon
    <3> QED BY <2>1, <3>2, <3>3, Zenon
  <2>5. \/ inflight'[q] = inflight[q]
        \/ \E r \in inflight[q] :
               /\ inflight'[q] = inflight[q] \ {r}
               /\ status[q] = "STOPPING" /\ inflight[q] = {r} => p = "settle"
    BY <1>1, <2>1, HaltTypes, Zenon
  <2> QED BY <2>3, <2>4, <2>5, Zenon
<1>4. QueueType'
  BY <1>1, <1>3, Zenon DEF HaltInv, QueueType, StatusType, ReqType, IdType, ActorType
<1>5. \A p \in Queues : PastCheck(p)' = PastCheck(p)
  BY <1>1, Zenon DEF PastCheck
<1>6. \A p \in Queues : InflightLocked(p) => InflightLocked(p)'
  BY <1>1, <1>3, Zenon DEF InflightLocked
<1>7. StoppingHasInflight'
  <2> SUFFICES ASSUME NEW p \in Queues, status[p] = "STOPPING", stopping # p,
                      ~InflightLocked(p)', inflight'[p] = {}
               PROVE  FALSE
    BY <1>1, Zenon DEF StoppingHasInflight, StateLocked
  <2>1. inflight[p] # {}
    BY <1>6, Zenon DEF HaltInv, Halting, StoppingHasInflight, StateLocked
  <2>2. p = q
    BY <1>3, <2>1, Zenon
  <2>3. PICK r \in inflight[q] :
               /\ inflight'[q] = inflight[q] \ {r}
               /\ status[q] = "STOPPING" /\ inflight[q] = {r} => comp'[c].pc = "settle"
    BY <1>3, <2>1, <2>2, Zenon
  <2>4. inflight[q] = {r}
    BY <2>2, <2>3, Zenon
  <2>5. comp'[c].pc = "settle" /\ comp'[c].q = p
    BY <1>3, <2>2, <2>3, <2>4, Zenon
  <2> QED BY <2>5, Zenon DEF InflightLocked
<1>8. Halting'
  BY <1>1, <1>5, <1>7, Zenon DEF HaltInv, Halting
<1> QED BY <1>1, <1>4, <1>8, Zenon DEF HaltInv

(* The status of a queue becomes something else than STOPPING. *)
LEMMA HaltStatus ==
    ASSUME HaltInv, NEW q \in Queues, NEW s \in {"RUNNING", "STOPPED", "REMOVING"},
           status' = [status EXCEPT ![q] = s],
           UNCHANGED <<stopping, inflight, rpc, ubbd_q>>,
           flush'["stop"] = flush["stop"],
           \A p \in Queues \ {q} : InflightLocked(p) => InflightLocked(p)',
           \A m \in Removers : rm'[m].pc = "flush" => status'[rm'[m].i] \in {"REMOVING", "STOPPED"}
    PROVE  Halting' /\ status' \in [Queues -> {"RUNNING", "STOPPING", "STOPPED", "REMOVING"}]
<1>1. /\ status \in [Queues -> {"RUNNING", "STOPPING", "STOPPED", "REMOVING"}]
      /\ s \in {"RUNNING", "STOPPING", "STOPPED", "REMOVING"} /\ s # "STOPPING"
  BY HaltTypes, Zenon
<1>2. /\ status'[q] # "STOPPING" /\ \A p \in Queues \ {q} : status'[p] = status[p]
      /\ status' \in [Queues -> {"RUNNING", "STOPPING", "STOPPED", "REMOVING"}]
  BY <1>1, Zenon
<1>3. \A p : PastCheck(p)' = PastCheck(p)
  BY Zenon DEF PastCheck
<1>4. \A p \in Queues : status'[p] = "STOPPING" =>
          IF stopping' = p THEN PastCheck(p)' \subseteq flush'["stop"] ELSE PastCheck(p)' = {}
  <2> SUFFICES ASSUME NEW p \in Queues, status'[p] = "STOPPING"
               PROVE  IF stopping = p THEN PastCheck(p) \subseteq flush["stop"]
                                      ELSE PastCheck(p) = {}
    BY <1>3, Zenon
  <2>1. status[p] = "STOPPING"
    BY <1>2, Zenon
  <2> QED BY <2>1, Zenon DEF HaltInv, Halting
<1>5. StoppingHasInflight'
  <2> SUFFICES ASSUME NEW p \in Queues, status'[p] = "STOPPING", stopping # p, ~InflightLocked(p)'
               PROVE  inflight[p] # {}
    BY Zenon DEF StoppingHasInflight, StateLocked
  <2>1. status[p] = "STOPPING" /\ ~InflightLocked(p)
    BY <1>2, Zenon
  <2> QED BY <2>1, Zenon DEF HaltInv, Halting, StoppingHasInflight, StateLocked
<1> QED BY <1>2, <1>4, <1>5, Zenon DEF Halting

(* The completion that took the last request writes STOPPED. *)
LEMMA HaltSettle ==
    ASSUME HaltInv, NEW c \in Completers, fetch_settle(c)
    PROVE  HaltInv'
<1> DEFINE q == comp[c].q
<1>1. /\ UNCHANGED <<driver_data, stopping, flush, inflight, rpc, hctx, ubbd_q, req_tid,
                     q_tid, compr, answered, rm>>
      /\ status' = [status EXCEPT ![q] = "STOPPED"]
      /\ comp' = [comp EXCEPT ![c].pc = "end"]
  BY Zenon DEF fetch_settle, rvars, bvars
<1>2. comp[c] \in CompRec /\ q \in Queues
  BY HaltTypes, Zenon DEF CompRec
<1>3. /\ comp' \in [Completers -> CompRec] /\ \A d \in Completers \ {c} : comp'[d] = comp[d]
  BY <1>1, <1>2, HaltTypes, Zenon DEF CompRec
<1>4. \A p \in Queues \ {q} : InflightLocked(p) => InflightLocked(p)'
  BY <1>3, Zenon DEF InflightLocked
<1> HIDE DEF q
<1>5. \A m \in Removers : rm'[m].pc = "flush" => status'[rm'[m].i] \in {"REMOVING", "STOPPED"}
  <2> SUFFICES ASSUME NEW m \in Removers, rm[m].pc = "flush"
               PROVE  status'[rm[m].i] \in {"REMOVING", "STOPPED"}
    BY <1>1, Zenon
  <2>1. rm[m].i \in Queues /\ status[rm[m].i] \in {"REMOVING", "STOPPED"}
    BY Zenon DEF HaltInv, Halting
  <2> QED BY <1>1, <1>2, <2>1, HaltTypes, Zenon
<1>6. Halting' /\ status' \in [Queues -> {"RUNNING", "STOPPING", "STOPPED", "REMOVING"}]
  BY <1>1, <1>2, <1>4, <1>5, HaltStatus, Zenon
<1>7. QueueType'
  BY <1>1, <1>3, <1>6, Zenon DEF HaltInv, QueueType, StatusType, ReqType, IdType, ActorType
<1> QED BY <1>1, <1>6, <1>7, Zenon DEF HaltInv

=============================================================================
