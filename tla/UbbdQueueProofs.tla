--------------------------- MODULE UbbdQueueProofs ---------------------------
(***************************************************************************)
(* Theorems about the request path of a device whose queues are stopped    *)
(* and removed but not started again.  (A queue_start can bring back a     *)
(* queue whose REMOVING was overwritten, see RemovingIsFinal.)  Then the   *)
(* proof that the path implements UbbdBlockIO, and the end of a stop, also *)
(* for queues that are started again.                                      *)
(***************************************************************************)
EXTENDS UbbdQueueSteps

(* A stop takes a RUNNING queue and waits for its workers. *)
LEMMA StopStep ==
    ASSUME QueueInv, NEW q \in Queues, queue_stop(q)
    PROVE  QueueInv'
<1>1. UNCHANGED <<dev_status, inflight, rpc, hctx, ubbd_q, req_tid, q_tid, compr, answered,
                  comp, rm>>
  BY Zenon DEF queue_stop, rvars, bvars
<1>2. /\ status[q] = "RUNNING" /\ stopping = -1 /\ stopping' = q
      /\ status' = [status EXCEPT ![q] = "STOPPING"]
      /\ driver_data' = [driver_data EXCEPT ![q] = find_running_queue]
      /\ flush' = [flush EXCEPT !["stop"] = {r \in Reqs : OnTaskWq(r)}]
  BY Zenon DEF queue_stop, NetlinkIdle, BeginFlush
<1>3. QueueType'
  BY <1>1, <1>2, RunningQueueFound, Zenon
     DEF QueueInv, QueueType, StatusType, ReqType, IdType, ActorType
<1>4. /\ status'[q] = "STOPPING" /\ \A u \in Queues \ {q} : status'[u] = status[u]
      /\ flush'["stop"] = {r \in Reqs : OnTaskWq(r)}
      /\ \A m \in Removers : flush'[m] = flush[m]
  BY <1>2, Indexes, Zenon DEF QueueInv, QueueType, StatusType
<1>5. OneOwner' /\ Ids' /\ Completing'
  BY <1>1 DEF QueueInv, OneOwner, Ids, Completing
<1>6. \A u : PastCheck(u)' = PastCheck(u) /\ PastCheck(u) \subseteq flush'["stop"]
  BY <1>1, <1>4 DEF PastCheck, OnTaskWq
<1>7. Removing'
  BY <1>1, <1>4, <1>6, Indexes
     DEF QueueInv, QueueType, ActorType, RmRec, Removing, Passed
<1>8. Stopping'
  BY <1>1, <1>2, <1>4, <1>6, Indexes
     DEF QueueInv, QueueType, ActorType, CompRec, Stopping, InflightLocked
<1>9. GoneIsKept'
  BY <1>1, <1>4, Zenon DEF QueueInv, GoneIsKept, Gone
<1> QED BY <1>3, <1>5, <1>7, <1>8, <1>9, Zenon DEF QueueInv

(* After the flush no worker of the queue is past the check. *)
LEMMA StopFlushedStep ==
    ASSUME QueueInv, NEW q \in Queues, queue_stop_flushed(q)
    PROVE  QueueInv'
<1>1. UNCHANGED <<driver_data, dev_status, inflight, rpc, hctx, ubbd_q, req_tid, q_tid, compr,
                  answered, comp, rm, flush>>
  BY Zenon DEF queue_stop_flushed, rvars, bvars
<1>2. /\ stopping = q /\ stopping' = -1 /\ flush["stop"] = {}
      /\ status[q] \in {"STOPPING", "STOPPED"}
  BY Zenon DEF queue_stop_flushed, QueueInv, Stopping
<1>3. /\ status'[q] \in {"STOPPING", "STOPPED"} /\ \A u \in Queues \ {q} : status'[u] = status[u]
      /\ status' \in [Queues -> {"RUNNING", "STOPPING", "STOPPED", "REMOVING"}]
  BY <1>2, Zenon DEF queue_stop_flushed, QueueInv, QueueType, StatusType
<1>4. QueueType'
  BY <1>1, <1>3, Zenon DEF QueueInv, QueueType, StatusType, ReqType, IdType, ActorType
<1>5. OneOwner' /\ Ids' /\ Completing'
  BY <1>1 DEF QueueInv, OneOwner, Ids, Completing
<1>6. \A u : PastCheck(u)' = PastCheck(u)
  BY <1>1, Zenon DEF PastCheck
<1>7. Removing'
  BY <1>1, <1>3, <1>6, Indexes DEF QueueInv, QueueType, ActorType, RmRec, Removing, Passed
<1>8. Stopping'
  <2>1. Stopping
    BY Zenon DEF QueueInv
  <2>2. \A u : InflightLocked(u)' = InflightLocked(u)
    BY <1>1, Zenon DEF InflightLocked
  <2>3. \A u \in Queues : stopping' # u
    BY <1>2, Indexes, Zenon
  <2>4. \A u \in Queues : /\ status[u] # "RUNNING" => status'[u] # "RUNNING"
                          /\ status'[u] \in {"STOPPING", "STOPPED"} => status[u] \in {"STOPPING", "STOPPED"}
    BY <1>2, <1>3
  <2>5. \A c \in Completers : comp[c].pc = "settle" => status'[comp[c].q] # "RUNNING"
    BY <2>1, <2>4, Zenon DEF QueueInv, QueueType, ActorType, CompRec, Stopping
  <2>6. ASSUME NEW u \in Queues, status[u] \in {"STOPPING", "STOPPED"} \/ InflightLocked(u)
        PROVE  PastCheck(u) = {}
    BY <1>2, <2>1, <2>6 DEF Stopping
  <2> QED BY <1>1, <1>6, <2>2, <2>3, <2>4, <2>5, <2>6, Zenon DEF Stopping
<1>9. GoneIsKept'
  BY <1>1, <1>2, <1>3, Zenon DEF QueueInv, GoneIsKept, Gone
<1> QED BY <1>4, <1>5, <1>7, <1>8, <1>9 DEF QueueInv

(* A step of removal m, to v, that changes nothing else but the device's   *)
(* status and whether the disk can be opened, and loses no mark of a       *)
(* removal.                                                                *)
RemoverMove(m, v) ==
    /\ rm' = [rm EXCEPT ![m] = v]
    /\ v.list = {} /\ rm[m].list = {}
    /\ v.pc \in {"idle", "set", "status", "del"}
    /\ v.pc = "set" => v.i < num_queues
    /\ v.pc = "idle" => dev_status' = "REMOVING"
    /\ v.pc = "del" => dev_status' = "REMOVING"
    /\ dev_status = "REMOVING" => dev_status' = "REMOVING"
    /\ \A q \in Queues : q < v.i =>
          /\ status[q] # "RUNNING"
          /\ PastCheck(q) = {}
          /\ v.force => inflight[q] = {}
    /\ UNCHANGED <<status, driver_data, stopping, rvars, bvars, comp, flush>>

(* Such a step preserves the invariant. *)
LEMMA RemoverStep ==
    ASSUME QueueInv, NEW m \in Removers, NEW v \in RmRec, RemoverMove(m, v)
    PROVE  QueueInv'
<1>1. UNCHANGED <<status, driver_data, stopping, inflight, rpc, hctx, ubbd_q, req_tid, q_tid,
                  compr, answered, comp, flush>>
  BY Zenon DEF RemoverMove, rvars, bvars
<1>2. /\ rm'[m] = v /\ rm' \in [Removers -> RmRec]
      /\ \A n \in Removers \ {m} : rm'[n] = rm[n]
  BY Zenon DEF QueueInv, QueueType, ActorType, RemoverMove
<1>3. QueueType'
  BY <1>1, <1>2, Zenon DEF QueueInv, QueueType, StatusType, ReqType, IdType, ActorType
<1>4. \A n \in Removers : rm'[n].list = rm[n].list
  BY <1>2, Zenon DEF RemoverMove
<1>5. OneOwner' /\ Ids' /\ Completing'
  BY <1>1, <1>4 DEF QueueInv, OneOwner, Ids, Completing
<1>6. \A q : PastCheck(q)' = PastCheck(q)
  BY <1>1, Zenon DEF PastCheck
<1>7. Removing'
  <2> SUFFICES ASSUME NEW n \in Removers
               PROVE  /\ rm'[n].pc # "end" => rm'[n].list = {}
                      /\ rm'[n].pc \in {"set", "flush", "end"} => rm'[n].i < num_queues
                      /\ rm'[n].pc = "flush" => /\ status[rm'[n].i] # "RUNNING"
                                                /\ PastCheck(rm'[n].i) \subseteq flush[n]
                      /\ \A q \in Queues : Passed(n, q)' =>
                            /\ status[q] # "RUNNING"
                            /\ PastCheck(q) = {}
                            /\ rm'[n].force => inflight[q] = {}
    BY <1>1, <1>6, Zenon DEF Removing
  <2>1. CASE n = m
    BY <1>2, <2>1, Zenon DEF RemoverMove, Passed
  <2>2. CASE n # m
    BY <1>2, <2>2 DEF QueueInv, Removing, Passed
  <2> QED BY <2>1, <2>2, Zenon
<1>8. Stopping'
  BY <1>1, <1>6, Zenon DEF QueueInv, Stopping, InflightLocked
<1>9. GoneIsKept'
  BY <1>1, <1>2, Zenon DEF QueueInv, GoneIsKept, Gone, RemoverMove
<1> QED BY <1>3, <1>5, <1>7, <1>8, <1>9, Zenon DEF QueueInv

(* A removal goes on to the next queue once it is done with one. *)
LEMMA NextQueueStep ==
    ASSUME QueueInv, NEW m \in Removers, NextQueue(m),
           rm[m].i < num_queues, rm[m].list = {},
           status[rm[m].i] # "RUNNING", PastCheck(rm[m].i) = {},
           rm[m].force => inflight[rm[m].i] = {},
           UNCHANGED <<qvars, rvars, bvars, comp, flush>>
    PROVE  QueueInv'
<1> DEFINE p == IF rm[m].i + 1 = num_queues THEN "status" ELSE "set"
           v == [rm[m] EXCEPT !.i = @ + 1, !.pc = p]
<1>1. /\ rm \in [Removers -> RmRec] /\ rm[m] \in RmRec /\ rm[m].i \in Nat /\ num_queues \in Nat
  BY Indexes DEF QueueInv, QueueType, ActorType, RmRec
<1>2. p \in {"status", "set"} /\ (p = "set" => rm[m].i + 1 < num_queues)
  BY <1>1
<1>3. rm' = [rm EXCEPT ![m] = v]
  BY <1>1, Zenon DEF NextQueue
<1> HIDE DEF p
<1>4. /\ v \in RmRec /\ v.pc = p /\ v.i = rm[m].i + 1
      /\ v.list = rm[m].list /\ v.force = rm[m].force
  <2>1. v = [rm[m] EXCEPT !.i = rm[m].i + 1, !.pc = p]
    BY <1>1, Zenon DEF RmRec
  <2>2. v.pc = p /\ v.i = rm[m].i + 1 /\ v.list = rm[m].list
    BY <1>1, <2>1, Zenon DEF RmRec
  <2>3. v.force = rm[m].force
    BY <1>1, <2>1, Zenon DEF RmRec
  <2>4. v \in RmRec
    <3> DEFINE j == rm[m].i + 1
    <3>1. j \in 0 .. num_queues
      BY <1>1
    <3>2. v = [rm[m] EXCEPT !.i = j, !.pc = p]
      BY <2>1, Zenon
    <3> HIDE DEF j, v
    <3> QED BY <1>1, <1>2, <3>1, <3>2, Zenon DEF RmRec
  <2> QED BY <2>2, <2>3, <2>4, Zenon
<1> HIDE DEF v
<1>5. \A q \in Queues : q < v.i =>
          /\ status[q] # "RUNNING"
          /\ PastCheck(q) = {}
          /\ v.force => inflight[q] = {}
  <2> SUFFICES ASSUME NEW q \in Queues, q < v.i
               PROVE  /\ status[q] # "RUNNING"
                      /\ PastCheck(q) = {}
                      /\ v.force => inflight[q] = {}
    BY Zenon
  <2>1. q = rm[m].i \/ q < rm[m].i
    BY <1>1, <1>4, Indexes
  <2> QED BY <1>4, <2>1, Zenon DEF QueueInv, Removing, Passed
<1>6. RemoverMove(m, v)
  BY <1>2, <1>3, <1>4, <1>5, Zenon DEF RemoverMove, qvars
<1> QED BY <1>4, <1>6, RemoverStep, Zenon

(* A removal starts: it has passed no queue. *)
LEMMA StartStep ==
    ASSUME QueueInv, NEW m \in Removers, NEW force \in BOOLEAN, StartRemoval(m, force)
    PROVE  QueueInv'
<1> DEFINE v == [IdleRm EXCEPT !.pc = "set", !.force = force]
<1>1. v \in RmRec /\ v.pc = "set" /\ v.list = {} /\ v.i = 0
  <2>1. IdleRm \in RmRec /\ IdleRm.list = {} /\ IdleRm.i = 0
    BY Indexes DEF IdleRm, RmRec
  <2>2. v.pc = "set" /\ v.list = {} /\ v.i = 0
    BY <2>1, Zenon DEF RmRec
  <2>3. v \in RmRec
    BY <2>1, Zenon DEF RmRec
  <2> QED BY <2>2, <2>3, Zenon
<1>2. rm' = [rm EXCEPT ![m] = v] /\ rm[m].list = {}
  BY Zenon DEF StartRemoval, QueueInv, Removing
<1>3. UNCHANGED <<qvars, rvars, bvars, comp, flush>>
  BY Zenon DEF StartRemoval
<1> HIDE DEF v
<1>4. 0 < num_queues /\ \A q \in Queues : ~(q < v.i)
  BY <1>1, Indexes
<1>5. RemoverMove(m, v)
  BY <1>1, <1>2, <1>3, <1>4, Zenon DEF RemoverMove, qvars
<1> QED BY <1>1, <1>5, RemoverStep, Zenon

(* A removal marks a queue and waits for the work on task_wq. *)
LEMMA SetStep ==
    ASSUME QueueInv, NEW m \in Removers, remove_set(m)
    PROVE  QueueInv'
<1> DEFINE v == [rm[m] EXCEPT !.pc = "flush"]
           i == rm[m].i
<1>1. UNCHANGED <<driver_data, dev_status, stopping, inflight, rpc, hctx, ubbd_q, req_tid, q_tid,
                  compr, answered, comp>>
  BY Zenon DEF remove_set, rvars, bvars
<1>2. /\ rm \in [Removers -> RmRec] /\ rm[m] \in RmRec /\ rm[m].pc = "set"
      /\ i \in Queues /\ rm[m].list = {} /\ stopping # i
      /\ flush \in [Flushers -> SUBSET Reqs]
  BY Indexes
     DEF QueueInv, QueueType, ActorType, StatusType, RmRec, Removing, remove_set, StateLocked
<1>3. /\ rm' = [rm EXCEPT ![m] = v]
      /\ status' = [status EXCEPT ![i] = "REMOVING"]
      /\ flush' = [flush EXCEPT ![m] = {r \in Reqs : OnTaskWq(r)}]
  BY <1>2, Zenon DEF remove_set, BeginFlush
<1>4. /\ v \in RmRec /\ v.pc = "flush" /\ v.i = i /\ v.list = {} /\ v.force = rm[m].force
  BY <1>2, Zenon DEF RmRec
<1> HIDE DEF v
<1>5. /\ rm'[m] = v /\ rm' \in [Removers -> RmRec]
      /\ \A n \in Removers \ {m} : rm'[n] = rm[n]
      /\ flush'[m] = {r \in Reqs : OnTaskWq(r)}
      /\ \A f \in Flushers \ {m} : flush'[f] = flush[f]
      /\ flush' \in [Flushers -> SUBSET Reqs]
  BY <1>2, <1>3, <1>4, Indexes, Zenon
<1> HIDE DEF i
<1>6. /\ status'[i] = "REMOVING" /\ \A q \in Queues \ {i} : status'[q] = status[q]
      /\ status' \in [Queues -> {"RUNNING", "STOPPING", "STOPPED", "REMOVING"}]
  BY <1>2, <1>3, Zenon DEF QueueInv, QueueType, StatusType
<1>7. QueueType'
  BY <1>1, <1>5, <1>6, Zenon DEF QueueInv, QueueType, StatusType, ReqType, IdType, ActorType
<1>8. \A n \in Removers : rm'[n].list = rm[n].list
  BY <1>2, <1>4, <1>5, Zenon
<1>9. OneOwner' /\ Ids' /\ Completing'
  BY <1>1, <1>8 DEF QueueInv, OneOwner, Ids, Completing
<1>10. \A q : PastCheck(q)' = PastCheck(q) /\ PastCheck(q) \subseteq flush'[m]
  BY <1>1, <1>5, Zenon DEF PastCheck, OnTaskWq
<1>11. Removing'
  <2> SUFFICES ASSUME NEW n \in Removers
               PROVE  /\ rm'[n].pc # "end" => rm'[n].list = {}
                      /\ rm'[n].pc \in {"set", "flush", "end"} => rm'[n].i < num_queues
                      /\ rm'[n].pc = "flush" => /\ status'[rm'[n].i] # "RUNNING"
                                                /\ PastCheck(rm'[n].i) \subseteq flush'[n]
                      /\ \A q \in Queues : Passed(n, q)' =>
                            /\ status'[q] # "RUNNING"
                            /\ PastCheck(q) = {}
                            /\ rm'[n].force => inflight[q] = {}
    BY <1>1, <1>10, Zenon DEF Removing
  <2>1. CASE n = m
    BY <1>2, <1>4, <1>5, <1>6, <1>10, <2>1, Indexes DEF QueueInv, Removing, Passed, i
  <2>2. CASE n # m
    <3>1. rm[n].i \in Nat /\ n \in Flushers
      BY Indexes DEF QueueInv, QueueType, ActorType, RmRec
    <3> QED BY <1>5, <1>6, <2>2, <3>1, Indexes DEF QueueInv, Removing, Passed
  <2> QED BY <2>1, <2>2, Zenon
<1>12. Stopping'
  <2>1. flush'["stop"] = flush["stop"]
    BY <1>5, Indexes, Zenon
  <2>2. Stopping /\ \A c \in Completers : comp[c].q \in Queues
    BY Zenon DEF QueueInv, QueueType, ActorType, CompRec
  <2>3. \A u : InflightLocked(u)' = InflightLocked(u)
    BY <1>1, Zenon DEF InflightLocked
  <2>4. \A u \in Queues : /\ status[u] # "RUNNING" => status'[u] # "RUNNING"
                          /\ status'[u] \in {"STOPPING", "STOPPED"}
                                => u # i /\ status[u] \in {"STOPPING", "STOPPED"}
    BY <1>6
  <2>5. stopping # i
    BY <1>2, Zenon
  <2>6. \A c \in Completers : comp[c].pc = "settle" => status'[comp[c].q] # "RUNNING"
    BY <2>2, <2>4, Zenon DEF Stopping
  <2>7. \A u \in Queues : stopping = u => status'[u] \in {"STOPPING", "STOPPED"}
    BY <1>6, <2>2, <2>5, Zenon DEF Stopping
  <2> QED BY <1>1, <1>10, <2>1, <2>2, <2>3, <2>4, <2>6, <2>7, Zenon DEF Stopping
<1>13. GoneIsKept'
  <2>1. rm'[m].pc # "idle"
    BY <1>4, <1>5, Zenon
  <2> QED BY <1>1, <1>4, <1>5, <2>1, Zenon DEF QueueInv, GoneIsKept, Gone
<1> QED BY <1>7, <1>9, <1>11, <1>12, <1>13, Zenon DEF QueueInv

(* After the flush no worker of the queue is past the check, so that all   *)
(* that a forced removal splices off the inflight list is in the ring.     *)
LEMMA FlushedStep ==
    ASSUME QueueInv, NEW m \in Removers, remove_flushed(m)
    PROVE  QueueInv'
<1> DEFINE q == rm[m].i
           v == [rm[m] EXCEPT !.pc = "end", !.list = inflight[q]]
<1>1. UNCHANGED <<status, driver_data, dev_status, stopping, rpc, hctx, ubbd_q, req_tid, q_tid,
                  compr, answered, comp, flush>>
  BY Zenon DEF remove_flushed, qvars, bvars
<1>2. /\ rm \in [Removers -> RmRec] /\ rm[m] \in RmRec /\ rm[m].pc = "flush"
      /\ q \in Queues /\ q < num_queues /\ rm[m].list = {} /\ flush[m] = {}
      /\ inflight \in [Queues -> SUBSET Reqs]
  BY Indexes DEF QueueInv, QueueType, ActorType, ReqType, RmRec, Removing, remove_flushed
<1>3. status[q] # "RUNNING" /\ PastCheck(q) = {}
  BY <1>2, Zenon DEF QueueInv, Removing
<1>4. CASE ~rm[m].force /\ NextQueue(m) /\ UNCHANGED inflight
  BY <1>2, <1>3, <1>4, NextQueueStep, Zenon DEF remove_flushed, qvars, rvars, bvars
<1>5. CASE /\ inflight' = [inflight EXCEPT ![q] = {}]
           /\ rm' = [rm EXCEPT ![m].pc = "end", ![m].list = inflight[q]]
  <2>1. rm' = [rm EXCEPT ![m] = v]
    BY <1>2, <1>5, Zenon
  <2>2. v.pc = "end" /\ v.i = q /\ v.list = inflight[q] /\ v.force = rm[m].force
    BY <1>2, Zenon DEF RmRec
  <2>3. v \in RmRec
    BY <1>2, Zenon DEF RmRec
  <2> HIDE DEF v
  <2>4. /\ rm'[m] = v /\ rm' \in [Removers -> RmRec]
        /\ \A n \in Removers \ {m} : rm'[n] = rm[n]
    BY <1>2, <2>1, <2>3, Zenon
  <2> HIDE DEF q
  <2>5. inflight'[q] = {} /\ \A u \in Queues \ {q} : inflight'[u] = inflight[u]
    BY <1>2, <1>5
  <2>6. QueueType'
    BY <1>1, <1>2, <1>5, <2>4, Zenon DEF QueueInv, QueueType, StatusType, ReqType, IdType, ActorType
  <2>7. \A r \in inflight[q] : r \in Reqs /\ rpc[r] = "submitted" /\ ubbd_q[r] = q
    BY <1>2, <1>3 DEF QueueInv, OneOwner, PastCheck
  <2>8. /\ \A c \in Completers : comp[c].holds \cap inflight[q] = {}
        /\ \A n \in Removers : rm[n].list \cap inflight[q] = {}
    BY <2>7, Zenon DEF QueueInv, OneOwner
  <2>9. OneOwner'
    <3>1. /\ \A u \in Queues : \A s \in inflight'[u] :
                rpc[s] \in {"listed", "submitted"} /\ ubbd_q[s] = u
          /\ \A s \in Reqs : rpc[s] = "listed" => s \in inflight'[ubbd_q[s]]
      <4>1. \A s \in Reqs : ubbd_q[s] \in Queues
        BY Zenon DEF QueueInv, QueueType, ReqType
      <4> QED BY <2>5, <2>7, <4>1, Zenon DEF QueueInv, OneOwner
    <3>2. \A s \in Reqs : inflight'[ubbd_q[s]] \subseteq inflight[ubbd_q[s]]
      BY <2>5, Zenon DEF QueueInv, QueueType, ReqType
    <3>3. /\ \A c \in Completers : comp[c].holds \subseteq Reqs
          /\ \A n \in Removers : rm[n].list \subseteq Reqs
      BY Zenon DEF QueueInv, QueueType, ActorType, CompRec, RmRec
    <3>4. ASSUME NEW c \in Completers, NEW s \in comp[c].holds
          PROVE  /\ rpc[s] = "submitted"
                 /\ s \notin inflight'[ubbd_q[s]]
                 /\ \A d \in Completers \ {c} : s \notin comp[d].holds
                 /\ \A n \in Removers : s \notin rm'[n].list
      <4>1. /\ s \in Reqs /\ rpc[s] = "submitted" /\ s \notin inflight[ubbd_q[s]]
            /\ \A d \in Completers \ {c} : s \notin comp[d].holds
            /\ \A n \in Removers : s \notin rm[n].list
        BY <3>3, Zenon DEF QueueInv, OneOwner
      <4>2. s \notin inflight[q]
        BY <2>8, Zenon
      <4>3. \A n \in Removers : s \notin rm'[n].list
        BY <2>2, <2>4, <4>1, <4>2, Zenon
      <4> QED BY <3>2, <4>1, <4>3, Zenon
    <3>5. ASSUME NEW n \in Removers, NEW s \in rm'[n].list
          PROVE  /\ rpc[s] = "submitted"
                 /\ s \notin inflight'[ubbd_q[s]]
                 /\ \A k \in Removers \ {n} : s \notin rm'[k].list
      <4>1. CASE n = m
        BY <2>2, <2>4, <2>5, <2>7, <2>8, <4>1
      <4>2. CASE n # m
        BY <2>2, <2>4, <2>8, <3>2, <3>3, <4>2 DEF QueueInv, OneOwner
      <4> QED BY <4>1, <4>2
    <3> QED BY <1>1, <3>1, <3>4, <3>5 DEF OneOwner
  <2>10. Ids' /\ Completing'
    BY <1>1, Zenon DEF QueueInv, Ids, Completing
  <2>11. \A u : PastCheck(u)' = PastCheck(u)
    BY <1>1, Zenon DEF PastCheck
  <2>12. Removing'
    <3> SUFFICES ASSUME NEW n \in Removers
                 PROVE  /\ rm'[n].pc # "end" => rm'[n].list = {}
                        /\ rm'[n].pc \in {"set", "flush", "end"} => rm'[n].i < num_queues
                        /\ rm'[n].pc = "flush" => /\ status[rm'[n].i] # "RUNNING"
                                                  /\ PastCheck(rm'[n].i) \subseteq flush[n]
                        /\ \A u \in Queues : Passed(n, u)' =>
                              /\ status[u] # "RUNNING"
                              /\ PastCheck(u) = {}
                              /\ rm'[n].force => inflight'[u] = {}
      BY <1>1, <2>11, Zenon DEF Removing
    <3>1. CASE n = m
      BY <1>2, <1>3, <2>2, <2>4, <2>5, <3>1 DEF QueueInv, Removing, Passed, q
    <3>2. CASE n # m
      BY <2>4, <2>5, <3>2 DEF QueueInv, Removing, Passed
    <3> QED BY <3>1, <3>2, Zenon
  <2>13. Stopping'
    BY <1>1, <2>11, Zenon DEF QueueInv, Stopping, InflightLocked
  <2>14. GoneIsKept'
    BY <1>1, <2>2, <2>4, Zenon DEF QueueInv, GoneIsKept, Gone
  <2> QED BY <2>6, <2>9, <2>10, <2>12, <2>13, <2>14 DEF QueueInv
<1> QED BY <1>4, <1>5, Zenon DEF remove_flushed

(* A forced removal ends the requests of its list, which nobody else has. *)
LEMMA RemoveEndStep ==
    ASSUME QueueInv, NEW m \in Removers, remove_end(m)
    PROVE  QueueInv'
<1>1. UNCHANGED <<status, driver_data, dev_status, stopping, inflight, hctx, ubbd_q, req_tid,
                  q_tid, compr, answered, comp, flush>>
  BY Zenon DEF remove_end, qvars, bvars
<1>2. /\ rm \in [Removers -> RmRec] /\ rm[m] \in RmRec /\ rm[m].pc = "end"
      /\ rm[m].i \in Queues /\ rm[m].i < num_queues
      /\ rpc \in [Reqs -> ReqPlaces]
  BY Indexes DEF QueueInv, QueueType, ActorType, ReqType, RmRec, Removing, remove_end
<1>3. CASE rm[m].list = {} /\ NextQueue(m) /\ UNCHANGED rpc
  <2>1. Passed(m, rm[m].i)
    BY <1>2, Zenon DEF Passed
  <2>2. /\ status[rm[m].i] # "RUNNING" /\ PastCheck(rm[m].i) = {}
        /\ rm[m].force => inflight[rm[m].i] = {}
    BY <1>2, <2>1, Zenon DEF QueueInv, Removing
  <2> QED BY <1>1, <1>2, <1>3, <2>2, NextQueueStep, Zenon DEF qvars, rvars, bvars
<1>4. ASSUME NEW r \in rm[m].list,
             rpc' = [rpc EXCEPT ![r] = "free"],
             rm' = [rm EXCEPT ![m].list = @ \ {r}]
      PROVE  QueueInv'
  <2> DEFINE v == [rm[m] EXCEPT !.list = rm[m].list \ {r}]
  <2>1. rm' = [rm EXCEPT ![m] = v]
    BY <1>2, <1>4, Zenon DEF RmRec
  <2>2. /\ v.pc = "end" /\ v.i = rm[m].i /\ v.list = rm[m].list \ {r}
        /\ v.force = rm[m].force
    BY <1>2, Zenon DEF RmRec
  <2>3. v \in RmRec /\ r \in Reqs
    BY <1>2, Zenon DEF RmRec
  <2> HIDE DEF v
  <2>4. /\ rm'[m] = v /\ rm' \in [Removers -> RmRec]
        /\ \A n \in Removers \ {m} : rm'[n] = rm[n]
    BY <1>2, <2>1, <2>3
  <2>5. /\ rpc' \in [Reqs -> ReqPlaces] /\ rpc'[r] = "free" /\ rpc[r] = "submitted"
        /\ \A s \in Reqs \ {r} : rpc'[s] = rpc[s]
    BY <1>2, <1>4, <2>3 DEF ReqPlaces, QueueInv, OneOwner
  <2>6. QueueType'
    BY <1>1, <2>4, <2>5 DEF QueueInv, QueueType, StatusType, ReqType, IdType, ActorType
  <2>7. /\ \A u \in Queues : inflight[u] \subseteq Reqs \ {r}
        /\ \A c \in Completers : comp[c].holds \subseteq Reqs \ {r}
        /\ \A n \in Removers \ {m} : rm[n].list \subseteq Reqs \ {r}
        /\ rm[m].list \subseteq Reqs
    BY <1>4 DEF QueueInv, QueueType, ReqType, ActorType, CompRec, RmRec, OneOwner
  <2>8. OneOwner'
    <3>1. \A n \in Removers : rm'[n].list \subseteq rm[n].list \ {r}
      BY <2>2, <2>4, <2>7, Zenon
    <3> QED BY <1>1, <2>5, <2>7, <3>1 DEF QueueInv, OneOwner
  <2>9. Ids' /\ Completing'
    BY <1>1, <2>5 DEF QueueInv, Ids, Completing
  <2>10. \A u : PastCheck(u)' = PastCheck(u)
    BY <1>1, <2>5, Zenon DEF PastCheck
  <2>11. \A n \in Removers : /\ rm'[n].pc = rm[n].pc /\ rm'[n].i = rm[n].i
                             /\ rm'[n].force = rm[n].force
                             /\ rm'[n].pc # "end" => rm'[n].list = rm[n].list
    BY <1>2, <2>2, <2>4, Zenon
  <2>12. Removing'
    BY <1>1, <2>10, <2>11 DEF QueueInv, Removing, Passed
  <2>13. Stopping'
    BY <1>1, <2>10, Zenon DEF QueueInv, Stopping, InflightLocked
  <2>14. GoneIsKept'
    BY <1>1, <2>11, Zenon DEF QueueInv, GoneIsKept, Gone
  <2> QED BY <2>6, <2>8, <2>9, <2>12, <2>13, <2>14, Zenon DEF QueueInv
<1> QED BY <1>3, <1>4, Zenon DEF remove_end

(* The end of ubbd_dev_remove_disk. *)
LEMMA DiskStep ==
    ASSUME QueueInv, NEW m \in Removers, remove_status(m) \/ del_gendisk(m)
    PROVE  QueueInv'
<1> DEFINE w == [rm[m] EXCEPT !.pc = "del"]
<1>1. /\ rm \in [Removers -> RmRec] /\ rm[m] \in RmRec /\ rm[m].pc \in {"status", "del"}
      /\ rm[m].list = {} /\ rm[m].i \in Nat
  BY Indexes
     DEF QueueInv, QueueType, ActorType, RmRec, Removing, remove_status, del_gendisk
<1>2. /\ IdleRm \in RmRec /\ IdleRm.list = {} /\ IdleRm.i = 0 /\ IdleRm.pc = "idle"
  BY Indexes DEF IdleRm, RmRec
<1>3. /\ w \in RmRec /\ w.list = {} /\ w.i = rm[m].i /\ w.pc = "del" /\ w.force = rm[m].force
  BY <1>1, Zenon DEF RmRec
<1>4. \/ rm' = [rm EXCEPT ![m] = IdleRm] \/ rm' = [rm EXCEPT ![m] = w]
  BY Zenon DEF remove_status, del_gendisk
<1>5. /\ dev_status' = "REMOVING"
      /\ UNCHANGED <<status, driver_data, stopping, rvars, bvars, comp, flush>>
  BY Zenon DEF remove_status, del_gendisk, QueueInv, GoneIsKept, qvars
<1> HIDE DEF w
<1>6. CASE rm' = [rm EXCEPT ![m] = IdleRm]
  <2>1. \A q \in Queues : ~(q < IdleRm.i)
    <3>1. \A q \in Queues : ~(q < 0)
      BY Indexes
    <3> QED BY <1>2, <3>1, Zenon
  <2>2. RemoverMove(m, IdleRm)
    BY <1>1, <1>2, <1>5, <1>6, <2>1, Zenon DEF RemoverMove
  <2> QED BY <1>2, <2>2, RemoverStep, Zenon
<1>7. CASE rm' = [rm EXCEPT ![m] = w]
  <2>1. RemoverMove(m, w)
    BY <1>1, <1>3, <1>5, <1>7, Zenon DEF RemoverMove, QueueInv, Removing, Passed
  <2> QED BY <1>3, <2>1, RemoverStep, Zenon
<1> QED BY <1>4, <1>6, <1>7, Zenon

-----------------------------------------------------------------------------
(* The invariant holds initially. *)
LEMMA InitInv == Init => QueueInv
<1> SUFFICES ASSUME Init PROVE QueueInv
  BY Zenon
<1>1. IdleComp \in CompRec /\ IdleComp.pc = "idle" /\ IdleComp.holds = {}
  BY Indexes, Zenon DEF IdleComp, CompRec
<1>2. /\ IdleRm \in RmRec /\ IdleRm.pc = "idle" /\ IdleRm.list = {} /\ IdleRm.i = 0
  BY Indexes DEF IdleRm, RmRec
<1>3. QueueType
  BY <1>1, <1>2, Indexes, Zenon
     DEF Init, QueueType, StatusType, ReqType, IdType, ActorType, ReqPlaces
<1>4. /\ \A c \in Completers : comp[c] = IdleComp
      /\ \A m \in Removers : rm[m] = IdleRm
      /\ \A r \in Reqs : rpc[r] = "free"
      /\ \A q \in Queues : /\ inflight[q] = {} /\ answered[q] = {} /\ compr[q] = {}
                           /\ status[q] = "RUNNING"
      /\ stopping = -1
  BY Zenon DEF Init
<1>5. OneOwner /\ Ids /\ Completing
  BY <1>1, <1>2, <1>4, Zenon DEF OneOwner, Ids, Completing
<1>6. Removing
  <2>1. \A m \in Removers, q \in Queues : ~Passed(m, q)
    BY <1>2, <1>4, Indexes DEF Passed
  <2> QED BY <1>2, <1>4, <2>1, Zenon DEF Removing
<1>7. Stopping
  <2>1. \A q \in Queues : stopping # q /\ ~InflightLocked(q)
    BY <1>1, <1>4, Indexes, Zenon DEF InflightLocked
  <2> QED BY <1>1, <1>4, <2>1, Zenon DEF Stopping
<1>8. GoneIsKept
  BY <1>2, <1>4, Zenon DEF GoneIsKept
<1> QED BY <1>3, <1>5, <1>6, <1>7, <1>8, Zenon DEF QueueInv

(* The actors, as Next combines them. *)
LEMMA NextStep ==
    ASSUME QueueInv, "start" \notin QueueOps, [Next]_vars
    PROVE  QueueInv'
<1>1. CASE ubbd_open \/ ubbd_release \/ UNCHANGED vars
  <2>1. UNCHANGED <<status, driver_data, dev_status, stopping, inflight, rpc, hctx, ubbd_q,
                    req_tid, q_tid, compr, answered, comp, rm, flush>>
    BY <1>1, Zenon DEF ubbd_open, ubbd_release, vars, qvars, rvars, bvars
  <2>2. QueueType'
    BY <2>1, Zenon DEF QueueInv, QueueType, StatusType, ReqType, IdType, ActorType
  <2>3. OneOwner' /\ Ids' /\ Completing'
    BY <2>1 DEF QueueInv, OneOwner, Ids, Completing
  <2>4. Removing' /\ Stopping' /\ GoneIsKept'
    BY <2>1
       DEF QueueInv, Removing, Passed, PastCheck, Stopping, InflightLocked, GoneIsKept, Gone
  <2> QED BY <2>2, <2>3, <2>4, Zenon DEF QueueInv
<1>2. ASSUME NEW r \in Reqs, NEW h \in Queues, issue(r, h) PROVE QueueInv'
  BY <1>2, WorkerQuiet, Zenon
<1>3. ASSUME NEW r \in Reqs, Worker(r) PROVE QueueInv'
  BY <1>3, WorkerQuiet, PrepareStep, SubmitStep, Zenon DEF Worker
<1>4. ASSUME NEW q \in Queues, NEW t \in 1 .. q_tid[q],
             backend_post(q, t) \/ backend_repost(q, t)
      PROVE  QueueInv'
  BY <1>4, BackendStep, Zenon
<1>5. ASSUME NEW c \in Completers, NEW q \in Queues, complete_enter(c, q) PROVE QueueInv'
  BY <1>5, CompleterLooks, Zenon
<1>6. ASSUME NEW c \in Completers, Complete(c) PROVE QueueInv'
  BY <1>6, CompleterLooks, FetchStep, SettleStep, EndStep, Zenon DEF Complete
<1>7. ASSUME NEW q \in Queues, queue_stop(q) \/ queue_stop_flushed(q) \/ queue_start(q)
      PROVE  QueueInv'
  BY <1>7, StopStep, StopFlushedStep, Zenon DEF queue_start
<1>8. ASSUME NEW m \in Removers, NEW force \in Forces, handle_cmd_remove_disk(m, force)
      PROVE  QueueInv'
  <2>1. force \in BOOLEAN
    BY Indexes, Zenon
  <2> QED BY <1>8, <2>1, StartStep, Zenon DEF handle_cmd_remove_disk
<1>9. ASSUME NEW m \in Removers, ubbd_timeout(m) \/ Remove(m) PROVE QueueInv'
  <2>1. ubbd_timeout(m) => StartRemoval(m, TRUE) /\ TRUE \in BOOLEAN
    BY Zenon DEF ubbd_timeout
  <2>2. CASE ubbd_timeout(m)
    BY <2>1, <2>2, StartStep, Zenon
  <2>3. CASE Remove(m)
    BY <2>3, SetStep, FlushedStep, RemoveEndStep, DiskStep, Zenon DEF Remove
  <2> QED BY <1>9, <2>2, <2>3, Zenon
<1> QED BY <1>1, <1>2, <1>3, <1>4, <1>5, <1>6, <1>7, <1>8, <1>9 DEF Next

(* The inductive invariant of the request path: who owns a request, which  *)
(* ids are in use, and for which workers a stop or a removal still waits.  *)
THEOREM QueueInvariant ==
    ASSUME "start" \notin QueueOps
    PROVE  Spec => []QueueInv
<1>1. QueueInv /\ [Next]_vars => QueueInv'
  BY NextStep, Zenon
<1> QED BY <1>1, InitInv, PTL DEF Spec

(* No request is ended twice, or ended by one actor while another uses it: *)
(* ubbd_queue_complete, ubbd_queue_end_inflight_reqs and the worker each   *)
(* own what they end or requeue.                                           *)
THEOREM RequestsHaveOneOwner ==
    ASSUME "start" \notin QueueOps
    PROVE  Spec => []OneOwner
<1>1. QueueInv => OneOwner
  BY Zenon DEF QueueInv
<1> QED BY <1>1, QueueInvariant, PTL

(* complete_inflight_req is called only for a request whose worker has set *)
(* ubbd_req->se, and with the completion of this very request.             *)
THEOREM OnlySubmittedEnd ==
    ASSUME "start" \notin QueueOps
    PROVE  Spec => []EndedHasSe
<1>1. QueueInv => EndedHasSe
  <2> SUFFICES ASSUME QueueInv PROVE EndedHasSe
    BY Zenon
  <2>1. \A c \in Completers : \A r \in comp[c].holds : req_tid[r] = comp[c].tid
    BY Zenon DEF QueueInv, Completing
  <2>2. \A c \in Completers : comp[c].pc = "fetch" => comp[c].tid # 0
    BY DEF QueueInv, QueueType, ActorType, IdType, CompRec, Completing, Ids
  <2>3. \A m \in Removers : \A r \in rm[m].list : req_tid[r] # 0
    BY DEF QueueInv, QueueType, ActorType, ReqType, RmRec, OneOwner, Ids
  <2> QED BY <2>1, <2>2, <2>3, Zenon DEF EndedHasSe
<1> QED BY <1>1, QueueInvariant, PTL

(* A forced removal leaves no request and no worker past the check on a    *)
(* queue that ubbd_dev_remove_queues has passed.                           *)
THEOREM RemovalDrains ==
    ASSUME "start" \notin QueueOps
    PROVE  Spec => []ForcedRemovalDrains
<1>1. QueueInv => ForcedRemovalDrains
  <2> SUFFICES ASSUME QueueInv, NEW m \in Removers, rm[m].force,
                      NEW q \in 0 .. rm[m].i - 1
               PROVE  /\ inflight[q] = {}
                      /\ \A r \in Reqs : ubbd_q[r] = q => rpc[r] \notin {"prepare", "listed"}
    BY Zenon DEF ForcedRemovalDrains
  <2>1. rm[m].i \in 0 .. num_queues
    BY Zenon DEF QueueInv, QueueType, ActorType, RmRec
  <2>2. q \in Queues /\ Passed(m, q)
    BY <2>1, Indexes DEF Passed
  <2> QED BY <2>2 DEF QueueInv, Removing, PastCheck
<1> QED BY <1>1, QueueInvariant, PTL

(* Nothing is added to the inflight list of a queue once queue_stop has    *)
(* returned.                                                               *)
THEOREM StopIsEffective ==
    ASSUME "start" \notin QueueOps
    PROVE  Spec => StoppedAdmitsNothing
<1> DEFINE A == \A q \in Queues : status[q] = "STOPPED" /\ ~StateLocked(q)
                                    => inflight'[q] \subseteq inflight[q]
<1>1. QueueInv /\ [Next]_vars => [A]_vars
  <2> SUFFICES ASSUME QueueInv, Next, NEW q \in Queues, status[q] = "STOPPED", stopping # q
               PROVE  inflight'[q] \subseteq inflight[q]
    BY Zenon DEF StateLocked
  <2>1. inflight \in [Queues -> SUBSET Reqs] /\ PastCheck(q) = {}
    BY Zenon DEF QueueInv, QueueType, ReqType, Stopping
  <2>2. CASE UNCHANGED inflight
    BY <2>2, Zenon
  <2>3. ASSUME NEW r \in Reqs, workfn_prepare(r) \/ workfn_submit(r)
        PROVE  inflight'[q] \subseteq inflight[q]
    BY <2>1, <2>3, Zenon DEF workfn_prepare, workfn_submit, PastCheck
  <2>4. ASSUME NEW c \in Completers, fetch_inflight_req(c)
        PROVE  inflight'[q] \subseteq inflight[q]
    BY <2>1, <2>4 DEF fetch_inflight_req
  <2>5. ASSUME NEW m \in Removers, remove_flushed(m)
        PROVE  inflight'[q] \subseteq inflight[q]
    BY <2>1, <2>5, Zenon DEF remove_flushed
  <2>6. \/ UNCHANGED inflight
        \/ \E r \in Reqs : workfn_prepare(r) \/ workfn_submit(r)
        \/ \E c \in Completers : fetch_inflight_req(c)
        \/ \E m \in Removers : remove_flushed(m)
    BY Zenon DEF Next, ubbd_open, ubbd_release, issue, Worker, ubbd_queue_rq, queue_work,
           workfn_check, backend_post, backend_repost, complete_enter, Complete, complete_pop,
           fetch_settle, complete_end, queue_stop, queue_stop_flushed, queue_start,
           handle_cmd_remove_disk, ubbd_timeout, StartRemoval, Remove, remove_set, remove_end,
           remove_status, del_gendisk, rvars
  <2> QED BY <2>2, <2>3, <2>4, <2>5, <2>6, Zenon
<1> QED BY <1>1, QueueInvariant, PTL DEF Spec, StoppedAdmitsNothing

-----------------------------------------------------------------------------

(* The refinement mapping to UbbdBlockIO. *)
Outstanding == {r \in Reqs : rpc[r] # "free"}
Replied == {r \in Reqs : rpc[r] = "submitted" /\ req_tid[r] \in answered[ubbd_q[r]]}

(* The steps of UbbdBlockIO under the mapping. *)
Stutter == Outstanding' = Outstanding /\ Replied' = Replied /\ Gone' = Gone
IssueOf(r) ==
    /\ r \notin Outstanding /\ Outstanding' = Outstanding \cup {r}
    /\ Replied' = Replied /\ Gone' = Gone
AnswerOf(r) ==
    /\ r \in Outstanding \ Replied /\ Replied' = Replied \cup {r}
    /\ Outstanding' = Outstanding /\ Gone' = Gone
EndOf(r) ==
    /\ r \in Outstanding /\ (r \in Replied \/ Gone)
    /\ Outstanding' = Outstanding \ {r} /\ Replied' = Replied \ {r} /\ Gone' = Gone
Removal ==
    ~Gone /\ Gone' = TRUE /\ Outstanding' = Outstanding /\ Replied' = Replied
IOStep == Stutter \/ Removal \/ \E r \in Reqs : IssueOf(r) \/ AnswerOf(r) \/ EndOf(r)

(* They are the steps of the instance. *)
LEMMA MappedStep == IOStep => [BlockIO!IONext]_(BlockIO!ioVars)
BY Zenon DEF IOStep, Stutter, IssueOf, AnswerOf, EndOf, Removal, Outstanding, Replied, Gone,
       BlockIO!IONext, BlockIO!ioVars, BlockIO!Issue, BlockIO!Answer, BlockIO!End,
       BlockIO!Remove

(* A step of a worker is an Issue, an End or a stutter. *)
LEMMA WorkerMapped ==
    ASSUME QueueInv, NEW r \in Reqs, (\E h \in Queues : issue(r, h)) \/ Worker(r)
    PROVE  IOStep
<1>1. UNCHANGED <<status, dev_status, answered, rm>>
  BY Zenon DEF issue, Worker, ubbd_queue_rq, queue_work, workfn_check, workfn_prepare, workfn_submit,
         qvars, bvars
<1>2. Gone' = Gone
  BY <1>1 DEF Gone
<1>3. /\ rpc \in [Reqs -> ReqPlaces] /\ ubbd_q \in [Reqs -> Queues]
      /\ req_tid \in [Reqs -> Nat] /\ q_tid \in [Queues -> Nat]
      /\ hctx \in [Reqs -> Queues] /\ driver_data \in [Queues -> Queues]
  BY Zenon DEF QueueInv, QueueType, StatusType, ReqType, IdType
<1>4. \A s \in Reqs \ {r} : rpc'[s] = rpc[s] /\ ubbd_q'[s] = ubbd_q[s] /\ req_tid'[s] = req_tid[s]
  <2>1. CASE \E h \in Queues : issue(r, h)
    BY <1>3, <2>1 DEF issue
  <2>2. CASE ubbd_queue_rq(r) \/ queue_work(r) \/ workfn_check(r)
    BY <1>3, <2>2 DEF ubbd_queue_rq, queue_work, workfn_check
  <2>3. CASE workfn_prepare(r) \/ workfn_submit(r)
    BY <1>3, <2>3, Zenon DEF workfn_prepare, workfn_submit
  <2> QED BY <2>1, <2>2, <2>3, Zenon DEF Worker
<1>5. /\ rpc[r] # "submitted"
      /\ rpc'[r] = "submitted" => ubbd_q'[r] = ubbd_q[r] /\ req_tid'[r] = q_tid[ubbd_q[r]] + 1
  <2>1. CASE \E h \in Queues : issue(r, h)
    BY <1>3, <2>1, Zenon DEF issue
  <2>2. CASE ubbd_queue_rq(r) \/ queue_work(r) \/ workfn_check(r)
    BY <1>3, <2>2, Zenon DEF ubbd_queue_rq, queue_work, workfn_check
  <2>3. CASE workfn_prepare(r) \/ workfn_submit(r)
    BY <1>3, <2>3, Zenon DEF workfn_prepare, workfn_submit
  <2> QED BY <2>1, <2>2, <2>3 DEF Worker
<1>6. q_tid[ubbd_q[r]] + 1 \notin answered[ubbd_q[r]]
  <2>1. ubbd_q[r] \in Queues /\ q_tid[ubbd_q[r]] \in Nat
    BY <1>3, Zenon
  <2> QED BY <2>1 DEF QueueInv, Ids
<1>7. Replied' = Replied
  BY <1>1, <1>4, <1>5, <1>6, Zenon DEF Replied
<1>8. CASE rpc[r] = "free" /\ rpc'[r] # "free"
  <2>1. IssueOf(r)
    BY <1>2, <1>4, <1>7, <1>8 DEF IssueOf, Outstanding
  <2> QED BY <2>1, Zenon DEF IOStep
<1>9. CASE rpc[r] # "free" /\ rpc'[r] = "free"
  <2>1. Gone
    <3>1. \E q \in Queues : status[q] = "REMOVING"
      <4>1. CASE ubbd_queue_rq(r)
        BY <1>3, <1>9, <4>1, Zenon DEF ubbd_queue_rq
      <4>2. CASE workfn_check(r)
        BY <1>3, <1>9, <4>2, Zenon DEF workfn_check
      <4>3. CASE (\E h \in Queues : issue(r, h)) \/ queue_work(r)
        BY <1>3, <1>9, <4>3 DEF issue, queue_work
      <4>4. CASE workfn_prepare(r) \/ workfn_submit(r)
        BY <1>3, <1>9, <4>4, Zenon DEF workfn_prepare, workfn_submit
      <4> QED BY <4>1, <4>2, <4>3, <4>4 DEF Worker
    <3> QED BY <3>1, Zenon DEF QueueInv, GoneIsKept
  <2>2. r \notin Replied
    BY <1>5, Zenon DEF Replied
  <2>3. EndOf(r)
    BY <1>2, <1>4, <1>7, <1>9, <2>1, <2>2 DEF EndOf, Outstanding
  <2> QED BY <2>3, Zenon DEF IOStep
<1>10. CASE (rpc[r] = "free") = (rpc'[r] = "free")
  <2>1. Stutter
    BY <1>2, <1>4, <1>7, <1>10, Zenon DEF Stutter, Outstanding
  <2> QED BY <2>1, Zenon DEF IOStep
<1> QED BY <1>8, <1>9, <1>10, Zenon

(* The first answer to an id answers the one request that has it. *)
LEMMA BackendMapped ==
    ASSUME QueueInv, NEW q \in Queues, NEW t \in 1 .. q_tid[q],
           backend_post(q, t) \/ backend_repost(q, t)
    PROVE  IOStep
<1>1. UNCHANGED <<dev_status, rpc, ubbd_q, req_tid, rm>>
  BY Zenon DEF backend_post, backend_repost, qvars, rvars
<1>2. Gone' = Gone /\ Outstanding' = Outstanding
  BY <1>1, Zenon DEF Gone, Outstanding
<1>3. /\ answered \in [Queues -> SUBSET Nat] /\ ubbd_q \in [Reqs -> Queues]
  BY Zenon DEF QueueInv, QueueType, IdType, ReqType
<1>4. /\ answered'[q] = answered[q] \cup {t}
      /\ \A p \in Queues \ {q} : answered'[p] = answered[p]
  BY <1>3 DEF backend_post, backend_repost
<1> DEFINE Mine == {r \in Reqs : rpc[r] = "submitted" /\ ubbd_q[r] = q /\ req_tid[r] = t}
<1>5. Replied' = Replied \cup Mine
  BY <1>1, <1>3, <1>4, Zenon DEF Replied
<1>6. CASE Mine \subseteq Replied
  <2>1. Stutter
    BY <1>2, <1>5, <1>6, Zenon DEF Stutter
  <2> QED BY <2>1, Zenon DEF IOStep
<1>7. ASSUME NEW r \in Mine, r \notin Replied PROVE IOStep
  <2>1. Mine = {r}
    BY <1>7, Zenon DEF QueueInv, Ids
  <2>2. r \in Outstanding
    BY <1>7, Zenon DEF Outstanding
  <2> HIDE DEF Mine
  <2>3. AnswerOf(r)
    BY <1>2, <1>5, <1>7, <2>1, <2>2, Zenon DEF AnswerOf
  <2>4. r \in Reqs
    BY <2>2, Zenon DEF Outstanding
  <2> QED BY <2>3, <2>4, Zenon DEF IOStep
<1> QED BY <1>6, <1>7, Zenon

(* A completer ends a request that the backend has answered. *)
LEMMA EndMapped ==
    ASSUME QueueInv, NEW c \in Completers, complete_end(c)
    PROVE  IOStep
<1> DEFINE H == comp[c].holds
<1>1. UNCHANGED <<dev_status, ubbd_q, req_tid, answered, rm>>
  BY Zenon DEF complete_end, qvars, bvars
<1>2. Gone' = Gone
  BY <1>1, Zenon DEF Gone
<1>3. H \subseteq Reqs /\ comp[c].pc = "end"
  BY Zenon DEF QueueInv, QueueType, ActorType, CompRec, complete_end
<1>4. \A r \in Reqs : rpc'[r] = IF r \in H THEN "free" ELSE rpc[r]
  BY Zenon DEF complete_end
<1>5. \A r \in H : r \in Replied /\ r \in Outstanding
  BY <1>3 DEF QueueInv, Completing, OneOwner, Replied, Outstanding
<1>6. Outstanding' = Outstanding \ H /\ Replied' = Replied \ H
  BY <1>1, <1>3, <1>4, Zenon DEF Outstanding, Replied
<1>7. CASE H = {}
  <2>1. Stutter
    BY <1>2, <1>6, <1>7, Zenon DEF Stutter
  <2> QED BY <2>1, Zenon DEF IOStep
<1>8. ASSUME NEW r \in H PROVE IOStep
  <2>1. H = {r}
    BY <1>3, <1>8 DEF QueueInv, Completing, OneOwner, Ids
  <2> HIDE DEF H
  <2>2. EndOf(r)
    BY <1>2, <1>5, <1>6, <1>8, <2>1, Zenon DEF EndOf
  <2> QED BY <1>3, <1>8, <2>2, Zenon DEF IOStep
<1> QED BY <1>7, <1>8, Zenon

(* A removal begins once, and ends requests with an error. *)
LEMMA RemovalMapped ==
    ASSUME QueueInv, NEW m \in Removers,
           (\E force \in BOOLEAN : StartRemoval(m, force)) \/ Remove(m)
    PROVE  IOStep
<1>1. UNCHANGED <<ubbd_q, req_tid, answered>>
  BY Zenon DEF StartRemoval, Remove, remove_set, remove_flushed, remove_end, remove_status,
         del_gendisk, rvars, bvars
<1>2. rm \in [Removers -> RmRec] /\ rm[m] \in RmRec /\ rpc \in [Reqs -> ReqPlaces]
  BY Zenon DEF QueueInv, QueueType, ActorType, ReqType
<1>3. UNCHANGED rpc => Outstanding' = Outstanding /\ Replied' = Replied
  BY <1>1, Zenon DEF Outstanding, Replied
<1>4. Gone \in BOOLEAN /\ Gone' \in BOOLEAN
  BY Zenon DEF Gone
<1>5. ASSUME NEW force \in BOOLEAN, StartRemoval(m, force) PROVE IOStep
  <2>1. rm'[m].pc = "set" /\ UNCHANGED rpc
    BY <1>2, <1>5, Zenon DEF StartRemoval, IdleRm, rvars
  <2>2. Gone'
    BY <2>1, Zenon DEF Gone
  <2>3. Stutter \/ Removal
    BY <1>3, <1>4, <2>1, <2>2, Zenon DEF Stutter, Removal
  <2> QED BY <2>3, Zenon DEF IOStep
<1>6. ASSUME Remove(m) PROVE Gone /\ Gone'
  <2>1. Gone
    BY <1>6, Zenon DEF Remove, remove_set, remove_flushed, remove_end, remove_status, del_gendisk, Gone
  <2>2. CASE remove_set(m)
    <3>1. rm'[m].pc = "flush"
      BY <1>2, <2>2, Zenon DEF remove_set, RmRec
    <3> QED BY <2>1, <3>1, Zenon DEF Gone
  <2>3. CASE remove_flushed(m) \/ remove_end(m)
    <3>1. ASSUME NextQueue(m) PROVE rm'[m].pc # "idle"
      BY <1>2, <3>1, Zenon DEF NextQueue, RmRec
    <3>2. ASSUME rm' = [rm EXCEPT ![m].pc = "end", ![m].list = inflight[rm[m].i]]
          PROVE  rm'[m].pc # "idle"
      BY <1>2, <3>2, Zenon DEF RmRec
    <3>3. ASSUME NEW r, rm' = [rm EXCEPT ![m].list = @ \ {r}], rm[m].pc = "end"
          PROVE  rm'[m].pc # "idle"
      BY <1>2, <3>3 DEF RmRec
    <3>4. rm'[m].pc # "idle"
      BY <2>3, <3>1, <3>2, <3>3, Zenon DEF remove_flushed, remove_end
    <3> QED BY <2>1, <3>4, Zenon DEF Gone
  <2>4. CASE remove_status(m)
    BY <2>1, <2>4, Zenon DEF remove_status, Gone
  <2>5. CASE del_gendisk(m)
    BY <2>1, <2>5, Zenon DEF del_gendisk, qvars, QueueInv, GoneIsKept, Gone
  <2> QED BY <1>6, <2>1, <2>2, <2>3, <2>4, <2>5, Zenon DEF Remove
<1>7. ASSUME Remove(m), UNCHANGED rpc PROVE IOStep
  <2>1. Stutter
    BY <1>3, <1>6, <1>7, <1>4, Zenon DEF Stutter
  <2> QED BY <2>1 DEF IOStep
<1>8. ASSUME remove_end(m), NEW r \in rm[m].list, rpc' = [rpc EXCEPT ![r] = "free"]
      PROVE  IOStep
  <2>1. r \in Reqs /\ rpc[r] = "submitted"
    BY <1>2, Zenon DEF RmRec, QueueInv, OneOwner
  <2>2. /\ r \in Outstanding
        /\ Outstanding' = Outstanding \ {r} /\ Replied' = Replied \ {r}
    BY <1>1, <1>2, <1>8, <2>1, Zenon DEF Outstanding, Replied
  <2>3. Gone /\ Gone'
    BY <1>6, <1>8, Zenon DEF Remove
  <2>4. EndOf(r)
    BY <1>4, <2>2, <2>3 DEF EndOf
  <2> QED BY <2>1, <2>4, Zenon DEF IOStep
<1>9. ASSUME Remove(m) PROVE IOStep
  <2>1. CASE remove_end(m)
    BY <1>7, <1>8, <1>9, <2>1, Zenon DEF remove_end
  <2>2. CASE ~remove_end(m)
    <3>1. UNCHANGED rpc
      BY <1>9, <2>2
         DEF Remove, remove_set, remove_flushed, remove_status, del_gendisk, rvars
    <3> QED BY <1>7, <1>9, <3>1
  <2> QED BY <2>1, <2>2, Zenon
<1> QED BY <1>5, <1>9, Zenon

(* Every step is one of the block layer's view, or none. *)
LEMMA EveryStepMapped ==
    ASSUME QueueInv, [Next]_vars
    PROVE  IOStep
<1>1. CASE UNCHANGED <<dev_status, rpc, ubbd_q, req_tid, answered, rm>>
  <2>1. Stutter
    BY <1>1 DEF Stutter, Outstanding, Replied, Gone
  <2> QED BY <2>1 DEF IOStep
<1>2. \/ UNCHANGED <<dev_status, rpc, ubbd_q, req_tid, answered, rm>>
      \/ \E r \in Reqs : (\E h \in Queues : issue(r, h)) \/ Worker(r)
      \/ \E q \in Queues : \E t \in 1 .. q_tid[q] : backend_post(q, t) \/ backend_repost(q, t)
      \/ \E c \in Completers : complete_end(c)
      \/ \E m \in Removers : (\E force \in BOOLEAN : StartRemoval(m, force)) \/ Remove(m)
  <2>1. CASE ubbd_open \/ ubbd_release \/ UNCHANGED vars
    BY <2>1, Zenon DEF ubbd_open, ubbd_release, vars, qvars, rvars, bvars
  <2>2. ASSUME NEW c \in Completers, Complete(c), ~complete_end(c)
        PROVE  UNCHANGED <<dev_status, rpc, ubbd_q, req_tid, answered, rm>>
    BY <2>2, Zenon DEF Complete, complete_pop, fetch_inflight_req, fetch_settle, qvars, rvars, bvars
  <2>3. ASSUME NEW c \in Completers, NEW q \in Queues, complete_enter(c, q)
        PROVE  UNCHANGED <<dev_status, rpc, ubbd_q, req_tid, answered, rm>>
    BY <2>3, Zenon DEF complete_enter, qvars, rvars, bvars
  <2>4. ASSUME NEW q \in Queues, queue_stop(q) \/ queue_stop_flushed(q) \/ queue_start(q)
        PROVE  UNCHANGED <<dev_status, rpc, ubbd_q, req_tid, answered, rm>>
    BY <2>4, Zenon DEF queue_stop, queue_stop_flushed, queue_start, rvars, bvars
  <2>5. ASSUME NEW m \in Removers, NEW force \in Forces, handle_cmd_remove_disk(m, force)
        PROVE  \E f \in BOOLEAN : StartRemoval(m, f)
    BY <2>5, Indexes, Zenon DEF handle_cmd_remove_disk
  <2>6. ASSUME NEW m \in Removers, ubbd_timeout(m)
        PROVE  \E f \in BOOLEAN : StartRemoval(m, f)
    BY <2>6, Zenon DEF ubbd_timeout
  <2> QED BY <2>1, <2>2, <2>3, <2>4, <2>5, <2>6, Zenon DEF Next
<1> QED BY <1>1, <1>2, WorkerMapped, BackendMapped, EndMapped, RemovalMapped, Zenon

(* The request path implements the block layer's view of a disk: a request *)
(* ends once, with a result only if the backend answered this very request *)
(* and with an error only once a removal has begun.                        *)
THEOREM RequestPathImplementsBlockIO ==
    ASSUME "start" \notin QueueOps
    PROVE  Spec => ImplementsBlockIO
<1>1. Init => BlockIO!IOInit
  BY DEF Init, IdleRm, BlockIO!IOInit
<1>2. QueueInv /\ [Next]_vars => [BlockIO!IONext]_(BlockIO!ioVars)
  BY EveryStepMapped, MappedStep, Zenon
<1> QED BY <1>1, <1>2, QueueInvariant, PTL DEF Spec, ImplementsBlockIO, BlockIO!IOSpec

-----------------------------------------------------------------------------
(* A stop begins: it waits for every worker that saw its queue RUNNING. *)
LEMMA HaltStop ==
    ASSUME HaltInv, NEW q \in Queues, queue_stop(q)
    PROVE  HaltInv'
<1>1. /\ UNCHANGED <<inflight, rpc, hctx, ubbd_q, req_tid, q_tid, compr, answered, comp, rm>>
      /\ status' = [status EXCEPT ![q] = "STOPPING"] /\ status[q] = "RUNNING"
      /\ driver_data' = [driver_data EXCEPT ![q] = find_running_queue]
      /\ stopping = -1 /\ stopping' = q
      /\ flush' = [flush EXCEPT !["stop"] = {r \in Reqs : OnTaskWq(r)}]
  BY Zenon DEF queue_stop, BeginFlush, NetlinkIdle, rvars, bvars
<1>2. /\ status \in [Queues -> {"RUNNING", "STOPPING", "STOPPED", "REMOVING"}]
      /\ driver_data \in [Queues -> Queues] /\ flush \in [Flushers -> SUBSET Reqs]
      /\ "stop" \in Flushers /\ -1 \notin Queues
      /\ find_running_queue \in Queues
  BY <1>1, HaltTypes, Indexes, RunningQueueFound, Zenon
<1>3. /\ status' \in [Queues -> {"RUNNING", "STOPPING", "STOPPED", "REMOVING"}]
      /\ \A p \in Queues \ {q} : status'[p] = status[p]
      /\ driver_data' \in [Queues -> Queues]
  BY <1>1, <1>2, Zenon
<1>4. flush'["stop"] = {r \in Reqs : OnTaskWq(r)} /\ flush' \in [Flushers -> SUBSET Reqs]
  BY <1>1, <1>2, Zenon
<1>5. QueueType'
  BY <1>1, <1>3, <1>4, Zenon DEF HaltInv, QueueType, StatusType, ReqType, IdType, ActorType
<1>6. \A p : PastCheck(p)' = PastCheck(p) /\ PastCheck(p) \subseteq flush'["stop"]
  BY <1>1, <1>4, Zenon DEF PastCheck, OnTaskWq
<1>7. \A p \in Queues \ {q} : stopping # p /\ stopping' # p
  BY <1>1, <1>2, Zenon
<1>8. \A p \in Queues : InflightLocked(p)' <=> InflightLocked(p)
  BY <1>1, Zenon DEF InflightLocked
<1>9. \A p \in Queues : status'[p] = "STOPPING" =>
          IF stopping' = p THEN PastCheck(p)' \subseteq flush'["stop"] ELSE PastCheck(p)' = {}
  <2> SUFFICES ASSUME NEW p \in Queues, status'[p] = "STOPPING"
               PROVE  IF stopping' = p THEN PastCheck(p)' \subseteq flush'["stop"]
                                       ELSE PastCheck(p)' = {}
    BY Zenon
  <2>1. CASE p = q
    BY <1>1, <1>6, <2>1, Zenon
  <2>2. CASE p # q
    <3>1. status[p] = "STOPPING" /\ stopping # p /\ stopping' # p
      BY <1>3, <1>7, <2>2, Zenon
    <3>2. PastCheck(p) = {}
      BY <3>1, Zenon DEF HaltInv, Halting
    <3> QED BY <1>6, <3>1, <3>2, Zenon
  <2> QED BY <2>1, <2>2, Zenon
<1>10. StoppingHasInflight'
  BY <1>1, <1>3, <1>7, <1>8, Zenon DEF HaltInv, Halting, StoppingHasInflight, StateLocked
<1>11. \A m \in Removers : rm'[m].pc = "flush" => status'[rm'[m].i] \in {"REMOVING", "STOPPED"}
  <2> SUFFICES ASSUME NEW m \in Removers, rm[m].pc = "flush"
               PROVE  status'[rm[m].i] \in {"REMOVING", "STOPPED"}
    BY <1>1, Zenon
  <2>1. rm[m].i \in Queues /\ status[rm[m].i] \in {"REMOVING", "STOPPED"}
    BY Zenon DEF HaltInv, Halting
  <2>2. rm[m].i # q
    BY <1>1, <2>1, Zenon
  <2> QED BY <1>3, <2>1, <2>2, Zenon
<1>12. Halting'
  BY <1>9, <1>10, <1>11, Zenon DEF Halting
<1> QED BY <1>1, <1>5, <1>12, Zenon DEF HaltInv

(* A stop ends: it writes STOPPED unless a request is still inflight. *)
LEMMA HaltStopFlushed ==
    ASSUME HaltInv, NEW q \in Queues, queue_stop_flushed(q)
    PROVE  HaltInv'
<1>1. /\ UNCHANGED <<driver_data, flush, inflight, rpc, hctx, ubbd_q, req_tid, q_tid, compr,
                     answered, comp, rm>>
      /\ stopping = q /\ stopping' = -1 /\ flush["stop"] = {}
      /\ status' = IF inflight[q] = {} THEN [status EXCEPT ![q] = "STOPPED"] ELSE status
  BY Zenon DEF queue_stop_flushed, rvars, bvars
<1>2. status \in [Queues -> {"RUNNING", "STOPPING", "STOPPED", "REMOVING"}]
  BY HaltTypes, Zenon
<1>3. /\ status' \in [Queues -> {"RUNNING", "STOPPING", "STOPPED", "REMOVING"}]
      /\ \A p \in Queues : status'[p] \in {status[p], "STOPPED"}
      /\ inflight[q] = {} => status'[q] = "STOPPED"
  <2>1. CASE inflight[q] = {}
    BY <1>1, <1>2, <2>1, Zenon
  <2>2. CASE inflight[q] # {}
    BY <1>1, <1>2, <2>2, Zenon
  <2> QED BY <2>1, <2>2, Zenon
<1>4. \A p \in Queues :
         status'[p] = "STOPPING" => status[p] = "STOPPING" /\ (p = q => inflight[q] # {})
  BY <1>3, Zenon
<1>5. QueueType'
  BY <1>1, <1>3, Zenon DEF HaltInv, QueueType, StatusType, ReqType, IdType, ActorType
<1>6. \A p : PastCheck(p)' = PastCheck(p)
  BY <1>1, Zenon DEF PastCheck
<1>7. \A p \in Queues : status[p] = "STOPPING" => PastCheck(p) = {}
  <2> SUFFICES ASSUME NEW p \in Queues, status[p] = "STOPPING" PROVE PastCheck(p) = {}
    BY Zenon
  <2>1. IF stopping = p THEN PastCheck(p) \subseteq flush["stop"] ELSE PastCheck(p) = {}
    BY Zenon DEF HaltInv, Halting
  <2> QED BY <1>1, <2>1, Zenon
<1>8. \A p \in Queues : status'[p] = "STOPPING" =>
          IF stopping' = p THEN PastCheck(p)' \subseteq flush'["stop"] ELSE PastCheck(p)' = {}
  BY <1>4, <1>6, <1>7, Zenon
<1>9. StoppingHasInflight'
  <2> SUFFICES ASSUME NEW p \in Queues, status'[p] = "STOPPING", ~InflightLocked(p)'
               PROVE  inflight'[p] # {}
    BY Zenon DEF StoppingHasInflight
  <2>1. ~InflightLocked(p)
    BY <1>1, Zenon DEF InflightLocked
  <2>2. CASE p = q
    BY <1>1, <1>4, <2>2, Zenon
  <2>3. CASE p # q
    BY <1>1, <1>4, <2>1, <2>3, Zenon DEF HaltInv, Halting, StoppingHasInflight, StateLocked
  <2> QED BY <2>2, <2>3, Zenon
<1>10. \A m \in Removers : rm'[m].pc = "flush" => status'[rm'[m].i] \in {"REMOVING", "STOPPED"}
  <2> SUFFICES ASSUME NEW m \in Removers, rm[m].pc = "flush"
               PROVE  status'[rm[m].i] \in {"REMOVING", "STOPPED"}
    BY <1>1, Zenon
  <2>1. rm[m].i \in Queues /\ status[rm[m].i] \in {"REMOVING", "STOPPED"}
    BY Zenon DEF HaltInv, Halting
  <2> QED BY <1>3, <2>1, Zenon
<1>11. Halting'
  BY <1>8, <1>9, <1>10, Zenon DEF Halting
<1> QED BY <1>1, <1>5, <1>11, Zenon DEF HaltInv

(* A start: the netlink handler is not removing the disk, and the timeout  *)
(* handler does not either.                                                *)
LEMMA HaltStart ==
    ASSUME HaltInv, NEW q \in Queues, queue_start(q),
           "start" \notin QueueOps \/ "timeout" \notin Removers
    PROVE  HaltInv'
<1>1. /\ UNCHANGED <<stopping, flush, inflight, rpc, hctx, ubbd_q, req_tid, q_tid, compr,
                     answered, comp, rm>>
      /\ status' = [status EXCEPT ![q] = "RUNNING"]
      /\ driver_data' = [driver_data EXCEPT ![q] = q]
      /\ \A m \in Removers : rm[m].pc = "idle"
  BY QueueAssumption, Zenon DEF queue_start, NetlinkIdle, rvars, bvars
<1>2. driver_data' \in [Queues -> Queues]
  BY <1>1, HaltTypes, Zenon
<1>3. \A m \in Removers : rm'[m].pc = "flush" => status'[rm'[m].i] \in {"REMOVING", "STOPPED"}
  BY <1>1, Zenon
<1>4. \A p \in Queues \ {q} : InflightLocked(p) => InflightLocked(p)'
  BY <1>1, Zenon DEF InflightLocked
<1>5. Halting' /\ status' \in [Queues -> {"RUNNING", "STOPPING", "STOPPED", "REMOVING"}]
  BY <1>1, <1>3, <1>4, HaltStatus, Zenon
<1>6. QueueType'
  BY <1>1, <1>2, <1>5, Zenon DEF HaltInv, QueueType, StatusType, ReqType, IdType, ActorType
<1> QED BY <1>1, <1>5, <1>6, Zenon DEF HaltInv

(* ubbd_dev_remove_queues ends a STOPPING with REMOVING. *)
LEMMA HaltSet ==
    ASSUME HaltInv, NEW m \in Removers, remove_set(m)
    PROVE  HaltInv'
<1> DEFINE q == rm[m].i
<1>1. /\ UNCHANGED <<driver_data, stopping, inflight, rpc, hctx, ubbd_q, req_tid, q_tid, compr,
                     answered, comp>>
      /\ rm[m].pc = "set"
      /\ status' = [status EXCEPT ![q] = "REMOVING"]
      /\ flush' = [flush EXCEPT ![m] = {r \in Reqs : OnTaskWq(r)}]
      /\ rm' = [rm EXCEPT ![m].pc = "flush"]
  BY Zenon DEF remove_set, BeginFlush, rvars, bvars
<1>2. rm[m] \in RmRec /\ q \in Queues /\ m # "stop" /\ m \in Flushers /\ "stop" \in Flushers
  BY <1>1, HaltTypes, Indexes, Zenon
<1>3. flush'["stop"] = flush["stop"] /\ flush' \in [Flushers -> SUBSET Reqs]
  BY <1>1, <1>2, HaltTypes, Zenon
<1>4. /\ rm' \in [Removers -> RmRec] /\ rm'[m].i = q
      /\ \A n \in Removers \ {m} : rm'[n] = rm[n]
  BY <1>1, <1>2, HaltTypes, Zenon DEF RmRec
<1>5. \A n \in Removers : rm'[n].pc \in {"set", "flush", "end"} => rm'[n].i \in Queues
  BY <1>2, <1>4, HaltTypes, Zenon
<1>6. \A p \in Queues \ {q} : InflightLocked(p) => InflightLocked(p)'
  BY <1>1, Zenon DEF InflightLocked
<1> HIDE DEF q
<1>7. \A n \in Removers : rm'[n].pc = "flush" => status'[rm'[n].i] \in {"REMOVING", "STOPPED"}
  <2> SUFFICES ASSUME NEW n \in Removers, rm'[n].pc = "flush"
               PROVE  status'[rm'[n].i] \in {"REMOVING", "STOPPED"}
    BY Zenon
  <2>1. CASE rm'[n].i = q
    BY <1>1, <1>2, <2>1, HaltTypes, Zenon
  <2>2. CASE rm'[n].i # q
    <3>1. rm'[n] = rm[n] /\ rm[n].i \in Queues
      BY <1>4, <1>5, <2>2, Zenon
    <3>2. status[rm[n].i] \in {"REMOVING", "STOPPED"}
      BY <3>1, Zenon DEF HaltInv, Halting
    <3> QED BY <1>1, <2>2, <3>1, <3>2, HaltTypes, Zenon
  <2> QED BY <2>1, <2>2, Zenon
<1>8. Halting' /\ status' \in [Queues -> {"RUNNING", "STOPPING", "STOPPED", "REMOVING"}]
  BY <1>1, <1>2, <1>3, <1>6, <1>7, HaltStatus, Zenon
<1>9. QueueType'
  BY <1>1, <1>3, <1>4, <1>8, Zenon DEF HaltInv, QueueType, StatusType, ReqType, IdType, ActorType
<1> QED BY <1>5, <1>8, <1>9, Zenon DEF HaltInv

(* A removal goes on to the next queue, or has passed the last one. *)
LEMMA HaltNextQueue ==
    ASSUME HaltInv, NEW m \in Removers, rm[m].pc \in {"flush", "end"}, NextQueue(m)
    PROVE  /\ rm' \in [Removers -> RmRec]
           /\ \A n \in Removers :
                 /\ rm'[n].pc = "flush" => rm[n].pc = "flush" /\ rm'[n].i = rm[n].i
                 /\ rm'[n].pc \in {"set", "flush", "end"} => rm'[n].i \in Queues
<1> DEFINE p == IF rm[m].i + 1 = num_queues THEN "status" ELSE "set"
           v == [rm[m] EXCEPT !.i = rm[m].i + 1, !.pc = p]
<1>1. rm \in [Removers -> RmRec] /\ rm[m] \in RmRec /\ rm[m].i \in Queues
  BY HaltTypes, Zenon
<1>2. /\ rm[m].i + 1 \in 0 .. num_queues
      /\ rm[m].i + 1 # num_queues => rm[m].i + 1 \in Queues
  BY <1>1, Indexes, QueueAssumption DEF Queues
<1>3. rm' = [rm EXCEPT ![m] = v]
  BY <1>1, Zenon DEF NextQueue
<1>4. v \in RmRec /\ v.pc \in {"status", "set"} /\ (v.pc = "set" => v.i \in Queues)
  <2>1. p \in {"status", "set"} /\ (p = "set" => rm[m].i + 1 # num_queues)
    BY Zenon
  <2> HIDE DEF p
  <2> QED BY <1>1, <1>2, <2>1, Zenon DEF RmRec
<1> HIDE DEF v
<1>5. rm' \in [Removers -> RmRec] /\ rm'[m] = v /\ \A n \in Removers \ {m} : rm'[n] = rm[n]
  BY <1>1, <1>3, <1>4, Zenon
<1>6. ASSUME NEW n \in Removers
      PROVE  /\ rm'[n].pc = "flush" => rm[n].pc = "flush" /\ rm'[n].i = rm[n].i
             /\ rm'[n].pc \in {"set", "flush", "end"} => rm'[n].i \in Queues
  <2>1. CASE n = m
    BY <1>4, <1>5, <2>1, Zenon
  <2>2. CASE n # m
    BY <1>5, <2>2, HaltTypes, Zenon
  <2> QED BY <2>1, <2>2, Zenon
<1> QED BY <1>5, <1>6, Zenon

(* A removal splices the list of a queue that is not STOPPING any more, or *)
(* leaves it.                                                              *)
LEMMA HaltFlushed ==
    ASSUME HaltInv, NEW m \in Removers, remove_flushed(m)
    PROVE  HaltInv'
<1> DEFINE q == rm[m].i
<1>1. /\ UNCHANGED <<status, driver_data, stopping, flush, rpc, hctx, ubbd_q, req_tid, q_tid, compr,
                     answered, comp>>
      /\ rm[m].pc = "flush"
  BY Zenon DEF remove_flushed, qvars, bvars
<1>2. CASE NextQueue(m) /\ UNCHANGED inflight
  <2>1. ListsKept
    BY <1>1, <1>2, HaltTypes, Zenon DEF ListsKept
  <2> QED BY <1>1, <1>2, <2>1, HaltTypes, HaltNextQueue, HaltListsKept, Zenon
<1>3. CASE /\ inflight' = [inflight EXCEPT ![q] = {}]
           /\ rm' = [rm EXCEPT ![m].pc = "end", ![m].list = inflight[q]]
  <2>1. rm[m] \in RmRec /\ q \in Queues /\ inflight[q] \in SUBSET Reqs
    BY <1>1, HaltTypes, Zenon
  <2>2. status[q] \in {"REMOVING", "STOPPED"}
    BY <1>1, Zenon DEF HaltInv, Halting
  <2>3. /\ inflight' \in [Queues -> SUBSET Reqs]
        /\ \A p \in Queues \ {q} : inflight'[p] = inflight[p]
    BY <1>3, <2>1, HaltTypes, Zenon
  <2>4. /\ rm' \in [Removers -> RmRec] /\ rm'[m].pc = "end" /\ rm'[m].i = q
        /\ \A n \in Removers \ {m} : rm'[n] = rm[n]
    BY <1>3, <2>1, HaltTypes, Zenon DEF RmRec
  <2>5. QueueType'
    BY <1>1, <2>3, <2>4, Zenon DEF HaltInv, QueueType, StatusType, ReqType, IdType, ActorType
  <2>6. \A p \in Queues : PastCheck(p)' = PastCheck(p) /\ (InflightLocked(p) => InflightLocked(p)')
    BY <1>1, Zenon DEF PastCheck, InflightLocked
  <2>7. \A p \in Queues : status[p] = "STOPPING" => inflight[p] \subseteq inflight'[p]
    BY <2>2, <2>3, Zenon
  <2>8. ASSUME NEW n \in Removers
        PROVE  /\ rm'[n].pc = "flush" => rm[n].pc = "flush" /\ rm'[n].i = rm[n].i
               /\ rm'[n].pc \in {"set", "flush", "end"} => rm'[n].i \in Queues
    <3>1. CASE n = m
      BY <2>1, <2>4, <3>1, Zenon
    <3>2. CASE n # m
      BY <2>4, <3>2, HaltTypes, Zenon
    <3> QED BY <3>1, <3>2, Zenon
  <2>9. Halting'
    BY <1>1, <2>6, <2>7, <2>8, HaltKept, Zenon DEF HaltInv
  <2> QED BY <2>5, <2>8, <2>9, Zenon DEF HaltInv
<1> QED BY <1>2, <1>3, Zenon DEF remove_flushed

(* The steps of a removal that do not touch the queues. *)
LEMMA HaltRemoval ==
    ASSUME HaltInv, NEW m \in Removers,
           \/ \E force \in BOOLEAN : StartRemoval(m, force)
           \/ remove_end(m) \/ remove_status(m) \/ del_gendisk(m)
    PROVE  HaltInv'
<1>1. /\ UNCHANGED <<status, driver_data, stopping, flush, inflight, hctx, ubbd_q, req_tid, q_tid,
                     compr, answered, comp>>
  BY Zenon DEF StartRemoval, remove_end, remove_status, del_gendisk, qvars, rvars, bvars
<1>2. rpc' = rpc \/ \E r \in Reqs : rpc' = [rpc EXCEPT ![r] = "free"]
  <2>1. rm[m].list \subseteq Reqs
    BY HaltTypes, Zenon DEF RmRec
  <2> QED BY <2>1, Zenon DEF StartRemoval, remove_end, remove_status, del_gendisk, rvars
<1>3. rpc' \in [Reqs -> ReqPlaces] /\ \A r \in Reqs : rpc'[r] \in {rpc[r], "free"}
  <2>1. rpc \in [Reqs -> ReqPlaces] /\ "free" \in ReqPlaces
    BY HaltTypes, Zenon DEF ReqPlaces
  <2> QED BY <1>2, <2>1, Zenon
<1>4. ListsKept
  BY <1>1, <1>3, Zenon DEF ListsKept
<1>5. IdleRm \in RmRec /\ 0 \in Queues
  BY Indexes DEF IdleRm, RmRec
<1>6. CASE rm[m].pc = "end" /\ NextQueue(m)
  BY <1>1, <1>4, <1>6, HaltTypes, HaltNextQueue, HaltListsKept, Zenon
<1>7. ASSUME NEW v \in RmRec, rm' = [rm EXCEPT ![m] = v], v.pc # "flush",
             v.pc \in {"set", "end"} => v.i \in Queues
      PROVE  HaltInv'
  <2>1. rm' \in [Removers -> RmRec] /\ rm'[m] = v /\ \A n \in Removers \ {m} : rm'[n] = rm[n]
    BY <1>7, HaltTypes, Zenon
  <2>2. ASSUME NEW n \in Removers
        PROVE  /\ rm'[n].pc = "flush" => rm[n].pc = "flush" /\ rm'[n].i = rm[n].i
               /\ rm'[n].pc \in {"set", "flush", "end"} => rm'[n].i \in Queues
    <3>1. CASE n = m
      BY <1>7, <2>1, <3>1, Zenon
    <3>2. CASE n # m
      BY <2>1, <3>2, HaltTypes, Zenon
    <3> QED BY <3>1, <3>2, Zenon
  <2> QED BY <1>1, <1>4, <2>1, <2>2, HaltTypes, HaltListsKept, Zenon
<1>8. rm[m] \in RmRec
  BY HaltTypes, Zenon
<1>9. ASSUME NEW force \in BOOLEAN, StartRemoval(m, force) PROVE HaltInv'
  <2> DEFINE v == [IdleRm EXCEPT !.pc = "set", !.force = force]
  <2>1. IdleRm.i = 0
    BY Zenon DEF IdleRm
  <2>2. v.pc = "set" /\ v.i = 0
    BY <1>5, <2>1, Zenon DEF RmRec
  <2>3. v \in RmRec
    BY <1>5, Zenon DEF RmRec
  <2>4. rm' = [rm EXCEPT ![m] = v]
    BY <1>9, Zenon DEF StartRemoval
  <2> HIDE DEF v
  <2>5. v.pc # "flush" /\ v.i \in Queues
    BY <1>5, <2>2
  <2> QED BY <1>7, <2>3, <2>4, <2>5, Zenon
<1>10. ASSUME remove_end(m), NEW r \in rm[m].list, rm' = [rm EXCEPT ![m].list = @ \ {r}]
       PROVE  HaltInv'
  <2> DEFINE v == [rm[m] EXCEPT !.list = rm[m].list \ {r}]
  <2>1. v \in RmRec /\ v.pc = rm[m].pc /\ v.i = rm[m].i
    BY <1>8, Zenon DEF RmRec
  <2>2. rm[m].pc = "end" /\ rm[m].i \in Queues
    BY <1>10, HaltTypes, Zenon DEF remove_end
  <2>3. rm' = [rm EXCEPT ![m] = v]
    BY <1>8, <1>10, HaltTypes, Zenon
  <2> HIDE DEF v
  <2>4. v.pc # "flush"
    BY <2>1, <2>2, Zenon
  <2> QED BY <1>7, <2>1, <2>2, <2>3, <2>4, Zenon
<1>11. CASE remove_status(m)
  <2>1. CASE rm' = [rm EXCEPT ![m] = [@ EXCEPT !.pc = "del"]]
    <3> DEFINE v == [rm[m] EXCEPT !.pc = "del"]
    <3>1. v \in RmRec /\ v.pc = "del"
      BY <1>8, Zenon DEF RmRec
    <3>2. rm' = [rm EXCEPT ![m] = v]
      BY <2>1, Zenon
    <3> HIDE DEF v
    <3>3. v.pc # "flush" /\ v.pc \notin {"set", "end"}
      BY <3>1, Zenon
    <3> QED BY <1>7, <3>1, <3>2, <3>3, Zenon
  <2>2. CASE rm' = [rm EXCEPT ![m] = IdleRm]
    <3>1. IdleRm.pc # "flush" /\ IdleRm.pc \notin {"set", "end"}
      BY Zenon DEF IdleRm
    <3> QED BY <1>5, <1>7, <2>2, <3>1, Zenon
  <2> QED BY <1>11, <2>1, <2>2, Zenon DEF remove_status
<1>12. CASE del_gendisk(m)
  <2>1. IdleRm.pc # "flush" /\ IdleRm.pc \notin {"set", "end"}
    BY DEF IdleRm
  <2> QED BY <1>5, <1>7, <1>12, <2>1, Zenon DEF del_gendisk
<1> QED BY <1>6, <1>9, <1>10, <1>11, <1>12, Zenon DEF remove_end

(* Every step preserves HaltInv. *)
LEMMA HaltStep ==
    ASSUME "start" \notin QueueOps \/ "timeout" \notin Removers, HaltInv, [Next]_vars
    PROVE  HaltInv'
<1>1. ASSUME NEW m \in Removers, NEW force \in Forces, handle_cmd_remove_disk(m, force)
      PROVE  HaltInv'
  BY <1>1, HaltRemoval, Indexes, Zenon DEF handle_cmd_remove_disk
<1>2. ASSUME NEW m \in Removers, ubbd_timeout(m) PROVE HaltInv'
  BY <1>2, HaltRemoval, Zenon DEF ubbd_timeout
<1>3. ASSUME NEW m \in Removers, Remove(m) PROVE HaltInv'
  BY <1>3, HaltRemoval, HaltSet, HaltFlushed, Zenon DEF Remove
<1>4. ASSUME NEW c \in Completers, Complete(c) PROVE HaltInv'
  BY <1>4, HaltCompleter, HaltFetch, HaltSettle, Zenon DEF Complete
<1>5. ASSUME NEW c \in Completers, NEW q \in Queues, complete_enter(c, q) PROVE HaltInv'
  BY <1>5, HaltCompleter, Zenon
<1>6. ASSUME NEW r \in Reqs, (\E h \in Queues : issue(r, h)) \/ Worker(r) PROVE HaltInv'
  BY <1>6, HaltWorker, Zenon
<1>7. CASE UNCHANGED vars
  <2>1. UNCHANGED <<status, driver_data, stopping, flush, inflight, rpc, hctx, ubbd_q, req_tid,
                    q_tid, compr, answered, comp, rm>>
    BY <1>7, Zenon DEF vars, qvars, rvars, bvars
  <2>2. ListsKept
    BY <2>1, HaltTypes, Zenon DEF ListsKept
  <2> QED BY <2>1, <2>2, HaltTypes, HaltListsKept, Zenon
<1>8. ASSUME NEW q \in Queues, queue_stop(q) \/ queue_stop_flushed(q) \/ queue_start(q)
      PROVE  HaltInv'
  BY <1>8, HaltStop, HaltStopFlushed, HaltStart, Zenon
<1> QED BY <1>1, <1>2, <1>3, <1>4, <1>5, <1>6, <1>7, <1>8, HaltBackend, Zenon DEF Next

(* A queue does not stay STOPPING with nothing left to wait for: the last  *)
(* completion, queue_stop itself or a removal ends that.  It holds for     *)
(* queues that are stopped and started again and again while netlink       *)
(* removes the disk, and for timeouts that remove it if no queue is        *)
(* started.                                                                *)
THEOREM StopEnds ==
    ASSUME "start" \notin QueueOps \/ "timeout" \notin Removers
    PROVE  Spec => []StoppingHasInflight
<1>1. Init => HaltInv
  <2> SUFFICES ASSUME Init PROVE HaltInv
    BY Zenon
  <2>1. QueueType
    BY InitInv, Zenon DEF QueueInv
  <2>2. IdleRm.pc = "idle"
    BY Zenon DEF IdleRm
  <2>3. \A m \in Removers : rm[m].pc = "idle"
    BY <2>2, Zenon DEF Init
  <2>4. \A q \in Queues : status[q] # "STOPPING"
    BY Zenon DEF Init
  <2>5. Halting
    BY <2>3, <2>4, Zenon DEF Halting, StoppingHasInflight
  <2> QED BY <2>1, <2>3, <2>5 DEF HaltInv
<1>2. HaltInv /\ [Next]_vars => HaltInv'
  BY HaltStep, Zenon
<1>3. HaltInv => StoppingHasInflight
  BY Zenon DEF HaltInv, Halting
<1> QED BY <1>1, <1>2, <1>3, PTL DEF Spec

=============================================================================
