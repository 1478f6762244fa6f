--------------------------- MODULE UbbdKringProofs ---------------------------
(***************************************************************************)
(* Proofs that no wake-up of the kring device is lost, that its readers    *)
(* leave when it goes away, that one backend maps the rings and that       *)
(* nothing is used that is gone, for every set of processes and workers.   *)
(***************************************************************************)
EXTENDS UbbdKring, FiniteSetTheorems, TLAPS

Counters == 0 .. EVENTS - 1

Places == {"closed", "open_get", "open_info", "idle", "rd_info", "rd_state", "rd_event",
           "rd_sched", "pl_event", "pl_again", "pl_sched", "handle"}

(* Where the backend will look at the ring before it waits, or is absent. *)
Looking == {"closed", "open_get", "open_info", "handle"}

(* What the proofs need to know of the types of the variables. *)
KringType ==
    /\ event \in Counters
    /\ event_count \in [Procs -> Counters]
    /\ pc \in [Procs -> Places]
    /\ task \in [Procs -> {"run", "int"}]
    /\ wpc \in [Workers -> {"idle", "notify", "wake"}]

(* The backend has an unseen event, or will look at the ring in any case,  *)
(* unless the worker that published the command has yet to count it.       *)
ReadyCounted ==
    /\ ready
    /\ \A w \in Workers : wpc[w] # "notify"
    /\ pc[Backend] \notin Looking
    => event_count[Backend] # event

(* Once the readers were woken, none of them is on its way to sleep. *)
ReadersWoken ==
    /\ unreg # "no" => ~info
    /\ "late_read" \notin env /\ unreg \in {"put", "minor", "done"}
          => \A p \in Procs :
                /\ pc[p] # "rd_state"
                /\ pc[p] \in {"rd_event", "rd_sched"} => task[p] # "int"

KringInv == KringType /\ WakeNotLost /\ ReadyCounted /\ ReadersWoken

-----------------------------------------------------------------------------
(* A notification that keeps within the width of the counter is seen. *)
LEMMA NextEvent ==
    ASSUME NEW e \in Counters, NEW c \in Counters
    PROVE  /\ atomic_inc(e) \in Counters
           /\ (e - c) % EVENTS < EVENTS - 1 => atomic_inc(e) # c
<1>1. EVENTS \in Nat /\ EVENTS > 1
  BY KringAssumption, Zenon
<1>2. atomic_inc(e) = IF e + 1 = EVENTS THEN 0 ELSE e + 1
  BY <1>1 DEF atomic_inc, Counters
<1>3. (e - c) % EVENTS = IF e >= c THEN e - c ELSE e - c + EVENTS
  BY <1>1 DEF Counters
<1> QED BY <1>1, <1>2, <1>3 DEF Counters

(* A step of process p to l, with task state t and event_count c.  It goes *)
(* to sleep only when it has seen every event; the backend does not give   *)
(* up an event it has not handled; a reader that finds no info turns back. *)
ProcessMove(p, l, t, c) ==
    /\ pc' = [pc EXCEPT ![p] = l]
    /\ task' = [task EXCEPT ![p] = t]
    /\ event_count' = [event_count EXCEPT ![p] = c]
    /\ UNCHANGED <<env, event, unreg, info, wpc>>
    /\ ready' => ready
    /\ l \in {"rd_sched", "pl_sched"} /\ t = "int" => c = event
    /\ p = Backend /\ ready' /\ l \notin Looking
          => pc[p] \notin Looking /\ c = event_count[p]
    /\ l = "rd_state" => info
    /\ l \in {"rd_event", "rd_sched"} /\ t = "int" =>
          \/ pc[p] = "rd_state"
          \/ pc[p] = "rd_event" /\ task[p] = "int"

(* Such a step preserves KringInv. *)
LEMMA ProcessStep ==
    ASSUME KringInv, NEW p \in Procs,
           NEW l \in Places, NEW t \in {"run", "int"}, NEW c \in Counters,
           ProcessMove(p, l, t, c)
    PROVE  KringInv'
<1>0. Backend \in Procs
  BY KringAssumption, Zenon
<1>1. /\ pc'[p] = l /\ task'[p] = t /\ event_count'[p] = c
      /\ \A q \in Procs \ {p} :
            pc'[q] = pc[q] /\ task'[q] = task[q] /\ event_count'[q] = event_count[q]
  BY Zenon DEF KringInv, KringType, ProcessMove
<1>2. KringType'
  BY Zenon DEF KringInv, KringType, ProcessMove
<1>3. WakeNotLost'
  <2> SUFFICES ASSUME NEW q \in Procs, Asleep(q)'
               PROVE  event_count'[q] = event \/ \E w \in Workers : wpc[w] = "wake"
    BY Zenon DEF WakeNotLost, ProcessMove
  <2>1. CASE q = p
    BY <1>1, <2>1, Zenon DEF KringInv, WakeNotLost, Asleep, ProcessMove
  <2>2. CASE q # p
    BY <1>1, <2>2 DEF KringInv, WakeNotLost, Asleep, ProcessMove
  <2> QED BY <2>1, <2>2, Zenon
<1>4. ReadyCounted'
  <2>1. CASE p = Backend
    BY <1>1, <2>1 DEF KringInv, ReadyCounted, ProcessMove
  <2>2. CASE p # Backend
    BY <1>0, <1>1, <2>2, Zenon DEF KringInv, ReadyCounted, ProcessMove
  <2> QED BY <2>1, <2>2, Zenon
<1>5. ReadersWoken'
  <2>1. unreg' # "no" => ~info'
    BY Zenon DEF KringInv, ReadersWoken, ProcessMove
  <2>2. ASSUME "late_read" \notin env', unreg' \in {"put", "minor", "done"},
               NEW q \in Procs
        PROVE  /\ pc'[q] # "rd_state"
               /\ pc'[q] \in {"rd_event", "rd_sched"} => task'[q] # "int"
    <3>1. /\ ~info
          /\ pc[q] # "rd_state"
          /\ pc[q] \in {"rd_event", "rd_sched"} => task[q] # "int"
      BY <2>2, Zenon DEF KringInv, ReadersWoken, ProcessMove
    <3>2. CASE q = p
      BY <1>1, <3>1, <3>2, Zenon DEF ProcessMove
    <3>3. CASE q # p
      BY <1>1, <3>1, <3>3
    <3> QED BY <3>2, <3>3, Zenon
  <2> QED BY <2>1, <2>2, Zenon DEF ReadersWoken
<1> QED BY <1>2, <1>3, <1>4, <1>5, Zenon DEF KringInv

(* Every step preserves KringInv. *)
LEMMA KringStep == KringInv /\ [Next]_vars => KringInv'
<1> SUFFICES ASSUME KringInv, [Next]_vars PROVE KringInv'
  BY Zenon
<1>0. Backend \in Procs /\ EVENTS \in Nat /\ EVENTS > 1
  BY KringAssumption, Zenon
<1>1. ASSUME UNCHANGED <<env, event, unreg, info, wpc, ready, pc, task, event_count>>
      PROVE  KringInv'
  BY <1>1, Zenon DEF KringInv, KringType, WakeNotLost, ReadyCounted, ReadersWoken, Asleep
<1>2. ASSUME NEW p \in Procs
      PROVE  /\ pc = [pc EXCEPT ![p] = pc[p]] /\ pc[p] \in Places
             /\ task = [task EXCEPT ![p] = task[p]] /\ task[p] \in {"run", "int"}
             /\ event_count = [event_count EXCEPT ![p] = event_count[p]]
             /\ event_count[p] \in Counters /\ event \in Counters
             /\ 0 \in Counters
  BY <1>0 DEF KringInv, KringType, Counters
<1>3. ASSUME NEW p \in Procs, open_find(p) PROVE KringInv'
  <2>1. ProcessMove(p, "open_get", task[p], event_count[p])
    BY <1>2, <1>3, Zenon DEF open_find, Goto, kvars, ProcessMove, Looking
  <2> QED BY <1>2, <2>1, ProcessStep, Zenon DEF Places
<1>4. ASSUME NEW p \in Procs, open_get(p) PROVE KringInv'
  <2>1. ProcessMove(p, "open_info", task[p], event)
    BY <1>2, <1>4, Zenon DEF open_get, Goto, ProcessMove, Looking
  <2> QED BY <1>2, <2>1, ProcessStep, Zenon DEF Places
<1>5. ASSUME NEW p \in Procs, open_info(p) PROVE KringInv'
  <2>1. \/ ProcessMove(p, "handle", task[p], event_count[p])
        \/ ProcessMove(p, "closed", task[p], 0)
    BY <1>2, <1>5, Zenon DEF open_info, Goto, put_idev, ProcessMove, Looking
  <2> QED BY <1>2, <2>1, ProcessStep, Zenon DEF Places
<1>6. ASSUME NEW p \in Procs, ubbd_kring_release(p) PROVE KringInv'
  <2>1. ProcessMove(p, "closed", task[p], 0)
    BY <1>2, <1>6, Zenon DEF ubbd_kring_release, Goto, put_idev, ProcessMove, Looking
  <2> QED BY <1>2, <2>1, ProcessStep, Zenon DEF Places
<1>7. ASSUME NEW p \in Procs, ubbd_kring_read(p) PROVE KringInv'
  <2>1. ProcessMove(p, "rd_info", task[p], event_count[p])
    BY <1>2, <1>7, Zenon DEF ubbd_kring_read, Goto, kvars, ProcessMove, Looking
  <2> QED BY <1>2, <2>1, ProcessStep, Zenon DEF Places
<1>8. ASSUME NEW p \in Procs, read_info(p) PROVE KringInv'
  <2>1. \/ ProcessMove(p, "rd_state", task[p], event_count[p])
        \/ ProcessMove(p, "idle", task[p], event_count[p])
    BY <1>2, <1>8, Zenon DEF read_info, Goto, kvars, ProcessMove, Looking
  <2> QED BY <1>2, <2>1, ProcessStep DEF Places
<1>9. ASSUME NEW p \in Procs, read_state(p) PROVE KringInv'
  <2>1. ProcessMove(p, "rd_event", "int", event_count[p])
    BY <1>2, <1>9, Zenon DEF read_state, Goto, kvars, ProcessMove, Looking
  <2> QED BY <1>2, <2>1, ProcessStep, Zenon DEF Places
<1>10. ASSUME NEW p \in Procs, read_event(p) PROVE KringInv'
  <2>1. \/ ProcessMove(p, "handle", "run", event)
        \/ ProcessMove(p, "idle", "run", event_count[p])
        \/ ProcessMove(p, "rd_sched", task[p], event_count[p])
    BY <1>2, <1>10, Zenon DEF read_event, Goto, kvars, ProcessMove, Looking
  <2> QED BY <1>2, <2>1, ProcessStep, Zenon DEF Places
<1>11. ASSUME NEW p \in Procs, read_schedule(p) PROVE KringInv'
  <2>1. ProcessMove(p, "rd_info", task[p], event_count[p])
    BY <1>2, <1>11, Zenon DEF read_schedule, Goto, kvars, ProcessMove, Looking
  <2> QED BY <1>2, <2>1, ProcessStep DEF Places
<1>12. ASSUME NEW p \in Procs, ubbd_kring_poll(p) PROVE KringInv'
  <2>1. ProcessMove(p, "pl_event", "int", event_count[p])
    BY <1>2, <1>12, Zenon DEF ubbd_kring_poll, Goto, kvars, ProcessMove, Looking
  <2> QED BY <1>2, <2>1, ProcessStep, Zenon DEF Places
<1>13. ASSUME NEW p \in Procs, poll_event(p) PROVE KringInv'
  <2>1. \/ ProcessMove(p, "pl_again", task[p], event_count[p])
        \/ ProcessMove(p, "pl_sched", task[p], event_count[p])
        \/ ProcessMove(p, "idle", "run", event_count[p])
    BY <1>2, <1>13, Zenon DEF poll_event, Goto, kvars, ProcessMove, Looking
  <2> QED BY <1>2, <2>1, ProcessStep DEF Places
<1>14. ASSUME NEW p \in Procs, poll_again(p) PROVE KringInv'
  <2>1. ProcessMove(p, "handle", "run", event)
    BY <1>2, <1>14, Zenon DEF poll_again, Goto, kvars, ProcessMove, Looking
  <2> QED BY <1>2, <2>1, ProcessStep, Zenon DEF Places
<1>15. ASSUME NEW p \in Procs, poll_schedule(p) PROVE KringInv'
  <2>1. ProcessMove(p, "pl_event", "int", event_count[p])
    BY <1>2, <1>15, Zenon DEF poll_schedule, Goto, kvars, ProcessMove, Looking
  <2> QED BY <1>2, <2>1, ProcessStep DEF Places
<1>16. ASSUME NEW p \in Procs, signal(p) PROVE KringInv'
  <2>1. ProcessMove(p, pc[p], "run", event_count[p])
    BY <1>2, <1>16, Zenon DEF signal, kvars, Asleep, ProcessMove, Looking
  <2> QED BY <1>2, <2>1, ProcessStep, Zenon DEF Places
<1>17. ASSUME NEW p \in Procs, backend_handle(p) PROVE KringInv'
  <2>1. ProcessMove(p, "idle", task[p], event_count[p])
    BY <1>2, <1>17, Zenon DEF backend_handle, Goto, kvars, ProcessMove, Looking
  <2> QED BY <1>2, <2>1, ProcessStep, Zenon DEF Places
<1>18. ASSUME NEW p \in Procs, ubbd_kring_write(p) PROVE KringInv'
  BY <1>1, <1>18, Zenon DEF ubbd_kring_write, kvars, pvars
<1>19. ASSUME NEW p \in Procs, NEW x \in BOOLEAN, ubbd_kring_mmap(p, x) PROVE KringInv'
  BY <1>1, <1>19, Zenon DEF ubbd_kring_mmap, kvars, pvars
<1>20. ASSUME NEW p \in Procs, NEW x \in BOOLEAN, ubbd_vma_close(p, x) PROVE KringInv'
  BY <1>1, <1>20, Zenon DEF ubbd_vma_close, kvars, pvars
<1>21. ASSUME NEW p \in Procs, NEW q \in Procs, NEW x \in BOOLEAN, fork(p, q, x)
      PROVE  KringInv'
  BY <1>1, <1>21, Zenon DEF fork, kvars, pvars
<1>22. ASSUME remove_dev PROVE KringInv'
  BY <1>1, <1>22, Zenon DEF remove_dev, pvars
<1>23. ASSUME UNCHANGED vars PROVE KringInv'
  BY <1>1, <1>23, Zenon DEF vars, kvars, pvars
<1>24. ASSUME NEW w \in Workers, publish(w) PROVE KringInv'
  <2>1. KringType'
    BY <1>0, <1>24, Zenon DEF publish, kvars, pvars, KringInv, KringType
  <2>2. WakeNotLost'
    BY <1>0, <1>24, Zenon DEF publish, kvars, pvars, KringInv, KringType, WakeNotLost, Asleep
  <2>3. ReadyCounted'
    BY <1>0, <1>24, Zenon DEF publish, kvars, pvars, KringInv, KringType, ReadyCounted
  <2>4. ReadersWoken'
    BY <1>0, <1>24 DEF publish, kvars, pvars, KringInv, KringType, ReadersWoken
  <2> QED BY <2>1, <2>2, <2>3, <2>4, Zenon DEF KringInv
<1>25. ASSUME NEW w \in Workers, ubbd_kring_event_notify(w) PROVE KringInv'
  <2>1. KringType'
    BY <1>0, <1>25, NextEvent, Zenon DEF ubbd_kring_event_notify, pvars, KringInv, KringType
  <2>2. WakeNotLost'
    BY <1>0, <1>25, Zenon DEF ubbd_kring_event_notify, pvars, KringInv, KringType, WakeNotLost, Asleep
  <2>3. ReadyCounted'
    BY <1>0, <1>25, NextEvent DEF ubbd_kring_event_notify, pvars, KringInv, KringType, ReadyCounted, Opened, Unseen, Looking
  <2>4. ReadersWoken'
    BY <1>0, <1>25, Zenon DEF ubbd_kring_event_notify, pvars, KringInv, KringType, ReadersWoken
  <2> QED BY <2>1, <2>2, <2>3, <2>4 DEF KringInv
<1>26. ASSUME NEW w \in Workers, event_wake(w) PROVE KringInv'
  <2>1. KringType'
    BY <1>0, <1>26, Zenon DEF event_wake, kvars, Wake, OnWaitQueue, KringInv, KringType
  <2>2. WakeNotLost'
    BY <1>0, <1>26, Zenon DEF event_wake, kvars, Wake, OnWaitQueue, KringInv, KringType, WakeNotLost, Asleep
  <2>3. ReadyCounted'
    BY <1>0, <1>26, Zenon DEF event_wake, kvars, Wake, OnWaitQueue, KringInv, KringType, ReadyCounted
  <2>4. ReadersWoken'
    BY <1>0, <1>26, Zenon DEF event_wake, kvars, Wake, OnWaitQueue, KringInv, KringType, ReadersWoken
  <2> QED BY <2>1, <2>2, <2>3, <2>4 DEF KringInv
<1>27. ASSUME unregister_info PROVE KringInv'
  <2>1. KringType'
    BY <1>0, <1>27, Zenon DEF unregister_info, pvars, KringInv, KringType
  <2>2. WakeNotLost'
    BY <1>0, <1>27, Zenon DEF unregister_info, pvars, KringInv, KringType, WakeNotLost, Asleep
  <2>3. ReadyCounted'
    BY <1>0, <1>27 DEF unregister_info, pvars, KringInv, KringType, ReadyCounted
  <2>4. ReadersWoken'
    BY <1>0, <1>27 DEF unregister_info, pvars, KringInv, KringType, ReadersWoken
  <2> QED BY <2>1, <2>2, <2>3, <2>4, Zenon DEF KringInv
<1>28. ASSUME unregister_wake PROVE KringInv'
  <2>1. KringType'
    BY <1>0, <1>28, Zenon DEF unregister_wake, Wake, OnWaitQueue, KringInv, KringType
  <2>2. WakeNotLost'
    BY <1>0, <1>28 DEF unregister_wake, Wake, OnWaitQueue, KringInv, KringType, WakeNotLost, Asleep
  <2>3. ReadyCounted'
    BY <1>0, <1>28, Zenon DEF unregister_wake, Wake, OnWaitQueue, KringInv, KringType, ReadyCounted
  <2>4. ReadersWoken'
    BY <1>0, <1>28, Zenon DEF unregister_wake, Wake, OnWaitQueue, KringInv, KringType, ReadersWoken
  <2> QED BY <2>1, <2>2, <2>3, <2>4 DEF KringInv
<1>29. ASSUME unregister_put PROVE KringInv'
  <2>1. KringType'
    BY <1>0, <1>29, Zenon DEF unregister_put, pvars, KringInv, KringType
  <2>2. WakeNotLost'
    BY <1>0, <1>29, Zenon DEF unregister_put, pvars, KringInv, KringType, WakeNotLost, Asleep
  <2>3. ReadyCounted'
    BY <1>0, <1>29, Zenon DEF unregister_put, pvars, KringInv, KringType, ReadyCounted
  <2>4. ReadersWoken'
    BY <1>0, <1>29 DEF unregister_put, pvars, KringInv, KringType, ReadersWoken
  <2> QED BY <2>1, <2>2, <2>3, <2>4 DEF KringInv
<1>30. ASSUME unregister_minor PROVE KringInv'
  <2>1. KringType'
    BY <1>0, <1>30, Zenon DEF unregister_minor, pvars, KringInv, KringType
  <2>2. WakeNotLost'
    BY <1>0, <1>30, Zenon DEF unregister_minor, pvars, KringInv, KringType, WakeNotLost, Asleep
  <2>3. ReadyCounted'
    BY <1>0, <1>30, Zenon DEF unregister_minor, pvars, KringInv, KringType, ReadyCounted
  <2>4. ReadersWoken'
    BY <1>0, <1>30, Zenon DEF unregister_minor, pvars, KringInv, KringType, ReadersWoken
  <2> QED BY <2>1, <2>2, <2>3, <2>4 DEF KringInv
<1> QED
  BY <1>3, <1>4, <1>5, <1>6, <1>7, <1>8, <1>9, <1>10, <1>11, <1>12, <1>13,
     <1>14, <1>15, <1>16, <1>17, <1>18, <1>19, <1>20, <1>21, <1>22, <1>23,
     <1>24, <1>25, <1>26, <1>27, <1>28, <1>29, <1>30
  DEF Next, Worker, Open, Read, Poll, Unregister

-----------------------------------------------------------------------------
(* The inductive invariant holds throughout. *)
THEOREM KringInvariant == Spec => []KringInv
<1>1. Init => KringInv
  <2> SUFFICES ASSUME Init PROVE KringInv
    BY Zenon
  <2>1. KringType
    <3>1. 0 \in Counters
      BY KringAssumption DEF Counters
    <3> QED BY <3>1, Zenon DEF Init, KringType, Places
  <2> QED BY <2>1, KringAssumption, Zenon
          DEF Init, KringInv, WakeNotLost, ReadyCounted, ReadersWoken, Asleep
<1> QED BY <1>1, KringStep, PTL DEF Spec

(* No wake-up is lost: whatever ubbd_kring_event_notify and the readers    *)
(* and pollers interleave to, a sleeper has seen every event or a worker   *)
(* is about to wake it.                                                    *)
THEOREM NoLostWakeUp == Spec => []WakeNotLost
<1>1. KringInv => WakeNotLost
  BY Zenon DEF KringInv
<1> QED BY <1>1, KringInvariant, PTL

(* The backend does not sleep in ubbd_kring_read or ubbd_kring_poll on a   *)
(* ring with commands it has not looked at, although poll reads the event  *)
(* counter twice.                                                          *)
THEOREM BackendNotices == Spec => []ReadyIsNoticed
<1>1. KringInv => ReadyIsNoticed
  <2> SUFFICES ASSUME KringInv, ready, Asleep(Backend),
                      \A w \in Workers : wpc[w] = "idle"
               PROVE  FALSE
    BY Zenon DEF ReadyIsNoticed
  <2>1. event_count[Backend] # event
    BY Zenon DEF KringInv, ReadyCounted, Asleep, Looking
  <2>2. event_count[Backend] = event
    BY KringAssumption, Zenon DEF KringInv, WakeNotLost
  <2> QED BY <2>1, <2>2, Zenon
<1> QED BY <1>1, KringInvariant, PTL

(* ubbd_kring_unregister_device, which clears info and then wakes, leaves  *)
(* no reader asleep, unless one was between its check of info and          *)
(* set_current_state (late_read).                                          *)
THEOREM NoReaderLeft == Spec => []ReadersLeave
<1>1. KringInv => ReadersLeave
  BY Zenon DEF KringInv, ReadersWoken, ReadersLeave
<1> QED BY <1>1, KringInvariant, PTL

-----------------------------------------------------------------------------
(* The files that hold a reference on idev. *)
OpenFiles == {p \in Procs : Opened(p)}

(* Who holds a reference on idev: the open files and the registration. *)
IdevExact ==
    idev = Cardinality(OpenFiles) + IF unreg \in {"no", "wake", "put"} THEN 1 ELSE 0

(* The device is unregistered when nothing is mapped, and nothing can be   *)
(* mapped from then on.                                                    *)
Unregistering ==
    /\ info <=> unreg = "no"
    /\ unreg # "no" => \A p \in Procs : maps[p] = {}
    /\ "late_open" \notin env /\ unreg # "no" => \A p \in Procs : pc[p] # "open_get"

(* HAS_BACKEND is the one writable mapping. *)
Mapped ==
    env \cap {"fork", "readonly"} = {} =>
        /\ \A p \in Procs : FALSE \notin maps[p]
        /\ has_backend <=> \E p \in Procs : TRUE \in maps[p]
        /\ \A p, q \in Procs : TRUE \in maps[p] /\ TRUE \in maps[q] => p = q

UserInv ==
    /\ maps \in [Procs -> SUBSET BOOLEAN] /\ has_backend \in BOOLEAN
    /\ unreg \in {"no", "wake", "put", "minor", "done"} /\ info \in BOOLEAN
    /\ IdevExact /\ Unregistering /\ Mapped

-----------------------------------------------------------------------------
(* A file is opened or closed, or it stays as it is. *)
LEMMA OpenFilesMove ==
    ASSUME KringType, NEW p \in Procs, NEW l \in Places, pc' = [pc EXCEPT ![p] = l]
    PROVE  /\ IsFiniteSet(OpenFiles) /\ Cardinality(OpenFiles) \in Nat
           /\ Opened(p) <=> l \notin {"closed", "open_get"} => OpenFiles' = OpenFiles
           /\ ~Opened(p) /\ l \notin {"closed", "open_get"} =>
                 Cardinality(OpenFiles') = Cardinality(OpenFiles) + 1
           /\ Opened(p) /\ l \in {"closed", "open_get"} =>
                 Cardinality(OpenFiles') = Cardinality(OpenFiles) - 1
<1>1. IsFiniteSet(OpenFiles)
  BY KringAssumption, FS_Subset, Zenon DEF OpenFiles
<1>2. pc'[p] = l /\ \A q \in Procs \ {p} : pc'[q] = pc[q]
  BY Zenon DEF KringType
<1>3. Opened(p) <=> l \notin {"closed", "open_get"} => OpenFiles' = OpenFiles
  BY <1>2, Zenon DEF OpenFiles, Opened
<1>4. ASSUME ~Opened(p), l \notin {"closed", "open_get"}
      PROVE  Cardinality(OpenFiles') = Cardinality(OpenFiles) + 1
  <2>1. OpenFiles' = OpenFiles \cup {p} /\ p \notin OpenFiles
    BY <1>2, <1>4, Zenon DEF OpenFiles, Opened
  <2> QED BY <1>1, <2>1, FS_AddElement, Zenon
<1>5. ASSUME Opened(p), l \in {"closed", "open_get"}
      PROVE  Cardinality(OpenFiles') = Cardinality(OpenFiles) - 1
  <2>1. OpenFiles' = OpenFiles \ {p} /\ p \in OpenFiles
    BY <1>2, <1>5, Zenon DEF OpenFiles, Opened
  <2> QED BY <1>1, <2>1, FS_RemoveElement, Zenon
<1> QED BY <1>1, <1>3, <1>4, <1>5, FS_CardinalityType, Zenon

(* A step that keeps the files, the references and the mappings. *)
LEMMA UserKept ==
    ASSUME UserInv, UNCHANGED <<env, idev, unreg, info, maps, has_backend>>,
           OpenFiles' = OpenFiles,
           \A p \in Procs : pc'[p] = "open_get" => pc[p] = "open_get" \/ unreg = "no" \/ "late_open" \in env
    PROVE  UserInv'
<1>1. IdevExact'
  BY Zenon DEF UserInv, IdevExact
<1>2. Unregistering'
  BY Zenon DEF UserInv, Unregistering
<1>3. Mapped'
  BY Zenon DEF UserInv, Mapped
<1> QED BY <1>1, <1>2, <1>3, Zenon DEF UserInv

(* A process moves between places at which its file is open. *)
LEMMA UserMove ==
    ASSUME KringType, UserInv, NEW p \in Procs, NEW l \in Places \ {"closed", "open_get"},
           Opened(p), pc' = [pc EXCEPT ![p] = l],
           UNCHANGED <<env, idev, unreg, info, maps, has_backend>>
    PROVE  UserInv'
<1>1. OpenFiles' = OpenFiles
  BY OpenFilesMove, Zenon
<1>2. \A q \in Procs : pc'[q] = "open_get" => pc[q] = "open_get"
  BY Zenon DEF KringType
<1> QED BY <1>1, <1>2, UserKept, Zenon

(* A file is opened or closed, with the reference on idev. *)
LEMMA UserOpenClose ==
    ASSUME KringType, UserInv, NEW p \in Procs, NEW l \in Places \ {"open_get"},
           pc' = [pc EXCEPT ![p] = l],
           UNCHANGED <<env, unreg, info, maps, has_backend>>,
           \/ ~Opened(p) /\ l # "closed" /\ idev' = idev + 1
           \/ Opened(p) /\ l = "closed" /\ idev' = idev - 1
    PROVE  UserInv'
<1>1. \A q \in Procs : pc'[q] = "open_get" => pc[q] = "open_get"
  BY Zenon DEF KringType
<1>2. /\ Cardinality(OpenFiles) \in Nat
      /\ l # "closed" => Cardinality(OpenFiles') = Cardinality(OpenFiles) + 1
      /\ l = "closed" => Cardinality(OpenFiles') = Cardinality(OpenFiles) - 1
  BY OpenFilesMove, Zenon
<1>3. IdevExact'
  BY <1>2 DEF UserInv, IdevExact
<1>4. Unregistering'
  BY <1>1, Zenon DEF UserInv, Unregistering
<1>5. Mapped'
  BY Zenon DEF UserInv, Mapped
<1> QED BY <1>3, <1>4, <1>5, Zenon DEF UserInv

(* The mappings are those of the processes. *)
LEMMA VmaOfProcess ==
    /\ \A v : v \in Vmas <=> \E p \in Procs : \E x \in maps[p] : v = <<p, x>>
    /\ Vmas = {} <=> \A p \in Procs : maps[p] = {}
<1>1. ASSUME NEW v, v \in Vmas PROVE \E p \in Procs : \E x \in maps[p] : v = <<p, x>>
  <2>1. PICK p \in Procs : v \in {p} \X maps[p]
    BY <1>1, Zenon DEF Vmas
  <2>2. \E x \in maps[p] : v = <<p, x>>
    BY <2>1, SMT, Zenon
  <2> QED BY <2>2, Zenon
<1>2. ASSUME NEW p \in Procs, NEW x \in maps[p] PROVE <<p, x>> \in Vmas
  <2>1. <<p, x>> \in {p} \X maps[p]
    BY SMT, Zenon
  <2> QED BY <2>1, Zenon DEF Vmas
<1>3. \A v : v \in Vmas <=> \E p \in Procs : \E x \in maps[p] : v = <<p, x>>
  BY <1>1, <1>2, Zenon
<1>4. Vmas = {} <=> \A p \in Procs : maps[p] = {}
  BY <1>3, Zenon
<1> QED BY <1>3, <1>4, Zenon

(* The unregistration: info, the wake-up, the reference, the minor. *)
LEMMA UserUnregister ==
    ASSUME KringType, UserInv, Unregister
    PROVE  UserInv'
<1>1. UNCHANGED <<env, maps, has_backend, pc>>
  BY Zenon DEF Unregister, unregister_info, unregister_wake, unregister_put, unregister_minor, mvars, pvars
<1>2. OpenFiles' = OpenFiles
  BY <1>1, Zenon DEF OpenFiles, Opened
<1>3. Mapped'
  BY <1>1, Zenon DEF UserInv, Mapped
<1>4. CASE unregister_info
  <2>1. /\ unreg = "no" /\ unreg' = "wake" /\ info' = FALSE /\ idev' = idev
        /\ \A p \in Procs : maps[p] = {}
        /\ (\A p \in Procs : pc[p] # "open_get") \/ "late_open" \in env
    BY <1>4, VmaOfProcess, Zenon DEF unregister_info, Referenced
  <2>2. IdevExact'
    BY <1>2, <2>1, Zenon DEF UserInv, IdevExact
  <2>3. Unregistering'
    BY <1>1, <2>1, Zenon DEF Unregistering
  <2> QED BY <1>1, <1>3, <2>1, <2>2, <2>3, Zenon DEF UserInv
<1>5. CASE unregister_wake \/ unregister_put \/ unregister_minor
  <2>1. /\ unreg # "no" /\ info' = info /\ unreg' \in {"put", "minor", "done"}
        /\ \/ unreg = "wake" /\ unreg' = "put" /\ idev' = idev
           \/ unreg = "put" /\ unreg' = "minor" /\ idev' = idev - 1
           \/ unreg = "minor" /\ unreg' = "done" /\ idev' = idev
    BY <1>5, Zenon DEF unregister_wake, unregister_put, unregister_minor
  <2>2. IdevExact'
    <3>1. Cardinality(OpenFiles) \in Nat
      BY KringAssumption, FS_Subset, FS_CardinalityType, Zenon DEF OpenFiles
    <3> QED BY <1>2, <2>1, <3>1 DEF UserInv, IdevExact
  <2>3. Unregistering'
    BY <1>1, <2>1, Zenon DEF UserInv, Unregistering
  <2> QED BY <1>1, <1>3, <2>1, <2>2, <2>3, Zenon DEF UserInv
<1> QED BY <1>4, <1>5, Zenon DEF Unregister

(* mmap, munmap and fork. *)
LEMMA UserMap ==
    ASSUME UserInv, NEW p \in Procs, NEW q \in Procs, NEW x \in BOOLEAN,
           ubbd_kring_mmap(p, x) \/ ubbd_vma_close(p, x) \/ fork(p, q, x)
    PROVE  UserInv'
<1>1. UNCHANGED <<env, idev, unreg, info, pc>>
  BY Zenon DEF ubbd_kring_mmap, ubbd_vma_close, fork, kvars, pvars
<1>2. IdevExact'
  BY <1>1, Zenon DEF UserInv, IdevExact, OpenFiles, Opened
<1>3. maps' \in [Procs -> SUBSET BOOLEAN] /\ has_backend' \in BOOLEAN
  BY Zenon DEF UserInv, ubbd_kring_mmap, ubbd_vma_close, fork
<1>4. unreg # "no" => \A o \in Procs : maps'[o] = {}
  BY Zenon DEF UserInv, Unregistering, ubbd_kring_mmap, ubbd_vma_close, fork
<1>5. Unregistering'
  BY <1>1, <1>4, Zenon DEF UserInv, Unregistering
<1>6. Mapped'
  <2> SUFFICES ASSUME env \cap {"fork", "readonly"} = {} PROVE Mapped'
    BY <1>1, Zenon DEF Mapped
  <2>1. /\ \A o \in Procs : FALSE \notin maps[o]
        /\ has_backend <=> \E o \in Procs : TRUE \in maps[o]
        /\ \A o, r \in Procs : TRUE \in maps[o] /\ TRUE \in maps[r] => o = r
    BY Zenon DEF UserInv, Mapped
  <2>2. CASE ubbd_kring_mmap(p, x)
    <3>1. x = TRUE /\ ~has_backend /\ has_backend' = TRUE /\ maps' = [maps EXCEPT ![p] = @ \cup {TRUE}]
      BY <2>2, Zenon DEF ubbd_kring_mmap
    <3> QED BY <1>1, <2>1, <3>1, Zenon DEF Mapped, UserInv
  <2>3. CASE ubbd_vma_close(p, x)
    <3>1. x = TRUE /\ TRUE \in maps[p] /\ has_backend' = FALSE /\ maps' = [maps EXCEPT ![p] = @ \ {TRUE}]
      BY <2>1, <2>3, Zenon DEF ubbd_vma_close
    <3> QED BY <1>1, <2>1, <3>1, Zenon DEF Mapped, UserInv
  <2> QED BY <2>2, <2>3, Zenon DEF fork
<1> QED BY <1>1, <1>2, <1>3, <1>5, <1>6, Zenon DEF UserInv

(* Every step preserves UserInv. *)
LEMMA UserStep == KringInv /\ UserInv /\ [Next]_vars => UserInv'
<1> SUFFICES ASSUME KringInv, UserInv, [Next]_vars PROVE UserInv'
  BY Zenon
<1>0. KringType
  BY Zenon DEF KringInv
<1>1. ASSUME UNCHANGED <<env, idev, unreg, info, maps, has_backend, pc>>
      PROVE  UserInv'
  <2>1. OpenFiles' = OpenFiles
    BY <1>1, Zenon DEF OpenFiles, Opened
  <2> QED BY <1>1, <2>1, UserKept, Zenon
<1>2. ASSUME NEW w \in Workers, Worker(w) PROVE UserInv'
  BY <1>1, <1>2, Zenon DEF Worker, publish, ubbd_kring_event_notify, event_wake, kvars, mvars, pvars
<1>3. ASSUME NEW p \in Procs, Open(p) \/ ubbd_kring_release(p) PROVE UserInv'
  <2>1. CASE open_find(p)
    <3>1. /\ ~Opened(p) /\ pc' = [pc EXCEPT ![p] = "open_get"]
          /\ unreg = "no" \/ "late_open" \in env
          /\ UNCHANGED <<env, idev, unreg, info, maps, has_backend>>
      BY <2>1, Zenon DEF open_find, Goto, Opened, kvars, mvars
    <3>2. OpenFiles' = OpenFiles
      BY <1>0, <3>1, OpenFilesMove, Zenon DEF Places
    <3>3. \A q \in Procs : pc'[q] = "open_get" => pc[q] = "open_get" \/ unreg = "no" \/ "late_open" \in env
      BY <3>1, Zenon
    <3> QED BY <3>1, <3>2, <3>3, UserKept, Zenon
  <2>2. CASE open_get(p)
    <3>1. /\ ~Opened(p) /\ pc' = [pc EXCEPT ![p] = "open_info"] /\ idev' = idev + 1
          /\ UNCHANGED <<env, unreg, info, maps, has_backend>>
      BY <2>2, Zenon DEF open_get, Goto, Opened, mvars
    <3> QED BY <1>0, <3>1, UserOpenClose, Zenon DEF Places
  <2>3. CASE open_info(p) /\ info
    <3>1. /\ Opened(p) /\ pc' = [pc EXCEPT ![p] = "handle"]
          /\ UNCHANGED <<env, idev, unreg, info, maps, has_backend>>
      BY <2>3, Zenon DEF open_info, Goto, Opened, mvars
    <3> QED BY <1>0, <3>1, UserMove, Zenon DEF Places
  <2>4. CASE (open_info(p) /\ ~info) \/ ubbd_kring_release(p)
    <3>1. /\ Opened(p) /\ pc' = [pc EXCEPT ![p] = "closed"] /\ idev' = idev - 1
          /\ UNCHANGED <<env, unreg, info, maps, has_backend>>
      BY <2>4, Zenon DEF open_info, ubbd_kring_release, put_idev, Goto, Opened, mvars
    <3> QED BY <1>0, <3>1, UserOpenClose, Zenon DEF Places
  <2> QED BY <1>3, <2>1, <2>2, <2>3, <2>4, Zenon DEF Open
<1>4. ASSUME NEW p \in Procs, ubbd_kring_read(p) \/ Read(p) PROVE UserInv'
  <2>1. \E l \in {"idle", "rd_info", "rd_state", "rd_event", "rd_sched", "handle"} :
           pc' = [pc EXCEPT ![p] = l]
    BY <1>4, Zenon DEF ubbd_kring_read, Read, read_info, read_state, read_event, read_schedule, Goto
  <2>2. Opened(p) /\ UNCHANGED <<env, idev, unreg, info, maps, has_backend>>
    BY <1>4, Zenon DEF ubbd_kring_read, Read, read_info, read_state, read_event, read_schedule, Opened, kvars, mvars
  <2> QED BY <1>0, <2>1, <2>2, UserMove, Zenon DEF Places
<1>5. ASSUME NEW p \in Procs, ubbd_kring_poll(p) \/ Poll(p) \/ backend_handle(p) PROVE UserInv'
  <2>1. \E l \in {"idle", "pl_event", "pl_again", "pl_sched", "handle"} :
           pc' = [pc EXCEPT ![p] = l]
    BY <1>5, Zenon DEF ubbd_kring_poll, Poll, poll_event, poll_again, poll_schedule, backend_handle, Goto
  <2>2. Opened(p) /\ UNCHANGED <<env, idev, unreg, info, maps, has_backend>>
    BY <1>5, Zenon DEF ubbd_kring_poll, Poll, poll_event, poll_again, poll_schedule, backend_handle, Opened, kvars, mvars
  <2> QED BY <1>0, <2>1, <2>2, UserMove, Zenon DEF Places
<1>6. ASSUME NEW p \in Procs, signal(p) \/ ubbd_kring_write(p) PROVE UserInv'
  BY <1>1, <1>6, Zenon DEF signal, ubbd_kring_write, kvars, mvars, pvars
<1>7. ASSUME remove_dev PROVE UserInv'
  BY <1>1, <1>7, Zenon DEF remove_dev, mvars, pvars
<1>8. ASSUME UNCHANGED vars PROVE UserInv'
  BY <1>1, <1>8, Zenon DEF vars, kvars, mvars, pvars
<1>9. ASSUME NEW p \in Procs, NEW q \in Procs, NEW x \in BOOLEAN,
             ubbd_kring_mmap(p, x) \/ ubbd_vma_close(p, x) \/ fork(p, q, x)
      PROVE  UserInv'
  BY <1>9, UserMap, Zenon
<1> QED BY <1>0, <1>2, <1>3, <1>4, <1>5, <1>6, <1>7, <1>8, <1>9, UserUnregister, Zenon DEF Next

(* The references on idev are those of the open files and of the           *)
(* registration, in every environment; mappings keep the unregistration    *)
(* away.                                                                   *)
THEOREM UserInvariant == Spec => []UserInv
<1>1. Init => UserInv
  <2> SUFFICES ASSUME Init PROVE UserInv
    OBVIOUS
  <2>1. OpenFiles = {}
    BY Zenon DEF Init, OpenFiles, Opened
  <2>2. IdevExact
    BY <2>1, FS_EmptySet DEF Init, IdevExact
  <2> QED BY <2>2, Zenon DEF Init, UserInv, Unregistering, Mapped
<1> QED BY <1>1, UserStep, KringInvariant, PTL DEF Spec

(* HAS_BACKEND, which ubbd_kring_dev_mmap tests and sets and               *)
(* ubbd_vma_close clears, is set exactly while there is a mapping, and     *)
(* there is at most one.                                                   *)
THEOREM BackendIsAlone == Spec => []OneBackend
<1>1. UserInv => OneBackend
  <2> SUFFICES ASSUME UserInv, env \cap {"fork", "readonly"} = {}
               PROVE  (has_backend <=> Vmas # {}) /\ Cardinality(Vmas) <= 1
    BY Zenon DEF OneBackend
  <2>1. Mapped /\ \A p \in Procs : maps[p] \subseteq BOOLEAN
    BY Zenon DEF UserInv
  <2>2. CASE \E p \in Procs : TRUE \in maps[p]
    <3>1. PICK p \in Procs : TRUE \in maps[p]
      BY <2>2, Zenon
    <3>2. \A q \in Procs : maps[q] = IF q = p THEN {TRUE} ELSE {}
      BY <2>1, <3>1, Zenon DEF Mapped
    <3>3. Vmas = {<<p, TRUE>>}
      <4>1. \A v : v \in Vmas <=> v = <<p, TRUE>>
        <5>1. ASSUME NEW v, v \in Vmas PROVE v = <<p, TRUE>>
          <6>1. PICK q \in Procs : \E x \in maps[q] : v = <<q, x>>
            BY <5>1, VmaOfProcess, Zenon
          <6>2. PICK x \in maps[q] : v = <<q, x>>
            BY <6>1, Zenon
          <6>3. q = p
            BY <3>2, <6>2
          <6>4. x = TRUE
            <7>1. maps[q] = {TRUE}
              BY <3>2, <6>3, Zenon
            <7>2. x \in {TRUE}
              BY <7>1
            <7> QED BY <7>2, SMT
          <6> QED BY <6>2, <6>3, <6>4, Zenon
        <5>2. <<p, TRUE>> \in Vmas
          BY <3>1, VmaOfProcess, Zenon
        <5> QED BY <5>1, <5>2, Zenon
      <4> QED BY <4>1, Zenon
    <3>4. Cardinality(Vmas) = 1
      BY <3>3, FS_Singleton, Zenon
    <3>5. has_backend <=> Vmas # {}
      BY <2>1, <2>2, <3>3, Zenon DEF Mapped
    <3> QED BY <3>4, <3>5
  <2>3. CASE ~\E p \in Procs : TRUE \in maps[p]
    <3>1. \A q \in Procs : maps[q] = {}
      BY <2>1, <2>3, Zenon DEF Mapped
    <3>2. Vmas = {}
      BY <3>1, VmaOfProcess, Zenon
    <3>3. Cardinality(Vmas) = 0
      BY <3>2, FS_EmptySet, Zenon
    <3>4. has_backend <=> Vmas # {}
      BY <2>1, <2>3, <3>2, Zenon DEF Mapped
    <3> QED BY <3>3, <3>4
  <2> QED BY <2>2, <2>3, Zenon
<1> QED BY <1>1, UserInvariant, PTL

(* No open, mmap or write uses an idev or an info that is gone, unless one *)
(* of the late_ races happens.                                             *)
THEOREM NoFileUsedAfterFree == Spec => []NoOops
<1>1. Init => NoOops
  BY Zenon DEF Init, NoOops
<1>2. UserInv /\ NoOops /\ [Next]_vars => NoOops'
  <2> SUFFICES ASSUME UserInv, NoOops, [Next]_vars, env' \subseteq {"fork", "readonly"}, oops'
               PROVE  FALSE
    BY Zenon DEF NoOops
  <2>1. CASE UNCHANGED vars
    BY <2>1, Zenon DEF vars, NoOops
  <2>2. CASE Next
    <3>1. \/ \E p \in Procs : open_get(p) \/ ubbd_kring_write(p)
          \/ \E p \in Procs, x \in BOOLEAN : ubbd_kring_mmap(p, x)
      <4>1. ~oops
        BY <2>2, Zenon DEF Next
      <4>2. ASSUME NEW w \in Workers, Worker(w) PROVE FALSE
        BY <4>1, <4>2, Zenon DEF Worker, publish, ubbd_kring_event_notify, event_wake
      <4>3. ASSUME NEW p \in Procs, Open(p) \/ ubbd_kring_release(p), ~open_get(p) PROVE FALSE
        BY <4>1, <4>3, Zenon DEF Open, open_find, open_info, ubbd_kring_release
      <4>4. ASSUME NEW p \in Procs, ubbd_kring_read(p) \/ Read(p) PROVE FALSE
        BY <4>1, <4>4, Zenon DEF ubbd_kring_read, Read, read_info, read_state, read_event, read_schedule
      <4>5. ASSUME NEW p \in Procs,
                   ubbd_kring_poll(p) \/ Poll(p) \/ signal(p) \/ backend_handle(p)
            PROVE  FALSE
        BY <4>1, <4>5, Zenon DEF ubbd_kring_poll, Poll, poll_event, poll_again, poll_schedule, signal,
          backend_handle
      <4>6. ASSUME NEW p \in Procs, NEW q \in Procs, NEW x \in BOOLEAN,
                   ubbd_vma_close(p, x) \/ fork(p, q, x)
            PROVE  FALSE
        BY <4>1, <4>6, Zenon DEF ubbd_vma_close, fork
      <4>7. ~remove_dev /\ ~Unregister
        BY <4>1, Zenon DEF remove_dev, Unregister, unregister_info, unregister_wake, unregister_put,
          unregister_minor
      <4> QED BY <2>2, <4>2, <4>3, <4>4, <4>5, <4>6, <4>7, Zenon DEF Next
    <3>2. ASSUME NEW p \in Procs, open_get(p) PROVE FALSE
      <4>1. pc[p] = "open_get" /\ idev = 0 /\ env' = env
        BY <3>2, Zenon DEF open_get
      <4>2. unreg = "no"
        BY <4>1, Zenon DEF UserInv, Unregistering
      <4>3. Cardinality(OpenFiles) \in Nat
        BY KringAssumption, FS_Subset, FS_CardinalityType, Zenon DEF OpenFiles
      <4> QED BY <4>1, <4>2, <4>3 DEF UserInv, IdevExact
    <3>3. ASSUME NEW p \in Procs, ubbd_kring_write(p) PROVE FALSE
      <4>1. maps[p] # {} /\ ~info
        BY <3>3, Zenon DEF ubbd_kring_write
      <4> QED BY <4>1, Zenon DEF UserInv, Unregistering
    <3>4. ASSUME NEW p \in Procs, NEW x \in BOOLEAN, ubbd_kring_mmap(p, x) PROVE FALSE
      BY <3>4, Zenon DEF ubbd_kring_mmap
    <3> QED BY <3>1, <3>2, <3>3, <3>4, Zenon
  <2> QED BY <2>1, <2>2, Zenon
<1> QED BY <1>1, <1>2, UserInvariant, PTL DEF Spec

=============================================================================
