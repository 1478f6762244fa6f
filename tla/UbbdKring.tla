------------------------------ MODULE UbbdKring ------------------------------
(***************************************************************************)
(* The kring character device of one queue, through which the backend      *)
(* opens and maps the rings, waits for commands (read and poll on an event *)
(* counter), and kicks the completion (write); and its registration and    *)
(* removal.                                                                *)
(*                                                                         *)
(* The workers publish a command (cmd_head moves) and then notify.  ready  *)
(* says that the ring holds commands the backend has not looked at.        *)
(***************************************************************************)
EXTENDS Integers, FiniteSets

CONSTANTS
    Procs,     \* processes that open the kring device
    Backend,   \* the one of them that handles commands
    Workers,   \* request workers
    EVENTS,    \* the modulus of the s32 event counter
    Envs       \* the environments considered: sets of Races

(* Behaviours of the environment that the code does not guard against.     *)
(* late_open: an open is between idr_find and get_device when              *)
(* ubbd_kring_unregister_device runs.                                      *)
(* late_mmap: an mmap between the last ubbd_dev_put and unregister_device. *)
(* late_write: a write by a process that has no mapping.                   *)
(* late_read: a reader has found info but has not set its task state when  *)
(* unregister_device wakes the readers.                                    *)
(* fork: a process with a mapping forks.                                   *)
(* readonly: a process maps the rings without PROT_WRITE.                  *)
Races == {"late_open", "late_mmap", "late_write", "late_read", "fork", "readonly"}

ASSUME KringAssumption ==
    /\ Backend \in Procs /\ IsFiniteSet(Procs)
    /\ EVENTS \in Nat /\ EVENTS > 1
    /\ Envs # {} /\ Envs \subseteq SUBSET Races

VARIABLES
    env,          \* the Races that happen in this behaviour
    minor,        \* the idr maps the minor to the device
    info,         \* idev->info is set
    idev,         \* references on idev; 0: freed
    event,        \* idev->event
    unreg,        \* where ubbd_kring_unregister_device is
    base,         \* the device's first reference was not dropped yet
    maps,         \* maps[p]: vmas of p, each TRUE if writable
    has_backend,  \* UBBD_QUEUE_FLAGS_HAS_BACKEND
    pc,           \* pc[p]: where process p is
    event_count,  \* listener->event_count
    task,         \* task[p]: task state, run or int (TASK_INTERRUPTIBLE)
    wpc,          \* wpc[w]: where worker w is
    ready,        \* the ring holds commands the backend has not looked at
    oops          \* something that is not there was used

kvars == <<minor, info, idev, event, unreg, base>>
mvars == <<maps, has_backend>>
pvars == <<pc, event_count, task>>
vars == <<env, kvars, mvars, pvars, wpc, ready, oops>>

(* Where a process is: closed; open_get, open_info: in ubbd_kring_open;    *)
(* idle: the file is open; rd_info, rd_state, rd_event, rd_sched: in       *)
(* ubbd_kring_read; pl_event, pl_again, pl_sched: in poll; handle: looks   *)
(* at the ring.                                                            *)
OnWaitQueue(p) == pc[p] \in {"rd_info", "rd_state", "rd_event", "rd_sched",
                             "pl_event", "pl_again", "pl_sched"}

Asleep(p) == pc[p] \in {"rd_sched", "pl_sched"} /\ task[p] = "int"

Opened(p) == pc[p] \notin {"closed", "open_get"}

(* Notifications that p has not seen; those of the backend are assumed     *)
(* never to reach the width of the counter.                                *)
Unseen(p) == (event - event_count[p]) % EVENTS

Vmas == UNION {{p} \X maps[p] : p \in Procs}

(* Mutant: a mapping holds no reference. *)
Bug_Referenced == base

(* The device's kref is not zero. *)
Referenced == base \/ Vmas # {}

Goto(p, l) == pc' = [pc EXCEPT ![p] = l]

(* Mutant: only one process is woken. *)
Bug_Wake ==
    task' = IF \E p \in Procs : OnWaitQueue(p)
              THEN [task EXCEPT ![CHOOSE p \in Procs : OnWaitQueue(p)] = "run"]
              ELSE task

(* wake_up_interruptible(&idev->wait) *)
Wake == task' = [p \in Procs |-> IF OnWaitQueue(p) THEN "run" ELSE task[p]]

-----------------------------------------------------------------------------
(* The device as __ubbd_kring_register_device leaves it. *)
Init ==
    /\ env \in Envs
    /\ minor = TRUE /\ info = TRUE /\ idev = 1 /\ event = 0
    /\ unreg = "no" /\ base = TRUE
    /\ maps = [p \in Procs |-> {}]
    /\ has_backend = FALSE
    /\ pc = [p \in Procs |-> "closed"]
    /\ event_count = [p \in Procs |-> 0]
    /\ task = [p \in Procs |-> "run"]
    /\ wpc = [w \in Workers |-> "idle"]
    /\ ready = FALSE /\ oops = FALSE

(* A worker moves cmd_head, then calls ubbd_kring_event_notify, which      *)
(* counts the event ...                                                    *)
publish(w) ==
    /\ wpc[w] = "idle" /\ base
    /\ ready' = TRUE
    /\ wpc' = [wpc EXCEPT ![w] = "notify"]
    /\ UNCHANGED <<env, kvars, mvars, pvars, oops>>

atomic_inc(n) == (n + 1) % EVENTS

ubbd_kring_event_notify(w) ==
    /\ wpc[w] = "notify"
    /\ Opened(Backend) => Unseen(Backend) < EVENTS - 1
    /\ event' = atomic_inc(event)
    /\ wpc' = [wpc EXCEPT ![w] = "wake"]
    /\ UNCHANGED <<env, minor, info, idev, unreg, base, mvars, pvars, ready,
                   oops>>

(* Mutant: the event is counted but nobody is woken. *)
Bug_event_wake(w) ==
    /\ wpc[w] = "wake"
    /\ wpc' = [wpc EXCEPT ![w] = "idle"]
    /\ UNCHANGED <<env, kvars, mvars, pvars, ready, oops>>

(* ... and wakes the readers. *)
event_wake(w) ==
    /\ wpc[w] = "wake"
    /\ Wake
    /\ wpc' = [wpc EXCEPT ![w] = "idle"]
    /\ UNCHANGED <<env, kvars, mvars, pc, event_count, ready, oops>>

-----------------------------------------------------------------------------
(* ubbd_kring_open: idr_find under minor_lock ...                          *)
open_find(p) ==
    /\ pc[p] = "closed"
    /\ minor
    /\ unreg = "no" \/ "late_open" \in env
    /\ Goto(p, "open_get")
    /\ UNCHANGED <<env, kvars, mvars, event_count, task, wpc, ready, oops>>

(* ... get_device after the unlock, and the listener ...                   *)
open_get(p) ==
    /\ pc[p] = "open_get"
    /\ oops' = (idev = 0)
    /\ idev' = idev + 1
    /\ event_count' = [event_count EXCEPT ![p] = event]
    /\ Goto(p, "open_info")
    /\ UNCHANGED <<env, minor, info, event, unreg, base, mvars, task, wpc,
                   ready>>

(* kfree(listener) and put_device *)
put_idev(p) ==
    /\ idev' = idev - 1
    /\ event_count' = [event_count EXCEPT ![p] = 0]

(* ... and info->open, or the way back.                                    *)
open_info(p) ==
    /\ pc[p] = "open_info"
    /\ \/ info /\ Goto(p, "handle") /\ UNCHANGED <<idev, event_count>>
       \/ ~info /\ Goto(p, "closed") /\ put_idev(p)
    /\ UNCHANGED <<env, minor, info, event, unreg, base, mvars, task, wpc,
                   ready, oops>>

(* The last close of a file; its mappings are gone by then. *)
ubbd_kring_release(p) ==
    /\ pc[p] = "idle" /\ maps[p] = {}
    /\ put_idev(p)
    /\ Goto(p, "closed")
    /\ UNCHANGED <<env, minor, info, event, unreg, base, mvars, task, wpc,
                   ready, oops>>

-----------------------------------------------------------------------------
(* ubbd_kring_read: p is on the wait queue from here on. *)
ubbd_kring_read(p) ==
    /\ pc[p] = "idle"
    /\ Goto(p, "rd_info")
    /\ UNCHANGED <<env, kvars, mvars, event_count, task, wpc, ready, oops>>

read_info(p) ==
    /\ pc[p] = "rd_info"
    /\ \/ info /\ Goto(p, "rd_state")
       \/ ~info /\ Goto(p, "idle")   \* -EIO
    /\ UNCHANGED <<env, kvars, mvars, event_count, task, wpc, ready, oops>>

read_state(p) ==
    /\ pc[p] = "rd_state"
    /\ task' = [task EXCEPT ![p] = "int"]
    /\ Goto(p, "rd_event")
    /\ UNCHANGED <<env, kvars, mvars, event_count, wpc, ready, oops>>

(* A new event is returned; otherwise -EAGAIN, -ERESTARTSYS or schedule(). *)
read_event(p) ==
    /\ pc[p] = "rd_event"
    /\ \/ /\ event # event_count[p]
          /\ event_count' = [event_count EXCEPT ![p] = event]
          /\ task' = [task EXCEPT ![p] = "run"]
          /\ Goto(p, "handle")
       \/ /\ event = event_count[p]
          /\ task' = [task EXCEPT ![p] = "run"]
          /\ Goto(p, "idle")
          /\ UNCHANGED event_count
       \/ /\ event = event_count[p]
          /\ Goto(p, "rd_sched")
          /\ UNCHANGED <<event_count, task>>
    /\ UNCHANGED <<env, kvars, mvars, wpc, ready, oops>>

read_schedule(p) ==
    /\ pc[p] = "rd_sched"
    /\ task[p] = "run"
    /\ Goto(p, "rd_info")
    /\ UNCHANGED <<env, kvars, mvars, event_count, task, wpc, ready, oops>>

(* ubbd_kring_poll: poll_wait, after which a wake-up is remembered ...     *)
ubbd_kring_poll(p) ==
    /\ pc[p] = "idle"
    /\ task' = [task EXCEPT ![p] = "int"]
    /\ Goto(p, "pl_event")
    /\ UNCHANGED <<env, kvars, mvars, event_count, wpc, ready, oops>>

(* ... the comparison; without an event the caller of poll returns, on a   *)
(* timeout or a signal, or sleeps ...                                      *)
poll_event(p) ==
    /\ pc[p] = "pl_event"
    /\ \/ event # event_count[p] /\ Goto(p, "pl_again") /\ UNCHANGED task
       \/ event = event_count[p] /\ Goto(p, "pl_sched") /\ UNCHANGED task
       \/ /\ event = event_count[p]
          /\ task' = [task EXCEPT ![p] = "run"]
          /\ Goto(p, "idle")
    /\ UNCHANGED <<env, kvars, mvars, event_count, wpc, ready, oops>>

(* ... and a second read of the counter, which may be newer.               *)
poll_again(p) ==
    /\ pc[p] = "pl_again"
    /\ event_count' = [event_count EXCEPT ![p] = event]
    /\ task' = [task EXCEPT ![p] = "run"]
    /\ Goto(p, "handle")
    /\ UNCHANGED <<env, kvars, mvars, wpc, ready, oops>>

poll_schedule(p) ==
    /\ pc[p] = "pl_sched"
    /\ task[p] = "run"
    /\ task' = [task EXCEPT ![p] = "int"]
    /\ Goto(p, "pl_event")
    /\ UNCHANGED <<env, kvars, mvars, event_count, wpc, ready, oops>>

(* A signal, or the timeout of a poll, ends a sleep; the event counter is  *)
(* compared once more before the call returns.                             *)
signal(p) ==
    /\ Asleep(p)
    /\ task' = [task EXCEPT ![p] = "run"]
    /\ UNCHANGED <<env, kvars, mvars, pc, event_count, wpc, ready, oops>>

(* After an open and after every event the backend looks at the whole ring *)
(* (outside this repository).                                              *)
backend_handle(p) ==
    /\ pc[p] = "handle"
    /\ ready' = (ready /\ p # Backend)
    /\ Goto(p, "idle")
    /\ UNCHANGED <<env, kvars, mvars, event_count, task, wpc, oops>>

-----------------------------------------------------------------------------
(* ubbd_kring_write calls idev->info->irqcontrol without info_lock. *)
ubbd_kring_write(p) ==
    /\ pc[p] = "idle"
    /\ maps[p] # {} \/ "late_write" \in env
    /\ oops' = ~info
    /\ UNCHANGED <<env, kvars, mvars, pvars, wpc, ready>>

(* ubbd_kring_mmap and ubbd_kring_dev_mmap: one backend at a time. *)
ubbd_kring_mmap(p, writable) ==
    /\ pc[p] = "idle" /\ info
    /\ ~has_backend
    /\ writable \/ "readonly" \in env
    /\ writable \notin maps[p]
    /\ Referenced \/ "late_mmap" \in env
    /\ oops' = ~Referenced
    /\ has_backend' = TRUE
    /\ maps' = [maps EXCEPT ![p] = @ \cup {writable}]
    /\ UNCHANGED <<env, kvars, pvars, wpc, ready>>

(* fork copies the mapping (ubbd_vma_open) to a child, which has the file  *)
(* open too.                                                               *)
fork(p, child, writable) ==
    /\ "fork" \in env
    /\ pc[p] = "idle" /\ writable \in maps[p]
    /\ pc[child] = "idle" /\ writable \notin maps[child]
    /\ maps' = [maps EXCEPT ![child] = @ \cup {writable}]
    /\ UNCHANGED <<env, kvars, has_backend, pvars, wpc, ready, oops>>

(* Mutant: HAS_BACKEND is not cleared. *)
Bug_ubbd_vma_close(p, writable) ==
    /\ pc[p] = "idle" /\ writable \in maps[p]
    /\ maps' = [maps EXCEPT ![p] = @ \ {writable}]
    /\ UNCHANGED <<env, kvars, has_backend, pvars, wpc, ready, oops>>

ubbd_vma_close(p, writable) ==
    /\ pc[p] = "idle" /\ writable \in maps[p]
    /\ maps' = [maps EXCEPT ![p] = @ \ {writable}]
    /\ has_backend' = (has_backend /\ ~writable)
    /\ UNCHANGED <<env, kvars, pvars, wpc, ready, oops>>

-----------------------------------------------------------------------------
(* The device is removed: its workers have ended and its first reference   *)
(* is dropped; mappings still hold theirs.                                 *)
remove_dev ==
    /\ base /\ \A w \in Workers : wpc[w] = "idle"
    /\ base' = FALSE
    /\ UNCHANGED <<env, minor, info, idev, event, unreg, mvars, pvars, wpc,
                   ready, oops>>

(* ubbd_kring_unregister_device, in ubbd_dev_destroy: info goes under      *)
(* info_lock ...                                                           *)
unregister_info ==
    /\ unreg = "no" /\ ~Referenced
    /\ (\A p \in Procs : pc[p] # "open_get") \/ "late_open" \in env
    /\ info' = FALSE
    /\ unreg' = "wake"
    /\ UNCHANGED <<env, minor, idev, event, base, mvars, pvars, wpc, ready,
                   oops>>

(* Mutant: the readers are not woken. *)
Bug_unregister_wake ==
    /\ unreg = "wake"
    /\ unreg' = "put"
    /\ UNCHANGED <<env, minor, info, idev, event, base, mvars, pvars, wpc,
                   ready, oops>>

(* ... the readers are woken ...                                           *)
unregister_wake ==
    /\ unreg = "wake"
    /\ (\A p \in Procs : pc[p] # "rd_state") \/ "late_read" \in env
    /\ Wake
    /\ unreg' = "put"
    /\ UNCHANGED <<env, minor, info, idev, event, base, mvars, pc,
                   event_count, wpc, ready, oops>>

(* ... device_unregister drops the reference, and only then the minor is   *)
(* freed.                                                                  *)
unregister_put ==
    /\ unreg = "put"
    /\ idev' = idev - 1
    /\ unreg' = "minor"
    /\ UNCHANGED <<env, minor, info, event, base, mvars, pvars, wpc, ready,
                   oops>>

unregister_minor ==
    /\ unreg = "minor"
    /\ minor' = FALSE
    /\ unreg' = "done"
    /\ UNCHANGED <<env, info, idev, event, base, mvars, pvars, wpc, ready,
                   oops>>

-----------------------------------------------------------------------------
Worker(w) == publish(w) \/ ubbd_kring_event_notify(w) \/ event_wake(w)

Open(p) == open_find(p) \/ open_get(p) \/ open_info(p)

Read(p) == read_info(p) \/ read_state(p) \/ read_event(p) \/ read_schedule(p)

Poll(p) == poll_event(p) \/ poll_again(p) \/ poll_schedule(p)

Unregister == unregister_info \/ unregister_wake \/ unregister_put \/ unregister_minor

Next ==
    /\ ~oops
    /\ \/ \E w \in Workers : Worker(w)
       \/ \E p \in Procs :
             \/ Open(p) \/ ubbd_kring_release(p) \/ ubbd_kring_read(p) \/ Read(p)
             \/ ubbd_kring_poll(p) \/ Poll(p) \/ signal(p) \/ backend_handle(p)
             \/ ubbd_kring_write(p)
       \/ \E p \in Procs, writable \in BOOLEAN :
             ubbd_kring_mmap(p, writable) \/ ubbd_vma_close(p, writable)
       \/ \E p, child \in Procs, writable \in BOOLEAN : fork(p, child, writable)
       \/ remove_dev
       \/ Unregister

Spec == Init /\ [][Next]_vars

(* Threads of the kernel run when they can; the backend handles the events *)
(* it gets and, while its file is open, waits for the next one.            *)
Fairness ==
    /\ \A w \in Workers : WF_vars(ubbd_kring_event_notify(w)) /\ WF_vars(event_wake(w))
    /\ \A p \in Procs : /\ WF_vars(Open(p)) /\ WF_vars(Read(p)) /\ WF_vars(Poll(p))
                        /\ WF_vars(backend_handle(p))
    /\ SF_vars(ubbd_kring_read(Backend) \/ ubbd_kring_poll(Backend))

FairSpec == Spec /\ Fairness

-----------------------------------------------------------------------------
(* No wake-up is lost between the comparison of the event counters and     *)
(* schedule(): a sleeping process has seen every event, or the worker that *)
(* counted one is about to wake it.                                        *)
WakeNotLost ==
    \A p \in Procs : Asleep(p) =>
        event_count[p] = event \/ \E w \in Workers : wpc[w] = "wake"

(* The backend never sleeps on a ring with commands it has not looked at,  *)
(* unless a worker is about to notify it.  The second read of the counter  *)
(* in ubbd_kring_poll, which may swallow an event, does no harm, because   *)
(* the event's command is in the ring before poll returns.                 *)
ReadyIsNoticed ==
    ready /\ pc[Backend] # "closed" /\ Asleep(Backend)
        => \E w \in Workers : wpc[w] # "idle"

(* HAS_BACKEND is set exactly while a process maps the rings, so no two    *)
(* backends serve one queue and none is locked out for ever, unless a      *)
(* process forks or maps without write access.                             *)
OneBackend ==
    env \cap {"fork", "readonly"} = {} =>
        /\ has_backend <=> Vmas # {}
        /\ Cardinality(Vmas) <= 1

(* A reader leaves a kring device that goes away: once                     *)
(* ubbd_kring_unregister_device has woken the readers, none of them sleeps *)
(* in ubbd_kring_read, where no event will ever come.  It needs info to be *)
(* cleared before the wake-up, and holds but for late_read.  (A poller may *)
(* sleep on: ubbd_kring_poll does not look at info.)                       *)
ReadersLeave ==
    "late_read" \notin env /\ unreg \in {"put", "minor", "done"}
        => \A p \in Procs : ~(pc[p] = "rd_sched" /\ task[p] = "int")

(* No file operation uses an idev or an info that is gone, as long as the  *)
(* environment stays clear of the Races that begin with late_.             *)
NoOops == env \subseteq {"fork", "readonly"} => ~oops

(* Every command is looked at: a wake-up always gets through to a backend  *)
(* that keeps the device open, while the device is there.                  *)
CommandHandled == ready ~> (~ready \/ pc[Backend] = "closed" \/ ~base)

=============================================================================
