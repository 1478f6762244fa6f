------------------------------- MODULE UbbdDev -------------------------------
(***************************************************************************)
(* The life of a ubbd device: the netlink commands that add and remove     *)
(* devices and their disks, the add_disk work on ubbd_wq, the removal that *)
(* a request timeout starts, and the references that openers of the disk   *)
(* and mappings of the rings hold.                                         *)
(*                                                                         *)
(* Generic netlink runs one command at a time (ubbd_genl_family has no     *)
(* parallel_ops).  ubbd_dev->state_lock is taken and released within one   *)
(* action, so it is not a variable; UBBD_DEV_STATUS_FLAG_INTRANS, which    *)
(* replaces it while the lock is dropped, is.                              *)
(*                                                                         *)
(* UbbdQueue models the requests.  Here there is one request per device,   *)
(* the read of the partition table that add_disk waits for.                *)
(***************************************************************************)
EXTENDS Integers, FiniteSets

CONSTANTS
    Devs,       \* device ids
    Forces,     \* values of the force flag of a removal by netlink
    Envs,       \* the environments considered: sets of Races
    MaxOpens,   \* bound: openers of a disk at a time
    MaxMaps,    \* bound: mappings of a device's rings at a time
    NoDev       \* no device

(* Behaviours of the environment that the code does not guard against.     *)
(* repeat: ADD_DISK while the work of an earlier one is queued.            *)
(* early: REMOVE_DEV of a PREPARED device whose ADD_DISK work is queued.   *)
(* timeout: a request times out.                                           *)
(* late_mmap: mmap of a ring whose device lost its last reference.         *)
(* limits: the queue limits are rejected after the disk was allocated.     *)
Races == {"repeat", "early", "timeout", "late_mmap", "limits"}

ASSUME DevAssumption ==
    /\ Devs \subseteq Nat
    /\ Forces \subseteq BOOLEAN
    /\ Envs # {} /\ Envs \subseteq SUBSET Races
    /\ MaxOpens \in Nat /\ MaxMaps \in Nat
    /\ NoDev \notin Devs

VARIABLES
    env,        \* the Races that happen in this behaviour
    mem,        \* mem[d]: free, alloc, or dying (in ubbd_dev_destroy)
    status,     \* ubbd_dev->status
    intrans,    \* UBBD_DEV_STATUS_FLAG_INTRANS
    kref,       \* ubbd_dev->kref
    disk,       \* ubbd_dev->disk: NULL or set
    gendisk,    \* the gendisk itself: none, init, live (added) or dead (deleted)
    listed,     \* devices on ubbd_dev_list
    ubbd_total_devs,
    queued,     \* devices whose work is queued on ubbd_wq
    wpc,        \* wpc[d]: where ubbd_add_disk_fn is
    opens,      \* openers of the disk, the partition scan not counted
    maps,       \* mappings of the rings
    qremoving,  \* what ubbd_dev_remove_queues did: no, unforced or forced
    nl,         \* the netlink command being handled
    rm,         \* rm[m]: the removal of a disk by m
    oops        \* the kernel has used something that is not there

dvars == <<mem, status, intrans, kref, disk, gendisk, listed, ubbd_total_devs>>
uvars == <<opens, maps>>
vars == <<env, dvars, queued, wpc, uvars, qremoving, nl, rm, oops>>

Removers == {"netlink", "timeout"}

IdleNl == [pc |-> "idle", d |-> NoDev]
IdleRm == [pc |-> "idle", d |-> NoDev, force |-> FALSE]

(* Where the partition scan inside add_disk holds the disk open. *)
Scanning(d) == wpc[d] \in {"scan", "io"}
open_count(d) == opens[d] + IF Scanning(d) THEN 1 ELSE 0

-----------------------------------------------------------------------------
Init ==
    /\ env \in Envs
    /\ mem = [d \in Devs |-> "free"]
    /\ status = [d \in Devs |-> "INIT"]
    /\ intrans = [d \in Devs |-> FALSE]
    /\ kref = [d \in Devs |-> 0]
    /\ disk = [d \in Devs |-> "NULL"] /\ gendisk = [d \in Devs |-> "none"]
    /\ listed = {} /\ ubbd_total_devs = 0
    /\ queued = {}
    /\ wpc = [d \in Devs |-> "idle"]
    /\ opens = [d \in Devs |-> 0]
    /\ maps = [d \in Devs |-> 0]
    /\ qremoving = [d \in Devs |-> "no"]
    /\ nl = IdleNl
    /\ rm = [m \in Removers |-> IdleRm]
    /\ oops = FALSE

(* Mutant: INTRANS is ignored. *)
Bug_state_get_lock(d) == TRUE

(* ubbd_dev_state_get_lock waits until INTRANS is clear. *)
ubbd_dev_state_get_lock(d) == ~intrans[d]

ubbd_dev_get(d) == kref' = [kref EXCEPT ![d] = @ + 1]

(* kref_put; the last one enters ubbd_dev_destroy. *)
ubbd_dev_put(d) ==
    /\ kref' = [kref EXCEPT ![d] = @ - 1]
    /\ mem' = IF kref[d] = 1 THEN [mem EXCEPT ![d] = "dying"] ELSE mem

(* The rest of ubbd_dev_destroy: queues, kring devices, id and memory go,  *)
(* even under the hands of a removal that has no reference.                *)
ubbd_dev_destroy(d) ==
    /\ mem[d] = "dying"
    /\ mem' = [mem EXCEPT ![d] = "free"]
    /\ oops' = (\E m \in Removers : rm[m].d = d /\ rm[m].pc # "end")
    /\ UNCHANGED <<env, status, intrans, kref, disk, gendisk, listed, ubbd_total_devs,
                   queued, wpc, uvars, qremoving, nl, rm>>

-----------------------------------------------------------------------------
(* handle_cmd_add_dev, up to ubbd_dev_create: ida_alloc_range returns the  *)
(* lowest free id.  A failure up to here leaves no trace.                  *)
ubbd_dev_create(d) ==
    /\ nl.pc = "idle"
    /\ mem[d] = "free"
    /\ \A e \in Devs : mem[e] = "free" => d <= e
    /\ mem' = [mem EXCEPT ![d] = "alloc"]
    /\ status' = [status EXCEPT ![d] = "INIT"]
    /\ intrans' = [intrans EXCEPT ![d] = FALSE]
    /\ kref' = [kref EXCEPT ![d] = 1]
    /\ disk' = [disk EXCEPT ![d] = "NULL"] /\ gendisk' = [gendisk EXCEPT ![d] = "none"]
    /\ qremoving' = [qremoving EXCEPT ![d] = "no"]
    /\ nl' = [pc |-> "setup", d |-> d]
    /\ UNCHANGED <<env, listed, ubbd_total_devs, queued, wpc, uvars, rm,
                   oops>>

ubbd_init_disk(d) ==
    disk' = [disk EXCEPT ![d] = "set"] /\ gendisk' = [gendisk EXCEPT ![d] = "init"]

(* ubbd_dev_device_setup, then the device is listed; or err_dev_put, which *)
(* keeps a disk that was allocated before the queue limits were rejected.  *)
ubbd_dev_add_dev ==
    LET d == nl.d IN
    /\ nl.pc = "setup"
    /\ \/ /\ ubbd_init_disk(d)
          /\ status' = [status EXCEPT ![d] = "PREPARED"]
          /\ listed' = listed \cup {d}
          /\ ubbd_total_devs' = ubbd_total_devs + 1
          /\ nl' = [nl EXCEPT !.pc = "reply"]
          /\ UNCHANGED <<mem, kref>>
       \/ /\ \/ UNCHANGED <<disk, gendisk>>
             \/ "limits" \in env /\ ubbd_init_disk(d)
          /\ nl' = IdleNl
          /\ ubbd_dev_put(d)
          /\ UNCHANGED <<status, listed, ubbd_total_devs>>
    /\ UNCHANGED <<env, intrans, queued, wpc, uvars, qremoving, rm, oops>>

(* The reply to ADD_DEV; if it cannot be sent the device is removed. *)
reply_add_dev ==
    /\ nl.pc = "reply"
    /\ nl' = IdleNl \/ nl' = [nl EXCEPT !.pc = "undo"]
    /\ UNCHANGED <<env, dvars, queued, wpc, uvars, qremoving, rm, oops>>

(* find_ubbd_dev: a command looks its device up and takes a reference. *)
find_ubbd_dev(d, cmd) ==
    /\ nl.pc = "idle"
    /\ d \in listed
    /\ d \in queued /\ cmd = "add_disk" => "repeat" \in env
    /\ d \in queued /\ cmd = "remove_dev" /\ status[d] = "PREPARED" => "early" \in env
    /\ ubbd_dev_get(d)
    /\ nl' = [pc |-> cmd, d |-> d]
    /\ UNCHANGED <<env, mem, status, intrans, disk, gendisk, listed, ubbd_total_devs,
                   queued, wpc, uvars, qremoving, rm, oops>>

Commands == {"add_disk", "remove_disk", "remove_dev", "config", "status"}

(* The end of a command drops the reference of find_ubbd_dev. *)
handle_cmd_put ==
    /\ nl.pc = "put"
    /\ ubbd_dev_put(nl.d)
    /\ nl' = IdleNl
    /\ UNCHANGED <<env, status, intrans, disk, gendisk, listed, ubbd_total_devs,
                   queued, wpc, uvars, qremoving, rm, oops>>

(* Mutant: the work gets no reference. *)
Bug_ubbd_dev_add_disk ==
    LET d == nl.d IN
    /\ nl.pc = "add_disk"
    /\ nl' = [nl EXCEPT !.pc = "put"]
    /\ queued' = IF status[d] = "PREPARED" THEN queued \cup {d} ELSE queued
    /\ UNCHANGED <<env, dvars, wpc, uvars, qremoving, rm, oops>>

(* ubbd_dev_add_disk.  INIT_WORK of a work item that is still queued       *)
(* corrupts the list of ubbd_wq.                                           *)
ubbd_dev_add_disk ==
    LET d == nl.d IN
    /\ nl.pc = "add_disk"
    /\ nl' = [nl EXCEPT !.pc = "put"]
    /\ \/ /\ status[d] = "PREPARED"
          /\ ubbd_dev_get(d)
          /\ queued' = queued \cup {d}
          /\ oops' = (d \in queued)
       \/ /\ status[d] # "PREPARED"
          /\ UNCHANGED <<kref, queued, oops>>
    /\ UNCHANGED <<env, mem, status, intrans, disk, gendisk, listed, ubbd_total_devs,
                   wpc, uvars, qremoving, rm>>

Unlist(d) == listed' = listed \ {d} /\ ubbd_total_devs' = ubbd_total_devs - 1

(* Mutant: a disk that was never added is kept. *)
Bug_free_disk(d) ==
    /\ disk' = [disk EXCEPT ![d] = "NULL"]
    /\ gendisk' = [gendisk EXCEPT ![d] = IF @ = "dead" THEN "none" ELSE @]

(* put_disk drops the reference of the driver and the pointer is cleared;  *)
(* a gendisk that was added and not deleted stays with the block layer.    *)
ubbd_free_disk(d) ==
    /\ disk' = [disk EXCEPT ![d] = "NULL"]
    /\ gendisk' = [gendisk EXCEPT ![d] = IF @ = "live" THEN @ ELSE "none"]

(* ubbd_dev_remove_dev, by REMOVE_DEV or to undo ADD_DEV. *)
ubbd_dev_remove_dev ==
    LET d == nl.d IN
    /\ nl.pc \in {"remove_dev", "undo"}
    /\ ubbd_dev_state_get_lock(d)
    /\ \/ /\ status[d] \in {"REMOVING", "PREPARED"}
          /\ Unlist(d)
          /\ ubbd_free_disk(d)
          /\ nl' = [nl EXCEPT !.pc = IF nl.pc = "undo" THEN "put" ELSE "drop"]
       \/ /\ status[d] \notin {"REMOVING", "PREPARED"}
          /\ nl' = IF nl.pc = "undo" THEN IdleNl ELSE [nl EXCEPT !.pc = "put"]
          /\ UNCHANGED <<listed, ubbd_total_devs, disk, gendisk>>
    /\ UNCHANGED <<env, mem, status, intrans, kref, queued, wpc, uvars,
                   qremoving, rm, oops>>

(* The first reference, which kref_init made, goes with the device. *)
remove_dev_put ==
    /\ nl.pc = "drop"
    /\ ubbd_dev_put(nl.d)
    /\ nl' = [nl EXCEPT !.pc = "put"]
    /\ UNCHANGED <<env, status, intrans, disk, gendisk, listed, ubbd_total_devs,
                   queued, wpc, uvars, qremoving, rm, oops>>

(* ubbd_dev_config on a running device changes the capacity of its disk. *)
ubbd_dev_config ==
    /\ nl.pc = "config"
    /\ oops' = (status[nl.d] = "RUNNING" /\ disk[nl.d] = "NULL")
    /\ nl' = [nl EXCEPT !.pc = "put"]
    /\ UNCHANGED <<env, dvars, queued, wpc, uvars, qremoving, rm>>

(* handle_cmd_status reads the device, and drops its reference whether or  *)
(* not the reply is sent.                                                  *)
handle_cmd_status ==
    /\ nl.pc = "status"
    /\ nl' = [nl EXCEPT !.pc = "put"]
    /\ UNCHANGED <<env, dvars, queued, wpc, uvars, qremoving, rm, oops>>

-----------------------------------------------------------------------------
(* ubbd_add_disk_fn on ubbd_wq. *)
add_disk_fn_start(d) ==
    /\ d \in queued /\ wpc[d] = "idle"
    /\ ubbd_dev_state_get_lock(d)
    /\ queued' = queued \ {d}
    /\ \/ /\ status[d] = "PREPARED"
          /\ intrans' = [intrans EXCEPT ![d] = TRUE]
          /\ wpc' = [wpc EXCEPT ![d] = "add"]
       \/ /\ status[d] # "PREPARED"
          /\ wpc' = [wpc EXCEPT ![d] = "fail"]
          /\ UNCHANGED intrans
    /\ UNCHANGED <<env, mem, status, kref, disk, gendisk, listed, ubbd_total_devs,
                   uvars, qremoving, nl, rm, oops>>

(* ubbd_add_disk: the disk becomes visible and its partitions are scanned, *)
(* for which the block layer opens the disk (ubbd_open); or it fails.      *)
ubbd_add_disk(d) ==
    /\ wpc[d] = "add"
    /\ \/ /\ disk[d] = "NULL"
          /\ oops' = TRUE
          /\ UNCHANGED <<gendisk, wpc, kref>>
       \/ /\ disk[d] # "NULL"
          /\ gendisk' = [gendisk EXCEPT ![d] = "live"]
          /\ wpc' = [wpc EXCEPT ![d] = "scan"]
          /\ ubbd_dev_get(d)
          /\ UNCHANGED oops
       \/ /\ disk[d] # "NULL"
          /\ wpc' = [wpc EXCEPT ![d] = "fail"]
          /\ UNCHANGED <<gendisk, kref, oops>>
    /\ UNCHANGED <<env, mem, status, intrans, disk, listed, ubbd_total_devs, queued,
                   uvars, qremoving, nl, rm>>

(* The read of the partition table is submitted, or fails on a queue that  *)
(* is being removed.                                                       *)
scan_submit(d) ==
    /\ wpc[d] = "scan"
    /\ \/ /\ qremoving[d] = "no"
          /\ wpc' = [wpc EXCEPT ![d] = "io"]
          /\ UNCHANGED <<kref, mem>>
       \/ /\ qremoving[d] # "no"
          /\ wpc' = [wpc EXCEPT ![d] = "done"]
          /\ ubbd_dev_put(d)
    /\ UNCHANGED <<env, status, intrans, disk, gendisk, listed, ubbd_total_devs,
                   queued, uvars, qremoving, nl, rm, oops>>

(* The read ends: the device is closed again. *)
scan_end(d) ==
    /\ wpc[d] = "io"
    /\ wpc' = [wpc EXCEPT ![d] = "done"]
    /\ ubbd_dev_put(d)
    /\ UNCHANGED <<env, status, intrans, disk, gendisk, listed, ubbd_total_devs,
                   queued, uvars, qremoving, nl, rm, oops>>

(* The backend has answered it.  The completion of a queue that is being   *)
(* removed is ignored.                                                     *)
scan_answered(d) == qremoving[d] = "no" /\ scan_end(d)

(* A forced removal has ended it. *)
scan_aborted(d) == qremoving[d] = "forced" /\ scan_end(d)

(* Mutant: INTRANS stays set when add_disk fails. *)
Bug_add_disk_fn_out(d) ==
    /\ wpc[d] \in {"done", "fail"}
    /\ intrans' = [intrans EXCEPT ![d] = @ /\ wpc[d] = "fail"]
    /\ status' = IF wpc[d] = "done" THEN [status EXCEPT ![d] = "RUNNING"] ELSE status
    /\ wpc' = [wpc EXCEPT ![d] = "put"]
    /\ UNCHANGED <<env, mem, kref, disk, gendisk, listed, ubbd_total_devs, queued,
                   uvars, qremoving, nl, rm, oops>>

(* The out label of ubbd_add_disk_fn. *)
add_disk_fn_out(d) ==
    /\ wpc[d] \in {"done", "fail"}
    /\ intrans' = [intrans EXCEPT ![d] = FALSE]
    /\ status' = IF wpc[d] = "done" THEN [status EXCEPT ![d] = "RUNNING"] ELSE status
    /\ wpc' = [wpc EXCEPT ![d] = "put"]
    /\ UNCHANGED <<env, mem, kref, disk, gendisk, listed, ubbd_total_devs, queued,
                   uvars, qremoving, nl, rm, oops>>

add_disk_fn_put(d) ==
    /\ wpc[d] = "put"
    /\ wpc' = [wpc EXCEPT ![d] = "idle"]
    /\ ubbd_dev_put(d)
    /\ UNCHANGED <<env, status, intrans, disk, gendisk, listed, ubbd_total_devs,
                   queued, uvars, qremoving, nl, rm, oops>>

-----------------------------------------------------------------------------
(* handle_cmd_remove_disk refuses an open device unless forced. *)
handle_cmd_remove_disk(force) ==
    /\ nl.pc = "remove_disk"
    /\ \/ /\ ~force /\ open_count(nl.d) > 0
          /\ nl' = [nl EXCEPT !.pc = "put"]
          /\ UNCHANGED rm
       \/ /\ force \/ open_count(nl.d) = 0
          /\ nl' = [nl EXCEPT !.pc = "wait"]
          /\ rm' = [rm EXCEPT !["netlink"] = [pc |-> "queues", d |-> nl.d, force |-> force]]
    /\ UNCHANGED <<env, dvars, queued, wpc, uvars, qremoving, oops>>

(* A request of an opener times out, once add_disk_fn has set io_timeout.  *)
(* ubbd_timeout holds no reference on the device.                          *)
ubbd_timeout(d) ==
    /\ "timeout" \in env
    /\ rm["timeout"].pc = "idle"
    /\ opens[d] > 0
    /\ status[d] = "RUNNING" \/ wpc[d] = "done"
    /\ rm' = [rm EXCEPT !["timeout"] = [pc |-> "queues", d |-> d, force |-> TRUE]]
    /\ UNCHANGED <<env, dvars, queued, wpc, uvars, qremoving, nl, oops>>

(* ubbd_dev_remove_disk: ubbd_dev_remove_queues ...                        *)
remove_queues(m) ==
    LET d == rm[m].d IN
    /\ rm[m].pc = "queues"
    /\ qremoving' = [qremoving EXCEPT ![d] =
          IF rm[m].force \/ @ = "forced" THEN "forced" ELSE "unforced"]
    /\ rm' = [rm EXCEPT ![m].pc = "lock"]
    /\ UNCHANGED <<env, dvars, queued, wpc, uvars, nl, oops>>

(* ... the status, under ubbd_dev_state_get_lock ...                       *)
remove_status(m) ==
    LET d == rm[m].d IN
    /\ rm[m].pc = "lock"
    /\ ubbd_dev_state_get_lock(d)
    /\ status' = [status EXCEPT ![d] = "REMOVING"]
    /\ rm' = [rm EXCEPT ![m].pc = IF status[d] = "RUNNING" THEN "del" ELSE "end"]
    /\ UNCHANGED <<env, mem, intrans, kref, disk, gendisk, listed, ubbd_total_devs,
                   queued, wpc, uvars, qremoving, nl, oops>>

(* ... and, if the disk was running, del_gendisk after the unlock.         *)
del_gendisk(m) ==
    LET d == rm[m].d IN
    /\ rm[m].pc = "del"
    /\ \/ /\ disk[d] = "NULL"
          /\ oops' = TRUE
          /\ UNCHANGED <<gendisk, rm>>
       \/ /\ disk[d] # "NULL"
          /\ gendisk' = [gendisk EXCEPT ![d] = "dead"]
          /\ rm' = [rm EXCEPT ![m].pc = "end"]
          /\ UNCHANGED oops
    /\ UNCHANGED <<env, mem, status, intrans, kref, disk, listed, ubbd_total_devs,
                   queued, wpc, uvars, qremoving, nl>>

remove_disk_end(m) ==
    /\ rm[m].pc = "end"
    /\ rm' = [rm EXCEPT ![m] = IdleRm]
    /\ nl' = IF m = "netlink" THEN [nl EXCEPT !.pc = "put"] ELSE nl
    /\ UNCHANGED <<env, dvars, queued, wpc, uvars, qremoving, oops>>

-----------------------------------------------------------------------------
(* ubbd_open: the block layer opens a gendisk that is live. *)
ubbd_open(d) ==
    /\ gendisk[d] = "live"
    /\ opens[d] < MaxOpens
    /\ oops' = (mem[d] # "alloc")
    /\ ubbd_dev_get(d)
    /\ opens' = [opens EXCEPT ![d] = @ + 1]
    /\ UNCHANGED <<env, mem, status, intrans, disk, gendisk, listed, ubbd_total_devs,
                   queued, wpc, maps, qremoving, nl, rm>>

ubbd_release(d) ==
    /\ opens[d] > 0
    /\ opens' = [opens EXCEPT ![d] = @ - 1]
    /\ ubbd_dev_put(d)
    /\ UNCHANGED <<env, status, intrans, disk, gendisk, listed, ubbd_total_devs,
                   queued, wpc, maps, qremoving, nl, rm, oops>>

(* ubbd_kring_dev_mmap and ubbd_vma_open: the kring devices exist until    *)
(* ubbd_dev_destroy unregisters them.                                      *)
ubbd_vma_open(d) ==
    /\ mem[d] = "alloc" \/ (mem[d] = "dying" /\ "late_mmap" \in env)
    /\ maps[d] < MaxMaps
    /\ oops' = (mem[d] = "dying")
    /\ ubbd_dev_get(d)
    /\ maps' = [maps EXCEPT ![d] = @ + 1]
    /\ UNCHANGED <<env, mem, status, intrans, disk, gendisk, listed, ubbd_total_devs,
                   queued, wpc, opens, qremoving, nl, rm>>

ubbd_vma_close(d) ==
    /\ maps[d] > 0
    /\ maps' = [maps EXCEPT ![d] = @ - 1]
    /\ ubbd_dev_put(d)
    /\ UNCHANGED <<env, status, intrans, disk, gendisk, listed, ubbd_total_devs,
                   queued, wpc, opens, qremoving, nl, rm, oops>>

-----------------------------------------------------------------------------
Netlink ==
    \/ ubbd_dev_add_dev \/ reply_add_dev \/ handle_cmd_put \/ ubbd_dev_add_disk
    \/ ubbd_dev_remove_dev \/ remove_dev_put \/ ubbd_dev_config
    \/ handle_cmd_status
    \/ \E force \in Forces : handle_cmd_remove_disk(force)

AddDiskWork(d) ==
    \/ add_disk_fn_start(d) \/ ubbd_add_disk(d) \/ scan_submit(d) \/ scan_aborted(d)
    \/ add_disk_fn_out(d) \/ add_disk_fn_put(d)

RemoveDisk(m) ==
    remove_queues(m) \/ remove_status(m) \/ del_gendisk(m) \/ remove_disk_end(m)

(* Nothing is said of what follows an oops. *)
Next ==
    /\ ~oops
    /\ \/ Netlink
       \/ \E d \in Devs : ubbd_dev_create(d) \/ AddDiskWork(d) \/ ubbd_dev_destroy(d)
                          \/ scan_answered(d)
       \/ \E d \in Devs, cmd \in Commands : find_ubbd_dev(d, cmd)
       \/ \E m \in Removers : RemoveDisk(m)
       \/ \E d \in Devs : ubbd_timeout(d) \/ ubbd_open(d) \/ ubbd_release(d)
                          \/ ubbd_vma_open(d) \/ ubbd_vma_close(d)

Spec == Init /\ [][Next]_vars

(* Threads of the kernel run when they can.  The busy wait for INTRANS in  *)
(* ubbd_dev_state_get_lock gets the mutex again and again (SF).  Of the    *)
(* backend nothing is assumed: it may never answer (scan_answered).        *)
Fairness ==
    /\ SF_vars(Netlink)
    /\ \A d \in Devs : SF_vars(AddDiskWork(d)) /\ WF_vars(ubbd_dev_destroy(d))
    /\ \A m \in Removers : SF_vars(RemoveDisk(m))

FairSpec == Spec /\ Fairness

-----------------------------------------------------------------------------
One(b) == IF b THEN 1 ELSE 0

(* The references on device d that somebody will drop: the first one, that *)
(* of a netlink command, of the queued and of the running add_disk work,   *)
(* of the openers and of the mappings.                                     *)
References(d) ==
    One(d \in listed \/ (nl.d = d /\ nl.pc \in {"setup", "drop"}))
        + One(nl.d = d /\ nl.pc \in Commands \cup {"wait", "drop", "put"})
        + One(d \in queued) + One(wpc[d] # "idle") + open_count(d) + maps[d]

(* The reference count is exact on every path: it is the number of         *)
(* references that are still to be dropped, so the device is destroyed     *)
(* when the last one goes, not earlier and not never.                      *)
KrefExact ==
    ~oops => \A d \in Devs : /\ kref[d] = References(d)
                             /\ mem[d] = "alloc" <=> kref[d] > 0

(* The removal that a timeout has started is past the unlock of the state  *)
(* and has still to delete the gendisk.                                    *)
TimeoutDeletes(d) == rm["timeout"].pc = "del" /\ rm["timeout"].d = d

(* A gendisk that can be opened belongs to a device that is listed, whose  *)
(* memory is there and whose disk pointer is set: INTRANS keeps            *)
(* ubbd_dev_remove_dev and ubbd_dev_remove_disk out while add_disk makes   *)
(* the disk visible.  The exception is the removal by a timeout: a         *)
(* REMOVE_DEV may get in between its unlock and its del_gendisk, and       *)
(* leaves a disk that can still be opened.                                 *)
LiveDiskHasDevice ==
    \A d \in Devs :
        /\ gendisk[d] = "live" /\ ~TimeoutDeletes(d) =>
              d \in listed /\ mem[d] = "alloc" /\ disk[d] # "NULL"
        /\ status[d] = "RUNNING" \/ Scanning(d) => gendisk[d] = "live" /\ disk[d] # "NULL"
        /\ Scanning(d) => intrans[d] /\ d \in listed

(* No handler uses a disk, a device or a work item that is not there, as   *)
(* long as the environment stays clear of the first four Races.            *)
NoOops == env \subseteq {"limits"} => ~oops

(* A device that is gone took its gendisk along: every path to             *)
(* ubbd_dev_destroy has freed the disk, failures in ADD_DEV included, and  *)
(* a gendisk that was added has been deleted before, unless a timeout has  *)
(* still to do it.                                                         *)
DiskFreedWithDevice ==
    ~oops /\ "limits" \notin env =>
        \A d \in Devs : mem[d] # "alloc" =>
            disk[d] = "NULL" /\ (gendisk[d] = "none" \/ TimeoutDeletes(d))

(* A device that is being removed never runs again: the work that adds the *)
(* disk cannot overwrite REMOVING.                                         *)
RemovingStays ==
    [][\A d \in Devs :
          status[d] = "REMOVING" /\ mem[d] = "alloc" => status'[d] = "REMOVING"]_vars

(* Every netlink command returns and every add_disk work ends, although    *)
(* the command waits for the work to clear INTRANS while the work waits    *)
(* for a request, and netlink handles no other command meanwhile; unless   *)
(* from some time on a read of the partition scan is never ended.  Nothing *)
(* but the backend ends it: its timeout is UINT_MAX until add_disk is over *)
(* (ubbd_add_disk_fn), which __timeout answers by starting the timer anew, *)
(* and the forced removal that would abort it cannot be sent while a       *)
(* command waits.  With an unforced removal not even the backend ends it.  *)
CommandsReturn ==
    LET Unanswered == \E d \in Devs : [](wpc[d] = "io") IN
    /\ env = {} /\ nl.pc # "idle" ~> nl.pc = "idle" \/ Unanswered
    /\ \A d \in Devs : env = {} /\ d \in queued ~> d \notin queued \/ Unanswered
    /\ \A d \in Devs : env = {} /\ wpc[d] # "idle" ~> wpc[d] = "idle" \/ Unanswered

=============================================================================
