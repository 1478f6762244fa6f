------------------------------ MODULE UbbdSetup ------------------------------
(***************************************************************************)
(* What is set up and torn down: the registrations of the module by        *)
(* __ubbd_init and __ubbd_exit, the creation of a device with its queues,  *)
(* kring devices and debugfs files by ADD_DEV, and its destruction; every  *)
(* allocation and registration a step that can fail, in the order of the   *)
(* code.                                                                   *)
(*                                                                         *)
(* Three kinds of threads meet here: the one that loads or unloads the     *)
(* module, the netlink handler (one at a time), and whoever drops the last *)
(* reference of a device: the handler, a work on ubbd_wq, or the close of  *)
(* a file.  Two devices can be on their way in and out at once.            *)
(***************************************************************************)
EXTENDS UbbdReply, Sequences

CONSTANTS
    Devs,        \* devices, as objects in memory
    NumQueues,   \* add_opts->num_queues
    Cpus,        \* the CPUs present
    MaxFiles,    \* bound: open files that hold a reference on a device
    Envs,        \* the environments considered: sets of Races
    NoDev,       \* no device
    NoId         \* no id, no minor

(* Behaviours of the environment that the code does not guard against.     *)
(* early_mmap: a process maps the rings of a queue before ADD_DEV is done. *)
(* late_show: the name attribute of a kring device is read between the     *)
(* kfree of the name and the unregistration.                               *)
(* init_window: ADD_DEV is handled while the module is being loaded and    *)
(* root_device_register has failed.                                        *)
(* exit_window: ADD_DEV is handled while the module is being unloaded: the *)
(* handler holds no reference on it before __module_get.                   *)
Races == {"early_mmap", "late_show", "init_window", "exit_window"}

ASSUME SetupAssumption ==
    /\ NumQueues \in Nat \ {0} /\ MaxFiles \in Nat
    /\ Envs # {} /\ Envs \subseteq SUBSET Races
    /\ NoDev \notin Devs /\ NoId \notin Nat

VARIABLES
    env,       \* the Races that happen in this behaviour
    mpc,       \* the module: load, undo (a failed load), live, exit, gone
    todo,      \* what the thread at mpc has still to register or to release
    up,        \* what is registered for the module
    root,      \* ubbd_kring_root_device: NULL, ok or err (an ERR_PTR)
    modref,    \* references on the module
    nl,        \* the netlink handler: where it is, for which device and queue
    mem,       \* devices whose memory is allocated
    kref,      \* ubbd_dev->kref
    id,        \* ubbd_dev->dev_id
    ubbd_dev_id_ida,  \* ids in use
    queue,     \* queue[o][q]: struct ubbd_queue
    listed,    \* devices on ubbd_dev_list
    ubbd_kring_idr,   \* minors in use
    sysfs,     \* <<o, q>>: kring devices that are added
    debugfs,   \* devices that have their debugfs files
    work,      \* devices with a work on ubbd_wq, which holds a reference
    files,     \* files[o]: mappings and debugfs files, which hold references
    del,       \* del[o]: the destruction of o
    oops       \* something that is not there was used or released

module == <<mpc, todo, up, root>>
object == <<mem, id, ubbd_dev_id_ida, queue, ubbd_kring_idr, sysfs, debugfs>>
vars == <<env, module, modref, nl, object, kref, listed, work, files, del, oops>>

Queues == 0 .. NumQueues - 1
Lowest(free) == CHOOSE i \in free : \A j \in free : i <= j
Ids == 0 .. Cardinality(Devs) - 1
Minors == 0 .. Cardinality(Devs) * NumQueues - 1

(* kcalloc *)
ZeroQueue == [bitmap |-> FALSE, sb |-> FALSE, name |-> "NULL", ubbd_kring_dev |-> FALSE,
              info |-> FALSE, minor |-> NoId, ready |-> FALSE]

IdleNl == [pc |-> "idle", o |-> NoDev, q |-> 0]
NoDel == [pc |-> "no", q |-> 0, by |-> "netlink", whole |-> FALSE]

(* ubbd_init_queue_cpumask, for the queue mq_map that blk-mq gives to each *)
(* CPU.                                                                    *)
cpumask(mq_map) == [q \in Queues |-> {c \in Cpus : mq_map[c] = q}]

-----------------------------------------------------------------------------
(* The order of __ubbd_init, with ubbd_kring_major_init and                *)
(* init_ubbd_kring_class in it ...                                         *)
InitOrder == <<"wq", "blkdev", "genl", "region", "cdev", "class", "root", "debugfs">>

(* ... the labels that a failure goes to ...                               *)
err_out_wq == <<"wq">>
err_out_blkdev == <<"blkdev">> \o err_out_wq
err_out_genl == <<"genl">> \o err_out_blkdev
ubbd_kring_major_cleanup == <<"region", "cdev">>

release_ubbd_kring_class == <<"class">> \o ubbd_kring_major_cleanup

(* Mutant: a failure of init_ubbd_kring_class skips                        *)
(* ubbd_kring_major_cleanup.                                               *)
Bug_OnFailure ==
    [wq |-> <<>>, blkdev |-> err_out_wq, genl |-> err_out_blkdev,
     region |-> err_out_genl, cdev |-> <<"region">> \o err_out_genl,
     class |-> err_out_genl,
     root |-> release_ubbd_kring_class \o <<"idr">> \o err_out_genl]

OnFailure ==
    [wq |-> <<>>, blkdev |-> err_out_wq, genl |-> err_out_blkdev,
     region |-> err_out_genl, cdev |-> <<"region">> \o err_out_genl,
     class |-> ubbd_kring_major_cleanup \o err_out_genl,
     root |-> release_ubbd_kring_class \o <<"idr">> \o err_out_genl]

(* ... and the order of __ubbd_exit.                                       *)
ExitOrder ==
    <<"debugfs", "ida", "genl", "root", "blkdev", "wq">>
        \o release_ubbd_kring_class \o <<"idr">>

Init ==
    /\ env \in Envs
    /\ mpc = "load" /\ todo = InitOrder /\ up = {} /\ root = "NULL" /\ modref = 0
    /\ nl = IdleNl
    /\ mem = {} /\ kref = [o \in Devs |-> 0]
    /\ id = [o \in Devs |-> NoId] /\ ubbd_dev_id_ida = {}
    /\ queue = [o \in Devs |-> [q \in Queues |-> ZeroQueue]]
    /\ listed = {} /\ ubbd_kring_idr = {} /\ sysfs = {} /\ debugfs = {}
    /\ work = {} /\ files = [o \in Devs |-> 0]
    /\ del = [o \in Devs |-> NoDel]
    /\ oops = FALSE

-----------------------------------------------------------------------------
(* A step of __ubbd_init succeeds ...                                      *)
register ==
    /\ mpc = "load" /\ todo # <<>>
    /\ up' = up \cup {Head(todo)}
    /\ root' = IF Head(todo) = "root" THEN "ok" ELSE root
    /\ todo' = Tail(todo)
    /\ mpc' = IF Len(todo) = 1 THEN "live" ELSE "load"
    /\ UNCHANGED <<env, modref, nl, object, kref, listed, work, files, del,
                   oops>>

(* ... or fails, all but ubbd_debugfs_init.                                *)
register_fails ==
    /\ mpc = "load" /\ todo # <<>>
    /\ Head(todo) \in DOMAIN OnFailure
    /\ mpc' = "undo"
    /\ todo' = OnFailure[Head(todo)]
    /\ root' = IF Head(todo) = "root" THEN "err" ELSE root
    /\ UNCHANGED <<env, up, modref, nl, object, kref, listed, work, files, del,
                   oops>>

(* The steps of ADD_DEV before __module_get. *)
Uncounted == {"id", "bitmap", "sb", "name", "minor", "add", "init", "wq"}

(* rmmod, of a module without references. *)
ubbd_exit ==
    /\ mpc = "live" /\ modref = 0
    /\ nl.pc \in Uncounted => "exit_window" \in env
    /\ mpc' = "exit" /\ todo' = ExitOrder
    /\ UNCHANGED <<env, up, root, modref, nl, object, kref, listed, work, files,
                   del, oops>>

(* genl_unregister_family waits for the handler that runs, and             *)
(* destroy_workqueue for the works.                                        *)
CanRelease(r) ==
    /\ r = "genl" => nl.pc = "idle"
    /\ r = "wq" => work = {}

release ==
    /\ mpc \in {"undo", "exit"} /\ todo # <<>>
    /\ LET r == Head(todo) IN
       /\ CanRelease(r)
       /\ up' = up \ {r}
       /\ ubbd_dev_id_ida' = IF r = "ida" THEN {} ELSE ubbd_dev_id_ida
       /\ ubbd_kring_idr' = IF r = "idr" THEN {} ELSE ubbd_kring_idr
       /\ oops' = (r \notin up \cup {"ida", "idr"})
    /\ todo' = Tail(todo)
    /\ UNCHANGED <<env, mpc, root, modref, nl, mem, id, queue, sysfs, debugfs,
                   kref, listed, work, files, del>>

(* The memory of the module is freed. *)
module_free ==
    /\ mpc \in {"undo", "exit"} /\ todo = <<>>
    /\ mpc' = "gone"
    /\ UNCHANGED <<env, todo, up, root, modref, nl, object, kref, listed, work,
                   files, del, oops>>

-----------------------------------------------------------------------------
(* ADD_DEV: __ubbd_dev_create. *)
handle_cmd_add_dev(o) ==
    /\ nl.pc = "idle" /\ "genl" \in up
    /\ mpc = "exit" => "exit_window" \in env
    /\ o \notin mem /\ del[o].pc = "no"
    /\ mem' = mem \cup {o}
    /\ kref' = [kref EXCEPT ![o] = 1]
    /\ nl' = [pc |-> "id", o |-> o, q |-> 0]
    /\ UNCHANGED <<env, module, modref, id, ubbd_dev_id_ida, queue,
                   ubbd_kring_idr, sysfs, debugfs, listed, work, files, del,
                   oops>>

(* ida_alloc_range. *)
create_id ==
    /\ nl.pc = "id"
    /\ LET i == Lowest(Ids \ ubbd_dev_id_ida) IN
       /\ id' = [id EXCEPT ![nl.o] = i]
       /\ ubbd_dev_id_ida' = ubbd_dev_id_ida \cup {i}
    /\ nl' = [nl EXCEPT !.pc = "bitmap"]
    /\ UNCHANGED <<env, module, modref, mem, queue, ubbd_kring_idr, sysfs,
                   debugfs, kref, listed, work, files, del, oops>>

(* It fails: fail_ubbd_dev. *)
create_id_fails ==
    /\ nl.pc = "id"
    /\ mem' = mem \ {nl.o}
    /\ kref' = [kref EXCEPT ![nl.o] = 0]
    /\ nl' = IdleNl
    /\ UNCHANGED <<env, module, modref, id, ubbd_dev_id_ida, queue,
                   ubbd_kring_idr, sysfs, debugfs, listed, work, files, del,
                   oops>>

(* ubbd_queue_create sets field f of the queue and goes on. *)
CreateStep(from, to, f, v) ==
    /\ nl.pc = from
    /\ queue' = [queue EXCEPT ![nl.o][nl.q][f] = v]
    /\ nl' = [nl EXCEPT !.pc = to]
    /\ UNCHANGED <<env, module, modref, mem, id, ubbd_dev_id_ida,
                   ubbd_kring_idr, sysfs, debugfs, kref, listed, work, files,
                   del, oops>>

queue_bitmap == CreateStep("bitmap", "sb", "bitmap", TRUE)
ubbd_queue_sb_init == CreateStep("sb", "name", "sb", TRUE)
kring_name == CreateStep("name", "minor", "name", "alloc")

(* The first checks of __ubbd_kring_register_device. *)
register_allowed == "class" \in up /\ root # "NULL"

(* __ubbd_kring_register_device: the minor ...                             *)
ubbd_kring_get_minor ==
    /\ nl.pc = "minor"
    /\ register_allowed
    /\ root = "err" => "init_window" \in env
    /\ LET i == Lowest(Minors \ ubbd_kring_idr) IN
       /\ ubbd_kring_idr' = ubbd_kring_idr \cup {i}
       /\ queue' = [queue EXCEPT ![nl.o][nl.q].minor = i]
    /\ nl' = [nl EXCEPT !.pc = "add"]
    /\ UNCHANGED <<env, module, modref, mem, id, ubbd_dev_id_ida, sysfs,
                   debugfs, kref, listed, work, files, del, oops>>

(* ... and device_add, under the parent, after which the kring device can  *)
(* be opened.                                                              *)
kring_device_add ==
    /\ nl.pc = "add"
    /\ oops' = (root # "ok" \/ "class" \notin up)
    /\ sysfs' = sysfs \cup {<<nl.o, nl.q>>}
    /\ queue' = [queue EXCEPT ![nl.o][nl.q].ubbd_kring_dev = TRUE,
                              ![nl.o][nl.q].info = TRUE]
    /\ nl' = [nl EXCEPT !.pc = "init"]
    /\ UNCHANGED <<env, module, modref, mem, id, ubbd_dev_id_ida,
                   ubbd_kring_idr, debugfs, kref, listed, work, files, del>>

(* The rest of ubbd_queue_create: locks, list and status; the next queue.  *)
queue_init ==
    /\ nl.pc = "init"
    /\ queue' = [queue EXCEPT ![nl.o][nl.q].ready = TRUE]
    /\ nl' = IF nl.q + 1 < NumQueues
               THEN [nl EXCEPT !.pc = "bitmap", !.q = @ + 1]
               ELSE [nl EXCEPT !.pc = "wq"]
    /\ UNCHANGED <<env, module, modref, mem, id, ubbd_dev_id_ida,
                   ubbd_kring_idr, sysfs, debugfs, kref, listed, work, files,
                   del, oops>>

(* ubbd_dev_destroy_queues and the labels behind it in ubbd_dev_create,    *)
(* after a failure: whatever was created, the device goes.                 *)
Unwind(first) ==
    /\ nl' = [nl EXCEPT !.pc = "wait"]
    /\ del' = [del EXCEPT ![nl.o] =
                  [pc |-> first, q |-> 0, by |-> "netlink", whole |-> FALSE]]

(* kcalloc of the queues fails. *)
create_queues_fails ==
    /\ nl.pc = "bitmap" /\ nl.q = 0
    /\ Unwind("id")
    /\ UNCHANGED <<env, module, modref, object, kref, listed, work, files,
                   oops>>

(* A step of a queue fails, or alloc_workqueue does: device_add has given  *)
(* back the minor then.                                                    *)
queue_create_fails ==
    /\ nl.pc \in {"bitmap", "sb", "name", "minor", "add", "wq"}
    /\ Unwind("name")
    /\ \/ /\ nl.pc = "add"
          /\ ubbd_kring_idr' = ubbd_kring_idr \ {queue[nl.o][nl.q].minor}
          /\ queue' = [queue EXCEPT ![nl.o][nl.q].minor = NoId]
       \/ /\ nl.pc # "add"
          /\ UNCHANGED <<ubbd_kring_idr, queue>>
    /\ UNCHANGED <<env, module, modref, mem, id, ubbd_dev_id_ida, sysfs,
                   debugfs, kref, listed, work, files, oops>>

(* alloc_workqueue, __module_get and ubbd_debugfs_add_dev. *)
ubbd_debugfs_add_dev ==
    /\ nl.pc = "wq"
    /\ modref' = modref + 1
    /\ debugfs' = debugfs \cup {nl.o}
    /\ nl' = [nl EXCEPT !.pc = "setup"]
    /\ UNCHANGED <<env, module, mem, id, ubbd_dev_id_ida, queue, ubbd_kring_idr,
                   sysfs, kref, listed, work, files, del, oops>>

-----------------------------------------------------------------------------
(* kref_put; the last one enters ubbd_dev_destroy. *)
ubbd_dev_put(o, who) ==
    /\ kref' = [kref EXCEPT ![o] = @ - 1]
    /\ del' = IF kref[o] = 1
                THEN [del EXCEPT ![o] = [pc |-> "debugfs", q |-> 0, by |-> who, whole |-> TRUE]]
                ELSE del

(* The handler puts the device and returns, at once or after the           *)
(* destruction.                                                            *)
PutAndReturn(o) ==
    /\ ubbd_dev_put(o, "netlink")
    /\ nl' = IF kref[o] = 1 THEN [pc |-> "wait", o |-> o, q |-> 0] ELSE IdleNl

(* The rest of ubbd_dev_add_dev: ubbd_dev_device_setup, which maps the     *)
(* CPUs to queues, and the list; or err_dev_put.                           *)
ubbd_dev_add_dev ==
    /\ nl.pc = "setup"
    /\ \/ /\ listed' = listed \cup {nl.o}
          /\ nl' = [nl EXCEPT !.pc = "reply"]
          /\ UNCHANGED <<kref, del>>
       \/ /\ PutAndReturn(nl.o)
          /\ UNCHANGED listed
    /\ UNCHANGED <<env, module, modref, mem, id, ubbd_dev_id_ida, queue,
                   ubbd_kring_idr, sysfs, debugfs, work, files, oops>>

(* ubbd_nl_reply_add_dev_done succeeds ...                                 *)
ubbd_nl_reply_add_dev_done ==
    /\ nl.pc = "reply"
    /\ \E mq_map \in [Cpus -> Queues] :
          status_reply(cpumask(mq_map)) <= add_dev_room(cpumask(mq_map))
    /\ nl' = IdleNl
    /\ UNCHANGED <<env, module, modref, object, kref, listed, work, files, del,
                   oops>>

(* ... or does not, and the device is removed again.                       *)
err_remove_dev ==
    /\ nl.pc = "reply"
    /\ listed' = listed \ {nl.o}
    /\ PutAndReturn(nl.o)
    /\ UNCHANGED <<env, module, modref, object, work, files, oops>>

(* REMOVE_DEV drops the first reference. *)
handle_cmd_remove_dev(o) ==
    /\ nl.pc = "idle" /\ "genl" \in up
    /\ o \in listed
    /\ listed' = listed \ {o}
    /\ PutAndReturn(o)
    /\ UNCHANGED <<env, module, modref, object, work, files, oops>>

(* ADD_DISK queues a work that holds a reference ...                       *)
handle_cmd_add_disk(o) ==
    /\ nl.pc = "idle" /\ "genl" \in up
    /\ o \in listed \ work
    /\ kref' = [kref EXCEPT ![o] = @ + 1]
    /\ work' = work \cup {o}
    /\ UNCHANGED <<env, module, modref, nl, object, listed, files, del, oops>>

(* ... and ends by dropping it.                                            *)
add_disk_fn_put(o) ==
    /\ o \in work /\ del[o].pc = "no"
    /\ ubbd_dev_put(o, "work")
    /\ work' = IF kref[o] = 1 THEN work ELSE work \ {o}
    /\ UNCHANGED <<env, module, modref, nl, object, listed, files, oops>>

-----------------------------------------------------------------------------
(* The file operations of a module that is being unloaded are gone. *)
try_module_get == mpc # "exit"

(* ADD_DEV is not done with o. *)
Creating(o) == nl.o = o /\ nl.pc \in Uncounted
Unwinding(o) == del[o].pc # "no" /\ ~del[o].whole

(* A process opens and maps a kring device, whose locks it takes.  An mmap *)
(* after the last put is a matter of UbbdDev.                              *)
ubbd_kring_mmap(o, q) ==
    /\ <<o, q>> \in sysfs /\ queue[o][q].info
    /\ try_module_get
    /\ kref[o] > 0 /\ files[o] < MaxFiles
    /\ Creating(o) \/ Unwinding(o) => "early_mmap" \in env
    /\ oops' = ~queue[o][q].ready
    /\ kref' = [kref EXCEPT ![o] = @ + 1]
    /\ files' = [files EXCEPT ![o] = @ + 1]
    /\ modref' = modref + 1
    /\ UNCHANGED <<env, module, nl, object, listed, work, del>>

ubbd_dev_get_unless_zero(o) == kref[o] > 0

(* The open of a debugfs file, serialised with its removal. *)
debugfs_open(o) ==
    /\ o \in debugfs
    /\ try_module_get
    /\ files[o] < MaxFiles
    /\ ubbd_dev_get_unless_zero(o)
    /\ kref' = [kref EXCEPT ![o] = @ + 1]
    /\ files' = [files EXCEPT ![o] = @ + 1]
    /\ modref' = modref + 1
    /\ UNCHANGED <<env, module, nl, object, listed, work, del, oops>>

(* ubbd_vma_close or dev_attr_release, and the end of the file, which the  *)
(* destruction of the device may come before.                              *)
file_close(o) ==
    /\ files[o] > 0 /\ del[o].pc = "no"
    /\ files' = [files EXCEPT ![o] = @ - 1]
    /\ ubbd_dev_put(o, "file")
    /\ modref' = IF kref[o] = 1 THEN modref ELSE modref - 1
    /\ UNCHANGED <<env, module, nl, object, listed, work, oops>>

(* name_show reads the name under info_lock. *)
name_show(o, q) ==
    /\ <<o, q>> \in sysfs /\ queue[o][q].info
    /\ queue[o][q].name = "alloc" \/ "late_show" \in env
    /\ oops' = (queue[o][q].name # "alloc")
    /\ UNCHANGED <<env, module, modref, nl, object, kref, listed, work, files,
                   del>>

-----------------------------------------------------------------------------
DelGoto(o, to) == del' = [del EXCEPT ![o].pc = to]

(* ubbd_dev_destroy: ubbd_debugfs_remove_dev and destroy_workqueue ...     *)
ubbd_debugfs_remove_dev(o) ==
    /\ del[o].pc = "debugfs"
    /\ debugfs' = debugfs \ {o}
    /\ DelGoto(o, "name")
    /\ UNCHANGED <<env, module, modref, nl, mem, id, ubbd_dev_id_ida, queue,
                   ubbd_kring_idr, sysfs, kref, listed, work, files, oops>>

(* ... ubbd_dev_destroy_queues, for each of the num_queues queues:         *)
(* ubbd_queue_kring_destroy frees the name ...                             *)
ubbd_queue_kring_destroy(o) ==
    LET q == del[o].q IN
    /\ del[o].pc = "name"
    /\ queue' = [queue EXCEPT ![o][q].name = IF @ = "alloc" THEN "freed" ELSE @]
    /\ DelGoto(o, "info")
    /\ UNCHANGED <<env, module, modref, nl, mem, id, ubbd_dev_id_ida,
                   ubbd_kring_idr, sysfs, debugfs, kref, listed, work, files,
                   oops>>

(* Mutant: the kring device is taken to be there. *)
Bug_has_kring(o, q) == TRUE

(* The first check of ubbd_kring_unregister_device. *)
has_kring(o, q) == queue[o][q].ubbd_kring_dev

(* ... and unregisters the kring device, if there is one: info ...         *)
ubbd_kring_unregister_device(o) ==
    LET q == del[o].q IN
    /\ del[o].pc = "info"
    /\ \/ /\ has_kring(o, q)
          /\ queue' = [queue EXCEPT ![o][q].info = FALSE]
          /\ oops' = ~queue[o][q].info
          /\ DelGoto(o, "unreg")
       \/ /\ ~has_kring(o, q)
          /\ DelGoto(o, "mem")
          /\ UNCHANGED <<queue, oops>>
    /\ UNCHANGED <<env, module, modref, nl, mem, id, ubbd_dev_id_ida,
                   ubbd_kring_idr, sysfs, debugfs, kref, listed, work, files>>

(* Mutant: the minor is freed before the device. *)
Bug_device_unregister(o) ==
    /\ del[o].pc = "unreg"
    /\ DelGoto(o, "minor")
    /\ ubbd_kring_idr' = ubbd_kring_idr \ {queue[o][del[o].q].minor}
    /\ UNCHANGED <<env, module, modref, nl, mem, id, ubbd_dev_id_ida, queue,
                   sysfs, debugfs, kref, listed, work, files, oops>>

(* ... device_unregister, with which the name ubbd_kring<minor> goes ...   *)
device_unregister(o) ==
    /\ del[o].pc = "unreg"
    /\ sysfs' = sysfs \ {<<o, del[o].q>>}
    /\ DelGoto(o, "minor")
    /\ UNCHANGED <<env, module, modref, nl, mem, id, ubbd_dev_id_ida, queue,
                   ubbd_kring_idr, debugfs, kref, listed, work, files, oops>>

(* ... the minor ...                                                       *)
ubbd_kring_free_minor(o) ==
    LET q == del[o].q IN
    /\ del[o].pc = "minor"
    /\ ubbd_kring_idr' = ubbd_kring_idr \ {queue[o][q].minor}
    /\ queue' = [queue EXCEPT ![o][q].minor = NoId, ![o][q].ubbd_kring_dev = FALSE]
    /\ DelGoto(o, "mem")
    /\ UNCHANGED <<env, module, modref, nl, mem, id, ubbd_dev_id_ida, sysfs,
                   debugfs, kref, listed, work, files, oops>>

(* ... and the memory of the queue (ubbd_queue_sb_destroy, the pages and   *)
(* the bitmap if there is one); after the last queue their array.          *)
ubbd_queue_destroy(o) ==
    LET q == del[o].q IN
    /\ del[o].pc = "mem"
    /\ queue' = [queue EXCEPT ![o][q].bitmap = FALSE, ![o][q].sb = FALSE,
                              ![o][q].name = "NULL", ![o][q].ready = FALSE]
    /\ del' = [del EXCEPT ![o].pc = IF q + 1 < NumQueues THEN "name" ELSE "id",
                          ![o].q = IF q + 1 < NumQueues THEN q + 1 ELSE q]
    /\ UNCHANGED <<env, module, modref, nl, mem, id, ubbd_dev_id_ida,
                   ubbd_kring_idr, sysfs, debugfs, kref, listed, work, files,
                   oops>>

(* Mutant: the id is kept. *)
Bug_ida_free(o) ==
    /\ del[o].pc = "id"
    /\ id' = [id EXCEPT ![o] = NoId]
    /\ DelGoto(o, "free")
    /\ UNCHANGED <<env, module, modref, nl, mem, ubbd_dev_id_ida, queue,
                   ubbd_kring_idr, sysfs, debugfs, kref, listed, work, files,
                   oops>>

(* ida_free *)
ida_free(o) ==
    /\ del[o].pc = "id"
    /\ ubbd_dev_id_ida' = ubbd_dev_id_ida \ {id[o]}
    /\ id' = [id EXCEPT ![o] = NoId]
    /\ DelGoto(o, "free")
    /\ UNCHANGED <<env, module, modref, nl, mem, queue, ubbd_kring_idr, sysfs,
                   debugfs, kref, listed, work, files, oops>>

(* __ubbd_dev_free: a mapping that is there now refers to freed memory.    *)
ubbd_dev_free(o) ==
    /\ del[o].pc = "free"
    /\ oops' = (files[o] > 0)
    /\ mem' = mem \ {o}
    /\ kref' = [kref EXCEPT ![o] = 0]
    /\ DelGoto(o, IF del[o].whole THEN "put" ELSE "ret")
    /\ UNCHANGED <<env, module, modref, nl, id, ubbd_dev_id_ida, queue,
                   ubbd_kring_idr, sysfs, debugfs, listed, work, files>>

(* module_put, still in the code of the module ...                         *)
module_put(o) ==
    /\ del[o].pc = "put"
    /\ modref' = modref - 1
    /\ DelGoto(o, "ret")
    /\ UNCHANGED <<env, module, nl, object, kref, listed, work, files, oops>>

(* ... and the return: the handler, the work or the file ends.             *)
destroy_return(o) ==
    /\ del[o].pc = "ret"
    /\ del' = [del EXCEPT ![o] = NoDel]
    /\ nl' = IF del[o].by = "netlink" THEN IdleNl ELSE nl
    /\ work' = IF del[o].by = "work" THEN work \ {o} ELSE work
    /\ modref' = IF del[o].by = "file" THEN modref - 1 ELSE modref
    /\ UNCHANGED <<env, module, object, kref, listed, files, oops>>

-----------------------------------------------------------------------------
Module == register \/ register_fails \/ ubbd_exit \/ release \/ module_free

Create ==
    \/ create_id \/ create_id_fails \/ create_queues_fails
    \/ queue_bitmap \/ ubbd_queue_sb_init \/ kring_name \/ ubbd_kring_get_minor
    \/ kring_device_add \/ queue_init \/ queue_create_fails \/ ubbd_debugfs_add_dev
    \/ ubbd_dev_add_dev \/ ubbd_nl_reply_add_dev_done \/ err_remove_dev

Destroy(o) ==
    \/ ubbd_debugfs_remove_dev(o) \/ ubbd_queue_kring_destroy(o)
    \/ ubbd_kring_unregister_device(o) \/ device_unregister(o) \/ ubbd_kring_free_minor(o)
    \/ ubbd_queue_destroy(o) \/ ida_free(o) \/ ubbd_dev_free(o) \/ module_put(o)
    \/ destroy_return(o)

Next ==
    /\ ~oops
    /\ \/ Module \/ Create
       \/ \E o \in Devs : \/ handle_cmd_add_dev(o) \/ handle_cmd_remove_dev(o)
                          \/ handle_cmd_add_disk(o) \/ add_disk_fn_put(o)
                          \/ debugfs_open(o) \/ file_close(o) \/ Destroy(o)
       \/ \E o \in Devs, q \in Queues : ubbd_kring_mmap(o, q) \/ name_show(o, q)

Spec == Init /\ [][Next]_vars

-----------------------------------------------------------------------------
(* No thread is in the code of the module for a device. *)
Quiet == nl.pc = "idle" /\ \A o \in Devs : del[o].pc = "no"

(* Nothing that is not there is used or released, without the Races: the   *)
(* labels of __ubbd_init and ubbd_dev_create release what was set up, also *)
(* where ubbd_dev_destroy_queues walks over queues that were never         *)
(* created, and an ADD_DEV that comes before the class is registered is    *)
(* turned away.                                                            *)
NoOops == env = {} => ~oops

(* A module that could not be loaded, or was unloaded, has left nothing    *)
(* behind, and no thread is in its code any more: not the one that put the *)
(* last device and with it the last reference on the module, either.       *)
NothingLeft ==
    mpc = "gone" /\ env = {} =>
        /\ Quiet /\ work = {} /\ modref = 0
        /\ up = {} /\ mem = {}
        /\ ubbd_dev_id_ida = {} /\ ubbd_kring_idr = {} /\ sysfs = {} /\ debugfs = {}

(* Between commands, what is allocated is exactly what the devices that    *)
(* are there need: an ADD_DEV that failed, at whatever step, has given     *)
(* everything back, and so has a device that was destroyed.                *)
Accounted ==
    env = {} /\ Quiet =>
        /\ debugfs = mem /\ sysfs = mem \X Queues
        /\ ubbd_dev_id_ida = {id[o] : o \in mem}
        /\ Cardinality(ubbd_dev_id_ida) = Cardinality(mem)
        /\ ubbd_kring_idr = {queue[x[1]][x[2]].minor : x \in sysfs}
        /\ \A o \in Devs \ mem, q \in Queues : queue[o][q] = ZeroQueue
        /\ modref = Cardinality(mem) + MapThenSumSet(LAMBDA o : files[o], Devs)

(* No two kring devices ever have the same name, nor two debugfs           *)
(* directories, although a device can be created while another one is      *)
(* destroyed: ids and minors are freed only after the names made of them   *)
(* (only ida_destroy, in an unload that meets an ADD_DEV, undoes that).    *)
NamesUnique ==
    "exit_window" \notin env =>
    /\ \A x, y \in sysfs :
          x # y => queue[x[1]][x[2]].minor # queue[y[1]][y[2]].minor
    /\ \A o, p \in debugfs : o # p => id[o] # id[p]

(* The replies to ADD_DEV, STATUS and LIST fit in the room their handlers  *)
(* computed for them, whichever queues have how many CPUs: the fill        *)
(* functions would use a nest that could not be started.                   *)
ReplyFits ==
    /\ nl.pc = "reply" =>
          \A mq_map \in [Cpus -> Queues] :
              /\ status_reply(cpumask(mq_map)) <= add_dev_room(cpumask(mq_map))
              /\ status_reply(cpumask(mq_map)) <= status_room(cpumask(mq_map))
    /\ list_reply(listed) <= list_room(listed)

=============================================================================
