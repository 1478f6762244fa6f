---------------------------- MODULE UbbdDevProofs ----------------------------
(***************************************************************************)
(* Proofs about the life of a device: for every number of devices, openers *)
(* and mappings, and every environment.                                    *)
(***************************************************************************)
EXTENDS UbbdDev, TLAPS

NlPlaces == Commands \cup {"idle", "setup", "reply", "undo", "wait", "drop", "put"}
NlRecord == [pc : NlPlaces, d : Devs \cup {NoDev}]
RmRecord == [pc : {"idle", "queues", "lock", "del", "end"},
             d : Devs \cup {NoDev}, force : BOOLEAN]

DevType ==
    /\ mem \in [Devs -> {"free", "alloc", "dying"}]
    /\ status \in [Devs -> {"INIT", "PREPARED", "RUNNING", "REMOVING"}]
    /\ intrans \in [Devs -> BOOLEAN]
    /\ kref \in [Devs -> Int]
    /\ disk \in [Devs -> {"NULL", "set"}]
    /\ gendisk \in [Devs -> {"none", "init", "live", "dead"}]
    /\ listed \subseteq Devs
    /\ queued \subseteq Devs
    /\ wpc \in [Devs -> {"idle", "add", "scan", "io", "done", "fail", "put"}]
    /\ opens \in [Devs -> Nat]
    /\ maps \in [Devs -> Nat]
    /\ nl \in NlRecord
    /\ rm \in [Removers -> RmRecord]

(* What the netlink command being handled may rely on. *)
Netlinking ==
    /\ nl.pc # "idle" => nl.d \in Devs
    /\ nl.pc = "setup" =>
          nl.d \notin listed /\ status[nl.d] = "INIT" /\ disk[nl.d] = "NULL"
    /\ nl.pc \in {"setup", "reply", "undo"} =>
          nl.d \notin queued /\ wpc[nl.d] = "idle"
    /\ nl.pc \in Commands \cup {"reply", "undo", "wait"} => nl.d \in listed
    /\ nl.pc = "drop" => nl.d \notin listed

(* The removals of disks.  That of a timeout has no reference: what keeps  *)
(* its device is that there has been no oops.                              *)
Removing ==
    /\ \A m \in Removers : rm[m].pc = "idle" <=> rm[m].d = NoDev
    /\ rm["netlink"].pc # "idle" => nl.pc = "wait" /\ nl.d = rm["netlink"].d
    /\ \A m \in Removers : rm[m].pc \in {"queues", "lock", "del"} =>
          mem[rm[m].d] # "free" /\ status[rm[m].d] # "INIT"
    /\ \A m \in Removers : rm[m].pc = "del" => status[rm[m].d] = "REMOVING"
    /\ "timeout" \notin env => rm["timeout"].pc = "idle"

(* The work that adds the disk, and the pointer to it. *)
Adding ==
    \A d \in Devs :
        /\ wpc[d] \in {"add", "scan", "io", "done"} => intrans[d] /\ status[d] = "PREPARED"
        /\ wpc[d] \in {"scan", "io", "done"} \/ status[d] = "RUNNING" => d \in listed
        /\ d \in listed => status[d] # "INIT" /\ disk[d] # "NULL"
        /\ disk[d] # "NULL" => d \in listed \/ (status[d] = "INIT" /\ "limits" \in env)

(* A removal has still to delete the gendisk. *)
Deleting(d) == \E m \in Removers : rm[m].pc = "del" /\ rm[m].d = d

(* The gendisk: it is live from add_disk until somebody deletes it, and    *)
(* only REMOVE_DEV before the del_gendisk of a timeout takes it from the   *)
(* device before that.                                                     *)
Visible ==
    \A d \in Devs :
        /\ wpc[d] \in {"scan", "io", "done"} \/ status[d] = "RUNNING" => gendisk[d] = "live"
        /\ gendisk[d] = "live" =>
              /\ wpc[d] \in {"scan", "io", "done"} \/ status[d] = "RUNNING" \/ Deleting(d)
              /\ d \in listed \/ TimeoutDeletes(d)
        /\ gendisk[d] # "none" => gendisk[d] = "live" \/ disk[d] # "NULL"

(* What the environment spares the code when repeat and early are out. *)
Spared ==
    /\ "repeat" \notin env => (nl.pc = "add_disk" => nl.d \notin queued)
    /\ "early" \notin env =>
          /\ nl.pc = "remove_dev" /\ status[nl.d] = "PREPARED" => nl.d \notin queued
          /\ \A d \in Devs : (d \in queued /\ status[d] = "PREPARED") \/ wpc[d] = "add"
                                => d \in listed

Counted ==
    \A d \in Devs : kref[d] = References(d) /\ (mem[d] = "alloc" <=> kref[d] > 0)

DevInv == DevType /\ Netlinking /\ Removing /\ Adding /\ Visible /\ Spared /\ Counted
SafeInv == ~oops => DevInv

-----------------------------------------------------------------------------
(* References are counted by a natural number. *)
LEMMA ReferencesNat ==
    ASSUME DevType, NEW d \in Devs
    PROVE  References(d) \in Nat
BY DEF DevType, References, One, open_count, Scanning

(* ubbd_dev_put drops one of the references that are counted. *)
LEMMA PutCounted ==
    ASSUME DevType, Counted, NEW d \in Devs, ubbd_dev_put(d), References(d) > 0,
           \A e \in Devs : References(e)' = IF e = d THEN References(e) - 1 ELSE References(e)
    PROVE  /\ Counted'
           /\ mem' \in [Devs -> {"free", "alloc", "dying"}] /\ kref' \in [Devs -> Int]
           /\ \A e \in Devs : mem'[e] = "free" <=> mem[e] = "free"
<1>1. mem' \in [Devs -> {"free", "alloc", "dying"}] /\ kref' \in [Devs -> Int]
    BY DEF DevType, ubbd_dev_put
<1>2. \A e \in Devs : mem'[e] = "free" <=> mem[e] = "free"
    BY Zenon DEF DevType, ubbd_dev_put, Counted
<1>3. Counted'
    <2> SUFFICES ASSUME NEW e \in Devs
                 PROVE kref'[e] = References(e)' /\ (mem'[e] = "alloc" <=> kref'[e] > 0)
        BY Zenon DEF Counted
    <2> QED BY ReferencesNat DEF DevType, ubbd_dev_put, Counted
<1> QED BY <1>1, <1>2, <1>3, Zenon

(* ubbd_dev_get on a device that somebody has a reference on. *)
LEMMA GetCounted ==
    ASSUME DevType, Counted, NEW d \in Devs, ubbd_dev_get(d), References(d) > 0,
           mem' = mem,
           \A e \in Devs : References(e)' = IF e = d THEN References(e) + 1 ELSE References(e)
    PROVE  Counted' /\ kref' \in [Devs -> Int]
<1>1. kref' \in [Devs -> Int]
    BY DEF DevType, ubbd_dev_get
<1>2. Counted'
    <2> SUFFICES ASSUME NEW e \in Devs
                 PROVE kref'[e] = References(e)' /\ (mem'[e] = "alloc" <=> kref'[e] > 0)
        BY Zenon DEF Counted
    <2> QED BY ReferencesNat DEF DevType, ubbd_dev_get, Counted
<1> QED BY <1>1, <1>2, Zenon

(* A step that moves no reference keeps the count. *)
LEMMA KeepCounted ==
    ASSUME Counted, kref' = kref, mem' = mem,
           \A e \in Devs : References(e)' = References(e)
    PROVE  Counted'
BY Zenon DEF Counted

(* A step that has nothing to do with the gendisk. *)
LEMMA VisibleKept ==
    ASSUME Visible, UNCHANGED <<status, disk, gendisk, listed, wpc, rm>>
    PROVE  Visible'
BY Zenon DEF Visible, Deleting, TimeoutDeletes

-----------------------------------------------------------------------------
(* ADD_DEV: the device that ubbd_dev_create makes has one reference, since *)
(* nothing refers to memory that is free.                                  *)
LEMMA CreateStep ==
    ASSUME DevInv, NEW d \in Devs, ubbd_dev_create(d)
    PROVE  DevInv'
<1> USE DEF DevInv
<1>1. nl' = [pc |-> "setup", d |-> d] /\ nl'.pc = "setup" /\ nl'.d = d
    BY Zenon DEF ubbd_dev_create
<1>2. References(d) = 0
    BY ReferencesNat DEF ubbd_dev_create, Counted
<1>3. d \notin listed /\ d \notin queued /\ wpc[d] = "idle" /\ opens[d] = 0 /\ maps[d] = 0
    BY <1>2 DEF References, One, open_count, Scanning, DevType
<1>4. DevType'
    BY <1>1 DEF ubbd_dev_create, DevType, NlRecord, NlPlaces, uvars
<1>5. Netlinking'
    BY <1>1, <1>3, Zenon DEF ubbd_dev_create, Netlinking, Commands, DevType
<1>6. Removing'
    BY <1>1 DEF ubbd_dev_create, Removing, DevType
<1>7. Adding'
    BY <1>3 DEF ubbd_dev_create, Adding, DevType
<1>8. Spared'
    BY <1>1, <1>3, Zenon DEF ubbd_dev_create, Spared, DevType
<1>9. Counted'
    <2> SUFFICES ASSUME NEW e \in Devs
                 PROVE kref'[e] = References(e)' /\ (mem'[e] = "alloc" <=> kref'[e] > 0)
        BY Zenon DEF Counted
    <2>1. CASE e = d
        BY <2>1, <1>1, <1>3 DEF ubbd_dev_create, References, One, open_count, Scanning,
            DevType, uvars, Commands
    <2>2. CASE e # d
        <3>1. References(e)' = References(e)
            BY <2>2, <1>1, Zenon DEF ubbd_dev_create, References, One, open_count, Scanning,
                DevType, uvars, Commands
        <3> QED BY <2>2, <3>1, Zenon DEF ubbd_dev_create, Counted, DevType
    <2> QED BY <2>1, <2>2, Zenon
<1>10. Visible'
    BY <1>3 DEF ubbd_dev_create, Visible, Deleting, TimeoutDeletes, Removing, DevType,
        Removers
<1> QED BY <1>4, <1>5, <1>6, <1>7, <1>8, <1>9, <1>10, Zenon

(* ubbd_dev_device_setup, or err_dev_put. *)
LEMMA AddDevStep ==
    ASSUME DevInv, ubbd_dev_add_dev
    PROVE  DevInv'
<1> USE DEF DevInv
<1> DEFINE d == nl.d
<1>1. d \in Devs /\ nl.pc = "setup" /\ d \notin listed /\ d \notin queued
      /\ wpc[d] = "idle" /\ status[d] = "INIT" /\ disk[d] = "NULL"
    BY Zenon DEF Netlinking, ubbd_dev_add_dev
<1>2. UNCHANGED <<env, intrans, queued, wpc, opens, maps, rm>>
    BY Zenon DEF ubbd_dev_add_dev, uvars
<1>3. CASE /\ ubbd_init_disk(d)
           /\ status' = [status EXCEPT ![d] = "PREPARED"]
           /\ listed' = listed \cup {d}
           /\ nl' = [nl EXCEPT !.pc = "reply"]
           /\ UNCHANGED <<mem, kref>>
    <2>1. nl' \in NlRecord /\ nl'.pc = "reply" /\ nl'.d = d
        BY <1>1, <1>3, Zenon DEF DevType, NlRecord, NlPlaces
    <2>2. DevType'
        BY <1>1, <1>2, <1>3, <2>1, Zenon DEF DevType, ubbd_init_disk
    <2>3. Netlinking'
        BY <1>1, <1>2, <1>3, <2>1 DEF Netlinking, Commands, DevType, ubbd_init_disk
    <2>4. Removing'
        BY <1>1, <1>2, <1>3, <2>1 DEF Removing, DevType
    <2>5. Adding'
        BY <1>1, <1>2, <1>3 DEF Adding, DevType, ubbd_init_disk
    <2>6. Spared'
        BY <1>1, <1>2, <1>3, <2>1, Zenon DEF Spared, DevType
    <2>7. \A e \in Devs : References(e)' = References(e)
        BY <1>1, <1>2, <1>3, <2>1, Zenon DEF References, One, open_count, Scanning, DevType, Commands
    <2>8. Counted'
        BY <1>3, <2>7, KeepCounted, Zenon
    <2>9. Visible'
        BY <1>1, <1>2, <1>3 DEF Visible, Deleting, TimeoutDeletes, ubbd_init_disk, DevType
    <2> QED BY <2>2, <2>3, <2>4, <2>5, <2>6, <2>8, <2>9, Zenon
<1>4. CASE /\ \/ UNCHANGED <<disk, gendisk>>
              \/ "limits" \in env /\ ubbd_init_disk(d)
           /\ nl' = IdleNl
           /\ ubbd_dev_put(d)
           /\ UNCHANGED <<status, listed>>
    <2>1. nl' \in NlRecord /\ nl'.pc = "idle" /\ nl'.d = NoDev
        BY <1>4, Zenon DEF NlRecord, NlPlaces, IdleNl
    <2>2. References(d) > 0
        BY <1>1 DEF References, One, open_count, Scanning, DevType
    <2>3. \A e \in Devs : References(e)' = IF e = d THEN References(e) - 1 ELSE References(e)
        BY <1>1, <1>2, <1>4, <2>1, DevAssumption
            DEF References, One, open_count, Scanning, DevType, Commands
    <2>4. /\ Counted'
          /\ mem' \in [Devs -> {"free", "alloc", "dying"}] /\ kref' \in [Devs -> Int]
          /\ \A e \in Devs : mem'[e] = "free" <=> mem[e] = "free"
        BY <1>1, <1>4, <2>2, <2>3, PutCounted, Zenon
    <2>5. DevType'
        BY <1>1, <1>2, <1>4, <2>1, <2>4, Zenon DEF DevType, ubbd_init_disk
    <2>6. Netlinking'
        BY <2>1, Zenon DEF Netlinking, Commands
    <2>7. Removing'
        <3>1. rm["netlink"].pc = "idle"
            BY <1>1, Zenon DEF Removing
        <3> QED BY <1>1, <1>2, <1>4, <2>4, <3>1 DEF Removing, DevType, RmRecord
    <2>8. Adding'
        BY <1>1, <1>2, <1>4 DEF Adding, DevType, ubbd_init_disk
    <2>9. Spared'
        BY <1>1, <1>2, <1>4, <2>1, Zenon DEF Spared, DevType
    <2>10. Visible'
        BY <1>1, <1>2, <1>4 DEF Visible, Deleting, TimeoutDeletes, ubbd_init_disk, DevType
    <2> QED BY <2>4, <2>5, <2>6, <2>7, <2>8, <2>9, <2>10, Zenon
<1> QED BY <1>3, <1>4, Zenon DEF ubbd_dev_add_dev

(* The reply to ADD_DEV, UBBD_DEV_CONFIG and the STATUS commands move only *)
(* the handler: the count and the device stay.                             *)
LEMMA HandlerStep ==
    ASSUME DevInv, reply_add_dev \/ ubbd_dev_config \/ handle_cmd_status
    PROVE  DevInv'
<1> USE DEF DevInv
<1>1. UNCHANGED <<env, mem, status, intrans, kref, disk, gendisk, listed, queued, wpc, opens, maps, rm>>
    BY Zenon DEF reply_add_dev, ubbd_dev_config, handle_cmd_status, dvars, uvars
<1>2. /\ nl' \in NlRecord
      /\ \/ nl.pc = "reply" /\ nl'.pc = "idle" /\ nl'.d = NoDev
         \/ nl.pc = "reply" /\ nl'.pc = "undo" /\ nl'.d = nl.d
         \/ nl.pc \in {"config", "status"} /\ nl'.pc = "put" /\ nl'.d = nl.d
    BY DEF reply_add_dev, ubbd_dev_config, handle_cmd_status, DevType, NlRecord, NlPlaces, IdleNl
<1>3. nl.d \in Devs /\ nl.d # NoDev
    BY <1>2, DevAssumption, Zenon DEF Netlinking
<1>4. DevType'
    BY <1>1, <1>2, Zenon DEF DevType
<1>5. Netlinking'
    BY <1>1, <1>2, <1>3, Zenon DEF Netlinking, Commands
<1>6. Removing'
    BY <1>1, <1>2, Zenon DEF Removing
<1>7. Adding' /\ Spared'
    BY <1>1, <1>2, Zenon DEF Adding, Spared
<1>8. \A e \in Devs : References(e)' = References(e)
    BY <1>1, <1>2, <1>3, DevAssumption
        DEF References, One, open_count, Scanning, DevType, Commands
<1>9. Counted'
    BY <1>1, <1>8, KeepCounted, Zenon
<1>10. Visible'
    BY <1>1, VisibleKept, Zenon
<1> QED BY <1>4, <1>5, <1>6, <1>7, <1>9, <1>10, Zenon

(* find_ubbd_dev takes a reference on a device that is listed. *)
LEMMA FindStep ==
    ASSUME DevInv, NEW d \in Devs, NEW cmd \in Commands, find_ubbd_dev(d, cmd)
    PROVE  DevInv'
<1> USE DEF DevInv
<1>1. /\ UNCHANGED <<env, mem, status, intrans, disk, gendisk, listed, queued, wpc, opens, maps, rm>>
      /\ d \in listed /\ nl.pc = "idle" /\ ubbd_dev_get(d)
    BY Zenon DEF find_ubbd_dev, uvars
<1>2. nl' \in NlRecord /\ nl'.pc = cmd /\ nl'.d = d
    BY Zenon DEF find_ubbd_dev, NlRecord, NlPlaces
<1>3. References(d) > 0
    BY <1>1 DEF References, One, open_count, Scanning, DevType
<1>4. \A e \in Devs : References(e)' = IF e = d THEN References(e) + 1 ELSE References(e)
    BY <1>1, <1>2 DEF References, One, open_count, Scanning, DevType, Commands
<1>5. Counted' /\ kref' \in [Devs -> Int]
    BY <1>1, <1>3, <1>4, GetCounted, Zenon
<1>6. DevType'
    BY <1>1, <1>2, <1>5, Zenon DEF DevType
<1>7. Netlinking'
    BY <1>1, <1>2, Zenon DEF Netlinking, Commands
<1>8. Removing'
    BY <1>1, Zenon DEF Removing
<1>9. Adding'
    BY <1>1, Zenon DEF Adding
<1>10. Spared'
    BY <1>1, <1>2, Zenon DEF Spared, find_ubbd_dev
<1>11. Visible'
    BY <1>1, VisibleKept, Zenon
<1> QED BY <1>5, <1>6, <1>7, <1>8, <1>9, <1>10, <1>11, Zenon

(* The end of a command, and the first reference of a removed device. *)
LEMMA NlPutStep ==
    ASSUME DevInv, handle_cmd_put \/ remove_dev_put
    PROVE  DevInv'
<1> USE DEF DevInv
<1> DEFINE d == nl.d
<1>1. /\ UNCHANGED <<env, status, intrans, disk, gendisk, listed, queued, wpc, opens, maps, rm>>
      /\ nl.pc \in {"put", "drop"} /\ ubbd_dev_put(d)
    BY Zenon DEF handle_cmd_put, remove_dev_put, uvars
<1>2. d \in Devs /\ d # NoDev
    BY <1>1, DevAssumption, Zenon DEF Netlinking
<1>3. /\ nl' \in NlRecord
      /\ \/ nl.pc = "put" /\ nl'.pc = "idle" /\ nl'.d = NoDev
         \/ nl.pc = "drop" /\ nl'.pc = "put" /\ nl'.d = d
    BY DEF handle_cmd_put, remove_dev_put, DevType, NlRecord, NlPlaces, IdleNl
<1>4. References(d) > 0
    BY <1>1, <1>2 DEF References, One, open_count, Scanning, DevType
<1>5. \A e \in Devs : References(e)' = IF e = d THEN References(e) - 1 ELSE References(e)
    BY <1>1, <1>2, <1>3, DevAssumption
        DEF References, One, open_count, Scanning, DevType, Commands, Netlinking
<1>6. /\ Counted'
      /\ mem' \in [Devs -> {"free", "alloc", "dying"}] /\ kref' \in [Devs -> Int]
      /\ \A e \in Devs : mem'[e] = "free" <=> mem[e] = "free"
    BY <1>1, <1>2, <1>4, <1>5, PutCounted, Zenon
<1>7. DevType'
    BY <1>1, <1>3, <1>6, Zenon DEF DevType
<1>8. Netlinking'
    BY <1>2, <1>3, Zenon DEF Netlinking, Commands
<1>9. Removing'
    BY <1>1, <1>6 DEF Removing, DevType, RmRecord
<1>10. Adding' /\ Spared'
    BY <1>1, <1>3, Zenon DEF Adding, Spared
<1>11. Visible'
    BY <1>1, VisibleKept, Zenon
<1> QED BY <1>6, <1>7, <1>8, <1>9, <1>10, <1>11, Zenon

(* ubbd_dev_add_disk takes the reference of the work it queues. *)
LEMMA QueueWorkStep ==
    ASSUME DevInv, ubbd_dev_add_disk, ~oops'
    PROVE  DevInv'
<1> USE DEF DevInv
<1> DEFINE d == nl.d
<1>1. /\ UNCHANGED <<env, mem, status, intrans, disk, gendisk, listed, wpc, opens, maps, rm>>
      /\ nl.pc = "add_disk"
    BY Zenon DEF ubbd_dev_add_disk, uvars
<1>2. d \in Devs /\ d \in listed
    BY <1>1, Zenon DEF Netlinking, Commands
<1>3. nl' \in NlRecord /\ nl'.pc = "put" /\ nl'.d = d
    BY Zenon DEF ubbd_dev_add_disk, DevType, NlRecord, NlPlaces
<1>4. queued' \subseteq Devs /\ \A e \in queued' : e \in queued \/ e = d
    BY <1>2, Zenon DEF ubbd_dev_add_disk, DevType
<1>5. Counted' /\ kref' \in [Devs -> Int]
    <2>1. CASE status[d] = "PREPARED"
        <3>1. ubbd_dev_get(d) /\ queued' = queued \cup {d} /\ d \notin queued
            BY <2>1, Zenon DEF ubbd_dev_add_disk
        <3>2. References(d) > 0
            BY <1>2 DEF References, One, open_count, Scanning, DevType
        <3>3. \A e \in Devs : References(e)' = IF e = d THEN References(e) + 1 ELSE References(e)
            BY <1>1, <1>2, <1>3, <3>1 DEF References, One, open_count, Scanning, DevType, Commands
        <3> QED BY <1>1, <1>2, <3>1, <3>2, <3>3, GetCounted, Zenon
    <2>2. CASE status[d] # "PREPARED"
        <3>1. UNCHANGED <<kref, queued>>
            BY <2>2, Zenon DEF ubbd_dev_add_disk
        <3>2. \A e \in Devs : References(e)' = References(e)
            BY <1>1, <1>2, <1>3, <3>1 DEF References, One, open_count, Scanning, DevType, Commands
        <3> QED BY <1>1, <3>1, <3>2, KeepCounted, Zenon DEF DevType
    <2> QED BY <2>1, <2>2, Zenon
<1>6. DevType'
    BY <1>1, <1>3, <1>4, <1>5, Zenon DEF DevType
<1>7. Netlinking'
    BY <1>2, <1>3, Zenon DEF Netlinking, Commands
<1>8. Removing'
    BY <1>1, Zenon DEF Removing
<1>9. Adding'
    BY <1>1, Zenon DEF Adding
<1>10. Spared'
    BY <1>1, <1>2, <1>3, <1>4, Zenon DEF Spared
<1>11. Visible'
    BY <1>1, VisibleKept, Zenon
<1> QED BY <1>5, <1>6, <1>7, <1>8, <1>9, <1>10, <1>11, Zenon

(* ubbd_dev_remove_dev: INTRANS keeps it away from a work that is adding   *)
(* the disk, and the reference of the list passes to the handler.          *)
LEMMA RemoveDevStep ==
    ASSUME DevInv, ubbd_dev_remove_dev
    PROVE  DevInv'
<1> USE DEF DevInv
<1> DEFINE d == nl.d
<1>1. /\ UNCHANGED <<env, mem, status, intrans, kref, queued, wpc, opens, maps, rm>>
      /\ nl.pc \in {"remove_dev", "undo"} /\ ~intrans[d]
    BY Zenon DEF ubbd_dev_remove_dev, ubbd_dev_state_get_lock, uvars
<1>2. d \in Devs /\ d \in listed /\ d # NoDev
    BY <1>1, DevAssumption, Zenon DEF Netlinking, Commands
<1>3. CASE status[d] \in {"REMOVING", "PREPARED"}
    <2>1. /\ listed' = listed \ {d} /\ disk' = [disk EXCEPT ![d] = "NULL"]
          /\ gendisk' = [gendisk EXCEPT ![d] = IF @ = "live" THEN @ ELSE "none"]
        BY <1>3, Zenon DEF ubbd_dev_remove_dev, Unlist, ubbd_free_disk
    <2>2. /\ nl' \in NlRecord /\ nl'.d = d
          /\ nl'.pc = IF nl.pc = "undo" THEN "put" ELSE "drop"
        BY <1>3, Zenon DEF ubbd_dev_remove_dev, DevType, NlRecord, NlPlaces
    <2>3. DevType'
        BY <1>1, <2>1, <2>2, Zenon DEF DevType
    <2>4. Netlinking'
        BY <1>2, <2>1, <2>2, Zenon DEF Netlinking, Commands
    <2>5. Removing'
        BY <1>1, <2>2, Zenon DEF Removing
    <2>6. Adding'
        BY <1>1, <1>2, <1>3, <2>1 DEF Adding, DevType
    <2>7. Spared'
        BY <1>1, <1>2, <2>1, <2>2, Zenon DEF Spared, Netlinking, Adding
    <2>8. \A e \in Devs : References(e)' = References(e)
        BY <1>1, <1>2, <2>1, <2>2 DEF References, One, open_count, Scanning, DevType, Commands
    <2>9. Counted'
        BY <1>1, <2>8, KeepCounted, Zenon
    <2>10. Visible'
        <3>1. gendisk[d] = "live" => TimeoutDeletes(d)
            <4>1. wpc[d] \notin {"scan", "io", "done"} /\ status[d] # "RUNNING"
                BY <1>1, <1>2, <1>3, Zenon DEF Adding
            <4>2. rm["netlink"].pc = "idle"
                BY <1>1, Zenon DEF Removing
            <4>3. gendisk[d] = "live" => Deleting(d)
                BY <1>2, <4>1, Zenon DEF Visible
            <4> QED BY <4>2, <4>3 DEF Deleting, TimeoutDeletes, Removers
        <3> QED BY <1>1, <1>2, <1>3, <2>1, <3>1 DEF Visible, Deleting, TimeoutDeletes, DevType
    <2> QED BY <2>3, <2>4, <2>5, <2>6, <2>7, <2>9, <2>10
<1>4. CASE status[d] \notin {"REMOVING", "PREPARED"}
    <2>1. UNCHANGED <<listed, disk, gendisk>>
        BY <1>4, Zenon DEF ubbd_dev_remove_dev
    <2>2. /\ nl' \in NlRecord
          /\ \/ nl.pc = "undo" /\ nl'.pc = "idle" /\ nl'.d = NoDev
             \/ nl.pc = "remove_dev" /\ nl'.pc = "put" /\ nl'.d = d
        BY <1>1, <1>4 DEF ubbd_dev_remove_dev, DevType, NlRecord, NlPlaces, IdleNl
    <2>3. DevType'
        BY <1>1, <2>1, <2>2, Zenon DEF DevType
    <2>4. Netlinking'
        BY <1>2, <2>2, Zenon DEF Netlinking, Commands
    <2>5. Removing'
        BY <1>1, <2>2, Zenon DEF Removing
    <2>6. Adding' /\ Spared'
        BY <1>1, <2>1, <2>2, Zenon DEF Adding, Spared
    <2>7. \A e \in Devs : References(e)' = References(e)
        BY <1>1, <1>2, <2>1, <2>2, DevAssumption
            DEF References, One, open_count, Scanning, DevType, Commands
    <2>8. Counted'
        BY <1>1, <2>7, KeepCounted
    <2>9. Visible'
        BY <1>1, <2>1, VisibleKept, Zenon
    <2> QED BY <2>3, <2>4, <2>5, <2>6, <2>8, <2>9, Zenon
<1> QED BY <1>3, <1>4, Zenon

-----------------------------------------------------------------------------
(* The add_disk work holds the disk open while it scans the partitions.    *)
(* What it does to the places of the work and to the references is the     *)
(* same in every step; INTRANS and the status are not.                     *)
LEMMA StartWorkStep ==
    ASSUME DevInv, NEW d \in Devs, add_disk_fn_start(d)
    PROVE  DevInv'
<1> USE DEF DevInv
<1>1. /\ UNCHANGED <<env, mem, status, kref, disk, gendisk, listed, opens, maps, nl, rm>>
      /\ d \in queued /\ wpc[d] = "idle" /\ queued' = queued \ {d}
    BY Zenon DEF add_disk_fn_start, uvars
<1>2. /\ wpc' = [wpc EXCEPT ![d] = IF status[d] = "PREPARED" THEN "add" ELSE "fail"]
      /\ intrans' = [intrans EXCEPT ![d] = IF status[d] = "PREPARED" THEN TRUE ELSE @]
    BY Zenon DEF add_disk_fn_start, DevType
<1>3. DevType'
    BY <1>1, <1>2, Zenon DEF DevType
<1>4. Netlinking'
    BY <1>1, <1>2, Zenon DEF Netlinking, DevType
<1>5. Removing'
    BY <1>1, Zenon DEF Removing
<1>6. Adding'
    BY <1>1, <1>2 DEF Adding, DevType
<1>7. Spared'
    BY <1>1, <1>2, Zenon DEF Spared, DevType
<1>8. \A e \in Devs : References(e)' = References(e)
    BY <1>1, <1>2 DEF References, One, open_count, Scanning, DevType
<1>9. Counted'
    BY <1>1, <1>8, KeepCounted, Zenon
<1>10. Visible'
    BY <1>1, <1>2 DEF Visible, Deleting, TimeoutDeletes, DevType
<1> QED BY <1>3, <1>4, <1>5, <1>6, <1>7, <1>9, <1>10

(* ubbd_add_disk makes the disk of a listed device visible, or fails. *)
LEMMA AddDiskStep ==
    ASSUME DevInv, NEW d \in Devs, ubbd_add_disk(d), ~oops'
    PROVE  DevInv'
<1> USE DEF DevInv
<1>1. /\ UNCHANGED <<env, mem, status, intrans, disk, listed, queued, opens, maps, nl, rm>>
      /\ wpc[d] = "add" /\ disk[d] # "NULL"
    BY Zenon DEF ubbd_add_disk, uvars
<1>2. d \in listed /\ intrans[d] /\ status[d] = "PREPARED"
    BY <1>1, Zenon DEF Adding
<1>3. CASE /\ gendisk' = [gendisk EXCEPT ![d] = "live"]
           /\ wpc' = [wpc EXCEPT ![d] = "scan"]
           /\ ubbd_dev_get(d)
    <2>1. References(d) > 0
        BY <1>2 DEF References, One, open_count, Scanning, DevType
    <2>2. \A e \in Devs : References(e)' = IF e = d THEN References(e) + 1 ELSE References(e)
        BY <1>1, <1>3 DEF References, One, open_count, Scanning, DevType
    <2>3. Counted' /\ kref' \in [Devs -> Int]
        BY <1>1, <1>3, <2>1, <2>2, GetCounted, Zenon
    <2>4. DevType'
        BY <1>1, <1>3, <2>3, Zenon DEF DevType
    <2>5. Netlinking'
        BY <1>1, <1>2, <1>3, Zenon DEF Netlinking, DevType
    <2>6. Removing'
        BY <1>1, Zenon DEF Removing
    <2>7. Adding'
        BY <1>1, <1>2, <1>3, Zenon DEF Adding, DevType
    <2>8. Spared'
        BY <1>1, <1>2, <1>3, Zenon DEF Spared, DevType
    <2>9. Visible'
        BY <1>1, <1>2, <1>3 DEF Visible, Deleting, TimeoutDeletes, DevType
    <2> QED BY <2>3, <2>4, <2>5, <2>6, <2>7, <2>8, <2>9, Zenon
<1>4. CASE wpc' = [wpc EXCEPT ![d] = "fail"] /\ UNCHANGED <<gendisk, kref>>
    <2>1. DevType'
        BY <1>1, <1>4, Zenon DEF DevType
    <2>2. Netlinking'
        BY <1>1, <1>4, Zenon DEF Netlinking, DevType
    <2>3. Removing'
        BY <1>1 DEF Removing
    <2>4. Adding'
        BY <1>1, <1>4, Zenon DEF Adding, DevType
    <2>5. Spared'
        BY <1>1, <1>2, <1>4, Zenon DEF Spared, DevType
    <2>6. \A e \in Devs : References(e)' = References(e)
        BY <1>1, <1>4 DEF References, One, open_count, Scanning, DevType
    <2>7. Counted'
        BY <1>1, <1>4, <2>6, KeepCounted, Zenon
    <2>8. Visible'
        BY <1>1, <1>2, <1>4 DEF Visible, Deleting, TimeoutDeletes, DevType
    <2> QED BY <2>1, <2>2, <2>3, <2>4, <2>5, <2>7, <2>8, Zenon
<1> QED BY <1>1, <1>3, <1>4, Zenon DEF ubbd_add_disk

(* The reads of the scan; ubbd_release puts the reference of ubbd_open. *)
LEMMA ScanStep ==
    ASSUME DevInv, NEW d \in Devs, scan_submit(d) \/ scan_end(d) \/ add_disk_fn_put(d)
    PROVE  DevInv'
<1> USE DEF DevInv
<1>1. /\ UNCHANGED <<env, status, intrans, disk, gendisk, listed, queued, opens, maps, nl, rm>>
      /\ wpc[d] \in {"scan", "io", "put"}
    BY Zenon DEF scan_submit, scan_end, add_disk_fn_put, uvars
<1>2. \/ wpc[d] = "scan" /\ wpc' = [wpc EXCEPT ![d] = "io"] /\ UNCHANGED <<kref, mem>>
      \/ wpc[d] \in {"scan", "io"} /\ wpc' = [wpc EXCEPT ![d] = "done"] /\ ubbd_dev_put(d)
      \/ wpc[d] = "put" /\ wpc' = [wpc EXCEPT ![d] = "idle"] /\ ubbd_dev_put(d)
    BY Zenon DEF scan_submit, scan_end, add_disk_fn_put
<1>3. /\ Counted'
      /\ mem' \in [Devs -> {"free", "alloc", "dying"}] /\ kref' \in [Devs -> Int]
      /\ \A e \in Devs : mem'[e] = "free" <=> mem[e] = "free"
    <2>1. CASE ubbd_dev_put(d) /\ wpc'[d] \in {"done", "idle"}
        <3>1. References(d) > 0
            BY <1>1 DEF References, One, open_count, Scanning, DevType
        <3>2. \A e \in Devs : References(e)' = IF e = d THEN References(e) - 1 ELSE References(e)
            BY <1>1, <1>2, <2>1 DEF References, One, open_count, Scanning, DevType
        <3> QED BY <2>1, <3>1, <3>2, PutCounted, Zenon
    <2>2. CASE wpc[d] = "scan" /\ wpc' = [wpc EXCEPT ![d] = "io"] /\ UNCHANGED <<kref, mem>>
        <3>1. \A e \in Devs : References(e)' = References(e)
            BY <1>1, <2>2 DEF References, One, open_count, Scanning, DevType
        <3> QED BY <2>2, <3>1, KeepCounted, Zenon DEF DevType
    <2> QED BY <1>2, <2>1, <2>2, Zenon DEF DevType
<1>4. DevType'
    BY <1>1, <1>2, <1>3, Zenon DEF DevType
<1>5. Netlinking'
    BY <1>1, <1>2 DEF Netlinking, DevType
<1>6. Removing'
    BY <1>1, <1>3 DEF Removing, DevType, RmRecord
<1>7. Adding'
    BY <1>1, <1>2 DEF Adding, DevType
<1>8. Spared'
    BY <1>1, <1>2 DEF Spared, DevType
<1>9. Visible'
    BY <1>1, <1>2 DEF Visible, Deleting, TimeoutDeletes, DevType
<1> QED BY <1>3, <1>4, <1>5, <1>6, <1>7, <1>8, <1>9, Zenon

(* The out label: a disk that was added is live still. *)
LEMMA WorkOutStep ==
    ASSUME DevInv, NEW d \in Devs, add_disk_fn_out(d)
    PROVE  DevInv'
<1> USE DEF DevInv
<1>1. /\ UNCHANGED <<env, mem, kref, disk, gendisk, listed, queued, opens, maps, nl, rm>>
      /\ wpc[d] \in {"done", "fail"}
      /\ wpc' = [wpc EXCEPT ![d] = "put"] /\ intrans' = [intrans EXCEPT ![d] = FALSE]
      /\ status' = [status EXCEPT ![d] = IF wpc[d] = "done" THEN "RUNNING" ELSE @]
    BY Zenon DEF add_disk_fn_out, uvars, DevType
<1>2. wpc[d] = "done" => status[d] = "PREPARED" /\ d \in listed /\ gendisk[d] = "live"
    BY Zenon DEF Adding, Visible
<1>3. DevType'
    BY <1>1, Zenon DEF DevType
<1>4. Netlinking'
    BY <1>1, Zenon DEF Netlinking, DevType
<1>5. Removing'
    BY <1>1, <1>2 DEF Removing, DevType, RmRecord
<1>6. Adding'
    BY <1>1, <1>2 DEF Adding, DevType
<1>7. Spared'
    BY <1>1, Zenon DEF Spared, DevType
<1>8. \A e \in Devs : References(e)' = References(e)
    BY <1>1 DEF References, One, open_count, Scanning, DevType
<1>9. Counted'
    BY <1>1, <1>8, KeepCounted, Zenon
<1>10. Visible'
    BY <1>1, <1>2 DEF Visible, Deleting, TimeoutDeletes, DevType
<1> QED BY <1>3, <1>4, <1>5, <1>6, <1>7, <1>9, <1>10

-----------------------------------------------------------------------------
(* REMOVE_DISK begins. *)
LEMMA RemoveDiskStep ==
    ASSUME DevInv, NEW force \in BOOLEAN, handle_cmd_remove_disk(force)
    PROVE  DevInv'
<1> USE DEF DevInv
<1>1. /\ UNCHANGED <<env, mem, status, intrans, kref, disk, gendisk, listed, queued, wpc, opens, maps>>
      /\ nl.pc = "remove_disk"
    BY Zenon DEF handle_cmd_remove_disk, dvars, uvars
<1>2. nl.d \in Devs /\ nl.d \in listed /\ nl.d # NoDev
    BY <1>1, DevAssumption, Zenon DEF Netlinking, Commands
<1>3. mem[nl.d] # "free" /\ status[nl.d] # "INIT"
    <2>1. status[nl.d] # "INIT"
        BY <1>2, Zenon DEF Adding
    <2>2. DevType /\ Counted
        BY Zenon
    <2>3. References(nl.d) > 0
        BY <1>2, <2>2 DEF References, One, open_count, Scanning, DevType
    <2>4. mem[nl.d] = "alloc"
        BY <1>2, <2>2, <2>3, Zenon DEF Counted
    <2> QED BY <2>1, <2>4, Zenon
<1>4. /\ nl' \in NlRecord /\ nl'.d = nl.d /\ nl'.pc \in {"put", "wait"}
      /\ nl'.pc = "put" => rm' = rm
      /\ nl'.pc = "wait" =>
            rm' = [rm EXCEPT !["netlink"] = [pc |-> "queues", d |-> nl.d, force |-> force]]
    BY DEF handle_cmd_remove_disk, DevType, NlRecord, NlPlaces
<1>5. rm["netlink"].pc = "idle"
    BY <1>1, Zenon DEF Removing
<1>6. DevType'
    BY <1>1, <1>2, <1>4 DEF DevType, RmRecord
<1>7. Netlinking'
    BY <1>1, <1>2, <1>4, Zenon DEF Netlinking, Commands
<1>8. Removing'
    <2>1. CASE nl'.pc = "put"
        BY <1>1, <1>4, <1>5, <2>1 DEF Removing
    <2>2. CASE nl'.pc = "wait"
        <3>1. /\ rm'["netlink"].pc = "queues" /\ rm'["netlink"].d = nl.d
              /\ rm'["timeout"] = rm["timeout"]
            BY <1>4, <2>2 DEF DevType, Removers
        <3> QED BY <1>1, <1>2, <1>3, <1>4, <2>2, <3>1 DEF Removing, Removers
    <2> QED BY <1>4, <2>1, <2>2, Zenon
<1>9. Adding' /\ Spared'
    BY <1>1, <1>4, Zenon DEF Adding, Spared
<1>10. \A e \in Devs : References(e)' = References(e)
    BY <1>1, <1>2, <1>4 DEF References, One, open_count, Scanning, DevType, Commands
<1>11. Counted'
    BY <1>1, <1>10, KeepCounted, Zenon
<1>12. Visible'
    <2>1. CASE nl'.pc = "put"
        BY <1>1, <1>4, <2>1, VisibleKept, Zenon
    <2>2. CASE nl'.pc = "wait"
        <3>1. /\ rm'["netlink"].pc = "queues" /\ rm'["timeout"] = rm["timeout"]
            BY <1>4, <2>2 DEF DevType, Removers
        <3> QED BY <1>1, <1>5, <3>1 DEF Visible, Deleting, TimeoutDeletes, Removers
    <2> QED BY <1>4, <2>1, <2>2, Zenon
<1> QED BY <1>6, <1>7, <1>8, <1>9, <1>11, <1>12, Zenon

(* A request times out. *)
LEMMA TimeoutStep ==
    ASSUME DevInv, NEW d \in Devs, ubbd_timeout(d)
    PROVE  DevInv'
<1> USE DEF DevInv
<1>1. /\ UNCHANGED <<env, mem, status, intrans, kref, disk, gendisk, listed, queued, wpc, opens, maps, nl>>
      /\ "timeout" \in env /\ rm["timeout"].pc = "idle"
      /\ rm' = [rm EXCEPT !["timeout"] = [pc |-> "queues", d |-> d, force |-> TRUE]]
    BY Zenon DEF ubbd_timeout, dvars, uvars
<1>2. d \in listed /\ status[d] # "INIT" /\ d # NoDev
    BY DevAssumption, Zenon DEF ubbd_timeout, Adding
<1>3. mem[d] # "free"
    BY <1>2, ReferencesNat DEF Counted, References, One, open_count, Scanning, DevType
<1>4. DevType'
    BY <1>1, Zenon DEF DevType, RmRecord
<1>5. Netlinking' /\ Adding' /\ Spared'
    BY <1>1, Zenon DEF Netlinking, Adding, Spared
<1>6. Removing'
    <2>1. /\ rm'["timeout"].pc = "queues" /\ rm'["timeout"].d = d
          /\ rm'["netlink"] = rm["netlink"]
        BY <1>1, Zenon DEF DevType, Removers
    <2> QED BY <1>1, <1>2, <1>3, <2>1 DEF Removing, Removers
<1>7. \A e \in Devs : References(e)' = References(e)
    BY <1>1 DEF References, One, open_count, Scanning
<1>8. Counted'
    BY <1>1, <1>7, KeepCounted, Zenon
<1>9. Visible'
    <2>1. rm'["timeout"].pc = "queues" /\ rm'["netlink"] = rm["netlink"]
        BY <1>1, Zenon DEF DevType, Removers
    <2> QED BY <1>1, <2>1 DEF Visible, Deleting, TimeoutDeletes, Removers
<1> QED BY <1>4, <1>5, <1>6, <1>8, <1>9, Zenon

(* A removal moves on: the queues, the status, del_gendisk, the end. *)
LEMMA RemovalStep ==
    ASSUME DevInv, NEW m \in Removers,
           remove_queues(m) \/ remove_status(m) \/ del_gendisk(m), ~oops'
    PROVE  DevInv'
<1> USE DEF DevInv
<1> DEFINE d == rm[m].d
<1>1. /\ UNCHANGED <<env, mem, intrans, kref, disk, listed, queued, wpc, opens, maps, nl>>
      /\ rm[m].pc \in {"queues", "lock", "del"}
    BY Zenon DEF remove_queues, remove_status, del_gendisk, dvars, uvars
<1>2. d \in Devs /\ mem[d] # "free" /\ status[d] # "INIT"
    BY <1>1, Zenon DEF Removing, DevType, RmRecord
<1>3. \E p \in {"lock", "del", "end"} :
         rm' = [rm EXCEPT ![m].pc = p] /\ (p = "del" => status'[d] = "REMOVING")
    BY <1>2 DEF remove_queues, remove_status, del_gendisk, DevType
<1>4. PICK p \in {"lock", "del", "end"} :
         rm' = [rm EXCEPT ![m].pc = p] /\ (p = "del" => status'[d] = "REMOVING")
    BY <1>3, Zenon
<1>5. /\ rm' \in [Removers -> RmRecord]
      /\ rm'[m].pc = p /\ rm'[m].d = d /\ \A n \in Removers \ {m} : rm'[n] = rm[n]
    BY <1>4 DEF DevType, RmRecord
<1>6. /\ gendisk' \in [Devs -> {"none", "init", "live", "dead"}]
      /\ status' \in [Devs -> {"INIT", "PREPARED", "RUNNING", "REMOVING"}]
      /\ \A e \in Devs \ {d} : gendisk'[e] = gendisk[e] /\ status'[e] = status[e]
      /\ \/ gendisk'[d] = gendisk[d] /\ status'[d] = status[d] /\ rm[m].pc = "queues"
         \/ /\ gendisk'[d] = gendisk[d] /\ status'[d] = "REMOVING" /\ ~intrans[d]
            /\ rm[m].pc = "lock" /\ (status[d] = "RUNNING" => rm'[m].pc = "del")
         \/ /\ disk[d] # "NULL" /\ gendisk'[d] = "dead"
            /\ status'[d] = "REMOVING" /\ status[d] = "REMOVING"
    <2>1. CASE remove_queues(m)
        BY <2>1 DEF remove_queues, dvars, DevType
    <2>2. CASE remove_status(m)
        <3>1. /\ status' = [status EXCEPT ![d] = "REMOVING"] /\ gendisk' = gendisk
              /\ ~intrans[d] /\ rm[m].pc = "lock"
              /\ rm' = [rm EXCEPT ![m].pc = IF status[d] = "RUNNING" THEN "del" ELSE "end"]
            BY <2>2, Zenon DEF remove_status, ubbd_dev_state_get_lock
        <3>2. status[d] = "RUNNING" => rm'[m].pc = "del"
            BY <3>1 DEF DevType, RmRecord
        <3> QED BY <1>2, <3>1, <3>2, Zenon DEF DevType
    <2>3. CASE del_gendisk(m)
        <3>1. /\ disk[d] # "NULL" /\ gendisk' = [gendisk EXCEPT ![d] = "dead"]
              /\ status' = status /\ rm[m].pc = "del"
            BY <2>3, Zenon DEF del_gendisk
        <3>2. status[d] = "REMOVING"
            BY <3>1, Zenon DEF Removing
        <3> QED BY <1>2, <3>1, <3>2, Zenon DEF DevType
    <2> QED BY <2>1, <2>2, <2>3, Zenon
<1>7. DevType'
    BY <1>1, <1>5, <1>6, Zenon DEF DevType
<1>8. Netlinking'
    <2>1. nl.pc = "setup" => nl.d # d
        BY <1>2, Zenon DEF Netlinking
    <2> QED BY <1>1, <1>6, <2>1, Zenon DEF Netlinking
<1>9. Removing'
    BY <1>1, <1>2, <1>4, <1>5, <1>6, SMTT(30) DEF Removing, DevType, RmRecord
<1>10. Adding'
    BY <1>1, <1>2, <1>6 DEF Adding
<1>11. Spared'
    BY <1>1, <1>2, <1>6 DEF Spared, Netlinking
<1>12. \A e \in Devs : References(e)' = References(e)
    BY <1>1 DEF References, One, open_count, Scanning
<1>13. Counted'
    BY <1>1, <1>12, KeepCounted, Zenon
<1>14. Visible'
    BY <1>1, <1>2, <1>5, <1>6 DEF Visible, Deleting, TimeoutDeletes, Adding, Removers
<1> QED BY <1>7, <1>8, <1>9, <1>10, <1>11, <1>13, <1>14, Zenon

(* The removal is over; REMOVE_DISK goes on to drop its reference. *)
LEMMA RemovalEndStep ==
    ASSUME DevInv, NEW m \in Removers, remove_disk_end(m)
    PROVE  DevInv'
<1> USE DEF DevInv
<1>1. /\ UNCHANGED <<env, mem, status, intrans, kref, disk, gendisk, listed, queued, wpc, opens, maps>>
      /\ rm[m].pc = "end" /\ rm' = [rm EXCEPT ![m] = IdleRm]
    BY Zenon DEF remove_disk_end, dvars, uvars
<1>2. m = "netlink" => nl.pc = "wait" /\ nl.d \in Devs
    BY <1>1, Zenon DEF Removing, Netlinking
<1>3. /\ nl' \in NlRecord /\ nl'.d = nl.d
      /\ nl'.pc = IF m = "netlink" THEN "put" ELSE nl.pc
    BY <1>2, Zenon DEF remove_disk_end, DevType, NlRecord, NlPlaces
<1>4. /\ rm' \in [Removers -> RmRecord] /\ rm'[m].pc = "idle" /\ rm'[m].d = NoDev
      /\ \A n \in Removers \ {m} : rm'[n] = rm[n]
    BY <1>1, Zenon DEF DevType, RmRecord, IdleRm
<1>5. DevType'
    BY <1>1, <1>3, <1>4, Zenon DEF DevType
<1>6. Netlinking'
    BY <1>1, <1>2, <1>3, Zenon DEF Netlinking, Commands
<1>7. Removing'
    BY <1>1, <1>2, <1>3, <1>4 DEF Removing, Removers
<1>8. Adding' /\ Spared'
    BY <1>1, <1>2, <1>3, Zenon DEF Adding, Spared
<1>9. \A e \in Devs : References(e)' = References(e)
    BY <1>1, <1>2, <1>3 DEF References, One, open_count, Scanning, DevType, Commands
<1>10. Counted'
    BY <1>1, <1>9, KeepCounted, Zenon
<1>11. Visible'
    BY <1>1, <1>4 DEF Visible, Deleting, TimeoutDeletes, Removers
<1> QED BY <1>5, <1>6, <1>7, <1>8, <1>10, <1>11, Zenon

-----------------------------------------------------------------------------
(* Openers and mappings come and go with a reference each. *)
LEMMA UserGetStep ==
    ASSUME DevInv, NEW d \in Devs, ubbd_open(d) \/ ubbd_vma_open(d), ~oops'
    PROVE  DevInv'
<1> USE DEF DevInv
<1>1. /\ UNCHANGED <<env, mem, status, intrans, disk, gendisk, listed, queued, wpc, nl, rm>>
      /\ mem[d] = "alloc" /\ ubbd_dev_get(d)
    BY Zenon DEF ubbd_open, ubbd_vma_open
<1>2. \/ opens' = [opens EXCEPT ![d] = @ + 1] /\ maps' = maps
      \/ maps' = [maps EXCEPT ![d] = @ + 1] /\ opens' = opens
    BY Zenon DEF ubbd_open, ubbd_vma_open
<1>3. References(d) > 0
    BY <1>1, Zenon DEF Counted
<1>4. \A e \in Devs : References(e)' = IF e = d THEN References(e) + 1 ELSE References(e)
    BY <1>1, <1>2, SMTT(30) DEF References, One, open_count, Scanning, DevType
<1>5. Counted' /\ kref' \in [Devs -> Int]
    BY <1>1, <1>3, <1>4, GetCounted, Zenon
<1>6. DevType'
    BY <1>1, <1>2, <1>5, SMTT(30) DEF DevType
<1>7. Netlinking' /\ Removing' /\ Adding' /\ Spared'
    BY <1>1 DEF Netlinking, Removing, Adding, Spared
<1>8. Visible'
    BY <1>1, VisibleKept, Zenon
<1> QED BY <1>5, <1>6, <1>7, <1>8, Zenon

(* ubbd_release and ubbd_vma_close drop a reference each. *)
LEMMA UserPutStep ==
    ASSUME DevInv, NEW d \in Devs, ubbd_release(d) \/ ubbd_vma_close(d)
    PROVE  DevInv'
<1> USE DEF DevInv
<1>1. /\ UNCHANGED <<env, status, intrans, disk, gendisk, listed, queued, wpc, nl, rm>>
      /\ ubbd_dev_put(d)
    BY Zenon DEF ubbd_release, ubbd_vma_close
<1>2. \/ opens[d] > 0 /\ opens' = [opens EXCEPT ![d] = @ - 1] /\ maps' = maps
      \/ maps[d] > 0 /\ maps' = [maps EXCEPT ![d] = @ - 1] /\ opens' = opens
    BY Zenon DEF ubbd_release, ubbd_vma_close
<1>3. References(d) > 0
    BY <1>2 DEF References, One, open_count, Scanning, DevType
<1>4. \A e \in Devs : References(e)' = IF e = d THEN References(e) - 1 ELSE References(e)
    BY <1>1, <1>2 DEF References, One, open_count, Scanning, DevType
<1>5. /\ Counted'
      /\ mem' \in [Devs -> {"free", "alloc", "dying"}] /\ kref' \in [Devs -> Int]
      /\ \A e \in Devs : mem'[e] = "free" <=> mem[e] = "free"
    BY <1>1, <1>3, <1>4, PutCounted, Zenon
<1>6. DevType'
    BY <1>1, <1>2, <1>5 DEF DevType
<1>7. Removing'
    BY <1>1, <1>5 DEF Removing, DevType, RmRecord
<1>8. Netlinking' /\ Adding' /\ Spared'
    BY <1>1, Zenon DEF Netlinking, Adding, Spared
<1>9. Visible'
    BY <1>1, VisibleKept, Zenon
<1> QED BY <1>5, <1>6, <1>7, <1>8, <1>9, Zenon

(* The rest of ubbd_dev_destroy. *)
LEMMA DestroyStep ==
    ASSUME DevInv, NEW d \in Devs, ubbd_dev_destroy(d), ~oops'
    PROVE  DevInv'
<1> USE DEF DevInv
<1>1. /\ UNCHANGED <<env, status, intrans, kref, disk, gendisk, listed, queued, wpc, opens, maps, nl, rm>>
      /\ mem[d] = "dying" /\ mem' = [mem EXCEPT ![d] = "free"]
      /\ \A m \in Removers : rm[m].d = d => rm[m].pc = "end"
    BY Zenon DEF ubbd_dev_destroy, uvars
<1>2. DevType'
    BY <1>1, Zenon DEF DevType
<1>3. Netlinking' /\ Adding' /\ Spared'
    BY <1>1, Zenon DEF Netlinking, Adding, Spared
<1>4. Removing'
    BY <1>1, Zenon DEF Removing, DevType, RmRecord
<1>5. \A e \in Devs : References(e)' = References(e)
    BY <1>1 DEF References, One, open_count, Scanning
<1>6. Counted'
    BY <1>1, <1>5 DEF Counted, DevType
<1>7. Visible'
    BY <1>1, VisibleKept, Zenon
<1> QED BY <1>2, <1>3, <1>4, <1>6, <1>7, Zenon

-----------------------------------------------------------------------------
(* The module has just been loaded: nothing refers to a device. *)
LEMMA InitInv == Init => SafeInv
<1> SUFFICES ASSUME Init PROVE DevInv
    BY Zenon DEF SafeInv
<1>1. nl.pc = "idle" /\ nl.d = NoDev /\ nl \in NlRecord
    BY Zenon DEF Init, IdleNl, NlRecord, NlPlaces
<1>2. \A m \in Removers : rm[m].pc = "idle" /\ rm[m].d = NoDev /\ rm[m] \in RmRecord
    BY Zenon DEF Init, IdleRm, RmRecord
<1>3. DevType
    BY <1>1, <1>2 DEF Init, DevType
<1>4. Netlinking
    BY <1>1, Zenon DEF Netlinking, Commands
<1>5. Removing
    BY <1>2, Zenon DEF Removing, Removers
<1>6. Adding
    BY Zenon DEF Init, Adding
<1>7. Spared
    BY <1>1, Zenon DEF Init, Spared
<1>8. Counted
    BY <1>1, DevAssumption DEF Init, Counted, References, One, open_count, Scanning
<1>9. Visible
    BY <1>2, Zenon DEF Init, Visible, Deleting
<1> QED BY <1>3, <1>4, <1>5, <1>6, <1>7, <1>8, <1>9, Zenon DEF DevInv

(* Nothing happens. *)
LEMMA StutterInv ==
    ASSUME DevInv, UNCHANGED vars
    PROVE  DevInv'
<1>1. UNCHANGED <<env, mem, status, intrans, kref, disk, gendisk, listed, queued, wpc, opens, maps, nl, rm>>
    BY Zenon DEF vars, dvars, uvars
<1>2. DevType' /\ Netlinking' /\ Removing' /\ Adding' /\ Spared'
    BY <1>1, SMTT(30) DEF DevInv, DevType, Netlinking, Removing, Adding, Spared
<1>3. \A e \in Devs : References(e)' = References(e)
    BY <1>1 DEF References, One, open_count, Scanning
<1>4. Counted'
    BY <1>1, <1>3, KeepCounted, Zenon DEF DevInv
<1>5. Visible'
    BY <1>1, VisibleKept, Zenon DEF DevInv
<1> QED BY <1>2, <1>4, <1>5, Zenon DEF DevInv

(* Every step without an oops keeps the invariant. *)
LEMMA NextInv == SafeInv /\ [Next]_vars => SafeInv'
<1> SUFFICES ASSUME SafeInv, [Next]_vars, ~oops' PROVE DevInv'
    BY Zenon DEF SafeInv
<1>1. CASE UNCHANGED vars
    BY <1>1, StutterInv, Zenon DEF SafeInv, vars
<1>2. CASE Next
    <2> DevInv
        BY <1>2, Zenon DEF SafeInv, Next
    <2>1. CASE Netlink
        BY <2>1, AddDevStep, HandlerStep, NlPutStep, QueueWorkStep, RemoveDevStep, Zenon,
            RemoveDiskStep, DevAssumption DEF Netlink
    <2>2. CASE \E d \in Devs : \/ ubbd_dev_create(d) \/ AddDiskWork(d) \/ ubbd_dev_destroy(d)
                           \/ scan_answered(d)
        BY <2>2, CreateStep, StartWorkStep, AddDiskStep, ScanStep, WorkOutStep, DestroyStep, Zenon
            DEF AddDiskWork, scan_answered, scan_aborted
    <2>3. CASE \E d \in Devs, cmd \in Commands : find_ubbd_dev(d, cmd)
        BY <2>3, FindStep, Zenon
    <2>4. CASE \E m \in Removers : RemoveDisk(m)
        BY <2>4, RemovalStep, RemovalEndStep, Zenon DEF RemoveDisk
    <2>5. CASE \E d \in Devs : ubbd_timeout(d) \/ ubbd_open(d) \/ ubbd_release(d)
                               \/ ubbd_vma_open(d) \/ ubbd_vma_close(d)
        BY <2>5, TimeoutStep, UserGetStep, UserPutStep, Zenon
    <2> QED BY <1>2, <2>1, <2>2, <2>3, <2>4, <2>5, Zenon DEF Next
<1> QED BY <1>1, <1>2, Zenon

(* The inductive invariant holds until an oops. *)
THEOREM DeviceInvariant == Spec => []SafeInv
BY InitInv, NextInv, PTL DEF Spec

(* On every path through the handlers, the add_disk work, the removals and *)
(* their failures, kref is the number of references still to be dropped,   *)
(* and ubbd_dev_destroy runs when there is none.                           *)
THEOREM KrefIsExact == Spec => []KrefExact
<1>1. SafeInv => KrefExact
    BY Zenon DEF SafeInv, DevInv, Counted, KrefExact
<1> QED BY <1>1, DeviceInvariant, PTL

(* The invariant implies LiveDiskHasDevice: a listed device is referenced. *)
LEMMA LiveWhileSafe ==
    ASSUME DevInv
    PROVE  LiveDiskHasDevice
<1> SUFFICES ASSUME NEW d \in Devs
             PROVE /\ gendisk[d] = "live" /\ ~TimeoutDeletes(d) =>
                         d \in listed /\ mem[d] = "alloc" /\ disk[d] # "NULL"
                   /\ status[d] = "RUNNING" \/ Scanning(d) =>
                         gendisk[d] = "live" /\ disk[d] # "NULL"
                   /\ Scanning(d) => intrans[d] /\ d \in listed
    BY Zenon DEF LiveDiskHasDevice
<1>1. d \in listed => mem[d] = "alloc"
    BY DEF DevInv, Counted, References, One, open_count, Scanning, DevType
<1> QED BY <1>1, Zenon DEF DevInv, Adding, Visible, Scanning

(* A step that ends in an oops leaves the disks alone. *)
LEMMA LiveThroughOops ==
    ASSUME DevInv, Next, oops'
    PROVE  LiveDiskHasDevice'
<1>1. LiveDiskHasDevice
    BY LiveWhileSafe, Zenon
<1>2. ~oops
    BY Zenon DEF Next
<1>3. /\ UNCHANGED <<status, intrans, disk, gendisk, listed, wpc, rm>>
      /\ \A d \in Devs : mem[d] = "alloc" => mem'[d] = "alloc"
    <2>1. CASE Netlink
        <3>1. ubbd_dev_add_disk \/ ubbd_dev_config
            BY <1>2, <2>1, Zenon DEF Netlink, ubbd_dev_add_dev, reply_add_dev, handle_cmd_put,
                ubbd_dev_remove_dev, remove_dev_put, handle_cmd_status, handle_cmd_remove_disk
        <3> QED BY <3>1, Zenon DEF ubbd_dev_add_disk, ubbd_dev_config, dvars
    <2>2. CASE \E d \in Devs : \/ ubbd_dev_create(d) \/ AddDiskWork(d) \/ ubbd_dev_destroy(d)
                           \/ scan_answered(d)
        <3>1. PICK d \in Devs : ubbd_add_disk(d) \/ ubbd_dev_destroy(d)
            BY <1>2, <2>2, Zenon DEF ubbd_dev_create, AddDiskWork, add_disk_fn_start, scan_submit,
                scan_end, scan_answered, scan_aborted, add_disk_fn_out, add_disk_fn_put
        <3>2. CASE ubbd_add_disk(d)
            BY <1>2, <3>2, Zenon DEF ubbd_add_disk
        <3>3. CASE ubbd_dev_destroy(d)
            BY <3>3, Zenon DEF ubbd_dev_destroy, DevInv, DevType
        <3> QED BY <3>1, <3>2, <3>3, Zenon
    <2>3. CASE \E d \in Devs, cmd \in Commands : find_ubbd_dev(d, cmd)
        BY <1>2, <2>3, Zenon DEF find_ubbd_dev
    <2>4. CASE \E m \in Removers : RemoveDisk(m)
        <3>1. PICK m \in Removers : del_gendisk(m)
            BY <1>2, <2>4, Zenon DEF RemoveDisk, remove_queues, remove_status, remove_disk_end
        <3> QED BY <1>2, <3>1, Zenon DEF del_gendisk
    <2>5. CASE \E d \in Devs : ubbd_timeout(d) \/ ubbd_open(d) \/ ubbd_release(d)
                               \/ ubbd_vma_open(d) \/ ubbd_vma_close(d)
        BY <1>2, <2>5, Zenon DEF ubbd_timeout, ubbd_open, ubbd_release, ubbd_vma_open, ubbd_vma_close
    <2> QED BY <2>1, <2>2, <2>3, <2>4, <2>5, Zenon DEF Next
<1> QED BY <1>1, <1>3, Zenon DEF LiveDiskHasDevice, Scanning, TimeoutDeletes

(* INTRANS and the reference of the list keep a disk that can be opened    *)
(* with its device, in every environment; only between the unlock and the  *)
(* del_gendisk of a removal that a timeout has started can REMOVE_DEV take *)
(* the device and the pointer away first.                                  *)
THEOREM LiveDiskKeepsDevice == Spec => []LiveDiskHasDevice
<1>1. Init => LiveDiskHasDevice
    BY InitInv, LiveWhileSafe, Zenon DEF SafeInv, Init
<1>2. SafeInv /\ LiveDiskHasDevice /\ [Next]_vars => LiveDiskHasDevice'
    <2> SUFFICES ASSUME SafeInv, LiveDiskHasDevice, [Next]_vars PROVE LiveDiskHasDevice'
        BY Zenon
    <2>1. CASE UNCHANGED vars
        BY <2>1, Zenon DEF LiveDiskHasDevice, Scanning, TimeoutDeletes, vars, dvars
    <2>2. CASE Next /\ oops'
        BY <2>2, LiveThroughOops, Zenon DEF SafeInv, Next
    <2>3. CASE Next /\ ~oops'
        <3>1. DevInv'
            BY <2>3, NextInv, Zenon DEF SafeInv
        <3>2. DevInv' => LiveDiskHasDevice'
            BY LiveWhileSafe, PTL
        <3> QED BY <3>1, <3>2, Zenon
    <2> QED BY <2>1, <2>2, <2>3, Zenon
<1> QED BY <1>1, <1>2, DeviceInvariant, PTL DEF Spec

(* The environment is chosen once. *)
LEMMA EnvKept ==
    ASSUME Next
    PROVE  env' = env
<1>1. Netlink => env' = env
    BY Zenon DEF Netlink, ubbd_dev_add_dev, reply_add_dev, handle_cmd_put, ubbd_dev_add_disk,
        ubbd_dev_remove_dev, remove_dev_put, ubbd_dev_config, handle_cmd_status,
        handle_cmd_remove_disk
<1>2. ASSUME NEW d \in Devs, \/ ubbd_dev_create(d) \/ AddDiskWork(d) \/ ubbd_dev_destroy(d)
                             \/ scan_answered(d)
      PROVE env' = env
    BY <1>2, Zenon DEF AddDiskWork, ubbd_dev_create, add_disk_fn_start, ubbd_add_disk, scan_submit,
        scan_end, scan_answered, scan_aborted, add_disk_fn_out, add_disk_fn_put, ubbd_dev_destroy
<1>3. ASSUME NEW d \in Devs, NEW cmd \in Commands, find_ubbd_dev(d, cmd)
      PROVE env' = env
    BY <1>3, Zenon DEF find_ubbd_dev
<1>4. ASSUME NEW m \in Removers, RemoveDisk(m)
      PROVE env' = env
    BY <1>4, Zenon DEF RemoveDisk, remove_queues, remove_status, del_gendisk, remove_disk_end
<1>5. ASSUME NEW d \in Devs, ubbd_timeout(d) \/ ubbd_open(d) \/ ubbd_release(d)
                             \/ ubbd_vma_open(d) \/ ubbd_vma_close(d)
      PROVE env' = env
    BY <1>5, Zenon DEF ubbd_timeout, ubbd_open, ubbd_release, ubbd_vma_open, ubbd_vma_close
<1> QED BY <1>1, <1>2, <1>3, <1>4, <1>5, Zenon DEF Next

(* No handler, work or removal uses a disk, a device or a work item that   *)
(* is not there, unless the environment does what the code does not guard  *)
(* against.                                                                *)
THEOREM NothingUsedAfterFree == Spec => []NoOops
<1>1. Init => NoOops
    BY Zenon DEF Init, NoOops
<1>2. SafeInv /\ NoOops /\ [Next]_vars => NoOops'
    <2> SUFFICES ASSUME SafeInv, NoOops, [Next]_vars, env' \subseteq {"limits"} PROVE ~oops'
        BY Zenon DEF NoOops
    <2>1. CASE UNCHANGED vars
        BY <2>1, Zenon DEF NoOops, vars
    <2>2. CASE Next
        <3> DevInv /\ ~oops
            BY <2>2, Zenon DEF SafeInv, Next
        <3> USE DEF DevInv
        <3> env' = env
            BY <2>2, EnvKept
        <3> "repeat" \notin env /\ "early" \notin env /\ "timeout" \notin env
            /\ "late_mmap" \notin env
            BY Zenon
        <3>1. \A d \in Devs : d \in listed => mem[d] = "alloc"
            BY DEF Counted, References, One, open_count, Scanning, DevType
        <3>2. \A m \in Removers : rm[m].pc # "idle" => rm[m].d \in listed
            BY Zenon DEF Removing, Removers, Netlinking
        <3>3. CASE Netlink
            BY <3>3, Zenon DEF Netlink, ubbd_dev_add_dev, reply_add_dev, handle_cmd_put,
                ubbd_dev_remove_dev, remove_dev_put, handle_cmd_status, handle_cmd_remove_disk,
                ubbd_dev_add_disk, ubbd_dev_config, Spared, Netlinking, Adding
        <3>4. CASE \E d \in Devs : \/ ubbd_dev_create(d) \/ AddDiskWork(d) \/ ubbd_dev_destroy(d)
                               \/ scan_answered(d)
            <4> SUFFICES ASSUME NEW d \in Devs, ubbd_add_disk(d) \/ ubbd_dev_destroy(d)
                         PROVE ~oops'
                BY <3>4, Zenon DEF ubbd_dev_create, AddDiskWork, add_disk_fn_start, scan_submit,
                    scan_end, scan_answered, scan_aborted, add_disk_fn_out, add_disk_fn_put
            <4>1. CASE ubbd_add_disk(d)
                BY <4>1, Zenon DEF ubbd_add_disk, Spared, Adding
            <4>2. CASE ubbd_dev_destroy(d)
                BY <3>1, <3>2, <4>2, DevAssumption, Zenon DEF ubbd_dev_destroy, Removing
            <4> QED BY <4>1, <4>2, Zenon
        <3>5. CASE \E d \in Devs, cmd \in Commands : find_ubbd_dev(d, cmd)
            BY <3>5 DEF find_ubbd_dev
        <3>6. CASE \E m \in Removers : RemoveDisk(m)
            <4> PICK m \in Removers : RemoveDisk(m)
                BY <3>6, Zenon
            <4>1. CASE del_gendisk(m)
                <5>1. rm[m].d \in listed /\ rm[m].d \in Devs
                    BY <3>2, <4>1, Zenon DEF del_gendisk, DevType
                <5>2. disk[rm[m].d] # "NULL"
                    BY <5>1, Zenon DEF Adding
                <5> QED BY <4>1, <5>2, Zenon DEF del_gendisk
            <4>2. CASE ~del_gendisk(m)
                BY <4>2, Zenon DEF RemoveDisk, remove_queues, remove_status, remove_disk_end
            <4> QED BY <4>1, <4>2, Zenon
        <3>7. CASE \E d \in Devs : ubbd_timeout(d) \/ ubbd_open(d) \/ ubbd_release(d)
                                   \/ ubbd_vma_open(d) \/ ubbd_vma_close(d)
            <4>1. \A d \in Devs : gendisk[d] = "live" => d \in listed
                BY Zenon DEF Visible, TimeoutDeletes, Removing
            <4> QED BY <3>1, <3>7, <4>1, Zenon DEF ubbd_timeout, ubbd_open, ubbd_release,
                        ubbd_vma_open, ubbd_vma_close
        <3> QED BY <2>2, <3>3, <3>4, <3>5, <3>6, <3>7, Zenon DEF Next
    <2> QED BY <2>1, <2>2, Zenon
<1> QED BY <1>1, <1>2, DeviceInvariant, PTL DEF Spec

(* Every path to ubbd_dev_destroy has freed the gendisk, but for rejected  *)
(* queue limits and for a timeout that has still to delete it.             *)
THEOREM NoDiskLeaked == Spec => []DiskFreedWithDevice
<1>1. SafeInv => DiskFreedWithDevice
    <2> SUFFICES ASSUME DevInv, "limits" \notin env, NEW d \in Devs, mem[d] # "alloc"
                 PROVE disk[d] = "NULL" /\ (gendisk[d] = "none" \/ TimeoutDeletes(d))
        BY Zenon DEF SafeInv, DiskFreedWithDevice
    <2>1. d \notin listed
        BY DEF DevInv, Counted, References, One, open_count, Scanning, DevType
    <2> QED BY <2>1, Zenon DEF DevInv, Adding, Visible
<1> QED BY <1>1, DeviceInvariant, PTL

(* REMOVING is final while the device exists: the add_disk work, which     *)
(* checked the status before it slept, finds it unchanged at its end.      *)
THEOREM RemovingIsFinal == Spec => RemovingStays
<1> DEFINE Stays == \A d \in Devs :
        status[d] = "REMOVING" /\ mem[d] = "alloc" => status'[d] = "REMOVING"
<1>1. SafeInv /\ [Next]_vars => [Stays]_vars
    <2> SUFFICES ASSUME SafeInv, Next, NEW d \in Devs, status[d] = "REMOVING", mem[d] = "alloc"
                 PROVE status'[d] = "REMOVING"
        BY Zenon
    <2> DevInv
        BY Zenon DEF SafeInv, Next
    <2> USE DEF DevInv
    <2>1. CASE Netlink
        BY <2>1 DEF Netlink, ubbd_dev_add_dev, reply_add_dev, handle_cmd_put, dvars,
            ubbd_dev_remove_dev, remove_dev_put, handle_cmd_status, handle_cmd_remove_disk,
            ubbd_dev_add_disk, ubbd_dev_config, Netlinking, DevType
    <2>2. CASE \E e \in Devs : \/ ubbd_dev_create(e) \/ AddDiskWork(e) \/ ubbd_dev_destroy(e)
                           \/ scan_answered(e)
        <3> PICK e \in Devs : \/ ubbd_dev_create(e) \/ AddDiskWork(e) \/ ubbd_dev_destroy(e)
                              \/ scan_answered(e)
            BY <2>2, Zenon
        <3>1. CASE ubbd_dev_create(e)
            BY <3>1, Zenon DEF ubbd_dev_create, DevType
        <3>2. CASE add_disk_fn_out(e)
            BY <3>2, Zenon DEF add_disk_fn_out, Adding, DevType
        <3>3. CASE ~ubbd_dev_create(e) /\ ~add_disk_fn_out(e)
            BY <3>3, Zenon DEF AddDiskWork, add_disk_fn_start, scan_submit, ubbd_add_disk, scan_end,
                scan_answered, scan_aborted, add_disk_fn_put, ubbd_dev_destroy
        <3> QED BY <3>1, <3>2, <3>3, Zenon
    <2>3. CASE \E e \in Devs, cmd \in Commands : find_ubbd_dev(e, cmd)
        BY <2>3, Zenon DEF find_ubbd_dev
    <2>4. CASE \E m \in Removers : RemoveDisk(m)
        BY <2>4, Zenon DEF RemoveDisk, remove_queues, remove_status, remove_disk_end, del_gendisk,
            dvars, DevType
    <2>5. CASE \E e \in Devs : ubbd_timeout(e) \/ ubbd_open(e) \/ ubbd_release(e)
                               \/ ubbd_vma_open(e) \/ ubbd_vma_close(e)
        BY <2>5, Zenon DEF ubbd_timeout, ubbd_open, ubbd_release, ubbd_vma_open, ubbd_vma_close, dvars
    <2> QED BY <2>1, <2>2, <2>3, <2>4, <2>5, Zenon DEF Next
<1> QED BY <1>1, DeviceInvariant, PTL DEF Spec, RemovingStays

=============================================================================
