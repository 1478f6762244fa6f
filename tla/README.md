# A TLA+ model of the ubbd kernel module

ubbd is a Linux block driver whose requests are served by a process in user
space, the *backend*. The driver and the backend share, for each hardware
queue, a command ring, a completion ring and an area of data pages. This
directory holds TLA+ modules for the parts of the driver that are hard to test,
TLC configurations that check them on small instances, and TLAPS proofs about
the rings, the data pages and the event channel that hold for every size.

Paths below are relative to the repository's `src/` directory (`ubbd_req.c` and
so on); `PROJECT.json` maps every definition to its lines.

## 1. The system

| part | code | state | operations |
| --- | --- | --- | --- |
| command ring | `ubbd_req.c`: `submit_ring_space_enough`, `insert_padding`, `queue_req_se_init`, `ubbd_queue_workfn`, `complete_inflight_req`, `advance_cmd_ring` | `cmd_head`, `cmd_tail`, entries with length, op and DONE flag, `ubbd_req->se` | submit, pad, set DONE, advance the tail; the backend walks the ring |
| completion ring | `ubbd_req.c`: `get_complete_entry`, `ubbd_queue_complete` | `compr_head`, `compr_tail`, entries with `priv_data` and `result` | the backend fills and posts; take, read `priv_data`, read `result` |
| request path | `ubbd_req.c`: `ubbd_queue_rq`, `ubbd_queue_workfn`, `ubbd_queue_complete`, `fetch_inflight_req`, `ubbd_queue_end_inflight_reqs`, `ubbd_timeout` | queue status, inflight list, `req_tid`, `task_wq` | dispatch, prepare, list, submit, complete, requeue, end, time out |
| queue stop and start | `ubbd_dev.c`: `queue_stop`, `queue_start`, `find_running_queue` | status, `hctx->driver_data` | stop (with a flush), start |
| data pages | `ubbd_req.c`: `ubbd_get_data_pages`, `ubbd_release_page` | `data_bitmap`, `data_pages_array`, `data_pages_allocated`, `data_pages_reserved` | take, release, configure |
| data copy | `ubbd_req.c`: `copy_data_to_ubbdreq`, `copy_data_from_ubbdreq`, `ubbd_set_se_iov`; `ubbd_kring.c`: `ubbd_vma_fault`, `ubbd_kring_unmap_range` | `inline_pi`, `pi`, `iov`, contents of pages, the backend's page table | copy in, copy out, fault, unmap |
| device lifecycle | `ubbd_dev.c` | device status, INTRANS, kref, disk, device list | create, add disk (a work item), remove disk, remove device, destroy |
| netlink | `ubbd_nl.c` | the command being handled | ADD_DEV, ADD_DISK, REMOVE_DISK, REMOVE_DEV, CONFIG, STATUS, LIST, queue operations |
| kring device | `ubbd_kring.c` | minor, `idev`, `info`, event counter, mappings, HAS_BACKEND | open, release, read, poll, write, mmap, munmap, notify, unregister |
| set-up | `ubbd_main.c`, `ubbd_internal.h`: `__ubbd_init`, `__ubbd_exit`; `ubbd_dev.c`: `ubbd_dev_create`, `ubbd_dev_destroy`; `ubbd_kring.c`: registration; `ubbd_debugfs.c` | what is registered, ids, minors, module references | load, unload, create and destroy queue by queue, every failure |

How they interact: a netlink command creates a device with its queues and kring
devices; the backend opens and maps them; ADD_DISK queues work that adds the
disk, during which the block layer already reads the partition table through
the request path. A request is given to a worker on `task_wq`, which takes data
pages, writes a command and notifies the backend. The backend posts completions
and calls `write(2)`, in which the driver ends the requests, releases their
pages and advances the ring. A removal, by netlink or by a request's timeout,
marks the queues, flushes `task_wq` and ends what is left.

What makes it hard:

- the ring is reclaimed in order although commands finish out of order, wraps
  with padding entries, and tells full from empty by a reserve;
- completions run in the backend's system calls, concurrently with workers,
  stops and removals, and `flush_workqueue` waits only for the workers;
- the queue status is one word that stops, starts, removals and completions
  write under different locks;
- the device's mutex is dropped while the disk is added, and a flag that others
  poll stands in for it;
- the page counter is updated without a lock;
- a completion entry is read after its slot was given back, and nothing but the
  size of the other ring keeps the completion ring from overflowing;
- devices are created and destroyed step by step beside each other and beside
  the load and the unload of the module;
- the backend can die, restart and answer twice, fork, or keep its mapping
  after the device was removed.

## 2. Modules

| module | models | lines up with the code |
| --- | --- | --- |
| `UbbdCmdRing` | the command ring | `ring[o]` is the header at offset `o` in units of the entry alignment; `se[r]` is `ubbd_req->se`; `cmdr_lock` is held over `advance_lock`, `advance_cmd_ring`, `advance_unlock`, so that one turn of the loop is one step |
| `UbbdCmdChannel` | what the ring promises: a FIFO of commands | abstract |
| `UbbdComplRing` | the completion ring | positions count in entries; `comp[c]` is a completer in `ubbd_queue_complete` with the entry it points to; of the command ring only the order of commands is kept (`oldest` is the command at `cmd_tail`) |
| `UbbdQueue` | the request path, stop and start, removal of the queues | `rpc[r]` is where a request is; a step is what runs between two points at which another thread can interfere; `flush[f]` is what a `flush_workqueue` waits for |
| `UbbdBlockIO` | what the block layer sees of a disk: a request ends once, by an answer, or by a removal | abstract |
| `UbbdDataPages` | who has which data page of one queue | each `++` and `--` of the counter is a load and a store |
| `UbbdDataPath` | the data of requests, through pages, `iov` and the backend's mapping | words are abstract values that name their origin; `releasing` is the page that the holder of `pages_mutex` is unmapping, erasing or freeing, `fault` the page fault the backend is in, so that the two interleave; whether a released page is freed or kept is left open, since the counter that decides it can be wrong |
| `UbbdDev` | devices, netlink commands, add_disk work, references | `nl` is the one netlink command in progress; `intrans` is INTRANS; `disk` is the pointer in the device, `gendisk` what it points to, which the block layer can keep longer |
| `UbbdKring` | the kring device of one queue | `pc[p]` is where a process is in open, read or poll |
| `UbbdSetup` | load and unload, creation and destruction of devices | `todo` is the rest of `__ubbd_init`, of its error labels or of `__ubbd_exit`; `nl` is the ADD_DEV in progress, `del[o]` the destruction of device `o` |
| `UbbdReply` | the sizes of netlink replies, computed and used | operators, one per function |
| `Ubbd*Proofs`, `UbbdQueueSteps` | theorems about `UbbdCmdRing`, `UbbdComplRing`, `UbbdDataPages`, `UbbdDataPath`, `UbbdDev`, `UbbdKring`, `UbbdQueue` | |
| `MC*` | instances for TLC, symmetry, the mapping to `UbbdCmdChannel` | |

`Bug_...` operators are plausible mistakes in the definition that follows them.
Each property is shown to be sensitive: with one of these definitions in place
of the original, TLC finds the property violated.

The modules overlap where parts meet, and each takes from the next what that one
establishes. `UbbdQueue` has completions as a set of ids, each of which ends its
own request: that is `OwnResult` of `UbbdComplRing`. `UbbdComplRing` has a
command ring in which commands retire in order and at most `MaxCmds` fit: that
is `UbbdCmdRing`. `UbbdDataPath` starts from page indexes that are not shared:
`PagesExclusive` of `UbbdDataPages`, which it has itself in its simpler bitmap.
`UbbdDev` takes a device as created, which `UbbdSetup` does step by step;
`UbbdSetup` takes the work and the files of a device only for the references
they hold.

Abstractions:

- In `UbbdQueue` ring space and memory are outcomes (enough, or `-ENOMEM`, at
  most `MaxFails` times). The branch of `ubbd_queue_rq` for unsupported
  operations is left out: the disk does not advertise them.
- In `UbbdDev` the only request is the read of the partition table.
  `ubbd_dev_destroy` is a step of its own, which lets it finish later than the
  thread that dropped the last reference goes on. `ubbd_free_disk` is the
  variant with `put_disk`: it clears the pointer, and a gendisk that was added
  and not deleted stays open to the block layer.
- `UbbdKring` gives the child of a fork an open file of its own.
- In `UbbdDataPath` DISCARD stands for all operations without data, and the
  backend, one thread, reads or writes a segment in one step; a fault on the way
  to it is three steps (look-up, `get_page`, mapping), and the release of a page
  three more.
- In `UbbdSetup` the set-up of the gendisk succeeds or fails as one step, and
  mappings and debugfs files are counted together.
- Statistics, tracing and debug output are left out. `complete_work_fn` is
  never queued in the code and has no action.

`UbbdDev`, `UbbdKring` and `UbbdSetup` have a variable `env`, fixed at the
start: the *races* that happen in a behaviour. A race is an interleaving or a
call that the code does not guard against (a second ADD_DISK while the first is
queued, an `mmap` after the last reference went, an ADD_DEV during the unload,
...). Properties say which races they need to be absent; `oops` records the use
of something that is gone, and a behaviour ends there.

## 3. Runs

| run | instance | distinct states | properties |
| --- | --- | --- | --- |
| `cmd_ring` | ring of 7 units, commands of 2 and 3, three requests, two completers, fairness | 150,146 | `RingBound` `Tiling` `SeIntact` `IdleRingEmpty` `ImplementsChannel` `SubmittedIsTaken` |
| `compl_ring` | four slots, two commands at a time and five in all, two completers, one repeated answer, a forced removal | 175,411 | `NoOverflow` `EntryIntact` `OwnResult` |
| `queue_force` | one queue, two requests issued three times, two completers, a stop, forced removals by netlink and timeout | 1,140,866 | `OneOwner` `EndedHasSe` `ForcedRemovalDrains` `ImplementsBlockIO` `StoppedAdmitsNothing` |
| `queue_restart` | two queues, stops and starts, an unforced removal | 348,413 | `StoppingHasInflight` |
| `queue_timeout` | two queues, a backend that may be dead, fairness | 60,934 | `EveryRequestEnds` |
| `data_pages` | three pages, two requests of up to three segments, reserves 0 and 2 | 993,420 | `PagesExclusive` `OwnedHasPage` `CountExact` |
| `data_path` | three page indexes, three pages of two words, two requests of one and of two bios, a removal | 1,361,008 | `WriteDelivered` `ReadDelivered` `PteCurrent` `SigbusOnlyRemoved` |
| `dev` | one device, two openers, two mappings, all 32 sets of races, fairness | 216,244 | `KrefExact` `LiveDiskHasDevice` `NoOops` `DiskFreedWithDevice` `RemovingStays` `CommandsReturn` |
| `kring` | two processes, one worker, forks, read-only mappings or late calls, fairness | 594,636 | `WakeNotLost` `ReadyIsNoticed` `OneBackend` `ReadersLeave` `NoOops` `CommandHandled` |
| `setup` | two devices of two queues, four CPUs, one file per device, no race, an unload beside ADD_DEV, or the other races | 690,173 | `NoOops` `NothingLeft` `Accounted` `NamesUnique` `ReplyFits` |
| `queue_lost_removing` | violated | | `RemovingIsFinal` |
| `queue_unforced` | violated | | `InflightFinishedFirst` |

Run one with `tlc -config MCQueueForce.cfg MCQueue`, and so on; `PROJECT.json`
names the module and the configuration of each run.

**What the passing runs show.** The command ring never overwrites a command that
is in use and ends up empty, whatever order commands finish in. The completion
ring does not overflow although the backend never looks at `compr_tail`, and an
entry stays intact until it is read, because its command is not retired before.
Every request is ended by exactly one of worker, completion and removal; a
completion that a restarted backend posts twice ends nothing, since ids are not
reused. A forced removal drains the queues although completions run beside it,
and a request of a dead backend ends through its timeout. No request uses a page
that another has or that was freed, even though the page counter loses updates;
until one is lost the counter is exact on every error path. Data arrives in the
words it was meant for, for requests of several bios and for those that were
requeued. The backend has no page mapped that its index has lost, although its
faults take no lock against the release of pages, as long as no forced removal
ends the command it follows (see below). References on a device are exact on
every path, a gendisk that can be opened has its device (but for a timeout that
has yet to delete it), and commands return although the netlink handler and the
add_disk work wait for each other, unless a read of the partition scan is never
answered. No wake-up of the
backend is lost. A failed ADD_DEV and a failed load give back what they took, at
whichever step they fail; an unloaded module leaves nothing behind.

**Findings.**

- `queue_lost_removing`: `fetch_inflight_req` tests for STOPPING and then stores
  STOPPED (`ubbd_req.c:629-631`) without `state_lock`. A removal that stores
  REMOVING in between is overwritten, against the comment at
  `ubbd_dev.c:985-986`. If the queue is then started again, a worker passes the
  status check while the removal goes on, and `OneOwner` fails: the removal can
  end a request that is listed and has no command yet. `queue_force` therefore
  has stops and no starts, and `queue_restart` an unforced removal only.
- `queue_unforced`: an unforced removal checks `open_count`, and an open after
  the check leaves requests inflight that the removal does not end, against the
  comments at `ubbd_dev.c:1000` and `ubbd_req.c:678-679`; only an `io_timeout`
  that fires later, and removes by force, still can. If the opener is add_disk
  itself there is no such timeout, and the netlink handler never returns.

More observations. A fault can fall between the unmapping of a page
(`ubbd_req.c:92`) and its erasing (94), and its `get_page` (`ubbd_kring.c:661`)
after the free (95). `PteCurrent` shows where this can happen at all: for a
command that a forced removal has ended while the backend still follows it.
There it does happen; the backend then has a page mapped that may have been
freed, at an index that no request uses any more. `CommandsReturn` has an
exception too (`Unanswered`): during add_disk the timeout of requests is
UINT_MAX (`ubbd_dev.c:599`), which `__timeout` answers by starting the timer anew
(`ubbd_req.c:795`), so if the backend does not answer the read of the partition
table, INTRANS stays set, and a REMOVE_DEV or REMOVE_DISK that waits for it keeps
netlink from every other command. The removal by a timeout holds no reference:
a REMOVE_DEV between its unlock and its `del_gendisk` (`ubbd_dev.c:1007, 1010`)
clears the pointer, and leaves a gendisk that can be opened without a device
(`TimeoutDeletes` in `LiveDiskHasDevice`). The comment at `ubbd_dev.c:983` says that the flush avoids a
race with `complete_work`; completions do not run on that workqueue, and it is
the inflight list's lock that keeps requests from being ended twice
(`OneOwner`). A request that finds the ring full is requeued with its pages, and
the next `ubbd_queue_rq` clears the record of them (`ubbd_req.c:553`): the pages
stay marked in the bitmap (`leaked` in `UbbdDataPages`). What the properties
assume, and the driver does not enforce, is stated in three named assumptions:
`RingsFit` of `UbbdComplRing` (the completion ring has two slots for every
command the command ring can hold; the sizes are in a header outside this
repository), `IndexesFit` of `UbbdDataPath` (at most 2^19 data pages) and its
`PagesOf4K` (`ubbd_release_page` multiplies by 4096 where all else uses
`PAGE_SIZE`: with larger pages it would unmap another index).

**Bounds.** Command ring: seven units hold up to three commands, so that every
combination of wrap, padding and exact fit occurs, and three requests complete
in any order. Completion ring: four slots are the fewest that `RingsFit` allows
for two commands and a repeated answer, and five commands wrap it. Queue: with
three issues on two requests a tag is used again while a completion of its first
use is around; one failure and one repeated completion reach each requeue path
and each stale completion. Pages: two requests of three segments compete for
three pages, so that allocation fails in the middle of a request; `U32 = 5`
makes the counter wrap within reach. Data path: three bio_vecs with
`INLINE_PI_MAX = 1` use both index arrays; three pages for three indexes let an
index come back with the page of another; `U32 = 16` is the smallest power of two that
`IndexesFit` allows.
Kring: `EVENTS = 3` makes the event counter wrap; a listener is assumed never to
lag a whole turn of the 32-bit counter. One worker is enough to meet every state
of a reader, and the invariants are proved for any number. Setup: two devices
are enough for one to be created while the other is destroyed, and two queues
for a failure behind a complete one. Deadlock is not checked, because every
model may come to rest (issues are bounded, a device may stay removed). Symmetry
is used in runs without liveness properties only.

**Fairness.** Kernel threads that can run do run (WF); a thread that waits for
a lock which is free again and again gets it (SF). The backend in `cmd_ring` and
`kring` handles what it has been told of; in `queue_timeout` it need do nothing,
and instead the block layer's timer fires for a request that stays started.
That is an assumption on the configuration: a request whose timeout is UINT_MAX
is only given a new timer (`ubbd_req.c:795-796`), and `EveryRequestEnds` says
nothing of it. In `dev` no fairness is assumed of the backend, and the reads that
have no timeout are there: `CommandsReturn` excludes behaviours in which such a
read is inflight for ever, and no others.

## 4. Proofs

Each theorem holds for every value of the constants that the named assumptions
of its module allow.

| module | theorem | statement |
| --- | --- | --- |
| `UbbdCmdRingProofs` | `RingInvariant` | `Spec => []RingInv` |
| | `TypeCorrect` | `Spec => []TypeOK` |
| | `RingNeverUsedUp` | `Spec => []RingBound` |
| | `RingStaysTiled` | `Spec => []Tiling` |
| | `EntriesStayIntact` | `Spec => []SeIntact` |
| | `WalkInvariant` | `Spec => [](RingInv /\ IdleInv)` |
| | `NothingLeftBehind` | `Spec => []IdleRingEmpty` |
| `UbbdComplRingProofs` | `ComplInvariant` | `Spec => []ComplInv` |
| | `CompletionsFit` | `Spec => []NoOverflow` |
| | `EntriesIntact` | `Spec => []EntryIntact` |
| | `ResultsNotMixed` | `Spec => []OwnResult` |
| `UbbdDataPagesProofs` | `PagesInvariant` | `Spec => []PagesInv` |
| | `NoPageShared` | `Spec => []PagesExclusive` |
| | `UsedIndexHasPage` | `Spec => []OwnedHasPage` |
| | `CountInvariant` | `Spec => []CountInv` |
| | `CounterRight` | `Spec => []CountExact` |
| `UbbdDataPathProofs` | `MappingCurrent` | `Spec => []PteCurrent` |
| | `DataInvariant` | `Spec => [](DataInv /\ MapInv)` |
| | `ReadsDelivered` | `Spec => []ReadDelivered` |
| | `WritesDelivered` | `Spec => []WriteDelivered` |
| | `NoSigbus` | `Spec => []SigbusOnlyRemoved` |
| `UbbdKringProofs` | `KringInvariant` | `Spec => []KringInv` |
| | `NoLostWakeUp` | `Spec => []WakeNotLost` |
| | `BackendNotices` | `Spec => []ReadyIsNoticed` |
| | `NoReaderLeft` | `Spec => []ReadersLeave` |
| | `UserInvariant` | `Spec => []UserInv` |
| | `BackendIsAlone` | `Spec => []OneBackend` |
| | `NoFileUsedAfterFree` | `Spec => []NoOops` |
| `UbbdQueueProofs` | `QueueInvariant` | `Spec => []QueueInv`, if `"start" \notin QueueOps` |
| | `RequestsHaveOneOwner` | `Spec => []OneOwner`, likewise |
| | `OnlySubmittedEnd` | `Spec => []EndedHasSe`, likewise |
| | `RemovalDrains` | `Spec => []ForcedRemovalDrains`, likewise |
| | `StopIsEffective` | `Spec => StoppedAdmitsNothing`, likewise |
| | `RequestPathImplementsBlockIO` | `Spec => ImplementsBlockIO`, likewise |
| | `StopEnds` | `Spec => []StoppingHasInflight`, if `"start" \notin QueueOps` or `"timeout" \notin Removers` |
| `UbbdDevProofs` | `DeviceInvariant` | `Spec => []SafeInv` |
| | `KrefIsExact` | `Spec => []KrefExact` |
| | `LiveDiskKeepsDevice` | `Spec => []LiveDiskHasDevice` |
| | `NothingUsedAfterFree` | `Spec => []NoOops` |
| | `NoDiskLeaked` | `Spec => []DiskFreedWithDevice` |
| | `RemovingIsFinal` | `Spec => RemovingStays` |

**Command ring** (`RingAssumption`). The invariant is `RingInv == TypeOK /\ LockInv /\ RingBound /\ Tiling /\
SeIntact`. None of its parts is inductive alone. `Tiling` needs `RingBound`:
a new entry lies in free space only if the space check leaves the reserve
untouched. `RingBound` needs `Tiling`: the tail advances by the length in the
header at the tail, which is within the used part because the live part is
tiled. `SeIntact` needs both, since it is the tiling that makes a DONE entry at
the tail different from every entry in use, and `LockInv` says who holds
`cmdr_lock` while the tail moves.

The argument is about three operations on a tiled ring: writing an entry at the
head extends the tiling (`WriteTiled`), retiring the entry at the tail shortens
it (`RetireTiled`), and setting a DONE flag keeps it (`MarkTiled`).
`SpaceIsEnough` turns the test of `submit_ring_space_enough` into the bound that
the first of them needs. Lemmas about `Dist` and `Update`, the modular distance
and step, carry the arithmetic, so that the lemmas for the single actions
(`PaddingKeeps`, `SubmitKeeps`, `CompleteKeeps`, `AdvanceKeeps`,
`BackendPadKeeps`) need no modular reasoning of their own.

`IdleRingEmpty` is about the loop in `advance_cmd_ring`, which runs only when a
command ends, while the backend retires paddings at any time without telling
the driver. It holds because a padding is always followed by a command, whose
end makes the loop run again. `IdleInv` says this (`EntryRight`), where the
backend is (`Walking`), that an entry is done only behind it and a padding is
done once it is behind it, and what a loop that has stopped leaves at the tail
(`Stuck`): an entry that is not done, or a padding whose command is not done. It
is claimed only until a forced removal, which ends requests that the backend
has not met.

**Completion ring** (`ComplAssumption`, `RingsFit`). `ComplInv` joins types and
five groups of facts: `Indexes` (an index is the number of entries posted or
taken, modulo the slots), `Owners` (a command is inflight, held or done, and the
ring's window of commands is bounded), `Counts` (at most `MaxCmds` commands are
submitted whose entry was not taken), `Window` and `Memory` (a slot holds the
last entry posted to it). `NoOverflow` needs `Counts` alone. `EntryIntact` needs
the chain in `Window`: while an entry is read, its command is not retired, so
less than `MaxCmds` commands are submitted behind it; each is answered once, so
less than `2 * MaxCmds` entries are posted after the one being read, which is
`RingsFit`. The counting is done with the theorems on finite sets.

**Data pages** (`PagesAssumption`). `PagesExclusive` and `OwnedHasPage` are
inductive together once the type of `pi` is known. Their proof does not mention
the counter: whatever it says, a page is freed only in the step that gives up
its index, under `pages_mutex`. `CountInv` is about the counter alone: until an
update is lost it equals `Balance` modulo 2^32, the pages there are, less those
whose `++` is still to come, plus those whose `--` is. Every step but the store
leaves `Balance` alone (`SilentStep`), and the store changes both by one
(`StoreCount`); `ModStep` is the arithmetic at the wrap.

**Data path** (`DataAssumption`, `PagesOf4K`, `IndexesFit`, and `BiosAssumption`: a
bio_vec is not empty and lies within a page, as `bio_for_each_segment` yields it).
`MapInv` adds to `PteCurrent` what is known of a page between its unmapping and
its free (`RelInv`: its index is unused, and it is not mapped again unless the
queue is removed) and of a fault between its look-up and the mapping
(`FaultInv`: its page is still the one of the index, or `Gone`, which is what
`PteCurrent` allows). `FaultInv` is not inductive without `DataInv`: that a fault
does not meet the release of its page before a removal holds because the
backend `Reaches` the index only while a bio_vec of a command that has not ended
`Holds` it. What is `Gone` stays so, since a removed queue gets no pages.
`IntOffset` shows that the product `page_index * 4096` keeps its
value as an `int`, and `FaultOfOffset` that the unmapped range is the page that
a fault at this offset maps; without the first, another page would be unmapped.

That the data arrives is not inductive: it depends on nobody else writing to the
pages of a request. `DataInv` says who uses which index. A bio_vec `Holds` its
index from `ubbd_get_data_pages` to `ubbd_req_release`, and the backend `Reaches`
it until it has followed its `iov`; no two bio_vecs use one index in either way
(`Apart`), and no two indexes have one page (`PagesApart`). The second kind of
use outlasts the first when a forced removal ends a request behind the backend's
back: the index may then be free, but no request starts on a removed disk, so
that nobody is given it again. `Local` and `Shared` say what the command, the
pages and the backend have at each place of a request, and `Delivered` what its
own memory has. The steps that write to pages are `GetPageStep`, `CopyTo` and
`BackendPages`; each is shown to change the page of its own bio_vec only, and
`Followed` that the backend's fault at an address leads to the index the address
was built from, at the same offset. The steps that concern one request are
instances of `PlainStep` and `FramedStep`.

**Kring** (`KringAssumption`). `KringInv` adds to `WakeNotLost` that a command
that is ready is counted (`ReadyCounted`) and that readers, once woken by the
unregistration, do not go to sleep again (`ReadersWoken`). All steps of a process
are instances of one lemma, `ProcessStep`. `UserInv` is about references:
`IdevExact` counts those on `idev` (the open files, and the registration until
`device_unregister`), which is what an `open` relies on that found the minor
while the device was registered; `Unregistering` says that a device with a
mapping is registered; `Mapped` that HAS_BACKEND is the one writable mapping.

**Request path** (`QueueAssumption`, and `"start" \notin QueueOps` in each
theorem but the last). The condition excludes `queue_start`: the first finding shows that a
queue whose REMOVING was overwritten can be started again, and then `OneOwner`,
`EndedHasSe`, `ForcedRemovalDrains` and `StoppedAdmitsNothing` fail (TLC finds
each violated when `queue_force` is given starts; it finds no violation of
`ImplementsBlockIO` there, whose proof uses the same invariant). Without starts no
queue becomes RUNNING again, which carries the argument. `OneOwner` is not inductive: that a removal splices only requests whose
worker is gone depends on what its flush waits for. `QueueInv` therefore adds
`Removing` (while a removal flushes, every worker of its queue that is past the
status check is among the work it waits for; a queue it has passed has no such
worker, and none can come), `Stopping` (the same for `queue_stop`, and for a
completer between its read and its write of the status), `Ids` (an id is 0 until
the request is in the ring, and then belongs to one request), `Completing` (a
completer holds what its entry names) and `GoneIsKept` (REMOVING is the mark of a
removal). `UbbdQueueSteps` has the invariant and the
steps of workers, backend and completers, `UbbdQueueProofs` those of stops and
removals. Steps that only their own actor sees are instances of three lemmas,
`QuietStep`, `LookStep` and `RemoverStep`; each of the others has a lemma of its
own. For the refinement, `IOStep` restates the steps of `UbbdBlockIO` under the
mapping, and every step of `Next` is shown to be one of them or a stutter:
`Ids` makes the request that an answer concerns unique.

`StopEnds` has an invariant of its own, `HaltInv`, that starts do not break:
every worker that is past the check of a STOPPING queue is one that the stop
waits for, and no removal splices the list of a queue that is STOPPING. The
second fails if the timeout handler removes the disk while netlink starts and
stops the queue (the same overwritten REMOVING; TLC then finds
`StoppingHasInflight` violated), so one of the two is excluded; netlink itself
does one thing at a time.

**Devices** (`DevAssumption`). `SafeInv` says that `DevInv` holds as long as
there was no oops. The count itself (`Counted`) is not inductive: that a handler
drops a reference that is counted depends on where it is, so `Netlinking` says
for each place of the netlink command whether its device is listed (it is until
`ubbd_dev_remove_dev` unlists it, and the reference of the list passes to the
handler there). `Removing` says what a removal of the disk may rely on; one that
a timeout started has no reference, and only that nothing was used after it was
freed keeps its device. `Adding` is the argument for INTRANS: while the work is
between its check of the status and its end, INTRANS is set and the status
PREPARED, so neither `ubbd_dev_remove_dev` nor `ubbd_dev_remove_disk` can take
the disk away or set REMOVING. `Visible` relates the gendisk to the pointer: it
is live from add_disk until somebody deletes it, and only a REMOVE_DEV before
the `del_gendisk` of a timeout takes it from its device before that. `Spared` is what follows from the absence of the
races `repeat` and `early`. `PutCounted`, `GetCounted` and `KeepCounted` carry
the arithmetic; each action has a lemma. `LiveDiskHasDevice` is claimed of the
state after an oops too, for which `LiveThroughOops` looks at the steps that can
end in one.

Only model-checked: the refinement of the command ring to a FIFO channel (its
content is what a recursive walk collects, and induction over data is beyond the
provers used), all liveness properties (temporal reasoning with fairness and
ENABLED is beyond them too), the rest about `UbbdQueue` with queues that
are started again, and everything about `UbbdSetup`.

## 5. Not modelled

- The fields and queue limits that `ubbd_init_disk` and `ubbd_dev_device_setup`
  set: calls into the block layer; in the models a gendisk is there afterwards
  or is not.
- Attribute policies and parsing of netlink messages, and the tables of
  operations: handled by the netlink library before a handler runs.
- Statistics, tracing, and what debugfs and sysfs files show.
- Time: a timeout may fire for any request that is started. The u32 products of
  the time limit and of the reserve (`ubbd_dev.c:122, 368, 813`) change when a
  timeout fires and how many pages are kept, which no property depends on.
- `fasync`: it only adds a SIGIO to the wake-up at unregistration, which is
  modelled.
- `complete_work_fn`, the devm variant of the registration and
  `ubbd_end_inflight_reqs`: nothing in the driver uses them.
- `ubbd_q->inode`, which `ubbd_kring_unmap_range` follows: the backend of
  `UbbdDataPath` has opened the device.
- Compatibility branches for older kernels (`#ifdef HAVE_...`): one variant is
  modelled.

The backend, the block layer, the netlink library and workqueues are modelled as
the driver uses them. A composition of rings, pages and request path in one
module is left out: its states are beyond TLC for the bounds at which the parts
are interesting, and the assumptions of one module on the next are stated in
section 2.
