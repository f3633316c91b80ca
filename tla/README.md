# TLA+ models and proofs for xcp-ng-ceph-rbd

This directory models the storage stack of this repository: the processes that
create, snapshot, clone, destroy, collect and migrate RBD volumes, and the kernel
client (krbd and libceph) below them.  TLC checks the modules on small instances;
TLAPS checks the theorems for every instance.

## The system

| part | source | what it does |
| --- | --- | --- |
| SMAPIv3 volume plugin | `rbdvol/volume/org.xen.xapi.storage.rbd-vol/` | one short-lived Python process per call of xapi: `Volume.*` and `SR.*` |
| garbage collector | `rbdvol/libs/dicode/libs/gcjob.py`, `rbd_gc.py` | job files in a per-host spool; one detached worker per job flattens clones and removes trashed objects |
| control-plane backend | `rbd_backend.py` | the same calls over the Ceph dashboard's REST interface or librbd |
| storage migration | `blkmirror.py`, `rbd_blkmir.py`, `datapath.py` | pre-copies an image by snapshot diffs, and ships the last diff while the guest is paused |
| krbd | `kernel-modules/src/rbd/rbd.c` | maps an image as a block device: exclusive lock, object requests with copyup and object map, shared clients, parents |
| libceph | `kernel-modules/src/libceph` | OSD client, monitor client, messengers v1 and v2, authentication, osdmap, CRUSH, striper |

The Python processes run concurrently on every host of a pool and share only the
Ceph pool and, per host, a few files; the only mutual exclusion is xapi's lock on a
volume key.  In the kernel, work queues, timers, socket callbacks and the threads
of callers share the structures of one client; the clients of a cluster meet in the
exclusive lock of an image.

## Modules

| module | models |
| --- | --- |
| `RbdStore` | external: images and snapshots of one SR as the backend calls see them; `Reply` is one call: answered, refused, lost, or done with the reply lost |
| `GcSpool`, `GcWorker` | `gcjob.py`: job files, `Spawn`, `SweepAndSpawn`; `rbd_gc.py`: one action per backend call |
| `VolumeOps` | `volume.py`: `create`, `snapshot`, `clone`, `destroy`, one action per backend call |
| `RbdVol` | the composition, `SR.ls`, the properties, the refinement mapping and the inductive invariant |
| `VolumeStore` | abstract specification: what xapi is promised about keys |
| `BlkMirror` | the migration: the worker, `mirror`, `stat`, `finalize`, `cancel`, and the branch of `Datapath.detach` that calls them |
| `RbdLock` | the exclusive lock of `rbd.c`: acquire, release, break, watch errors, the three notifications, the ordered work queue |
| `RbdIo` | image and object requests of `rbd.c`: read, write, copyup, object map, snapshots, flattening |
| `RbdDev` | `do_rbd_add` with its error labels, `do_rbd_remove`, open, close, header refresh, reference counts |
| `OsdRequests`, `OsdClient` | `osd_client.c`: targets, sessions, requests, watches, map changes, backoffs, timeouts |
| `MsgrCon`, `Messenger` | a connection of either protocol: queues, faults, reconnects, resets; worker, owner, socket and peer |
| `MsgData`, `FrameOut`, `FrameIn` | the bytes of messages: the data cursor, writing and revoking, reading and skipping |
| `AuthX`, `MonClient` | cephx and none; hunting, sessions, subscriptions, commands, tickets |
| `Crush`, `OsdMap`, `Striper`, `WorkPool` | placement for every outcome of the hash, maps from increments, striping and its inverse, the pool of CRUSH workspaces |
| `MC*` | the modules for TLC: scenarios, small sets, symmetry |
| `RbdVolTypes`, `RbdVolProofs`, `RbdVolRefines` | proofs about `RbdVol` |
| `BlkMirrorControl`, `BlkMirrorProofs` | proofs about `BlkMirror` |
| `RbdLockProofs`, `WorkPoolProofs` | proofs about `RbdLock` and `WorkPool` |

## How the models correspond to the code

The unit of a step is what nobody else can interrupt: a backend call in the Python
parts, a critical section of the lock that protects the structure in the kernel.
What the code does between two such points belongs to the step of the first.  Data
is cut to what the properties tell apart: names are model values with a kind,
payloads are numbers or positions, errors are the classes the code distinguishes.
`PROJECT.json` maps each definition to the lines it stands for.

**Volumes.**  `img`, `parent` and `snap` are the Ceph side: which name an image or
snapshot has (unused, its uuid, a clone base, a trash name, gone), which snapshot a
clone hangs on, whether a snapshot is protected.  `jobs` are the files of the spool,
`launched` the workers that were started and have not read theirs.  `task[t]` is a
plugin process, `worker[w]` a collector: operation, next call, local variables.
`acked`, `asked` and `destroyed` record what xapi was told and asked for.  The
roll-backs share their `try` as in the code, so an unprotect that fails skips the
removal after it.

**Migration.**  `proc` holds the worker and the plugin call of xapi; `status`, `job`
and `stop` are the three files; `snaps` the `xcp-sxm-*` snapshots.  A block carries
the number of the guest request that last touched it, negative for a discard.
`write_status` is two steps, a read and a replacement.

**Lock.**  `dev[d]` is the `rbd_device` of one client with its work queue; `holder`,
`watchers`, `blocklist` and the notification under way are the cluster.  Each call to
the cluster is a step; `lock_rwsem` held for write across one is the field `sem`.

**Image I/O.**  An OSD op takes effect (`OsdExec`) and its reply is handled later
(`Callback`), so the ops of two requests interleave; `content` says what a block may
hold by what was requested of it.

**Device.**  Every step of `do_rbd_add` may fail; the image header changes meanwhile
and notifications start refreshes.

**OSD client, messenger, monitor client.**  Operators on the structure (`OsdRequests`,
`MsgrCon`, `AuthX`) are what the code does with the mutex held; the actions
(`OsdClient`, `Messenger`, `MonClient`) are the handlers and callbacks.  Peers and
sockets are external: a connection breaks at any moment, and what was written before
may still be read.

**Maps and placement.**  The hash of CRUSH is any function, chosen lazily; one step
is one try.  `OsdMap` compares the client's map, built from increments, with the map
the monitors mean.

## Runs

| run | configuration | question |
| --- | --- | --- |
| `volumes` | `MCRbdVol.cfg` | is a reported volume ever lost (`NothingLost`), a destroyed snapshot listed again, anything but trash collected; is every step one of `VolumeStore` (`Implements`)? Also checks `IInv`, the invariant of the proofs |
| `volumes_crash` | `RbdVolCrash.cfg` | is all trash purged and every job file deleted, with one crash or lost call anywhere? |
| `mirror` | `MCBlkMirror.cfg` | is the copy exact (`FinalExact`), made by one process at a time (`OneCopier`), on top of the baseline on record (`BaselineShipped`); does the pre-copy report and a detach end? Also checks `MInv`, the invariant of the proofs |
| `lock` | `MCRbdLock.cfg` | is there one unfenced owner (`OneOwner`), is I/O covered by the lock (`IoUnderLock`)? `LockStateSound` adds types, the invariant of the proofs, and what an unmap leaves |
| `lock_live` | `RbdLockLive.cfg` | is a request that waits for the lock woken? |
| `image_io` | `MCRbdIo.cfg` | do reads return what was written, do copyups lose nothing, does the snapshot keep its content, does the object map never hide an object (`IoStateSound`)? |
| `device` | `MCRbdDev.cfg` | does the header follow the image, are clients, parents and module counted exactly on every error path (`DevStateSound`), does every call return? |
| `osd_client` | `MCOsdClient.cfg` | do writes take effect in order and completions tell the truth (`EffectsExact`), is a request always in reach of the event that completes it (`ClientStateSound`), does every request complete and every lost watch get reported? |
| `messenger` | `MCMessenger.cfg` | is a session exact in both directions (`SessionExact`), is no wakeup lost and no warning hit (`ConStateSound`), is what is queued delivered? |
| `mon_client` | `MCMonClient.cfg` | do requests and subscriptions follow the session (`MonStateSound`), do callers return, do OSDs accept the authorizer in the end? |
| `libceph_parts` | `MCLibceph.cfg` | five parts side by side, each behaviour one of them: CRUSH (`CrushSound`), maps (`OsdMapSound`, `Retargeted`), striping against its inverse (`StripedExact`), the workspace pool (`PoolSound`), frames byte by byte (`FramesSound`) |
| `mirror_discard` | `BlkMirrorDiscard.cfg` | `blkmirror.py:19` says "so no write is missed": TLC finds a copied object that the guest then discards and that keeps its old contents on the destination |

All but the last pass.

## Bounds

`volumes`: two images and two snapshots give every relation the volume code
distinguishes (a clone and its parent, a snapshot of a clone, two snapshots of one
image); two plugin processes and a worker give every pairwise race; one fault (lost
request, lost reply, process death) is met at every point.  The proofs lift all of
these bounds for the safety properties and the refinement.  `volumes_crash` has one
snapshot and one plugin process, which creates, clones and destroys while the worker
runs.

`mirror`: two blocks, so that one is copied and the other not when a pass is cut
short; three passes, one more than `max_iters`, so that the worker goes on after it
converged; two guest requests; two faults, so that a killed worker and a failed call
of the teardown meet.  `PromptPid` says that `mirror()` records the pid before the
worker, a new Python interpreter, writes its first status.  `write_status` is not
atomic: otherwise the worker's first write may undo the recording, `_stop_worker`
waits for nobody, and with `PromptPid = FALSE` TLC finds `OneCopier`,
`BaselineShipped` and `FinalExact` violated.  Discards are what `mirror_discard` is
about.

`lock`: two clients, one request each, two watch registrations, one fault.  With two
faults the invariants hold too (5.3 million states, seven minutes).  `lock_live` has
one watch registration and no faults, to keep the check of a liveness property small.

`image_io`: two objects of two blocks, the parent covering half of the second, so
that extents cover a block, an object, and parts of two objects; two requests, one
failed op, one snapshot, one flatten at any moment.

`device`: two slots; a shared and an unshared client, a clone that is flattened,
resized and snapshotted under its mapping, a format 1 image, parent chains up to and
beyond the limit; one failing step.

`osd_client`: two OSDs, two requests or one watch, twenty histories of two or three
epochs, one fault each.  `messenger`: up to two messages each way and two faults.
`mon_client`: two monitors, one command, up to three rotations of the secret, two
faults.  `libceph_parts`: eleven CRUSH cases with up to six devices, three or four
epochs of map changes, stripes of up to three units over three objects, three
mappers on two processors, and messages of every shape with pages and cipher blocks
of two bytes.

## Fairness

Volumes: a collector that runs goes on; a started one gets to run (`Worker` only
limits how many run at once); xapi scans an attached SR periodically, so `SR.ls`
recurs on the hosts in `Scanner`, and a job file that stays is stale for some scan.
No volume operation is obliged to make progress.  Migration: the worker and a plugin
call that has begun go on; xapi is not obliged to poll, pause or detach.

Kernel: work that is queued is executed and armed timers fire (the workqueue and
timer guarantees of the kernel), a thread inside a call goes on, and a peer that is up
reads and answers.  In `OsdClient`, `Messenger` and `MonClient` this is stated as
`[]<>~Due \/ []<><<Step>>`, the weak fairness of an actor with the condition under
which it has work written out.  Faults, new maps, new requests, closes and unmaps are never obliged
to happen.
In `RbdLock` a peer's notify callback is strongly fair: it waits for `lock_rwsem`,
which a kernel rwsem hands over in the order of its waiters however often
`lock_dwork` takes it.

## Proofs

TLAPS proves the following for every value of the constants.  The named assumptions
(`StoreAssumption`, `WorkerAssumption`, `MirrorAssumption`, `LockConstants`,
`PoolAssumption`) only say that constants are of their kind: bounds are numbers, the
blocks of an image and the concurrent mappers are finite sets, "no locker" is not a
client.

| theorem | states |
| --- | --- |
| `SafeStore` (`VolumeStore`) | the abstract store keeps its promise |
| `Invariance`, `TypeCorrect` (`RbdVolProofs`) | `IInv`, and with it `TypeOK`, always holds |
| `DestroyedSnapStaysGone`, `CollectsOnlyTrash` (`RbdVolProofs`) | `DestroyedSnapGone`, `OnlyTrashCollected` |
| `Refinement`, `NoVolumeLost` (`RbdVolRefines`) | the plugin implements `VolumeStore`; hence `NothingLost` |
| `MirrorInvariant` (`BlkMirrorProofs`) | `MInv` always holds |
| `FinalizeAlone`, `NoSnapshotLeft` (`BlkMirrorProofs`) | with `PromptPid`: `OneCopier` and `SnapsSwept` |
| `CutoverExact`, `BaselineExact` (`BlkMirrorProofs`) | with `PromptPid` and without discards: `FinalExact` and `BaselineShipped` |
| `LockInvariant`, `LockExcludes`, `IoIsCovered` (`RbdLockProofs`) | `LockInv`; hence `OneOwner` and `IoUnderLock` |
| `PoolIsSound` (`WorkPoolProofs`) | `PoolSound` |

**Volumes.**  `NothingLost` is not inductive: whether a removal is harmless depends
on what the process that makes it saw earlier.  `IInv` records that.  `TasksOK` says,
for each operation and each call, what its process may still rely on: a destroy of
an image has asked for every reported snapshot that is still listed in it, which
stays true because `KeysLocked` keeps other operations of that image out; a
roll-back only removes a snapshot that was not reported.  `JobsOK` and `WorkersOK`
say that what a job names is trash, and that a worker removes only that snapshot or
snapshots of that image; trash never gets its name back.  `AckedExist`, `SnapsOwned`
and `DestroyedRetired` tie what xapi was told to the pool.  `IInvStep` has one lemma
per kind of step; most conjuncts survive because names only move forward
(`MonoStep`), and the frame lemmas say so once.

**Migration.**  `MInv` has three layers, each needing the one before.  `Control`:
where the two processes may be and what their local variables then are; it holds
whatever is assumed.  `Stopped`: the pid stays on record although worker and plugin
overwrite each other's status file, because each writes back what it read and both
read it after it was recorded; so finalize and cancel leave `_stop_worker` only when
the worker is gone, and the sweep is the last to see the snapshots.  `Shipping`:
snapshots are ordered by their numbers and bounded by the disk (`Ordered`), during a
pass the destination lies between the baseline and the snapshot that is shipped
(`WorkerShips`), the baseline on record was shipped (`Recorded`), and the last diff
brings the destination to the paused disk (`FinalShips`).  A worker killed in the
middle of a pass leaves the destination between two snapshots; that a later diff
from the older one still gives the exact contents is what the inequalities in
`Ordered` are for.  `BlkMirrorControl` holds the lemmas on what each action does to
the two process records and the first two layers, `BlkMirrorProofs` the third.

**Lock.**  `OneOwner` speaks of what devices believe, the cluster only knows a locker
and a blocklist.  `LockInv` connects them (`DevSafe`): a device that believes it owns
the lock is the locker with its own cookie, or is blocklisted; I/O is in flight only
while it believes so; when it is about to unlock or to change the cookie it holds
`lock_rwsem` and no I/O is left; and a locker that is about to be broken has been
blocklisted already.  The last two are what makes the invariant inductive: they carry
what `rbd_quiesce_lock` and `rbd_try_lock` established to the later step that uses
it.  Most handlers only touch queues and flags (`HandlersAlike`, `AlikeSafe`); what
remains is one lemma per part of the protocol.

**Workspace pool.**  `PoolSound` is inductive as it stands: `OneStays`, that one
workspace is idle or at work and never only being made or freed, is what a sleeper
relies on.  `DoesCount` and `CountMove` turn a step of one mapper into a change of the
cardinalities once.

Only model-checked: the liveness properties (`TrashPurged`, `SpoolDrains`,
`Converges`, `DetachEnds`, `RequestsWoken`, `CallsReturn`, `RequestsComplete`,
`LossReported`, `Progress`, `CallersReturn`, `OsdAuthorized`), which need fairness and
`ENABLED`; of `LockStateSound` the types of the work queue, which is filtered by
`SelectSeq`, and what an unmap leaves; `Crush`, `OsdMap`, `Striper`, `OsdRequests`,
`MsgData` and the frames, which are recursive or fold over sequences, so that what
they compute needs induction over data; and for now `RbdIo`, `RbdDev`, `OsdClient`,
`Messenger` and `MonClient`.

## Where the code does less than one might expect

Besides `mirror_discard`, the models reach the following.  They are outside the
passing runs, by a guard or a scenario as named, since no passing run can state
their absence.

* Destroy of an image: the collector removes a trashed snapshot after `destroy`
  listed it (`volume.py:219`); `not_found` ends the destroy as success and the image
  stays listed.  `NothingLost` and the refinement allow it.
* Migration: a worker that fails after `complete` was reported makes the detach
  cancel and return normally; a detach that dies after it marked the mirror finalized
  makes the next one ship nothing; finalize may hold a baseline that the worker
  removes before it stops, and then fails though no call failed.
* `rbd.c`: a `lock_dwork` that a failed `set_cookie` queued may run after
  `rbd_dev_image_unlock` and leave the lock with an unmapped device
  (`UnmapLeavesNothing` allows it).  `rbd_get_client` may find a client whose last
  reference was just dropped, and a failed allocation of a device id or work queue
  puts the client twice: `RbdDev` sets `oops`, after which nothing is claimed, and
  `MCRbdDev` leaves the second failure out.  A refresh that fails is not retried
  (`stale`).
* `osd_client.c`: a watch whose loss the client learns of while the OSD restarts
  (`RestartedUnderWatch`: `LossReported`), a pool deleted in the epoch after the one
  that gave a request its OSD (`DeletedAfterMapped`), a map message that fails to
  decode half way (`LateMapErrors`: `ClientStateSound`).
* `mon_client.c`: a session closed while a handler holds its answer (`Racing`:
  `NoBug`), an OSD that shares a map while the session is lost (`Sharing`:
  `CallersReturn`).
* Messenger: a lossless v1 connection that is closed, opened and then faults; a v1
  message revoked behind its header, a secure one revoked before another (`late`).
* `osdmap.c`, `mapper.c`: an increment that runs out of memory leaves a map in pieces
  (`mark = "torn"`); `chooseleaf_indep` of devices may keep a device that is out.

## Not modelled

`PROJECT.json` lists every component with its status.  Left out for good: the krb5
transforms, the ciphers, and the encoding, option parsing and debug code of libceph
and krbd (computation on bytes, no protocol), packaging and build scripts.

Left out of this project's scope: the SMAPIv1 driver, the qemu storage daemon
datapath, tapdisk's CBT logs, image-meta, and the REST transport below the backend
calls.  Inside the modelled parts: `revert`, `resize` and the `set` calls; the nbd
wiring of a migration and the page cache of the destination device, whose write
errors `copy_delta` ignores at `fsync`; sparse reads; `statfs`; the decoding of
monmaps and crush maps.
