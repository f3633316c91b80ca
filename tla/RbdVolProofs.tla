---------------------------- MODULE RbdVolProofs ----------------------------
(***************************************************************************)
(* Proofs about RbdVol, for any sets of images, snapshots, hosts,          *)
(* processes and workers and any number of faults.                         *)
(***************************************************************************)
EXTENDS RbdVolTypes

(***************************************************************************)
(* What no step of any process does to the store: bring an image or a      *)
(* snapshot back from the trash, move a snapshot to another image, or      *)
(* create one outside an image.                                            *)
(***************************************************************************)
ImageMono ==
  \A i \in Image :
    /\ img[i] # "free" => img'[i] # "free"
    /\ img[i] \in {"trash", "gone"} => img'[i] \in {"trash", "gone"}

SnapMono ==
  \A s \in Snap :
    /\ snap[s].name # "free" =>
         /\ snap'[s].img = snap[s].img
         /\ \/ snap'[s].name \in {snap[s].name, "gone"}
            \/ snap[s].name = "uuid" /\ snap'[s].name = "trash"
    /\ snap[s].name = "free" /\ snap'[s].name \notin {"free", "gone"} =>
         snap'[s].img \in Image /\ img'[snap'[s].img] = "uuid"

Mono == ImageMono /\ SnapMono /\ asked \subseteq asked'

LEMMA StoreSame ==
  ASSUME IInv, img' = img, snap' = snap, asked' = asked PROVE Mono
BY DEF Mono, ImageMono, SnapMono, IInv, TypeOK, StoreTypeOK

\* Changing the protection of a snapshot, or renaming one that exists.
LEMMA SnapChanged ==
  ASSUME IInv, NEW s \in Snap, img' = img, asked' = asked,
         \/ snap' = snap
         \/ \E p \in BOOLEAN : snap' = SnapProtected(s, p)
         \/ snap' = SnapNamed(s, "gone")
         \/ snap[s].name = "uuid" /\ snap' = SnapNamed(s, "trash")
  PROVE  Mono
<1>1. snap \in [Snap -> SnapRecord]
  BY DEF IInv, TypeOK, StoreTypeOK
<1> QED BY <1>1 DEF Mono, ImageMono, SnapMono, SnapRecord, SnapProtected, SnapNamed

\* Creating an image, or renaming one.
LEMMA ImageChanged ==
  ASSUME IInv, NEW i \in Image, snap' = snap, asked' = asked,
         \/ img' = img
         \/ img[i] = "free" /\ \E nm \in {"uuid", "gone"} : img' = ImageNamed(i, nm)
         \/ img[i] = "uuid" /\ img' = ImageNamed(i, "trash")
         \/ img' = ImageNamed(i, "gone")
  PROVE  Mono
<1>1. img \in [Image -> ImageName]
  BY DEF IInv, TypeOK, StoreTypeOK
<1> QED BY <1>1 DEF Mono, ImageMono, SnapMono, ImageNamed

\* Which operation a process executes, by where it is.
LEMMA TaskAt ==
  ASSUME IInv, NEW t \in Task, Active(t)
  PROVE  /\ task[t].img \in Image
         /\ task[t].op = "destroySnap" => task[t].snap \in Snap
         /\ task[t].pc \in {"protect", "undoUnprotect", "undoRemove"} => Making(t)
         /\ task[t].pc = "clone" => task[t].op = "clone"
         /\ task[t].pc = "rename" => task[t].op = "destroySnap"
         /\ task[t].pc \in {"spawn", "unprotect", "remove"} =>
              task[t].op \in {"destroySnap", "destroy"}
         /\ task[t].pc \in {"renameImg", "removeImg", "retryImg"} => task[t].op = "destroy"
         /\ task[t].pc \in {"protect", "clone", "undoUnprotect", "undoRemove", "rename",
                            "unprotect", "remove"} => task[t].snap \in Snap
BY DEF IInv, TasksOK, TaskOK, MakingOK, DestroySnapOK, DestroyOK, OfImage, Active, Making,
       TypeOK, OpsTypeOK, TaskRecord

\* The snapshot a worker is removing.
LEMMA PurgedSnap ==
  ASSUME IInv, NEW w \in Worker, worker[w].pc = "remove"
  PROVE  worker[w].snap \in Snap
BY RunningWorker DEF IInv, TypeOK, WorkersOK, WorkerOK, MayPurge, OfImage, Object

\* No step of any process breaks Mono.
LEMMA MonoStep ==
  ASSUME IInv, [Next]_vars PROVE Mono
<1>1. ASSUME NEW i \in Image, Create(i) PROVE Mono
  BY <1>1, ImageChanged DEF Create
<1>2. ASSUME NEW s \in Snap, CloneSnap(s) PROVE Mono
  BY <1>2, ImageChanged DEF CloneSnap, Cloned
<1>3. ASSUME NEW t \in Task, NEW i \in Image, NEW op, NEW nm \in {"uuid", "clonebase"},
             TakeSnap(t, i, op, nm)
      PROVE  Mono
  <2>1. PICK s \in Snap, r \in Results :
          /\ snap[s].name = "free"
          /\ Reply(ListedImage(i), TRUE, r)
          /\ snap' = IF Done(r) THEN SnapCreated(s, i, nm) ELSE SnapNamed(s, "gone")
    BY <1>3 DEF TakeSnap
  <2>2. snap \in [Snap -> SnapRecord]
    BY DEF IInv, TypeOK, StoreTypeOK
  <2>3. Done(r) => img[i] = "uuid"
    BY <2>1 DEF Reply, Done, ListedImage
  <2>4. img' = img /\ asked' = asked
    BY <1>3 DEF TakeSnap
  <2> QED BY <2>1, <2>2, <2>3, <2>4
             DEF Mono, ImageMono, SnapMono, SnapCreated, SnapNamed, SnapRecord
<1>4. ASSUME NEW t \in Task, NEW i \in Image, NEW sxm \in Sxm, Destroy(t, i, sxm) PROVE Mono
  <2>1. img' = img /\ snap' = snap /\ asked \subseteq asked'
    BY <1>4, DestroyStarts DEF Destroy, Refused, UserSnaps
  <2> QED BY <2>1 DEF Mono, ImageMono, SnapMono, IInv, TypeOK, StoreTypeOK
<1>5. ASSUME NEW t \in Task, NEW s \in Snap, DestroySnap(t, s) PROVE Mono
  BY <1>5 DEF DestroySnap, Mono, ImageMono, SnapMono, IInv, TypeOK, StoreTypeOK
<1>6. ASSUME NEW t \in Task, TaskStep(t) PROVE Mono
  <2>1. CASE Protect(t)
    BY <2>1, TaskAt, SnapChanged DEF Protect, Protected, Active
  <2>2. CASE UndoUnprotect(t)
    BY <2>2, TaskAt, SnapChanged DEF UndoUnprotect, Active
  <2>3. CASE UndoRemove(t)
    BY <2>3, TaskAt, SnapChanged DEF UndoRemove, Active
  <2>4. CASE Clone(t)
    BY <2>4, ImageChanged DEF Clone, Cloned
  <2>5. CASE Rename(t)
    <3>1. task[t].nm = "uuid" /\ task[t].snap \in Snap
      BY <2>5, TaskAt DEF Rename, Renamed, Active, IInv, TasksOK, TaskOK, DestroySnapOK
    <3>2. snap' = snap \/ (snap[task[t].snap].name = "uuid"
                             /\ snap' = SnapNamed(task[t].snap, "trash"))
      BY <2>5, <3>1 DEF Rename, Renamed, Found, Reply, Done
    <3> QED BY <2>5, <3>1, <3>2, SnapChanged DEF Rename, Renamed
  <2>6. CASE SpawnGc(t)
    BY <2>6, StoreSame DEF SpawnGc, TaskObject, storeVars
  <2>7. CASE Unprotect(t)
    BY <2>7, TaskAt, SnapChanged DEF Unprotect, Active
  <2>8. CASE Remove(t)
    BY <2>8, TaskAt, SnapChanged DEF Remove, Removed, RemoveNext, Active
  <2>9. CASE RenameImg(t)
    BY <2>9, TaskAt, ImageChanged DEF RenameImg, Renamed, Reply, Done, ListedImage, Active
  <2>10. CASE RemoveImg(t)
    BY <2>10, TaskAt, ImageChanged DEF RemoveImg, Active
  <2>11. CASE CrashTask(t)
    BY <2>11, StoreSame DEF CrashTask
  <2> QED BY <1>6, <2>1, <2>2, <2>3, <2>4, <2>5, <2>6, <2>7, <2>8, <2>9, <2>10, <2>11 DEF TaskStep
<1>7. ASSUME NEW w \in Worker, NEW j \in launched, Begin(w, j), UNCHANGED opVars PROVE Mono
  BY <1>7, StoreSame DEF Begin, storeVars, opVars
<1>8. ASSUME NEW w \in Worker, WorkerStep(w) \/ CrashWorker(w), UNCHANGED opVars PROVE Mono
  <2>1. asked' = asked
    BY <1>8 DEF opVars
  <2>2. CASE Info(w) \/ Child(w) \/ Resolved(w) \/ Relist(w) \/ Purged(w) \/ Unlink(w)
             \/ CrashWorker(w)
    BY <2>1, <2>2, StoreSame DEF Info, OkOrGone, Child, Resolved, Relist, Purged, AfterPurge, Unlink, CrashWorker, storeVars
  <2>3. CASE Flatten(w)
    <3>1. snap \in [Snap -> SnapRecord]
      BY DEF IInv, TypeOK, StoreTypeOK
    <3>2. \A s \in Snap : snap'[s].name = snap[s].name /\ snap'[s].img = snap[s].img
      BY <2>3, <3>1 DEF Flatten, OkOrGone, SnapsFlattened, SnapRecord
    <3> QED BY <2>1, <2>3, <3>2 DEF Flatten, OkOrGone, Mono, ImageMono, SnapMono
  <2>4. CASE PurgeUnprotect(w)
    <3>1. PICK x \in worker[w].purge : snap' = snap \/ snap' = SnapProtected(x[1], FALSE)
      BY <2>4 DEF PurgeUnprotect
    <3>2. x[1] \in Snap
      BY <2>4, RunningWorker DEF PurgeUnprotect, IInv, TypeOK, WorkRecord
    <3> QED BY <2>1, <2>4, <3>1, <3>2, SnapChanged DEF PurgeUnprotect
  <2>5. CASE PurgeRemove(w)
    BY <2>1, <2>5, SnapChanged, PurgedSnap DEF PurgeRemove, OkOrGone
  <2>6. CASE PurgeImage(w)
    <3>1. Obj(w).img \in Image
      BY <2>6, RunningWorker DEF PurgeImage, OkOrGone, IInv, TypeOK, Object
    <3> QED BY <2>1, <2>6, <3>1, ImageChanged DEF PurgeImage, OkOrGone
  <2> QED BY <1>8, <2>2, <2>3, <2>4, <2>5, <2>6 DEF WorkerStep
<1>9. ASSUME NEW h \in Host, NEW old \in SUBSET jobs, Ls(h, old) PROVE Mono
  BY <1>9, StoreSame DEF Ls, Unqueued, opVars
<1>10. CASE UNCHANGED vars
  BY <1>10, StoreSame DEF vars, storeVars, opVars
<1> QED BY <1>1, <1>2, <1>3, <1>4, <1>5, <1>6, <1>7, <1>8, <1>9, <1>10
           DEF Next, OpsNext, VolumeCall, GcNext, Snapshot, CloneLive

(***************************************************************************)
(* What follows from Mono alone.                                           *)
(***************************************************************************)
LEMMA OwnedStep ==
  ASSUME IInv, Mono PROVE SnapsOwned'
BY DEF IInv, SnapsOwned, Mono, ImageMono, SnapMono

\* A retired snapshot is never listed again.
LEMMA RetiredForGood ==
  ASSUME IInv, Mono, NEW s \in Snap, Status(s) = "retired" PROVE Status(s)' = "retired"
<1>1. s \notin Image
  BY StoreAssumption
<1>2. snap[s].name \in SnapName
  BY DEF IInv, TypeOK, StoreTypeOK, SnapRecord
<1> QED BY <1>1, <1>2 DEF Status, IInv, SnapsOwned, Mono, ImageMono, SnapMono, SnapName,
            TypeOK, StoreTypeOK, ImageName

LEMMA TrashedForGood ==
  ASSUME IInv, Mono, NEW o \in Object, Trashed(o) PROVE Trashed(o)'
BY DEF Object, Trashed, Mono, ImageMono, SnapMono

LEMMA OfImageForGood ==
  ASSUME Mono, NEW s, NEW i, OfImage(s, i) PROVE OfImage(s, i)'
BY DEF OfImage, Mono, SnapMono

\* The keys a step reports as created exist.
LEMMA AckedFrame ==
  ASSUME IInv, Mono,
         \A k \in acked' \ acked :
           \/ k \in Image /\ img'[k] # "free"
           \/ k \in Snap /\ snap'[k].name = "uuid"
  PROVE  AckedExist'
<1>1. SnapsOwned'
  BY OwnedStep
<1> QED BY <1>1, StoreAssumption DEF IInv, AckedExist, SnapsOwned, Mono, ImageMono, SnapMono

\* A worker that takes no step stays in order.
LEMMA WorkerFrame ==
  ASSUME IInv, Mono, NEW w \in Worker, worker[w].pc # "idle", worker'[w] = worker[w]
  PROVE  WorkerOK(w)'
<1>1. WorkerOK(w) /\ Obj(w) \in Object /\ Obj(w)' = Obj(w)
  BY RunningWorker DEF IInv, WorkersOK, TypeOK, Obj
<1>2. \A s, nm : MayPurge(Obj(w), s, nm) => MayPurge(Obj(w), s, nm)'
  BY <1>1, OfImageForGood DEF MayPurge
<1> QED BY <1>1, <1>2, TrashedForGood DEF WorkerOK, MayPurge

\* What a process that makes, or destroys, a snapshot relies on survives any
\* step that leaves the process at such an operation.
LEMMA MakingKept ==
  ASSUME Mono, NEW t \in Task, Making(t), MakingOK(t),
         task'[t].op = task[t].op, task'[t].img = task[t].img,
         task'[t].snap = task[t].snap, task'[t].nm = task[t].nm,
         task'[t].pc \in {"protect", "clone", "undoUnprotect", "undoRemove"},
         task'[t].pc = "clone" => task[t].op = "clone",
         task[t].snap \notin acked'
  PROVE  MakingOK(t)'
<1> PICK s : s = task[t].snap
  OBVIOUS
<1>1. /\ s \in Snap /\ snap[s].name # "free"
      /\ task[t].op = "snapshot" =>
           /\ task[t].nm = "uuid" /\ snap[s].name \in {"uuid", "trash", "gone"}
           /\ snap[s].name # "gone" => snap[s].img = task[t].img
      /\ task[t].op = "clone" =>
           task[t].nm = "clonebase" /\ snap[s].name \in {"clonebase", "gone"}
  BY DEF Making, MakingOK
<1>2. /\ snap'[s].img = snap[s].img
      /\ \/ snap'[s].name = snap[s].name
         \/ snap'[s].name = "gone"
         \/ snap[s].name = "uuid" /\ snap'[s].name = "trash"
  BY <1>1 DEF Mono, SnapMono
<1> QED BY <1>1, <1>2 DEF Making, MakingOK

LEMMA DestroySnapKept ==
  ASSUME Mono, NEW t \in Task, task[t].op = "destroySnap", DestroySnapOK(t),
         task'[t].img = task[t].img, task'[t].snap = task[t].snap, task'[t].nm = task[t].nm,
         task'[t].pc \in {"rename", "spawn", "unprotect", "remove"},
         task'[t].pc = "spawn" => snap'[task[t].snap].name \in {"trash", "gone"}
  PROVE  DestroySnapOK(t)'
<1> PICK s : s = task[t].snap
  OBVIOUS
<1>1. /\ s \in Snap /\ s \in asked /\ task[t].nm = "uuid"
      /\ snap[s].name \in {"uuid", "trash", "gone"} /\ snap[s].img = task[t].img
  BY DEF DestroySnapOK
<1>2. /\ snap'[s].img = snap[s].img
      /\ \/ snap'[s].name = snap[s].name
         \/ snap'[s].name = "gone"
         \/ snap[s].name = "uuid" /\ snap'[s].name = "trash"
  BY <1>1 DEF Mono, SnapMono
<1> QED BY <1>1, <1>2 DEF DestroySnapOK, Mono

\* So does a process, provided no other one reports the snapshot it makes,
\* nor a snapshot of the image it destroys.
LEMMA TaskFrame ==
  ASSUME IInv, Mono, NEW t \in Task, Active(t), task'[t] = task[t],
         Making(t) => task[t].snap \notin acked' \ acked,
         task[t].op = "destroy" =>
           \A s \in (acked' \ acked) \cap Snap : snap'[s].img # task[t].img
  PROVE  TaskOK(t)'
<1>1. TaskOK(t)
  BY DEF IInv, TasksOK
<1>2. task[t].img \in Image /\ img'[task[t].img] # "free"
  BY <1>1 DEF TaskOK, Mono, ImageMono
<1>3. CASE Making(t)
  <2>1. MakingOK(t)
    BY <1>1, <1>3 DEF TaskOK
  <2>2. task[t].snap \notin acked'
    BY <1>3, <2>1 DEF MakingOK
  <2>3. MakingOK(t)'
    BY <1>3, <2>1, <2>2, MakingKept DEF Making, MakingOK
  <2> QED BY <1>1, <1>2, <1>3, <2>3 DEF TaskOK, Making
<1>4. CASE task[t].op = "destroySnap"
  <2>1. DestroySnapOK(t)
    BY <1>1, <1>4 DEF TaskOK
  <2>2. task[t].pc = "spawn" => snap'[task[t].snap].name \in {"trash", "gone"}
    BY <2>1 DEF DestroySnapOK, Mono, SnapMono
  <2>3. DestroySnapOK(t)'
    BY <1>4, <2>1, <2>2, DestroySnapKept DEF DestroySnapOK
  <2> QED BY <1>1, <1>2, <1>4, <2>3 DEF TaskOK, Making
<1>5. CASE task[t].op = "destroy"
  <2> DEFINE i == task[t].img
  <2>1. ASSUME NEW s \in acked' \cap Snap, ListedSnap(s)', snap'[s].img = i
        PROVE  s \in asked'
    <3>1. s \in acked
      BY <1>5, <2>1
    <3>2. snap[s].name = "uuid" /\ snap[s].img = i
      BY <2>1, <3>1 DEF ListedSnap, Mono, SnapMono, IInv, AckedExist
    <3>3. img[i] = "uuid"
      BY <1>1, <2>1 DEF ListedSnap, ListedImage, TaskOK, Mono, ImageMono, IInv, TypeOK, StoreTypeOK,
            ImageName
    <3> QED BY <1>1, <1>5, <3>1, <3>2, <3>3 DEF TaskOK, DestroyOK, ListedSnap, ListedImage, Mono
  <2>2. img[i] \in {"trash", "gone"} => img'[i] \in {"trash", "gone"}
    BY <1>2 DEF Mono, ImageMono
  <2>3. DestroyOK(t)'
    BY <1>1, <1>5, <2>1, <2>2, OfImageForGood DEF TaskOK, DestroyOK, Mono
  <2> QED BY <1>2, <1>5, <2>3 DEF TaskOK, Making
<1>6. task[t].op \in {"snapshot", "clone", "destroySnap", "destroy"}
  BY <1>1 DEF TaskOK, IInv, TypeOK, OpsTypeOK, TaskRecord
<1> QED BY <1>3, <1>4, <1>5, <1>6 DEF Making

LEMMA JobsFrame ==
  ASSUME IInv, Mono, jobs' \cup launched' \subseteq jobs \cup launched PROVE JobsOK'
<1>1. \A j \in jobs \cup launched : j[2] \in Object
  BY DEF IInv, TypeOK, SpoolTypeOK, Job
<1> QED BY <1>1, TrashedForGood DEF IInv, JobsOK

LEMMA WorkersFrame ==
  ASSUME IInv, Mono, worker' = worker PROVE WorkersOK'
BY WorkerFrame DEF WorkersOK

LEMMA DestroyedFrame ==
  ASSUME IInv, Mono, \A s \in (destroyed' \ destroyed) \cap Snap : Status(s)' = "retired"
  PROVE  DestroyedRetired'
BY RetiredForGood DEF IInv, DestroyedRetired

\* A step that touches no task: create, clone of a snapshot, SR.ls and the
\* workers.
LEMMA QuietStep ==
  ASSUME IInv, TypeOK', Mono, task' = task, destroyed' = destroyed,
         \A k \in acked' \ acked : k \in Image /\ img'[k] # "free",
         JobsOK', WorkersOK'
  PROVE  IInv'
<1>1. SnapsOwned' /\ AckedExist' /\ DestroyedRetired'
  BY OwnedStep, AckedFrame, DestroyedFrame
<1>2. KeysLocked'
  BY DEF IInv, KeysLocked, Active, KeyOf, Making
<1>3. TasksOK'
  <2>1. SUFFICES ASSUME NEW t \in Task, Active(t) PROVE TaskOK(t)'
    BY DEF TasksOK, Active
  <2>2. Making(t) => task[t].snap \in Snap
    BY <2>1 DEF IInv, TasksOK, TaskOK, MakingOK
  <2> QED BY <2>1, <2>2, TaskFrame, StoreAssumption
<1> QED BY <1>1, <1>2, <1>3 DEF IInv

\* A step that starts operation t.
LEMMA StartStep ==
  ASSUME IInv, TypeOK', Mono, NEW t \in Task, ~Active(t),
         \A u \in Task \ {t} : task'[u] = task[u],
         Active(t)' =>
           /\ TaskOK(t)'
           /\ \A u \in Task : Active(u) => KeyOf(u) # KeyOf(t)'
           /\ Making(t)' => \A u \in Task : Active(u) /\ Making(u) => task[u].snap # task'[t].snap,
         acked' = acked, destroyed' = destroyed, UNCHANGED spoolVars, UNCHANGED worker
  PROVE  IInv'
<1>1. SnapsOwned' /\ AckedExist' /\ DestroyedRetired'
  BY OwnedStep, AckedFrame, DestroyedFrame
<1>2. JobsOK' /\ WorkersOK'
  BY JobsFrame, WorkersFrame DEF spoolVars
<1>3. \A u \in Task \ {t} : /\ Active(u)' <=> Active(u)
                            /\ KeyOf(u)' = KeyOf(u) /\ (Making(u)' <=> Making(u))
  BY DEF Active, KeyOf, Making
<1>4. KeysLocked'
  BY <1>3 DEF IInv, KeysLocked
<1>5. TasksOK'
  BY <1>3, TaskFrame DEF TasksOK
<1> QED BY <1>1, <1>2, <1>4, <1>5 DEF IInv

\* A step of operation t.
LEMMA OperationStep ==
  ASSUME IInv, TypeOK', Mono, NEW t \in Task, Active(t),
         \A u \in Task \ {t} : task'[u] = task[u],
         Active(t)' =>
           /\ TaskOK(t)' /\ KeyOf(t)' = KeyOf(t)
           /\ Making(t)' => Making(t) /\ task'[t].snap = task[t].snap,
         \A k \in acked' \ acked :
           \/ k \in Image /\ img'[k] # "free"
           \/ /\ k \in Snap /\ k = task[t].snap /\ Making(t)
              /\ snap'[k].name = "uuid" /\ snap'[k].img = task[t].img,
         \A s \in (destroyed' \ destroyed) \cap Snap : Status(s)' = "retired",
         JobsOK', UNCHANGED worker
  PROVE  IInv'
<1>1. SnapsOwned' /\ AckedExist' /\ DestroyedRetired' /\ WorkersOK'
  BY OwnedStep, AckedFrame, DestroyedFrame, WorkersFrame
<1>2. \A u \in Task \ {t} : /\ Active(u)' <=> Active(u)
                            /\ KeyOf(u)' = KeyOf(u) /\ (Making(u)' <=> Making(u))
  BY DEF Active, KeyOf, Making
<1>3. KeysLocked'
  BY <1>2 DEF IInv, KeysLocked
<1>4. ASSUME NEW u \in Task, u # t, Active(u) PROVE TaskOK(u)'
  <2>1. KeyOf(t) # KeyOf(u) /\ (Making(t) /\ Making(u) => task[t].snap # task[u].snap)
    BY <1>4 DEF IInv, KeysLocked
  <2>2. Making(u) => task[u].snap \in Snap
    BY <1>4 DEF IInv, TasksOK, TaskOK, MakingOK
  <2>3. Making(u) => task[u].snap \notin acked' \ acked
    BY <2>1, <2>2, StoreAssumption
  <2>4. task[u].op = "destroy" =>
          \A s \in (acked' \ acked) \cap Snap : snap'[s].img # task[u].img
    BY <2>1, StoreAssumption DEF KeyOf, Making
  <2> QED BY <1>4, <2>3, <2>4, TaskFrame
<1>5. TasksOK'
  BY <1>2, <1>4 DEF TasksOK
<1> QED BY <1>1, <1>3, <1>5 DEF IInv

(***************************************************************************)
(* The inductive invariant is preserved: the volume calls.                 *)
(***************************************************************************)
LEMMA CallStep ==
  ASSUME IInv, VolumeCall, UNCHANGED worker, TypeOK', Mono PROVE IInv'
<1>q. UNCHANGED spoolVars => JobsOK' /\ WorkersOK'
  BY JobsFrame, WorkersFrame DEF spoolVars
<1>t. task \in [Task -> TaskRecord]
  BY DEF IInv, TypeOK, OpsTypeOK
<1>1. ASSUME NEW i \in Image, Create(i) PROVE IInv'
  <2>1. \A k \in acked' \ acked : k \in Image /\ img'[k] # "free"
    BY <1>1 DEF Create, ImageNamed, Done, IInv, TypeOK, StoreTypeOK
  <2> QED BY <1>1, <1>q, <2>1, QuietStep DEF Create
<1>2. ASSUME NEW s \in Snap, CloneSnap(s) PROVE IInv'
  <2>1. \A k \in acked' \ acked : k \in Image /\ img'[k] # "free"
    BY <1>2 DEF CloneSnap, Cloned, ImageNamed, Done, IInv, TypeOK, StoreTypeOK
  <2> QED BY <1>2, <1>q, <2>1, QuietStep DEF CloneSnap
<1>3. ASSUME NEW t \in Task, NEW i \in Image, NEW op, NEW nm,
             <<op, nm>> \in {<<"snapshot", "uuid">>, <<"clone", "clonebase">>},
             TakeSnap(t, i, op, nm)
      PROVE  IInv'
  <2>1. PICK s \in Snap, r \in Results :
          /\ snap[s].name = "free"
          /\ snap' = IF Done(r) THEN SnapCreated(s, i, nm) ELSE SnapNamed(s, "gone")
          /\ task' = [task EXCEPT ![t] =
                       [op |-> op, img |-> i, snap |-> s, nm |-> nm,
                        pc |-> IF r = "ok" THEN "protect" ELSE "undoUnprotect",
                        todo |-> {}]]
    BY <1>3 DEF TakeSnap
  <2>2. /\ img[i] # "free" /\ img' = img
        /\ acked' = acked /\ destroyed' = destroyed /\ UNCHANGED spoolVars
        /\ ~Active(t) /\ KeyFree(i)
    BY <1>3 DEF TakeSnap, KnownImage, ListedImage, IInv, AckedExist, Active
  <2>3. /\ task'[t].op = op /\ task'[t].img = i /\ task'[t].snap = s /\ task'[t].nm = nm
        /\ task'[t].pc \in {"protect", "undoUnprotect"}
        /\ \A u \in Task \ {t} : task'[u] = task[u]
    BY <1>t, <2>1
  <2>4. s \notin acked
    BY <2>1 DEF IInv, AckedExist
  <2>5. snap'[s].name = "gone" \/ (snap'[s].name = nm /\ snap'[s].img = i)
    BY <2>1 DEF SnapCreated, SnapNamed, IInv, TypeOK, StoreTypeOK, SnapRecord
  <2>6. TaskOK(t)'
    BY <1>3, <2>2, <2>3, <2>4, <2>5 DEF TaskOK, Making, MakingOK
  <2>7. \A u \in Task : Active(u) => KeyOf(u) # KeyOf(t)'
    BY <1>3, <2>2, <2>3 DEF KeyFree, KeyOf, Active
  <2>8. \A u \in Task : Active(u) /\ Making(u) => task[u].snap # s
    BY <2>1 DEF IInv, TasksOK, TaskOK, Making, MakingOK
  <2> QED BY <2>2, <2>3, <2>6, <2>7, <2>8, StartStep
<1>4. ASSUME NEW t \in Task, NEW s \in Snap, DestroySnap(t, s) PROVE IInv'
  <2>1. /\ snap[s].name \in {"uuid", "trash", "gone"}
        /\ snap[s].img \in Image /\ img[snap[s].img] # "free"
    BY <1>4 DEF DestroySnap, KnownSnap, ListedSnap, ListedImage, IInv, AckedExist, SnapsOwned
  <2>2. /\ img' = img /\ snap' = snap /\ s \in asked'
        /\ acked' = acked /\ destroyed' = destroyed /\ UNCHANGED spoolVars
        /\ ~Active(t) /\ KeyFree(s)
    BY <1>4 DEF DestroySnap, Active
  <2>3. /\ task'[t].op = "destroySnap" /\ task'[t].img = snap[s].img
        /\ task'[t].snap = s /\ task'[t].nm = "uuid"
        /\ task'[t].pc \in {"rename", "unprotect"}
        /\ \A u \in Task \ {t} : task'[u] = task[u]
    BY <1>4, <1>t DEF DestroySnap
  <2>4. TaskOK(t)' /\ ~Making(t)'
    BY <2>1, <2>2, <2>3 DEF TaskOK, Making, DestroySnapOK
  <2>5. \A u \in Task : Active(u) => KeyOf(u) # KeyOf(t)'
    BY <2>2, <2>3 DEF KeyFree, KeyOf, Active
  <2> QED BY <2>2, <2>3, <2>4, <2>5, StartStep
<1>5. ASSUME NEW t \in Task, NEW i \in Image, NEW sxm \in Sxm, Destroy(t, i, sxm) PROVE IInv'
  <2>1. /\ img[i] # "free" /\ img' = img /\ snap' = snap
        /\ acked' = acked /\ destroyed' = destroyed /\ UNCHANGED spoolVars
        /\ ~Active(t) /\ KeyFree(i)
    BY <1>5 DEF Destroy, Refused, UserSnaps, KnownImage, ListedImage, IInv, AckedExist, Active
  <2>2. CASE UNCHANGED task
    <3>1. ~Active(t)'
      BY <2>1, <2>2 DEF Active
    <3> QED BY <2>1, <2>2, <3>1, StartStep
  <2>3. ASSUME NEW n \in TaskRecord,
               /\ task' = [task EXCEPT ![t] = n]
               /\ n.op = "destroy" /\ n.img = i
               /\ n.pc \in {"renameImg", "unprotect", "removeImg"}
               /\ n.pc = "unprotect" => n.snap \in SnapsOf(i)
               /\ \A x \in n.todo : x[1] \in SnapsOf(i)
               /\ i \in asked'
               /\ ListedImage(i) => {s \in SnapsOf(i) : snap[s].name = "uuid"} \subseteq asked'
        PROVE  IInv'
    <3>1. task'[t] = n /\ \A u \in Task \ {t} : task'[u] = task[u]
      BY <1>t, <2>3
    <3>2. \A s \in SnapsOf(i) : OfImage(s, i)'
      BY <2>1 DEF SnapsOf, SnapExists, OfImage
    <3>3. \A s \in Snap : ListedSnap(s)' /\ snap'[s].img = i => s \in asked'
      BY <2>1, <2>3 DEF ListedSnap, ListedImage, SnapsOf, SnapExists
    <3>4. DestroyOK(t)'
      BY <2>3, <3>1, <3>2, <3>3 DEF DestroyOK
    <3>5. TaskOK(t)' /\ ~Making(t)'
      BY <2>1, <2>3, <3>1, <3>4 DEF TaskOK, Making
    <3>6. \A u \in Task : Active(u) => KeyOf(u) # KeyOf(t)'
      BY <2>1, <2>3, <3>1 DEF KeyFree, KeyOf, Active
    <3> QED BY <2>1, <3>1, <3>5, <3>6, StartStep
  <2> QED BY <1>5, <2>2, <2>3, DestroyStarts
<1> QED BY <1>1, <1>2, <1>3, <1>4, <1>5 DEF VolumeCall, Snapshot, CloneLive

(***************************************************************************)
(* The steps of the operations.                                            *)
(***************************************************************************)
\* A snapshot whose destruction is reported is not listed.
LEMMA NotFoundRetired ==
  ASSUME TypeOK', NEW s \in Snap, snap'[s].name # "free",
         snap'[s].name # "uuid" \/ img'[snap'[s].img] # "uuid"
  PROVE  Status(s)' = "retired"
<1>1. s \notin Image
  BY StoreAssumption
<1> QED BY <1>1 DEF Status

LEMMA TaskStepStep ==
  ASSUME IInv, NEW t \in Task, TaskStep(t), UNCHANGED worker, TypeOK', Mono PROVE IInv'
<1>t. task \in [Task -> TaskRecord] /\ Active(t) /\ TaskOK(t)
  BY DEF IInv, TypeOK, OpsTypeOK, TasksOK, TaskStep, Active, Protect, Protected, UndoUnprotect, UndoRemove,
         Clone, Rename, Renamed, SpawnGc, TaskObject, Unprotect, Remove, Removed, RemoveNext, RenameImg, RemoveImg, CrashTask
<1>j. UNCHANGED spoolVars => JobsOK'
  BY JobsFrame DEF spoolVars
<1>r. Return(t) => ~Active(t)' /\ \A u \in Task \ {t} : task'[u] = task[u]
  BY <1>t DEF Return, Idle, Active
<1>g. ASSUME NEW pc, Goto(t, pc)
      PROVE  /\ task'[t].pc = pc
             /\ task'[t].op = task[t].op /\ task'[t].img = task[t].img
             /\ task'[t].snap = task[t].snap /\ task'[t].nm = task[t].nm
             /\ task'[t].todo = task[t].todo
             /\ KeyOf(t)' = KeyOf(t) /\ (Making(t)' <=> Making(t))
             /\ \A u \in Task \ {t} : task'[u] = task[u]
  BY <1>t, <1>g DEF Goto, TaskRecord, KeyOf, Making
<1>k. KeyOf(t) \in Snap => task[t].op = "destroySnap" /\ KeyOf(t) = task[t].snap
  BY <1>t, StoreAssumption DEF KeyOf, TaskOK
\* Going on at another place keeps the operation in order.
<1>m. ASSUME NEW pc, Goto(t, pc), Making(t), pc \in {"clone", "undoUnprotect", "undoRemove"},
             pc = "clone" => task[t].op = "clone", acked' \subseteq acked \cup Image
      PROVE  TaskOK(t)'
  <2>1. task[t].snap \in Snap \ acked'
    BY <1>t, <1>m, StoreAssumption DEF TaskOK, MakingOK
  <2>2. task[t].img \in Image /\ img'[task[t].img] # "free"
    BY <1>t DEF TaskOK, Mono, ImageMono
  <2>3. MakingOK(t)'
    <3>1. MakingOK(t)
      BY <1>t, <1>m DEF TaskOK
    <3> QED BY <1>m, <1>g, <2>1, <3>1, MakingKept
  <2> QED BY <1>g, <1>m, <2>2, <2>3 DEF TaskOK, Making
<1>d. ASSUME NEW pc, Goto(t, pc), task[t].op = "destroySnap", pc \in {"spawn", "remove"},
             pc = "spawn" => snap'[task[t].snap].name = "trash"
      PROVE  TaskOK(t)'
  <2>1. task[t].img \in Image /\ img'[task[t].img] # "free"
    BY <1>t DEF TaskOK, Mono, ImageMono
  <2>2. DestroySnapOK(t)'
    <3>1. DestroySnapOK(t)
      BY <1>t, <1>d DEF TaskOK
    <3> QED BY <1>d, <1>g, <3>1, DestroySnapKept
  <2> QED BY <1>g, <1>d, <2>1, <2>2 DEF TaskOK, Making
\* Of an image being destroyed only some facts depend on the place.
<1>e. ASSUME acked' = acked, task[t].op = "destroy",
             task'[t].op = "destroy", task'[t].img = task[t].img,
             task'[t].pc \in {"spawn", "unprotect", "remove", "removeImg", "retryImg"},
             task'[t].pc = "spawn" => img'[task[t].img] = "trash",
             task'[t].pc \in {"unprotect", "remove"} => OfImage(task'[t].snap, task[t].img),
             \A x \in task'[t].todo : OfImage(x[1], task[t].img)
      PROVE  TaskOK(t)' /\ KeyOf(t)' = KeyOf(t) /\ ~Making(t)'
  <2>1. task[t].img \in Image /\ img'[task[t].img] # "free"
    BY <1>t DEF TaskOK, Mono, ImageMono
  <2>2. \A s \in acked \cap Snap : ListedSnap(s)' /\ snap'[s].img = task[t].img => s \in asked'
    <3>1. SUFFICES ASSUME NEW s \in acked \cap Snap, ListedSnap(s)', snap'[s].img = task[t].img
                   PROVE  s \in asked'
      OBVIOUS
    <3>2. snap[s].name = "uuid" /\ snap[s].img = task[t].img
      BY <3>1 DEF ListedSnap, Mono, SnapMono, IInv, AckedExist
    <3>3. img[task[t].img] = "uuid"
      BY <1>t, <3>1 DEF ListedSnap, ListedImage, TaskOK, Mono, ImageMono, IInv, TypeOK, StoreTypeOK,
            ImageName
    <3> QED BY <1>t, <1>e, <3>2, <3>3 DEF TaskOK, DestroyOK, ListedSnap, ListedImage, Mono
  <2>3. \A s, i : OfImage(s, i) => OfImage(s, i)'
    BY OfImageForGood
  <2>4. DestroyOK(t)'
    <3>1. task[t].img \in asked'
      BY <1>t, <1>e DEF TaskOK, DestroyOK, Mono
    <3> QED BY <1>e, <2>2, <2>3, <3>1 DEF DestroyOK, OfImage
  <2> QED BY <1>e, <2>1, <2>4 DEF TaskOK, Making, KeyOf
<1>f. ASSUME NEW pc, Goto(t, pc), acked' = acked, task[t].op = "destroy",
             pc \in {"spawn", "remove", "retryImg"},
             pc = "spawn" => img'[task[t].img] = "trash",
             pc = "remove" => OfImage(task[t].snap, task[t].img),
             \A x \in task[t].todo : OfImage(x[1], task[t].img)
      PROVE  TaskOK(t)' /\ KeyOf(t)' = KeyOf(t) /\ ~Making(t)'
  <2>1. /\ task'[t].pc = pc /\ task'[t].op = "destroy" /\ task'[t].img = task[t].img
        /\ task'[t].snap = task[t].snap /\ task'[t].todo = task[t].todo
    BY <1>g, <1>f
  <2>2. /\ task'[t].pc \in {"spawn", "unprotect", "remove", "removeImg", "retryImg"}
        /\ task'[t].pc = "spawn" => img'[task[t].img] = "trash"
        /\ task'[t].pc \in {"unprotect", "remove"} => OfImage(task'[t].snap, task[t].img)
        /\ \A x \in task'[t].todo : OfImage(x[1], task[t].img)
    BY <1>f, <2>1
  <2> QED BY <1>e, <1>f, <2>1, <2>2
<1>1. CASE Protect(t)
  <2>1. Making(t)
    BY <1>t, <1>1, TaskAt DEF Protect, Protected
  <2>2. PICK r \in Results :
          /\ Reply(Found(t), ~snap[task[t].snap].prot, r)
          /\ snap' = IF Done(r) THEN SnapProtected(task[t].snap, TRUE) ELSE snap
          /\ \/ acked' = acked /\ (Goto(t, "undoUnprotect")
                                     \/ (task[t].op = "clone" /\ Goto(t, "clone")))
             \/ /\ r = "ok" /\ task[t].op # "clone" /\ Return(t)
                /\ acked' = acked \cup {task[t].snap}
    BY <1>1 DEF Protect, Protected
  <2>3. CASE acked' = acked /\ (Goto(t, "undoUnprotect") \/ (task[t].op = "clone" /\ Goto(t, "clone")))
    BY <1>1, <1>t, <1>j, <1>g, <1>m, <2>1, <2>3, OperationStep DEF Protect, Protected
  <2>4. CASE r = "ok" /\ task[t].op # "clone" /\ Return(t) /\ acked' = acked \cup {task[t].snap}
    <3>1. /\ task[t].snap \in Snap
          /\ snap'[task[t].snap].name = "uuid" /\ snap'[task[t].snap].img = task[t].img
      BY <1>t, <2>1, <2>2, <2>4 DEF TaskOK, Making, MakingOK, Reply, Found, Done, SnapProtected,
            IInv, TypeOK, StoreTypeOK, SnapRecord
    <3> QED BY <1>1, <1>t, <1>j, <1>r, <2>1, <2>4, <3>1, OperationStep DEF Protect, Protected
  <2> QED BY <2>2, <2>3, <2>4
<1>2. CASE UndoUnprotect(t)
  <2>1. Making(t)
    BY <1>t, <1>2, TaskAt DEF UndoUnprotect
  <2> QED BY <1>2, <1>t, <1>j, <1>r, <1>g, <1>m, <2>1, OperationStep DEF UndoUnprotect
<1>3. CASE UndoRemove(t)
  BY <1>3, <1>t, <1>j, <1>r, OperationStep DEF UndoRemove
<1>4. CASE Clone(t)
  <2>1. Making(t)
    BY <1>t, <1>4, TaskAt DEF Clone, Making
  <2>2. acked' \subseteq acked \cup Image
    BY <1>4 DEF Clone, Cloned
  <2>3. \A k \in acked' \ acked : k \in Image /\ img'[k] # "free"
    BY <1>4 DEF Clone, Cloned, ImageNamed, Done, IInv, TypeOK, StoreTypeOK
  <2>4. Goto(t, "undoUnprotect") \/ Return(t)
    BY <1>4 DEF Clone
  <2> QED BY <1>4, <1>t, <1>j, <1>r, <1>g, <1>m, <2>1, <2>2, <2>3, <2>4, OperationStep DEF Clone
<1>5. CASE Rename(t)
  <2> PICK s : s = task[t].snap
    OBVIOUS
  <2>1. /\ task[t].op = "destroySnap" /\ s \in Snap /\ KeyOf(t) = s /\ task[t].nm = "uuid"
        /\ snap[s].name # "free" /\ snap[s].img = task[t].img
    BY <1>t, <1>5, TaskAt DEF Rename, Renamed, KeyOf, TaskOK, DestroySnapOK
  <2>2. PICK r \in Results :
          /\ Reply(Found(t), TRUE, r)
          /\ snap' = IF Done(r) THEN SnapNamed(s, "trash") ELSE snap
          /\ \/ r = "ok" /\ Goto(t, "spawn") /\ UNCHANGED destroyed
             \/ r = "nf" /\ Success(t)
             \/ Fail(t)
    BY <1>5 DEF Rename, Renamed
  <2>3. CASE r = "ok" /\ Goto(t, "spawn") /\ UNCHANGED destroyed
    <3>1. snap'[s].name = "trash"
      BY <2>1, <2>2, <2>3 DEF Done, SnapNamed, IInv, TypeOK, StoreTypeOK, SnapRecord
    <3> QED BY <1>5, <1>t, <1>j, <1>g, <1>d, <2>1, <2>3, <3>1, OperationStep DEF Rename, Renamed
  <2>4. CASE r = "nf" /\ Success(t)
    <3>1. snap' = snap /\ img' = img /\ ~Found(t)
      BY <1>5, <2>2, <2>4 DEF Rename, Renamed, Reply, Done
    <3>2. Status(s)' = "retired"
      BY <2>1, <3>1, NotFoundRetired DEF Found
    <3> QED BY <1>5, <1>t, <1>j, <1>r, <2>1, <2>4, <3>2, OperationStep DEF Rename, Renamed, Success
  <2>5. CASE Fail(t)
    BY <1>5, <1>t, <1>j, <1>r, <2>5, OperationStep DEF Rename, Renamed, Fail
  <2> QED BY <2>2, <2>3, <2>4, <2>5
<1>6. CASE SpawnGc(t)
  <2> PICK s, i : s = task[t].snap /\ i = task[t].img
    OBVIOUS
  <2>1. task[t].op \in {"destroySnap", "destroy"} /\ i \in Image
    BY <1>t, <1>6, TaskAt DEF SpawnGc, TaskObject
  <2>2. PICK h \in Host :
          LET j == <<h, IF task[t].op = "destroySnap" THEN SnapObject(i, s) ELSE ImageObject(i)>>
          IN  jobs' = jobs \cup {j} /\ launched' = launched \cup {j}
    BY <1>6 DEF SpawnGc, TaskObject, Spawn
  <2>3. img' = img /\ snap' = snap
    BY <1>6 DEF SpawnGc, TaskObject, storeVars
  <2>4. CASE task[t].op = "destroySnap"
    <3>1. s \in Snap /\ snap[s].name \in {"trash", "gone"} /\ KeyOf(t) = s
      BY <1>t, <1>6, <2>4 DEF SpawnGc, TaskObject, TaskOK, DestroySnapOK, KeyOf
    <3>2. JobsOK'
      BY <2>2, <2>3, <2>4, <3>1 DEF JobsOK, Trashed, SnapObject, IInv
    <3>3. Status(s)' = "retired"
      BY <2>3, <3>1, NotFoundRetired
    <3> QED BY <1>6, <1>t, <1>r, <3>1, <3>2, <3>3, OperationStep DEF SpawnGc, TaskObject, Success
  <2>5. CASE task[t].op = "destroy"
    <3>1. img[i] \in {"trash", "gone"} /\ KeyOf(t) \notin Snap
      BY <1>t, <1>6, <1>k, <2>5 DEF SpawnGc, TaskObject, TaskOK, DestroyOK
    <3>2. \A j : j \in (jobs \cup launched)' => j \in jobs \cup launched \/ j[2] = ImageObject(i)
      BY <2>2, <2>5
    <3>3. Trashed(ImageObject(i))' /\ \A j \in jobs \cup launched : Trashed(j[2])'
      BY <2>3, <3>1 DEF Trashed, ImageObject, JobsOK, IInv
    <3>4. JobsOK'
      BY <3>2, <3>3 DEF JobsOK
    <3> QED BY <1>6, <1>t, <1>r, <3>1, <3>4, OperationStep DEF SpawnGc, TaskObject, Success
  <2> QED BY <2>1, <2>4, <2>5
<1>7. CASE Unprotect(t)
  <2>1. task[t].op \in {"destroySnap", "destroy"}
    BY <1>t, <1>7, TaskAt DEF Unprotect
  <2>2. CASE task[t].op = "destroySnap"
    BY <1>7, <1>t, <1>j, <1>g, <1>d, <2>2, OperationStep DEF Unprotect
  <2>3. CASE task[t].op = "destroy"
    <3>1. /\ OfImage(task[t].snap, task[t].img)
          /\ \A x \in task[t].todo : OfImage(x[1], task[t].img)
      BY <1>t, <1>7, <2>3 DEF Unprotect, TaskOK, DestroyOK
    <3>2. TaskOK(t)' /\ KeyOf(t)' = KeyOf(t) /\ ~Making(t)'
      BY <1>7, <1>f, <2>3, <3>1 DEF Unprotect
    <3> QED BY <1>7, <1>t, <1>j, <1>g, <3>2, OperationStep DEF Unprotect
  <2> QED BY <2>1, <2>2, <2>3
<1>8. CASE Remove(t)
  <2> PICK s : s = task[t].snap
    OBVIOUS
  <2>1. task[t].op \in {"destroySnap", "destroy"} /\ s \in Snap
    BY <1>t, <1>8, TaskAt DEF Remove, Removed, RemoveNext
  <2>2. PICK r \in Results :
          /\ Reply(Found(t), ~snap[s].prot, r)
          /\ snap' = IF Done(r) THEN SnapNamed(s, "gone") ELSE snap
          /\ \/ /\ task[t].op = "destroy" /\ UNCHANGED destroyed
                /\ \E n \in NextOf(task[t].img, task[t].todo) : task' = [task EXCEPT ![t] = n]
             \/ r \in {"ok", "nf"} /\ Success(t)
             \/ Fail(t)
    BY <1>8 DEF Remove, Removed, RemoveNext
  <2>3. ASSUME task[t].op = "destroy", UNCHANGED destroyed,
               NEW n \in NextOf(task[t].img, task[t].todo), task' = [task EXCEPT ![t] = n]
        PROVE  IInv'
    <3>1. task[t].img \in Image /\ task[t].todo \in SUBSET (Snap \X SnapName)
      BY <1>t, TaskAt DEF TaskRecord
    <3>2. /\ n.op = "destroy" /\ n.img = task[t].img
          /\ n.todo \subseteq task[t].todo
          /\ n.pc \in {"removeImg", "unprotect"}
          /\ n.pc = "unprotect" => <<n.snap, n.nm>> \in task[t].todo
      BY <2>3, <3>1, NextOfRecord
    <3>3. task'[t] = n /\ \A u \in Task \ {t} : task'[u] = task[u]
      BY <1>t, <2>3
    <3>4. \A x \in task[t].todo : OfImage(x[1], task[t].img)
      BY <1>t, <2>3 DEF TaskOK, DestroyOK
    <3>5. n.pc = "unprotect" => OfImage(n.snap, task[t].img)
      BY <3>2, <3>4
    <3>6. TaskOK(t)' /\ KeyOf(t)' = KeyOf(t) /\ ~Making(t)'
      BY <1>8, <1>e, <2>3, <3>2, <3>3, <3>4, <3>5 DEF Remove, Removed, RemoveNext
    <3> QED BY <1>8, <1>t, <1>j, <2>3, <3>3, <3>6, OperationStep DEF Remove, Removed, RemoveNext
  <2>4. CASE r \in {"ok", "nf"} /\ Success(t)
    <3>1. ASSUME task[t].op = "destroySnap" PROVE Status(s)' = "retired"
      <4>1. /\ snap[s].name # "free" /\ snap[s].img = task[t].img /\ task[t].nm = "uuid"
        BY <1>t, <3>1 DEF TaskOK, DestroySnapOK
      <4>2. r = "ok" => snap'[s].name = "gone"
        BY <2>1, <2>2 DEF Done, SnapNamed, IInv, TypeOK, StoreTypeOK, SnapRecord
      <4>3. r = "nf" => snap' = snap /\ ~Found(t)
        BY <2>2 DEF Done, Reply
      <4> QED BY <1>8, <2>1, <2>4, <4>1, <4>2, <4>3, NotFoundRetired DEF Remove, Removed, RemoveNext, Found
    <3> QED BY <1>8, <1>t, <1>j, <1>r, <1>k, <2>4, <3>1, OperationStep DEF Remove, Removed, RemoveNext, Success
  <2>5. CASE Fail(t)
    BY <1>8, <1>t, <1>j, <1>r, <2>5, OperationStep DEF Remove, Removed, RemoveNext, Fail
  <2> QED BY <2>2, <2>3, <2>4, <2>5
<1>9. CASE RenameImg(t) \/ RemoveImg(t)
  <2>1. task[t].op = "destroy" /\ KeyOf(t) \notin Snap
    BY <1>t, <1>k, <1>9, TaskAt DEF RenameImg, Renamed, RemoveImg
  <2>2. \A x \in task[t].todo : OfImage(x[1], task[t].img)
    BY <1>t, <2>1 DEF TaskOK, DestroyOK
  <2>3. acked' = acked /\ UNCHANGED spoolVars
    BY <1>9 DEF RenameImg, Renamed, RemoveImg
  <2>4. \/ Goto(t, "spawn") /\ UNCHANGED destroyed /\ img' = ImageNamed(task[t].img, "trash")
        \/ Goto(t, "retryImg") /\ UNCHANGED destroyed
        \/ Success(t)
        \/ Fail(t)
    BY <1>9 DEF RenameImg, Renamed, RemoveImg, Done
  <2>5. CASE Goto(t, "spawn") /\ UNCHANGED destroyed /\ img' = ImageNamed(task[t].img, "trash")
    <3>1. img'[task[t].img] = "trash"
      BY <1>t, <2>5 DEF ImageNamed, TaskOK, IInv, TypeOK, StoreTypeOK
    <3>2. TaskOK(t)' /\ KeyOf(t)' = KeyOf(t) /\ ~Making(t)'
      BY <1>f, <2>1, <2>2, <2>3, <2>5, <3>1
    <3> QED BY <1>t, <1>j, <1>g, <2>3, <2>5, <3>2, OperationStep
  <2>6. CASE Goto(t, "retryImg") /\ UNCHANGED destroyed
    <3>1. TaskOK(t)' /\ KeyOf(t)' = KeyOf(t) /\ ~Making(t)'
      BY <1>f, <2>1, <2>2, <2>3, <2>6
    <3> QED BY <1>t, <1>j, <1>g, <2>3, <2>6, <3>1, OperationStep
  <2>7. CASE Success(t) \/ Fail(t)
    BY <1>t, <1>j, <1>r, <2>1, <2>3, <2>7, OperationStep DEF Success, Fail
  <2> QED BY <2>4, <2>5, <2>6, <2>7
<1>10. CASE CrashTask(t)
  BY <1>10, <1>t, <1>j, <1>r, OperationStep DEF CrashTask
<1> QED BY <1>1, <1>2, <1>3, <1>4, <1>5, <1>6, <1>7, <1>8, <1>9, <1>10 DEF TaskStep

(***************************************************************************)
(* The steps of the workers and of SR.ls.                                  *)
(***************************************************************************)
LEMMA GcStep ==
  ASSUME IInv, GcNext, UNCHANGED opVars, TypeOK', Mono PROVE IInv'
<1>o. task' = task /\ destroyed' = destroyed /\ acked' = acked
  BY DEF opVars
<1>f. ASSUME NEW w \in Worker, JobsOK',
             \A v \in Worker \ {w} : worker'[v] = worker[v],
             worker'[w].pc # "idle" => WorkerOK(w)'
      PROVE  IInv'
  <2>1. WorkersOK'
    BY <1>f, WorkerFrame DEF WorkersOK
  <2> QED BY <1>f, <1>o, <2>1, QuietStep
<1>t. worker \in [Worker -> WorkRecord]
  BY DEF IInv, TypeOK, WorkerTypeOK
<1>1. ASSUME NEW w \in Worker, NEW j \in launched, Begin(w, j) PROVE IInv'
  <2>1. JobsOK'
    BY <1>1, JobsFrame DEF Begin
  <2>2. \A v \in Worker \ {w} : worker'[v] = worker[v]
    BY <1>1, <1>t DEF Begin, Become
  <2>3. worker'[w].pc # "idle" =>
          /\ worker'[w].pc = "info" /\ worker'[w].job = j /\ worker'[w].purge = {}
    BY <1>1, <1>t DEF Begin, Become
  <2>4. Trashed(j[2])'
    BY <1>1, <2>1, TrashedForGood DEF IInv, JobsOK, TypeOK, SpoolTypeOK, Job
  <2>5. worker'[w].pc # "idle" => WorkerOK(w)'
    BY <2>3, <2>4 DEF WorkerOK, Obj
  <2> QED BY <1>f, <2>1, <2>2, <2>5
<1>2. ASSUME NEW w \in Worker, WorkerStep(w) \/ CrashWorker(w) PROVE IInv'
  <2>r. /\ worker[w].pc # "idle" /\ WorkerOK(w) /\ Obj(w) \in Object
        /\ worker[w] \in WorkRecord \ {NoWork}
    BY <1>2, RunningWorker DEF WorkerStep, CrashWorker, Info, OkOrGone, Child, Flatten, Resolved, Relist,
          PurgeUnprotect, PurgeRemove, OkOrGone, Purged, AfterPurge, PurgeImage, Unlink, IInv, TypeOK, WorkersOK
  <2>j. JobsOK'
    BY <1>2, JobsFrame DEF WorkerStep, CrashWorker, Info, OkOrGone, Child, Flatten, Resolved, Relist,
          PurgeUnprotect, PurgeRemove, OkOrGone, Purged, AfterPurge, PurgeImage, Unlink, spoolVars
  <2>x. ASSUME Exit(w) PROVE IInv'
    BY <1>f, <1>t, <2>j, <2>x DEF Exit, NoWork
  <2>p. \A o, s, nm : MayPurge(o, s, nm) => MayPurge(o, s, nm)'
    BY OfImageForGood DEF MayPurge
  \* The worker goes on with the same job.
  <2>b. ASSUME NEW rec, Become(w, rec), rec.job = worker[w].job,
               \A x \in rec.purge : MayPurge(Obj(w), x[1], x[2]),
               rec.pc = "remove" => MayPurge(Obj(w), rec.snap, rec.snm),
               rec.pc = "flatten" => rec.child \in Image,
               rec.pc \in {"relist", "removeImg"} => Obj(w).kind = "image"
        PROVE  IInv'
    <3>1. worker'[w] = rec /\ \A v \in Worker \ {w} : worker'[v] = worker[v]
      BY <1>t, <2>b DEF Become
    <3>2. Obj(w)' = Obj(w)
      BY <2>b, <3>1 DEF Obj
    <3>3. \A x \in rec.purge : MayPurge(Obj(w), x[1], x[2])'
      BY <2>b, <2>p, <3>2
    <3>4. WorkerOK(w)'
      BY <2>r, <2>b, <2>p, <3>1, <3>2, TrashedForGood DEF WorkerOK
    <3> QED BY <1>f, <2>j, <3>1, <3>4
  <2>q. \A x \in worker[w].purge : MayPurge(Obj(w), x[1], x[2])
    BY <2>r DEF WorkerOK
  \* The same, when what it has to purge does not change.
  <2>c. ASSUME NEW rec, Become(w, rec), rec.job = worker[w].job, rec.purge = worker[w].purge,
               rec.pc # "remove", rec.pc = "flatten" => rec.child \in Image,
               rec.pc \in {"relist", "removeImg"} => Obj(w).kind = "image"
        PROVE  IInv'
    BY <2>b, <2>c, <2>q
  <2>k. Obj(w).kind \in {"snap", "image"}
    BY <2>r DEF Object
  <2>u. \A pc : LET rec == [worker[w] EXCEPT !.pc = pc] IN
                rec.job = worker[w].job /\ rec.purge = worker[w].purge /\ rec.pc = pc
    BY <2>r DEF WorkRecord, NoWork
  <2>1. CASE Info(w)
    <3>1. PICK todo : Exit(w) \/ Become(w, [worker[w] EXCEPT !.pc = "child", !.todo = todo])
      BY <2>1 DEF Info, OkOrGone
    <3> DEFINE rec == [worker[w] EXCEPT !.pc = "child", !.todo = todo]
    <3>2. rec.job = worker[w].job /\ rec.purge = worker[w].purge /\ rec.pc = "child"
      BY <2>r DEF WorkRecord, NoWork
    <3> HIDE DEF rec
    <3>3. Become(w, rec) => IInv'
      BY <2>c, <3>2
    <3> QED BY <2>x, <3>1, <3>3 DEF rec
  <2>2. CASE Child(w)
    <3>1. PICK x \in worker[w].todo :
            LET rest == [worker[w] EXCEPT !.todo = @ \ {x}] IN
            \/ Become(w, rest)
            \/ Become(w, [rest EXCEPT !.pc = "flatten", !.child = x[1],
                                     !.cnm = x[2], !.tries = 0])
            \/ Become(w, [rest EXCEPT !.bad = TRUE])
      BY <2>2 DEF Child
    <3> DEFINE a == [worker[w] EXCEPT !.todo = @ \ {x}]
               b == [a EXCEPT !.pc = "flatten", !.child = x[1], !.cnm = x[2], !.tries = 0]
               c == [a EXCEPT !.bad = TRUE]
    <3>2. a.job = worker[w].job /\ a.purge = worker[w].purge /\ a.pc = "child"
      BY <2>r, <2>2 DEF WorkRecord, NoWork, Child
    <3>3. /\ b.job = worker[w].job /\ b.purge = worker[w].purge /\ b.pc = "flatten"
          /\ b.child = x[1] /\ x[1] \in Image
      BY <2>r DEF WorkRecord, NoWork
    <3>4. c.job = worker[w].job /\ c.purge = worker[w].purge /\ c.pc = "child"
      BY <2>r, <2>2 DEF WorkRecord, NoWork, Child
    <3>5. Become(w, a) \/ Become(w, b) \/ Become(w, c)
      BY <3>1
    <3> HIDE DEF a, b, c
    <3> QED BY <2>c, <3>2, <3>3, <3>4, <3>5
  <2>3. CASE Flatten(w)
    <3> DEFINE a == [worker[w] EXCEPT !.pc = "child", !.child = NoImage, !.cnm = "free", !.tries = 0]
               b == [a EXCEPT !.bad = TRUE]
               c == [worker[w] EXCEPT !.tries = worker[w].tries + 1]
    <3>1. Become(w, a) \/ Become(w, b) \/ Become(w, c)
      BY <2>3 DEF Flatten, OkOrGone
    <3>2. a.job = worker[w].job /\ a.purge = worker[w].purge /\ a.pc = "child"
      BY <2>r DEF WorkRecord, NoWork
    <3>3. b.job = worker[w].job /\ b.purge = worker[w].purge /\ b.pc = "child"
      BY <2>r DEF WorkRecord, NoWork
    <3>4. /\ c.job = worker[w].job /\ c.purge = worker[w].purge /\ c.pc = "flatten"
          /\ c.child = worker[w].child
      BY <2>r, <2>3 DEF WorkRecord, NoWork, Flatten, OkOrGone
    <3>5. worker[w].child \in Image
      BY <2>r, <2>3 DEF Flatten, OkOrGone, WorkerOK
    <3> HIDE DEF a, b, c
    <3> QED BY <2>c, <3>1, <3>2, <3>3, <3>4, <3>5
  <2>4. CASE Resolved(w)
    <3> DEFINE a == [worker[w] EXCEPT !.pc = "purge", !.purge = {<<Obj(w).snap, "trash">>}]
               b == [worker[w] EXCEPT !.pc = "relist"]
    <3>1. \/ Exit(w) \/ (Obj(w).kind = "snap" /\ Become(w, a))
          \/ (Obj(w).kind # "snap" /\ Become(w, b))
      BY <2>4 DEF Resolved
    <3>2. a.job = worker[w].job /\ a.purge = {<<Obj(w).snap, "trash">>} /\ a.pc = "purge"
      BY <2>r DEF WorkRecord, NoWork
    <3>3. b.job = worker[w].job /\ b.purge = worker[w].purge /\ b.pc = "relist"
      BY <2>u
    <3>4. Obj(w).kind = "snap" => \A x \in a.purge : MayPurge(Obj(w), x[1], x[2])
      BY <3>2 DEF MayPurge
    <3> HIDE DEF a, b
    <3>5. Obj(w).kind = "snap" /\ Become(w, a) => IInv'
      BY <2>b, <3>2, <3>4
    <3>6. Obj(w).kind # "snap" /\ Become(w, b) => IInv'
      BY <2>c, <2>k, <3>3
    <3> QED BY <2>x, <3>1, <3>5, <3>6
  <2>5. CASE Relist(w)
    <3> DEFINE P == {<<s, snap[s].name>> : s \in SnapsOf(Obj(w).img)}
    <3>1. \A x \in P : MayPurge(Obj(w), x[1], x[2])
      BY <2>r, <2>5 DEF Relist, OkOrGone, WorkerOK, MayPurge, OfImage, SnapsOf, SnapExists
    <3>2. PICK Q : /\ \A x \in Q : MayPurge(Obj(w), x[1], x[2])
                   /\ Exit(w) \/ Become(w, [worker[w] EXCEPT !.pc = "purge", !.purge = Q])
      BY <2>5, <3>1 DEF Relist, OkOrGone
    <3> DEFINE rec == [worker[w] EXCEPT !.pc = "purge", !.purge = Q]
    <3>3. rec.job = worker[w].job /\ rec.purge = Q /\ rec.pc = "purge"
      BY <2>r DEF WorkRecord, NoWork
    <3> HIDE DEF rec
    <3>4. Become(w, rec) => IInv'
      BY <2>b, <3>2, <3>3
    <3> QED BY <2>x, <3>2, <3>4 DEF rec
  <2>6. CASE PurgeRemove(w)
    <3> DEFINE rec == [worker[w] EXCEPT !.pc = "purge", !.snap = NoSnap, !.snm = "free"]
    <3>1. Exit(w) \/ Become(w, rec)
      BY <2>6 DEF PurgeRemove, OkOrGone
    <3>2. rec.job = worker[w].job /\ rec.purge = worker[w].purge /\ rec.pc = "purge"
      BY <2>r DEF WorkRecord, NoWork
    <3> HIDE DEF rec
    <3> QED BY <2>c, <2>x, <3>1, <3>2
  <2>7. CASE Purged(w) \/ PurgeImage(w)
    <3>1. PICK pc : /\ Exit(w) \/ Become(w, [worker[w] EXCEPT !.pc = pc])
                    /\ pc \in {"unlink", "removeImg"}
                    /\ pc = "removeImg" => Obj(w).kind # "snap"
      BY <2>7 DEF Purged, AfterPurge, PurgeImage, OkOrGone
    <3> DEFINE rec == [worker[w] EXCEPT !.pc = pc]
    <3>2. rec.job = worker[w].job /\ rec.purge = worker[w].purge /\ rec.pc = pc
      BY <2>u
    <3> HIDE DEF rec
    <3>3. Become(w, rec) => IInv'
      BY <2>c, <2>k, <3>1, <3>2
    <3> QED BY <2>x, <3>1, <3>3 DEF rec
  <2>8. CASE PurgeUnprotect(w)
    <3>1. PICK x \in worker[w].purge :
            Become(w, [worker[w] EXCEPT !.pc = "remove", !.purge = @ \ {x},
                                        !.snap = x[1], !.snm = x[2]])
      BY <2>8 DEF PurgeUnprotect
    <3> DEFINE rec == [worker[w] EXCEPT !.pc = "remove", !.purge = @ \ {x},
                                        !.snap = x[1], !.snm = x[2]]
    <3>2. /\ rec.job = worker[w].job /\ rec.pc = "remove"
          /\ rec.purge = worker[w].purge \ {x} /\ rec.snap = x[1] /\ rec.snm = x[2]
      BY <2>r DEF WorkRecord, NoWork
    <3>3. Become(w, rec)
      BY <3>1
    <3> HIDE DEF rec
    <3> QED BY <2>b, <2>q, <3>2, <3>3
  <2>9. CASE Unlink(w) \/ CrashWorker(w)
    BY <2>x, <2>9 DEF Unlink, CrashWorker
  <2> QED BY <1>2, <2>1, <2>2, <2>3, <2>4, <2>5, <2>6, <2>7, <2>8, <2>9 DEF WorkerStep
<1> QED BY <1>1, <1>2 DEF GcNext

LEMMA LsStep ==
  ASSUME IInv, NEW h \in Host, NEW old \in SUBSET jobs, Ls(h, old), TypeOK', Mono PROVE IInv'
<1>1. \A o \in TrashObjects : Trashed(o)
  BY DEF TrashObjects, Trashed, SnapObject, ImageObject
<1>2. jobs' \cup launched' \subseteq jobs \cup launched \cup ({h} \X TrashObjects)
  BY DEF Ls, Unqueued, SweepAndSpawn
<1>3. img' = img /\ snap' = snap /\ UNCHANGED opVars /\ worker' = worker
  BY DEF Ls, Unqueued
<1>4. \A o : Trashed(o)' = Trashed(o)
  BY <1>3 DEF Trashed
<1>5. JobsOK'
  BY <1>1, <1>2, <1>4 DEF JobsOK, IInv
<1>6. WorkersOK'
  BY <1>3, WorkersFrame
<1> QED BY <1>3, <1>5, <1>6, QuietStep DEF opVars

LEMMA IInvStep ==
  ASSUME IInv, [Next]_vars PROVE IInv'
<1>1. TypeOK' /\ Mono
  BY TypeStep, MonoStep
<1>2. CASE UNCHANGED vars
  <2>1. JobsOK' /\ WorkersOK'
    BY <1>1, <1>2, JobsFrame, WorkersFrame DEF vars, spoolVars
  <2> QED BY <1>1, <1>2, <2>1, QuietStep DEF vars, opVars
<1> QED BY <1>1, <1>2, CallStep, TaskStepStep, GcStep, LsStep DEF Next, OpsNext

LEMMA IInvInit ==
  ASSUME Init PROVE IInv
<1> USE DEF Init, StoreInit, SpoolInit, OpsInit, WorkerInit
<1>1. TypeOK
  <2>1. StoreTypeOK
    BY StoreAssumption DEF StoreTypeOK, ImageName, SnapName, SnapRecord
  <2>2. OpsTypeOK
    BY DEF OpsTypeOK, SnapName, TaskRecord, Idle
  <2>3. SpoolTypeOK /\ WorkerTypeOK
    BY DEF SpoolTypeOK, WorkerTypeOK, WorkRecord, NoWork
  <2> QED BY <2>1, <2>2, <2>3 DEF TypeOK
<1>2. SnapsOwned /\ AckedExist /\ DestroyedRetired /\ JobsOK
  BY DEF SnapsOwned, AckedExist, DestroyedRetired, JobsOK
<1>3. KeysLocked /\ TasksOK /\ WorkersOK
  BY DEF KeysLocked, TasksOK, WorkersOK, Active, Idle, NoWork
<1> QED BY <1>1, <1>2, <1>3 DEF IInv

\* IInv is an invariant: types, one lock per key, and what every process in
\* the middle of an operation knows of the store.
THEOREM Invariance == Spec => []IInv
<1>1. Init => IInv
  BY IInvInit
<1>2. IInv /\ [Next]_vars => IInv'
  BY IInvStep
<1> QED BY <1>1, <1>2, PTL DEF Spec

\* The state of the plugin, its processes and the spool is always well typed.
THEOREM TypeCorrect == Spec => []TypeOK
<1>1. IInv => TypeOK
  BY DEF IInv
<1> QED BY <1>1, Invariance, PTL

\* After Volume.destroy of a snapshot reported success, SR.ls never lists
\* the snapshot again.
THEOREM DestroyedSnapStaysGone == Spec => []DestroyedSnapGone
<1>1. IInv => DestroyedSnapGone
  BY StoreAssumption DEF IInv, DestroyedRetired, DestroyedSnapGone, Status, ListedSnap, ListedImage
<1> QED BY <1>1, Invariance, PTL

\* The garbage collector works only on trashed objects.
THEOREM CollectsOnlyTrash == Spec => []OnlyTrashCollected
<1>1. IInv => OnlyTrashCollected
  BY DEF IInv, JobsOK, WorkersOK, WorkerOK, OnlyTrashCollected
<1> QED BY <1>1, Invariance, PTL
=============================================================================
