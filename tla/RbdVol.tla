------------------------------- MODULE RbdVol -------------------------------
(***************************************************************************)
(* The SMAPIv3 volume plugin as a whole: the volume operations, the        *)
(* garbage collection workers they hand trashed objects to, and the scans  *)
(* (SR.ls) that restart dead jobs and queue trashed objects without one.   *)
(***************************************************************************)
EXTENDS VolumeOps, GcWorker

vars == <<storeVars, spoolVars, opVars, worker>>

TypeOK == StoreTypeOK /\ SpoolTypeOK /\ OpsTypeOK /\ WorkerTypeOK

Init == StoreInit /\ SpoolInit /\ OpsInit /\ WorkerInit

\* The trashed objects a listing of the images shows: whole images, and
\* snapshots of images that are not trashed themselves.
TrashObjects ==
  {ImageObject(i) : i \in {j \in Image : img[j] = "trash"}}
    \cup {SnapObject(snap[s].img, s) :
            s \in {u \in Snap : /\ snap[u].name = "trash"
                                /\ ListedImage(snap[u].img)}}

\* Mutation: no job is queued for a trashed object that has none.
NoneUnqueued(h) == {}

Unqueued(h) == {h} \X (TrashObjects \ Queued(h))

\* SR.ls: sweep the spool of this host, list the images, and queue a job
\* for each trashed object that has none.  A destroy that queues its job
\* between the sweep and the listing gets a second worker for it, exactly as
\* when its job file is found stale, so the scan is one step.
Ls(h, old) ==
  /\ \E r \in Results :
       /\ Reply(TRUE, TRUE, r)
       /\ SweepAndSpawn(h, old, IF r = "ok" THEN Unqueued(h) ELSE {})
  /\ UNCHANGED <<img, parent, snap, opVars, worker>>

Next ==
  \/ OpsNext /\ UNCHANGED worker
  \/ GcNext /\ UNCHANGED opVars
  \/ \E h \in Host, old \in SUBSET jobs : Ls(h, old)

Spec == Init /\ [][Next]_vars

(***************************************************************************)
(* Liveness.  A worker process that is running and not killed goes on; a   *)
(* started one gets to run (strong fairness: Worker only bounds how many   *)
(* run at once); Scanner are the hosts on which xapi keeps calling SR.ls,  *)
(* and a job file that stays there is found stale by some later scan.      *)
(* Volume operations need not make progress.                               *)
(***************************************************************************)
Fairness(Scanner) ==
  /\ \A w \in Worker : WF_vars(WorkerStep(w) /\ UNCHANGED opVars)
  /\ \A j \in Job :
       SF_vars((\E w \in Worker : Begin(w, j)) /\ UNCHANGED opVars)
  /\ \A h \in Scanner :
       /\ WF_vars(\E old \in SUBSET jobs : Ls(h, old))
       /\ \A o \in Object :
            WF_vars(\E old \in SUBSET jobs : <<h, o>> \in old /\ Ls(h, old))

------------------------------------------------------------------------------
\* A volume or snapshot whose creation was reported to xapi is listed until
\* its destruction is asked for: no interleaving of other operations,
\* garbage collection, scans, lost calls or crashes removes it
\* (Volume.destroy's refusal of an image with user snapshots, the trash
\* names, and the checks of rbd_gc.run).
NothingLost ==
  \A k \in acked \ asked :
    IF k \in Image THEN ListedImage(k) ELSE ListedSnap(k)

\* After Volume.destroy of a snapshot reported success, SR.ls does not list
\* the snapshot.
DestroyedSnapGone == \A s \in destroyed \cap Snap : ~ListedSnap(s)

\* The garbage collector only ever works on trashed objects: the object of
\* a queued or running job is found under a trash name or is gone
\* (gcjob.spawn is called after the rename, by destroy and by SR.ls).
Trashed(o) ==
  IF o.kind = "snap" THEN snap[o.snap].name \in {"trash", "gone"}
  ELSE img[o.img] \in {"trash", "gone"}

OnlyTrashCollected ==
  /\ \A j \in jobs \cup launched : Trashed(j[2])
  /\ \A w \in Worker : worker[w].pc # "idle" => Trashed(Obj(w))

\* A clone without deep-flatten that has snapshots pins its parent: the
\* worker defers until those snapshots are gone.
Pinned(s) == \E c \in Children(s) : c \notin Deep /\ SnapsOf(c) # {}

ObjPinned(o) ==
  IF o.kind = "snap" THEN Pinned(o.snap)
  ELSE \E s \in SnapsOf(o.img) : Pinned(s)

\* Every trashed object is purged in the end, unless a clone pins it, even
\* when its worker dies, its job file was never written, two workers run
\* the same job, or a clone is destroyed meanwhile (rbd_gc.run, gcjob.sweep,
\* and SR.ls as the backstop).
TrashPurged ==
  /\ \A i \in Image :
       img[i] = "trash" ~> img[i] = "gone" \/ ObjPinned(ImageObject(i))
  /\ \A s \in Snap :
       snap[s].name = "trash" ~> snap[s].name = "gone" \/ Pinned(s)

\* Every job file is deleted in the end, unless a clone pins its object:
\* what another worker, or a destroy, has already removed counts as done
\* (the not_found branches of rbd_gc.run).
SpoolDrains ==
  \A j \in Job : j \in jobs ~> j \notin jobs \/ ObjPinned(j[2])

------------------------------------------------------------------------------
\* The abstract state of a key, as SR.ls shows it.
Status(k) ==
  IF k \in Image
  THEN CASE img[k] = "free" -> "fresh"
         [] img[k] = "uuid" -> "listed"
         [] OTHER -> "retired"
  ELSE CASE snap[k].name = "free" -> "fresh"
         [] snap[k].name = "uuid" /\ img[snap[k].img] = "uuid" -> "listed"
         [] OTHER -> "retired"

Abstract == INSTANCE VolumeStore WITH status <- [k \in Key |-> Status(k)]

\* The plugin implements VolumeStore: seen through SR.ls, every step of
\* every process adds, reports or retires keys the way it promises.
Implements == Abstract!Spec

(***************************************************************************)
(* The inductive invariant behind Implements and DestroyedSnapGone.        *)
(***************************************************************************)
Active(t) == task[t].pc # "idle"
Making(t) == task[t].op \in {"snapshot", "clone"}

\* An existing snapshot lives in an image that was created.
SnapsOwned ==
  \A s \in Snap :
    snap[s].name \notin {"free", "gone"} =>
      snap[s].img \in Image /\ img[snap[s].img] # "free"

AckedExist ==
  /\ \A i \in acked \cap Image : img[i] # "free"
  /\ \A s \in acked \cap Snap :
       /\ snap[s].name \in {"uuid", "trash", "gone"}
       /\ snap[s].img \in Image /\ img[snap[s].img] # "free"

DestroyedRetired == \A s \in destroyed \cap Snap : Status(s) = "retired"

\* No two processes work on one key, nor make one snapshot.
KeysLocked ==
  \A t, u \in Task :
    t # u /\ Active(t) /\ Active(u) =>
      /\ KeyOf(t) # KeyOf(u)
      /\ Making(t) /\ Making(u) => task[t].snap # task[u].snap

MakingOK(t) ==
  LET s == task[t].snap IN
  /\ task[t].pc \in {"protect", "clone", "undoUnprotect", "undoRemove"}
  /\ s \in Snap \ acked
  /\ task[t].op = "snapshot" =>
       /\ task[t].pc # "clone" /\ task[t].nm = "uuid"
       /\ snap[s].name \in {"uuid", "trash", "gone"}
       /\ snap[s].name # "gone" => snap[s].img = task[t].img
  /\ task[t].op = "clone" =>
       task[t].nm = "clonebase" /\ snap[s].name \in {"clonebase", "gone"}

DestroySnapOK(t) ==
  LET s == task[t].snap IN
  /\ task[t].pc \in {"rename", "spawn", "unprotect", "remove"}
  /\ s \in Snap /\ s \in asked /\ task[t].nm = "uuid"
  /\ snap[s].name \in {"uuid", "trash", "gone"}
  /\ snap[s].img = task[t].img
  /\ task[t].pc = "spawn" => snap[s].name \in {"trash", "gone"}

OfImage(s, i) == s \in Snap /\ snap[s].name # "free" /\ snap[s].img = i

\* The image being destroyed keeps its xapi lock, so no snapshot of it is
\* reported that the refusal test of Destroy did not see.
DestroyOK(t) ==
  LET i == task[t].img IN
  /\ task[t].pc \in {"renameImg", "spawn", "unprotect", "remove",
                     "removeImg", "retryImg"}
  /\ i \in asked
  /\ \A s \in acked \cap Snap : ListedSnap(s) /\ snap[s].img = i => s \in asked
  /\ task[t].pc = "spawn" => img[i] \in {"trash", "gone"}
  /\ task[t].pc \in {"unprotect", "remove"} => OfImage(task[t].snap, i)
  /\ \A x \in task[t].todo : OfImage(x[1], i)

TaskOK(t) ==
  /\ task[t].img \in Image /\ img[task[t].img] # "free"
  /\ task[t].op # "none"
  /\ Making(t) => MakingOK(t)
  /\ task[t].op = "destroySnap" => DestroySnapOK(t)
  /\ task[t].op = "destroy" => DestroyOK(t)

TasksOK == \A t \in Task : Active(t) => TaskOK(t)

\* A worker only removes the trashed snapshot of its job, or snapshots of
\* the trashed image of its job.
MayPurge(o, s, nm) ==
  IF o.kind = "snap" THEN s = o.snap /\ nm = "trash" ELSE OfImage(s, o.img)

WorkerOK(w) ==
  /\ Trashed(Obj(w))
  /\ \A x \in worker[w].purge : MayPurge(Obj(w), x[1], x[2])
  /\ worker[w].pc = "remove" => MayPurge(Obj(w), worker[w].snap, worker[w].snm)
  /\ worker[w].pc = "flatten" => worker[w].child \in Image
  /\ worker[w].pc \in {"relist", "removeImg"} => Obj(w).kind = "image"

JobsOK == \A j \in jobs \cup launched : Trashed(j[2])
WorkersOK == \A w \in Worker : worker[w].pc # "idle" => WorkerOK(w)

IInv ==
  /\ TypeOK /\ SnapsOwned /\ AckedExist /\ DestroyedRetired
  /\ KeysLocked /\ TasksOK /\ JobsOK /\ WorkersOK
=============================================================================
