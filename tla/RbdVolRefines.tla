---------------------------- MODULE RbdVolRefines ----------------------------
(***************************************************************************)
(* The plugin implements VolumeStore, and so loses no volume.              *)
(***************************************************************************)
EXTENDS RbdVolProofs

\* Keys leave the listing only after they were asked to, or before they
\* were reported.
OnlyRetires ==
  \A k \in Key : \/ Status(k)' = Status(k)
                 \/ Status(k)' = "retired" /\ (k \in acked => k \in asked)

LEMMA RetireStep ==
  ASSUME OnlyRetires, acked' = acked, asked' = asked
  PROVE  Abstract!Next
<1> DEFINE K == {k \in Key : Status(k)' # Status(k)}
<1>1. K \in SUBSET Key /\ K \cap acked \subseteq asked
  BY DEF OnlyRetires
<1>2. [k \in Key |-> Status(k)]' = Abstract!Set(K, "retired")
  BY DEF OnlyRetires, Abstract!Set
<1>3. Abstract!Retire(K)
  BY <1>1, <1>2 DEF Abstract!Retire
<1> QED BY <1>1, <1>3 DEF Abstract!Next

\* The status of the keys a step leaves alone.
LEMMA StatusSame ==
  ASSUME NEW k, k \in Image => img'[k] = img[k],
         k \notin Image => /\ snap'[k].name = snap[k].name
                           /\ snap'[k].name = "uuid" =>
                                /\ snap'[k].img = snap[k].img
                                /\ img'[snap[k].img] = img[snap[k].img]
  PROVE  Status(k)' = Status(k)
BY DEF Status

LEMMA StoreUnchanged ==
  ASSUME img' = img, \A s \in Snap : snap'[s].name = snap[s].name /\ snap'[s].img = snap[s].img
  PROVE  [k \in Key |-> Status(k)]' = [k \in Key |-> Status(k)]
<1>1. \A k \in Key : Status(k)' = Status(k)
  BY StatusSame DEF Key
<1> QED BY <1>1

LEMMA SnapRetires ==
  ASSUME IInv, NEW s \in Snap, img' = img,
         snap' = snap \/ (\E p \in BOOLEAN : snap' = SnapProtected(s, p))
           \/ /\ \E nm \in {"trash", "gone"} : snap' = SnapNamed(s, nm)
              /\ Status(s) # "retired" /\ s \in acked => s \in asked
  PROVE  OnlyRetires
<1>1. snap \in [Snap -> SnapRecord] /\ s \notin Image
  BY StoreAssumption DEF IInv, TypeOK, StoreTypeOK
<1>2. \A u \in Snap : u # s => snap'[u] = snap[u]
  BY <1>1 DEF SnapProtected, SnapNamed
<1>3. \A k \in Key : k # s => Status(k)' = Status(k)
  BY <1>2, StatusSame DEF Key
<1>4. CASE snap' = snap \/ \E p \in BOOLEAN : snap' = SnapProtected(s, p)
  <2>1. snap'[s].name = snap[s].name /\ snap'[s].img = snap[s].img
    BY <1>1, <1>4 DEF SnapProtected, SnapRecord
  <2> QED BY <1>1, <1>3, <2>1, StatusSame DEF OnlyRetires
<1>5. CASE /\ \E nm \in {"trash", "gone"} : snap' = SnapNamed(s, nm)
           /\ Status(s) # "retired" /\ s \in acked => s \in asked
  <2>1. snap'[s].name \in {"trash", "gone"}
    BY <1>1, <1>5 DEF SnapNamed, SnapRecord
  <2>2. Status(s)' = "retired"
    BY <1>1, <2>1 DEF Status
  <2> QED BY <1>3, <1>5, <2>2 DEF OnlyRetires
<1> QED BY <1>4, <1>5

LEMMA ImageRetires ==
  ASSUME IInv, NEW i \in Image, snap' = snap,
         \/ img' = img
         \/ /\ \E nm \in {"trash", "gone"} : img' = ImageNamed(i, nm)
            /\ Status(i) # "retired" /\ i \in acked => i \in asked
            /\ \A s \in acked \cap Snap : ListedSnap(s) /\ snap[s].img = i => s \in asked
  PROVE  OnlyRetires
<1>1. CASE img' = img
  BY <1>1, StatusSame DEF OnlyRetires
<1>2. CASE /\ \E nm \in {"trash", "gone"} : img' = ImageNamed(i, nm)
           /\ Status(i) # "retired" /\ i \in acked => i \in asked
           /\ \A s \in acked \cap Snap : ListedSnap(s) /\ snap[s].img = i => s \in asked
  <2>1. img'[i] \in {"trash", "gone"} /\ \A j : j # i => img'[j] = img[j]
    BY <1>2 DEF ImageNamed, IInv, TypeOK, StoreTypeOK
  <2>2. \A j \in Image : j # i => Status(j)' = Status(j)
    BY <2>1, StatusSame
  <2>3. Status(i)' = "retired"
    BY <2>1 DEF Status
  <2>4. ASSUME NEW s \in Snap
        PROVE  \/ Status(s)' = Status(s)
               \/ Status(s)' = "retired" /\ (s \in acked => s \in asked)
    <3>1. s \notin Image
      BY StoreAssumption
    <3>2. CASE snap[s].name = "uuid" /\ snap[s].img = i
      BY <1>2, <2>1, <3>1, <3>2 DEF Status, ListedSnap, ListedImage
    <3>3. CASE ~(snap[s].name = "uuid" /\ snap[s].img = i)
      BY <2>1, <3>1, <3>3, StatusSame
    <3> QED BY <3>2, <3>3
  <2> QED BY <1>2, <2>2, <2>3, <2>4 DEF OnlyRetires, Key
<1> QED BY <1>1, <1>2

\* Creating an image (Volume.create, and the clone call).
LEMMA ImageAppears ==
  ASSUME IInv, NEW i \in Image, img[i] = "free", snap' = snap, asked' = asked,
         \/ img' = ImageNamed(i, "uuid") /\ acked' \in {acked, acked \cup {i}}
         \/ img' = ImageNamed(i, "gone") /\ acked' = acked
  PROVE  Abstract!Next
<1>1. img'[i] \in {"uuid", "gone"} /\ \A j \in Image : j # i => img'[j] = img[j]
  BY DEF ImageNamed, IInv, TypeOK, StoreTypeOK
<1>2. \A k \in Key : k # i => Status(k)' = Status(k)
  BY <1>1, StatusSame DEF Key, IInv, SnapsOwned
<1>3. CASE img' = ImageNamed(i, "uuid") /\ acked' \in {acked, acked \cup {i}}
  <2>1. Status(i) = "fresh" /\ Status(i)' = "listed" /\ i \in Key
    BY <1>3 DEF Status, Key, ImageNamed, IInv, TypeOK, StoreTypeOK
  <2>2. [k \in Key |-> Status(k)]' = Abstract!Set({i}, "listed")
    BY <1>2, <2>1 DEF Abstract!Set
  <2>3. Abstract!Add(i)
    BY <1>3, <2>1, <2>2 DEF Abstract!Add
  <2> QED BY <2>1, <2>3 DEF Abstract!Next
<1>4. CASE img' = ImageNamed(i, "gone") /\ acked' = acked
  <2>1. Status(i)' = "retired" /\ i \notin acked
    BY <1>4 DEF Status, ImageNamed, IInv, TypeOK, StoreTypeOK, AckedExist
  <2> QED BY <1>2, <1>4, <2>1, RetireStep DEF OnlyRetires
<1> QED BY <1>3, <1>4

(***************************************************************************)
(* Every step of the plugin is a step of VolumeStore, or changes nothing   *)
(* that it shows.                                                          *)
(***************************************************************************)
LEMMA RefineCall ==
  ASSUME IInv, VolumeCall PROVE Abstract!Next
<1>1. ASSUME NEW i \in Image, Create(i) PROVE Abstract!Next
  BY <1>1, ImageAppears DEF Create, Done
<1>2. ASSUME NEW s \in Snap, CloneSnap(s) PROVE Abstract!Next
  BY <1>2, ImageAppears DEF CloneSnap, Cloned, Done
<1>3. ASSUME NEW t \in Task, NEW i \in Image, NEW op, NEW nm \in {"uuid", "clonebase"},
             TakeSnap(t, i, op, nm)
      PROVE  Abstract!Next
  <2>1. PICK s \in Snap, r \in Results :
          /\ snap[s].name = "free"
          /\ Reply(ListedImage(i), TRUE, r)
          /\ snap' = IF Done(r) THEN SnapCreated(s, i, nm) ELSE SnapNamed(s, "gone")
    BY <1>3 DEF TakeSnap
  <2>2. img' = img /\ asked' = asked /\ acked' = acked /\ (Done(r) => img[i] = "uuid")
    BY <1>3, <2>1 DEF TakeSnap, Reply, Done, ListedImage
  <2>3. /\ Done(r) => snap'[s].name = nm /\ snap'[s].img = i
        /\ ~Done(r) => snap'[s].name = "gone"
        /\ \A u \in Snap : u # s => snap'[u] = snap[u]
    BY <2>1 DEF SnapCreated, SnapNamed, IInv, TypeOK, StoreTypeOK, SnapRecord
  <2>4. \A k \in Key : k # s => Status(k)' = Status(k)
    BY <2>2, <2>3, StatusSame DEF Key
  <2>5. s \notin Image /\ s \notin acked /\ s \in Key
    BY <2>1, StoreAssumption DEF IInv, AckedExist, Key
  <2>6. CASE Done(r) /\ nm = "uuid"
    <3>1. Status(s) = "fresh" /\ Status(s)' = "listed"
      BY <2>1, <2>2, <2>3, <2>5, <2>6 DEF Status
    <3>2. [k \in Key |-> Status(k)]' = Abstract!Set({s}, "listed")
      BY <2>4, <3>1 DEF Abstract!Set
    <3>3. Abstract!Add(s)
      BY <2>2, <2>5, <3>1, <3>2 DEF Abstract!Add
    <3> QED BY <2>5, <3>3 DEF Abstract!Next
  <2>7. CASE ~(Done(r) /\ nm = "uuid")
    <3>1. Status(s)' = "retired"
      BY <2>3, <2>5, <2>7 DEF Status
    <3> QED BY <2>2, <2>4, <2>5, <3>1, RetireStep DEF OnlyRetires
  <2> QED BY <2>6, <2>7
<1>4. ASSUME NEW K \in SUBSET Key, img' = img, snap' = snap, acked' = acked, asked' = asked \cup K
      PROVE  Abstract!Next
  <2>1. [k \in Key |-> Status(k)]' = [k \in Key |-> Status(k)]
    BY <1>4, StoreUnchanged
  <2> QED BY <1>4, <2>1 DEF Abstract!Next, Abstract!Ask
<1>5. ASSUME NEW t \in Task, NEW s \in Snap, DestroySnap(t, s) PROVE Abstract!Next
  <2>1. {s} \in SUBSET Key
    BY DEF Key
  <2> QED BY <1>4, <1>5, <2>1 DEF DestroySnap
<1>6. ASSUME NEW t \in Task, NEW i \in Image, NEW sxm \in Sxm, Destroy(t, i, sxm)
      PROVE  Abstract!Next
  <2>1. \/ asked' = asked
        \/ asked \cup {i} \subseteq asked' /\ asked' \subseteq asked \cup {i} \cup SnapsOf(i)
    BY <1>6, DestroyStarts
  <2>2. (asked' \ asked) \in SUBSET Key /\ asked' = asked \cup (asked' \ asked)
    BY <2>1 DEF SnapsOf, Key
  <2> QED BY <1>4, <1>6, <2>2 DEF Destroy, Refused, UserSnaps
<1> QED BY <1>1, <1>2, <1>3, <1>5, <1>6 DEF VolumeCall, Snapshot, CloneLive

LEMMA RefineTask ==
  ASSUME IInv, NEW t \in Task, TaskStep(t) PROVE Abstract!Next
<1>t. Active(t) /\ TaskOK(t)
  BY DEF IInv, TasksOK, TaskStep, Active, Protect, Protected, UndoUnprotect, UndoRemove,
         Clone, Rename, Renamed, SpawnGc, TaskObject, Unprotect, Remove, Removed, RemoveNext, RenameImg, RemoveImg, CrashTask
<1> PICK s, i : s = task[t].snap /\ i = task[t].img
  OBVIOUS
<1>s. ASSUME img' = img, snap' = snap, acked' = acked, asked' = asked PROVE Abstract!Next
  BY <1>s, StatusSame, RetireStep DEF OnlyRetires
<1>1. CASE Protect(t)
  <2>1. Making(t) /\ s \in Snap /\ s \in Key /\ s \notin Image
    BY <1>t, <1>1, TaskAt, StoreAssumption DEF Protect, Protected, Key
  <2>2. img' = img /\ asked' = asked
        /\ \A u \in Snap : snap'[u].name = snap[u].name /\ snap'[u].img = snap[u].img
    BY <1>1, <2>1 DEF Protect, SnapProtected, IInv, TypeOK, StoreTypeOK, SnapRecord
  <2>3. [k \in Key |-> Status(k)]' = [k \in Key |-> Status(k)]
    BY <2>2, StoreUnchanged
  <2>4. CASE acked' = acked
    BY <2>2, <2>4, RetireStep, StatusSame DEF OnlyRetires, Key
  <2>5. CASE acked' # acked
    <3>1. acked' = acked \cup {s} /\ Found(t) /\ task[t].op = "snapshot"
      BY <1>1, <2>1, <2>5 DEF Protect, Protected, Reply, Making
    <3>2. Status(s) = "listed"
      BY <1>t, <2>1, <3>1 DEF Found, Status, TaskOK, Making, MakingOK
    <3>3. Abstract!Ack(s)
      BY <2>1, <2>2, <2>3, <3>1, <3>2 DEF Abstract!Ack
    <3> QED BY <2>1, <3>3 DEF Abstract!Next
  <2> QED BY <2>4, <2>5
<1>2. CASE UndoUnprotect(t)
  BY <1>t, <1>2, TaskAt, SnapRetires, RetireStep DEF UndoUnprotect
<1>3. CASE UndoRemove(t)
  <2>1. s \in Snap \ acked
    BY <1>t, <1>3, TaskAt DEF UndoRemove, TaskOK, MakingOK
  <2> QED BY <1>3, <2>1, SnapRetires, RetireStep DEF UndoRemove
<1>4. CASE Clone(t)
  BY <1>4, ImageAppears DEF Clone, Cloned, Done
<1>5. CASE Rename(t)
  <2>1. s \in Snap \cap asked
    BY <1>t, <1>5, TaskAt DEF Rename, Renamed, TaskOK, DestroySnapOK
  <2> QED BY <1>5, <2>1, SnapRetires, RetireStep DEF Rename, Renamed
<1>6. CASE SpawnGc(t) \/ CrashTask(t)
  BY <1>6, <1>s DEF SpawnGc, TaskObject, CrashTask, storeVars
<1>7. CASE Unprotect(t)
  BY <1>t, <1>7, TaskAt, SnapRetires, RetireStep DEF Unprotect
<1>8. CASE Remove(t)
  <2>1. s \in Snap /\ task[t].op \in {"destroySnap", "destroy"}
    BY <1>t, <1>8, TaskAt DEF Remove, Removed, RemoveNext
  <2>2. Status(s) # "retired" /\ s \in acked => s \in asked
    <3>1. CASE task[t].op = "destroySnap"
      BY <1>t, <3>1 DEF TaskOK, DestroySnapOK
    <3>2. CASE task[t].op = "destroy"
      <4>1. snap[s].img = i /\ snap[s].name # "free" /\ s \notin Image
        BY <1>t, <1>8, <2>1, <3>2, StoreAssumption DEF Remove, Removed, RemoveNext, TaskOK, DestroyOK, OfImage
      <4>2. Status(s) # "retired" => ListedSnap(s)
        BY <4>1 DEF Status, ListedSnap, ListedImage
      <4> QED BY <1>t, <2>1, <3>2, <4>1, <4>2 DEF TaskOK, DestroyOK
    <3> QED BY <2>1, <3>1, <3>2
  <2> QED BY <1>8, <2>1, <2>2, SnapRetires, RetireStep DEF Remove, Removed, RemoveNext
<1>9. CASE RenameImg(t) \/ RemoveImg(t)
  <2>1. i \in Image /\ task[t].op = "destroy"
    BY <1>t, <1>9, TaskAt DEF RenameImg, Renamed, RemoveImg
  <2>2. /\ i \in asked
        /\ \A u \in acked \cap Snap : ListedSnap(u) /\ snap[u].img = i => u \in asked
    BY <1>t, <2>1 DEF TaskOK, DestroyOK
  <2> QED BY <1>9, <2>1, <2>2, ImageRetires, RetireStep DEF RenameImg, Renamed, RemoveImg
<1> QED BY <1>1, <1>2, <1>3, <1>4, <1>5, <1>6, <1>7, <1>8, <1>9 DEF TaskStep

LEMMA RefineGc ==
  ASSUME IInv, GcNext, UNCHANGED opVars PROVE Abstract!Next
<1>a. acked' = acked /\ asked' = asked
  BY DEF opVars
<1>s. ASSUME img' = img, \A s \in Snap : snap'[s].name = snap[s].name /\ snap'[s].img = snap[s].img
      PROVE  Abstract!Next
  BY <1>a, <1>s, StatusSame, RetireStep DEF OnlyRetires, Key
<1>1. ASSUME NEW w \in Worker, NEW j \in launched, Begin(w, j) PROVE Abstract!Next
  BY <1>1, <1>s DEF Begin, storeVars
<1>2. ASSUME NEW w \in Worker, WorkerStep(w) \/ CrashWorker(w) PROVE Abstract!Next
  <2>r. worker[w].pc # "idle" /\ WorkerOK(w) /\ Obj(w) \in Object
    BY <1>2, RunningWorker DEF WorkerStep, CrashWorker, Info, OkOrGone, Child, Flatten, Resolved, Relist,
          PurgeUnprotect, PurgeRemove, OkOrGone, Purged, AfterPurge, PurgeImage, Unlink, IInv, TypeOK, WorkersOK
  <2>1. CASE Info(w) \/ Child(w) \/ Resolved(w) \/ Relist(w) \/ Purged(w) \/ Unlink(w)
             \/ CrashWorker(w)
    BY <1>s, <2>1 DEF Info, OkOrGone, Child, Resolved, Relist, Purged, AfterPurge, Unlink, CrashWorker, storeVars
  <2>2. CASE Flatten(w)
    <3>1. \A s \in Snap : snap'[s].name = snap[s].name /\ snap'[s].img = snap[s].img
      BY <2>2 DEF Flatten, OkOrGone, SnapsFlattened, SnapRecord, IInv, TypeOK, StoreTypeOK
    <3> QED BY <1>s, <2>2, <3>1 DEF Flatten, OkOrGone
  <2>3. CASE PurgeUnprotect(w)
    <3>1. PICK x \in worker[w].purge : snap' = snap \/ snap' = SnapProtected(x[1], FALSE)
      BY <2>3 DEF PurgeUnprotect
    <3>2. x[1] \in Snap
      BY <2>r, RunningWorker DEF IInv, TypeOK, WorkRecord
    <3> QED BY <1>a, <2>3, <3>1, <3>2, SnapRetires, RetireStep DEF PurgeUnprotect
  <2>4. CASE PurgeRemove(w)
    <3> PICK s : s = worker[w].snap
      OBVIOUS
    <3>1. s \in Snap /\ s \notin Image
      BY <2>4, PurgedSnap, StoreAssumption DEF PurgeRemove, OkOrGone
    <3>2. snap' = snap \/ (snap' = SnapNamed(s, "gone") /\ SnapFound(w, <<s, worker[w].snm>>))
      BY <2>4 DEF PurgeRemove, OkOrGone, Reply, Done
    <3>3. SnapFound(w, <<s, worker[w].snm>>) => Status(s) = "retired"
      <4>1. MayPurge(Obj(w), s, worker[w].snm)
        BY <2>r, <2>4 DEF WorkerOK, PurgeRemove, OkOrGone
      <4>2. CASE Obj(w).kind = "snap"
        BY <3>1, <4>1, <4>2 DEF MayPurge, SnapFound, Status
      <4>3. CASE Obj(w).kind # "snap"
        BY <3>1, <4>1, <4>3 DEF MayPurge, OfImage, SnapFound, ObjFound, ObjName, Status
      <4> QED BY <4>2, <4>3
    <3> QED BY <1>a, <2>4, <3>1, <3>2, <3>3, SnapRetires, RetireStep DEF PurgeRemove, OkOrGone
  <2>5. CASE PurgeImage(w)
    <3> PICK i : i = Obj(w).img
      OBVIOUS
    <3>1. i \in Image /\ Obj(w).kind = "image"
      BY <2>r, <2>5 DEF PurgeImage, OkOrGone, WorkerOK, Object
    <3>2. img' = img \/ (img' = ImageNamed(i, "gone") /\ img[i] = "trash")
      BY <2>5, <3>1 DEF PurgeImage, OkOrGone, Reply, Done, ObjFound, ObjName
    <3>3. img[i] = "trash" => /\ Status(i) = "retired"
                              /\ \A s \in Snap : ListedSnap(s) => snap[s].img # i
      BY <3>1 DEF Status, ListedSnap, ListedImage
    <3> QED BY <1>a, <2>5, <3>1, <3>2, <3>3, ImageRetires, RetireStep DEF PurgeImage, OkOrGone
  <2> QED BY <1>2, <2>1, <2>2, <2>3, <2>4, <2>5 DEF WorkerStep
<1> QED BY <1>1, <1>2 DEF GcNext

LEMMA RefineNext ==
  ASSUME IInv, [Next]_vars PROVE [Abstract!Next]_(Abstract!vars)
<1>1. ASSUME NEW h \in Host, NEW old \in SUBSET jobs, Ls(h, old) PROVE Abstract!Next
  BY <1>1, StatusSame, RetireStep DEF Ls, Unqueued, opVars, OnlyRetires
<1>2. CASE UNCHANGED vars
  <2>1. img' = img /\ snap' = snap /\ acked' = acked /\ asked' = asked
    BY <1>2 DEF vars, storeVars, opVars
  <2>2. [k \in Key |-> Status(k)]' = [k \in Key |-> Status(k)]
    BY <2>1, StoreUnchanged
  <2> QED BY <2>1, <2>2 DEF Abstract!vars
<1> QED BY <1>1, <1>2, RefineCall, RefineTask, RefineGc DEF Next, OpsNext

LEMMA RefineInit ==
  ASSUME Init PROVE Abstract!Init
BY StoreAssumption DEF Init, StoreInit, OpsInit, Abstract!Init, Status, Key

\* The plugin implements VolumeStore: seen through SR.ls, a key is fresh,
\* then listed, then retired for good, and a reported key is retired only
\* after its destruction was asked for, whatever the operations, the
\* garbage collector, the scans and the faults do.
THEOREM Refinement == Spec => Implements
<1>1. Init => Abstract!Init
  BY RefineInit
<1>2. IInv /\ [Next]_vars => [Abstract!Next]_(Abstract!vars)
  BY RefineNext
<1> QED BY <1>1, <1>2, Invariance, PTL DEF Spec, Implements, Abstract!Spec

\* A volume or snapshot whose creation was reported to xapi is listed until
\* its destruction is asked for.
THEOREM NoVolumeLost == Spec => []NothingLost
<1>1. Abstract!Spec => [](Abstract!TypeOK /\ Abstract!Safe)
  BY Abstract!SafeStore
<1>2. Abstract!TypeOK /\ Abstract!Safe => NothingLost
  BY StoreAssumption DEF Abstract!TypeOK, Abstract!Safe, NothingLost, Status, ListedImage, ListedSnap, Key
<1> QED BY <1>1, <1>2, Refinement, PTL DEF Implements
=============================================================================
