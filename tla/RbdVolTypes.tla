---------------------------- MODULE RbdVolTypes ----------------------------
(***************************************************************************)
(* Type correctness of RbdVol: every step that starts in a state of the    *)
(* inductive invariant IInv ends in a state of TypeOK.  The invariant is   *)
(* needed because some records only fit their type when the process is     *)
(* where it should be (a job names a snapshot, not NoSnap).                *)
(***************************************************************************)
EXTENDS RbdVol, TLAPS

LEMMA ReplyType ==
  ASSUME faults \in 0 .. MaxFaults, NEW f, NEW a, NEW r \in Results, Reply(f, a, r)
  PROVE  faults' \in 0 .. MaxFaults
BY StoreAssumption DEF Reply

LEMMA SnapTyped ==
  ASSUME snap \in [Snap -> SnapRecord], NEW s,
         \/ snap' = snap
         \/ \E p \in BOOLEAN : snap' = SnapProtected(s, p)
         \/ \E nm \in SnapName : snap' = SnapNamed(s, nm)
  PROVE  snap' \in [Snap -> SnapRecord]
BY DEF SnapProtected, SnapNamed, SnapRecord

\* The records NextOf builds.
LEMMA NextOfRecord ==
  ASSUME NEW i \in Image, NEW todo \in SUBSET (Snap \X SnapName),
         NEW n \in NextOf(i, todo)
  PROVE  /\ n \in TaskRecord
         /\ n.op = "destroy" /\ n.img = i
         /\ n.todo \subseteq todo
         /\ n.pc \in {"removeImg", "unprotect"}
         /\ n.pc = "unprotect" => <<n.snap, n.nm>> \in todo
<1>1. CASE todo = {}
  BY <1>1 DEF NextOf, TaskRecord, SnapName
<1>2. CASE todo # {}
  <2>1. PICK x \in todo : n = [op |-> "destroy", pc |-> "unprotect", img |-> i,
                               snap |-> x[1], nm |-> x[2], todo |-> todo \ {x}]
    BY <1>2 DEF NextOf
  <2>2. x[1] \in Snap /\ x[2] \in SnapName /\ x = <<x[1], x[2]>>
    OBVIOUS
  <2> QED BY <2>1, <2>2 DEF TaskRecord
<1> QED BY <1>1, <1>2

\* What starting to destroy an image does to its task.
LEMMA DestroyStarts ==
  ASSUME IInv, NEW t \in Task, NEW i \in Image, NEW sxm \in Sxm, Destroy(t, i, sxm)
  PROVE  \/ UNCHANGED <<task, asked>>
         \/ \E n \in TaskRecord :
              /\ task' = [task EXCEPT ![t] = n]
              /\ n.op = "destroy" /\ n.img = i
              /\ n.pc \in {"renameImg", "unprotect", "removeImg"}
              /\ n.pc = "unprotect" => n.snap \in SnapsOf(i)
              /\ \A x \in n.todo : x[1] \in SnapsOf(i)
              /\ asked' \subseteq asked \cup {i} \cup SnapsOf(i)
              /\ asked \cup {i} \subseteq asked'
              /\ ListedImage(i) => {s \in SnapsOf(i) : snap[s].name = "uuid"} \subseteq asked'
<1> DEFINE real == {s \in SnapsOf(i) : snap[s].name = "uuid"}
           all == {<<s, snap[s].name>> : s \in SnapsOf(i)}
<1>t. all \in SUBSET (Snap \X SnapName)
  BY DEF IInv, TypeOK, StoreTypeOK, SnapRecord, SnapsOf
<1>1. PICK r \in Results :
        \/ r = "ok" /\ asked' = asked \cup {i} \cup real
             /\ \/ task' = [task EXCEPT ![t] = [Idle EXCEPT !.op = "destroy", !.img = i,
                                                          !.pc = "renameImg"]]
                \/ \E n \in NextOf(i, all) : task' = [task EXCEPT ![t] = n]
        \/ r = "nf" /\ asked' = asked \cup {i} /\ ~ListedImage(i)
             /\ \E n \in NextOf(i, {}) : task' = [task EXCEPT ![t] = n]
        \/ UNCHANGED <<task, asked>>
  BY DEF Destroy, Refused, UserSnaps, Reply, Results
<1>2. ASSUME NEW todo \in SUBSET all, NEW n \in NextOf(i, todo)
      PROVE  /\ n \in TaskRecord /\ n.op = "destroy" /\ n.img = i
             /\ n.pc \in {"renameImg", "unprotect", "removeImg"}
             /\ n.pc = "unprotect" => n.snap \in SnapsOf(i)
             /\ \A x \in n.todo : x[1] \in SnapsOf(i)
  <2>1. \A s, nm : <<s, nm>> \in all => s \in SnapsOf(i)
    OBVIOUS
  <2>2. \A x \in all : x[1] \in SnapsOf(i)
    OBVIOUS
  <2> HIDE DEF all
  <2>3. todo \in SUBSET (Snap \X SnapName)
    BY <1>t
  <2>4. /\ n \in TaskRecord /\ n.op = "destroy" /\ n.img = i /\ n.todo \subseteq todo
        /\ n.pc \in {"removeImg", "unprotect"}
        /\ n.pc = "unprotect" => <<n.snap, n.nm>> \in todo
    BY <1>2, <2>3, NextOfRecord
  <2> QED BY <2>1, <2>2, <2>4
<1>3. LET n == [Idle EXCEPT !.op = "destroy", !.img = i, !.pc = "renameImg"] IN
        /\ n \in TaskRecord /\ n.op = "destroy" /\ n.img = i
        /\ n.pc = "renameImg" /\ n.todo = {}
  BY DEF Idle, TaskRecord, SnapName
<1>4. real \subseteq SnapsOf(i)
  OBVIOUS
<1> HIDE DEF real, all
<1> QED BY <1>1, <1>2, <1>3, <1>4 DEF real

(***************************************************************************)
(* Type correctness, one process at a time.                                *)
(***************************************************************************)
LEMMA CallType ==
  ASSUME IInv, VolumeCall, UNCHANGED worker PROVE TypeOK'
<1> USE ReplyType DEF IInv, TypeOK, StoreTypeOK, OpsTypeOK, SpoolTypeOK, Key, spoolVars
<1>w. WorkerTypeOK'
  BY DEF WorkerTypeOK
<1>1. ASSUME NEW i \in Image, Create(i) PROVE TypeOK'
  BY <1>w, <1>1 DEF Create, ImageNamed, ImageName
<1>2. ASSUME NEW s \in Snap, CloneSnap(s) PROVE TypeOK'
  BY <1>w, <1>2 DEF CloneSnap, Cloned, ImageNamed, ImageName
<1>3. ASSUME NEW t \in Task, NEW i \in Image, Snapshot(t, i) \/ CloneLive(t, i)
      PROVE  TypeOK'
  <2> PICK op \in {"snapshot", "clone"}, nm \in {"uuid", "clonebase"} : TakeSnap(t, i, op, nm)
    BY <1>3 DEF Snapshot, CloneLive
  <2> PICK s \in Snap, r \in Results :
         /\ Reply(ListedImage(i), TRUE, r)
         /\ snap' = IF Done(r) THEN SnapCreated(s, i, nm)
                    ELSE SnapNamed(s, "gone")
         /\ task' = [task EXCEPT ![t] =
                    [op |-> op, img |-> i, snap |-> s, nm |-> nm,
                     pc |-> IF r = "ok" THEN "protect" ELSE "undoUnprotect",
                     todo |-> {}]]
    BY DEF TakeSnap
  <2>1. snap' \in [Snap -> SnapRecord]
    BY DEF SnapCreated, SnapNamed, SnapRecord, SnapName
  <2>2. task' \in [Task -> TaskRecord]
    BY DEF TaskRecord, SnapName
  <2> QED BY <1>w, <2>1, <2>2 DEF TakeSnap
<1>4. ASSUME NEW t \in Task, NEW s \in Snap, DestroySnap(t, s) PROVE TypeOK'
  <2>1. snap[s].img \in Image \cup {NoImage}
    BY DEF SnapRecord
  <2>2. task' \in [Task -> TaskRecord]
    BY <1>4, <2>1 DEF DestroySnap, TaskRecord, SnapName
  <2> QED BY <1>4, <1>w, <2>2 DEF DestroySnap
<1>5. ASSUME NEW t \in Task, NEW i \in Image, NEW sxm \in Sxm, Destroy(t, i, sxm)
      PROVE  TypeOK'
  <2>1. task' \in [Task -> TaskRecord]
    BY <1>5, DestroyStarts DEF TaskRecord
  <2>2. asked' \subseteq Key
    BY <1>5, DestroyStarts DEF SnapsOf
  <2>3. faults' \in 0 .. MaxFaults
    BY <1>5 DEF Destroy, Refused, UserSnaps
  <2> QED BY <1>5, <1>w, <2>1, <2>2, <2>3 DEF Destroy, Refused, UserSnaps
<1> QED BY <1>1, <1>2, <1>3, <1>4, <1>5 DEF VolumeCall

LEMMA TaskStepType ==
  ASSUME IInv, NEW t \in Task, TaskStep(t), UNCHANGED worker PROVE TypeOK'
<1>n. \A i \in Image : \A todo \in SUBSET (Snap \X SnapName) :
        NextOf(i, todo) \subseteq TaskRecord
  BY NextOfRecord
<1> USE ReplyType DEF IInv, TypeOK, StoreTypeOK, OpsTypeOK, SpoolTypeOK, Key, spoolVars
<1>w. WorkerTypeOK'
  BY DEF WorkerTypeOK
<1>i. Idle \in TaskRecord
  BY DEF Idle, TaskRecord, SnapName
<1>g. ASSUME NEW pc \in {"clone", "undoUnprotect", "undoRemove", "spawn", "remove", "retryImg"},
             Goto(t, pc) \/ Return(t)
      PROVE  task' \in [Task -> TaskRecord]
  BY <1>g, <1>i DEF Goto, Return, TaskRecord
<1>k. ASSUME Active(t), KeyOf(t) \in Key PROVE Success(t) \/ Fail(t) => destroyed' \subseteq Key
  BY <1>k DEF Success, Fail
<1>p. /\ task[t].pc \in {"protect", "clone", "undoUnprotect", "undoRemove", "rename",
                          "unprotect", "remove"} => task[t].snap \in Snap
      /\ Active(t) => task[t].img \in Image /\ KeyOf(t) \in Key
  BY DEF TasksOK, TaskOK, MakingOK, DestroySnapOK, DestroyOK, OfImage, Active, Making,
         KeyOf, TaskRecord
<1>1. CASE Protect(t)
  BY <1>w, <1>g, SnapTyped, <1>p, <1>1 DEF Protect, Protected
<1>2. CASE UndoUnprotect(t)
  BY <1>w, <1>g, SnapTyped, <1>2 DEF UndoUnprotect
<1>3. CASE UndoRemove(t)
  BY <1>w, <1>g, SnapTyped, <1>3 DEF UndoRemove, SnapName
<1>4. CASE Clone(t)
  BY <1>w, <1>g, <1>p, <1>4 DEF Clone, Cloned, ImageNamed, ImageName
<1>5. CASE Rename(t)
  <2>1. task' \in [Task -> TaskRecord] /\ destroyed' \subseteq Key
    BY <1>g, <1>p, <1>5 DEF Rename, Renamed, Active, Success, Fail
  <2>2. snap' \in [Snap -> SnapRecord]
    BY SnapTyped, <1>5 DEF Rename, Renamed, SnapName
  <2> QED BY <1>w, <1>5, <2>1, <2>2 DEF Rename, Renamed
<1>6. CASE SpawnGc(t)
  <2>1. PICK h \in Host :
          Spawn({<<h, TaskObject(t)>>})
    BY <1>6 DEF SpawnGc, TaskObject
  <2>2. task[t].op = "destroySnap" => task[t].snap \in Snap
    BY <1>6 DEF SpawnGc, TaskObject, TasksOK, TaskOK, DestroySnapOK, Active
  <2>3. TaskObject(t) \in Object
    BY <1>p, <1>6, <2>2 DEF SpawnGc, TaskObject, Object, SnapObject, ImageObject, Active
  <2>4. SpoolTypeOK'
    BY <2>1, <2>3 DEF Spawn, Job
  <2> QED BY <1>w, <1>g, <1>p, <1>6, <2>4 DEF SpawnGc, TaskObject, storeVars, Active, Success
<1>7. CASE Unprotect(t)
  BY <1>w, <1>g, SnapTyped, <1>7 DEF Unprotect
<1>8. CASE Remove(t)
  <2>1. ASSUME NEW n \in NextOf(task[t].img, task[t].todo)
        PROVE  n \in TaskRecord
    <3>1. task[t].img \in Image /\ task[t].todo \in SUBSET (Snap \X SnapName)
      BY <1>p, <1>8 DEF Remove, Removed, RemoveNext, Active, TaskRecord
    <3> QED BY <1>n, <2>1, <3>1
  <2>2. task' \in [Task -> TaskRecord] /\ destroyed' \subseteq Key
    BY <1>g, <1>p, <1>8, <2>1 DEF Remove, Removed, RemoveNext, Active, Success, Fail
  <2>3. snap' \in [Snap -> SnapRecord]
    BY SnapTyped, <1>8 DEF Remove, Removed, RemoveNext, SnapName
  <2> QED BY <1>w, <1>8, <2>2, <2>3 DEF Remove, Removed, RemoveNext
<1>9. CASE RenameImg(t)
  <2>1. task' \in [Task -> TaskRecord] /\ destroyed' \subseteq Key
    BY <1>g, <1>p, <1>9 DEF RenameImg, Renamed, Active, Success, Fail
  <2> QED BY <1>w, <1>9, <2>1 DEF RenameImg, Renamed, ImageNamed, ImageName
<1>10. CASE RemoveImg(t)
  <2>1. task' \in [Task -> TaskRecord] /\ destroyed' \subseteq Key
    BY <1>g, <1>p, <1>10 DEF RemoveImg, Active, Success, Fail
  <2> QED BY <1>w, <1>10, <2>1 DEF RemoveImg, ImageNamed, ImageName
<1>11. CASE CrashTask(t)
  BY <1>w, <1>g, <1>11, StoreAssumption DEF CrashTask
<1> QED BY <1>1, <1>2, <1>3, <1>4, <1>5, <1>6, <1>7, <1>8, <1>9, <1>10, <1>11 DEF TaskStep

\* The record of a worker that runs, field by field.
LEMMA RunningWorker ==
  ASSUME WorkerTypeOK, NEW w \in Worker, worker[w].pc # "idle"
  PROVE  /\ worker[w].job \in Job /\ Obj(w) \in Object
         /\ worker[w] \in WorkRecord \ {NoWork}
BY DEF WorkerTypeOK, WorkRecord, NoWork, Obj, Job

LEMMA GcType ==
  ASSUME IInv, GcNext, UNCHANGED opVars PROVE TypeOK'
<1> USE ReplyType DEF IInv, TypeOK, StoreTypeOK, OpsTypeOK, SpoolTypeOK, spoolVars, storeVars, opVars
<1>o. OpsTypeOK'
  OBVIOUS
<1>x. ASSUME NEW w \in Worker, Exit(w) PROVE WorkerTypeOK'
  BY <1>x DEF Exit, WorkerTypeOK, WorkRecord
<1>b. ASSUME NEW w \in Worker, NEW rec \in WorkRecord, Become(w, rec) PROVE WorkerTypeOK'
  BY <1>b DEF Become, WorkerTypeOK
<1>1. ASSUME NEW w \in Worker, NEW j \in launched, Begin(w, j) PROVE TypeOK'
  <2>1. [pc |-> "info", job |-> j, todo |-> {}, child |-> NoImage, cnm |-> "free",
         tries |-> 0, bad |-> FALSE, purge |-> {}, snap |-> NoSnap, snm |-> "free"]
           \in WorkRecord
    BY WorkerAssumption DEF WorkRecord, ImageName, SnapName
  <2>2. WorkerTypeOK'
    BY <1>1, <1>b, <2>1 DEF Begin, WorkerTypeOK
  <2> QED BY <1>o, <1>1, <2>2 DEF Begin
<1>2. ASSUME NEW w \in Worker, WorkerStep(w) \/ CrashWorker(w) PROVE TypeOK'
  <2>r. /\ worker[w].pc # "idle"
        /\ worker[w] \in WorkRecord \ {NoWork} /\ worker[w].job \in Job
        /\ Obj(w) \in Object
    BY <1>2, RunningWorker DEF WorkerStep, CrashWorker, Info, OkOrGone, Child, Flatten, Resolved, Relist,
          PurgeUnprotect, PurgeRemove, OkOrGone, Purged, AfterPurge, PurgeImage, Unlink
  <2>1. CASE Info(w)
    <3>1. ASSUME NEW todo \in SUBSET (Image \X ImageName),
                 Become(w, [worker[w] EXCEPT !.pc = "child", !.todo = todo])
          PROVE  WorkerTypeOK'
      BY <1>b, <2>r, <3>1 DEF WorkRecord, NoWork
    <3>2. \A K \in SUBSET Image : {<<c, img[c]>> : c \in K} \in SUBSET (Image \X ImageName)
      OBVIOUS
    <3>3. UNION {Children(s) : s \in {s \in SnapsOf(Obj(w).img) :
                Obj(w).kind = "snap" => s = Obj(w).snap /\ snap[s].name = "trash"}} \in SUBSET Image
      BY DEF Children
    <3>4. PICK todo \in SUBSET (Image \X ImageName) :
            Become(w, [worker[w] EXCEPT !.pc = "child", !.todo = todo]) \/ Exit(w)
      BY <2>1, <3>2, <3>3 DEF Info, OkOrGone
    <3>5. WorkerTypeOK'
      BY <1>x, <3>1, <3>4
    <3> QED BY <1>o, <2>1, <3>5 DEF Info, OkOrGone
  <2>2. CASE Child(w)
    <3>1. PICK x \in worker[w].todo :
            LET rest == [worker[w] EXCEPT !.todo = @ \ {x}] IN
            \/ Become(w, rest)
            \/ Become(w, [rest EXCEPT !.pc = "flatten", !.child = x[1],
                                     !.cnm = x[2], !.tries = 0])
            \/ Become(w, [rest EXCEPT !.bad = TRUE])
      BY <2>2 DEF Child
    <3> DEFINE rest == [worker[w] EXCEPT !.todo = @ \ {x}]
    <3>2. x[1] \in Image /\ x[2] \in ImageName /\ rest \in WorkRecord \ {NoWork}
      BY <2>r DEF WorkRecord, NoWork
    <3>3. [rest EXCEPT !.bad = TRUE] \in WorkRecord
      BY <2>r, <3>2 DEF WorkRecord, NoWork
    <3>4. [rest EXCEPT !.pc = "flatten", !.child = x[1], !.cnm = x[2], !.tries = 0] \in WorkRecord
      <4>1. 0 \in 0 .. FlattenRetries
        BY WorkerAssumption
      <4> HIDE DEF rest
      <4> QED BY <3>2, <4>1 DEF WorkRecord, NoWork
    <3>5. WorkerTypeOK'
      BY <1>b, <3>1, <3>2, <3>3, <3>4
    <3> QED BY <1>o, <2>2, <3>5 DEF Child
  <2>3. CASE Flatten(w)
    <3> DEFINE n == worker[w].tries + 1
               next == [worker[w] EXCEPT !.pc = "child", !.child = NoImage,
                                         !.cnm = "free", !.tries = 0]
    <3>1. next \in WorkRecord \ {NoWork}
      <4>1. 0 \in 0 .. FlattenRetries /\ "free" \in ImageName
        BY WorkerAssumption DEF ImageName
      <4> QED BY <2>r, <4>1 DEF WorkRecord, NoWork
    <3>2. [next EXCEPT !.bad = TRUE] \in WorkRecord
      BY <3>1 DEF WorkRecord, NoWork
    <3>3. n < FlattenRetries => [worker[w] EXCEPT !.tries = n] \in WorkRecord
      BY <2>r, WorkerAssumption DEF WorkRecord, NoWork
    <3>4. \/ Become(w, next) \/ Become(w, [next EXCEPT !.bad = TRUE])
          \/ n < FlattenRetries /\ Become(w, [worker[w] EXCEPT !.tries = n])
      BY <2>3 DEF Flatten, OkOrGone
    <3>5. WorkerTypeOK'
      BY <1>b, <3>1, <3>2, <3>3, <3>4
    <3>6. snap' \in [Snap -> SnapRecord] /\ parent' \in [Image -> Snap \cup {NoSnap}]
      <4>1. SnapsFlattened(worker[w].child) \in [Snap -> SnapRecord]
        BY DEF SnapsFlattened, SnapRecord
      <4>2. [parent EXCEPT ![worker[w].child] = NoSnap] \in [Image -> Snap \cup {NoSnap}]
        OBVIOUS
      <4> QED BY <2>3, <4>1, <4>2 DEF Flatten, OkOrGone
    <3> QED BY <1>o, <2>3, <3>5, <3>6 DEF Flatten, OkOrGone
  <2>4. CASE Resolved(w)
    <3>1. [worker[w] EXCEPT !.pc = "relist"] \in WorkRecord
      BY <2>r DEF WorkRecord, NoWork
    <3>2. Obj(w).kind = "snap" =>
            [worker[w] EXCEPT !.pc = "purge", !.purge = {<<Obj(w).snap, "trash">>}] \in WorkRecord
      <4>1. Obj(w).kind = "snap" => {<<Obj(w).snap, "trash">>} \in SUBSET (Snap \X SnapName)
        BY <2>r DEF Object, SnapName
      <4> QED BY <2>r, <4>1 DEF WorkRecord, NoWork
    <3>3. WorkerTypeOK'
      BY <1>b, <1>x, <2>4, <3>1, <3>2 DEF Resolved
    <3> QED BY <1>o, <2>4, <3>3 DEF Resolved
  <2>5. CASE Relist(w)
    <3>1. PICK P \in SUBSET (Snap \X SnapName) :
            Become(w, [worker[w] EXCEPT !.pc = "purge", !.purge = P]) \/ Exit(w)
      <4>1. {<<s, snap[s].name>> : s \in SnapsOf(Obj(w).img)} \in SUBSET (Snap \X SnapName)
        BY DEF SnapsOf, SnapRecord
      <4> QED BY <2>5, <4>1 DEF Relist, OkOrGone
    <3>2. [worker[w] EXCEPT !.pc = "purge", !.purge = P] \in WorkRecord
      BY <2>r DEF WorkRecord, NoWork
    <3>3. WorkerTypeOK'
      BY <1>b, <1>x, <3>1, <3>2
    <3> QED BY <1>o, <2>5, <3>3 DEF Relist, OkOrGone
  <2>6. CASE PurgeUnprotect(w)
    <3>1. PICK x \in worker[w].purge :
            /\ snap' \in {SnapProtected(x[1], FALSE), snap}
            /\ Become(w, [worker[w] EXCEPT !.pc = "remove", !.purge = @ \ {x},
                                          !.snap = x[1], !.snm = x[2]])
      BY <2>6 DEF PurgeUnprotect
    <3>2. [worker[w] EXCEPT !.pc = "remove", !.purge = @ \ {x},
                            !.snap = x[1], !.snm = x[2]] \in WorkRecord
      BY <2>r DEF WorkRecord, NoWork
    <3>3. WorkerTypeOK'
      BY <1>b, <3>1, <3>2
    <3>4. snap' \in [Snap -> SnapRecord]
      BY <3>1, SnapTyped
    <3> QED BY <1>o, <2>6, <3>3, <3>4 DEF PurgeUnprotect
  <2>7. CASE PurgeRemove(w)
    <3>1. [worker[w] EXCEPT !.pc = "purge", !.snap = NoSnap, !.snm = "free"] \in WorkRecord
      BY <2>r DEF WorkRecord, NoWork, SnapName
    <3>2. WorkerTypeOK'
      BY <1>b, <1>x, <2>7, <3>1 DEF PurgeRemove, OkOrGone
    <3>3. snap' \in [Snap -> SnapRecord]
      BY <2>7, SnapTyped DEF PurgeRemove, OkOrGone, SnapName
    <3> QED BY <1>o, <2>7, <3>2, <3>3 DEF PurgeRemove, OkOrGone
  <2>8. CASE Purged(w)
    <3>1. WorkerTypeOK'
      BY <1>b, <2>r, <2>8 DEF Purged, AfterPurge, WorkRecord, NoWork
    <3> QED BY <1>o, <2>8, <3>1 DEF Purged, AfterPurge
  <2>9. CASE PurgeImage(w)
    <3>1. [worker[w] EXCEPT !.pc = "unlink"] \in WorkRecord
      BY <2>r DEF WorkRecord, NoWork
    <3>2. WorkerTypeOK'
      BY <1>b, <1>x, <2>9, <3>1 DEF PurgeImage, OkOrGone
    <3> QED BY <1>o, <2>9, <3>2 DEF PurgeImage, OkOrGone, ImageNamed, ImageName
  <2>10. CASE Unlink(w)
    BY <1>o, <1>x, <2>10 DEF Unlink
  <2>11. CASE CrashWorker(w)
    BY <1>o, <1>x, <2>11, StoreAssumption DEF CrashWorker
  <2> QED BY <1>2, <2>1, <2>2, <2>3, <2>4, <2>5, <2>6, <2>7, <2>8, <2>9, <2>10, <2>11
             DEF WorkerStep
<1> QED BY <1>1, <1>2 DEF GcNext

LEMMA LsType ==
  ASSUME IInv, NEW h \in Host, NEW old \in SUBSET jobs, Ls(h, old) PROVE TypeOK'
<1>1. TrashObjects \subseteq Object
  BY DEF TrashObjects, Object, ImageObject, SnapObject, IInv, SnapsOwned
<1> USE ReplyType DEF IInv, TypeOK, StoreTypeOK, OpsTypeOK, WorkerTypeOK, opVars
<1>2. SpoolTypeOK'
  BY <1>1 DEF Ls, Unqueued, SweepAndSpawn, SpoolTypeOK, Job
<1> QED BY <1>2 DEF Ls, Unqueued

\* Every step of Next keeps the types.
LEMMA TypeStep ==
  ASSUME IInv, [Next]_vars PROVE TypeOK'
<1>1. CASE UNCHANGED vars
  BY <1>1 DEF vars, storeVars, spoolVars, opVars, IInv, TypeOK, StoreTypeOK, SpoolTypeOK,
              OpsTypeOK, WorkerTypeOK
<1> QED BY <1>1, CallType, TaskStepType, GcType, LsType DEF Next, OpsNext
=============================================================================
