------------------------------ MODULE VolumeOps ------------------------------
(***************************************************************************)
(* volume.py: Volume.create, snapshot, clone and destroy.  Every backend   *)
(* call is a step of its own, so calls of different operations, of the     *)
(* garbage collector and of SR.ls interleave as the plugin processes do.   *)
(*                                                                         *)
(* External assumption: xapi runs one operation at a time on a volume key. *)
(* The name, description and CBT keys an operation writes into the image   *)
(* metadata are not part of this module's state.                           *)
(***************************************************************************)
EXTENDS GcSpool

CONSTANTS
  Task,                 \* plugin processes
  Sxm                   \* what _from_sxm may say of a destroy call

ASSUME OpsAssumption == Sxm \subseteq BOOLEAN

VARIABLES
  task,                 \* task[t]: the operation process t is executing
  asked,                \* keys whose destruction was asked for
  acked,                \* keys whose creation was reported to xapi
  destroyed             \* keys whose destruction was reported to xapi

opVars == <<task, asked, acked, destroyed>>

Key == Image \cup Snap

Idle == [op |-> "none", pc |-> "idle", img |-> NoImage, snap |-> NoSnap,
         nm |-> "free", todo |-> {}]

TaskRecord ==
  [op : {"none", "snapshot", "clone", "destroySnap", "destroy"},
   pc : {"idle", "protect", "clone", "undoUnprotect", "undoRemove",
         "rename", "spawn", "unprotect", "remove",
         "renameImg", "removeImg", "retryImg"},
   img : Image \cup {NoImage}, snap : Snap \cup {NoSnap},
   nm : SnapName, todo : SUBSET (Snap \X SnapName)]

OpsTypeOK ==
  /\ task \in [Task -> TaskRecord]
  /\ asked \subseteq Key
  /\ acked \subseteq Key
  /\ destroyed \subseteq Key

OpsInit ==
  /\ task = [t \in Task |-> Idle]
  /\ asked = {} /\ acked = {} /\ destroyed = {}

\* What SR.ls reports as a volume: an image, or a snapshot of an image,
\* found under its uuid.
ListedImage(i) == img[i] = "uuid"
ListedSnap(s) == snap[s].name = "uuid" /\ ListedImage(snap[s].img)

\* The key a process works on, and the lock of xapi on a key.
KeyOf(t) == IF task[t].op = "destroySnap" THEN task[t].snap ELSE task[t].img
KeyFree(k) == \A t \in Task : task[t].pc # "idle" => KeyOf(t) # k

\* The keys xapi may name in a call.
KnownImage(i) == (i \in acked \/ ListedImage(i)) /\ i \notin destroyed
KnownSnap(s) == (s \in acked \/ ListedSnap(s)) /\ s \notin destroyed

Found(t) == img[task[t].img] = "uuid" /\ snap[task[t].snap].name = task[t].nm

Goto(t, pc) == task' = [task EXCEPT ![t].pc = pc]
Return(t) == task' = [task EXCEPT ![t] = Idle]
Fail(t) == Return(t) /\ UNCHANGED destroyed
Success(t) == Return(t) /\ destroyed' = destroyed \cup {KeyOf(t)}

------------------------------------------------------------------------------
\* Volume.create: one call; the uuid is not used again when it fails.
Create(i) ==
  /\ img[i] = "free"
  /\ \E r \in Results :
       /\ Reply(TRUE, TRUE, r)
       /\ img' = ImageNamed(i, IF Done(r) THEN "uuid" ELSE "gone")
       /\ acked' = IF r = "ok" THEN acked \cup {i} ELSE acked
  /\ UNCHANGED <<parent, snap, spoolVars, task, asked, destroyed>>

\* Volume.snapshot and Volume.clone of a live image start by making a
\* snapshot: the user's, or a transient one for the clone to hang off.
TakeSnap(t, i, op, name) ==
  /\ task[t].pc = "idle"
  /\ KnownImage(i) /\ KeyFree(i)
  /\ \E s \in Snap, r \in Results :
       /\ snap[s].name = "free"
       /\ Reply(ListedImage(i), TRUE, r)
       /\ snap' = IF Done(r) THEN SnapCreated(s, i, name)
                  ELSE SnapNamed(s, "gone")
       /\ task' = [task EXCEPT ![t] =
                    [op |-> op, img |-> i, snap |-> s, nm |-> name,
                     pc |-> IF r = "ok" THEN "protect" ELSE "undoUnprotect",
                     todo |-> {}]]
  /\ UNCHANGED <<img, parent, spoolVars, asked, acked, destroyed>>

Snapshot(t, i) == TakeSnap(t, i, "snapshot", "uuid")
CloneLive(t, i) == TakeSnap(t, i, "clone", "clonebase")

\* Mutation: the snapshot is reported even when protecting it failed.
ProtectIgnored(t, r) ==
  IF task[t].op = "clone" THEN Goto(t, "clone") /\ UNCHANGED acked
  ELSE Return(t) /\ acked' = acked \cup {task[t].snap}

\* What follows the answer r to protect.
Protected(t, r) ==
  IF r # "ok" THEN Goto(t, "undoUnprotect") /\ UNCHANGED acked
  ELSE IF task[t].op = "clone" THEN Goto(t, "clone") /\ UNCHANGED acked
  ELSE Return(t) /\ acked' = acked \cup {task[t].snap}

Protect(t) ==
  LET s == task[t].snap IN
  /\ task[t].pc = "protect"
  /\ \E r \in Results :
       /\ Reply(Found(t), ~snap[s].prot, r)
       /\ snap' = IF Done(r) THEN SnapProtected(s, TRUE) ELSE snap
       /\ Protected(t, r)
  /\ UNCHANGED <<img, parent, spoolVars, asked, destroyed>>

\* The roll-back shares one try: when unprotect fails, snap_remove is not
\* reached.
UndoUnprotect(t) ==
  LET s == task[t].snap IN
  /\ task[t].pc = "undoUnprotect"
  /\ \E r \in Results :
       /\ Reply(Found(t), CanUnprotect(s), r)
       /\ snap' = IF Done(r) THEN SnapProtected(s, FALSE) ELSE snap
       /\ IF r = "ok" THEN Goto(t, "undoRemove") ELSE Return(t)
  /\ UNCHANGED <<img, parent, spoolVars, asked, acked, destroyed>>

UndoRemove(t) ==
  LET s == task[t].snap IN
  /\ task[t].pc = "undoRemove"
  /\ \E r \in Results :
       /\ Reply(Found(t), ~snap[s].prot, r)
       /\ snap' = IF Done(r) THEN SnapNamed(s, "gone") ELSE snap
       /\ Return(t)
  /\ UNCHANGED <<img, parent, spoolVars, asked, acked, destroyed>>

\* The clone call itself: the new image c reads through snapshot s.
Cloned(c, s, r) ==
  /\ img[c] = "free"
  /\ img' = ImageNamed(c, IF Done(r) THEN "uuid" ELSE "gone")
  /\ parent' = IF Done(r) THEN [parent EXCEPT ![c] = s] ELSE parent
  /\ acked' = IF r = "ok" THEN acked \cup {c} ELSE acked

Clone(t) ==
  LET s == task[t].snap IN
  /\ task[t].pc = "clone"
  /\ \E c \in Image, r \in Results :
       /\ Reply(Found(t), snap[s].prot, r)
       /\ Cloned(c, s, r)
       /\ IF r = "ok" THEN Return(t) ELSE Goto(t, "undoUnprotect")
  /\ UNCHANGED <<snap, spoolVars, asked, destroyed>>

\* Volume.clone of a snapshot key: no transient snapshot, so one call.
CloneSnap(s) ==
  /\ KnownSnap(s) /\ KeyFree(s)
  /\ \E c \in Image, r \in Results :
       /\ Reply(ListedSnap(s), snap[s].prot, r)
       /\ Cloned(c, s, r)
  /\ UNCHANGED <<snap, spoolVars, task, asked, destroyed>>
------------------------------------------------------------------------------
\* Volume.destroy of a snapshot: _snap_has_children first; an error there
\* counts as "no children".
DestroySnap(t, s) ==
  /\ task[t].pc = "idle"
  /\ KnownSnap(s) /\ KeyFree(s)
  /\ asked' = asked \cup {s}
  /\ \E r \in Results :
       /\ Reply(ListedImage(snap[s].img), TRUE, r)
       /\ LET kids == r = "ok" /\ snap[s].name = "uuid" /\ Children(s) # {}
          IN task' = [task EXCEPT ![t] =
                       [op |-> "destroySnap", img |-> snap[s].img, snap |-> s,
                        nm |-> "uuid", todo |-> {},
                        pc |-> IF kids THEN "rename" ELSE "unprotect"]]
  /\ UNCHANGED <<img, parent, snap, spoolVars, acked, destroyed>>

\* Mutation: an object that could not be renamed is handed over, too.
RenamedBlindly(t, r) ==
  IF r = "nf" THEN Success(t) ELSE Goto(t, "spawn") /\ UNCHANGED destroyed

\* What follows the answer r to the rename of a snapshot or an image.
Renamed(t, r) ==
  CASE r = "ok" -> Goto(t, "spawn") /\ UNCHANGED destroyed
    [] r = "nf" -> Success(t)
    [] OTHER    -> Fail(t)

\* A snapshot with clones leaves the uuid space ...
Rename(t) ==
  LET s == task[t].snap IN
  /\ task[t].pc = "rename"
  /\ \E r \in Results :
       /\ Reply(Found(t), TRUE, r)
       /\ snap' = IF Done(r) THEN SnapNamed(s, "trash") ELSE snap
       /\ Renamed(t, r)
  /\ UNCHANGED <<img, parent, spoolVars, asked, acked>>

TaskObject(t) ==
  IF task[t].op = "destroySnap" THEN SnapObject(task[t].img, task[t].snap)
  ELSE ImageObject(task[t].img)

\* ... and is handed to the garbage collector of this host.
SpawnGc(t) ==
  /\ task[t].pc = "spawn"
  /\ \E h \in Host : Spawn({<<h, TaskObject(t)>>})
  /\ Success(t)
  /\ UNCHANGED <<storeVars, asked, acked>>

\* _remove_snap: the answer to unprotect is ignored.
Unprotect(t) ==
  LET s == task[t].snap IN
  /\ task[t].pc = "unprotect"
  /\ \E r \in Results :
       /\ Reply(Found(t), CanUnprotect(s), r)
       /\ snap' = IF Done(r) THEN SnapProtected(s, FALSE) ELSE snap
  /\ Goto(t, "remove")
  /\ UNCHANGED <<img, parent, spoolVars, asked, acked, destroyed>>

\* The next step of the destroy of an image: the next of its snapshots
\* still to remove, or the image.
NextOf(i, todo) ==
  IF todo = {}
  THEN {[op |-> "destroy", pc |-> "removeImg", img |-> i, snap |-> NoSnap,
         nm |-> "free", todo |-> {}]}
  ELSE {[op |-> "destroy", pc |-> "unprotect", img |-> i, snap |-> x[1],
         nm |-> x[2], todo |-> todo \ {x}] : x \in todo}

RemoveNext(t) ==
  /\ \E n \in NextOf(task[t].img, task[t].todo) : task' = [task EXCEPT ![t] = n]
  /\ UNCHANGED destroyed

\* Mutation: a failed removal counts as success.
RemovedBlindly(t, r) ==
  IF r = "ok" /\ task[t].op = "destroy" THEN RemoveNext(t) ELSE Success(t)

\* What follows the answer r to snap_remove.  A not_found answer leaves the
\* whole destroy through its outer handler, which reports success.
Removed(t, r) ==
  CASE r = "ok" /\ task[t].op = "destroy" -> RemoveNext(t)
    [] r = "ok" /\ task[t].op # "destroy" -> Success(t)
    [] r = "nf" -> Success(t)
    [] OTHER -> Fail(t)

Remove(t) ==
  LET s == task[t].snap IN
  /\ task[t].pc = "remove"
  /\ \E r \in Results :
       /\ Reply(Found(t), ~snap[s].prot, r)
       /\ snap' = IF Done(r) THEN SnapNamed(s, "gone") ELSE snap
       /\ Removed(t, r)
  /\ UNCHANGED <<img, parent, spoolVars, asked, acked>>

UserSnaps(i) == {s \in SnapsOf(i) : snap[s].name = "uuid"}

\* Mutation: user snapshots do not stop the destroy of an image.
NeverRefused(i, sxm) == FALSE

Refused(i, sxm) == UserSnaps(i) # {} /\ ~sxm

\* Volume.destroy of an image: image_info, then refuse while it has user
\* snapshots (unless a storage migration asks), trash it when a snapshot
\* has clones, else remove its snapshots one by one and then the image.
Destroy(t, i, sxm) ==
  LET kids == \E s \in SnapsOf(i) : Children(s) # {}
      start == IF kids THEN {[Idle EXCEPT !.op = "destroy", !.img = i,
                                          !.pc = "renameImg"]}
               ELSE NextOf(i, {<<s, snap[s].name>> : s \in SnapsOf(i)})
  IN
  /\ task[t].pc = "idle"
  /\ KnownImage(i) /\ KeyFree(i)
  /\ \E r \in Results :
       /\ Reply(ListedImage(i), TRUE, r)
       /\ CASE r = "ok" /\ ~Refused(i, sxm) ->
                 /\ \E n \in start : task' = [task EXCEPT ![t] = n]
                 /\ asked' = asked \cup {i} \cup (IF sxm THEN UserSnaps(i) ELSE {})
            [] r = "nf" ->
                 /\ \E n \in NextOf(i, {}) :
                      task' = [task EXCEPT ![t] = n]
                 /\ asked' = asked \cup {i}
            [] OTHER -> UNCHANGED <<task, asked>>
  /\ UNCHANGED <<img, parent, snap, spoolVars, acked, destroyed>>

RenameImg(t) ==
  LET i == task[t].img IN
  /\ task[t].pc = "renameImg"
  /\ \E r \in Results :
       /\ Reply(ListedImage(i), TRUE, r)
       /\ img' = IF Done(r) THEN ImageNamed(i, "trash") ELSE img
       /\ Renamed(t, r)
  /\ UNCHANGED <<parent, snap, spoolVars, asked, acked>>

\* _release_and_remove: one retry after any error but not_found.
RemoveImg(t) ==
  LET i == task[t].img IN
  /\ task[t].pc \in {"removeImg", "retryImg"}
  /\ \E r \in Results :
       /\ Reply(ListedImage(i), SnapsOf(i) = {}, r)
       /\ img' = IF Done(r) THEN ImageNamed(i, "gone") ELSE img
       /\ CASE r \in {"ok", "nf"} -> Success(t)
            [] r \in {"err", "lost"} /\ task[t].pc = "removeImg" ->
                 Goto(t, "retryImg") /\ UNCHANGED destroyed
            [] OTHER -> Fail(t)
  /\ UNCHANGED <<parent, snap, spoolVars, asked, acked>>

\* The plugin process dies, or leaves through an exception that is not an
\* RbdBackendError: nothing is rolled back.
CrashTask(t) ==
  /\ task[t].pc # "idle"
  /\ faults < MaxFaults
  /\ faults' = faults + 1
  /\ Return(t)
  /\ UNCHANGED <<img, parent, snap, spoolVars, asked, acked, destroyed>>

VolumeCall ==
  \/ \E i \in Image : Create(i)
  \/ \E s \in Snap : CloneSnap(s)
  \/ \E t \in Task, i \in Image :
       \/ Snapshot(t, i) \/ CloneLive(t, i)
       \/ \E sxm \in Sxm : Destroy(t, i, sxm)
  \/ \E t \in Task, s \in Snap : DestroySnap(t, s)

TaskStep(t) ==
  \/ Protect(t) \/ UndoUnprotect(t) \/ UndoRemove(t) \/ Clone(t)
  \/ Rename(t) \/ SpawnGc(t) \/ Unprotect(t) \/ Remove(t)
  \/ RenameImg(t) \/ RemoveImg(t) \/ CrashTask(t)

OpsNext == VolumeCall \/ \E t \in Task : TaskStep(t)
=============================================================================
