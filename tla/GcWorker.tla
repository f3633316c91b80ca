------------------------------ MODULE GcWorker ------------------------------
(***************************************************************************)
(* rbd_gc.py: the detached worker of one garbage collection job.  It       *)
(* flattens every clone that hangs off the trashed object, then removes    *)
(* it, then deletes its job file; a worker that fails or defers leaves the *)
(* job file for a later sweep.                                             *)
(***************************************************************************)
EXTENDS GcSpool

CONSTANTS
  Worker,               \* worker processes
  FlattenRetries        \* FLATTEN_RETRIES

ASSUME WorkerAssumption == FlattenRetries \in Nat \ {0}

VARIABLE worker         \* worker[w]: the state of worker process w

NoWork == [pc |-> "idle"]

WorkRecord ==
  {NoWork} \cup
  [pc : {"info", "child", "flatten", "relist", "purge", "remove",
         "removeImg", "unlink"},
   job : Job,
   todo : SUBSET (Image \X ImageName),    \* children still to look at
   child : Image \cup {NoImage}, cnm : ImageName,
   tries : 0 .. FlattenRetries,
   bad : BOOLEAN,                         \* some child failed or is deferred
   purge : SUBSET (Snap \X SnapName),     \* snapshots still to remove
   snap : Snap \cup {NoSnap}, snm : SnapName]

WorkerTypeOK == worker \in [Worker -> WorkRecord]
WorkerInit == worker = [w \in Worker |-> NoWork]

Obj(w) == worker[w].job[2]
ObjName(o) == IF o.kind = "snap" THEN "uuid" ELSE "trash"
ObjFound(o) == img[o.img] = ObjName(o)

Exit(w) == worker' = [worker EXCEPT ![w] = NoWork]
Become(w, rec) == worker' = [worker EXCEPT ![w] = rec]

\* Mutation: what is gone already is an error.
OkOnly(r) == r = "ok"

\* The answers after which the worker goes on: not_found means that someone
\* else did the work.
OkOrGone(r) == r \in {"ok", "nf"}

\* main: read the job file; exit when it is gone.
Begin(w, j) ==
  /\ worker[w].pc = "idle"
  /\ j \in launched
  /\ launched' = launched \ {j}
  /\ IF j \in jobs
     THEN Become(w, [pc |-> "info", job |-> j, todo |-> {},
                     child |-> NoImage, cnm |-> "free", tries |-> 0,
                     bad |-> FALSE, purge |-> {},
                     snap |-> NoSnap, snm |-> "free"])
     ELSE UNCHANGED worker
  /\ UNCHANGED <<storeVars, jobs>>

\* _resolve_children: the children of the trashed snapshot, or of every
\* snapshot of the trashed image, under the names they have now.
Info(w) ==
  LET o == Obj(w)
      snaps == {s \in SnapsOf(o.img) :
                  o.kind = "snap" => s = o.snap /\ snap[s].name = "trash"}
      kids == UNION {Children(s) : s \in snaps}
  IN
  /\ worker[w].pc = "info"
  /\ \E r \in Results :
       /\ Reply(ObjFound(o), TRUE, r)
       /\ IF OkOrGone(r)
          THEN Become(w, [worker[w] EXCEPT !.pc = "child",
                 !.todo = IF r = "ok" THEN {<<c, img[c]>> : c \in kids} ELSE {}])
          ELSE Exit(w)
  /\ UNCHANGED <<img, parent, snap, spoolVars>>

\* Mutation: a clone that can be flattened is not recognised.
NotFlattenable(c) == FALSE

\* Flattening c frees its parent: its snapshots do not pin it.
Flattenable(c) == c \in Deep \/ SnapsOf(c) = {}

\* One child: gone or already flat -> nothing to do; its own snapshots pin
\* the parent and no deep-flatten -> deferred; else flatten it.
Child(w) ==
  /\ worker[w].pc = "child"
  /\ \E x \in worker[w].todo, r \in Results :
       LET c == x[1]
           rest == [worker[w] EXCEPT !.todo = @ \ {x}]
       IN
       /\ Reply(img[c] = x[2], TRUE, r)
       /\ CASE r = "nf" -> Become(w, rest)
            [] r = "ok" /\ parent[c] = NoSnap -> Become(w, rest)
            [] r = "ok" /\ parent[c] # NoSnap /\ Flattenable(c) ->
                 Become(w, [rest EXCEPT !.pc = "flatten", !.child = c,
                                        !.cnm = x[2], !.tries = 0])
            [] OTHER -> Become(w, [rest EXCEPT !.bad = TRUE])
  /\ UNCHANGED <<img, parent, snap, spoolVars>>

\* _flatten_one
Flatten(w) ==
  LET c == worker[w].child
      n == worker[w].tries + 1
      next == [worker[w] EXCEPT !.pc = "child", !.child = NoImage,
                                !.cnm = "free", !.tries = 0]
  IN
  /\ worker[w].pc = "flatten"
  /\ \E r \in Results :
       /\ Reply(img[c] = worker[w].cnm, parent[c] # NoSnap, r)
       /\ parent' = IF Done(r) THEN [parent EXCEPT ![c] = NoSnap] ELSE parent
       /\ snap' = IF Done(r) THEN SnapsFlattened(c) ELSE snap
       /\ CASE OkOrGone(r) -> Become(w, next)
            [] ~OkOrGone(r) /\ n < FlattenRetries ->
                 Become(w, [worker[w] EXCEPT !.tries = n])
            [] OTHER -> Become(w, [next EXCEPT !.bad = TRUE])
  /\ UNCHANGED <<img, spoolVars>>

\* run: a failed or deferred child ends the attempt; else go on to purge.
Resolved(w) ==
  /\ worker[w].pc = "child" /\ worker[w].todo = {}
  /\ IF worker[w].bad THEN Exit(w)
     ELSE IF Obj(w).kind = "snap"
     THEN Become(w, [worker[w] EXCEPT !.pc = "purge",
                                      !.purge = {<<Obj(w).snap, "trash">>}])
     ELSE Become(w, [worker[w] EXCEPT !.pc = "relist"])
  /\ UNCHANGED <<storeVars, spoolVars>>

Relist(w) ==
  LET o == Obj(w) IN
  /\ worker[w].pc = "relist"
  /\ \E r \in Results :
       /\ Reply(ObjFound(o), TRUE, r)
       /\ IF OkOrGone(r)
          THEN Become(w, [worker[w] EXCEPT !.pc = "purge",
                 !.purge = IF r = "ok"
                           THEN {<<s, snap[s].name>> : s \in SnapsOf(o.img)}
                           ELSE {}])
          ELSE Exit(w)
  /\ UNCHANGED <<img, parent, snap, spoolVars>>

SnapFound(w, x) == ObjFound(Obj(w)) /\ snap[x[1]].name = x[2]

\* _purge_snap, first call: the answer to unprotect is ignored.
PurgeUnprotect(w) ==
  /\ worker[w].pc = "purge"
  /\ \E x \in worker[w].purge, r \in Results :
       /\ Reply(SnapFound(w, x), CanUnprotect(x[1]), r)
       /\ snap' = IF Done(r) THEN SnapProtected(x[1], FALSE) ELSE snap
       /\ Become(w, [worker[w] EXCEPT !.pc = "remove", !.purge = @ \ {x},
                                      !.snap = x[1], !.snm = x[2]])
  /\ UNCHANGED <<img, parent, spoolVars>>

\* _purge_snap, second call: not_found is success, any other error ends
\* the attempt.
PurgeRemove(w) ==
  LET x == <<worker[w].snap, worker[w].snm>> IN
  /\ worker[w].pc = "remove"
  /\ \E r \in Results :
       /\ Reply(SnapFound(w, x), ~snap[x[1]].prot, r)
       /\ snap' = IF Done(r) THEN SnapNamed(x[1], "gone") ELSE snap
       /\ IF OkOrGone(r)
          THEN Become(w, [worker[w] EXCEPT !.pc = "purge", !.snap = NoSnap,
                                           !.snm = "free"])
          ELSE Exit(w)
  /\ UNCHANGED <<img, parent, spoolVars>>

\* Mutation: the job of a snapshot goes on to remove the image.
ImageNext(o) == "removeImg"

AfterPurge(o) == IF o.kind = "snap" THEN "unlink" ELSE "removeImg"

Purged(w) ==
  /\ worker[w].pc = "purge" /\ worker[w].purge = {}
  /\ Become(w, [worker[w] EXCEPT !.pc = AfterPurge(Obj(w))])
  /\ UNCHANGED <<storeVars, spoolVars>>

PurgeImage(w) ==
  LET o == Obj(w) IN
  /\ worker[w].pc = "removeImg"
  /\ \E r \in Results :
       /\ Reply(ObjFound(o), SnapsOf(o.img) = {}, r)
       /\ img' = IF Done(r) THEN ImageNamed(o.img, "gone") ELSE img
       /\ IF OkOrGone(r)
          THEN Become(w, [worker[w] EXCEPT !.pc = "unlink"])
          ELSE Exit(w)
  /\ UNCHANGED <<parent, snap, spoolVars>>

Unlink(w) ==
  /\ worker[w].pc = "unlink"
  /\ jobs' = jobs \ {worker[w].job}
  /\ Exit(w)
  /\ UNCHANGED <<storeVars, launched>>

\* The worker is killed, or its host restarts.
CrashWorker(w) ==
  /\ worker[w].pc # "idle"
  /\ faults < MaxFaults
  /\ faults' = faults + 1
  /\ Exit(w)
  /\ UNCHANGED <<img, parent, snap, spoolVars>>

WorkerStep(w) ==
  \/ Info(w) \/ Child(w) \/ Flatten(w) \/ Resolved(w) \/ Relist(w)
  \/ PurgeUnprotect(w) \/ PurgeRemove(w) \/ Purged(w) \/ PurgeImage(w)
  \/ Unlink(w)

GcNext ==
  \/ \E w \in Worker, j \in launched : Begin(w, j)
  \/ \E w \in Worker : WorkerStep(w) \/ CrashWorker(w)
=============================================================================
