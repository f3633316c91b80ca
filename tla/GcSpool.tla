------------------------------- MODULE GcSpool -------------------------------
(***************************************************************************)
(* gcjob.py: the per-host spool of garbage collection jobs                 *)
(* (/var/lib/rbdvol/gc/gc-*.json).  A job names a trashed object: a        *)
(* snapshot of an image found under its uuid, or a whole image.            *)
(***************************************************************************)
EXTENDS RbdStore

CONSTANT Host           \* the hosts of the pool

VARIABLES
  jobs,                 \* job files, as <<host, object>>
  launched              \* worker processes started, job file not read yet

spoolVars == <<jobs, launched>>

Object == [kind : {"snap"}, img : Image, snap : Snap]
            \cup [kind : {"image"}, img : Image, snap : {NoSnap}]
Job == Host \X Object

SnapObject(i, s) == [kind |-> "snap", img |-> i, snap |-> s]
ImageObject(i) == [kind |-> "image", img |-> i, snap |-> NoSnap]

SpoolTypeOK ==
  /\ jobs \subseteq Job
  /\ launched \subseteq Job

SpoolInit == jobs = {} /\ launched = {}

\* spawn: write the job files J and start a detached worker on each.
Spawn(J) ==
  /\ jobs' = jobs \cup J
  /\ launched' = launched \cup J

Queued(h) == {o \in Object : <<h, o>> \in jobs}

\* sweep: start a new worker for the job files of host h that have reached
\* GC_STALE_AGE, whether or not an earlier worker is still running.  Time is
\* not modelled: old is any of the files.  new: the job files SR.ls adds for
\* the trashed objects it lists that have no job.
SweepAndSpawn(h, old, new) ==
  /\ old \subseteq {h} \X Queued(h)
  /\ jobs' = jobs \cup new
  /\ launched' = launched \cup old \cup new
=============================================================================
