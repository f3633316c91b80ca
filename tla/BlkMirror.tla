------------------------------ MODULE BlkMirror ------------------------------
(***************************************************************************)
(* blkmirror.py and rbd_blkmir.py: storage migration of a blkback disk.  A *)
(* detached worker copies snapshot diffs of the source image to the        *)
(* destination until it has converged; Datapath.detach then stops it and   *)
(* ships the last diff (finalize) or tears the mirror down (cancel).       *)
(*                                                                         *)
(* Two processes work on the status file, the snapshots and the            *)
(* destination: the worker, and "xapi", the plugin calls of xapi, which    *)
(* come one at a time.  One migration is modelled.  A block holds the      *)
(* number of the last guest request that touched it, negative when that    *)
(* was a discard, so two snapshots differ in a block exactly when image_   *)
(* diff reports it.  Not modelled: two writers of status.json.tmp at the   *)
(* same instant, and errors that only fsync would report.                  *)
(***************************************************************************)
EXTENDS Integers, FiniteSets

CONSTANTS
  Block,        \* the objects of the image
  MaxWrites,    \* bound on guest requests
  MaxPasses,    \* bound on pre-copy passes
  MaxIters,     \* max_iters
  Threshold,    \* threshold, in blocks
  MaxFaults,    \* bound on failed calls and killed processes
  Discards      \* the guest discards blocks

ASSUME MirrorAssumption ==
  /\ IsFiniteSet(Block)
  /\ MaxWrites \in Nat /\ MaxPasses \in Nat /\ MaxIters \in 1 .. MaxPasses
  /\ Threshold \in Nat /\ MaxFaults \in Nat
  /\ Discards \in BOOLEAN

VARIABLES
  disk, writes, guest,  \* the source, requests so far, "running" or "paused"
  dest, nbd,            \* the destination, and whether /dev/nbdX is connected
  snaps,                \* the xcp-sxm-* snapshots: pass number -> contents
  job, status, stop,    \* job.json, status.json, the stop file
  proc,                 \* the worker and the plugin call in progress
  told,                 \* what DATA.stat answered last
  result,               \* how the detach ended
  faults

vars == <<disk, writes, guest, dest, nbd, snaps, job, status, stop, proc,
          told, result, faults>>
guestVars == <<disk, writes, guest>>

NoBase == 0
Final == MaxPasses + 1                  \* the snapshot finalize takes
Stamp == -MaxWrites .. MaxWrites
Contents(image) == [b \in Block |-> IF image[b] > 0 THEN image[b] ELSE 0]

NoStatus == [complete |-> FALSE, failed |-> FALSE, base |-> NoBase,
             pid |-> FALSE, finalized |-> FALSE]
Status == [complete : BOOLEAN, failed : BOOLEAN, base : 0 .. MaxPasses,
           pid : BOOLEAN, finalized : BOOLEAN]

Pc == {"off", "loop", "diff", "copy", "reap", "statR", "statW", "failR",
       "failW", "pidR", "pidW", "finR", "markR", "markW", "stop", "wait",
       "snap", "sweep", "rm"}

\* loose, of the worker: its pid may be off the record, because it read the
\* status, or mirror() died, before mirror() had written the pid there.
Off == [pc |-> "off", op |-> "none", base |-> NoBase, to |-> NoBase,
        todo |-> {}, n |-> 0, iters |-> 0, conv |-> FALSE,
        st |-> NoStatus, ok |-> FALSE, swept |-> FALSE, loose |-> FALSE]

Proc == [pc : Pc, op : {"none", "finalize", "cancel"}, base : 0 .. MaxPasses,
         to : 0 .. Final, todo : SUBSET Block, n : 0 .. Cardinality(Block),
         iters : 0 .. MaxPasses, conv : BOOLEAN, st : Status, ok : BOOLEAN,
         swept : BOOLEAN, loose : BOOLEAN]

\* The values of the job's files, the snapshots, both disks and both processes.
TypeOK ==
  /\ disk \in [Block -> Stamp] /\ writes \in 0 .. MaxWrites
  /\ guest \in {"running", "paused"}
  /\ dest \in [Block -> 0 .. MaxWrites] /\ nbd \in BOOLEAN
  /\ DOMAIN snaps \subseteq 1 .. Final
  /\ \A k \in DOMAIN snaps : snaps[k] \in [Block -> Stamp]
  /\ job \in BOOLEAN /\ status \in Status /\ stop \in BOOLEAN
  /\ proc \in [{"worker", "xapi"} -> Proc]
  /\ told \in {"none", "complete", "failed"}
  /\ result \in {"none", "finalized", "failed", "cancelled", "skipped"}
  /\ faults \in 0 .. MaxFaults

\* A detach that died in _rmstate leaves the status of an earlier migration.
Init ==
  /\ disk = [b \in Block |-> 0] /\ writes = 0 /\ guest = "running"
  /\ dest = [b \in Block |-> 0] /\ nbd = FALSE
  /\ snaps = [k \in {} |-> disk]
  /\ job = FALSE /\ stop = FALSE
  /\ status \in {NoStatus, [NoStatus EXCEPT !.finalized = TRUE]}
  /\ proc = [p \in {"worker", "xapi"} |-> Off]
  /\ told = "none" /\ result = "none" /\ faults = 0

W == proc["worker"]
X == proc["xapi"]
Recording == X.pc \in {"pidR", "pidW"}   \* mirror() has yet to write the pid
Goto(p, pc) == proc' = [proc EXCEPT ![p].pc = pc]

\* One call goes wrong.
Fault == faults < MaxFaults /\ faults' = faults + 1

\* An exception: the worker reports failure, finalize tears down.
Raise(p) == Goto(p, IF p = "worker" THEN "failR" ELSE "sweep")

SnapCreated(k) ==
  snaps' = [j \in DOMAIN snaps \cup {k} |-> IF j = k THEN disk ELSE snaps[j]]
SnapsKept(K) == snaps' = [j \in DOMAIN snaps \cap K |-> snaps[j]]

------------------------------------------------------------------------------
\* The guest.
Request(b, n) ==
  /\ guest = "running" /\ writes < MaxWrites
  /\ writes' = writes + 1
  /\ disk' = [disk EXCEPT ![b] = n]
  /\ UNCHANGED <<guest, dest, nbd, snaps, job, status, stop, proc, told,
                 result, faults>>

GuestStep ==
  \E b \in Block : \E n \in {writes + 1, -(writes + 1)} :
    (n < 0 => Discards) /\ Request(b, n)

------------------------------------------------------------------------------
\* copy_delta, for the worker and for finalize.

\* Mutant: a diff without a first snapshot is empty.
NoFullCopy(from, to) ==
  {b \in Block : to[b] > 0 /\ from # NoBase /\ snaps[from][b] # to[b]}

\* The extents to copy: what changed and exists at the later snapshot.
Extents(from, to) ==
  {b \in Block : /\ to[b] > 0
                 /\ from = NoBase \/ snaps[from][b] # to[b]}

Diff(p) ==
  LET from == proc[p].base
      to == proc[p].to
  IN
  /\ proc[p].pc = "diff"
  /\ IF to \in DOMAIN snaps /\ from \in DOMAIN snaps \cup {NoBase}
     THEN \/ /\ proc' = [proc EXCEPT ![p].pc = "copy",
                           ![p].todo = Extents(from, snaps[to]),
                           ![p].n = Cardinality(Extents(from, snaps[to]))]
             /\ UNCHANGED faults
          \/ Fault /\ Raise(p)
     ELSE Raise(p) /\ UNCHANGED faults
  /\ UNCHANGED <<guestVars, dest, nbd, snaps, job, status, stop, told, result>>

Copy(p) ==
  /\ proc[p].pc = "copy"
  /\ \E b \in proc[p].todo :
       IF nbd /\ proc[p].to \in DOMAIN snaps
       THEN \/ /\ dest' = [dest EXCEPT ![b] = snaps[proc[p].to][b]]
               /\ proc' = [proc EXCEPT ![p].todo = @ \ {b}]
               /\ UNCHANGED faults
            \/ Fault /\ Raise(p) /\ UNCHANGED dest
       ELSE Raise(p) /\ UNCHANGED <<dest, faults>>
  /\ UNCHANGED <<guestVars, nbd, snaps, job, status, stop, told, result>>

Copied(p) ==
  /\ proc[p].pc = "copy" /\ proc[p].todo = {}
  /\ proc' = [proc EXCEPT ![p].pc = IF p = "worker" THEN "reap" ELSE "sweep",
                          ![p].ok = p = "xapi"]
  /\ UNCHANGED <<guestVars, dest, nbd, snaps, job, status, stop, told, result,
                 faults>>
------------------------------------------------------------------------------
\* rbd_blkmir.main, the worker.

\* Mutant: the loop does not look at the stop file (and goes on idly at the
\* bound on passes).
PassUnstopped ==
  \/ /\ W.pc = "loop" /\ W.iters < MaxPasses
     /\ W.iters + 1 = MaxPasses => ~Recording
     /\ SnapCreated(W.iters + 1)
     /\ proc' = [proc EXCEPT !["worker"].pc = "diff",
                             !["worker"].to = W.iters + 1]
     /\ UNCHANGED <<guestVars, dest, nbd, job, status, stop, told, result,
                    faults>>
  \/ W.pc = "loop" /\ W.iters = MaxPasses /\ UNCHANGED vars

\* The next pass starts unless the stop file is there.  The bound on passes keeps
\* one for when mirror() has returned: the worker never runs out of them.
Pass ==
  /\ W.pc = "loop"
  /\ IF stop
     THEN Goto("worker", "off") /\ UNCHANGED <<snaps, faults>>
     ELSE /\ W.iters < MaxPasses
          /\ W.iters + 1 = MaxPasses => ~Recording
          /\ \/ /\ SnapCreated(W.iters + 1)
                /\ proc' = [proc EXCEPT !["worker"].pc = "diff",
                                        !["worker"].to = W.iters + 1]
                /\ UNCHANGED faults
             \/ Fault /\ Raise("worker") /\ UNCHANGED snaps
  /\ UNCHANGED <<guestVars, dest, nbd, job, status, stop, told, result>>

\* Mutant: max_iters is ignored.
ConvergedBelow == W.conv \/ W.n < Threshold

Converged == W.conv \/ W.n < Threshold \/ W.iters + 1 >= MaxIters

\* The old baseline is removed, or left where that fails, and replaced.
Reap ==
  /\ W.pc = "reap"
  /\ \/ SnapsKept(DOMAIN snaps \ {W.base}) /\ UNCHANGED faults
     \/ W.base # NoBase /\ Fault /\ UNCHANGED snaps
  /\ proc' = [proc EXCEPT !["worker"] =
                [W EXCEPT !.pc = "statR", !.base = W.to, !.iters = W.iters + 1,
                          !.conv = Converged, !.n = 0]]
  /\ UNCHANGED <<guestVars, dest, nbd, job, status, stop, told, result>>

\* write_status reads the file, and replaces it by what it read, updated.
ReadStatus(p, from, to) ==
  /\ proc[p].pc = from
  /\ proc' = [proc EXCEPT ![p].pc = to, ![p].st = status,
                          ![p].loose = @ \/ (p = "worker" /\ Recording)]
  /\ UNCHANGED <<guestVars, dest, nbd, snaps, job, status, stop, told, result,
                 faults>>

\* Without the state directory the temporary file cannot be opened.
ReplaceStatus(p, from, to, st, raised) ==
  /\ proc[p].pc = from
  /\ status' = IF job THEN st ELSE status
  /\ proc' = [proc EXCEPT ![p].pc = IF job THEN to ELSE raised,
                          ![p].st = NoStatus]
  /\ UNCHANGED <<guestVars, dest, nbd, snaps, job, stop, told, result, faults>>

\* Mutant: the baseline of the first pass stays recorded.
OldBaseline == [W.st EXCEPT !.complete = W.conv, !.failed = FALSE,
                 !.base = IF W.st.base = NoBase THEN W.base ELSE W.st.base]

PassStatus == [W.st EXCEPT !.complete = W.conv, !.failed = FALSE,
                           !.base = W.base]
FailStatus == [W.st EXCEPT !.failed = TRUE, !.base = W.base]

\* SIGKILL, from _stop_worker after its timeout or from outside.
Killed ==
  /\ W.pc # "off" /\ Fault
  /\ Goto("worker", "off")
  /\ UNCHANGED <<guestVars, dest, nbd, snaps, job, status, stop, told, result>>

WorkerStep ==
  \/ Pass \/ Diff("worker") \/ Copy("worker") \/ Copied("worker") \/ Reap
  \/ ReadStatus("worker", "statR", "statW")
  \/ ReplaceStatus("worker", "statW", "loop", PassStatus, "failR")
  \/ ReadStatus("worker", "failR", "failW")
  \/ ReplaceStatus("worker", "failW", "off", FailStatus, "off")

------------------------------------------------------------------------------
\* The calls of xapi: mirror, stat, detach.

\* write_status merges: a leftover "finalized" stays.
Mirror ==
  /\ X.pc = "off" /\ ~job /\ result = "none"
  /\ nbd' = TRUE /\ job' = TRUE /\ stop' = FALSE
  /\ status' = [status EXCEPT !.complete = FALSE, !.failed = FALSE,
                              !.base = NoBase, !.pid = FALSE]
  /\ proc' = [proc EXCEPT !["worker"].pc = "loop", !["xapi"].pc = "pidR"]
  /\ UNCHANGED <<guestVars, dest, snaps, told, result, faults>>

StatAnswer ==
  IF ~job THEN "complete"
  ELSE IF status.failed THEN "failed"
  ELSE IF status.complete THEN "complete" ELSE "none"

\* Stat is polled once the mirror has been started.
Stat ==
  /\ X.pc = "off" /\ (job \/ result # "none")
  /\ told' = StatAnswer
  /\ UNCHANGED <<guestVars, dest, nbd, snaps, job, status, stop, proc, result,
                 faults>>

\* xapi pauses the guest for the cutover once the mirror reports complete.
Pause ==
  /\ X.pc = "off" /\ result = "none"
  /\ told = "complete" /\ guest = "running"
  /\ guest' = "paused"
  /\ UNCHANGED <<disk, writes, dest, nbd, snaps, job, status, stop, proc, told,
                 result, faults>>

\* Ship the final delta if the pre-copy converged, else tear down.
Finalizes == status.complete /\ ~status.failed

Detach ==
  /\ X.pc = "off" /\ job /\ result = "none"
  /\ proc' = [proc EXCEPT !["xapi"] =
       IF Finalizes THEN [Off EXCEPT !.pc = "finR", !.op = "finalize"]
       ELSE [Off EXCEPT !.pc = "stop", !.op = "cancel"]]
  /\ UNCHANGED <<guestVars, dest, nbd, snaps, job, status, stop, told, result,
                 faults>>

\* finalize reads the status: the baseline it will diff against is this one.
FinRead ==
  /\ X.pc = "finR"
  /\ IF status.finalized
     THEN /\ proc' = [proc EXCEPT !["xapi"] = Off]
          /\ result' = "skipped"
     ELSE /\ proc' = [proc EXCEPT !["xapi"].pc = "markR",
                                  !["xapi"].base = status.base]
          /\ UNCHANGED result
  /\ UNCHANGED <<guestVars, dest, nbd, snaps, job, status, stop, told, faults>>

AfterStop == IF X.op = "finalize" THEN "snap" ELSE "sweep"

\* Mutant: the worker is told to stop and not waited for.
StopNoWait ==
  /\ X.pc = "stop"
  /\ stop' = TRUE
  /\ Goto("xapi", AfterStop)
  /\ UNCHANGED <<guestVars, dest, nbd, snaps, job, status, told, result, faults>>

\* _stop_worker: without a pid there is nothing to wait for.
StopWorker ==
  /\ X.pc = "stop"
  /\ stop' = TRUE
  /\ Goto("xapi", IF status.pid THEN "wait" ELSE AfterStop)
  /\ UNCHANGED <<guestVars, dest, nbd, snaps, job, status, told, result, faults>>

WorkerGone ==
  /\ X.pc = "wait" /\ W.pc = "off"
  /\ Goto("xapi", AfterStop)
  /\ UNCHANGED <<guestVars, dest, nbd, snaps, job, status, stop, told, result,
                 faults>>

FinalSnap ==
  /\ X.pc = "snap"
  /\ \/ /\ SnapCreated(Final)
        /\ proc' = [proc EXCEPT !["xapi"].pc = "diff", !["xapi"].to = Final]
        /\ UNCHANGED faults
     \/ Fault /\ Raise("xapi") /\ UNCHANGED snaps
  /\ UNCHANGED <<guestVars, dest, nbd, job, status, stop, told, result>>

\* Mutant: only the recorded baseline and the final snapshot are removed.
SweptRecorded == DOMAIN snaps \cap {X.base, Final}

\* What _sweep_sxm_snaps removes: every snapshot of the mirror, not only the
\* recorded baseline.
Swept == DOMAIN snaps

\* The sweep; where a call of it fails, some snapshots stay.  cancel has
\* disconnected the destination by now, finalize does so afterwards.
Sweep ==
  /\ X.pc = "sweep"
  /\ \/ /\ SnapsKept(DOMAIN snaps \ Swept)
        /\ proc' = [proc EXCEPT !["xapi"].pc = "rm", !["xapi"].swept = TRUE]
        /\ UNCHANGED faults
     \/ /\ Fault
        /\ \E K \in SUBSET DOMAIN snaps : SnapsKept(K)
        /\ Goto("xapi", "rm")
  /\ nbd' = (nbd /\ X.op = "finalize")
  /\ UNCHANGED <<guestVars, dest, job, status, stop, told, result>>

\* _rmstate, and the end of the detach: finalize raises what went wrong.
RmState ==
  /\ X.pc = "rm"
  /\ nbd' = FALSE /\ job' = FALSE /\ status' = NoStatus /\ stop' = FALSE
  /\ result' = IF X.op = "cancel" THEN "cancelled"
               ELSE IF X.ok THEN "finalized" ELSE "failed"
  /\ Goto("xapi", "off")
  /\ UNCHANGED <<guestVars, dest, snaps, told, faults>>

\* The plugin process running mirror() or the detach dies.
CallKilled ==
  /\ X.pc # "off" /\ Fault
  /\ proc' = [proc EXCEPT !["xapi"] = Off, !["worker"].loose = @ \/ Recording]
  /\ UNCHANGED <<guestVars, dest, nbd, snaps, job, status, stop, told, result>>

XapiStep ==
  \/ Mirror \/ Stat \/ Pause \/ Detach
  \/ ReadStatus("xapi", "pidR", "pidW")
  \/ ReplaceStatus("xapi", "pidW", "off", [X.st EXCEPT !.pid = TRUE], "off")
  \/ FinRead
  \/ ReadStatus("xapi", "markR", "markW")
  \/ ReplaceStatus("xapi", "markW", "stop",
                   [X.st EXCEPT !.finalized = TRUE], "off")
  \/ StopWorker \/ WorkerGone
  \/ FinalSnap \/ Diff("xapi") \/ Copy("xapi") \/ Copied("xapi")
  \/ Sweep \/ RmState

Next == GuestStep \/ WorkerStep \/ Killed \/ XapiStep \/ CallKilled

Spec == Init /\ [][Next]_vars

(***************************************************************************)
(* Both processes are scheduled; a detach once started goes on.  Nothing   *)
(* obliges xapi to start one, to poll, or the guest to write.              *)
(***************************************************************************)
Calling == X.pc # "off" /\ XapiStep
LiveSpec == Spec /\ WF_vars(WorkerStep) /\ WF_vars(Calling)

------------------------------------------------------------------------------
(***************************************************************************)
(* The cutover is exact: when finalize returns normally and the guest was  *)
(* paused for it, the destination holds what the source holds, whatever    *)
(* passes were cut short, failed or killed before (blkmirror.finalize and  *)
(* copy_delta), unless the worker was loose.                               *)
(***************************************************************************)
FinalExact ==
  guest = "paused" /\ result = "finalized" /\ ~W.loose => dest = Contents(disk)

(***************************************************************************)
(* finalize and the worker work on the image at the same time only if the  *)
(* worker's first status update and mirror()'s record of the pid crossed:  *)
(* otherwise the worker has exited once finalize is past _stop_worker.     *)
(***************************************************************************)
OneCopier ==
  X.op = "finalize" /\ X.pc \in {"snap", "diff", "copy", "sweep", "rm"}
    => W.pc = "off" \/ W.loose

(***************************************************************************)
(* No xcp-sxm-* snapshot outlives the migration on the source image,       *)
(* strays of a killed worker included, when the calls of the sweep succeed *)
(* (_sweep_sxm_snaps) and the worker was not loose.                        *)
(***************************************************************************)
SnapsSwept ==
  X.swept /\ result \in {"finalized", "failed", "cancelled"} /\ ~W.loose
    => DOMAIN snaps = {}

(***************************************************************************)
(* A complete report stands on a baseline: while the status says complete  *)
(* and no pass is running, the recorded baseline exists and the            *)
(* destination holds exactly its contents, so that the diff finalize takes *)
(* from it is all that is missing (rbd_blkmir.main), unless the worker is  *)
(* loose.                                                                  *)
(***************************************************************************)
BaselineShipped ==
  status.complete /\ ~status.finalized /\ W.pc = "loop" /\ result = "none"
    /\ ~W.loose =>
    /\ status.base \in DOMAIN snaps
    /\ dest = Contents(snaps[status.base])

(***************************************************************************)
(* The pre-copy ends: a started mirror reports complete or failed, at the  *)
(* latest after max_iters passes, unless it is stopped or its worker dies  *)
(* (rbd_blkmir.main).                                                      *)
(***************************************************************************)
Converges ==
  (job /\ result = "none") ~>
    (status.complete \/ status.failed \/ stop \/ W.pc = "off")

(***************************************************************************)
(* A detach ends: finalize and cancel get past _stop_worker and tear down, *)
(* unless their process dies.                                              *)
(***************************************************************************)
DetachEnds == X.op # "none" ~> X.pc = "off"

------------------------------------------------------------------------------
(***************************************************************************)
(* What comments in the code say of it.                                    *)
(***************************************************************************)

\* "so no write is missed" (blkmirror.py): a detach of a paused guest that
\* returns normally leaves the destination with the contents of the source, the
\* worker's pid having been on record.
NoWriteMissed ==
  guest = "paused" /\ result \in {"finalized", "cancelled"} /\ ~W.loose
    => dest = Contents(disk)

------------------------------------------------------------------------------
(***************************************************************************)
(* The inductive invariant behind the safety properties.                   *)
(***************************************************************************)
DetachPc == {"finR", "markR", "markW", "stop", "wait", "snap", "diff", "copy",
             "sweep", "rm"}

\* The blocks a process has yet to copy hold data in the snapshot it copies.
CopiesData(r) ==
  r.pc = "copy" /\ r.to \in DOMAIN snaps => \A b \in r.todo : snaps[r.to][b] > 0

\* Where each process may be, what it works on there, and that a call in
\* progress finds the job it started from.
Control ==
  /\ W.pc \in {"off", "loop", "diff", "copy", "reap", "statR", "statW",
               "failR", "failW"}
  /\ W.base = W.iters
  /\ W.pc \in {"diff", "copy", "reap"} =>
       W.to = W.iters + 1 /\ W.iters < MaxPasses
  /\ X.pc \in {"off", "pidR", "pidW"} \cup DetachPc
  /\ X.pc \in {"diff", "copy"} => X.to = Final
  /\ X.pc # "off" => job /\ result = "none"
  /\ Recording => X.op = "none"
  /\ X.pc \in DetachPc => X.op # "none"
  /\ ~job /\ result = "none" => X.op = "none" /\ W.pc = "off" /\ W.iters = 0
  /\ CopiesData(W) /\ CopiesData(X)

\* Of a worker that is not loose, the pid is on record once mirror() has
\* returned, whoever rewrites the status file; hence finalize and cancel get
\* past _stop_worker only when the worker is gone, and nobody takes a snapshot
\* behind the sweep.
Stopped ==
  /\ Recording => W.pc \notin {"statW", "failW"}
  /\ job /\ ~Recording => status.pid
  /\ W.pc \in {"statW", "failW"} => W.st.pid
  /\ X.pc = "markW" => X.st.pid
  /\ W.pc # "off" => job
  /\ X.pc \in {"snap", "diff", "copy", "sweep", "rm"} => W.pc = "off"
  /\ X.swept => /\ DOMAIN snaps = {}
                /\ X.pc = "rm" \/ (X.pc = "off" /\ ~job /\ result # "none")

\* Block b of snapshot k, 0 where there is no such snapshot.
BlockAt(k, b) == IF k \in DOMAIN snaps THEN snaps[k][b] ELSE 0

\* The snapshots are in the order of their numbers, none is ahead of the disk,
\* and the destination is between the last snapshot that was shipped and the
\* disk.
Ordered ==
  /\ \A b \in Block : 0 <= dest[b] /\ dest[b] <= disk[b] /\ disk[b] <= writes
  /\ \A k \in DOMAIN snaps, b \in Block :
       /\ 0 <= snaps[k][b] /\ snaps[k][b] <= disk[b]
       /\ \A j \in DOMAIN snaps : j <= k => snaps[j][b] <= snaps[k][b]
       /\ k <= W.iters => snaps[k][b] <= dest[b]
  /\ ~job /\ result = "none" =>
       DOMAIN snaps = {} /\ \A b \in Block : dest[b] = 0

\* The worker ships snapshot W.to on top of W.base.
WorkerShips ==
  /\ W.pc # "off" => /\ DOMAIN snaps \subseteq 1 .. (W.iters + 1)
                     /\ W.base = NoBase \/ W.base \in DOMAIN snaps
  /\ W.pc \in {"loop", "statR", "statW"} => W.iters + 1 \notin DOMAIN snaps
  /\ W.pc \in {"diff", "copy", "reap"} => W.to \in DOMAIN snaps
  /\ W.pc = "copy" => \A b \in Block \ W.todo : snaps[W.to][b] <= dest[b]
  /\ W.pc = "reap" => \A b \in Block : snaps[W.to][b] <= dest[b]
  /\ W.pc \in {"copy", "reap"} => \A b \in Block : dest[b] <= snaps[W.to][b]
  /\ W.pc \in {"loop", "diff", "statR", "statW"} =>
       \A b \in Block : dest[b] <= BlockAt(W.base, b)

\* What is on record is a baseline that was shipped, the latest one unless
\* finalize has begun.
Recorded ==
  /\ status.base <= W.iters /\ X.base <= W.iters /\ X.st.base <= W.iters
  /\ W.pc \in {"loop", "diff", "copy", "reap"} /\ ~status.finalized =>
       status.base = W.base
  /\ status.complete \/ W.conv => W.iters > 0
  /\ W.pc = "failW" /\ W.st.complete => W.iters > 0
  /\ X.st.complete => W.iters > 0
  /\ Recording /\ W.pc \in {"loop", "diff", "copy", "reap"} => W.iters = 0

\* finalize ships what the disk holds when the guest is paused.
FinalShips ==
  /\ X.pc \in {"diff", "copy"} =>
       /\ Final \in DOMAIN snaps
       /\ \A b \in Block : dest[b] <= snaps[Final][b]
       /\ guest = "paused" => \A b \in Block : snaps[Final][b] = disk[b]
  /\ X.pc = "copy" => \A b \in Block \ X.todo : dest[b] = snaps[Final][b]
  /\ X.ok => /\ \/ X.pc \in {"sweep", "rm"}
                \/ X.pc = "off" /\ ~job /\ result # "none"
             /\ guest = "paused" => \A b \in Block : dest[b] = disk[b]
  /\ result = "finalized" =>
       /\ ~job
       /\ guest = "paused" => \A b \in Block : dest[b] = disk[b]

Shipping == Ordered /\ WorkerShips /\ Recorded /\ FinalShips

(***************************************************************************)
(* The whole: the parts about the worker's exit need a worker that is not  *)
(* loose, the parts about contents also a guest that does not discard.     *)
(* SnapsSwept is one of its consequences.                                  *)
(***************************************************************************)
MInv ==
  /\ TypeOK /\ Control
  /\ ~W.loose => Stopped /\ SnapsSwept
  /\ ~W.loose /\ ~Discards => Shipping
=============================================================================
