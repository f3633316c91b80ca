-------------------------- MODULE BlkMirrorProofs --------------------------
(***************************************************************************)
(* Proofs about the pre-copy mirror, for any number of blocks, requests,   *)
(* passes and faults: every step keeps what is shipped (Shipping), so MInv *)
(* is inductive, and the properties follow from it.                        *)
(***************************************************************************)
EXTENDS BlkMirrorControl

USE DEF Recording

\* A guest that does not discard, and a worker that is not loose: every step
\* keeps Shipping.

\* While the worker lives, no finalize has got past it.
LEMMA WorkerAlive ==
  ASSUME Control, Stopped, Shipping, W.pc # "off"
  PROVE  /\ job /\ result # "finalized" /\ ~X.ok
         /\ X.pc \notin {"snap", "diff", "copy", "sweep", "rm"}
BY DEF Control, Stopped, Shipping, FinalShips

\* A worker's step leaves FinalShips alone.
LEMMA FinalWorker ==
  ASSUME TypeOK, Control, Stopped, Shipping, WorkerStep \/ Killed
  PROVE  FinalShips'
<1>1. W.pc # "off"
  BY DEF WorkerStep, Killed, Pass, Diff, Copy, Copied, Reap, ReadStatus,
         ReplaceStatus, W
<1>2. X' = X /\ UNCHANGED <<job, result>>
  BY WorkerFrame
<1> QED BY <1>1, <1>2, WorkerAlive DEF FinalShips

LEMMA Numbers ==
  ASSUME TypeOK
  PROVE  /\ W.iters \in Nat /\ W.base \in Nat /\ W.to \in Nat /\ X.base \in Nat
         /\ W.iters < Final /\ W.iters <= MaxPasses
         /\ X.st.base \in Nat /\ status.base \in Nat
         /\ \A b \in Block : disk[b] \in Int /\ dest[b] \in Int
         /\ \A k \in DOMAIN snaps : k \in Nat /\ k <= Final /\ k > 0
         /\ \A k \in DOMAIN snaps, b \in Block : snaps[k][b] \in Int
BY Typed, MirrorAssumption DEF TypeOK, Proc, Status, Stamp, Final

\* A status that was never written names no baseline.
LEMMA NoStatusFields == NoStatus.base = 0 /\ NoStatus.complete = FALSE
BY DEF NoStatus, NoBase

LEMMA ShipPass ==
  ASSUME TypeOK, Control, Stopped, Shipping, ~W'.loose, Pass
  PROVE  Ordered' /\ WorkerShips' /\ Recorded'
<1> USE Typed
<1>1. /\ W.pc = "loop" /\ X' = X /\ UNCHANGED <<disk, writes, dest, job, status, result>>
  BY PassEffect DEF Pass, guestVars
<1>2. CASE UNCHANGED snaps /\ (W' = [W EXCEPT !.pc = "off"] \/ W' = [W EXCEPT !.pc = "failR"])
  <2>1. /\ W'.pc \in {"off", "failR"} /\ W'.iters = W.iters /\ W'.base = W.base
        /\ W'.conv = W.conv
    BY <1>2 DEF Proc
  <2> QED BY <1>1, <1>2, <2>1 DEF Shipping, Ordered, WorkerShips, Recorded
<1>3. CASE /\ W.iters < MaxPasses /\ SnapCreated(W.iters + 1)
           /\ W' = [W EXCEPT !.pc = "diff", !.to = W.iters + 1]
  <2>1. /\ W'.pc = "diff" /\ W'.iters = W.iters /\ W'.base = W.base
        /\ W'.conv = W.conv /\ W'.to = W.iters + 1
    BY <1>3 DEF Proc
  <2>2. W.iters + 1 \in 1 .. Final
    BY <1>3, MirrorAssumption DEF Proc, Final
  <2>3. /\ DOMAIN snaps' = DOMAIN snaps \cup {W.iters + 1}
        /\ snaps'[W.iters + 1] = disk
        /\ \A k \in DOMAIN snaps : k # W.iters + 1 => snaps'[k] = snaps[k]
    BY <1>3, <2>2, SnapTyped
  <2>4. \A k \in DOMAIN snaps : k \in Nat /\ k < W.iters + 1
    BY <1>1, Numbers DEF Shipping, WorkerShips
  <2>5. Ordered'
    BY <1>1, <2>1, <2>3, <2>4, Numbers, WorkerAlive DEF Shipping, Ordered
  <2>6. WorkerShips'
    BY <1>1, <2>1, <2>2, <2>3, <2>4, Numbers DEF Shipping, WorkerShips, BlockAt, Control
  <2>7. Recorded'
    BY <1>1, <2>1 DEF Shipping, Recorded
  <2> QED BY <2>5, <2>6, <2>7
<1> QED BY <1>2, <1>3, PassEffect

LEMMA ShipDiff ==
  ASSUME TypeOK, Control, Stopped, Shipping, ~W'.loose, Diff("worker")
  PROVE  Ordered' /\ WorkerShips' /\ Recorded'
<1> USE Typed
<1>1. /\ W.pc = "diff" /\ X' = X
      /\ UNCHANGED <<disk, writes, dest, snaps, job, status, result>>
  BY DiffWorker DEF Diff, guestVars
<1>3. CASE W' = [W EXCEPT !.pc = "failR"]
  <2>1. /\ W'.pc = "failR" /\ W'.iters = W.iters /\ W'.base = W.base
        /\ W'.conv = W.conv
    BY <1>3 DEF Proc
  <2> QED BY <1>1, <2>1 DEF Shipping, Ordered, WorkerShips, Recorded
<1>4. ASSUME NEW E \in SUBSET Block, E = Extents(W.base, snaps[W.to]),
             W' = [W EXCEPT !.pc = "copy", !.todo = E, !.n = Cardinality(E)]
      PROVE  Ordered' /\ WorkerShips' /\ Recorded'
  <2>1. /\ W'.pc = "copy" /\ W'.iters = W.iters /\ W'.base = W.base
        /\ W'.conv = W.conv /\ W'.to = W.to /\ W'.todo = E
    BY <1>4 DEF Proc
  <2>2. /\ W.to \in DOMAIN snaps /\ W.to = W.iters + 1 /\ W.base = W.iters
        /\ W.base = NoBase \/ W.base \in DOMAIN snaps
    BY <1>1 DEF Shipping, WorkerShips, Control
  <2>3. ASSUME NEW b \in Block
        PROVE  0 <= snaps[W.to][b] /\ dest[b] <= snaps[W.to][b]
    <3>1. dest[b] <= BlockAt(W.base, b) /\ 0 <= snaps[W.to][b]
      BY <1>1, <2>2 DEF Shipping, WorkerShips, Ordered
    <3>2. W.base \in DOMAIN snaps => snaps[W.base][b] <= snaps[W.to][b]
      BY <2>2, Numbers DEF Shipping, Ordered
    <3> QED BY <3>1, <3>2, <2>2, Numbers DEF BlockAt
  <2>4. ASSUME NEW b \in Block \ E
        PROVE  snaps[W.to][b] <= dest[b]
    <3>1. CASE ~(snaps[W.to][b] > 0)
      BY <2>2, <3>1, Numbers DEF Shipping, Ordered
    <3>2. CASE W.base # NoBase /\ snaps[W.base][b] = snaps[W.to][b]
      BY <2>2, <3>2, Numbers DEF Shipping, Ordered
    <3> QED BY <1>4, <3>1, <3>2 DEF Extents
  <2> QED BY <1>1, <2>1, <2>2, <2>3, <2>4 DEF Shipping, Ordered, WorkerShips, Recorded
<1> QED BY <1>3, <1>4, DiffWorker

LEMMA ShipCopy ==
  ASSUME TypeOK, Control, Stopped, Shipping, ~W'.loose, Copy("worker")
  PROVE  Ordered' /\ WorkerShips' /\ Recorded'
<1> USE Typed
<1>1. /\ W.pc = "copy" /\ X' = X
      /\ UNCHANGED <<disk, writes, snaps, job, status, result>>
  BY CopyWorker DEF Copy, guestVars
<1>2. job
  BY <1>1 DEF Stopped
<1>3. CASE W' = [W EXCEPT !.pc = "failR"] /\ UNCHANGED dest
  <2>1. /\ W'.pc = "failR" /\ W'.iters = W.iters /\ W'.base = W.base
        /\ W'.conv = W.conv
    BY <1>3 DEF Proc
  <2> QED BY <1>1, <1>2, <1>3, <2>1 DEF Shipping, Ordered, WorkerShips, Recorded
<1>4. ASSUME NEW a \in W.todo, dest' = [dest EXCEPT ![a] = snaps[W.to][a]],
             W' = [W EXCEPT !.todo = W.todo \ {a}]
      PROVE  Ordered' /\ WorkerShips' /\ Recorded'
  <2>1. /\ W'.pc = "copy" /\ W'.iters = W.iters /\ W'.base = W.base
        /\ W'.conv = W.conv /\ W'.to = W.to /\ W'.todo = W.todo \ {a}
    BY <1>1, <1>4 DEF Proc
  <2>2. W.to \in DOMAIN snaps /\ W.to = W.iters + 1
    BY <1>1 DEF Shipping, WorkerShips, Control
  <2>3. \A b \in Block : dest'[b] = IF b = a THEN snaps[W.to][b] ELSE dest[b]
    BY <1>4 DEF TypeOK
  <2>4. ASSUME NEW k \in DOMAIN snaps, k <= W.iters, NEW b \in Block
        PROVE  snaps[k][b] <= dest'[b]
    <3>1. k <= W.to
      BY <2>2, <2>4, Numbers
    <3> QED BY <2>2, <2>3, <2>4, <3>1 DEF Shipping, Ordered
  <2>5. Ordered'
    BY <1>1, <1>2, <2>1, <2>2, <2>3, <2>4 DEF Shipping, Ordered
  <2>6. WorkerShips'
    BY <1>1, <2>1, <2>2, <2>3, Numbers DEF Shipping, WorkerShips
  <2>7. Recorded'
    BY <1>1, <1>2, <2>1 DEF Shipping, Recorded
  <2> QED BY <2>5, <2>6, <2>7
<1> QED BY <1>3, <1>4, CopyWorker

LEMMA ShipCopied ==
  ASSUME TypeOK, Control, Stopped, Shipping, ~W'.loose, Copied("worker")
  PROVE  Ordered' /\ WorkerShips' /\ Recorded'
<1>1. /\ W.pc = "copy" /\ W.todo = {} /\ X' = X
      /\ UNCHANGED <<disk, writes, dest, snaps, job, status, result>>
  BY CopiedWorker DEF Copied, guestVars
<1>3. /\ W'.pc = "reap" /\ W'.iters = W.iters /\ W'.base = W.base
      /\ W'.conv = W.conv /\ W'.to = W.to
  BY CopiedWorker, Typed DEF Proc
<1> QED BY <1>1, <1>3 DEF Shipping, Ordered, WorkerShips, Recorded

LEMMA ShipReap ==
  ASSUME TypeOK, Control, Stopped, Shipping, ~W'.loose, Reap
  PROVE  Ordered' /\ WorkerShips' /\ Recorded'
<1>1. /\ W.pc = "reap" /\ X' = X
      /\ UNCHANGED <<disk, writes, dest, job, status, result>>
  BY ReapEffect DEF Reap, guestVars
<1>2. job
  BY <1>1 DEF Stopped
<1>3. /\ W'.pc = "statR" /\ W'.iters = W.iters + 1 /\ W'.base = W.iters + 1
  BY ReapEffect, Typed DEF Proc
<1>4. W.to \in DOMAIN snaps /\ W.to = W.iters + 1 /\ W.base = W.iters
  BY <1>1 DEF Shipping, WorkerShips, Control
<1>5. /\ DOMAIN snaps' \subseteq DOMAIN snaps /\ W.to \in DOMAIN snaps'
      /\ \A k \in DOMAIN snaps' : snaps'[k] = snaps[k]
  BY <1>4, ReapEffect, Numbers
<1>6. \A k \in DOMAIN snaps : k <= W.iters + 1 => k <= W.iters \/ k = W.to
  BY <1>4, Numbers
<1>7. Ordered'
  BY <1>1, <1>2, <1>3, <1>5, <1>6 DEF Shipping, Ordered, WorkerShips
<1>8. WorkerShips'
  <2>1. /\ DOMAIN snaps' \subseteq 1 .. (W'.iters + 1)
        /\ W'.iters + 1 \notin DOMAIN snaps'
    BY <1>1, <1>3, <1>5, Numbers DEF Shipping, WorkerShips
  <2>2. \A b \in Block : dest'[b] <= BlockAt(W.base, b)'
    BY <1>1, <1>3, <1>4, <1>5 DEF Shipping, WorkerShips, BlockAt
  <2> QED BY <1>3, <1>4, <1>5, <2>1, <2>2 DEF WorkerShips
<1>9. Recorded'
  BY <1>1, <1>2, <1>3, Numbers DEF Shipping, Recorded
<1> QED BY <1>7, <1>8, <1>9

LEMMA ShipStatus ==
  ASSUME TypeOK, Control, Stopped, Shipping, ~W'.loose,
         \/ ReadStatus("worker", "statR", "statW")
         \/ ReadStatus("worker", "failR", "failW")
         \/ ReplaceStatus("worker", "statW", "loop", PassStatus, "failR")
         \/ ReplaceStatus("worker", "failW", "off", FailStatus, "off")
         \/ Killed
  PROVE  Ordered' /\ WorkerShips' /\ Recorded'
<1>1. UNCHANGED <<disk, writes, dest, snaps, job, result>>
  BY DEF ReadStatus, ReplaceStatus, Killed, guestVars
<1>2. CASE \/ ReadStatus("worker", "statR", "statW")
           \/ ReadStatus("worker", "failR", "failW")
  <2>1. /\ X' = X /\ UNCHANGED status /\ W'.st = status /\ SameWork(W, W')
        /\ \/ W.pc = "statR" /\ W'.pc = "statW"
           \/ W.pc = "failR" /\ W'.pc = "failW"
    BY <1>2, ReadWorker DEF ReadStatus, Pc
  <2> QED BY <1>1, <2>1 DEF Shipping, Ordered, WorkerShips, Recorded, SameWork, BlockAt
<1>3. CASE \/ ReplaceStatus("worker", "statW", "loop", PassStatus, "failR")
           \/ ReplaceStatus("worker", "failW", "off", FailStatus, "off")
  <2>1. job
    BY <1>3, WorkerReplaces DEF Stopped
  <2>2. /\ PassStatus.base = W.base /\ PassStatus.complete = W.conv
        /\ FailStatus.base = W.base /\ FailStatus.complete = W.st.complete
    BY Typed DEF PassStatus, FailStatus, Proc, Status
  <2>3. /\ X' = X /\ SameWork(W, W') /\ status'.base = W.base
        /\ \/ W.pc = "statW" /\ W'.pc = "loop" /\ status'.complete = W.conv
           \/ W.pc = "failW" /\ W'.pc = "off" /\ status'.complete = W.st.complete
    BY <1>3, <2>1, <2>2, WorkerReplaces
  <2>4. Ordered'
    BY <1>1, <2>3 DEF Shipping, Ordered, SameWork
  <2>5. WorkerShips'
    BY <1>1, <2>3 DEF Shipping, WorkerShips, SameWork, BlockAt
  <2>6. Recorded'
    <3>1. ~Recording
      BY <2>3 DEF Stopped
    <3> QED BY <1>1, <2>3, <3>1, Numbers DEF Shipping, Recorded, SameWork, Control
  <2> QED BY <2>4, <2>5, <2>6
<1>4. CASE Killed
  <2>1. /\ X' = X /\ UNCHANGED status /\ W'.pc = "off" /\ W'.iters = W.iters
        /\ W'.conv = W.conv
    BY <1>4, KilledEffect, Typed DEF Killed, Proc
  <2> QED BY <1>1, <2>1 DEF Shipping, Ordered, WorkerShips, Recorded
<1> QED BY <1>2, <1>3, <1>4

\* The guest only adds to the disk, and not while it is paused.
LEMMA ShipGuest ==
  ASSUME TypeOK, Shipping, ~Discards, GuestStep
  PROVE  Shipping'
<1>1. PICK a \in Block, n \in {writes + 1, -(writes + 1)} :
        (n < 0 => Discards) /\ Request(a, n)
  BY DEF GuestStep
<1>2. writes \in Nat /\ n = writes + 1 /\ writes' = writes + 1
  BY <1>1, MirrorAssumption DEF TypeOK, Request
<1>3. /\ guest = "running" /\ disk' = [disk EXCEPT ![a] = n] /\ W' = W /\ X' = X
      /\ UNCHANGED <<guest, dest, snaps, job, status, result>>
  BY <1>1 DEF Request, W, X
<1>4. \A b \in Block : disk[b] <= disk'[b] /\ disk'[b] <= writes'
  BY <1>2, <1>3, Numbers DEF TypeOK, Shipping, Ordered
<1>5. Ordered'
  <2>1. \A b \in Block : disk'[b] \in Int
    BY <1>2, <1>3, Numbers DEF TypeOK
  <2>2. \A b \in Block : 0 <= dest[b] /\ dest[b] <= disk'[b]
    BY <2>1, <1>4, Numbers DEF Shipping, Ordered
  <2>3. ASSUME NEW k \in DOMAIN snaps, NEW b \in Block
        PROVE  snaps[k][b] <= disk'[b]
    <3>1. snaps[k][b] \in Int /\ disk[b] \in Int /\ snaps[k][b] <= disk[b]
      BY Numbers DEF Shipping, Ordered
    <3> QED BY <2>1, <3>1, <1>4
  <2> QED BY <1>3, <1>4, <2>2, <2>3 DEF Shipping, Ordered
<1>6. WorkerShips' /\ Recorded'
  BY <1>3 DEF Shipping, WorkerShips, Recorded, BlockAt
<1>7. FinalShips'
  BY <1>3 DEF Shipping, FinalShips
<1> QED BY <1>5, <1>6, <1>7 DEF Shipping

LEMMA ShipMirror ==
  ASSUME TypeOK, Control, Stopped, Shipping, Mirror
  PROVE  Shipping'
<1>1. /\ X.pc = "off" /\ ~job /\ result = "none" /\ job' = TRUE
      /\ status'.base = 0 /\ ~status'.complete
      /\ UNCHANGED <<disk, writes, guest, dest, snaps, result>>
  BY DEF Mirror, guestVars, TypeOK, Status, NoBase
<1>2. /\ W'.pc = "loop" /\ W'.iters = W.iters /\ W'.base = W.base /\ W'.conv = W.conv
      /\ X'.pc = "pidR" /\ X'.ok = X.ok /\ X'.base = X.base /\ X'.st = X.st
  BY MirrorEffect, Typed DEF Proc
<1>3. /\ DOMAIN snaps = {} /\ W.iters = 0 /\ W.base = NoBase /\ ~X.ok
      /\ \A b \in Block : dest[b] = 0
  BY <1>1 DEF Shipping, Ordered, FinalShips, Control, NoBase
<1>4. Ordered'
  BY <1>1, <1>2, <1>3 DEF Shipping, Ordered
<1>5. WorkerShips'
  BY <1>1, <1>2, <1>3 DEF WorkerShips, BlockAt
<1>6. Recorded'
  BY <1>1, <1>2, <1>3 DEF Shipping, Recorded, NoStatus, NoBase
<1>7. FinalShips'
  BY <1>1, <1>2, <1>3 DEF Shipping, FinalShips
<1> QED BY <1>4, <1>5, <1>6, <1>7 DEF Shipping

\* The calls and steps that copy nothing and leave the snapshots alone.
LEMMA ShipCalls ==
  ASSUME TypeOK, Control, Stopped, Shipping,
         ~W'.loose, \/ Stat \/ Pause \/ Detach \/ FinRead \/ StopWorker
                    \/ WorkerGone \/ RmState \/ CallKilled
  PROVE  Shipping'
<1> USE Typed
<1>1. UNCHANGED <<disk, writes, dest, snaps>> /\ W' = W
  BY DetachEffect, FinReadEffect, StopWorkerEffect, WorkerGoneEffect, RmStateEffect, CallKilledTight
     DEF Stat, Pause, Detach, FinRead, StopWorker, WorkerGone, RmState,
         CallKilled, guestVars, W
<1>8. WorkerShips'
  BY <1>1 DEF Shipping, WorkerShips, BlockAt
<1>10. 0 <= W.iters
  BY Numbers
<1>9. ASSUME UNCHANGED <<job, result>> PROVE Ordered'
  BY <1>1, <1>9 DEF Shipping, Ordered
<1>2. CASE Stat \/ Pause
  <2>1. X' = X /\ UNCHANGED <<job, status, result>>
    BY <1>2 DEF Stat, Pause, X
  <2>2. UNCHANGED guest \/ (X.pc = "off" /\ result = "none")
    BY <1>2 DEF Stat, Pause, guestVars
  <2>3. Recorded'
    BY <1>1, <2>1 DEF Shipping, Recorded
  <2>4. FinalShips'
    BY <1>1, <2>1, <2>2 DEF Shipping, FinalShips
  <2> QED BY <1>8, <1>9, <2>1, <2>3, <2>4 DEF Shipping
<1>3. CASE Detach
  <2>1. /\ X'.pc \in {"finR", "stop"} /\ ~X'.ok /\ X'.base = 0 /\ X'.st = NoStatus
        /\ UNCHANGED <<guest, job, status, result>>
    BY <1>3, DetachEffect DEF Detach, Off, NoBase, guestVars
  <2>2. Recorded'
    BY <1>1, <2>1, <1>10, NoStatusFields DEF Shipping, Recorded
  <2>3. FinalShips'
    BY <1>1, <2>1 DEF Shipping, FinalShips
  <2> QED BY <1>8, <1>9, <2>1, <2>2, <2>3 DEF Shipping
<1>4. CASE FinRead
  <2>1. UNCHANGED <<guest, job, status>> /\ X.pc = "finR"
    BY <1>4 DEF FinRead, guestVars
  <2>2. CASE X' = Off /\ result' = "skipped"
    <3>1. X'.pc = "off" /\ ~X'.ok /\ X'.base = 0 /\ X'.st = NoStatus
      BY <2>2 DEF Off, NoBase
    <3>2. Ordered'
      BY <1>1, <2>1, <2>2 DEF Shipping, Ordered
    <3>3. Recorded'
      BY <1>1, <2>1, <3>1, <1>10, NoStatusFields DEF Shipping, Recorded
    <3>4. FinalShips'
      BY <1>1, <2>1, <2>2, <3>1 DEF Shipping, FinalShips
    <3> QED BY <1>8, <3>2, <3>3, <3>4 DEF Shipping
  <2>3. CASE X' = [X EXCEPT !.pc = "markR", !.base = status.base] /\ UNCHANGED result
    <3>1. X'.pc = "markR" /\ X'.ok = X.ok /\ X'.base = status.base /\ X'.st = X.st
      BY <2>3 DEF Proc
    <3>2. Recorded'
      BY <1>1, <2>1, <3>1 DEF Shipping, Recorded
    <3>3. FinalShips'
      BY <1>1, <2>1, <2>3, <3>1 DEF Shipping, FinalShips
    <3> QED BY <1>8, <1>9, <2>1, <2>3, <3>2, <3>3 DEF Shipping
  <2> QED BY <1>4, <2>2, <2>3, FinReadEffect
<1>5. CASE StopWorker \/ WorkerGone
  <2>1. /\ X'.pc \in {"wait", "snap", "sweep"} /\ X.pc \in {"stop", "wait"} /\ X'.ok = X.ok /\ X'.base = X.base
        /\ X'.st = X.st
    BY <1>5, StopWorkerEffect, WorkerGoneEffect DEF StopWorker, WorkerGone, AfterStop, Proc
  <2>2. UNCHANGED <<guest, job, status, result>>
    BY <1>5 DEF StopWorker, WorkerGone, guestVars
  <2>3. Recorded'
    BY <1>1, <2>1, <2>2 DEF Shipping, Recorded
  <2>4. FinalShips'
    BY <1>1, <2>1, <2>2 DEF Shipping, FinalShips
  <2> QED BY <1>8, <1>9, <2>2, <2>3, <2>4 DEF Shipping
<1>6. CASE RmState
  <2>1. /\ X'.pc = "off" /\ X'.ok = X.ok /\ X'.base = X.base /\ X'.st = X.st /\ X.pc = "rm"
        /\ job' = FALSE /\ status' = NoStatus /\ result' # "none" /\ UNCHANGED guest
        /\ result' = "finalized" => X.ok
    BY <1>6, RmStateEffect DEF RmState, Proc, guestVars
  <2>2. W.pc = "off"
    BY <2>1 DEF Stopped
  <2>3. Ordered'
    BY <1>1, <2>1 DEF Shipping, Ordered
  <2>4. Recorded'
    BY <1>1, <2>1, <2>2, <1>10, NoStatusFields DEF Shipping, Recorded
  <2>5. FinalShips'
    BY <1>1, <2>1 DEF Shipping, FinalShips
  <2> QED BY <1>8, <2>3, <2>4, <2>5 DEF Shipping
<1>7. CASE CallKilled
  <2>1. /\ X'.pc = "off" /\ ~X'.ok /\ X'.base = 0 /\ X'.st = NoStatus
        /\ UNCHANGED <<guest, job, status, result>>
    <3>1. X' = Off /\ UNCHANGED <<guest, job, status, result>>
      BY <1>7, CallKilledEffect DEF CallKilled, guestVars
    <3> QED BY <3>1 DEF Off, NoBase
  <2>2. Recorded'
    BY <1>1, <2>1, <1>10, NoStatusFields DEF Shipping, Recorded
  <2>3. FinalShips'
    BY <1>1, <2>1 DEF Shipping, FinalShips
  <2> QED BY <1>8, <1>9, <2>1, <2>2, <2>3 DEF Shipping
<1> QED BY <1>2, <1>3, <1>4, <1>5, <1>6, <1>7

\* mirror() records the pid, finalize its mark.
LEMMA ShipMark ==
  ASSUME TypeOK, Control, Stopped, Shipping,
         \/ ReadStatus("xapi", "pidR", "pidW")
         \/ ReadStatus("xapi", "markR", "markW")
         \/ ReplaceStatus("xapi", "pidW", "off", [X.st EXCEPT !.pid = TRUE], "off")
         \/ ReplaceStatus("xapi", "markW", "stop",
                          [X.st EXCEPT !.finalized = TRUE], "off")
  PROVE  Shipping'
<1>1. UNCHANGED <<disk, writes, guest, dest, snaps, job, result>>
  BY DEF ReadStatus, ReplaceStatus, guestVars
<1>2. CASE \/ ReadStatus("xapi", "pidR", "pidW")
           \/ ReadStatus("xapi", "markR", "markW")
  <2>1. /\ W' = W /\ UNCHANGED status /\ X'.st = status /\ SameWork(X, X')
        /\ \/ X.pc = "pidR" /\ X'.pc = "pidW"
           \/ X.pc = "markR" /\ X'.pc = "markW"
    BY <1>2, ReadXapi DEF ReadStatus, Pc
  <2> QED BY <1>1, <2>1
          DEF Shipping, Ordered, WorkerShips, Recorded, FinalShips, SameWork, BlockAt
<1>3. CASE \/ ReplaceStatus("xapi", "pidW", "off", [X.st EXCEPT !.pid = TRUE], "off")
           \/ ReplaceStatus("xapi", "markW", "stop",
                            [X.st EXCEPT !.finalized = TRUE], "off")
  <2>1. /\ W' = W /\ SameWork(X, X') /\ X'.st = NoStatus
        /\ status'.base = X.st.base /\ status'.complete = X.st.complete
        /\ \/ X.pc = "pidW" /\ X'.pc = "off"
           \/ X.pc = "markW" /\ X'.pc = "stop" /\ status'.finalized
    BY <1>3, XapiReplaces, Typed DEF Proc, Status
  <2>2. Recorded'
    BY <2>1, Numbers DEF Shipping, Recorded, SameWork, NoStatus, NoBase, Control
  <2> QED BY <1>1, <2>1, <2>2
          DEF Shipping, Ordered, WorkerShips, FinalShips, SameWork, BlockAt
<1> QED BY <1>2, <1>3

LEMMA ShipFinalSnap ==
  ASSUME TypeOK, Control, Stopped, Shipping, FinalSnap
  PROVE  Shipping'
<1>1. /\ W' = W /\ X.pc = "snap"
      /\ UNCHANGED <<disk, writes, guest, dest, job, status, result>>
  BY FinalSnapEffect DEF FinalSnap, guestVars
<1>2. W.pc = "off" /\ ~X.ok
  BY <1>1 DEF Stopped, Shipping, FinalShips
<1>3. CASE X' = [X EXCEPT !.pc = "sweep"] /\ UNCHANGED snaps
  <2>1. X'.pc = "sweep" /\ X'.ok = X.ok /\ X'.base = X.base /\ X'.st = X.st
    BY <1>3, Typed DEF Proc
  <2> QED BY <1>1, <1>2, <1>3, <2>1
          DEF Shipping, Ordered, WorkerShips, Recorded, FinalShips
<1>4. CASE SnapCreated(Final) /\ X' = [X EXCEPT !.pc = "diff", !.to = Final]
  <2>1. X'.pc = "diff" /\ X'.ok = X.ok /\ X'.base = X.base /\ X'.st = X.st
    BY <1>4, Typed DEF Proc
  <2>2. Final \in 1 .. Final
    BY MirrorAssumption DEF Final
  <2>3. /\ DOMAIN snaps' = DOMAIN snaps \cup {Final} /\ snaps'[Final] = disk
        /\ \A k \in DOMAIN snaps : k # Final => snaps'[k] = snaps[k]
    BY <1>4, <2>2, SnapTyped
  <2>4. Ordered'
    <3>1. job
      BY <1>1 DEF Control
    <3>2. /\ ~(Final <= W.iters)
          /\ \A k \in DOMAIN snaps : k <= Final /\ (Final <= k => k = Final)
          /\ \A b \in Block : disk[b] <= disk[b]
      BY <2>2, Numbers
    <3>3. \A b \in Block : 0 <= disk[b]
      BY Numbers DEF Shipping, Ordered
    <3> QED BY <1>1, <2>3, <3>1, <3>2, <3>3 DEF Shipping, Ordered
  <2>5. FinalShips'
    BY <1>1, <1>2, <2>1, <2>3 DEF Shipping, FinalShips, Ordered
  <2> QED BY <1>1, <1>2, <2>1, <2>4, <2>5 DEF Shipping, WorkerShips, Recorded
<1> QED BY <1>3, <1>4, FinalSnapEffect

LEMMA ShipFinalDiff ==
  ASSUME TypeOK, Control, Stopped, Shipping, Diff("xapi")
  PROVE  Shipping'
<1>1. /\ W' = W /\ X.pc = "diff"
      /\ UNCHANGED <<disk, writes, guest, dest, snaps, job, status, result>>
  BY DiffXapi DEF Diff, guestVars
<1>2. W.pc = "off" /\ ~X.ok
  BY <1>1 DEF Stopped, Shipping, FinalShips
<1>3. CASE X' = [X EXCEPT !.pc = "sweep"]
  <2>1. X'.pc = "sweep" /\ X'.ok = X.ok /\ X'.base = X.base /\ X'.st = X.st
    BY <1>3, Typed DEF Proc
  <2> QED BY <1>1, <1>2, <2>1
          DEF Shipping, Ordered, WorkerShips, Recorded, FinalShips
<1>4. ASSUME NEW E \in SUBSET Block, E = Extents(X.base, snaps[X.to]),
             X.base \in DOMAIN snaps \cup {NoBase},
             X' = [X EXCEPT !.pc = "copy", !.todo = E, !.n = Cardinality(E)]
      PROVE  Shipping'
  <2>1. /\ X'.pc = "copy" /\ X'.ok = X.ok /\ X'.base = X.base /\ X'.st = X.st
        /\ X'.todo = E
    BY <1>4, Typed DEF Proc
  <2>2. X.to = Final /\ Final \in DOMAIN snaps /\ X.base <= W.iters
    BY <1>1 DEF Control, Shipping, FinalShips, Recorded
  <2>3. ASSUME NEW b \in Block \ E
        PROVE  dest[b] = snaps[Final][b]
    <3>1. 0 <= snaps[Final][b] /\ 0 <= dest[b] /\ dest[b] <= snaps[Final][b]
      BY <1>1, <2>2 DEF Shipping, FinalShips, Ordered
    <3>2. snaps[Final][b] \in Int /\ dest[b] \in Int
      BY <2>2, Numbers
    <3>3. CASE ~(snaps[Final][b] > 0)
      BY <3>1, <3>2, <3>3
    <3>4. CASE X.base # NoBase /\ snaps[X.base][b] = snaps[Final][b]
      <4>1. snaps[X.base][b] <= dest[b]
        BY <1>4, <2>2, <3>4 DEF Shipping, Ordered
      <4> QED BY <3>1, <3>2, <3>4, <4>1
    <3> QED BY <1>4, <2>2, <3>3, <3>4 DEF Extents
  <2>4. FinalShips'
    BY <1>1, <1>2, <2>1, <2>2, <2>3 DEF Shipping, FinalShips
  <2> QED BY <1>1, <1>2, <2>1, <2>4 DEF Shipping, Ordered, WorkerShips, Recorded
<1> QED BY <1>3, <1>4, DiffXapi

LEMMA ShipFinalCopy ==
  ASSUME TypeOK, Control, Stopped, Shipping, Copy("xapi")
  PROVE  Shipping'
<1>1. /\ W' = W /\ X.pc = "copy"
      /\ UNCHANGED <<disk, writes, guest, snaps, job, status, result>>
  BY CopyXapi DEF Copy, guestVars
<1>2. W.pc = "off" /\ ~X.ok /\ job
  BY <1>1 DEF Stopped, Shipping, FinalShips, Control
<1>3. CASE X' = [X EXCEPT !.pc = "sweep"] /\ UNCHANGED dest
  <2>1. X'.pc = "sweep" /\ X'.ok = X.ok /\ X'.base = X.base /\ X'.st = X.st
    BY <1>3, Typed DEF Proc
  <2> QED BY <1>1, <1>2, <1>3, <2>1
          DEF Shipping, Ordered, WorkerShips, Recorded, FinalShips
<1>4. ASSUME NEW a \in X.todo, dest' = [dest EXCEPT ![a] = snaps[X.to][a]],
             X' = [X EXCEPT !.todo = X.todo \ {a}]
      PROVE  Shipping'
  <2>1. /\ X'.pc = "copy" /\ X'.ok = X.ok /\ X'.base = X.base /\ X'.st = X.st
        /\ X'.todo = X.todo \ {a}
    BY <1>1, <1>4, Typed DEF Proc
  <2>2. X.to = Final /\ Final \in DOMAIN snaps
    BY <1>1 DEF Control, Shipping, FinalShips
  <2>3. \A b \in Block : dest'[b] = IF b = a THEN snaps[Final][b] ELSE dest[b]
    BY <1>4, <2>2 DEF TypeOK
  <2>4. Ordered'
    BY <1>1, <1>2, <2>2, <2>3, Numbers DEF Shipping, Ordered
  <2>5. FinalShips'
    <3>1. \A b \in Block : snaps[Final][b] <= snaps[Final][b]
      BY <2>2, Numbers
    <3> QED BY <1>1, <1>2, <2>1, <2>2, <2>3, <3>1 DEF Shipping, FinalShips
  <2> QED BY <1>1, <1>2, <2>1, <2>4, <2>5 DEF Shipping, WorkerShips, Recorded
<1> QED BY <1>3, <1>4, CopyXapi

LEMMA ShipFinalCopied ==
  ASSUME TypeOK, Control, Stopped, Shipping, Copied("xapi")
  PROVE  Shipping'
<1>1. /\ W' = W /\ X.pc = "copy" /\ X.todo = {}
      /\ UNCHANGED <<disk, writes, guest, dest, snaps, job, status, result>>
  BY CopiedXapi DEF Copied, guestVars
<1>2. X'.pc = "sweep" /\ X'.ok /\ X'.base = X.base /\ X'.st = X.st
  BY CopiedXapi, Typed DEF Proc
<1>3. W.pc = "off"
  BY <1>1 DEF Stopped
<1> QED BY <1>1, <1>2, <1>3 DEF Shipping, Ordered, WorkerShips, Recorded, FinalShips

LEMMA ShipSweep ==
  ASSUME TypeOK, Control, Stopped, Shipping, Sweep
  PROVE  Shipping'
<1>1. /\ W' = W /\ X.pc = "sweep"
      /\ UNCHANGED <<disk, writes, guest, dest, job, status, result>>
  BY SweepEffect DEF Sweep, guestVars
<1>2. X'.pc = "rm" /\ X'.ok = X.ok /\ X'.base = X.base /\ X'.st = X.st
  BY SweepEffect, Typed DEF Proc
<1>3. W.pc = "off" /\ job
  BY <1>1 DEF Stopped, Control
<1>4. \A k \in DOMAIN snaps' : k \in DOMAIN snaps /\ snaps'[k] = snaps[k]
  BY SweepEffect DEF SnapsKept
<1> QED BY <1>1, <1>2, <1>3, <1>4
        DEF Shipping, Ordered, WorkerShips, Recorded, FinalShips

LEMMA ShippingStep ==
  ASSUME TypeOK, Control, Stopped, Shipping, ~W'.loose, ~Discards, [Next]_vars
  PROVE  Shipping'
<1>1. CASE WorkerStep \/ Killed
  <2>1. Ordered' /\ WorkerShips' /\ Recorded'
    BY <1>1, ShipPass, ShipDiff, ShipCopy, ShipCopied, ShipReap, ShipStatus
       DEF WorkerStep
  <2> QED BY <1>1, <2>1, FinalWorker DEF Shipping
<1>2. CASE XapiStep \/ CallKilled
  BY <1>2, ShipMirror, ShipCalls, ShipMark, ShipFinalSnap, ShipFinalDiff,
     ShipFinalCopy, ShipFinalCopied, ShipSweep DEF XapiStep
<1>3. CASE UNCHANGED vars
  <2>1. /\ W' = W /\ X' = X
        /\ UNCHANGED <<disk, writes, guest, dest, snaps, job, status, result>>
    BY <1>3 DEF vars, W, X
  <2>2. Ordered' /\ Recorded'
    BY <2>1 DEF Shipping, Ordered, Recorded
  <2>3. WorkerShips'
    BY <2>1 DEF Shipping, WorkerShips, BlockAt
  <2>4. FinalShips'
    BY <2>1 DEF Shipping, FinalShips
  <2> QED BY <2>2, <2>3, <2>4 DEF Shipping
<1> QED BY <1>1, <1>2, <1>3, ShipGuest DEF Next

LEMMA MirrorInit ==
  ASSUME Init
  PROVE  MInv
<1>1. W = Off /\ X = Off
  BY DEF Init, W, X
<1>2. TypeOK
  <2>1. proc \in [Processes -> Proc] /\ status \in Status
    BY OffTyped DEF Init, Processes, Status
  <2>2. DOMAIN snaps = {}
    BY DEF Init
  <2>3. /\ disk \in [Block -> Stamp] /\ dest \in [Block -> 0 .. MaxWrites]
        /\ writes \in 0 .. MaxWrites /\ faults \in 0 .. MaxFaults
    BY MirrorAssumption DEF Init, Stamp
  <2> QED BY <2>1, <2>2, <2>3 DEF Init, TypeOK, Processes
<1>3. Control /\ Stopped /\ SnapsSwept
  <2>1. /\ W.pc = "off" /\ X.pc = "off" /\ W.base = 0 /\ W.iters = 0
        /\ X.op = "none" /\ ~X.swept /\ job = FALSE
    BY <1>1 DEF Init, Off, NoBase
  <2> QED BY <2>1 DEF Control, CopiesData, Stopped, SnapsSwept, DetachPc
<1>4. Shipping
  <2>1. /\ W.pc = "off" /\ X.pc = "off" /\ W.base = 0 /\ W.iters = 0 /\ ~W.conv
        /\ X.base = 0 /\ ~X.ok /\ X.st = NoStatus /\ W.st = NoStatus
    BY <1>1 DEF Off, NoBase
  <2>2. /\ status.base = 0 /\ ~status.complete /\ X.st.base = 0 /\ ~X.st.complete
        /\ result = "none" /\ DOMAIN snaps = {}
    <3>1. /\ status \in {NoStatus, [NoStatus EXCEPT !.finalized = TRUE]}
          /\ result = "none" /\ DOMAIN snaps = {}
      BY DEF Init
    <3>2. status.base = 0 /\ ~status.complete
      BY <3>1 DEF NoStatus, NoBase
    <3> QED BY <2>1, <3>1, <3>2, NoStatusFields
  <2>3. Ordered
    <3>1. writes = 0 /\ \A b \in Block : disk[b] = 0 /\ dest[b] = 0
      BY DEF Init
    <3> QED BY <2>2, <3>1 DEF Ordered
  <2>4. WorkerShips
    BY <2>1 DEF WorkerShips
  <2>6. Recorded
    BY <2>1, <2>2 DEF Recorded
  <2>5. FinalShips
    BY <2>1, <2>2 DEF FinalShips
  <2> QED BY <2>3, <2>4, <2>5, <2>6 DEF Shipping
<1> QED BY <1>2, <1>3, <1>4 DEF MInv

LEMMA MirrorStep ==
  ASSUME MInv, [Next]_vars
  PROVE  MInv'
<1>1. TypeOK' /\ Control'
  BY TypeStep, ControlStep DEF MInv
<1>2. CASE ~W'.loose
  <2>1. Stopped /\ ~W.loose
    BY <1>2, LooseStays DEF MInv
  <2>2. Stopped' /\ SnapsSwept'
    BY <1>2, <2>1, StoppedStep DEF MInv
  <2>3. ~Discards => Shipping'
    BY <1>2, <2>1, ShippingStep DEF MInv
  <2> QED BY <1>1, <2>2, <2>3 DEF MInv
<1> QED BY <1>1, <1>2 DEF MInv

------------------------------------------------------------------------------
(***************************************************************************)
(* MInv holds in every state of the pre-copy mirror, whatever the worker,  *)
(* the plugin calls, the guest, failures and kills do in between           *)
(* (rbd_blkmir.main, blkmirror.mirror, finalize and cancel).               *)
(***************************************************************************)
THEOREM MirrorInvariant == Spec => []MInv
<1>1. Init => MInv
  BY MirrorInit
<1>2. MInv /\ [Next]_vars => MInv'
  BY MirrorStep
<1> QED BY <1>1, <1>2, PTL DEF Spec

(***************************************************************************)
(* finalize works alone: past _stop_worker the worker has exited, in every *)
(* behaviour in which the worker's first status update did not cross       *)
(* mirror()'s record of the pid, and mirror() lived to record it.          *)
(***************************************************************************)
THEOREM FinalizeAlone == Spec => []OneCopier
<1>1. MInv => OneCopier
  BY DEF MInv, Stopped, OneCopier
<1> QED BY <1>1, MirrorInvariant, PTL

(***************************************************************************)
(* _sweep_sxm_snaps leaves nothing behind: after a detach whose sweep went *)
(* through, no xcp-sxm-* snapshot is on the source, those of a killed      *)
(* worker included, unless the worker was loose.                           *)
(***************************************************************************)
THEOREM NoSnapshotLeft == Spec => []SnapsSwept
<1>1. MInv => SnapsSwept
  BY DEF MInv, SnapsSwept
<1> QED BY <1>1, MirrorInvariant, PTL

(***************************************************************************)
(* The cutover is exact: a finalize that returned normally with the guest  *)
(* paused left the destination equal to the source (blkmirror.finalize,    *)
(* copy_delta), for a guest that does not discard and a worker that was    *)
(* not loose.                                                              *)
(***************************************************************************)
THEOREM CutoverExact ==
  ASSUME ~Discards
  PROVE  Spec => []FinalExact
<1>1. MInv => FinalExact
  <2> SUFFICES ASSUME MInv, guest = "paused", result = "finalized", ~W.loose
               PROVE  dest = Contents(disk)
    BY DEF FinalExact
  <2>1. TypeOK /\ Shipping
    BY DEF MInv
  <2>2. \A b \in Block : dest[b] = disk[b] /\ 0 <= dest[b] /\ dest[b] \in Int
    BY <2>1, Numbers DEF Shipping, FinalShips, Ordered
  <2>3. \A b \in Block : dest[b] = Contents(disk)[b]
    BY <2>2 DEF Contents
  <2> QED BY <2>1, <2>3 DEF TypeOK, Contents
<1> QED BY <1>1, MirrorInvariant, PTL

(***************************************************************************)
(* A complete report stands on a shipped baseline: between passes the      *)
(* destination is the snapshot whose name status.json holds                *)
(* (rbd_blkmir.main), for a guest that does not discard and a worker that  *)
(* is not loose.                                                           *)
(***************************************************************************)
THEOREM BaselineExact ==
  ASSUME ~Discards
  PROVE  Spec => []BaselineShipped
<1>1. MInv => BaselineShipped
  <2> SUFFICES ASSUME MInv, status.complete, ~status.finalized, W.pc = "loop",
                      ~W.loose
               PROVE  /\ status.base \in DOMAIN snaps
                      /\ dest = Contents(snaps[status.base])
    BY DEF BaselineShipped
  <2>1. TypeOK /\ Control /\ Shipping
    BY DEF MInv
  <2>2. status.base = W.base /\ W.base = W.iters /\ W.base \in DOMAIN snaps
    <3>1. W.iters > 0 /\ status.base = W.base
      BY <2>1 DEF Shipping, Recorded
    <3>2. W.base = W.iters
      BY <2>1 DEF Control
    <3>3. W.base = NoBase \/ W.base \in DOMAIN snaps
      BY <2>1 DEF Shipping, WorkerShips
    <3> QED BY <3>1, <3>2, <3>3 DEF NoBase
  <2>3. ASSUME NEW b \in Block
        PROVE  dest[b] = Contents(snaps[status.base])[b]
    <3>1. dest[b] <= snaps[W.base][b]
      BY <2>1, <2>2 DEF Shipping, WorkerShips, BlockAt
    <3>2. dest[b] \in Int /\ snaps[W.base][b] \in Int /\ W.base <= W.iters
      BY <2>1, <2>2, Numbers
    <3>3. 0 <= snaps[W.base][b] /\ snaps[W.base][b] <= dest[b]
      BY <2>1, <2>2, <3>2 DEF Shipping, Ordered
    <3>4. dest[b] = snaps[W.base][b] /\ ~(snaps[W.base][b] < 0)
      BY <3>1, <3>2, <3>3
    <3>5. Contents(snaps[W.base])[b] = snaps[W.base][b]
      BY <3>2, <3>4 DEF Contents
    <3> QED BY <2>2, <3>4, <3>5
  <2> QED BY <2>1, <2>2, <2>3 DEF TypeOK, Contents
<1> QED BY <1>1, MirrorInvariant, PTL
=============================================================================
