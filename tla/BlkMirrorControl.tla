-------------------------- MODULE BlkMirrorControl -------------------------
(***************************************************************************)
(* Proofs about the pre-copy mirror, first part: what every action does to *)
(* the two processes, stated once in terms of the records W and X, and     *)
(* that every step keeps the types, the control (Control) and the order in *)
(* which finalize and cancel follow the worker's exit (Stopped).           *)
(***************************************************************************)
EXTENDS BlkMirror, FiniteSetTheorems, TLAPS

Processes == {"worker", "xapi"}

USE DEF Recording

LEMMA Typed ==
  ASSUME TypeOK
  PROVE  W \in Proc /\ X \in Proc
BY DEF TypeOK, W, X

LEMMA SetProc ==
  ASSUME TypeOK, NEW p \in Processes, NEW r \in Proc,
         proc' = [proc EXCEPT ![p] = r]
  PROVE  /\ proc' \in [Processes -> Proc]
         /\ p = "worker" => W' = r /\ X' = X
         /\ p = "xapi" => X' = r /\ W' = W
BY DEF TypeOK, W, X, Processes

\* The updates of a process record keep its type.
LEMMA UpdPc ==
  \A w \in Proc, l \in Pc : [w EXCEPT !.pc = l] \in Proc
BY DEF Proc

LEMMA UpdTo ==
  \A w \in Proc, l \in Pc, k \in 0 .. Final : [w EXCEPT !.pc = l, !.to = k] \in Proc
BY DEF Proc

LEMMA UpdBase ==
  \A w \in Proc, l \in Pc, m \in 0 .. MaxPasses : [w EXCEPT !.pc = l, !.base = m] \in Proc
BY DEF Proc

LEMMA UpdDiff ==
  \A w \in Proc, l \in Pc, S \in SUBSET Block, n \in 0 .. Cardinality(Block) :
    [w EXCEPT !.pc = l, !.todo = S, !.n = n] \in Proc
BY DEF Proc

LEMMA UpdTodo ==
  \A w \in Proc, S \in SUBSET Block : [w EXCEPT !.todo = S] \in Proc
BY DEF Proc

LEMMA UpdOk ==
  \A w \in Proc, l \in Pc, ok \in BOOLEAN : [w EXCEPT !.pc = l, !.ok = ok] \in Proc
BY DEF Proc

LEMMA UpdSwept ==
  \A w \in Proc, l \in Pc, ok \in BOOLEAN : [w EXCEPT !.pc = l, !.swept = ok] \in Proc
BY DEF Proc

LEMMA UpdSt ==
  \A w \in Proc, l \in Pc, st \in Status : [w EXCEPT !.pc = l, !.st = st] \in Proc
BY DEF Proc

LEMMA UpdRead ==
  \A w \in Proc, l \in Pc, st \in Status, b \in BOOLEAN :
    [w EXCEPT !.pc = l, !.st = st, !.loose = b] \in Proc
BY DEF Proc

LEMMA UpdLoose ==
  \A w \in Proc, b \in BOOLEAN : [w EXCEPT !.loose = b] \in Proc
BY DEF Proc

LEMMA UpdReap ==
  \A w \in Proc, l \in Pc, m \in 0 .. MaxPasses, c \in BOOLEAN,
     n \in 0 .. Cardinality(Block) :
    [w EXCEPT !.pc = l, !.base = m, !.iters = m, !.conv = c, !.n = n] \in Proc
BY ZenonT(30) DEF Proc

LEMMA UpdStatus ==
  \A s \in Status, m \in 0 .. MaxPasses :
    [s EXCEPT !.complete = FALSE, !.failed = FALSE, !.base = m, !.pid = FALSE] \in Status
BY DEF Status

\* Goto moves one process and leaves its data alone.
LEMMA GotoEffect ==
  ASSUME TypeOK, NEW p \in Processes, NEW l \in Pc, Goto(p, l)
  PROVE  /\ proc' \in [Processes -> Proc]
         /\ p = "worker" => W' = [W EXCEPT !.pc = l] /\ X' = X
         /\ p = "xapi" => X' = [X EXCEPT !.pc = l] /\ W' = W
<1> DEFINE r == [proc[p] EXCEPT !.pc = l]
<1>1. proc' = [proc EXCEPT ![p] = r]
  BY DEF Goto, TypeOK, Processes
<1>2. r \in Proc
  BY DEF TypeOK, Proc, Processes
<1> QED BY <1>1, <1>2, SetProc DEF W, X

LEMMA RaiseEffect ==
  ASSUME TypeOK, NEW p \in Processes, Raise(p)
  PROVE  /\ proc' \in [Processes -> Proc]
         /\ p = "worker" => W' = [W EXCEPT !.pc = "failR"] /\ X' = X
         /\ p = "xapi" => X' = [X EXCEPT !.pc = "sweep"] /\ W' = W
<1>1. CASE p = "worker"
  BY <1>1, GotoEffect DEF Raise, Pc
<1>2. CASE p = "xapi"
  BY <1>2, GotoEffect DEF Raise, Pc
<1> QED BY <1>1, <1>2 DEF Processes

LEMMA FaultTyped ==
  ASSUME TypeOK, UNCHANGED faults \/ Fault
  PROVE  faults' \in 0 .. MaxFaults
BY MirrorAssumption DEF Fault, TypeOK

LEMMA PassEffect ==
  ASSUME TypeOK, Pass
  PROVE  /\ proc' \in [Processes -> Proc] /\ X' = X
         /\ \/ W' = [W EXCEPT !.pc = "off"] /\ UNCHANGED snaps
            \/ /\ ~stop /\ W.iters < MaxPasses /\ SnapCreated(W.iters + 1)
               /\ W' = [W EXCEPT !.pc = "diff", !.to = W.iters + 1]
            \/ W' = [W EXCEPT !.pc = "failR"] /\ UNCHANGED snaps
<1>1. CASE stop
  BY <1>1, GotoEffect DEF Pass, Pc, Processes
<1>2. CASE ~stop /\ Raise("worker") /\ UNCHANGED snaps
  BY <1>2, RaiseEffect DEF Processes
<1>3. CASE /\ ~stop /\ W.iters < MaxPasses /\ SnapCreated(W.iters + 1)
           /\ proc' = [proc EXCEPT !["worker"].pc = "diff",
                                   !["worker"].to = W.iters + 1]
  <2> DEFINE r == [W EXCEPT !.pc = "diff", !.to = W.iters + 1]
  <2>1. proc' = [proc EXCEPT !["worker"] = r]
    BY <1>3 DEF TypeOK, W
  <2>2. "diff" \in Pc /\ W.iters + 1 \in 0 .. Final
    BY <1>3, Typed, MirrorAssumption DEF Proc, Pc, Final
  <2>3. r \in Proc
    BY <2>2, Typed, UpdTo
  <2> QED BY <1>3, <2>1, <2>3, SetProc DEF Processes
<1> QED BY <1>1, <1>2, <1>3 DEF Pass

LEMMA DiffEffect ==
  ASSUME TypeOK, NEW p \in Processes, Diff(p)
  PROVE  /\ proc' \in [Processes -> Proc]
         /\ \A q \in Processes : q # p => proc'[q] = proc[q]
         /\ \/ /\ proc[p].to \in DOMAIN snaps
               /\ proc[p].base \in DOMAIN snaps \cup {NoBase}
               /\ \E E \in SUBSET Block :
                    /\ E = Extents(proc[p].base, snaps[proc[p].to])
                    /\ proc'[p] = [proc[p] EXCEPT !.pc = "copy", !.todo = E,
                                                  !.n = Cardinality(E)]
            \/ proc'[p] = [proc[p] EXCEPT !.pc = IF p = "worker" THEN "failR"
                                                 ELSE "sweep"]
<1> DEFINE E == Extents(proc[p].base, snaps[proc[p].to])
           r == [proc[p] EXCEPT !.pc = "copy", !.todo = E, !.n = Cardinality(E)]
<1>1. CASE Raise(p)
  BY <1>1, RaiseEffect DEF Processes, W, X
<1>2. CASE /\ proc[p].to \in DOMAIN snaps
           /\ proc[p].base \in DOMAIN snaps \cup {NoBase}
           /\ proc' = [proc EXCEPT ![p].pc = "copy", ![p].todo = E,
                                   ![p].n = Cardinality(E)]
  <2>1. E \in SUBSET Block
    BY DEF Extents
  <2>2. Cardinality(E) \in 0 .. Cardinality(Block)
    BY <2>1, FS_Subset, FS_CardinalityType, MirrorAssumption
  <2> HIDE DEF E
  <2>3. proc' = [proc EXCEPT ![p] = r]
    BY <1>2 DEF TypeOK, Processes
  <2>4. r \in Proc
    <3>1. proc[p] \in Proc /\ "copy" \in Pc
      BY DEF TypeOK, Pc, Processes
    <3> QED BY <3>1, <2>1, <2>2, UpdDiff
  <2>5. /\ proc'[p] = r /\ proc' \in [Processes -> Proc]
        /\ \A q \in Processes : q # p => proc'[q] = proc[q]
    <3> HIDE DEF r
    <3> QED BY <2>3, <2>4 DEF TypeOK, Processes
  <2>6. E = Extents(proc[p].base, snaps[proc[p].to])
    BY DEF E
  <2> QED BY <1>2, <2>1, <2>5, <2>6
<1> QED BY <1>1, <1>2 DEF Diff

LEMMA CopyEffect ==
  ASSUME TypeOK, Control, NEW p \in Processes, Copy(p)
  PROVE  /\ proc' \in [Processes -> Proc]
         /\ \A q \in Processes : q # p => proc'[q] = proc[q]
         /\ \/ /\ nbd /\ proc[p].to \in DOMAIN snaps
               /\ \E b \in proc[p].todo :
                    /\ dest' = [dest EXCEPT ![b] = snaps[proc[p].to][b]]
                    /\ proc'[p] = [proc[p] EXCEPT !.todo = @ \ {b}]
            \/ /\ proc'[p] = [proc[p] EXCEPT !.pc = IF p = "worker" THEN "failR"
                                                    ELSE "sweep"]
               /\ UNCHANGED dest
<1>1. CASE Raise(p) /\ UNCHANGED dest
  BY <1>1, RaiseEffect DEF Processes, W, X
<1>2. ASSUME nbd, proc[p].to \in DOMAIN snaps, NEW b \in proc[p].todo,
             dest' = [dest EXCEPT ![b] = snaps[proc[p].to][b]],
             proc' = [proc EXCEPT ![p].todo = @ \ {b}]
      PROVE  /\ proc' \in [Processes -> Proc]
             /\ \A q \in Processes : q # p => proc'[q] = proc[q]
             /\ proc'[p] = [proc[p] EXCEPT !.todo = @ \ {b}]
  <2> DEFINE r == [proc[p] EXCEPT !.todo = @ \ {b}]
  <2>1. proc' = [proc EXCEPT ![p] = r]
    BY <1>2 DEF TypeOK, Processes
  <2>2. proc[p] \in Proc /\ proc[p].todo \ {b} \in SUBSET Block
    BY DEF TypeOK, Proc, Processes
  <2>3. r \in Proc
    BY <2>2, UpdTodo
  <2> QED BY <2>1, <2>3 DEF TypeOK, Processes
<1> QED BY <1>1, <1>2 DEF Copy

LEMMA CopiedEffect ==
  ASSUME TypeOK, NEW p \in Processes, Copied(p)
  PROVE  /\ proc' \in [Processes -> Proc]
         /\ \A q \in Processes : q # p => proc'[q] = proc[q]
         /\ proc'[p] = [proc[p] EXCEPT !.pc = IF p = "worker" THEN "reap" ELSE "sweep",
                                       !.ok = p = "xapi"]
<1> DEFINE r == [proc[p] EXCEPT !.pc = IF p = "worker" THEN "reap" ELSE "sweep",
                                !.ok = p = "xapi"]
<1>1. proc' = [proc EXCEPT ![p] = r]
  BY DEF Copied, TypeOK, Processes
<1>2. r \in Proc
  <2>1. proc[p] \in Proc /\ {"reap", "sweep"} \subseteq Pc
    BY DEF TypeOK, Pc, Processes
  <2> QED BY <2>1, UpdOk
<1> QED BY <1>1, <1>2 DEF TypeOK, Processes

LEMMA ReapEffect ==
  ASSUME TypeOK, Control, Reap
  PROVE  /\ proc' \in [Processes -> Proc] /\ X' = X
         /\ W.iters + 1 \in 1 .. MaxPasses /\ W.to = W.iters + 1
         /\ W' = [W EXCEPT !.pc = "statR", !.base = W.to, !.iters = W.iters + 1,
                           !.conv = Converged, !.n = 0]
         /\ DOMAIN snaps \ {W.base} \subseteq DOMAIN snaps'
         /\ DOMAIN snaps' \subseteq DOMAIN snaps
         /\ \A k \in DOMAIN snaps' : snaps'[k] = snaps[k]
<1> DEFINE r == [W EXCEPT !.pc = "statR", !.base = W.to, !.iters = W.iters + 1,
                          !.conv = Converged, !.n = 0]
<1>1. W.iters + 1 \in 1 .. MaxPasses /\ W.to = W.iters + 1
  BY Typed, MirrorAssumption DEF Control, Reap, Proc
<1>2. proc' = [proc EXCEPT !["worker"] = r]
  BY DEF Reap, TypeOK, W
<1>3. Converged \in BOOLEAN
  BY Typed DEF Converged, Proc
<1>4. r \in Proc
  <2>1. /\ W \in Proc /\ "statR" \in Pc /\ W.iters + 1 \in 0 .. MaxPasses
        /\ 0 \in 0 .. Cardinality(Block)
    BY <1>1, Typed, FS_CardinalityType, MirrorAssumption DEF Pc
  <2> QED BY <1>1, <1>3, <2>1, UpdReap
<1>5. /\ DOMAIN snaps \ {W.base} \subseteq DOMAIN snaps'
      /\ DOMAIN snaps' \subseteq DOMAIN snaps
      /\ \A k \in DOMAIN snaps' : snaps'[k] = snaps[k]
  BY DEF Reap, SnapsKept
<1> QED BY <1>1, <1>2, <1>4, <1>5, SetProc DEF Processes

LEMMA ReadStatusEffect ==
  ASSUME TypeOK, NEW p \in Processes, NEW from, NEW to \in Pc, ReadStatus(p, from, to)
  PROVE  /\ proc' \in [Processes -> Proc]
         /\ \A q \in Processes : q # p => proc'[q] = proc[q]
         /\ proc'[p] = [proc[p] EXCEPT !.pc = to, !.st = status,
                          !.loose = proc[p].loose \/ (p = "worker" /\ Recording)]
<1> DEFINE l == proc[p].loose \/ (p = "worker" /\ Recording)
           r == [proc[p] EXCEPT !.pc = to, !.st = status, !.loose = l]
<1>1. proc' = [proc EXCEPT ![p] = r]
  BY DEF ReadStatus, TypeOK, Processes
<1>2. l \in BOOLEAN
  OBVIOUS
<1>3. r \in Proc
  <2> HIDE DEF l
  <2> QED BY <1>2, UpdRead DEF TypeOK, Processes
<1>4. /\ proc' \in [Processes -> Proc] /\ proc'[p] = r
      /\ \A q \in Processes : q # p => proc'[q] = proc[q]
  <2> HIDE DEF r
  <2> QED BY <1>1, <1>3 DEF TypeOK, Processes
<1> QED BY <1>4

LEMMA ReplaceStatusEffect ==
  ASSUME TypeOK, NEW p \in Processes, NEW from, NEW to \in Pc, NEW raised \in Pc,
         NEW st \in Status, ReplaceStatus(p, from, to, st, raised)
  PROVE  /\ proc' \in [Processes -> Proc]
         /\ \A q \in Processes : q # p => proc'[q] = proc[q]
         /\ proc'[p] = [proc[p] EXCEPT !.pc = IF job THEN to ELSE raised,
                                       !.st = NoStatus]
         /\ status' = IF job THEN st ELSE status
         /\ status' \in Status
<1> DEFINE r == [proc[p] EXCEPT !.pc = IF job THEN to ELSE raised, !.st = NoStatus]
<1>1. proc' = [proc EXCEPT ![p] = r]
  BY DEF ReplaceStatus, TypeOK, Processes
<1>2. NoStatus \in Status
  BY MirrorAssumption DEF NoStatus, Status, NoBase
<1>3. r \in Proc
  BY <1>2, UpdSt DEF TypeOK, Processes
<1>4. status' = (IF job THEN st ELSE status) /\ status' \in Status
  BY DEF ReplaceStatus, TypeOK
<1>5. /\ proc' \in [Processes -> Proc] /\ proc'[p] = r
      /\ \A q \in Processes : q # p => proc'[q] = proc[q]
  <2> HIDE DEF r
  <2> QED BY <1>1, <1>3 DEF TypeOK, Processes
<1> QED BY <1>4, <1>5

LEMMA OffTyped == Off \in Proc /\ NoStatus \in Status
BY MirrorAssumption, FS_CardinalityType
   DEF Off, Proc, Pc, NoStatus, Status, NoBase, Final

LEMMA MirrorEffect ==
  ASSUME TypeOK, Mirror
  PROVE  /\ proc' \in [Processes -> Proc]
         /\ W' = [W EXCEPT !.pc = "loop"] /\ X' = [X EXCEPT !.pc = "pidR"]
<1> DEFINE w == [W EXCEPT !.pc = "loop"]
           x == [X EXCEPT !.pc = "pidR"]
<1>1. proc' = [[proc EXCEPT !["worker"] = w] EXCEPT !["xapi"] = x]
  BY DEF Mirror, TypeOK, W, X
<1>2. w \in Proc /\ x \in Proc
  BY Typed, UpdPc DEF Pc
<1> HIDE DEF w, x
<1>3. proc' \in [Processes -> Proc] /\ W' = w /\ X' = x
  BY <1>1, <1>2 DEF TypeOK, W, X, Processes
<1> QED BY <1>3 DEF w, x

LEMMA DetachEffect ==
  ASSUME TypeOK, Detach
  PROVE  /\ proc' \in [Processes -> Proc] /\ W' = W
         /\ \/ Finalizes /\ X' = [Off EXCEPT !.pc = "finR", !.op = "finalize"]
            \/ ~Finalizes /\ X' = [Off EXCEPT !.pc = "stop", !.op = "cancel"]
<1> DEFINE f == [Off EXCEPT !.pc = "finR", !.op = "finalize"]
           c == [Off EXCEPT !.pc = "stop", !.op = "cancel"]
<1>1. f \in Proc /\ c \in Proc
  BY OffTyped DEF Proc, Pc
<1>2. \E r \in {f, c} : /\ r = IF Finalizes THEN f ELSE c
                        /\ proc' = [proc EXCEPT !["xapi"] = r]
  BY DEF Detach
<1> QED BY <1>1, <1>2, SetProc DEF Processes

LEMMA FinReadEffect ==
  ASSUME TypeOK, FinRead
  PROVE  /\ proc' \in [Processes -> Proc] /\ W' = W
         /\ \/ status.finalized /\ X' = Off /\ result' = "skipped"
            \/ /\ ~status.finalized /\ UNCHANGED result
               /\ X' = [X EXCEPT !.pc = "markR", !.base = status.base]
<1> DEFINE r == [X EXCEPT !.pc = "markR", !.base = status.base]
<1>1. CASE status.finalized
  BY <1>1, OffTyped, SetProc DEF FinRead, Processes
<1>2. CASE ~status.finalized
  <2>1. proc' = [proc EXCEPT !["xapi"] = r]
    BY <1>2 DEF FinRead, TypeOK, X
  <2>2. "markR" \in Pc /\ status.base \in 0 .. MaxPasses
    BY DEF TypeOK, Status, Pc
  <2>3. r \in Proc
    BY <2>2, Typed, UpdBase
  <2> QED BY <1>2, <2>1, <2>3, SetProc DEF FinRead, Processes
<1> QED BY <1>1, <1>2

LEMMA StopWorkerEffect ==
  ASSUME TypeOK, StopWorker
  PROVE  /\ proc' \in [Processes -> Proc] /\ W' = W
         /\ X' = [X EXCEPT !.pc = IF status.pid THEN "wait" ELSE AfterStop]
<1>1. (IF status.pid THEN "wait" ELSE AfterStop) \in Pc
  BY DEF AfterStop, Pc
<1> QED BY <1>1, GotoEffect DEF StopWorker, Processes

LEMMA WorkerGoneEffect ==
  ASSUME TypeOK, WorkerGone
  PROVE  /\ proc' \in [Processes -> Proc] /\ W' = W
         /\ X' = [X EXCEPT !.pc = AfterStop]
<1>1. AfterStop \in Pc
  BY DEF AfterStop, Pc
<1> QED BY <1>1, GotoEffect DEF WorkerGone, Processes

LEMMA FinalSnapEffect ==
  ASSUME TypeOK, FinalSnap
  PROVE  /\ proc' \in [Processes -> Proc] /\ W' = W
         /\ \/ /\ SnapCreated(Final)
               /\ X' = [X EXCEPT !.pc = "diff", !.to = Final]
            \/ X' = [X EXCEPT !.pc = "sweep"] /\ UNCHANGED snaps
<1> DEFINE r == [X EXCEPT !.pc = "diff", !.to = Final]
<1>1. CASE Raise("xapi") /\ UNCHANGED snaps
  BY <1>1, RaiseEffect DEF Processes
<1>2. CASE /\ SnapCreated(Final)
           /\ proc' = [proc EXCEPT !["xapi"].pc = "diff", !["xapi"].to = Final]
  <2>1. proc' = [proc EXCEPT !["xapi"] = r]
    BY <1>2 DEF TypeOK, X
  <2>2. "diff" \in Pc /\ Final \in 0 .. Final
    BY MirrorAssumption DEF Pc, Final
  <2>3. r \in Proc
    BY <2>2, Typed, UpdTo
  <2> QED BY <1>2, <2>1, <2>3, SetProc DEF Processes
<1> QED BY <1>1, <1>2 DEF FinalSnap

LEMMA SweepEffect ==
  ASSUME TypeOK, Sweep
  PROVE  /\ proc' \in [Processes -> Proc] /\ W' = W
         /\ \E K \in SUBSET DOMAIN snaps : SnapsKept(K)
         /\ \/ X' = [X EXCEPT !.pc = "rm", !.swept = TRUE] /\ DOMAIN snaps' = {}
            \/ X' = [X EXCEPT !.pc = "rm"]
<1> DEFINE r == [X EXCEPT !.pc = "rm", !.swept = TRUE]
<1>1. CASE /\ SnapsKept(DOMAIN snaps \ Swept)
           /\ proc' = [proc EXCEPT !["xapi"].pc = "rm", !["xapi"].swept = TRUE]
  <2>1. proc' = [proc EXCEPT !["xapi"] = r]
    BY <1>1 DEF TypeOK, X
  <2>2. "rm" \in Pc
    BY DEF Pc
  <2>3. r \in Proc
    BY <2>2, Typed, UpdSwept
  <2>4. SnapsKept({}) /\ DOMAIN snaps' = {}
    BY <1>1 DEF SnapsKept, Swept
  <2>5. proc' \in [Processes -> Proc] /\ W' = W /\ X' = r
    BY <2>1, <2>3, SetProc DEF Processes
  <2> QED BY <2>4, <2>5
<1>2. CASE Goto("xapi", "rm") /\ \E K \in SUBSET DOMAIN snaps : SnapsKept(K)
  BY <1>2, GotoEffect DEF Processes, Pc
<1> QED BY <1>1, <1>2 DEF Sweep

LEMMA RmStateEffect ==
  ASSUME TypeOK, RmState
  PROVE  /\ proc' \in [Processes -> Proc] /\ W' = W
         /\ X' = [X EXCEPT !.pc = "off"]
BY GotoEffect DEF RmState, Processes, Pc

LEMMA CallKilledEffect ==
  ASSUME TypeOK, CallKilled
  PROVE  /\ proc' \in [Processes -> Proc] /\ X' = Off
         /\ W' = [W EXCEPT !.loose = W.loose \/ Recording]
<1> DEFINE l == W.loose \/ Recording
           w == [W EXCEPT !.loose = l]
<1>1. proc' = [[proc EXCEPT !["worker"] = w] EXCEPT !["xapi"] = Off]
  BY DEF CallKilled, TypeOK, W, X
<1>2. l \in BOOLEAN
  OBVIOUS
<1>3. w \in Proc /\ Off \in Proc
  <2> HIDE DEF l
  <2> QED BY <1>2, Typed, UpdLoose, OffTyped
<1> HIDE DEF w
<1>4. proc' \in [Processes -> Proc] /\ W' = w /\ X' = Off
  BY <1>1, <1>3 DEF TypeOK, W, X, Processes
<1> QED BY <1>4 DEF w

\* Of a worker that does not become loose, the whole record stays.
LEMMA CallKilledTight ==
  ASSUME TypeOK, CallKilled, ~W'.loose
  PROVE  W' = W /\ ~Recording
<1>1. W' = [W EXCEPT !.loose = W.loose \/ Recording] /\ W \in Proc
  BY CallKilledEffect, Typed
<1>2. ~W.loose /\ ~Recording
  BY <1>1 DEF Proc
<1> QED BY <1>1, <1>2 DEF Proc

LEMMA KilledEffect ==
  ASSUME TypeOK, Killed
  PROVE  /\ proc' \in [Processes -> Proc] /\ X' = X
         /\ W' = [W EXCEPT !.pc = "off"]
BY GotoEffect DEF Killed, Processes, Pc

------------------------------------------------------------------------------
\* The statuses that are written are statuses.
LEMMA Written ==
  ASSUME TypeOK
  PROVE  /\ PassStatus \in Status /\ FailStatus \in Status
         /\ [X.st EXCEPT !.pid = TRUE] \in Status
         /\ [X.st EXCEPT !.finalized = TRUE] \in Status
<1>1. /\ W.st \in Status /\ X.st \in Status
      /\ W.base \in 0 .. MaxPasses /\ W.conv \in BOOLEAN
  BY Typed DEF Proc
<1> QED BY <1>1 DEF PassStatus, FailStatus, Status

LEMMA SnapTyped ==
  ASSUME TypeOK, NEW k \in 1 .. Final, SnapCreated(k)
  PROVE  /\ DOMAIN snaps' = DOMAIN snaps \cup {k}
         /\ DOMAIN snaps' \subseteq 1 .. Final
         /\ snaps'[k] = disk
         /\ \A j \in DOMAIN snaps : j # k => snaps'[j] = snaps[j]
         /\ \A j \in DOMAIN snaps' : snaps'[j] \in [Block -> Stamp]
BY DEF SnapCreated, TypeOK

\* Every step keeps the types.
LEMMA TypeStep ==
  ASSUME TypeOK, Control, [Next]_vars
  PROVE  TypeOK'
<1> USE DEF Processes
<1>1. CASE GuestStep
  BY <1>1, MirrorAssumption DEF GuestStep, Request, TypeOK, Stamp
<1>2. CASE Pass
  <2>1. proc' \in [Processes -> Proc] /\ faults' \in 0 .. MaxFaults
    BY <1>2, PassEffect, FaultTyped DEF Pass
  <2>2. /\ DOMAIN snaps' \subseteq 1 .. Final
        /\ \A k \in DOMAIN snaps' : snaps'[k] \in [Block -> Stamp]
    <3>1. CASE UNCHANGED snaps
      BY <3>1 DEF TypeOK
    <3>2. CASE W.iters < MaxPasses /\ SnapCreated(W.iters + 1)
      <4>1. W.iters + 1 \in 1 .. Final
        BY <3>2, Typed, MirrorAssumption DEF Proc, Final
      <4> QED BY <3>2, <4>1, SnapTyped
    <3> QED BY <3>1, <3>2, <1>2, PassEffect
  <2> QED BY <1>2, <2>1, <2>2 DEF Pass, TypeOK, guestVars
<1>3. ASSUME NEW p \in Processes, Diff(p) PROVE TypeOK'
  <2>1. proc' \in [Processes -> Proc] /\ faults' \in 0 .. MaxFaults
    BY <1>3, DiffEffect, FaultTyped DEF Diff
  <2> QED BY <1>3, <2>1 DEF Diff, TypeOK, guestVars
<1>4. ASSUME NEW p \in Processes, Copy(p) PROVE TypeOK'
  <2>1. proc' \in [Processes -> Proc] /\ faults' \in 0 .. MaxFaults
    BY <1>4, CopyEffect, FaultTyped DEF Copy
  <2>2. dest' \in [Block -> 0 .. MaxWrites]
    <3>1. ASSUME NEW b \in proc[p].todo, proc[p].to \in DOMAIN snaps,
                 dest' = [dest EXCEPT ![b] = snaps[proc[p].to][b]]
          PROVE  dest' \in [Block -> 0 .. MaxWrites]
      <4>1. b \in Block
        BY DEF TypeOK, Proc
      <4>2. snaps[proc[p].to][b] > 0
        BY <3>1, <1>4 DEF Control, CopiesData, Copy, W, X
      <4>3. snaps[proc[p].to][b] \in Stamp
        BY <3>1, <4>1 DEF TypeOK
      <4>4. snaps[proc[p].to][b] \in 0 .. MaxWrites
        BY <4>2, <4>3, MirrorAssumption DEF Stamp
      <4> QED BY <3>1, <4>1, <4>4 DEF TypeOK
    <3> QED BY <3>1, <1>4, CopyEffect DEF TypeOK
  <2> QED BY <1>4, <2>1, <2>2 DEF Copy, TypeOK, guestVars
<1>5. ASSUME NEW p \in Processes, Copied(p) PROVE TypeOK'
  BY <1>5, CopiedEffect, ZenonT(30) DEF Copied, TypeOK, guestVars
<1>6. CASE Reap
  <2>1. proc' \in [Processes -> Proc] /\ faults' \in 0 .. MaxFaults
    BY <1>6, ReapEffect, FaultTyped DEF Reap
  <2>2. /\ DOMAIN snaps' \subseteq 1 .. Final
        /\ \A k \in DOMAIN snaps' : snaps'[k] \in [Block -> Stamp]
    BY <1>6, ReapEffect DEF TypeOK
  <2> QED BY <1>6, <2>1, <2>2 DEF Reap, TypeOK, guestVars
<1>7. ASSUME NEW p \in Processes, NEW from, NEW to \in Pc, ReadStatus(p, from, to)
      PROVE  TypeOK'
  BY <1>7, ReadStatusEffect DEF ReadStatus, TypeOK, guestVars
<1>8. ASSUME NEW p \in Processes, NEW from, NEW to \in Pc, NEW raised \in Pc,
             NEW st \in Status, ReplaceStatus(p, from, to, st, raised)
      PROVE  TypeOK'
  <2>1. proc' \in [Processes -> Proc] /\ status' \in Status
    BY <1>8, ReplaceStatusEffect
  <2> QED BY <1>8, <2>1 DEF ReplaceStatus, TypeOK, guestVars
<1>9. CASE Killed
  BY <1>9, KilledEffect, FaultTyped DEF Killed, TypeOK, guestVars
<1>10. CASE Mirror
  <2>1. status' \in Status
    <3>1. NoBase \in 0 .. MaxPasses /\ status \in Status
      BY MirrorAssumption DEF NoBase, TypeOK
    <3> QED BY <1>10, <3>1, UpdStatus DEF Mirror
  <2> QED BY <1>10, <2>1, MirrorEffect DEF Mirror, TypeOK, guestVars
<1>11. CASE Stat \/ Pause
  BY <1>11 DEF Stat, StatAnswer, Pause, TypeOK, guestVars
<1>12. CASE Detach
  BY <1>12, DetachEffect DEF Detach, TypeOK, guestVars
<1>13. CASE FinRead
  BY <1>13, FinReadEffect DEF FinRead, TypeOK, guestVars
<1>14. CASE StopWorker
  BY <1>14, StopWorkerEffect DEF StopWorker, TypeOK, guestVars
<1>15. CASE WorkerGone
  BY <1>15, WorkerGoneEffect DEF WorkerGone, TypeOK, guestVars
<1>16. CASE FinalSnap
  <2>1. proc' \in [Processes -> Proc] /\ faults' \in 0 .. MaxFaults
    BY <1>16, FinalSnapEffect, FaultTyped DEF FinalSnap
  <2>2. Final \in 1 .. Final
    BY MirrorAssumption DEF Final
  <2>3. /\ DOMAIN snaps' \subseteq 1 .. Final
        /\ \A k \in DOMAIN snaps' : snaps'[k] \in [Block -> Stamp]
    BY <1>16, <2>2, FinalSnapEffect, SnapTyped DEF TypeOK
  <2> QED BY <1>16, <2>1, <2>3 DEF FinalSnap, TypeOK, guestVars
<1>17. CASE Sweep
  <2>1. proc' \in [Processes -> Proc] /\ faults' \in 0 .. MaxFaults
    BY <1>17, SweepEffect, FaultTyped DEF Sweep
  <2>2. /\ DOMAIN snaps' \subseteq 1 .. Final
        /\ \A k \in DOMAIN snaps' : snaps'[k] \in [Block -> Stamp]
    BY <1>17, SweepEffect DEF SnapsKept, TypeOK
  <2> QED BY <1>17, <2>1, <2>2 DEF Sweep, TypeOK, guestVars
<1>18. CASE RmState
  BY <1>18, RmStateEffect, OffTyped DEF RmState, TypeOK, guestVars
<1>19. CASE CallKilled
  BY <1>19, CallKilledEffect, FaultTyped DEF CallKilled, TypeOK, guestVars
<1>20. CASE UNCHANGED vars
  BY <1>20 DEF vars, TypeOK
<1>21. CASE WorkerStep
  <2>1. /\ {"statW", "loop", "failR", "failW", "off"} \subseteq Pc
        /\ PassStatus \in Status /\ FailStatus \in Status
    BY Written DEF Pc
  <2> QED BY <1>21, <2>1, <1>2, <1>3, <1>4, <1>5, <1>6, <1>7, <1>8 DEF WorkerStep
<1>22. CASE XapiStep
  <2>1. /\ {"pidW", "markW", "stop", "off"} \subseteq Pc
        /\ [X.st EXCEPT !.pid = TRUE] \in Status
        /\ [X.st EXCEPT !.finalized = TRUE] \in Status
    BY Written DEF Pc
  <2> QED BY <1>22, <2>1, <1>3, <1>4, <1>5, <1>7, <1>8, <1>10, <1>11, <1>12,
             <1>13, <1>14, <1>15, <1>16, <1>17, <1>18 DEF XapiStep
<1> QED BY <1>1, <1>9, <1>19, <1>20, <1>21, <1>22 DEF Next

\* The copying actions, for the worker and for finalize.
LEMMA DiffWorker ==
  ASSUME TypeOK, Diff("worker")
  PROVE  /\ X' = X /\ W.pc = "diff"
         /\ \/ /\ W.to \in DOMAIN snaps /\ W.base \in DOMAIN snaps \cup {NoBase}
               /\ \E E \in SUBSET Block :
                    /\ E = Extents(W.base, snaps[W.to])
                    /\ W' = [W EXCEPT !.pc = "copy", !.todo = E, !.n = Cardinality(E)]
            \/ W' = [W EXCEPT !.pc = "failR"]
BY DiffEffect DEF Diff, W, X, Processes

LEMMA DiffXapi ==
  ASSUME TypeOK, Diff("xapi")
  PROVE  /\ W' = W /\ X.pc = "diff"
         /\ \/ /\ X.to \in DOMAIN snaps /\ X.base \in DOMAIN snaps \cup {NoBase}
               /\ \E E \in SUBSET Block :
                    /\ E = Extents(X.base, snaps[X.to])
                    /\ X' = [X EXCEPT !.pc = "copy", !.todo = E, !.n = Cardinality(E)]
            \/ X' = [X EXCEPT !.pc = "sweep"]
BY DiffEffect DEF Diff, W, X, Processes

LEMMA CopyWorker ==
  ASSUME TypeOK, Control, Copy("worker")
  PROVE  /\ X' = X /\ W.pc = "copy"
         /\ \/ /\ W.to \in DOMAIN snaps
               /\ \E b \in W.todo : /\ dest' = [dest EXCEPT ![b] = snaps[W.to][b]]
                                    /\ W' = [W EXCEPT !.todo = W.todo \ {b}]
            \/ W' = [W EXCEPT !.pc = "failR"] /\ UNCHANGED dest
BY CopyEffect DEF Copy, W, X, Processes

LEMMA CopyXapi ==
  ASSUME TypeOK, Control, Copy("xapi")
  PROVE  /\ W' = W /\ X.pc = "copy"
         /\ \/ /\ X.to \in DOMAIN snaps
               /\ \E b \in X.todo : /\ dest' = [dest EXCEPT ![b] = snaps[X.to][b]]
                                    /\ X' = [X EXCEPT !.todo = X.todo \ {b}]
            \/ X' = [X EXCEPT !.pc = "sweep"] /\ UNCHANGED dest
BY CopyEffect DEF Copy, W, X, Processes

LEMMA CopiedWorker ==
  ASSUME TypeOK, Copied("worker")
  PROVE  /\ X' = X /\ W.pc = "copy" /\ W.todo = {}
         /\ W' = [W EXCEPT !.pc = "reap", !.ok = FALSE]
BY CopiedEffect DEF Copied, W, X, Processes

LEMMA CopiedXapi ==
  ASSUME TypeOK, Copied("xapi")
  PROVE  /\ W' = W /\ X.pc = "copy" /\ X.todo = {}
         /\ X' = [X EXCEPT !.pc = "sweep", !.ok = TRUE]
BY CopiedEffect DEF Copied, W, X, Processes

\* A status read or written leaves what the process works on alone.
SameWork(r, s) ==
  /\ s.op = r.op /\ s.base = r.base /\ s.to = r.to /\ s.todo = r.todo
  /\ s.iters = r.iters /\ s.conv = r.conv /\ s.ok = r.ok /\ s.swept = r.swept

LEMMA ReadWorker ==
  ASSUME TypeOK, NEW from, NEW to \in Pc, ReadStatus("worker", from, to)
  PROVE  /\ X' = X /\ W.pc = from /\ W'.pc = to /\ W'.st = status
         /\ SameWork(W, W') /\ W'.loose = (W.loose \/ Recording)
<1>1. /\ X' = X /\ W.pc = from
      /\ W' = [W EXCEPT !.pc = to, !.st = status, !.loose = W.loose \/ Recording]
  BY ReadStatusEffect DEF ReadStatus, W, X, Processes
<1> QED BY <1>1, Typed DEF Proc, SameWork

LEMMA ReadXapi ==
  ASSUME TypeOK, NEW from, NEW to \in Pc, ReadStatus("xapi", from, to)
  PROVE  W' = W /\ X.pc = from /\ X'.pc = to /\ X'.st = status /\ SameWork(X, X')
<1>1. /\ W' = W /\ X.pc = from
      /\ \E b : X' = [X EXCEPT !.pc = to, !.st = status, !.loose = b]
  BY ReadStatusEffect DEF ReadStatus, W, X, Processes
<1> QED BY <1>1, Typed DEF Proc, SameWork

LEMMA ReplaceWorker ==
  ASSUME TypeOK, NEW from, NEW to \in Pc, NEW raised \in Pc, NEW st \in Status,
         ReplaceStatus("worker", from, to, st, raised)
  PROVE  /\ X' = X /\ W.pc = from /\ W'.st = NoStatus /\ SameWork(W, W')
         /\ W'.loose = W.loose
         /\ \/ job /\ status' = st /\ W'.pc = to
            \/ ~job /\ status' = status /\ W'.pc = raised
<1>1. /\ X' = X /\ W.pc = from
      /\ \/ job /\ status' = st /\ W' = [W EXCEPT !.pc = to, !.st = NoStatus]
         \/ /\ ~job /\ status' = status
            /\ W' = [W EXCEPT !.pc = raised, !.st = NoStatus]
  BY ReplaceStatusEffect DEF ReplaceStatus, W, X, Processes
<1> QED BY <1>1, Typed DEF Proc, SameWork

LEMMA ReplaceXapi ==
  ASSUME TypeOK, NEW from, NEW to \in Pc, NEW raised \in Pc, NEW st \in Status,
         ReplaceStatus("xapi", from, to, st, raised)
  PROVE  /\ W' = W /\ X.pc = from /\ X'.st = NoStatus /\ SameWork(X, X')
         /\ \/ job /\ status' = st /\ X'.pc = to
            \/ ~job /\ status' = status /\ X'.pc = raised
<1>1. /\ W' = W /\ X.pc = from
      /\ \/ job /\ status' = st /\ X' = [X EXCEPT !.pc = to, !.st = NoStatus]
         \/ /\ ~job /\ status' = status
            /\ X' = [X EXCEPT !.pc = raised, !.st = NoStatus]
  BY ReplaceStatusEffect DEF ReplaceStatus, W, X, Processes
<1> QED BY <1>1, Typed DEF Proc, SameWork

------------------------------------------------------------------------------
\* Every step keeps Control.
LEMMA ControlPass ==
  ASSUME TypeOK, Control, Pass
  PROVE  Control'
<1>1. W \in Proc /\ X' = X
  BY Typed, PassEffect
<1>2. UNCHANGED <<job, result>> /\ W.pc = "loop"
  BY DEF Pass
<1>3. CASE UNCHANGED snaps /\ (W' = [W EXCEPT !.pc = "off"] \/ W' = [W EXCEPT !.pc = "failR"])
  BY <1>1, <1>2, <1>3 DEF Control, CopiesData, Proc
<1>4. CASE /\ W.iters < MaxPasses /\ SnapCreated(W.iters + 1)
           /\ W' = [W EXCEPT !.pc = "diff", !.to = W.iters + 1]
  <2>1. W.iters + 1 \in 1 .. Final /\ W.iters + 1 # Final
    BY <1>4, Typed, MirrorAssumption DEF Proc, Final
  <2>2. Final \in DOMAIN snaps' => Final \in DOMAIN snaps /\ snaps'[Final] = snaps[Final]
    BY <1>4, <2>1, SnapTyped
  <2>3. CopiesData(X)'
    BY <1>1, <2>2 DEF Control, CopiesData
  <2> QED BY <1>1, <1>2, <1>4, <2>3, Typed DEF Control, CopiesData, Proc
<1> QED BY <1>3, <1>4, PassEffect

LEMMA ControlCopying ==
  ASSUME TypeOK, Control,
         \E p \in Processes : Diff(p) \/ Copy(p) \/ Copied(p)
  PROVE  Control'
<1>1. W \in Proc /\ X \in Proc
  BY Typed
<1>2. UNCHANGED <<job, result, snaps>>
  BY DEF Diff, Copy, Copied
<1>3. CASE Diff("worker")
  <2>1. CASE W' = [W EXCEPT !.pc = "failR"]
    BY <1>1, <1>2, <1>3, <2>1, DiffWorker DEF Control, CopiesData, Proc
  <2>2. ASSUME NEW E \in SUBSET Block, E = Extents(W.base, snaps[W.to]),
               W' = [W EXCEPT !.pc = "copy", !.todo = E, !.n = Cardinality(E)]
        PROVE  Control'
    <3>1. /\ W'.pc = "copy" /\ W'.todo = E /\ W'.to = W.to
          /\ W'.base = W.base /\ W'.iters = W.iters
      BY <1>1, <2>2 DEF Proc
    <3>2. \A b \in E : snaps[W.to][b] > 0
      BY <2>2 DEF Extents
    <3> QED BY <1>2, <1>3, <3>1, <3>2, DiffWorker DEF Control, CopiesData
  <2> QED BY <1>3, <2>1, <2>2, DiffWorker
<1>4. CASE Diff("xapi")
  <2>1. CASE X' = [X EXCEPT !.pc = "sweep"]
    BY <1>1, <1>2, <1>4, <2>1, DiffXapi DEF Control, CopiesData, Proc, DetachPc
  <2>2. ASSUME NEW E \in SUBSET Block, E = Extents(X.base, snaps[X.to]),
               X' = [X EXCEPT !.pc = "copy", !.todo = E, !.n = Cardinality(E)]
        PROVE  Control'
    <3>1. /\ X'.pc = "copy" /\ X'.todo = E /\ X'.to = X.to /\ X'.op = X.op
      BY <1>1, <2>2 DEF Proc
    <3>2. \A b \in E : snaps[X.to][b] > 0
      BY <2>2 DEF Extents
    <3> QED BY <1>2, <1>4, <3>1, <3>2, DiffXapi DEF Control, CopiesData, DetachPc
  <2> QED BY <1>4, <2>1, <2>2, DiffXapi
<1>5. CASE Copy("worker")
  BY <1>1, <1>2, <1>5, CopyWorker DEF Control, CopiesData, Proc
<1>6. CASE Copy("xapi")
  BY <1>1, <1>2, <1>6, CopyXapi DEF Control, CopiesData, Proc, DetachPc
<1>7. CASE Copied("worker")
  BY <1>1, <1>2, <1>7, CopiedWorker DEF Control, CopiesData, Proc
<1>8. CASE Copied("xapi")
  BY <1>1, <1>2, <1>8, CopiedXapi DEF Control, CopiesData, Proc, DetachPc
<1> QED BY <1>3, <1>4, <1>5, <1>6, <1>7, <1>8 DEF Processes

LEMMA ControlStatus ==
  ASSUME TypeOK, Control,
         \/ ReadStatus("worker", "statR", "statW")
         \/ ReplaceStatus("worker", "statW", "loop", PassStatus, "failR")
         \/ ReadStatus("worker", "failR", "failW")
         \/ ReplaceStatus("worker", "failW", "off", FailStatus, "off")
         \/ ReadStatus("xapi", "pidR", "pidW")
         \/ ReplaceStatus("xapi", "pidW", "off", [X.st EXCEPT !.pid = TRUE], "off")
         \/ ReadStatus("xapi", "markR", "markW")
         \/ ReplaceStatus("xapi", "markW", "stop",
                          [X.st EXCEPT !.finalized = TRUE], "off")
  PROVE  Control'
<1>1. UNCHANGED <<job, result, snaps>>
  BY DEF ReadStatus, ReplaceStatus
<1>2. /\ {"loop", "off", "statW", "failR", "failW", "pidW", "markW", "stop"} \subseteq Pc
      /\ PassStatus \in Status /\ FailStatus \in Status
      /\ [X.st EXCEPT !.pid = TRUE] \in Status
      /\ [X.st EXCEPT !.finalized = TRUE] \in Status
  BY Written DEF Pc
<1>3. CASE \/ ReadStatus("worker", "statR", "statW")
           \/ ReadStatus("worker", "failR", "failW")
           \/ ReplaceStatus("worker", "statW", "loop", PassStatus, "failR")
           \/ ReplaceStatus("worker", "failW", "off", FailStatus, "off")
  <2>1. /\ X' = X /\ SameWork(W, W') /\ W.pc # "off"
        /\ W'.pc \in {"loop", "statW", "failW", "failR", "off"}
    BY <1>2, <1>3, ReadWorker, ReplaceWorker
  <2> QED BY <1>1, <2>1 DEF Control, CopiesData, SameWork
<1>4. CASE \/ ReadStatus("xapi", "pidR", "pidW")
           \/ ReplaceStatus("xapi", "pidW", "off", [X.st EXCEPT !.pid = TRUE], "off")
  <2>1. W' = W /\ SameWork(X, X') /\ X.pc \in {"pidR", "pidW"} /\ X'.pc \in {"off", "pidW"}
    BY <1>2, <1>4, ReadXapi, ReplaceXapi
  <2> QED BY <1>1, <2>1 DEF Control, CopiesData, SameWork, DetachPc
<1>5. CASE \/ ReadStatus("xapi", "markR", "markW")
           \/ ReplaceStatus("xapi", "markW", "stop",
                            [X.st EXCEPT !.finalized = TRUE], "off")
  <2>1. /\ W' = W /\ SameWork(X, X') /\ X.pc \in {"markR", "markW"}
        /\ X'.pc \in {"off", "markW", "stop"}
    BY <1>2, <1>5, ReadXapi, ReplaceXapi
  <2> QED BY <1>1, <2>1 DEF Control, CopiesData, SameWork, DetachPc
<1> QED BY <1>3, <1>4, <1>5

LEMMA ControlStep ==
  ASSUME TypeOK, Control, [Next]_vars
  PROVE  Control'
<1> USE Typed DEF DetachPc
<1>1. CASE GuestStep
  BY <1>1 DEF GuestStep, Request, Control, CopiesData, W, X
<1>2. CASE Reap
  <2>1. UNCHANGED <<job, result>>
    BY <1>2 DEF Reap
  <2>2. /\ W'.pc = "statR" /\ W'.base = W'.iters /\ X' = X
    BY <1>2, ReapEffect DEF Proc
  <2>3. CopiesData(X)'
    BY <1>2, ReapEffect DEF Control, CopiesData
  <2>4. job \/ result # "none"
    BY <1>2 DEF Reap, Control
  <2> QED BY <2>1, <2>2, <2>3, <2>4 DEF Control, CopiesData
<1>3. CASE Killed
  BY <1>3, KilledEffect DEF Killed, Control, CopiesData, Proc
<1>4. CASE Mirror
  BY <1>4, MirrorEffect, ZenonT(30) DEF Mirror, Control, CopiesData, Proc
<1>5. CASE Stat \/ Pause
  BY <1>5 DEF Stat, Pause, Control, CopiesData, W, X
<1>6. CASE Detach
  <2>1. /\ W' = W /\ X'.pc \in {"finR", "stop"} /\ X'.op # "none"
        /\ job /\ result = "none" /\ UNCHANGED <<job, result, snaps>>
    BY <1>6, DetachEffect DEF Detach, Off
  <2> QED BY <2>1 DEF Control, CopiesData
<1>7. CASE FinRead
  <2>1. W' = W /\ X.pc = "finR" /\ UNCHANGED <<job, snaps>>
    BY <1>7, FinReadEffect DEF FinRead
  <2>2. CASE X' = Off /\ result' = "skipped"
    BY <2>1, <2>2 DEF Control, CopiesData, Off
  <2>3. CASE X' = [X EXCEPT !.pc = "markR", !.base = status.base] /\ UNCHANGED result
    <3>1. X'.pc = "markR" /\ X'.op = X.op
      BY <2>3 DEF Proc
    <3> QED BY <2>1, <2>3, <3>1 DEF Control, CopiesData
  <2> QED BY <1>7, <2>2, <2>3, FinReadEffect
<1>8. CASE StopWorker
  BY <1>8, StopWorkerEffect DEF StopWorker, Control, CopiesData, Proc, AfterStop
<1>9. CASE WorkerGone
  BY <1>9, WorkerGoneEffect DEF WorkerGone, Control, CopiesData, Proc, AfterStop
<1>10. CASE FinalSnap
  <2>1. UNCHANGED <<job, result>> /\ W' = W /\ X.pc = "snap"
    BY <1>10, FinalSnapEffect DEF FinalSnap
  <2>2. CASE X' = [X EXCEPT !.pc = "sweep"] /\ UNCHANGED snaps
    BY <2>1, <2>2 DEF Control, CopiesData, Proc
  <2>3. CASE SnapCreated(Final) /\ X' = [X EXCEPT !.pc = "diff", !.to = Final]
    <3>1. Final \in 1 .. Final /\ \A k \in 0 .. MaxPasses : k # Final
      BY MirrorAssumption DEF Final
    <3>2. W.pc = "copy" => W.to # Final
      BY <3>1, MirrorAssumption DEF Control, Proc, Final
    <3>3. /\ DOMAIN snaps' = DOMAIN snaps \cup {Final}
          /\ \A k \in DOMAIN snaps : k # Final => snaps'[k] = snaps[k]
      BY <2>3, <3>1, SnapTyped
    <3>4. W.pc = "copy" /\ W.to \in DOMAIN snaps' =>
            W.to \in DOMAIN snaps /\ snaps'[W.to] = snaps[W.to]
      BY <3>2, <3>3
    <3>5. CopiesData(W)'
      BY <2>1, <3>4 DEF Control, CopiesData
    <3> QED BY <2>1, <2>3, <3>5 DEF Control, CopiesData, Proc
  <2> QED BY <1>10, <2>2, <2>3, FinalSnapEffect
<1>11. CASE Sweep
  <2>1. UNCHANGED <<job, result>> /\ W' = W /\ X.pc = "sweep" /\ X'.pc = "rm" /\ X'.op = X.op
    BY <1>11, SweepEffect DEF Sweep, Proc
  <2>2. \A k \in DOMAIN snaps' : k \in DOMAIN snaps /\ snaps'[k] = snaps[k]
    BY <1>11, SweepEffect DEF SnapsKept
  <2>3. CopiesData(W)'
    BY <2>1, <2>2 DEF Control, CopiesData
  <2> QED BY <2>1, <2>3 DEF Control, CopiesData
<1>12. CASE RmState
  BY <1>12, RmStateEffect, ZenonT(30) DEF RmState, Control, CopiesData, Proc
<1>13. CASE CallKilled
  <2>1. /\ X'.pc = "off" /\ X'.op = "none" /\ W'.pc = W.pc /\ W'.base = W.base
        /\ W'.iters = W.iters /\ W'.to = W.to /\ W'.todo = W.todo
        /\ UNCHANGED <<job, result, snaps>>
    BY <1>13, CallKilledEffect DEF CallKilled, Proc, Off
  <2> QED BY <2>1 DEF Control, CopiesData
<1>14. CASE UNCHANGED vars
  BY <1>14 DEF vars, Control, CopiesData, W, X
<1> QED BY <1>1, <1>2, <1>3, <1>4, <1>5, <1>6, <1>7, <1>8, <1>9, <1>10, <1>11,
           <1>12, <1>13, <1>14, ControlPass, ControlCopying, ControlStatus
        DEF Next, WorkerStep, XapiStep, Processes

------------------------------------------------------------------------------
\* What the worker leaves alone, and what it does to the status.
LEMMA WorkerReplaces ==
  ASSUME TypeOK, \/ ReplaceStatus("worker", "statW", "loop", PassStatus, "failR")
                 \/ ReplaceStatus("worker", "failW", "off", FailStatus, "off")
  PROVE  /\ X' = X /\ SameWork(W, W') /\ W'.st = NoStatus /\ W'.loose = W.loose
         /\ \/ W.pc = "statW" /\ job /\ status' = PassStatus /\ W'.pc = "loop"
            \/ W.pc = "failW" /\ job /\ status' = FailStatus /\ W'.pc = "off"
            \/ /\ W.pc \in {"statW", "failW"} /\ ~job /\ status' = status
               /\ W'.pc \in {"failR", "off"}
<1>1. {"loop", "off", "failR"} \subseteq Pc /\ PassStatus \in Status /\ FailStatus \in Status
  BY Written DEF Pc
<1>2. CASE ReplaceStatus("worker", "statW", "loop", PassStatus, "failR")
  BY <1>1, <1>2, ReplaceWorker
<1>3. CASE ReplaceStatus("worker", "failW", "off", FailStatus, "off")
  BY <1>1, <1>3, ReplaceWorker
<1> QED BY <1>2, <1>3

LEMMA WorkerFrame ==
  ASSUME TypeOK, Control, WorkerStep \/ Killed
  PROVE  X' = X /\ UNCHANGED <<disk, writes, guest, job, result, stop>>
<1> USE DEF guestVars
<1>1. CASE Pass
  BY <1>1, PassEffect DEF Pass
<1>2. CASE Diff("worker")
  BY <1>2, DiffWorker DEF Diff
<1>3. CASE Copy("worker")
  BY <1>3, CopyWorker DEF Copy
<1>4. CASE Copied("worker")
  BY <1>4, CopiedWorker DEF Copied
<1>5. CASE Reap
  BY <1>5, ReapEffect DEF Reap
<1>6. CASE \/ ReadStatus("worker", "statR", "statW")
           \/ ReadStatus("worker", "failR", "failW")
  BY <1>6, ReadWorker DEF ReadStatus, Pc
<1>7. CASE \/ ReplaceStatus("worker", "statW", "loop", PassStatus, "failR")
           \/ ReplaceStatus("worker", "failW", "off", FailStatus, "off")
  BY <1>7, WorkerReplaces DEF ReplaceStatus
<1>8. CASE Killed
  BY <1>8, KilledEffect DEF Killed
<1> QED BY <1>1, <1>2, <1>3, <1>4, <1>5, <1>6, <1>7, <1>8 DEF WorkerStep

LEMMA XapiReplaces ==
  ASSUME TypeOK, Control,
         \/ ReplaceStatus("xapi", "pidW", "off", [X.st EXCEPT !.pid = TRUE], "off")
         \/ ReplaceStatus("xapi", "markW", "stop",
                          [X.st EXCEPT !.finalized = TRUE], "off")
  PROVE  /\ W' = W /\ SameWork(X, X') /\ X'.st = NoStatus
         /\ \/ /\ X.pc = "pidW" /\ X'.pc = "off"
               /\ status' = [X.st EXCEPT !.pid = TRUE]
            \/ /\ X.pc = "markW" /\ X'.pc = "stop"
               /\ status' = [X.st EXCEPT !.finalized = TRUE]
<1>1. /\ {"off", "stop"} \subseteq Pc
      /\ [X.st EXCEPT !.pid = TRUE] \in Status
      /\ [X.st EXCEPT !.finalized = TRUE] \in Status
  BY Written DEF Pc
<1>2. X.pc # "off" => job
  BY DEF Control
<1>3. CASE ReplaceStatus("xapi", "pidW", "off", [X.st EXCEPT !.pid = TRUE], "off")
  BY <1>1, <1>2, <1>3, ReplaceXapi
<1>4. CASE ReplaceStatus("xapi", "markW", "stop",
                         [X.st EXCEPT !.finalized = TRUE], "off")
  BY <1>1, <1>2, <1>4, ReplaceXapi
<1> QED BY <1>3, <1>4

\* A loose worker stays loose.
LEMMA LooseStays ==
  ASSUME TypeOK, Control, [Next]_vars, ~W'.loose
  PROVE  ~W.loose
<1> USE Typed
<1>1. CASE Pass
  BY <1>1, PassEffect DEF Proc
<1>2. CASE Diff("worker")
  BY <1>2, DiffWorker DEF Proc
<1>3. CASE Copy("worker")
  BY <1>3, CopyWorker DEF Proc
<1>4. CASE Copied("worker") \/ Reap \/ Killed
  BY <1>4, CopiedWorker, ReapEffect, KilledEffect DEF Proc
<1>5. CASE \/ ReadStatus("worker", "statR", "statW")
           \/ ReadStatus("worker", "failR", "failW")
  BY <1>5, ReadWorker DEF Pc
<1>6. CASE \/ ReplaceStatus("worker", "statW", "loop", PassStatus, "failR")
           \/ ReplaceStatus("worker", "failW", "off", FailStatus, "off")
  BY <1>6, WorkerReplaces
<1>7. CASE GuestStep \/ Stat \/ Pause \/ UNCHANGED vars
  BY <1>7 DEF GuestStep, Request, Stat, Pause, vars, W
<1>8. CASE Mirror
  BY <1>8, MirrorEffect DEF Proc
<1>9. CASE CallKilled
  BY <1>9, CallKilledTight
<1>10. CASE \/ ReadStatus("xapi", "pidR", "pidW") \/ ReadStatus("xapi", "markR", "markW")
  BY <1>10, ReadXapi DEF Pc
<1>11. CASE \/ ReplaceStatus("xapi", "pidW", "off", [X.st EXCEPT !.pid = TRUE], "off")
            \/ ReplaceStatus("xapi", "markW", "stop",
                             [X.st EXCEPT !.finalized = TRUE], "off")
  BY <1>11, XapiReplaces
<1>12. CASE Detach \/ FinRead \/ StopWorker \/ WorkerGone \/ FinalSnap \/ Sweep \/ RmState
  BY <1>12, DetachEffect, FinReadEffect, StopWorkerEffect, WorkerGoneEffect,
     FinalSnapEffect, SweepEffect, RmStateEffect
<1>13. CASE Diff("xapi") \/ Copy("xapi") \/ Copied("xapi")
  BY <1>13, DiffXapi, CopyXapi, CopiedXapi
<1> QED BY <1>1, <1>2, <1>3, <1>4, <1>5, <1>6, <1>7, <1>8, <1>9, <1>10, <1>11,
           <1>12, <1>13 DEF Next, WorkerStep, XapiStep

\* While the worker does not become loose, every step keeps Stopped.
LEMMA StoppedWorker ==
  ASSUME TypeOK, Control, Stopped, ~W'.loose, WorkerStep \/ Killed
  PROVE  Stopped'
<1> USE Typed
<1>1. X.pc \notin {"snap", "diff", "copy", "sweep", "rm"} /\ job /\ ~X.swept
  BY DEF Stopped, WorkerStep, Killed, Pass, Diff, Copy, Copied, Reap, ReadStatus,
         ReplaceStatus, W
<1>2. UNCHANGED <<job, result>> /\ X' = X
  BY WorkerFrame
<1>3. CASE Pass
  <2>1. W'.pc \in {"off", "failR", "diff"} /\ UNCHANGED status
    BY <1>3, PassEffect DEF Pass, Proc
  <2> QED BY <1>1, <1>2, <1>3, <2>1 DEF Stopped, Pass
<1>4. CASE Diff("worker") \/ Copy("worker") \/ Copied("worker") \/ Reap
  <2>1. /\ W.pc \in {"diff", "copy", "reap"} /\ UNCHANGED status
        /\ W'.pc \in {"failR", "copy", "reap", "statR"}
    BY <1>4, DiffWorker, CopyWorker, CopiedWorker, ReapEffect
       DEF Diff, Copy, Copied, Reap, Proc
  <2> QED BY <1>1, <1>2, <2>1 DEF Stopped
<1>5. CASE \/ ReadStatus("worker", "statR", "statW")
           \/ ReadStatus("worker", "failR", "failW")
  <2>1. /\ W.pc \in {"statR", "failR"} /\ UNCHANGED status /\ W'.st = status
        /\ W'.pc \in {"statW", "failW"} /\ ~Recording
    BY <1>5, ReadWorker DEF ReadStatus, Pc
  <2> QED BY <1>1, <1>2, <2>1 DEF Stopped
<1>6. CASE \/ ReplaceStatus("worker", "statW", "loop", PassStatus, "failR")
           \/ ReplaceStatus("worker", "failW", "off", FailStatus, "off")
  <2>1. /\ W.pc \in {"statW", "failW"} /\ W'.pc \in {"loop", "off", "failR"}
        /\ status' \in {PassStatus, FailStatus, status}
    BY <1>6, WorkerReplaces
  <2>2. W.st.pid => PassStatus.pid /\ FailStatus.pid
    BY DEF PassStatus, FailStatus, Proc, Status
  <2> QED BY <1>1, <1>2, <2>1, <2>2 DEF Stopped
<1>7. CASE Killed
  <2>1. W'.pc = "off" /\ UNCHANGED status
    BY <1>7, KilledEffect DEF Killed, Proc
  <2> QED BY <1>1, <1>2, <2>1 DEF Stopped
<1> QED BY <1>3, <1>4, <1>5, <1>6, <1>7 DEF WorkerStep

LEMMA StoppedXapi ==
  ASSUME TypeOK, Control, Stopped, ~W'.loose, XapiStep \/ CallKilled
  PROVE  Stopped'
<1> USE Typed
<1>1. CASE Mirror
  <2>1. /\ W'.pc = "loop" /\ X'.pc = "pidR" /\ job' = TRUE /\ X'.swept = X.swept
        /\ UNCHANGED snaps /\ X.pc = "off" /\ ~job /\ result = "none"
    BY <1>1, MirrorEffect DEF Mirror, Proc
  <2> QED BY <2>1 DEF Stopped
<1>2. CASE Stat \/ Pause
  BY <1>2 DEF Stat, Pause, Stopped, W, X
<1>3. CASE Detach
  <2>1. /\ W' = W /\ X'.pc \in {"finR", "stop"} /\ ~X'.swept /\ job
        /\ X.pc = "off" /\ UNCHANGED <<job, status>>
    BY <1>3, DetachEffect DEF Detach, Off
  <2> QED BY <2>1 DEF Stopped
<1>4. CASE \/ ReadStatus("xapi", "pidR", "pidW")
           \/ ReadStatus("xapi", "markR", "markW")
  <2>1. /\ W' = W /\ X'.st = status /\ X'.swept = X.swept
        /\ \/ X.pc = "pidR" /\ X'.pc = "pidW"
           \/ X.pc = "markR" /\ X'.pc = "markW"
        /\ UNCHANGED <<job, status, snaps>>
    BY <1>4, ReadXapi DEF ReadStatus, Pc, SameWork
  <2> QED BY <2>1 DEF Stopped, Control
<1>5. CASE ReplaceStatus("xapi", "pidW", "off", [X.st EXCEPT !.pid = TRUE], "off")
  <2>1. /\ W' = W /\ X'.pc = "off" /\ X'.swept = X.swept /\ X.pc = "pidW"
        /\ status' = [X.st EXCEPT !.pid = TRUE] /\ UNCHANGED <<job, snaps>>
    BY <1>5, XapiReplaces DEF ReplaceStatus, SameWork, X
  <2>2. status'.pid
    BY <2>1 DEF Proc, Status
  <2> QED BY <2>1, <2>2 DEF Stopped
<1>6. CASE ReplaceStatus("xapi", "markW", "stop", [X.st EXCEPT !.finalized = TRUE], "off")
  <2>1. /\ W' = W /\ X'.pc = "stop" /\ X'.swept = X.swept /\ X.pc = "markW"
        /\ status' = [X.st EXCEPT !.finalized = TRUE] /\ UNCHANGED <<job, snaps>>
    BY <1>6, XapiReplaces DEF ReplaceStatus, SameWork, X
  <2>2. status'.pid = X.st.pid
    BY <2>1 DEF Proc, Status
  <2> QED BY <2>1, <2>2 DEF Stopped
<1>7. CASE FinRead
  <2>1. W' = W /\ X.pc = "finR" /\ UNCHANGED <<job, status, snaps>>
    BY <1>7, FinReadEffect DEF FinRead
  <2>2. CASE X' = Off
    BY <2>1, <2>2 DEF Stopped, Off
  <2>3. CASE X' = [X EXCEPT !.pc = "markR", !.base = status.base]
    <3>1. X'.pc = "markR" /\ X'.swept = X.swept
      BY <2>3 DEF Proc
    <3> QED BY <2>1, <3>1 DEF Stopped
  <2> QED BY <1>7, <2>2, <2>3, FinReadEffect
<1>8. CASE StopWorker
  <2>1. /\ W' = W /\ X.pc = "stop" /\ X'.pc = "wait" /\ X'.swept = X.swept
        /\ UNCHANGED <<job, status, snaps>>
    BY <1>8, StopWorkerEffect DEF StopWorker, Stopped, Control, Proc
  <2> QED BY <2>1 DEF Stopped
<1>9. CASE WorkerGone
  <2>1. /\ W' = W /\ W.pc = "off" /\ X.pc = "wait" /\ X'.pc \in {"snap", "sweep"} /\ X'.swept = X.swept
        /\ UNCHANGED <<job, status, snaps>>
    BY <1>9, WorkerGoneEffect DEF WorkerGone, AfterStop, Proc
  <2> QED BY <2>1 DEF Stopped
<1>10. CASE FinalSnap
  <2>1. /\ W' = W /\ X.pc = "snap" /\ X'.pc \in {"diff", "sweep"} /\ X'.swept = X.swept
        /\ UNCHANGED <<job, status>>
    BY <1>10, FinalSnapEffect DEF FinalSnap, Proc
  <2> QED BY <2>1 DEF Stopped
<1>11. CASE Diff("xapi") \/ Copy("xapi") \/ Copied("xapi")
  <2>1. /\ W' = W /\ X.pc \in {"diff", "copy"} /\ X'.swept = X.swept
        /\ X'.pc \in {"copy", "sweep"} /\ UNCHANGED <<job, status, snaps>>
    <3>1. CASE Diff("xapi")
      BY <3>1, DiffXapi DEF Diff, Proc
    <3>2. CASE Copy("xapi")
      BY <3>2, CopyXapi DEF Copy, Proc
    <3>3. CASE Copied("xapi")
      BY <3>3, CopiedXapi DEF Copied, Proc
    <3> QED BY <1>11, <3>1, <3>2, <3>3
  <2> QED BY <2>1 DEF Stopped
<1>12. CASE Sweep
  <2>1. /\ W' = W /\ X.pc = "sweep" /\ X'.pc = "rm" /\ UNCHANGED <<job, status>>
        /\ X'.swept => DOMAIN snaps' = {}
    BY <1>12, SweepEffect DEF Sweep, Proc, Stopped
  <2> QED BY <2>1 DEF Stopped
<1>13. CASE RmState
  <2>1. /\ W' = W /\ X.pc = "rm" /\ X'.pc = "off" /\ X'.swept = X.swept
        /\ job' = FALSE /\ result' # "none" /\ UNCHANGED snaps
    BY <1>13, RmStateEffect DEF RmState, Proc
  <2> QED BY <2>1 DEF Stopped
<1>14. CASE CallKilled
  <2>1. /\ W' = W /\ X'.pc = "off" /\ ~X'.swept /\ UNCHANGED <<job, status>>
        /\ ~Recording
    BY <1>14, CallKilledEffect, CallKilledTight DEF CallKilled, Off
  <2> QED BY <2>1 DEF Stopped
<1> QED BY <1>1, <1>2, <1>3, <1>4, <1>5, <1>6, <1>7, <1>8, <1>9, <1>10, <1>11,
           <1>12, <1>13, <1>14 DEF XapiStep

LEMMA StoppedStep ==
  ASSUME TypeOK, Control, Stopped, ~W'.loose, [Next]_vars
  PROVE  Stopped' /\ SnapsSwept'
<1>1. CASE GuestStep \/ UNCHANGED vars
  <2>1. W' = W /\ X' = X /\ UNCHANGED <<job, status, snaps, result>>
    BY <1>1 DEF GuestStep, Request, vars, W, X
  <2> QED BY <2>1 DEF Stopped, SnapsSwept
<1>2. Stopped'
  BY <1>1, StoppedWorker, StoppedXapi DEF Next
<1> QED BY <1>2 DEF Stopped, SnapsSwept
=============================================================================
