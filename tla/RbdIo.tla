-------------------------------- MODULE RbdIo --------------------------------
(* The data path of rbd.c: image requests, the object requests they are cut     *)
(* into, and the read, write and copyup state machines of an object request     *)
(* over a layered image with an object map and a snapshot.                      *)
(*                                                                             *)
(* Offsets count blocks. The OSDs are external: an op takes effect (OsdExec) and *)
(* its reply is handled later (Callback), so ops of requests interleave. The     *)
(* exclusive lock is RbdLock's: it is held while a request needs it.             *)
EXTENDS Naturals, Sequences, FiniteSets, FiniteSetsExt

CONSTANTS
    NumObjs,     \* objects of the image
    ObjBlocks,   \* blocks per object (layout.object_size)
    Parent,      \* content of the parent image, one value per block; 0 is zeroes
    AllocSize,   \* opts->alloc_size, in blocks
    Extents,     \* the <<offset, length>> that requests use, in blocks
    Slots,       \* requests in flight at once (blk-mq tags)
    MaxReqs,     \* bound: requests issued
    MaxFaults    \* bound: ops that fail

ASSUME IoConstants ==
    /\ NumObjs \in Nat \ {0} /\ ObjBlocks \in Nat \ {0}
    /\ AllocSize \in 1..ObjBlocks
    /\ \A ex \in Extents : ex[2] > 0 /\ ex[1] + ex[2] <= NumObjs * ObjBlocks

Objs == 0..(NumObjs - 1)
Size == NumObjs * ObjBlocks
Blocks == 0..(Size - 1)
Ops == {"READ", "WRITE", "DISCARD", "ZEROOUT"}
MapState == {"NONEXISTENT", "EXISTS", "PENDING", "CLEAN"}

VARIABLES
    feat,      \* "plain", or "map": exclusive-lock, object-map and fast-diff
    image,     \* the header object: its snapshots (0 or 1) and its parent overlap
    overlap,   \* rbd_dev->parent_overlap, in blocks
    snapc,     \* snapshots in header.snapc: 0 or 1
    obj,       \* obj[o]: the object at the OSDs: head, and clone of the snapshot
    osdmap,    \* the object map at the OSDs, per object
    snapmap,   \* the object map of the snapshot
    memmap,    \* rbd_dev->object_map
    req,       \* req[s]: the image request in slot s
    issued,    \* requests issued
    faults,
    content,   \* content[b]: what a reader of the image may get for block b
    misread,   \* a read has returned something else
    snapshot   \* the same for the snapshot, and its own parent overlap

vars == <<feat, image, overlap, snapc, obj, osdmap, snapmap, memmap, req, issued,
          faults, content, misread, snapshot>>

UseMap == feat = "map"

------------------------------------------------------------------------------
\* Objects at the OSDs. d holds the blocks up to the object's size; seq is the
\* snapshot sequence of its snap set, clone its state in the snapshot.

NoObject == [ex |-> FALSE, d |-> <<>>]
NewObj == [head |-> NoObject, seq |-> 0, clone |-> NoObject]

BlockOf(ob, i) == IF i < Len(ob.d) THEN ob.d[i + 1] ELSE 0

\* CEPH_OSD_OP_WRITE, _ZERO, _TRUNCATE on the blocks off .. off+len-1
PutBlocks(ob, off, len, v) ==
    [ex |-> TRUE,
     d |-> [i \in 1..Max({Len(ob.d), off + len}) |->
              IF i - 1 \in off..(off + len - 1) THEN v ELSE BlockOf(ob, i - 1)]]

ZeroBlocks(ob, off, len) ==
    [ob EXCEPT !.d = [i \in DOMAIN @ |->
                        IF i - 1 \in off..(off + len - 1) THEN 0 ELSE @[i]]]

Truncate(ob, off) == [ob EXCEPT !.d = SubSeq(@, 1, Min({off, Len(@)}))]

------------------------------------------------------------------------------
\* Object requests.

ParentBlock(b) == IF b < Len(Parent) THEN Parent[b + 1] ELSE 0

\* rbd_obj_calc_img_extents and prune_extents: how many blocks of the extent
\* (off, len) of object o are within the parent overlap ov.
Within(ov, o, off, len) ==
    LET start == o * ObjBlocks + off IN
    IF start >= ov THEN 0 ELSE Min({len, ov - start})

ImgExtents(o, off, len) == Within(overlap, o, off, len)

IsEntire(q) == q.off = 0 /\ q.len = ObjBlocks
IsTail(q) == q.off + q.len = ObjBlocks

\* rbd_obj_copyup_enabled
CopyupEnabled(q, snaps) == q.ext > 0 /\ ~(IsEntire(q) /\ snaps = 0)

NoObjReq ==
    [st |-> "none", cst |-> "none", off |-> 0, len |-> 0, ext |-> 0,
     deletion |-> FALSE, copyup |-> FALSE, zeros |-> FALSE, noop |-> FALSE,
     ops |-> <<>>, pending |-> 0, perr |-> "OK", result |-> "OK", buf |-> <<>>]

RoundUp(n) == ((n + AllocSize - 1) \div AllocSize) * AllocSize
RoundDown(n) == (n \div AllocSize) * AllocSize

\* RBD_OBJ_FLAG_DELETION, as rbd_obj_init_discard and _zeroout set it.
MarksDeletion(q, op) ==
    op \in {"DISCARD", "ZEROOUT"} /\ IsEntire(q) /\ q.ext = 0

\* ceph_file_to_extents and rbd_obj_init_read, _write, _discard, _zeroout: the
\* object request for object o, or NoObjReq when the image request does not
\* touch o or the discard is too small to free anything.
ObjReq(o, op, off, len, snaps) ==
    LET lo == Max({off, o * ObjBlocks})
        hi == Min({off + len, (o + 1) * ObjBlocks})
        q0 == [NoObjReq EXCEPT !.off = lo - o * ObjBlocks, !.len = hi - lo]
        align == op = "DISCARD" /\ (AllocSize # ObjBlocks \/ ~IsTail(q0))
        dlo == RoundUp(q0.off)
        dhi == RoundDown(q0.off + q0.len)
        q1 == IF align THEN [q0 EXCEPT !.off = dlo, !.len = dhi - dlo] ELSE q0
        q2 == [q1 EXCEPT !.ext = IF op = "READ" THEN 0
                                 ELSE ImgExtents(o, 0, ObjBlocks)] IN
    IF lo >= hi \/ (align /\ dlo >= dhi) THEN NoObjReq
    ELSE [q2 EXCEPT
            !.st = "START",
            !.copyup = op \in {"WRITE", "ZEROOUT"} /\ CopyupEnabled(q2, snaps),
            !.noop = op = "DISCARD" \/ (op = "ZEROOUT" /\ q2.ext = 0),
            !.deletion = MarksDeletion(q2, op)]

\* rbd_object_map_may_exist
MayExist(o) == ~UseMap \/ memmap[o] # "NONEXISTENT"

\* update_needed
UpdateNeeded(o, new) ==
    /\ memmap[o] # new
    /\ new = "PENDING" => memmap[o] # "NONEXISTENT"
    /\ new = "NONEXISTENT" => memmap[o] = "PENDING"

\* An op that has been submitted and not executed yet. A write carries the stat
\* guard, the length of its copyup data in blocks or ModsOnly, its snapshot
\* context, and whether it has the modification of the image request.
ModsOnly == ObjBlocks + 1

Op(k) ==
    [k |-> k, done |-> FALSE, result |-> "OK", data |-> <<>>,
     new |-> "none", cur |-> "none",
     guard |-> FALSE, copy |-> ModsOnly, snaps |-> 0, mods |-> FALSE]

MapOp(new, cur) == [Op("map") EXCEPT !.new = new, !.cur = cur]

WriteOp(guard, copy, snaps, mods) ==
    [Op("write") EXCEPT !.guard = guard, !.copy = copy, !.snaps = snaps,
                        !.mods = mods]

Send(q, ops) == [q EXCEPT !.ops = @ \o ops]

Finished(q, result) == [q EXCEPT !.st = "DONE", !.result = result]

------------------------------------------------------------------------------
\* The state machines, as what an object request becomes when it is advanced with
\* a result. o is its object, op and snaps come from its image request.

\* rbd_obj_advance_read
ReadParent(q, o, result) ==
    IF result # "OK" THEN Finished(q, result)
    ELSE [Finished(q, "OK") EXCEPT !.buf = [i \in 1..q.len |->
            IF i <= q.ext THEN ParentBlock(o * ObjBlocks + q.off + i - 1) ELSE 0]]

\* A missing object reads as zeroes, parent or not
ReadObjectZeroes(q, o, result, data) ==
    IF result = "ENOENT"
    THEN [Finished(q, "OK") EXCEPT !.buf = [i \in 1..q.len |-> 0]]
    ELSE [Finished(q, result) EXCEPT !.buf = [i \in 1..q.len |->
            IF i <= Len(data) THEN data[i] ELSE 0]]

ReadObject(q, o, result, data) ==
    LET ext == ImgExtents(o, q.off, q.len) IN
    IF result = "ENOENT" /\ overlap > 0 /\ ext > 0
    THEN Send([q EXCEPT !.ext = ext, !.st = "PARENT"], <<Op("parent")>>)
    ELSE IF result = "ENOENT"
    THEN [Finished(q, "OK") EXCEPT !.buf = [i \in 1..q.len |-> 0]]
    ELSE IF result = "OK"
    THEN [Finished(q, "OK") EXCEPT !.buf = [i \in 1..q.len |->
            IF i <= Len(data) THEN data[i] ELSE 0]]
    ELSE Finished(q, result)

ReadStart(q, o) ==
    IF ~MayExist(o) THEN ReadObject(q, o, "ENOENT", <<>>)
    ELSE Send([q EXCEPT !.st = "OBJECT"], <<Op("read")>>)

\* rbd_obj_advance_write from RBD_OBJ_WRITE_COPYUP on
WritePostMap(q, o, result) ==
    IF result # "OK" THEN Finished(q, result)
    ELSE IF UseMap /\ q.deletion /\ UpdateNeeded(o, "NONEXISTENT")
    THEN Send([q EXCEPT !.st = "POST_MAP"], <<MapOp("NONEXISTENT", "PENDING")>>)
    ELSE Finished(q, "OK")

\* The parent's data goes out with the modification, snapshots or not
CopyupWriteShallow(q, o, result, snaps) ==
    LET bytes == IF q.zeros THEN 0 ELSE q.ext IN
    IF result # "OK" THEN Finished(q, result)
    ELSE Send([q EXCEPT !.cst = "WRITE", !.pending = 1],
              <<WriteOp(FALSE, bytes, snaps, TRUE)>>)

\* rbd_obj_copyup_write_object: a deep copyup goes out with an empty snapshot
\* context first.
CopyupWrite(q, o, result, snaps) ==
    LET bytes == IF q.zeros THEN 0 ELSE q.ext
        ops == IF snaps > 0 /\ bytes > 0
               THEN <<WriteOp(FALSE, bytes, 0, FALSE),
                      WriteOp(FALSE, ModsOnly, snaps, TRUE)>>
               ELSE <<WriteOp(FALSE, bytes, snaps, TRUE)>> IN
    IF result # "OK" THEN Finished(q, result)
    ELSE Send([q EXCEPT !.cst = "WRITE", !.pending = Len(ops)], ops)

\* RBD_OBJ_COPYUP_READ_PARENT: the object maps of the snapshots come first.
CopyupMaps(q, o, result, snaps) ==
    LET zeros == \A i \in 0..(q.ext - 1) : ParentBlock(o * ObjBlocks + i) = 0
        z == [q EXCEPT !.zeros = zeros] IN
    IF result # "OK" THEN Finished(q, result)
    ELSE IF UseMap /\ ~zeros /\ snaps > 0
    THEN Send([z EXCEPT !.cst = "MAPS", !.pending = 1], <<Op("snapmap")>>)
    ELSE CopyupWrite(z, o, "OK", snaps)

\* rbd_obj_copyup_read_parent: the overlap may have shrunk to nothing meanwhile. A
\* zeroout of the entire object would then delete it, and the assertion that it was
\* marked as a deletion fails: BUG(), with the request on its way.
CopyupStart(q, o, op, snaps) ==
    LET ext == Min({q.ext, ImgExtents(o, 0, ObjBlocks)})
        c == [q EXCEPT !.st = "COPYUP", !.ext = ext] IN
    IF ext = 0 /\ op = "ZEROOUT" /\ IsEntire(q) /\ ~q.deletion
    THEN [c EXCEPT !.st = "BUG"]
    ELSE IF ext = 0
    THEN Send([c EXCEPT !.cst = "WRITE", !.pending = 1],
              <<WriteOp(FALSE, ModsOnly, snaps, TRUE)>>)
    ELSE Send([c EXCEPT !.cst = "PARENT"], <<Op("parent")>>)

\* pending_result_dec, the first error is kept.
PendingDec(q, result) ==
    [q EXCEPT !.pending = @ - 1,
              !.perr = IF @ = "OK" /\ result # "OK" THEN result ELSE @]

\* rbd_obj_advance_copyup
AdvanceCopyup(q, o, result, snaps) ==
    LET p == PendingDec(q, result) IN
    IF q.cst = "PARENT" THEN CopyupMaps(q, o, result, snaps)
    ELSE IF p.pending > 0 THEN p
    ELSE IF q.cst = "MAPS" THEN CopyupWrite(p, o, p.perr, snaps)
    ELSE WritePostMap(p, o, p.perr)

\* rbd_obj_advance_write up to the write of the object
WriteObject(q, o, op, result, snaps) ==
    IF result = "ENOENT" /\ q.copyup THEN CopyupStart(q, o, op, snaps)
    ELSE WritePostMap(q, o, IF result = "ENOENT" /\ q.deletion THEN "OK" ELSE result)

\* The stat that guards the write is left out
WritePreMapUnguarded(q, result, snaps) ==
    IF result # "OK" THEN Finished(q, result)
    ELSE Send([q EXCEPT !.st = "OBJECT"], <<WriteOp(FALSE, ModsOnly, snaps, TRUE)>>)

WritePreMap(q, result, snaps) ==
    IF result # "OK" THEN Finished(q, result)
    ELSE Send([q EXCEPT !.st = "OBJECT"], <<WriteOp(q.copyup, ModsOnly, snaps, TRUE)>>)

\* The object map is updated for a deletion only
WriteStartUnmapped(q, o, snaps) ==
    IF ~MayExist(o) /\ q.noop THEN Finished(q, "OK")
    ELSE IF UseMap /\ q.deletion /\ UpdateNeeded(o, "PENDING")
    THEN Send([q EXCEPT !.st = "PRE_MAP"], <<MapOp("PENDING", "none")>>)
    ELSE WritePreMap(q, "OK", snaps)

WriteStart(q, o, snaps) ==
    LET new == IF q.deletion THEN "PENDING" ELSE "EXISTS" IN
    IF ~MayExist(o) /\ q.noop THEN Finished(q, "OK")
    ELSE IF UseMap /\ UpdateNeeded(o, new)
    THEN Send([q EXCEPT !.st = "PRE_MAP"], <<MapOp(new, "none")>>)
    ELSE WritePreMap(q, "OK", snaps)

\* __rbd_obj_handle_request for a reply.
Advance(q, o, op, snaps, result, data) ==
    IF op = "READ"
    THEN IF q.st = "OBJECT" THEN ReadObject(q, o, result, data)
         ELSE ReadParent(q, o, result)
    ELSE CASE q.st = "PRE_MAP" -> WritePreMap(q, result, snaps)
           [] q.st = "OBJECT" -> WriteObject(q, o, op, result, snaps)
           [] q.st = "COPYUP" -> AdvanceCopyup(q, o, result, snaps)
           [] q.st = "POST_MAP" -> Finished(q, result)

------------------------------------------------------------------------------
\* The OSDs.

\* rbd_osd_setup_write_ops: the modification on an object, [ob, result].
Modify(ob, q, op, n) ==
    LET zero == IF IsTail(q) THEN Truncate(ob, q.off)
                ELSE ZeroBlocks(ob, q.off, q.len)
        delete == IsEntire(q) /\ q.ext = 0 /\ op # "WRITE" IN
    IF op = "WRITE" THEN [ob |-> PutBlocks(ob, q.off, q.len, n), result |-> "OK"]
    ELSE IF delete
    THEN [ob |-> NoObject, result |-> IF ob.ex THEN "OK" ELSE "ENOENT"]
    ELSE IF op = "ZEROOUT" /\ IsEntire(q) /\ ~q.copyup
    THEN [ob |-> [ex |-> TRUE, d |-> <<>>], result |-> "OK"]
    ELSE [ob |-> zero, result |-> "OK"]

\* One write request, its ops in order; a clone is made for the snapshot first.
ExecWrite(ob, w, q, o, op, n) ==
    LET copied == IF w.copy # ModsOnly /\ ~ob.head.ex
                  THEN [ex |-> TRUE,
                        d |-> [i \in 1..w.copy |-> ParentBlock(o * ObjBlocks + i - 1)]]
                  ELSE ob.head
        m == IF w.mods THEN Modify(copied, q, op, n)
             ELSE [ob |-> copied, result |-> "OK"] IN
    IF w.guard /\ ~ob.head.ex THEN [ob |-> ob, result |-> "ENOENT"]
    ELSE IF m.result # "OK" \/ ~(ob.head.ex \/ m.ob.ex)
    THEN [ob |-> ob, result |-> m.result]
    ELSE [ob |-> IF w.snaps > ob.seq
                 THEN [head |-> m.ob, seq |-> w.snaps, clone |-> ob.head]
                 ELSE [ob EXCEPT !.head = m.ob],
          result |-> "OK"]

\* cls_rbd object_map_update, and its copy in rbd_object_map_update_finish.
MapUpdate(map, o, w) ==
    IF w.cur \in {"none", map[o]} THEN [map EXCEPT ![o] = w.new] ELSE map

\* The first op of the request on o that was not executed yet takes effect.
NextOp(q) == IF \E i \in DOMAIN q.ops : ~q.ops[i].done
             THEN Min({i \in DOMAIN q.ops : ~q.ops[i].done}) ELSE 0

Executed(s, o, i, result, data) ==
    req' = [req EXCEPT ![s].q[o].ops[i].done = TRUE,
                       ![s].q[o].ops[i].result = result,
                       ![s].q[o].ops[i].data = data]

OsdExec(s, o) ==
    LET r == req[s] q == r.q[o] i == NextOp(q) w == q.ops[i]
        x == ExecWrite(obj[o], w, q, o, r.op, r.n)
        h == obj[o].head IN
    /\ i > 0
    /\ \/ /\ w.k = "read"
          /\ Executed(s, o, i, IF h.ex THEN "OK" ELSE "ENOENT",
                      SubSeq(h.d, q.off + 1, Min({q.off + q.len, Len(h.d)})))
          /\ UNCHANGED <<obj, osdmap, snapmap>>
       \/ /\ w.k = "parent"
          /\ Executed(s, o, i, "OK", <<>>)
          /\ UNCHANGED <<obj, osdmap, snapmap>>
       \/ /\ w.k = "map"
          /\ osdmap' = MapUpdate(osdmap, o, w)
          /\ Executed(s, o, i, "OK", <<>>)
          /\ UNCHANGED <<obj, snapmap>>
       \/ /\ w.k = "snapmap"
          /\ snapmap' = [snapmap EXCEPT ![o] = "EXISTS"]
          /\ Executed(s, o, i, "OK", <<>>)
          /\ UNCHANGED <<obj, osdmap>>
       \/ /\ w.k = "write"
          /\ obj' = [obj EXCEPT ![o] = x.ob]
          /\ Executed(s, o, i, x.result, <<>>)
          /\ UNCHANGED <<osdmap, snapmap>>
    /\ UNCHANGED <<feat, image, overlap, snapc, memmap, issued, faults, content,
                   misread, snapshot>>

\* The OSDs refuse an object: the ops outstanding on it fail without taking effect.
OsdFail(s, o) ==
    LET q == req[s].q[o] IN
    /\ NextOp(q) > 0 /\ faults < MaxFaults
    /\ faults' = faults + 1
    /\ req' = [req EXCEPT ![s].q[o].ops =
                [i \in DOMAIN q.ops |->
                    IF q.ops[i].done THEN q.ops[i]
                    ELSE [q.ops[i] EXCEPT !.done = TRUE, !.result = "EIO"]]]
    /\ UNCHANGED <<feat, image, overlap, snapc, obj, osdmap, snapmap, memmap, issued,
                   content, misread, snapshot>>

------------------------------------------------------------------------------
\* Image requests.

NoReq == [st |-> "FREE", n |-> 0, op |-> "READ", off |-> 0, len |-> 0, snaps |-> 0,
          q |-> [o \in Objs |-> NoObjReq], pending |-> 0, perr |-> "OK"]

BlocksOf(r) == r.off..(r.off + r.len - 1)

Writing(s) == req[s].st # "FREE" /\ req[s].op # "READ"

\* need_exclusive_lock: with the object map a read needs the lock as well.
NeedsLock(s) == req[s].st = "RUN" /\ UseMap

\* What the image holds after a request of this kind has completed. A discarded
\* block keeps its content or reads as zeroes; a failed request did it or not.
NewBlock(r) == IF r.op = "WRITE" THEN r.n ELSE 0

ContentAfter(r, result) ==
    [b \in Blocks |->
        IF r.op = "READ" \/ b \notin BlocksOf(r) THEN content[b]
        ELSE IF r.op = "DISCARD" \/ result # "OK" THEN content[b] \union {NewBlock(r)}
        ELSE {NewBlock(r)}]

\* the contents d, with or without what the write request r does
MaybeWritten(d, r) ==
    [b \in Blocks |-> IF b \in BlocksOf(r) THEN d[b] \union {NewBlock(r)} ELSE d[b]]

\* What a read of the image request returned agrees with the content.
ReadAgrees(r) ==
    \A o \in Objs : \A i \in DOMAIN r.q[o].buf :
        r.q[o].buf[i] \in content[o * ObjBlocks + r.q[o].off + i - 1]

\* The image request once its object requests are in q: still running, or done
\* (rbd_img_handle_request, blk_mq_end_request) and its slot free again.
Settle(s, r) ==
    IF r.pending > 0
    THEN req' = [req EXCEPT ![s] = r] /\ UNCHANGED <<content, misread>>
    ELSE /\ req' = [req EXCEPT ![s] = NoReq]
         /\ content' = ContentAfter(r, r.perr)
         /\ misread' = (misread \/ (r.perr = "OK" /\ ~ReadAgrees(r)))

\* rbd_queue_workfn, rbd_img_capture_header: the request takes the snapshot context.
\* Nobody overlaps a write with other I/O on the same blocks: the page cache and file
\* systems see to that. A write that takes the old context once the snapshot exists
\* may still show in the snapshot.
Issue(s) ==
    \E op \in Ops, ex \in Extents :
        LET r == [NoReq EXCEPT !.st = "HEADER", !.n = issued + 1, !.op = op,
                               !.off = ex[1], !.len = ex[2],
                               !.snaps = IF op = "READ" THEN 0 ELSE snapc] IN
        /\ req[s].st = "FREE" /\ issued < MaxReqs
        /\ \A t \in Slots \ {s} :
              (op # "READ" \/ Writing(t)) /\ req[t].st # "FREE"
                  => BlocksOf(r) \intersect BlocksOf(req[t]) = {}
        /\ issued' = issued + 1
        /\ req' = [req EXCEPT ![s] = r]
        /\ snapshot' = IF op # "READ" /\ r.snaps < image.snaps
                       THEN [snapshot EXCEPT !.data = MaybeWritten(@, r)] ELSE snapshot
        /\ UNCHANGED <<feat, image, overlap, snapc, obj, osdmap, snapmap, memmap, faults,
                       content, misread>>

\* rbd_img_fill_request: the image request is cut into object requests, whose extents
\* in the parent and flags follow from the overlap there is now, with no lock held.
Fill(s) ==
    LET r == req[s] IN
    /\ r.st = "HEADER"
    /\ req' = [req EXCEPT ![s].st = "LOCK",
                          ![s].q = [o \in Objs |-> ObjReq(o, r.op, r.off, r.len, r.snaps)]]
    /\ UNCHANGED <<feat, image, overlap, snapc, obj, osdmap, snapmap, memmap, issued, faults,
                   content, misread, snapshot>>

\* The exclusive lock is a peer's from its change of the image until this client has
\* seen the change: the peer waits for its notification to be acknowledged.
PeerHasLock == UseMap /\ (image.snaps # snapc \/ image.overlap # overlap)

\* rbd_img_exclusive_lock lets the request pass, at once or when the lock has been
\* acquired; rbd_img_object_requests starts every object request.
Start(s) ==
    LET r == req[s]
        q == [o \in Objs |-> IF r.q[o].st = "none" THEN r.q[o]
                             ELSE IF r.op = "READ" THEN ReadStart(r.q[o], o)
                             ELSE WriteStart(r.q[o], o, r.snaps)] IN
    /\ r.st = "LOCK" /\ ~PeerHasLock
    /\ Settle(s, [r EXCEPT !.st = "RUN", !.q = q,
                           !.pending = Cardinality({o \in Objs : q[o].st \notin {"none", "DONE"}})])
    /\ UNCHANGED <<feat, image, overlap, snapc, obj, osdmap, snapmap, memmap, issued, faults,
                   snapshot>>

\* rbd_osd_req_callback, rbd_object_map_callback: the oldest executed op of an
\* object request is answered, and the request advances.
Callback(s, o) ==
    LET r == req[s] q == r.q[o] w == Head(q.ops)
        q1 == Advance([q EXCEPT !.ops = Tail(@)], o, r.op, r.snaps, w.result, w.data)
        bad == q1.st = "DONE" /\ q1.result # "OK" /\ r.perr = "OK" IN
    /\ q.ops # <<>> /\ w.done
    /\ memmap' = IF w.k = "map" /\ w.result = "OK"
                 THEN MapUpdate(memmap, o, w) ELSE memmap
    /\ Settle(s, [r EXCEPT !.q[o] = q1,
                           !.pending = IF q1.st = "DONE" THEN @ - 1 ELSE @,
                           !.perr = IF bad THEN q1.result ELSE @])
    /\ UNCHANGED <<feat, image, overlap, snapc, obj, osdmap, snapmap, issued, faults,
                   snapshot>>

------------------------------------------------------------------------------
\* What others do to the image, and rbd_dev_refresh of it. With the object map they
\* hold the exclusive lock, so that no request is running; requests that have still
\* to start may be waiting for it. The object map is loaded again with the lock.

\* A snapshot: its object map is a copy of the image's, whose objects become clean.
\* The writes in flight may show in it or not.
TakeSnapshot ==
    /\ image.snaps = 0
    /\ \A s \in Slots : ~NeedsLock(s)
    /\ image' = [image EXCEPT !.snaps = 1]
    /\ snapmap' = osdmap
    /\ osdmap' = [o \in Objs |-> IF osdmap[o] = "EXISTS" THEN "CLEAN" ELSE osdmap[o]]
    /\ memmap' = osdmap'
    /\ snapshot' = [data |-> FoldSet(LAMBDA s, d : MaybeWritten(d, req[s]), content,
                                     {s \in Slots : Writing(s)}),
                    overlap |-> image.overlap]
    /\ UNCHANGED <<feat, overlap, snapc, obj, req, issued, faults, content, misread>>

\* The image is flattened: every object gets the parent's data, and the overlap
\* becomes 0, that of the snapshot too (deep-flatten). Without the exclusive lock
\* this races with requests.
Flattened(o) ==
    LET ext == Within(image.overlap, o, 0, ObjBlocks)
        zeros == \A i \in 0..(ext - 1) : ParentBlock(o * ObjBlocks + i) = 0 IN
    IF zeros THEN obj[o]
    ELSE ExecWrite(obj[o], WriteOp(FALSE, ext, 0, FALSE), NoObjReq, o, "WRITE", 0).ob

Flatten ==
    /\ image.overlap > 0
    /\ \A s \in Slots : ~NeedsLock(s)
    /\ image' = [image EXCEPT !.overlap = 0]
    /\ obj' = [o \in Objs |-> Flattened(o)]
    /\ osdmap' = [o \in Objs |-> IF obj'[o].head.ex /\ osdmap[o] = "NONEXISTENT"
                                 THEN "EXISTS" ELSE osdmap[o]]
    /\ snapmap' = [o \in Objs |-> IF obj'[o].head.ex /\ snapmap[o] = "NONEXISTENT"
                                  THEN "EXISTS" ELSE snapmap[o]]
    /\ memmap' = osdmap'
    /\ snapshot' = [snapshot EXCEPT !.overlap = 0]
    /\ UNCHANGED <<feat, overlap, snapc, req, issued, faults, content, misread>>

\* rbd_dev_refresh (RbdDev has its steps)
Refresh ==
    /\ image.snaps # snapc \/ image.overlap # overlap
    /\ snapc' = image.snaps
    /\ overlap' = image.overlap
    /\ UNCHANGED <<feat, image, obj, osdmap, snapmap, memmap, req, issued, faults, content,
                   misread, snapshot>>

Init ==
    /\ feat \in {"plain", "map"}
    /\ overlap = Len(Parent)
    /\ snapc = 0
    /\ image = [snaps |-> snapc, overlap |-> overlap]
    /\ obj = [o \in Objs |-> NewObj]
    /\ osdmap = [o \in Objs |-> "NONEXISTENT"]
    /\ snapmap = [o \in Objs |-> "NONEXISTENT"]
    /\ memmap = [o \in Objs |-> "NONEXISTENT"]
    /\ req = [s \in Slots |-> NoReq]
    /\ issued = 0
    /\ faults = 0
    /\ content = [b \in Blocks |-> {ParentBlock(b)}]
    /\ misread = FALSE
    /\ snapshot = [data |-> content, overlap |-> overlap]

Next ==
    \/ \E s \in Slots :
          \/ Issue(s) \/ Fill(s) \/ Start(s)
          \/ \E o \in Objs : OsdExec(s, o) \/ OsdFail(s, o) \/ Callback(s, o)
    \/ TakeSnapshot
    \/ Flatten
    \/ Refresh

Spec == Init /\ [][Next]_vars

------------------------------------------------------------------------------
TypeOK ==
    /\ feat \in {"plain", "map"}
    /\ overlap \in 0..Size /\ snapc \in 0..1
    /\ \A o \in Objs : obj[o].head.ex \in BOOLEAN /\ obj[o].seq \in 0..1
    /\ osdmap \in [Objs -> MapState]
    /\ snapmap \in [Objs -> MapState]
    /\ memmap \in [Objs -> MapState]
    /\ \A s \in Slots : /\ req[s].st \in {"FREE", "HEADER", "LOCK", "RUN"}
                        /\ req[s].pending \in 0..NumObjs
    /\ issued \in 0..MaxReqs /\ faults \in 0..MaxFaults

\* A completed read returned, for every block, what the last completed write,
\* zeroout or discard left there, or the parent's data: whatever copyups,
\* object map updates and flattening ran meanwhile. Without the exclusive lock
\* a flatten may overtake a read that has already missed the object.
ReadsCommitted == UseMap => ~misread

\* The block i of object o in the snapshot, read through the snapshot's object map.
SnapBlock(o, i) ==
    LET ob == IF obj[o].seq = 0 THEN obj[o].head ELSE obj[o].clone IN
    IF ob.ex /\ (UseMap => snapmap[o] # "NONEXISTENT") THEN BlockOf(ob, i)
    ELSE IF o * ObjBlocks + i < snapshot.overlap THEN ParentBlock(o * ObjBlocks + i)
    ELSE 0

\* The snapshot keeps the content it was taken with: a write copies the parent's
\* data up through it first, and marks the object in the snapshot's object map. The
\* exception is the blocks of a write that had taken the snapshot context before
\* the snapshot: it runs with the old context, even when it had to wait for the
\* exclusive lock while the snapshot was made, and no clone keeps what it changes.
SnapshotIntact ==
    image.snaps = 1 => \A b \in Blocks :
        SnapBlock(b \div ObjBlocks, b % ObjBlocks) \in snapshot.data[b]

\* An object that exists is never marked nonexistent, in the object map at the
\* OSDs at any moment (a crash may come), nor in the copy in memory that decides
\* whether a read goes to the OSDs: the map is updated before the object.
MapCovers ==
    UseMap => \A o \in Objs :
        obj[o].head.ex => osdmap[o] # "NONEXISTENT" /\ memmap[o] # "NONEXISTENT"

\* No request waits for nothing: an object request that is not done has an op
\* outstanding, whatever failed before, and an image request that is not done has
\* as many object requests to wait for as its counter says.
NoneStuck ==
    \A s \in Slots : req[s].st = "RUN" =>
        LET busy == {o \in Objs : req[s].q[o].st \notin {"none", "DONE"}} IN
        /\ \A o \in busy : req[s].q[o].ops # <<>> \/ req[s].q[o].st = "BUG"
        /\ busy # {} /\ req[s].pending = Cardinality(busy)

\* An object is deleted only by a request that was marked as a deletion when it was
\* prepared, as the assertions of __rbd_osd_setup_discard_ops and _zeroout_ops ask.
\* One request fails the assertion: a zeroout of an entire object, of an image with
\* snapshots, that found no object and then that the image had been flattened.
DeletesMarked ==
    \A s \in Slots, o \in Objs :
        LET q == req[s].q[o] IN
        /\ \A i \in DOMAIN q.ops :
              LET w == q.ops[i] IN
              w.k = "write" /\ w.mods /\ req[s].op # "WRITE" /\ IsEntire(q) /\ q.ext = 0
                  => q.deletion
        /\ q.st = "BUG" => /\ req[s].op = "ZEROOUT" /\ IsEntire(q) /\ req[s].snaps > 0
                           /\ overlap = 0 /\ Within(Len(Parent), o, 0, ObjBlocks) > 0

\* What a read of block b would return now.
BlockNow(b) ==
    LET o == b \div ObjBlocks IN
    IF MayExist(o) /\ obj[o].head.ex THEN BlockOf(obj[o].head, b % ObjBlocks)
    ELSE IF b < overlap THEN ParentBlock(b) ELSE 0

\* A block no request is writing keeps its content, whatever the copyups, object
\* map updates and deletions of requests on its neighbours in the object do: the
\* stat guard and the copyup bring the parent's data up before the first write.
ContentKept ==
    \A b \in Blocks :
        (\A s \in Slots : Writing(s) => b \notin BlocksOf(req[s]))
            => BlockNow(b) \in content[b]

\* The bookkeeping of the requests: their types, the object maps, the marked
\* deletions, and the counters requests wait for.
IoStateSound == TypeOK /\ MapCovers /\ DeletesMarked /\ NoneStuck
=============================================================================
