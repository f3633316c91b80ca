----------------------------- MODULE OsdRequests -----------------------------
(* The bookkeeping of osd_client.c as functions on the state c of the client:   *)
(* targets, sessions, sending, submitting and completing requests, lingering    *)
(* (watch and notify) requests, and the rescan that a new osdmap causes. The    *)
(* actions that use them are in OsdClient.                                      *)
(*                                                                             *)
(*   c.epoch, c.barrier, c.abort   osdmap->epoch, epoch_barrier, abort_err      *)
(*   c.aof      the abort_on_full option                                        *)
(*   c.ses[o]   the session with OSD o, its connection and what is queued on it *)
(*   c.req[r]   the request in slot r;   c.lr   the lingering request           *)
(*   c.want     an osdmap subscription is outstanding at the monitors           *)
(*   c.sub      the epoch from which the client believes to have subscribed     *)
(*   c.lworks   the notify_wq work queue                                        *)
EXTENDS Integers, Sequences, FiniteSets, SequencesExt, FiniteSetsExt

CONSTANTS
    NumOsds,    \* OSDs 1..NumOsds
    NumSlots,   \* bound: requests alive at once
    Locality    \* ceph_get_crush_locality of each OSD; -1 is none

ASSUME OsdConstants ==
    /\ NumOsds \in Nat \ {0} /\ NumSlots \in Nat \ {0}
    /\ Locality \in [1..NumOsds -> Int]

Osd == 1..NumOsds
Slot == 1..NumSlots
Homeless == 0   \* CEPH_HOMELESS_OSD
NoOsd == -1     \* req->r_osd = NULL

\* target_init
NewTarget == [osd |-> Homeless, pool |-> 0, pg |-> 0, acting |-> <<>>, pgn |-> 0,
              paused |-> FALSE, replica |-> FALSE, force |-> 0, epoch |-> 0]

\* request_init; "free" is a slot without a request. scan: on the need_resend tree;
\* lost: left on that of a map message that failed
NoReq == [st |-> "free", kind |-> "none", obj |-> 0, seq |-> 0, tid |-> 0,
          osd |-> NoOsd, t |-> NewTarget, sent |-> 0, attempts |-> 0,
          result |-> "none", dne |-> 0, mc |-> FALSE, redir |-> FALSE, gen |-> 0,
          nid |-> 0, scan |-> FALSE, lost |-> FALSE]

\* osd_init, create_osd, with a connection whose queues are empty. peer is what
\* the OSD keeps for the session: its backoff, whether it has the watch on it, and
\* the notify it is gathering acknowledgements for.
NoBackoff == [id |-> 0, pg |-> 0, lo |-> 0, hi |-> 0, acked |-> FALSE, gone |-> FALSE]
NoSes == [reg |-> FALSE, addr |-> 0, inc |-> 1, lru |-> FALSE, opened |-> FALSE,
          backoffs |-> {}, out |-> <<>>, in |-> <<>>,
          peer |-> [backoff |-> NoBackoff, watch |-> FALSE, notify |-> 0]]

\* linger_alloc
NoLinger == [st |-> "none", id |-> 0, watch |-> FALSE, osd |-> NoOsd,
             t |-> NewTarget, committed |-> FALSE, gen |-> 0, err |-> FALSE,
             reg |-> 0, ping |-> 0, dne |-> 0, mc |-> FALSE, commit |-> "none",
             nid |-> 0, finish |-> FALSE, scan |-> FALSE, lost |-> FALSE]

\* The CEPH_OSD_FLAG_WRITE and _READ of a request.
IsWrite(kind) == kind \in {"write", "watch", "reconnect", "ping", "unwatch"}
IsRead(kind) == kind \in {"read", "lread", "notify"}
IsLinger(kind) == kind \in {"watch", "reconnect", "ping", "notify"}

Live(q) == q.osd # NoOsd
\* Newest first, as a list that is filled at its head
SortByTidNewest(c, R) ==
    CHOOSE s \in [1..Cardinality(R) -> R] :
      \A i, j \in 1..Cardinality(R) : i < j => c.req[s[i]].tid > c.req[s[j]].tid

\* The tree of requests, in the order of its keys
SortByTid(c, R) ==
    CHOOSE s \in [1..Cardinality(R) -> R] :
      \A i, j \in 1..Cardinality(R) : i < j => c.req[s[i]].tid < c.req[s[j]].tid
Requests(c, o) == {r \in Slot : c.req[r].osd = o}

\* atomic64_inc_return(&osdc->last_tid), abstracted: larger than any tid in use.
NextTid(c) ==
    1 + Max({0} \cup {c.req[r].tid : r \in Slot}
                \cup {m.tid : m \in UNION {Range(c.ses[o].out) \cup
                                           Range(c.ses[o].in) : o \in Osd}})

------------------------------------------------------------------------------
\* Targets. m is the osdmap: m.pool tells whether the pool exists, m.tier is the
\* OSD of its overlay pool (0: none), m.acting the acting set, primary first.

MapFull(m) == m.full \/ m.poolfull

\* target_should_be_paused
ShouldBePaused(c, m, kind) ==
    \/ IsRead(kind) /\ m.pauserd
    \/ IsWrite(kind) /\ (m.pausewr \/ MapFull(m))
    \/ c.epoch < c.barrier

\* pick_closest_replica: the first position of the least locality that is not -1
ClosestReplica(acting) ==
    LET Loc(i) == Locality[acting[i]]
        near == {i \in DOMAIN acting : Loc(i) >= 0} IN
    IF near = {} THEN 1
    ELSE Min({i \in near : \A j \in near : Loc(i) <= Loc(j)})

\* ceph_osds_changed with primary_changed
OsdsChanged(old, new, any) ==
    \/ (old = <<>>) # (new = <<>>)
    \/ old # <<>> /\ new # <<>> /\ old[1] # new[1]
    \/ any /\ old # new

\* ceph_pg_is_split: PG pg of old PGs has children among the new ones
IsSplit(pg, old, new) == \E s \in old..(new - 1) : s % old = pg

\* ceph_is_new_interval; up and acting are the same here, and neither the sizes
\* of the pool nor the map's sort and delete flags change.
IsNewInterval(t, m, acting, pg) ==
    \/ OsdsChanged(t.acting, acting, TRUE)
    \/ t.pgn > 0 /\ IsSplit(pg, t.pgn, m.pgn)

\* calc_target: [t, res] with res "none", "resend" or "dne", for a request or a
\* lingering request; any is any_change. A kind "lread" carries
\* CEPH_OSD_FLAG_LOCALIZE_READS, redir stands for CEPH_OSD_FLAG_IGNORE_OVERLAY.
CalcTarget(c, m, t, kind, obj, redir, any) ==
    LET tiered == m.tier # 0 /\ ~redir
        acting == IF tiered THEN <<m.tier>> ELSE m.acting
        pool == IF tiered THEN 2 ELSE 1
        lastpg == IF t.pgn > 0 THEN obj % t.pgn ELSE 0
        force == \/ m.resend /\ t.force < c.epoch
                 \/ any /\ IsNewInterval(t, m, acting, lastpg)
        unpaused == t.paused /\ ~ShouldBePaused(c, m, kind)
        legacy == t.pool # pool \/ OsdsChanged(t.acting, acting, t.replica \/ any)
        split == t.pgn > 0 /\ IsSplit(lastpg, t.pgn, m.pgn)
        pos == IF kind = "lread" /\ Len(acting) > 1
               THEN ClosestReplica(acting) ELSE 1
        t1 == [t EXCEPT !.epoch = c.epoch, !.paused = @ /\ ~unpaused,
                        !.force = IF m.resend THEN c.epoch ELSE @]
        t2 == [t1 EXCEPT !.pool = pool, !.pg = obj % m.pgn, !.acting = acting,
                         !.pgn = m.pgn, !.replica = pos > 1,
                         !.osd = IF acting = <<>> THEN Homeless ELSE acting[pos]] IN
    IF ~m.pool
    THEN [t |-> [t EXCEPT !.osd = Homeless, !.epoch = c.epoch], res |-> "dne"]
    ELSE [t |-> IF legacy \/ force \/ split THEN t2 ELSE t1,
          res |-> IF unpaused \/ legacy \/ force \/ split THEN "resend" ELSE "none"]

------------------------------------------------------------------------------
\* Sessions.

\* maybe_move_osd_to_lru after an unlink
IdleSes(c, o) == /\ o # Homeless /\ Requests(c, o) = {} /\ c.lr.osd # o
MaybeLru(c, o) == IF IdleSes(c, o) THEN [c EXCEPT !.ses[o].lru = TRUE] ELSE c
FromLru(c, o) == IF o # Homeless THEN [c EXCEPT !.ses[o].lru = FALSE] ELSE c

\* link_request, unlink_request, link_linger, unlink_linger
Link(c, o, r) == FromLru([c EXCEPT !.req[r].osd = o], o)
Unlink(c, r) == MaybeLru([c EXCEPT !.req[r].osd = NoOsd], c.req[r].osd)
LinkLinger(c, o) == FromLru([c EXCEPT !.lr.osd = o], o)
UnlinkLinger(c) == MaybeLru([c EXCEPT !.lr.osd = NoOsd], c.lr.osd)

\* lookup_create_osd with the lock held for writing
CreateOsd(c, m, o) ==
    IF o = Homeless \/ c.ses[o].reg THEN c
    ELSE [c EXCEPT !.ses[o] = [NoSes EXCEPT !.reg = TRUE, !.addr = m.addr[o]]]

\* close_osd: what is left on the session becomes homeless; the connection, its
\* queues and the backoffs go (clear_backoffs).
CloseOsd(c, o) ==
    [c EXCEPT !.req = [r \in Slot |-> IF c.req[r].osd = o
                                      THEN [c.req[r] EXCEPT !.osd = Homeless]
                                      ELSE c.req[r]],
              !.lr.osd = IF @ = o THEN Homeless ELSE @,
              !.ses[o] = NoSes]

\* ceph_con_close and ceph_con_open of reopen_osd, clear_backoffs
ResetOsd(c, m, o) ==
    [c EXCEPT !.ses[o] = [NoSes EXCEPT !.reg = TRUE, !.addr = m.addr[o],
                                       !.inc = c.ses[o].inc + 1, !.lru = @]]

\* maybe_request_map: nothing is sent when ceph_monc_want_map finds the same wish in
\* place
RequestMap(c) == IF c.sub = c.epoch + 1 THEN c
                 ELSE [c EXCEPT !.want = TRUE, !.sub = c.epoch + 1]

\* ceph_monc_got_map: the wish is met, unless maybe_request_map made it continuous
GotMap(c, m) == IF m.full \/ m.pauserd \/ m.pausewr THEN c ELSE [c EXCEPT !.sub = 0]

------------------------------------------------------------------------------
\* Sending.

\* target_contained_by, lookup_containing_backoff
InRange(b, obj) == b.lo = obj \/ (b.lo < obj /\ obj < b.hi)

\* should_plug_request
Plugged(c, q) ==
    \E b \in c.ses[q.osd].backoffs : b.pg = q.t.pg /\ InRange(b, q.obj)

\* ceph_msg_revoke: the message of request r leaves the queue it is in.
Revoke(c, r) ==
    [c EXCEPT !.ses = [o \in Osd |->
        [c.ses[o] EXCEPT !.out = SelectSeq(@, LAMBDA m : m.type # "op" \/ m.r # r)]]]

\* encode_request_partial, encode_request_finish: what an OSD reads of a request.
EncodeRequest(q, r) ==
    [type |-> "op", r |-> r, tid |-> q.tid, attempt |-> q.attempts, kind |-> q.kind,
     obj |-> q.obj, seq |-> q.seq, pool |-> q.t.pool, epoch |-> q.t.epoch, pgn |-> q.t.pgn,
     redir |-> q.redir, gen |-> q.gen]

\* send_request
Queue(c, q, r) ==
    [c EXCEPT !.req[r].t.paused = FALSE, !.req[r].attempts = @ + 1,
              !.req[r].sent = c.ses[q.osd].inc,
              !.ses[q.osd].out = Append(@, EncodeRequest(q, r))]
\* Backoffs are not looked at
SendRequestUnplugged(c, r) ==
    Queue(IF c.req[r].sent # 0 THEN Revoke(c, r) ELSE c, c.req[r], r)

SendRequest(c, r) ==
    IF Plugged(c, c.req[r]) THEN c
    ELSE Queue(IF c.req[r].sent # 0 THEN Revoke(c, r) ELSE c, c.req[r], r)

\* finish_request
FinishRequest(c, r) == Revoke(IF Live(c.req[r]) THEN Unlink(c, r) ELSE c, r)

\* complete_request: the callback runs later, from completion_wq. Of the request it
\* reads what is kept here.
Completing(q, res) ==
    [NoReq EXCEPT !.st = "completing", !.kind = q.kind, !.seq = q.seq, !.gen = q.gen,
                  !.nid = q.nid, !.result = res]
CompleteRequest(c, r, res) ==
    [FinishRequest(c, r) EXCEPT !.req[r] = Completing(c.req[r], res)]

\* The last reference but those of a lingering request is dropped, and the slot is
\* free again. What reg_req and ping_req keep of a request that is over is a request
\* without r_osd, equal to no other: 0 here.
FreeRequest(c, r) ==
    [c EXCEPT !.req[r] = NoReq, !.lr.reg = IF @ = r THEN 0 ELSE @,
              !.lr.ping = IF @ = r THEN 0 ELSE @]

\* cancel_request: no callback
CancelRequest(c, r) == FreeRequest(FinishRequest(c, r), r)

\* abort_request: cancel_map_check, then complete with an error
AbortRequest(c, r, res) ==
    CompleteRequest([c EXCEPT !.req[r].mc = FALSE], r, res)

\* send_map_check, and its twin for lingering requests
SendMapCheck(c, r) == [c EXCEPT !.req[r].mc = TRUE]

\* check_pool_dne. A request that has been sent was mapped: this map is the one
\* that lacks the pool.
PoolDneBound(c, r) ==
    [c EXCEPT !.req[r].dne = IF c.req[r].attempts > 0 THEN c.epoch ELSE @]
CheckBound(c, r) ==
    CASE c.req[r].dne = 0 -> SendMapCheck(c, r)
      [] c.req[r].dne \in 1..c.epoch -> CompleteRequest(c, r, "ENOENT")
      [] OTHER -> c
CheckPoolDne(c, r) == CheckBound(PoolDneBound(c, r), r)

\* __submit_request: the target, the session, the reasons to hold the request
\* back, and the tid assigned with the first send. The retry with the lock held
\* for writing starts over, so it is one step.
Retarget(c, m, q) == CalcTarget(c, m, q.t, q.kind, q.obj, q.redir, FALSE)

HoldBack(c, m, kind) ==
    \/ c.epoch < c.barrier
    \/ IsWrite(kind) /\ m.pausewr
    \/ IsRead(kind) /\ m.pauserd
FullFor(m, kind) == IsWrite(kind) /\ (m.full \/ (m.pool /\ m.poolfull))

Submitted(c, m, r, dne) ==
    LET q == c.req[r]
        hold == HoldBack(c, m, q.kind) \/ FullFor(m, q.kind) IN
    CASE c.abort -> CompleteRequest(c, r, "ABORTED")
      [] ~c.abort /\ c.aof /\ FullFor(m, q.kind) /\ ~HoldBack(c, m, q.kind) ->
           CompleteRequest(c, r, "ENOSPC")
      [] ~c.abort /\ ~hold /\ q.osd # Homeless -> SendRequest(c, r)
      [] OTHER -> [RequestMap(c) EXCEPT !.req[r].t.paused = @ \/ hold,
                                        !.req[r].mc = @ \/ dne]

Linked(c, m, r, ct) ==
    Link([CreateOsd(c, m, ct.t.osd) EXCEPT !.req[r].t = ct.t, !.req[r].tid = NextTid(c)],
         ct.t.osd, r)

SubmitTo(c, m, r, ct) == Submitted(Linked(c, m, r, ct), m, r, ct.res = "dne")

SubmitRequest(c, m, r) ==
    SubmitTo(c, m, r, Retarget(c, m, c.req[r]))

\* ceph_osdc_alloc_request and submit_request, from the slots that are free
FreeSlot(c) == Min({r \in Slot : c.req[r].st = "free"})
CanAlloc(c) == \E r \in Slot : c.req[r].st = "free"
Alloc(c, r, kind, obj, seq, t, gen) ==
    [c EXCEPT !.req[r] = [NoReq EXCEPT !.st = "live", !.kind = kind, !.obj = obj,
                                       !.seq = seq, !.t = t, !.gen = gen]]

------------------------------------------------------------------------------
\* Lingering requests.

\* Only a watch that was reconnected has its errors reported
WatchErrorReconnected(c) ==
    IF c.lr.err \/ c.lr.gen = 0 THEN c
    ELSE [c EXCEPT !.lr.err = TRUE,
                   !.lworks = Append(@, [id |-> c.lr.id, type |-> "error", nid |-> 0,
                                         called |-> FALSE])]

\* queue_watch_error, lwork_queue: one error per registration (last_error)
WatchError(c) ==
    IF c.lr.err THEN c
    ELSE [c EXCEPT !.lr.err = TRUE,
                   !.lworks = Append(@, [id |-> c.lr.id, type |-> "error", nid |-> 0,
                                         called |-> FALSE])]

\* linger_reg_commit_complete
CommitComplete(c, res) ==
    IF c.lr.commit = "wait" THEN [c EXCEPT !.lr.commit = res] ELSE c

\* cancel_linger_request, for the registration or the ping that is in flight
CancelLingerRequest(c, r) ==
    IF r # 0 /\ Live(c.req[r]) THEN CancelRequest(c, r) ELSE c

\* send_linger: the first registration, or a reconnect of a generation of its own
SendLingerAs(c, m, r, kind, gen) ==
    SubmitRequest([Alloc(c, r, kind, 0, c.lr.id, c.lr.t, gen) EXCEPT
                     !.lr.gen = IF kind = "reconnect" THEN gen ELSE @, !.lr.reg = r,
                     !.lr.nid = IF c.lr.watch THEN @ ELSE 0], m, r)
SendLingerIn(c, m) ==
    LET again == c.lr.watch /\ c.lr.committed IN
    SendLingerAs(c, m, FreeSlot(c),
                 IF again THEN "reconnect" ELSE IF c.lr.watch THEN "watch" ELSE "notify",
                 IF again THEN c.lr.gen + 1 ELSE 0)
SendLinger(c, m) == SendLingerIn(CancelLingerRequest(c, c.lr.reg), m)

\* send_linger_ping: no new target, the session of the lingering request
PingIn(c, r) ==
    SendRequest(Link([Alloc(c, r, "ping", 0, c.lr.id, c.lr.t, c.lr.gen) EXCEPT
                        !.lr.ping = r, !.req[r].tid = NextTid(c)], c.lr.osd, r), r)
PingFrom(c) == PingIn(c, FreeSlot(c))
SendLingerPing(c, m) ==
    IF m.pauserd THEN c ELSE PingFrom(CancelLingerRequest(c, c.lr.ping))

\* __linger_cancel: requests, map check, session, registration. The target and the
\* generation are not read again.
Cancelled(lr) == [lr EXCEPT !.mc = FALSE, !.st = "cancelled", !.t = NewTarget, !.gen = 0]
LingerCancel(c) ==
    [UnlinkLinger(CancelLingerRequest(CancelLingerRequest(c, c.lr.ping), c.lr.reg))
     EXCEPT !.lr = Cancelled(@)]

\* check_linger_pool_dne
CheckLingerBound(c) ==
    CASE c.lr.dne = 0 -> [c EXCEPT !.lr.mc = TRUE]
      [] c.lr.dne \in 1..c.epoch -> LingerCancel(CommitComplete(c, "ENOENT"))
      [] OTHER -> c
CheckLingerPoolDne(c) ==
    CheckLingerBound([c EXCEPT !.lr.dne = IF c.lr.gen > 0 THEN c.epoch ELSE @])

LingerKind(lr) == IF lr.watch THEN "watch" ELSE "notify"

\* linger_register and the rest of linger_submit
LingerTo(c, m, t) ==
    SendLinger(LinkLinger([CreateOsd(c, m, t.osd) EXCEPT !.lr.t = t], t.osd), m)
LingerSubmit(c, m, id, watch) ==
    LET lr == [NoLinger EXCEPT !.st = "registered", !.id = id, !.watch = watch,
                               !.commit = "wait"] IN
    LingerTo([c EXCEPT !.lr = lr], m,
             CalcTarget(c, m, NewTarget, LingerKind(lr), 0, FALSE, FALSE).t)

------------------------------------------------------------------------------
\* A new osdmap.

\* recalc_linger_target, and what scan_requests does with its result: it lists the
\* lingering request unless its scan_item is on a list
Relink(c, m, o) ==
    IF o = c.lr.osd THEN c ELSE LinkLinger(UnlinkLinger(CreateOsd(c, m, o)), o)
ScannedLinger(c, m, forced, res) ==
    CASE res = "dne" -> CheckLingerPoolDne([c EXCEPT !.lr.scan = FALSE, !.lr.lost = FALSE])
      [] res = "resend" -> [Relink(c, m, c.lr.t.osd) EXCEPT !.lr.mc = FALSE, !.lr.scan = ~c.lr.lost]
      [] res = "none" /\ forced -> [c EXCEPT !.lr.mc = FALSE, !.lr.scan = ~c.lr.lost]
      [] OTHER -> c
RescanLinger(c, m, forced, ct) == ScannedLinger([c EXCEPT !.lr.t = ct.t], m, forced, ct.res)
ScanLinger(c, m, forced) ==
    RescanLinger(c, m, forced, CalcTarget(c, m, c.lr.t, LingerKind(c.lr), 0, FALSE, TRUE))

\* scan_requests for one request
Scanned(c, r, resend, res) ==
    CASE res = "dne" -> CheckPoolDne(c, r)
      [] res = "resend" \/ (res = "none" /\ resend) ->
           [Unlink(c, r) EXCEPT !.req[r].mc = FALSE, !.req[r].scan = TRUE]
      [] OTHER -> c
Rescan(c, r, resend, ct) == Scanned([c EXCEPT !.req[r].t = ct.t], r, resend, ct.res)
ScanRequest(c, m, r, force, cleared) ==
    Rescan(c, r, force \/ (cleared /\ IsWrite(c.req[r].kind)), Retarget(c, m, c.req[r]))

\* scan_requests of session o: its lingering request, then its requests by tid
ScanInOrder(c, m, o, force, cleared) ==
    FoldLeft(LAMBDA d, r : ScanRequest(d, m, r, force, cleared),
             c, SortByTid(c, Requests(c, o)))
ScanRequests(c, m, o, force, cleared) ==
    ScanInOrder(IF c.lr.osd = o THEN ScanLinger(c, m, force \/ cleared) ELSE c,
                m, o, force, cleared)

\* handle_one_map: map m of epoch e replaces map old; the homeless requests are
\* scanned first, a session whose OSD is down or moved is closed after its scan.
CloseIfGone(c, m, o) ==
    IF o # Homeless /\ (o \notin m.up \/ c.ses[o].addr # m.addr[o]) THEN CloseOsd(c, o) ELSE c
HandleOneMap(c, old, m, e) ==
    LET force == c.epoch + 1 < e
        cleared == (old.full /\ ~m.full) \/ (old.poolfull /\ m.pool /\ ~m.poolfull) IN
    FoldLeft(LAMBDA d, o : IF o # Homeless /\ ~d.ses[o].reg THEN d
                           ELSE CloseIfGone(ScanRequests(d, m, o, force, cleared), m, o),
             [c EXCEPT !.epoch = e], [i \in 1..(NumOsds + 1) |-> i - 1])

\* What a failed map message leaves of the lists on the stack of its handler
Abandon(c) ==
    [c EXCEPT !.req = [r \in Slot |-> [c.req[r] EXCEPT !.scan = FALSE,
                                                      !.lost = @ \/ c.req[r].scan]],
              !.lr.scan = FALSE, !.lr.lost = @ \/ c.lr.scan]

\* kick_requests: targets of the latest map first, then send
KickedTo(c, r, ct) ==
    IF ct.res = "dne" THEN CheckPoolDne([c EXCEPT !.req[r].t = ct.t, !.req[r].scan = FALSE], r)
    ELSE [c EXCEPT !.req[r].t = ct.t]
KickTarget(c, m, r) ==
    IF c.req[r].t.epoch >= c.epoch THEN c ELSE KickedTo(c, r, Retarget(c, m, c.req[r]))

KickLinked(c, r) ==
    CASE IsLinger(c.req[r].kind) -> CancelRequest(c, r)
      [] ~IsLinger(c.req[r].kind) /\ c.req[r].osd # Homeless /\ ~c.req[r].t.paused ->
           SendRequest(c, r)
      [] OTHER -> c
\* A request to be sent again, on the session of its new target
KickSend(c, m, r) ==
    LET o == c.req[r].t.osd IN
    KickLinked(Link(CreateOsd([c EXCEPT !.req[r].scan = FALSE], m, o), o, r), r)

ForScanned(c, Op(_, _)) == FoldLeft(Op, c, SortByTid(c, {r \in Slot : c.req[r].scan}))
KickLinger(c, m) ==
    [IF c.lr.scan /\ c.lr.osd # Homeless THEN SendLinger(c, m) ELSE c
     EXCEPT !.lr.scan = FALSE]
KickRequests(c, m) ==
    KickLinger(ForScanned(ForScanned(c, LAMBDA d, r : KickTarget(d, m, r)),
                          LAMBDA d, r : KickSend(d, m, r)), m)

\* for_each_request: every request on a session or homeless
ForEachRequest(c, Op(_, _)) ==
    FoldLeft(Op, c, SortByTid(c, {r \in Slot : Live(c.req[r])}))

\* update_epoch_barrier
UpdateEpochBarrier(c, eb) ==
    LET c1 == [c EXCEPT !.barrier = Max({@, eb})] IN
    IF eb > c.barrier /\ eb > c.epoch THEN RequestMap(c1) ELSE c1

\* ceph_osdc_abort_on_full
AbortFull(c, m) ==
    IF c.aof /\ MapFull(m)
    THEN ForEachRequest(c, LAMBDA d, r :
            IF IsWrite(d.req[r].kind)
            THEN AbortRequest(UpdateEpochBarrier(d, d.epoch), r, "ENOSPC") ELSE d)
    ELSE c

\* kick_osd_requests, after the session was reset
KickOsdRequest(c, r) ==
    IF IsLinger(c.req[r].kind) THEN CancelRequest(c, r)
    ELSE IF c.req[r].t.paused THEN c ELSE SendRequest(c, r)
KickOsdLinger(c, m, o) == IF c.lr.osd = o THEN SendLinger(c, m) ELSE c
KickOsdRequests(c, m, o) ==
    KickOsdLinger(FoldLeft(KickOsdRequest, c, SortByTid(c, Requests(c, o))), m, o)

\* reopen_osd and kick_osd_requests: an idle session is closed; one whose address
\* is unchanged and that never opened is left to the messenger's retry.
ReopenOsd(c, m, o) ==
    CASE Requests(c, o) = {} /\ c.lr.osd # o -> CloseOsd(c, o)
      [] (Requests(c, o) # {} \/ c.lr.osd = o) /\ c.ses[o].addr = m.addr[o]
         /\ ~c.ses[o].opened -> c
      [] OTHER -> KickOsdRequests(ResetOsd(c, m, o), m, o)
=============================================================================
