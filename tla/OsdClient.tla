------------------------------ MODULE OsdClient ------------------------------
(* The OSD client of libceph (osd_client.c): requests that survive map changes, *)
(* connection resets, backoffs, full and paused clusters, redirects and deleted *)
(* pools; watches that survive them too, and the notify queue.                  *)
(*                                                                             *)
(* Each handler runs under osdc->lock, so it is one step; completions, watch     *)
(* callbacks, map checks and the user's waits are steps of their own. The        *)
(* connection is a pair of queues that a reset empties (Messenger models it).    *)
(* The OSDs and the monitor are external, as the client relies on them.          *)
EXTENDS OsdRequests, TLC

CONSTANTS
    MaxFaults,    \* bound: faults in a behaviour
    Scenarios     \* [maps, io, linger, keep, timeout, aof, notifies, faults]: the
                  \* epochs the cluster goes through, the requests issued in order,
                  \* the lingering requests, whether a watch is kept for good, whether
                  \* the osd_request_timeout and the abort_on_full options are set,
                  \* the kinds of faults; bound: the notifications of other clients

VARIABLES
    osdc,     \* the client: OsdRequests' c
    scen,     \* the scenario
    cluster,  \* the epoch of the cluster
    log,      \* the writes applied, in order: [seq, obj, redir]
    watch,    \* the watch kept with the object: id of its cookie, 0 is none
    issued,   \* requests issued
    outcome,  \* outcome[s]: what the caller of request s was told
    user,     \* the thread that watches, unwatches or notifies: [pc, slot, left]
    nids,     \* notifications so far
    faults,
    flushed,  \* the cookie whose callbacks ceph_osdc_flush_notifies has flushed
    late      \* a callback ran for a flushed cookie

vars == <<osdc, scen, cluster, log, watch, issued, outcome, user, nids, faults,
          flushed, late>>
world == <<scen, cluster, log, watch, issued, outcome, user, nids, faults,
           flushed, late>>

M == scen.maps[osdc.epoch]
CM == scen.maps[cluster]

Init ==
    /\ scen \in Scenarios
    /\ osdc = [epoch |-> 1, barrier |-> 0, abort |-> FALSE, want |-> FALSE, sub |-> 0,
               aof |-> scen.aof, ses |-> [o \in Osd |-> NoSes], req |-> [r \in Slot |-> NoReq],
               lr |-> NoLinger, lworks |-> <<>>]
    /\ cluster = 1 /\ log = <<>> /\ watch = 0 /\ issued = 0
    /\ outcome = [s \in DOMAIN scen.io |-> "none"]
    /\ user = [pc |-> "idle", slot |-> 0, left |-> scen.linger]
    /\ nids = 0 /\ faults = 0 /\ flushed = 0 /\ late = FALSE

Fault(kind) ==
    /\ kind \in scen.faults /\ faults < MaxFaults
    /\ faults' = faults + 1

------------------------------------------------------------------------------
\* Requests.

\* ceph_osdc_start_request
StartRequest ==
    LET s == issued + 1
        r == FreeSlot(osdc) IN
    /\ issued < Len(scen.io) /\ CanAlloc(osdc)
    /\ issued' = s
    /\ osdc' = SubmitRequest(Alloc(osdc, r, scen.io[s].kind, scen.io[s].obj, s,
                                   NewTarget, 0), M, r)
    /\ UNCHANGED <<scen, cluster, log, watch, outcome, user, nids, faults, flushed, late>>

\* linger_commit_cb, linger_reconnect_cb, linger_ping_cb. They look at the
\* request only if it is still the one the lingering request waits for.
LingerCallback(c, q, r) ==
    LET mine == c.lr.id = q.seq IN
    CASE mine /\ q.kind \in {"watch", "notify"} /\ r = c.lr.reg ->
           [CommitComplete(c, q.result) EXCEPT
              !.lr.committed = TRUE,
              !.lr.nid = IF q.kind = "notify" /\ q.result = "OK" THEN q.nid ELSE @]
      [] mine /\ q.kind = "reconnect" /\ r = c.lr.reg /\ q.result # "OK" -> WatchError(c)
      [] mine /\ q.kind = "ping" /\ r = c.lr.ping /\ q.gen = c.lr.gen
         /\ q.result # "OK" -> WatchError(c)
      [] OTHER -> c

\* __complete_request: from completion_wq, or by handle_reply after it dropped
\* its locks. The unwatch request stays for its waiter.
Complete(r) ==
    LET q == osdc.req[r]
        c1 == IF IsLinger(q.kind) THEN LingerCallback(osdc, q, r) ELSE osdc IN
    /\ q.st = "completing"
    /\ osdc' = IF user.slot = r THEN [c1 EXCEPT !.req[r].st = "done"]
               ELSE FreeRequest(c1, r)
    /\ outcome' = IF q.kind \in {"read", "lread", "write"}
                  THEN [outcome EXCEPT ![q.seq] = q.result] ELSE outcome
    /\ UNCHANGED <<scen, cluster, log, watch, issued, user, nids, faults, flushed, late>>

\* ceph_osdc_cancel_request by a caller that no longer waits
Cancel(r) ==
    LET q == osdc.req[r] IN
    /\ q.st = "live" /\ q.kind \in {"read", "lread", "write"}
    /\ Live(q)
    /\ osdc' = CancelRequest(osdc, r)
    /\ outcome' = [outcome EXCEPT ![q.seq] = "cancelled"]
    /\ Fault("cancel")
    /\ UNCHANGED <<scen, cluster, log, watch, issued, user, nids, flushed, late>>

\* ceph_osdc_abort_requests, ceph_osdc_clear_abort_err, and
\* ceph_osdc_update_epoch_barrier, which an unmount and an eviction use
AbortRequests ==
    /\ ~osdc.abort
    /\ osdc' = [ForEachRequest(osdc, LAMBDA d, r : AbortRequest(d, r, "ABORTED"))
                EXCEPT !.abort = TRUE]
    /\ Fault("abort")
    /\ UNCHANGED <<scen, cluster, log, watch, issued, outcome, user, nids, flushed, late>>

ClearAbortErr ==
    /\ osdc.abort
    /\ osdc' = [osdc EXCEPT !.abort = FALSE]
    /\ UNCHANGED world

RaiseBarrier ==
    /\ osdc.barrier < cluster
    /\ osdc' = UpdateEpochBarrier(osdc, cluster)
    /\ Fault("barrier")
    /\ UNCHANGED <<scen, cluster, log, watch, issued, outcome, user, nids, flushed, late>>

------------------------------------------------------------------------------
\* Maps.

Publish ==
    /\ cluster < Len(scen.maps)
    /\ cluster' = cluster + 1
    /\ UNCHANGED <<osdc, scen, log, watch, issued, outcome, user, nids, faults,
                   flushed, late>>

\* The maps of a message, applied one after the other: incrementals up to hi, or
\* the full map hi.
ApplyMaps(c, hi, inc) ==
    FoldLeft(LAMBDA d, e : HandleOneMap(d, scen.maps[d.epoch], scen.maps[e], e),
             c, IF inc THEN [i \in 1..(hi - c.epoch) |-> c.epoch + i] ELSE <<hi>>)

Blocked(m) == m.pauserd \/ m.pausewr \/ MapFull(m)

\* ceph_osdc_handle_map, up to the epoch hi. The monitor's subscription is used up.
WantNext(c, m) ==
    IF Blocked(M) \/ Blocked(m) \/ c.epoch < c.barrier THEN RequestMap(c) ELSE c
MapsApplied(c, m) == GotMap(AbortFull(KickRequests(WantNext(c, m), m), m), m)
HandleMap(hi, inc) ==
    /\ osdc' = MapsApplied(ApplyMaps([osdc EXCEPT !.want = FALSE], hi, inc), scen.maps[hi])
    /\ UNCHANGED world

DeliverMap == \E hi \in (osdc.epoch + 1)..cluster : \E inc \in BOOLEAN : HandleMap(hi, inc)

\* The error path of ceph_osdc_handle_map: map k + 1 of the message is rejected
\* (or there is no memory for it) when the maps up to k are in place. Nothing is
\* kicked, and ceph_monc_got_map is not called.
HandleMapError ==
    \E k \in osdc.epoch..(cluster - 1) :
      /\ osdc' = Abandon(ApplyMaps([osdc EXCEPT !.want = FALSE], k, TRUE))
      /\ Fault("map")
      /\ UNCHANGED <<scen, cluster, log, watch, issued, outcome, user, nids, flushed, late>>

\* map_check_cb: the monitor's newest epoch
MapCheck(r) ==
    \E newest \in osdc.epoch..cluster :
      LET c1 == [osdc EXCEPT !.req[r].dne = IF @ = 0 THEN newest ELSE @,
                             !.req[r].mc = FALSE] IN
      /\ osdc.req[r].st = "live" /\ osdc.req[r].mc
      /\ osdc' = CheckPoolDne(c1, r)
      /\ UNCHANGED world

\* linger_map_check_cb
LingerMapCheck ==
    \E newest \in osdc.epoch..cluster :
      LET c1 == [osdc EXCEPT !.lr.dne = IF @ = 0 THEN newest ELSE @, !.lr.mc = FALSE] IN
      /\ osdc.lr.mc
      /\ osdc' = CheckLingerPoolDne(c1)
      /\ UNCHANGED world

------------------------------------------------------------------------------
\* Messages from an OSD: osd_dispatch.

Take(c, o) == [c EXCEPT !.ses[o].in = Tail(@)]

\* The redirect of handle_reply: a new submission of the same request, under a new
\* tid. The pool of the redirect is the base pool, to which calc_target maps a
\* request that ignores the overlay.
Redirect(c, r) ==
    SubmitRequest([Unlink(c, r) EXCEPT !.req[r].redir = TRUE, !.req[r].tid = 0], M, r)

\* The EAGAIN of handle_reply: a replica could not serve the read, the primary is
\* asked; clearing the pgid makes calc_target see a change.
ToPrimary(c, r) ==
    SubmitRequest([Unlink(c, r) EXCEPT !.req[r].t.pool = 0, !.req[r].tid = 0,
                     !.req[r].kind = "read"], M, r)

\* handle_reply with decode_MOSDOpReply: an unknown tid or an earlier attempt is
\* ignored, a reply that does not decode or does not match fails the request.
HandleReply(c, o, m) ==
    LET known == {r \in Requests(c, o) : c.req[r].tid = m.tid}
        r == CHOOSE x \in known : TRUE IN
    CASE known = {} -> c
      [] known # {} /\ m.res = "garbled" -> CompleteRequest(c, r, "EIO")
      [] known # {} /\ m.res # "garbled" /\ m.attempt # c.req[r].attempts - 1 -> c
      [] known # {} /\ m.attempt = c.req[r].attempts - 1 /\ m.res = "redirect" ->
           Redirect(c, r)
      [] known # {} /\ m.attempt = c.req[r].attempts - 1 /\ m.res = "EAGAIN" ->
           ToPrimary(c, r)
      [] OTHER -> CompleteRequest([c EXCEPT !.req[r].nid = m.nid], r, m.res)

\* handle_backoff_block: remember the range, acknowledge it
BackoffBlock(c, o, m) ==
    [c EXCEPT !.ses[o].backoffs = @ \cup {[id |-> m.id, pg |-> m.pg, lo |-> m.lo, hi |-> m.hi]},
              !.ses[o].out = Append(@, [type |-> "ack", id |-> m.id, tid |-> 0])]

\* What was held back is left to the next map
BackoffUnblockSilent(c, o, m) ==
    [c EXCEPT !.ses[o].backoffs = {b \in @ : b.id # m.id}]

\* handle_backoff_unblock: forget it, resend what it held back, in tid order
BackoffUnblock(c, o, m) ==
    LET c1 == [c EXCEPT !.ses[o].backoffs = {b \in @ : b.id # m.id}]
        held == {r \in Requests(c, o) : c.req[r].t.pg = m.pg /\ InRange(m, c.req[r].obj)} IN
    IF \A b \in c.ses[o].backoffs : b.id # m.id THEN c
    ELSE FoldLeft(LAMBDA d, r : SendRequest(d, r), c1, SortByTid(c1, held))

\* handle_watch_notify: an event for a cookie that is registered
WatchNotify(c, m) ==
    CASE c.lr.st # "registered" \/ c.lr.id # m.id -> c
      [] c.lr.st = "registered" /\ c.lr.id = m.id /\ m.ev = "disconnect" -> WatchError(c)
      [] c.lr.st = "registered" /\ c.lr.id = m.id /\ m.ev = "complete" /\ ~c.lr.watch ->
           IF c.lr.nid # 0 /\ c.lr.nid # m.nid THEN c ELSE [c EXCEPT !.lr.finish = TRUE]
      [] OTHER -> [c EXCEPT !.lworks = Append(@, [id |-> m.id, type |-> "notify",
                                                  nid |-> m.nid, called |-> FALSE])]

Dispatch(o) ==
    LET m == Head(osdc.ses[o].in)
        c == Take(osdc, o) IN
    /\ osdc.ses[o].in # <<>>
    /\ osdc' = CASE m.type = "reply" -> HandleReply(c, o, m)
                 [] m.type = "block" -> BackoffBlock(c, o, m)
                 [] m.type = "unblock" -> BackoffUnblock(c, o, m)
                 [] m.type = "event" -> WatchNotify(c, m)
    /\ UNCHANGED world

------------------------------------------------------------------------------
\* Connections and timers.

\* osd_fault: the messenger reports that the connection dropped
OsdFault(o) ==
    /\ osdc.ses[o].reg
    /\ osdc' = RequestMap(ReopenOsd(osdc, M, o))
    /\ Fault("reset")
    /\ UNCHANGED <<scen, cluster, log, watch, issued, outcome, user, nids, flushed, late>>

\* ceph_osdc_reopen_osds, when the monitor session was given new keys
ReopenOsds ==
    /\ \E o \in Osd : osdc.ses[o].reg
    /\ osdc' = FoldLeft(LAMBDA d, o : IF d.ses[o].reg THEN ReopenOsd(d, M, o) ELSE d,
                        osdc, [o \in Osd |-> o])
    /\ Fault("reopen")
    /\ UNCHANGED <<scen, cluster, log, watch, issued, outcome, user, nids, flushed, late>>

\* handle_timeout: the requests in S are older than osd_request_timeout, every
\* other one older than osd_keepalive_timeout. Watches are pinged, a newer map is
\* asked for. (The keepalive itself makes a dead connection fault.) The period is
\* long: a ping that overtakes the answer to the one before it counts as a fault.
HandleTimeout(S) ==
    LET Expire(d, r) == IF r \in S THEN AbortRequest(d, r, "ETIMEDOUT") ELSE d
        c1 == ForEachRequest(osdc, Expire)
        ping == c1.lr.watch /\ c1.lr.osd > Homeless /\ c1.lr.committed /\ ~c1.lr.err
        overtakes == /\ ping
                     /\ \/ \E r \in Slot : osdc.req[r].st = "completing" /\ osdc.req[r].kind = "ping"
                        \/ \E i \in DOMAIN osdc.ses[c1.lr.osd].in :
                             osdc.ses[c1.lr.osd].in[i].type = "reply" IN
    /\ {r \in Slot : Live(osdc.req[r])} # {} \/ osdc.lr.osd # NoOsd
    /\ S \subseteq {r \in Slot : Live(osdc.req[r]) /\ scen.timeout}
    /\ osdc' = RequestMap(IF ping THEN SendLingerPing(c1, M) ELSE c1)
    /\ IF overtakes THEN Fault("overtake") ELSE UNCHANGED faults
    /\ UNCHANGED <<scen, cluster, log, watch, issued, outcome, user, nids, flushed, late>>

\* handle_osds_timeout: sessions idle for osd_idle_ttl are closed
OsdsTimeout(o) ==
    /\ osdc.ses[o].reg /\ osdc.ses[o].lru
    /\ osdc' = CloseOsd(osdc, o)
    /\ UNCHANGED world

------------------------------------------------------------------------------
\* Watch and notify, from the caller's side and on notify_wq.

\* ceph_osdc_watch, ceph_osdc_notify, up to their wait
StartLinger ==
    /\ user.pc = "idle" /\ user.left # <<>> /\ CanAlloc(osdc)
    /\ osdc' = LingerSubmit(osdc, M, osdc.lr.id + 1, Head(user.left) = "watch")
    /\ user' = [user EXCEPT !.pc = "commit", !.left = Tail(@)]
    /\ UNCHANGED <<scen, cluster, log, watch, issued, outcome, nids, faults, flushed, late>>

CancelIfRegistered(c) == IF c.lr.st = "registered" THEN LingerCancel(c) ELSE c

\* linger_reg_commit_wait returns
LingerCommitted ==
    /\ user.pc = "commit" /\ osdc.lr.commit # "wait"
    /\ IF osdc.lr.commit = "OK"
       THEN /\ user' = [user EXCEPT !.pc = IF osdc.lr.watch THEN "watching" ELSE "finish"]
            /\ UNCHANGED osdc
       ELSE /\ user' = [user EXCEPT !.pc = "idle"]
            /\ osdc' = CancelIfRegistered(osdc)
    /\ UNCHANGED <<scen, cluster, log, watch, issued, outcome, nids, faults, flushed, late>>

\* linger_notify_finish_wait returns, by completion or by its timeout
NotifyFinished ==
    /\ user.pc = "finish"
    /\ IF osdc.lr.finish THEN UNCHANGED faults ELSE Fault("giveup")
    /\ osdc' = CancelIfRegistered(osdc)
    /\ user' = [user EXCEPT !.pc = "idle"]
    /\ UNCHANGED <<scen, cluster, log, watch, issued, outcome, nids, flushed, late>>

\* ceph_osdc_unwatch up to its wait: ceph_osdc_start_request, then linger_cancel,
\* each with osdc->lock taken anew
Unwatch ==
    LET r == FreeSlot(osdc) IN
    /\ user.pc = "watching" /\ ~scen.keep /\ CanAlloc(osdc)
    /\ osdc' = SubmitRequest(Alloc(osdc, r, "unwatch", 0, osdc.lr.id, NewTarget, 0), M, r)
    /\ user' = [user EXCEPT !.pc = "cancel", !.slot = r]
    /\ UNCHANGED <<scen, cluster, log, watch, issued, outcome, nids, faults, flushed, late>>

CancelWatch ==
    /\ user.pc = "cancel"
    /\ osdc' = CancelIfRegistered(osdc)
    /\ user' = [user EXCEPT !.pc = "unwatch"]
    /\ UNCHANGED <<scen, cluster, log, watch, issued, outcome, nids, faults, flushed, late>>

\* wait_request_timeout returns: completed, or given up after mount_timeout
Unwatched ==
    LET q == osdc.req[user.slot] IN
    /\ user.pc = "unwatch"
    /\ \/ /\ q.st = "done"
          /\ osdc' = FreeRequest(osdc, user.slot)
          /\ UNCHANGED faults
       \/ /\ q.st # "done"
          /\ osdc' = IF Live(q) THEN CancelRequest(osdc, user.slot) ELSE osdc
          /\ Fault("giveup")
    /\ user' = [user EXCEPT !.pc = "flush", !.slot = 0]
    /\ UNCHANGED <<scen, cluster, log, watch, issued, outcome, nids, flushed, late>>

\* ceph_osdc_flush_notifies
FlushNotifies ==
    /\ user.pc = "flush" /\ osdc.lworks = <<>>
    /\ flushed' = osdc.lr.id
    /\ user' = [user EXCEPT !.pc = "idle"]
    /\ UNCHANGED <<osdc, scen, cluster, log, watch, issued, outcome, nids, faults, late>>

\* do_watch_notify, do_watch_error: the registration is looked up under the lock,
\* the callback runs after it was dropped.
WorkLooks ==
    LET w == Head(osdc.lworks)
        live == osdc.lr.st = "registered" /\ osdc.lr.id = w.id IN
    /\ osdc.lworks # <<>> /\ ~w.called
    /\ osdc' = [osdc EXCEPT !.lworks = IF live THEN [@ EXCEPT ![1].called = TRUE]
                                       ELSE Tail(@)]
    /\ UNCHANGED world

WorkCalls ==
    /\ osdc.lworks # <<>> /\ Head(osdc.lworks).called
    /\ osdc' = [osdc EXCEPT !.lworks = Tail(@)]
    /\ late' = (late \/ Head(osdc.lworks).id <= flushed)
    /\ UNCHANGED <<scen, cluster, log, watch, issued, outcome, user, nids, faults, flushed>>

------------------------------------------------------------------------------
\* The OSDs.

Send(c, o, m) == [c EXCEPT !.ses[o].in = Append(@, m)]
Reply(m, res, nid) == [type |-> "reply", tid |-> m.tid, attempt |-> m.attempt,
                       res |-> res, nid |-> nid]
Event(ev, id, nid) == [type |-> "event", ev |-> ev, id |-> id, nid |-> nid, tid |-> 0]
Primary(m) == IF m.acting = <<>> THEN Homeless ELSE m.acting[1]

\* An op that the OSD discards because the client resends it: since the op's epoch
\* the PG split, moved to another primary, was told to have its requests resent, or
\* (for a write) was full at that epoch or later.
Discards(m) ==
    \/ \E e \in (m.epoch + 1)..cluster :
         \/ scen.maps[e].resend \/ scen.maps[e].pgn # scen.maps[e - 1].pgn
         \/ Primary(scen.maps[e]) # Primary(scen.maps[e - 1])
    \/ \E e \in m.epoch..cluster : IsWrite(m.kind) /\ MapFull(scen.maps[e])

Serves(o, m) ==
    /\ CM.pool /\ ~Discards(m)
    /\ IF m.pool = 2 THEN CM.tier = o
       ELSE \/ o = Primary(CM)
            \/ m.kind = "lread" /\ \E i \in DOMAIN CM.acting : CM.acting[i] = o

BackedOff(o, m) ==
    LET b == osdc.ses[o].peer.backoff IN
    b.id # 0 /\ b.pg = m.obj % CM.pgn /\ InRange(b, m.obj)

\* A watch is kept with the object; the session it was made on is connected to it.
Connect(c, o) ==
    [c EXCEPT !.ses = [p \in Osd |-> [c.ses[p] EXCEPT !.peer.watch = p = o]]]

Execute(c, o, m) ==
    LET nid == nids + 1
        res == CASE m.kind = "reconnect" /\ watch # m.seq -> "ENOTCONN"
                 [] m.kind = "ping" /\ ~(watch = m.seq /\ c.ses[o].peer.watch) -> "ENOTCONN"
                 [] OTHER -> "OK"
        c1 == CASE m.kind \in {"watch", "reconnect"} /\ res = "OK" -> Connect(c, o)
                [] m.kind = "notify" -> [c EXCEPT !.ses[o].peer.notify = nid]
                [] OTHER -> c IN
    /\ osdc' = Send(c1, o, Reply(m, res, IF m.kind = "notify" THEN nid ELSE 0))
    /\ log' = IF m.kind = "write" /\ ~\E i \in DOMAIN log : log[i].seq = m.seq
              THEN Append(log, [seq |-> m.seq, obj |-> m.obj, redir |-> m.redir]) ELSE log
    /\ watch' = CASE m.kind = "watch" -> m.seq
                  [] m.kind = "unwatch" /\ watch = m.seq -> 0
                  [] OTHER -> watch
    /\ nids' = IF m.kind = "notify" THEN nid ELSE nids

\* OSD o takes the next message of the connection: an acknowledged backoff, an op
\* that it drops because it does not serve it or holds it back, or one it answers.
OsdTakes(o) ==
    LET m == Head(osdc.ses[o].out)
        b == osdc.ses[o].peer.backoff
        c == [osdc EXCEPT !.ses[o].out = Tail(@), !.ses[o].opened = TRUE]
        dropped == ~Serves(o, m) \/ BackedOff(o, m) IN
    /\ osdc.ses[o].out # <<>> /\ o \in CM.up /\ osdc.ses[o].addr = CM.addr[o]
    /\ \/ /\ m.type = "ack"
          /\ osdc' = [c EXCEPT !.ses[o].peer.backoff =
                        IF b.id # m.id THEN b ELSE IF b.gone THEN NoBackoff
                        ELSE [b EXCEPT !.acked = TRUE]]
          /\ UNCHANGED <<log, watch, nids>>
       \/ m.type = "op" /\ dropped /\ osdc' = c /\ UNCHANGED <<log, watch, nids>>
       \/ /\ m.type = "op" /\ ~dropped /\ m.pool = 2
          /\ osdc' = Send(c, o, Reply(m, "redirect", 0))
          /\ UNCHANGED <<log, watch, nids>>
       \/ /\ m.type = "op" /\ ~dropped /\ m.kind = "lread" /\ o # Primary(CM)
          /\ osdc' = Send(c, o, Reply(m, "EAGAIN", 0))
          /\ UNCHANGED <<log, watch, nids>>
       \/ m.type = "op" /\ ~dropped /\ m.pool = 1 /\ Execute(c, o, m)
    /\ UNCHANGED <<scen, cluster, issued, outcome, user, faults, flushed, late>>

\* A reply arrives that the client cannot decode.
Garble(o) ==
    LET in == osdc.ses[o].in IN
    /\ in # <<>> /\ Head(in).type = "reply"
    /\ osdc' = [osdc EXCEPT !.ses[o].in = [@ EXCEPT ![1].res = "garbled"]]
    /\ Fault("garble")
    /\ UNCHANGED <<scen, cluster, log, watch, issued, outcome, user, nids, flushed, late>>

\* An OSD that cannot serve an op yet drops it and tells the client to back off
\* from its object, or from the whole PG; it lifts the backoff later, and drops ops
\* of the range until the client has acknowledged it.
OsdBlocks(o) ==
    LET m == Head(osdc.ses[o].out) IN
    \E whole \in BOOLEAN :
      LET b == [id |-> faults + 1, pg |-> m.obj % CM.pgn,
                lo |-> IF whole THEN 0 ELSE m.obj, hi |-> IF whole THEN 9 ELSE m.obj + 1] IN
      /\ osdc.ses[o].out # <<>> /\ m.type = "op"
      /\ o \in CM.up /\ osdc.ses[o].addr = CM.addr[o] /\ Serves(o, m) /\ m.pool = 1
      /\ o = Primary(CM) /\ osdc.ses[o].peer.backoff = NoBackoff
      /\ osdc' = [Send([osdc EXCEPT !.ses[o].out = Tail(@), !.ses[o].opened = TRUE], o,
                       b @@ [type |-> "block", tid |-> 0])
                  EXCEPT !.ses[o].peer.backoff = b @@ NoBackoff]
      /\ Fault("backoff")
      /\ UNCHANGED <<scen, cluster, log, watch, issued, outcome, user, nids, flushed, late>>

OsdUnblocks(o) ==
    LET b == osdc.ses[o].peer.backoff IN
    /\ b.id # 0 /\ ~b.gone
    /\ osdc' = [Send(osdc, o, [type |-> "unblock", id |-> b.id, pg |-> b.pg, lo |-> b.lo,
                               hi |-> b.hi, tid |-> 0])
                EXCEPT !.ses[o].peer.backoff = IF b.acked THEN NoBackoff
                                               ELSE [b EXCEPT !.gone = TRUE]]
    /\ UNCHANGED world

\* Another client notifies; a notify of this client is acknowledged by all.
OsdNotifies(o) ==
    /\ \/ /\ watch # 0 /\ osdc.ses[o].peer.watch /\ nids < scen.notifies
          /\ nids' = nids + 1
          /\ osdc' = Send(osdc, o, Event("notify", watch, nids + 1))
       \/ /\ osdc.ses[o].peer.notify # 0 /\ UNCHANGED nids
          /\ osdc' = [Send(osdc, o, Event("complete", osdc.lr.id, osdc.ses[o].peer.notify))
                      EXCEPT !.ses[o].peer.notify = 0]
    /\ UNCHANGED <<scen, cluster, log, watch, issued, outcome, user, faults, flushed, late>>

\* A watch times out. Over a session that is still there, the client is told.
LoseWatch ==
    /\ watch # 0 /\ Fault("lose")
    /\ watch' = 0
    /\ osdc' = [osdc EXCEPT !.ses = [o \in Osd |->
                  IF osdc.ses[o].peer.watch
                  THEN [osdc.ses[o] EXCEPT !.peer.watch = FALSE,
                                           !.in = Append(@, Event("disconnect", watch, 0))]
                  ELSE osdc.ses[o]]]
    /\ UNCHANGED <<scen, cluster, log, issued, outcome, user, nids, flushed, late>>

------------------------------------------------------------------------------

Timeout == \E S \in SUBSET Slot : HandleTimeout(S)

Next ==
    \/ StartRequest \/ AbortRequests \/ ClearAbortErr \/ RaiseBarrier
    \/ Publish \/ DeliverMap \/ HandleMapError \/ LingerMapCheck
    \/ ReopenOsds \/ Timeout
    \/ StartLinger \/ LingerCommitted \/ NotifyFinished \/ Unwatch \/ CancelWatch
    \/ Unwatched
    \/ FlushNotifies \/ WorkLooks \/ WorkCalls \/ LoseWatch
    \/ \E r \in Slot : Complete(r) \/ Cancel(r) \/ MapCheck(r)
    \/ \E o \in Osd : \/ Dispatch(o) \/ OsdFault(o) \/ OsdsTimeout(o) \/ OsdTakes(o)
                      \/ Garble(o) \/ OsdBlocks(o) \/ OsdUnblocks(o) \/ OsdNotifies(o)

\* What the client, its connections, the monitor and the OSDs do by themselves,
\* each with what makes it due: a callback, a map check or a map that was asked for;
\* a message to be read by the client, or by an OSD that is there; the timer.
Work ==
    \/ Publish \/ (DeliverMap /\ osdc.want) \/ LingerMapCheck
    \/ ClearAbortErr \/ LingerCommitted \/ WorkLooks \/ WorkCalls
    \/ \E r \in Slot : Complete(r) \/ MapCheck(r)
    \/ \E o \in Osd : OsdUnblocks(o)
WorkDue ==
    \/ cluster < Len(scen.maps) \/ (osdc.want /\ osdc.epoch < cluster) \/ osdc.lr.mc
    \/ osdc.abort \/ (user.pc = "commit" /\ osdc.lr.commit # "wait") \/ osdc.lworks # <<>>
    \/ \E r \in Slot : \/ osdc.req[r].st = "completing"
                       \/ osdc.req[r].st = "live" /\ osdc.req[r].mc
    \/ \E o \in Osd : osdc.ses[o].peer.backoff.id # 0 /\ ~osdc.ses[o].peer.backoff.gone

Dispatched == \E o \in Osd : Dispatch(o)
DispatchDue == \E o \in Osd : osdc.ses[o].in # <<>>

Taken == \E o \in Osd : OsdTakes(o)
TakeDue == \E o \in Osd : osdc.ses[o].out # <<>> /\ o \in CM.up /\ osdc.ses[o].addr = CM.addr[o]

TimerDue ==
    \/ RequestMap(osdc) # osdc /\ ({r \in Slot : Live(osdc.req[r])} # {} \/ osdc.lr.osd # NoOsd)
    \/ /\ osdc.lr.watch /\ osdc.lr.osd > Homeless /\ osdc.lr.committed /\ ~osdc.lr.err
       /\ ~\E r \in Slot : osdc.req[r].kind = "ping"

\* While something of a kind is due, something of that kind happens: weaker than
\* fairness to every handler, connection and timer, which the kernel's work queues
\* and a working network give.
Fairness ==
    /\ []<>~WorkDue \/ []<><<Work>>_vars
    /\ []<>~DispatchDue \/ []<><<Dispatched>>_vars
    /\ []<>~TakeDue \/ []<><<Taken>>_vars
    /\ []<>~TimerDue \/ []<><<HandleTimeout({})>>_vars

Spec == Init /\ [][Next]_vars
FairSpec == Spec /\ Fairness

------------------------------------------------------------------------------
\* Properties.

\* Sessions, requests and counters have the form osd_client.c gives them, and a
\* slot is linked (r_osd) only while it has a request.
TypeOK ==
    /\ osdc.epoch \in 1..cluster /\ osdc.want \in BOOLEAN
    /\ \A r \in Slot :
         /\ osdc.req[r].st \in {"free", "live", "completing", "done"}
         /\ osdc.req[r].osd \in Osd \cup {Homeless, NoOsd}
         /\ Live(osdc.req[r]) => osdc.req[r].st = "live"
    /\ \A o \in Osd : osdc.ses[o].lru => osdc.ses[o].reg

\* The writes of a client to one object take effect in the order in which they
\* were submitted: __submit_request assigns the tid with the first send "to protect
\* multiple writes to the same object from racing with each other", and every path
\* that sends again (a map, a reset, a backoff lifted) keeps it. A redirect does
\* not: the redirected write gets a tid behind the writes submitted after it.
WritesInOrder ==
    \A i, j \in DOMAIN log :
      i < j /\ log[i].obj = log[j].obj /\ ~log[i].redir /\ ~log[j].redir
        => log[i].seq < log[j].seq

\* A request that handle_map took off its session and that no event finds again: it
\* was listed for a resend when a later map of the message failed, or kick_requests
\* erased it, since by the latest map its pool is gone, and the monitor dated that
\* map after the client's.
Forgotten(q) ==
    q.st = "live" /\ q.osd = NoOsd /\ (q.lost \/ (q.attempts = 0 /\ q.dne # 0))

\* A map message failed, and the client takes its wish for a map, which the monitor
\* has granted, for outstanding: maybe_request_map does not ask again.
Deaf == osdc.sub = osdc.epoch + 1 /\ ~osdc.want

\* The lingering request has an OSD and is with none: the OSD's address changed in a
\* map that leaves the target as it is (the client skipped the one in which the OSD
\* was down), so that close_osd made it homeless and kick_requests passed it over.
Forsaken == osdc.lr.osd = Homeless /\ osdc.lr.t.osd # Homeless

\* A request that has been submitted and not completed is where some event finds
\* it: on a session that is registered, homeless, or waiting for a map check; save
\* for the two ways in which handle_map forgets one.
Reachable ==
    \A r \in Slot :
      LET q == osdc.req[r] IN
      q.st = "live" => \/ q.osd \in Osd /\ osdc.ses[q.osd].reg
                       \/ q.osd = Homeless \/ q.mc \/ Forgotten(q)

\* A write that handle_reply reports done has been applied, whichever of its sends
\* over whichever connection the reply answers (r_attempts tells them apart).
ToldTruly ==
    \A s \in DOMAIN outcome :
      (outcome[s] = "OK" /\ scen.io[s].kind = "write") => \E i \in DOMAIN log : log[i].seq = s

\* After a backoff was acknowledged, no op in its range is queued on the session
\* until it is lifted (should_plug_request).
BackoffRespected ==
    \A o \in Osd : \A b \in osdc.ses[o].backoffs :
      LET out == osdc.ses[o].out IN
      \A i, j \in DOMAIN out :
        (i < j /\ out[i].type = "ack" /\ out[i].id = b.id /\ out[j].type = "op")
          => ~(out[j].obj % out[j].pgn = b.pg /\ InRange(b, out[j].obj))

\* ceph_osdc_flush_notifies: "make sure no more callbacks for it will be invoked".
NoLateCallback == ~late

\* A request that was submitted completes, whatever maps, resets and backoffs come
\* in between, once the cluster settles on a map that serves or lacks the pool;
\* unless handle_map forgot it, or failed and left the client deaf to later maps.
RequestsComplete ==
    \A s \in 1..2 :
      (issued >= s) ~> \/ s \in DOMAIN outcome /\ outcome[s] # "none"
                       \/ Deaf
                       \/ \E r \in Slot : Forgotten(osdc.req[r]) /\ osdc.req[r].seq = s

\* A watch that the OSDs have lost is reported to the watcher: its error callback
\* is queued and runs, or the watch is given up. Not so while the client is deaf to
\* the map that moves the watch, or the watch is with no session though it has an OSD.
LossReported ==
    (user.pc = "watching" /\ watch # osdc.lr.id)
      ~> \/ osdc.lr.err /\ osdc.lworks = <<>>
         \/ user.pc # "watching" \/ osdc.lr.st # "registered"
         \/ Deaf \/ Forsaken

\* What a client observes of its writes: they take effect in order, and one that it
\* was told is done has taken effect.
EffectsExact == WritesInOrder /\ ToldTruly

\* The bookkeeping of osd_client.c: its types, no request out of every event's reach,
\* backoffs respected and no callback after a flush.
ClientStateSound == TypeOK /\ Reachable /\ BackoffRespected /\ NoLateCallback
=============================================================================
