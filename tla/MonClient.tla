----------------------------- MODULE MonClient ------------------------------
(* The monitor client: it keeps a session with one of the monitors, hunts for     *)
(* another when that breaks, authenticates, subscribes to maps and has requests   *)
(* answered (mon_client.c), for a client that is created, opened, used and        *)
(* destroyed (ceph_common.c) and whose OSD connections need authorizers.          *)
(*                                                                             *)
(* monc->mutex makes a handler one step. The messenger's worker drops con->mutex  *)
(* before it calls a handler and the handler then takes monc->mutex: wk is what    *)
(* the worker holds in between, and another thread may have replaced the session. *)
(* The monitors, the OSDs and the messenger are external.                         *)
EXTENDS AuthX, Sequences, SequencesExt, FiniteSets, FiniteSetsExt

CONSTANTS
    Scenarios,   \* [msgr2, keyed, refuse, nautilus, legacy, init, maps, down, call, share,
                 \*  stop, check, osd, late, faults, rot, epochs]
    MaxMult,     \* CEPH_MONC_HUNT_MAX_MULT
    MaxIn        \* bound: messages of the monitor on their way

VARIABLES
    scen,
    c,      \* struct ceph_mon_client with its connection, auth client and ceph_client;
            \* mixed: the answer to a session that was replaced was taken for one to
            \* this session, and none to this one has succeeded since
    wk,     \* the messenger's worker on the connection
    mon,    \* the session at the monitor's end
    clus,   \* the cluster: the newest osdmap, the blocklist entry's epoch, the
            \* rotating secret, what it spent of the bounds on faults
    user,   \* the thread that owns the client; held: what ceph_monc_stop met when it
            \* closed the session, an answer in the hands of the worker or the timer
            \* armed again; shared: an OSD shared a map older than the one awaited
    osd     \* a connection to an OSD: where its handshake is, and its authorizer

vars == <<scen, c, wk, mon, clus, user, osd>>

Subs == {"monmap", "osdmap"}
Reqs == {"cmd", "ver", "check"}       \* blocklist command, its get_version, a map check
NoSub == [want |-> FALSE, start |-> 0, once |-> FALSE, have |-> 0]
NoGreq == [tid |-> 0, reg |-> FALSE, done |-> FALSE, res |-> 0, refs |-> 0]
NoMon == [challenge |-> 0, authed |-> FALSE, silent |-> FALSE,
          subs |-> [s \in Subs |-> NoSub]]
Idle == [pc |-> "idle", msg |-> [k |-> "none"], stale |-> FALSE]

\* ceph_create_client, ceph_monc_init, build_initial_monmap
ClientInit(sc) ==
    [cur |-> 0, hunting |-> FALSE, had |-> FALSE, mult |-> 1, pend |-> FALSE, sent |-> FALSE,
     subs |-> [s \in Subs |-> NoSub], monmap |-> sc.init, mapped |-> FALSE, timer |-> FALSE,
     ac |-> AuthInit, con |-> "closed", peer |-> 0, ses |-> 1, hs |-> NoReq,
     outq |-> <<>>, inq |-> <<>>, reqs |-> [r \in Reqs |-> NoGreq], tid |-> 0,
     err |-> Ok, osdmap |-> 0, bug |-> FALSE, mixed |-> FALSE]

Now == clus.rot

---------------------------------------------------------------------------
\* The connection, as its owner sees it

\* ceph_msg_revoke of the messages of kind k; ceph_con_send drops on a closed connection
Revoked(m, k) == [m EXCEPT !.outq = SelectSeq(@, LAMBDA x : x.k # k)]
Sends(m, msg) == IF m.con = "closed" THEN m ELSE [m EXCEPT !.outq = Append(@, msg)]

\* __send_prepared_auth_request
SendAuth(m, req) ==
    Sends([Revoked(m, "auth") EXCEPT !.pend = TRUE], [k |-> "auth", req |-> req])

\* A number for a session that no other one still spoken of has
NextSes(n) == (n % 3) + 1

\* __close_session
CloseSession(m) ==
    [m EXCEPT !.con = "closed", !.outq = <<>>, !.inq = <<>>, !.hs = NoReq, !.pend = FALSE,
              !.ac = AuthReset(@)]

\* pick_new_mon: any monitor, if there is a choice any other one
PickNewMon(m) ==
    LET all == DOMAIN m.monmap
    IN  IF Cardinality(all) = 1 \/ m.cur \notin all THEN all ELSE all \ {m.cur}

\* __open_session: a session with monitor i of the map. A hello is the request "none".
OpenSession(m, i) ==
    LET o == [m EXCEPT !.cur = i, !.hunting = TRUE, !.mixed = FALSE, !.sent = FALSE, !.con = "opening",
                       !.peer = m.monmap[i], !.ses = NextSes(@),
                       !.mult = IF m.had THEN Min({2 * @, MaxMult}) ELSE @]
    IN  IF scen.msgr2 THEN [o EXCEPT !.pend = TRUE] ELSE SendAuth(o, NoReq)

\* reopen_session
ReopenSession(m, i) == OpenSession(CloseSession(m), i)

\* un_backoff
UnBackoff(n) == Max({n \div 2, 1})

---------------------------------------------------------------------------
\* Subscriptions

\* __send_subscribe, with its BUG_ON(monc->cur_mon < 0)
SendSubscribe(m) ==
    Sends([Revoked(m, "sub") EXCEPT !.sent = TRUE, !.bug = @ \/ m.cur = 0],
          [k |-> "sub", subs |-> m.subs])

\* __ceph_monc_want_map: whether a request is needed, and the subscription
WantNew(m, s, start, once) ==
    ~(m.subs[s].want /\ m.subs[s].start = start /\ m.subs[s].once = once)
WantMap(m, s, start, once) ==
    [m EXCEPT !.subs[s].want = TRUE, !.subs[s].start = start, !.subs[s].once = once]

\* __ceph_monc_got_map
GotMap(m, s, e) ==
    [m EXCEPT !.subs[s].have = e, !.subs[s].want = @ /\ ~m.subs[s].once,
              !.subs[s].start = IF m.subs[s].want /\ ~m.subs[s].once THEN e + 1 ELSE @]

\* ceph_monc_handle_map and, of ceph_osdc_handle_map, what the monitor client sees
HandleMonMap(m, map) == GotMap([m EXCEPT !.monmap = map, !.mapped = TRUE], "monmap", 1)
HandleOsdMap(m, e) ==
    LET n == Max({m.osdmap, e}) IN GotMap([m EXCEPT !.osdmap = n], "osdmap", n)

---------------------------------------------------------------------------
\* Generic requests

\* register_generic_request and send_generic_request: a reference for the tree, one for
\* the caller
SendGreq(m, r) ==
    Sends([m EXCEPT !.tid = @ + 1,
                    !.reqs[r] = [tid |-> m.tid + 1, reg |-> TRUE, done |-> FALSE, res |-> 0,
                                 refs |-> 2]],
          [k |-> "greq", r |-> r, tid |-> m.tid + 1])

\* __finish_generic_request; put_generic_request
Finished(m, r) ==
    [m EXCEPT !.reqs[r].reg = FALSE,
              !.outq = SelectSeq(@, LAMBDA x : x.k # "greq" \/ x.tid # m.reqs[r].tid)]
PutGreq(m, r) == [m EXCEPT !.reqs[r].refs = @ - 1]

\* cancel_generic_request
CancelGreq(m, r) == IF m.reqs[r].reg THEN PutGreq(Finished(m, r), r) ELSE m

\* A bug: only the subscriptions are sent to a new monitor
ResendGreqsNone(m) == m
\* __resend_generic_request, in the order of the tree
ResendGreqs(m) ==
    LET rs == SetToSortSeq({r \in Reqs : m.reqs[r].reg}, LAMBDA a, b : m.reqs[a].tid < m.reqs[b].tid)
        msgs == [i \in DOMAIN rs |-> [k |-> "greq", r |-> rs[i], tid |-> m.reqs[rs[i]].tid]]
        rev == Revoked(m, "greq")
    IN  IF m.con = "closed" THEN rev ELSE [rev EXCEPT !.outq = @ \o msgs]

---------------------------------------------------------------------------
\* Authentication

\* finish_hunting; __schedule_delayed
FinishHunting(m) ==
    IF ~m.hunting THEN m
    ELSE [m EXCEPT !.hunting = FALSE, !.had = TRUE, !.mult = UnBackoff(@), !.timer = TRUE]

\* finish_auth
FinishAuth(m, ret, was) ==
    LET d == [m EXCEPT !.pend = FALSE, !.mixed = @ /\ (wk.stale \/ ret # Ok)]
    IN  IF ret # Ok THEN [d EXCEPT !.err = ret]
        ELSE IF was \/ ~IsAuthenticated(m.ac, Now) THEN [d EXCEPT !.ac = Validated(@, Now)]
        ELSE ResendGreqs(SendSubscribe([d EXCEPT !.ac = Validated(@, Now)]))

Authed(m) == IsAuthenticated(m.ac, Now)

\* handle_auth_reply
AuthReplied(m, h, was) ==
    LET d == [m EXCEPT !.ac = h.ac, !.mixed = @ \/ wk.stale]
    IN  IF h.ret = Again THEN SendAuth([d EXCEPT !.ac = Validated(@, Now)], BuildRequest(h.ac, Now))
        ELSE FinishHunting(FinishAuth(d, h.ret, was))
HandleAuth(m, r) == AuthReplied(m, HandleAuthReply(Validated(m.ac, Now), r, Now), Authed(m))

\* __validate_auth, ceph_build_auth
ValidateAuth(m) ==
    LET d == [m EXCEPT !.ac = Validated(@, Now)]
    IN  IF m.pend THEN m
        ELSE IF ShouldAuthenticate(m.ac, Now) THEN SendAuth(d, BuildRequest(m.ac, Now)) ELSE d

\* mon_handle_auth_done, mon_handle_auth_bad_method; the connection goes on if it is
\* still the one that was authenticating
AuthDone(m, h, was) ==
    LET f == FinishAuth([m EXCEPT !.ac = h.ac, !.mixed = @ \/ wk.stale], h.ret, was)
    IN  IF h.ret = Ok THEN FinishHunting(f) ELSE f
HandleDone(m, r) == AuthDone(m, HandleReply(Validated(m.ac, Now), r, Now), Authed(m))

---------------------------------------------------------------------------
\* The messenger's worker. A session that is closed under it makes what it holds stale.

\* ceph_destroy_client has freed the client: nothing of it is modelled any more
Gone == user.pc = "gone"

StaleWk == IF wk.pc \in {"idle", "complete"} THEN wk ELSE [wk EXCEPT !.stale = TRUE]
Works(p, msg) == wk' = [pc |-> p, msg |-> msg, stale |-> FALSE]
Rests == wk' = Idle

\* The connection is established; msgr2 authenticates before it is
Connect ==
    /\ ~Gone /\ wk.pc = "idle" /\ c.con = "opening" /\ c.peer \notin clus.down
    /\ mon' = [NoMon EXCEPT !.challenge = c.ses]
    /\ IF scen.msgr2 THEN c' = [c EXCEPT !.con = "auth"] /\ Works("getauth", [k |-> "none"])
       ELSE c' = [c EXCEPT !.con = "open"] /\ UNCHANGED wk
    /\ UNCHANGED <<scen, clus, user, osd>>

\* mon_get_auth_request
GetAuthRequest ==
    /\ wk.pc = "getauth"
    /\ c' = [c EXCEPT !.ac = GetRequest(@, scen.keyed),
                      !.hs = IF wk.stale THEN @ ELSE [NoReq EXCEPT !.op = "start"]]
    /\ Rests
    /\ UNCHANGED <<scen, mon, clus, user, osd>>

\* mon_alloc_msg: the reply to a request that is not there is skipped
Registered(tid) == {r \in Reqs : c.reqs[r].reg /\ c.reqs[r].tid = tid}
TakeMsg ==
    /\ ~Gone /\ wk.pc = "idle" /\ c.con \in {"auth", "open"} /\ c.inq # <<>>
    /\ LET msg == Head(c.inq)
       IN  IF msg.k = "reply" /\ Registered(msg.tid) = {} THEN UNCHANGED wk
           ELSE Works("handle", msg)
    /\ c' = [c EXCEPT !.inq = Tail(@)]
    /\ UNCHANGED <<scen, mon, clus, user, osd>>

Handling(k) == wk.pc = "handle" /\ wk.msg.k = k /\ UNCHANGED <<scen, user, osd>>

\* mon_dispatch: handle_auth_reply
DispatchAuthReply ==
    /\ Handling("auth_reply")
    /\ c' = HandleAuth(c, wk.msg.r) /\ Rests /\ UNCHANGED <<mon, clus>>

\* mon_handle_auth_reply_more: an error is a fault of the connection, which retries
DispatchMore ==
    /\ Handling("more")
    /\ LET h == HandleReply(c.ac, wk.msg.r, Now)
           d == [c EXCEPT !.ac = IF h.ret = Again THEN Validated(h.ac, Now) ELSE h.ac]
       IN  c' = IF wk.stale THEN d
                ELSE IF h.ret = Again THEN [d EXCEPT !.hs = BuildRequest(h.ac, Now)]
                ELSE [d EXCEPT !.con = "opening", !.hs = NoReq, !.inq = <<>>, !.ses = NextSes(@)]
    /\ Rests /\ UNCHANGED <<mon, clus>>

DispatchDone ==
    /\ Handling("done")
    /\ c' = [HandleDone(c, wk.msg.r) EXCEPT !.con = IF wk.stale THEN @ ELSE "open"]
    /\ mon' = IF wk.stale THEN mon ELSE [mon EXCEPT !.authed = TRUE]
    /\ Rests /\ UNCHANGED clus

\* The monitor refuses and hangs up; the connection retries
DispatchBadMethod ==
    /\ Handling("bad")
    /\ LET f == FinishAuth([c EXCEPT !.ac = Validated(@, Now)], Acces, Authed(c))
       IN  c' = IF wk.stale THEN f
                ELSE [f EXCEPT !.con = "opening", !.hs = NoReq, !.inq = <<>>, !.ses = NextSes(@)]
    /\ Rests /\ UNCHANGED <<mon, clus>>

\* osdc->lock is held from the request for a map until the subscription is renewed
OsdcLocked == user.pc = "renew"
\* handle_subscribe_ack, ceph_monc_handle_map, ceph_osdc_handle_map
DispatchMap ==
    /\ wk.pc = "handle" /\ wk.msg.k \in {"sub_ack", "monmap", "osdmap"}
    /\ wk.msg.k = "osdmap" => ~OsdcLocked
    /\ c' = CASE wk.msg.k = "sub_ack" -> [c EXCEPT !.sent = FALSE]
              [] wk.msg.k = "monmap" -> HandleMonMap(c, wk.msg.map)
              [] wk.msg.k = "osdmap" -> HandleOsdMap(c, wk.msg.e)
    /\ Rests /\ UNCHANGED <<scen, mon, clus, user, osd>>

\* handle_statfs_reply, handle_get_version_reply, handle_command_ack: looked up again,
\* and completed after monc->mutex is released
DispatchReply ==
    /\ Handling("reply")
    /\ IF Registered(wk.msg.tid) = {} THEN Rests /\ UNCHANGED c
       ELSE LET r == CHOOSE x \in Registered(wk.msg.tid) : TRUE
            IN  /\ c' = Finished([c EXCEPT !.reqs[r].res = wk.msg.res], r)
                /\ Works("complete", [k |-> "req", r |-> r])
    /\ UNCHANGED <<mon, clus>>

\* complete_generic_request
Complete ==
    /\ wk.pc = "complete"
    /\ c' = PutGreq([c EXCEPT !.reqs[wk.msg.r].done = TRUE], wk.msg.r)
    /\ Rests /\ UNCHANGED <<scen, mon, clus, user, osd>>

\* A bug: a broken session is left to the messenger
MonFaultIgnored ==
    /\ wk.pc = "fault"
    /\ Rests /\ UNCHANGED <<scen, c, mon, clus, user, osd>>
\* mon_fault
MonFault ==
    /\ wk.pc = "fault"
    /\ IF c.cur = 0 \/ c.hunting THEN UNCHANGED <<c, mon>>
       ELSE /\ \E i \in PickNewMon(c) : c' = [ReopenSession(c, i) EXCEPT !.timer = TRUE]
            /\ mon' = NoMon
    /\ Rests /\ UNCHANGED <<scen, clus, user, osd>>

WorkerStep ==
    \/ Connect \/ GetAuthRequest \/ TakeMsg \/ DispatchAuthReply \/ DispatchMore
    \/ DispatchDone \/ DispatchBadMethod \/ DispatchMap \/ DispatchReply \/ Complete
    \/ MonFault
WorkerDue ==
    /\ ~Gone
    /\ \/ wk.pc # "idle"
       \/ c.con = "opening" /\ c.peer \notin clus.down
       \/ c.con \in {"auth", "open"} /\ c.inq # <<>>

---------------------------------------------------------------------------
\* delayed_work. It is late when the monitor would have answered, and only sometimes is;
\* a worker that holds a message may be overtaken.

Stuck == wk.pc = "idle" /\ (c.con = "closed" \/ (c.con = "opening" /\ c.peer \in clus.down)
                            \/ mon.silent)
ContinueHunt ==
    /\ ~Gone /\ c.timer /\ c.hunting
    /\ \/ Stuck /\ UNCHANGED clus
       \/ /\ ~Stuck /\ clus.late < scen.late
          /\ clus' = [clus EXCEPT !.late = @ + 1]
    /\ \E i \in PickNewMon(c) : c' = ReopenSession(c, i)
    /\ mon' = NoMon /\ wk' = StaleWk
    /\ UNCHANGED <<scen, user, osd>>

\* ceph_con_keepalive_expired: the monitor has been silent for long
PingExpired ==
    /\ ~Gone /\ c.timer /\ ~c.hunting /\ mon.silent
    /\ \E i \in PickNewMon(c) : c' = ReopenSession(c, i)
    /\ mon' = NoMon /\ wk' = StaleWk
    /\ UNCHANGED <<scen, clus, user, osd>>

\* The session is alive: new tickets if needed; monitors that forget subscriptions are
\* reminded when the time has come, which is long after they have answered
PushDue(s) == mon.authed /\ mon.subs[s].want /\ mon.subs[s].start <= (IF s = "monmap" THEN 1 ELSE clus.epoch)
Quiet == c.outq = <<>> /\ c.inq = <<>> /\ \A s \in Subs : ~PushDue(s)
Ticked(m) == LET d == ValidateAuth(m) IN [d EXCEPT !.mult = UnBackoff(@)]
Tick ==
    /\ ~Gone /\ c.timer /\ ~c.hunting /\ ~mon.silent
    /\ LET was == Authed(c)
           d == Ticked(c)
       IN  c' \in {d} \cup (IF was /\ scen.legacy /\ Quiet THEN {SendSubscribe(d)} ELSE {})
    /\ c' # c
    /\ UNCHANGED <<scen, wk, mon, clus, user, osd>>

TimerStep == ContinueHunt \/ PingExpired \/ Tick
TimerDue ==
    /\ c.timer /\ ~Gone
    /\ \/ c.hunting /\ Stuck
       \/ ~c.hunting /\ mon.silent
       \/ ~c.hunting /\ ~mon.silent /\ Ticked(c) # c

---------------------------------------------------------------------------
\* The monitors (external)

Replies(m, msg) == [m EXCEPT !.inq = Append(@, msg)]
Reply(kind, ts, key) ==
    [kind |-> kind, proto |-> IF scen.keyed THEN "cephx" ELSE "none", challenge |-> mon.challenge,
     tickets |-> ts, key |-> key, secret |-> Now]

\* What a monitor makes of an authentication request
Answer(req) ==
    CASE scen.refuse -> Reply("refused", {}, 0)
      [] req.op \in {"none", "start"} /\ ~scen.refuse ->
             Reply(IF scen.keyed THEN "challenge" ELSE "session", {}, 0)
      [] req.op = "auth" /\ req.challenge = mon.challenge /\ ~scen.refuse ->
             Reply("session", IF scen.nautilus THEN req.need ELSE {}, 0)
      [] req.op = "svc" /\ Now <= req.key + 1 -> Reply("service", req.need, req.key)
      [] OTHER -> Reply("refused", {}, 0)

\* A message of the client, on an established connection
MonTakes ==
    /\ c.con = "open" /\ ~mon.silent /\ c.outq # <<>> /\ Len(c.inq) < MaxIn
    /\ LET msg == Head(c.outq)
           d == [c EXCEPT !.outq = Tail(@)]
       IN  CASE msg.k = "auth" ->
                    LET a == Answer(msg.req)
                    IN  /\ c' = Replies(d, [k |-> "auth_reply", r |-> a])
                        /\ mon' = [mon EXCEPT !.authed = @ \/ a.kind \in {"session", "service"}]
                        /\ UNCHANGED clus
             [] msg.k = "sub" /\ mon.authed ->
                    /\ c' = IF scen.legacy THEN Replies(d, [k |-> "sub_ack"]) ELSE d
                    /\ mon' = [mon EXCEPT !.subs = [s \in Subs |-> IF msg.subs[s].want THEN msg.subs[s]
                                                                  ELSE @[s]]]
                    /\ UNCHANGED clus
             [] msg.k = "greq" /\ msg.r # "cmd" /\ mon.authed ->
                    /\ c' = Replies(d, [k |-> "reply", tid |-> msg.tid, res |-> clus.epoch])
                    /\ UNCHANGED <<mon, clus>>
             [] msg.k = "greq" /\ msg.r = "cmd" /\ mon.authed ->
                    /\ \/ /\ scen.legacy /\ user.pc = "cmd"
                          /\ c' = Replies(d, [k |-> "reply", tid |-> msg.tid, res |-> 22])
                          /\ UNCHANGED clus
                       \/ /\ ~scen.legacy \/ user.pc # "cmd"
                          /\ c' = Replies(d, [k |-> "reply", tid |-> msg.tid, res |-> 0])
                          /\ clus' = IF clus.blk # 0 THEN clus
                                     ELSE [clus EXCEPT !.epoch = @ + 1, !.blk = clus.epoch + 1]
                    /\ UNCHANGED mon
             [] OTHER -> c' = d /\ UNCHANGED <<mon, clus>>
    /\ UNCHANGED <<scen, wk, user, osd>>

\* The rounds of msgr2's handshake
MonShakes ==
    /\ c.con = "auth" /\ ~mon.silent /\ c.hs # NoReq /\ c.inq = <<>>
    /\ LET a == Answer(c.hs)
           k == CASE a.kind = "challenge" -> "more" [] a.kind = "session" -> "done" [] OTHER -> "bad"
       IN  c' = Replies([c EXCEPT !.hs = NoReq], [k |-> k, r |-> a])
    /\ UNCHANGED <<scen, wk, mon, clus, user, osd>>

\* Maps are pushed to subscribers
MonPushes ==
    /\ c.con = "open" /\ ~mon.silent /\ Len(c.inq) < MaxIn
    /\ \/ /\ PushDue("monmap")
          /\ c' = Replies(c, [k |-> "monmap", map |-> scen.maps])
          /\ mon' = [mon EXCEPT !.subs["monmap"].start = 2]
       \/ /\ PushDue("osdmap")
          /\ c' = Replies(c, [k |-> "osdmap", e |-> clus.epoch])
          /\ mon' = [mon EXCEPT !.subs["osdmap"].start = clus.epoch + 1,
                                !.subs["osdmap"].want = ~mon.subs["osdmap"].once]
    /\ UNCHANGED <<scen, wk, clus, user, osd>>

MonStep == MonTakes \/ MonShakes \/ MonPushes
MonDue ==
    /\ ~mon.silent
    /\ \/ c.con = "open" /\ Len(c.inq) < MaxIn
          /\ \/ c.outq # <<>>
             \/ \E s \in Subs : PushDue(s)
       \/ c.con = "auth" /\ c.hs # NoReq /\ c.inq = <<>>

---------------------------------------------------------------------------
\* What happens to the cluster and to the network

Spend(f) == clus[f] < scen[f] /\ clus' = [clus EXCEPT ![f] = @ + 1]

\* The connection breaks. Once established it is lossy, so it is closed; before, it
\* retries by itself. Either way the owner's fault callback is called.
Break ==
    /\ wk.pc = "idle" /\ c.con \in {"auth", "open"} /\ Spend("faults")
    /\ c' = [c EXCEPT !.con = IF @ = "open" THEN "closed" ELSE "opening", !.hs = NoReq, !.inq = <<>>,
                      !.ses = NextSes(@)]
    /\ mon' = NoMon /\ Works("fault", [k |-> "none"])
    /\ UNCHANGED <<scen, user, osd>>

\* The monitor at the other end stops answering
FallSilent ==
    /\ c.con \in {"auth", "open"} /\ ~mon.silent /\ Spend("faults")
    /\ mon' = [mon EXCEPT !.silent = TRUE]
    /\ UNCHANGED <<scen, c, wk, user, osd>>

NewEpoch ==
    /\ clus.epoch < scen.epochs
    /\ clus' = [clus EXCEPT !.epoch = @ + 1]
    /\ UNCHANGED <<scen, c, wk, mon, user, osd>>

Rotate ==
    /\ Spend("rot") /\ UNCHANGED <<scen, c, wk, mon, user, osd>>

\* An OSD shares a map it has with the client
OsdShares ==
    /\ scen.share /\ user.pc \notin {"new", "stop", "flush", "gone"} /\ c.osdmap > 0
    /\ ~OsdcLocked
    /\ \E e \in 1..clus.epoch :
         /\ c' = HandleOsdMap(c, e)
         /\ user' = [user EXCEPT !.shared = @ \/ (user.pc = "waitmap" /\ e < user.newest)]
    /\ c' # c
    /\ UNCHANGED <<scen, wk, mon, clus, osd>>

Environment == Break \/ FallSilent \/ NewEpoch \/ Rotate \/ OsdShares

---------------------------------------------------------------------------
\* The thread that owns the client

UserAt(p, q) == user.pc = p /\ user' = [user EXCEPT !.pc = q] /\ UNCHANGED <<scen, osd>>
CallOnly == UNCHANGED <<wk, mon, clus>>

\* ceph_monc_open_session
OpenClient ==
    /\ UserAt("new", "wait") /\ CallOnly
    /\ \E i \in PickNewMon(c) :
         c' = [OpenSession(WantMap(WantMap(c, "monmap", 0, FALSE), "osdmap", 0, TRUE), i)
                 EXCEPT !.timer = TRUE]

\* __ceph_open_session: the maps are there, or an error is. ceph_destroy_client stops the
\* timer for good and waits for its work (cancel_delayed_work_sync).
Opened ==
    /\ c.err = Ok /\ c.mapped /\ c.osdmap > 0
    /\ UserAt("wait", "up") /\ CallOnly /\ UNCHANGED c
OpenFails ==
    /\ c.err # Ok \/ scen.stop
    /\ UserAt("wait", "stop") /\ CallOnly
    /\ c' = [c EXCEPT !.timer = FALSE]

\* ceph_monc_blocklist_add: do_mon_command, once more with the legacy name of the
\* command, then ceph_wait_for_latest_osdmap
BlocklistAdd == scen.call /\ UserAt("up", "cmd") /\ CallOnly /\ c' = SendGreq(c, "cmd")
CmdLegacy ==
    /\ c.reqs["cmd"].done /\ c.reqs["cmd"].res # 0
    /\ UserAt("cmd", "cmd2") /\ CallOnly
    /\ c' = SendGreq(PutGreq(c, "cmd"), "cmd")
CmdDone ==
    /\ c.reqs["cmd"].done /\ c.reqs["cmd"].res = 0
    /\ UserAt("cmd", "ver") \/ UserAt("cmd2", "ver")
    /\ CallOnly /\ c' = SendGreq(PutGreq(c, "cmd"), "ver")

\* ceph_wait_for_latest_osdmap; maybe_request_map takes monc->mutex twice
VersionDone ==
    /\ c.reqs["ver"].done /\ user.pc = "ver"
    /\ LET newest == c.reqs["ver"].res
           d == PutGreq(c, "ver")
           new == WantNew(c, "osdmap", c.osdmap + 1, TRUE)
       IN  /\ c' = IF c.osdmap >= newest \/ ~new THEN d ELSE WantMap(d, "osdmap", c.osdmap + 1, TRUE)
           /\ user' = [user EXCEPT !.newest = newest,
                                   !.pc = IF c.osdmap >= newest THEN "done"
                                          ELSE IF new THEN "renew" ELSE "waitmap"]
    /\ CallOnly /\ UNCHANGED <<scen, osd>>
RenewSubs == UserAt("renew", "waitmap") /\ CallOnly /\ c' = SendSubscribe(c)
\* ceph_monc_wait_osdmap
OsdMapThere ==
    /\ c.subs["osdmap"].have >= user.newest
    /\ UserAt("waitmap", "done") /\ CallOnly /\ UNCHANGED c

\* wait_generic_request, interrupted
Interrupted(p, r) ==
    /\ scen.stop /\ ~c.reqs[r].done
    /\ UserAt(p, "failed") /\ CallOnly
    /\ c' = PutGreq(CancelGreq(c, r), r)

\* ceph_destroy_client: the timer is cancelled, the session closed, the worker waited for
Destroy ==
    /\ scen.stop /\ user.pc \in {"up", "done", "failed"}
    /\ UserAt(user.pc, "stop") /\ CallOnly
    /\ c' = [c EXCEPT !.timer = FALSE]
StopMonc ==
    /\ user.pc = "stop"
    /\ user' = [user EXCEPT !.pc = "flush",
                            !.held = (IF c.timer THEN {"timer"} ELSE {})
                                     \cup (IF wk.pc = "handle" THEN {wk.msg.k} ELSE {})]
    /\ UNCHANGED <<scen, osd>>
    /\ c' = [CloseSession(c) EXCEPT !.cur = 0]
    /\ wk' = StaleWk /\ mon' = NoMon /\ UNCHANGED clus
Flushed == wk.pc = "idle" /\ UserAt("flush", "gone") /\ CallOnly /\ UNCHANGED c

UserStep ==
    \/ OpenClient \/ Opened \/ OpenFails \/ BlocklistAdd \/ CmdLegacy \/ CmdDone \/ VersionDone
    \/ RenewSubs \/ OsdMapThere \/ Interrupted("cmd", "cmd") \/ Interrupted("ver", "ver")
    \/ Destroy \/ StopMonc \/ Flushed
UserDue ==
    \/ user.pc \in {"new", "renew"} \/ (user.pc = "up" /\ scen.call)
    \/ user.pc = "wait" /\ (c.err # Ok \/ (c.mapped /\ c.osdmap > 0))
    \/ user.pc \in {"cmd", "cmd2"} /\ c.reqs["cmd"].done
    \/ user.pc = "ver" /\ c.reqs["ver"].done
    \/ user.pc = "waitmap" /\ c.subs["osdmap"].have >= user.newest

---------------------------------------------------------------------------
\* The OSD client and its connections

Mounted == user.pc \notin {"new", "wait", "stop", "flush", "gone"}

\* ceph_monc_get_version_async and the reference it puts afterwards
MapCheck ==
    /\ Mounted /\ scen.check /\ user.chk = "none"
    /\ c' = SendGreq(c, "check") /\ user' = [user EXCEPT !.chk = "put"]
    /\ CallOnly /\ UNCHANGED <<scen, osd>>
MapCheckPut ==
    /\ user.chk = "put"
    /\ c' = PutGreq(c, "check") /\ user' = [user EXCEPT !.chk = "out"]
    /\ CallOnly /\ UNCHANGED <<scen, osd>>

OsdAt(p) == osd.pc = p /\ Mounted /\ UNCHANGED <<scen, wk, mon, clus, user>>

\* osd_get_authorizer, osd_get_auth_request: msgr2 never reuses an authorizer
OsdConnect ==
    /\ OsdAt("idle") /\ scen.osd
    /\ osd' = [osd EXCEPT !.pc = "sent", !.au = GetAuthorizer(c.ac, "OSD", @, scen.msgr2 \/ osd.retry)]
    /\ UNCHANGED c
\* The OSD (external) takes tickets of the current secret and challenges their owner
OsdAnswers ==
    /\ OsdAt("sent")
    /\ osd' = [osd EXCEPT !.pc = IF ~scen.keyed THEN "ok" ELSE IF osd.au.secret = Now THEN "more" ELSE "bad"]
    /\ UNCHANGED c
\* osd_add_authorizer_challenge, osd_handle_auth_reply_more
OsdMore ==
    /\ OsdAt("more")
    /\ osd' = [osd EXCEPT !.pc = "reply", !.au = AddChallenge(@, 1)] /\ UNCHANGED c
\* osd_verify_authorizer_reply, osd_handle_auth_done
OsdDone ==
    /\ OsdAt("reply")
    /\ osd' = [osd EXCEPT !.pc = IF VerifyReply(osd.au, [secret |-> osd.au.secret, nonce |-> osd.au.nonce])
                                 THEN "ok" ELSE "idle", !.retry = FALSE]
    /\ UNCHANGED c
\* BADAUTHORIZER: msgr1 retries with a new authorizer once; then osd_invalidate_authorizer,
\* as in osd_handle_auth_bad_method
OsdBad ==
    /\ OsdAt("bad")
    /\ IF ~scen.msgr2 /\ ~osd.retry
       THEN osd' = [osd EXCEPT !.pc = "idle", !.retry = TRUE] /\ UNCHANGED c
       ELSE /\ osd' = [osd EXCEPT !.pc = "idle", !.retry = FALSE]
            /\ c' = ValidateAuth([c EXCEPT !.ac = InvalidateAuthorizer(@, "OSD")])
\* The OSD restarts, or its connection is idle for too long
OsdClosed ==
    /\ OsdAt("ok") /\ osd.au.secret # Now
    /\ osd' = [osd EXCEPT !.pc = "idle"] /\ UNCHANGED c

OsdStep == MapCheck \/ MapCheckPut \/ OsdConnect \/ OsdAnswers \/ OsdMore \/ OsdDone \/ OsdBad \/ OsdClosed
OsdDue ==
    \/ user.chk = "put"
    \/ Mounted /\ (osd.pc \in {"sent", "more", "reply", "bad"} \/ (osd.pc = "idle" /\ scen.osd))

---------------------------------------------------------------------------
Init ==
    /\ scen \in Scenarios
    /\ c = ClientInit(scen) /\ wk = Idle /\ mon = NoMon
    /\ clus = [epoch |-> 1, blk |-> 0, rot |-> 1, faults |-> 0, late |-> 0, down |-> scen.down]
    /\ user = [pc |-> "new", newest |-> 0, chk |-> "none", held |-> {}, shared |-> FALSE]
    /\ osd = [pc |-> "idle", au |-> NoAuthorizer, retry |-> FALSE]

Next == WorkerStep \/ TimerStep \/ MonStep \/ Environment \/ UserStep \/ OsdStep

Spec == Init /\ [][Next]_vars

\* Workqueues, threads and timers run, a monitor that is not silent answers and an OSD
\* does. Nothing else is fair: maps, rotations and faults happen or not.
Fairness ==
    /\ []<>~WorkerDue \/ []<><<WorkerStep>>_vars
    /\ []<>~TimerDue \/ []<><<TimerStep>>_vars
    /\ []<>~MonDue \/ []<><<MonStep>>_vars
    /\ []<>~UserDue \/ []<><<UserStep>>_vars
    /\ []<>~OsdDue \/ []<><<OsdStep>>_vars
FairSpec == Spec /\ Fairness

---------------------------------------------------------------------------
\* Types; the backoff stays between 1 and CEPH_MONC_HUNT_MAX_MULT, as mon_client.h says
\* of hunt_mult
TypeOK ==
    /\ c.cur \in 0..Max({Len(scen.init), Len(scen.maps)}) /\ c.mult \in 1..MaxMult
    /\ c.con \in {"closed", "opening", "auth", "open"} /\ Len(c.inq) <= MaxIn + 1
    /\ c.ac.have \subseteq Want /\ c.ac.proto \in {"unknown", "none", "cephx"}
    /\ \A s \in Want : c.ac.tick[s].secret \in 0..Now
    /\ \A r \in Reqs : c.reqs[r].refs \in 0..2
    /\ wk.pc \in {"idle", "getauth", "handle", "complete", "fault"}

InFlight(k, p(_)) ==
    \/ \E i \in DOMAIN c.outq : c.outq[i].k = k /\ p(c.outq[i])
    \/ \E i \in DOMAIN c.inq : c.inq[i].k = "reply" /\ k = "greq" /\ p(c.inq[i])

\* The session is established as far as the client knows, and nobody is in the middle of
\* changing that
Settled == c.con = "open" /\ ~c.hunting /\ ~c.mixed /\ ~c.pend /\ wk.pc = "idle" /\ ~mon.silent /\ Authed(c)

\* Once a session is established every request that waits for an answer has been sent on
\* it, however many sessions it was sent on before (finish_auth, __resend_generic_request)
NothingStranded ==
    Settled => \A r \in Reqs : c.reqs[r].reg => InFlight("greq", LAMBDA x : x.tid = c.reqs[r].tid)

\* Likewise the monitor knows of every map that is wanted, or is about to be told, or the
\* map is under way (finish_auth, __send_subscribe)
SubsStanding ==
    Settled /\ user.pc # "renew" =>
        \A s \in Subs : c.subs[s].want =>
            \/ mon.subs[s].want /\ mon.subs[s].once = c.subs[s].once
            \/ \E i \in DOMAIN c.outq : c.outq[i].k = "sub"
            \/ \E i \in DOMAIN c.inq : c.inq[i].k = s

\* A generic request has exactly the references of those who still use it: the tree, the
\* caller that waits for it and the handler that completes it, in whatever order a reply,
\* an interruption and a resend come (get_, put_ and cancel_generic_request)
RefsExact ==
    \A r \in Reqs :
        c.reqs[r].refs = Cardinality({h \in {"tree", "caller", "handler"} :
            \/ h = "tree" /\ c.reqs[r].reg
            \/ h = "caller" /\ \/ r = "cmd" /\ user.pc \in {"cmd", "cmd2"}
                               \/ r = "ver" /\ user.pc = "ver"
                               \/ r = "check" /\ user.chk = "put"
            \/ h = "handler" /\ wk.pc = "complete" /\ wk.msg.r = r})

\* ceph_monc_blocklist_add returns success only when the client's osdmap includes the
\* entry ("Make sure we have the osdmap that includes the blocklist entry")
BlocklistSeen == user.pc = "done" => clus.blk > 0 /\ c.osdmap >= clus.blk

\* While pending_auth keeps new tickets from being asked for, an answer is to be expected:
\* otherwise tickets would never be renewed (__validate_auth)
PendingReal ==
    c.pend /\ ~c.hunting /\ c.con = "open" /\ ~mon.silent =>
        \/ \E i \in DOMAIN c.outq : c.outq[i].k = "auth"
        \/ \E i \in DOMAIN c.inq : c.inq[i].k = "auth_reply"
        \/ wk.pc = "handle" /\ wk.msg.k = "auth_reply"

\* The one-time subscription a caller waits on is spent: ceph_osdc_handle_map drops it for
\* any map, and an OSD shared one older than the caller needs
Spent == user.pc = "waitmap" /\ user.shared /\ ~c.subs["osdmap"].want

\* A caller does not wait for ever: neither for the maps of a new client, nor for the
\* answer to a request, nor for the osdmap it asked for. Two things keep it: its
\* subscription is spent (the next session does not renew it, and ceph_monc_wait_osdmap
\* does not either); or the client stays on a msgr1 session in whose handshake
\* handle_auth_reply put an answer to the session before. It takes that one's challenge, or
\* it ends the hunt with an error and __validate_auth replaces the hello; the monitor
\* refuses what follows, and nothing but a fault ends it.
CallersReturn ==
    /\ \A p \in {"wait", "cmd", "cmd2", "ver"} : []<>(user.pc # p) \/ <>[]c.mixed
    /\ []<>(user.pc # "waitmap") \/ <>[]c.mixed \/ <>[]Spent

\* An OSD connection whose authorizer is refused gets a new ticket and succeeds
\* (invalidate_authorizer, ceph_monc_validate_auth, update_authorizer), unless the
\* monitor's session is mixed up as above
OsdAuthorized ==
    ((scen.osd /\ Mounted) ~> (osd.pc = "ok" \/ ~Mounted)) \/ <>[]c.mixed

\* Subscriptions are sent on a session only: BUG_ON(monc->cur_mon < 0) in
\* __send_subscribe fires only when ceph_monc_stop closes the session while the
\* messenger's worker holds the answer that authenticates it, or with the timer armed
\* again. handle_auth_reply, mon_handle_auth_done and delayed_work do not look at cur_mon.
NoBug == c.bug => user.held \cap {"timer", "auth_reply", "done"} # {}

\* A msgr2 session is authenticated while it is hunted for, WARN_ON(!monc->hunting) in
\* mon_handle_auth_done, unless the answer to a session that was replaced has ended the hunt
DoneWhileHunting == (wk.pc = "handle" /\ wk.msg.k = "done") => c.hunting \/ c.mixed

\* The timer is not left armed on a client that is freed, but for the two ways
\* ceph_monc_stop leaves open: it was armed again between cancel_delayed_work_sync and
\* __close_session (finish_hunting, mon_fault), or by the answer the worker still held
TimerStopped == (Gone /\ c.timer) => user.held \cap {"timer", "auth_reply", "done"} # {}

\* The bookkeeping of the monitor client: its types, no BUG_ON or WARN_ON and no timer left
\* behind but where a stopped or replaced session is answered, requests and subscriptions
\* that follow the session, exact references, a pending authentication that is one, and
\* a blocklist entry that was waited for.
MonStateSound ==
    /\ TypeOK /\ NoBug /\ DoneWhileHunting /\ TimerStopped
    /\ NothingStranded /\ SubsStanding
    /\ RefsExact /\ BlocklistSeen /\ PendingReal
=============================================================================
