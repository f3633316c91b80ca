------------------------------ MODULE Messenger ------------------------------
(* A connection of libceph's messenger (messenger.c, messenger_v1.c and          *)
(* messenger_v2.c) between its owner (the monitor or OSD client) and a peer.      *)
(*                                                                             *)
(* The worker ceph_con_workfn holds con->mutex from one callback to the next: pc  *)
(* says where it is, and the owner's calls happen when it is idle or in a         *)
(* callback (cb_...). The callbacks of the socket take no lock. A frame of the      *)
(* protocol is one step; FrameOut and FrameIn model its bytes. The peer and     *)
(* TCP are external: a connection breaks at any time, what was written before      *)
(* may still be read, and the peer may have forgotten the session.                *)
EXTENDS MsgrCon, FiniteSets

CONSTANT
    Scenarios  \* [v1, lossy, seqx, more, reopen, msgs, replies, faults]: msgr1 or
               \* msgr2; the policy of the peer; whether a msgr1 peer exchanges
               \* sequence numbers; whether authentication takes two rounds; whether
               \* the owner closes and opens the connection; bounds: messages of the
               \* owner, messages of the peer, and faults

VARIABLES
    scen,
    con,
    pc,      \* where the worker is
    cur,     \* the message header it is about to allocate a message for
    net,     \* the TCP connection: up (none, syn, est or reset), the frames of
             \* each direction, old: what was written to the last one and is not
             \* read yet, full: no space to write, hold: the rest of a message is
             \* still on its way
    peer,    \* the peer's session
    user,    \* the owner: [n, tail, stray, open, revoked, lost, skipped, epoch, ka];
             \* tail: its threads that have dropped the mutex in ceph_con_send or
             \* ceph_con_keepalive and not yet set WRITE_PENDING; stray: one of them
             \* set it on a connection that had gone to STANDBY meanwhile, with
             \* nothing to send
    got,     \* the messages dispatched to the owner: [id, epoch]
    faults

vars == <<scen, con, pc, cur, net, peer, user, got, faults>>

NoNet == [up |-> "none", out |-> <<>>, in |-> <<>>, old |-> <<>>, full |-> FALSE,
          hold |-> FALSE]
NoSess == [cc |-> 0, sc |-> 0, cseq |-> 0, gseq |-> 0, inseq |-> 0, acked |-> 0, outseq |-> 0,
           tx |-> 0, queue |-> <<>>, seqx |-> FALSE]

Init ==
    /\ scen \in Scenarios
    /\ con = ConInit /\ pc = "idle" /\ cur = NoMsg /\ net = NoNet
    /\ peer = [sess |-> NoSess, has |-> FALSE, bound |-> "none", cookies |-> 0,
               delivered |-> <<>>, n |-> 0, gone |-> {}]
    /\ user = [n |-> 0, tail |-> 0, stray |-> FALSE, open |-> FALSE, revoked |-> {}, lost |-> {},
               skipped |-> {}, epoch |-> 0, ka |-> 0]
    /\ got = <<>> /\ faults = 0

Callbacks == {"cb_alloc", "cb_dispatch", "cb_reset", "cb_authreq", "cb_more", "cb_bad",
              "cb_done", "cb_fault"}
MutexFree == pc \in Callbacks \cup {"idle"}

Ids(q) == {q[i].id : i \in DOMAIN q}

\* The client's end of the socket is closed when the connection says so; what it
\* wrote may still reach the peer.
Closed(n) == [NoNet EXCEPT !.old = IF n.up \in {"est", "reset"} THEN n.out ELSE n.old]
NetOf(c, n) == IF c.sock = "CLOSED" /\ n.up # "none" THEN Closed(n) ELSE n
BoundOf(c) == IF c.sock = "CLOSED" /\ net.up \in {"est", "reset"}
              THEN [peer EXCEPT !.bound = IF @ = "cur" THEN "old" ELSE "none"] ELSE peer

\* The worker goes on with connection c, the network n at position p.
Goes(c, n, p) ==
    /\ con' = c /\ pc' = p
    /\ net' = NetOf(c, n)
    /\ peer' = BoundOf(c)
    /\ UNCHANGED scen
Worker(c, n, p) == Goes(c, n, p) /\ UNCHANGED faults

\* An error of try_read or try_write ends the work with con_fault.
Fails(c, n) == Worker(ConFault(c), n, "cb_fault")

\* Failures the environment chooses are bounded.
Spends == faults < scen.faults /\ faults' = faults + 1

------------------------------------------------------------------------------
\* What the worker prepares for the wire.

Put(c, fs) == SetFlag([c EXCEPT !.obuf = @ \o fs], "WRITE_PENDING")
Reput(c, fs) == Put([c EXCEPT !.obuf = <<>>], fs)

\* prepare_write_connect and __prepare_write_connect
ConnectFrame(c, chal) == [k |-> "connect", cseq |-> c.cseq, gseq |-> c.gseq, chal |-> chal]
PrepareWriteConnect(c) ==
    LET d == GetGlobalSeq(c, 0)
        e == [d EXCEPT !.gseq = d.mg]
    IN  Put(e, <<ConnectFrame(e, FALSE)>>)
RewriteConnect(c) == PrepareWriteConnect([c EXCEPT !.obuf = <<>>])

\* prepare_client_ident; the cookie is a number no other attempt had
PrepareClientIdent(c) ==
    LET d == [WarnIf(c, c.sc # 0 \/ c.cseq # 0 \/ c.pgs # 0) EXCEPT
                !.cc = IF @ = 0 THEN c.mg ELSE @]
    IN  Put(d, <<[k |-> "client_ident", cc |-> d.cc, gseq |-> d.gseq]>>)

\* prepare_session_reconnect
PrepareSessionReconnect(c) ==
    Put(WarnIf(c, 0 \in {c.cc, c.sc, c.cseq, c.pgs}),
        <<[k |-> "reconnect", sc |-> c.sc, gseq |-> c.gseq, cseq |-> c.cseq,
           inseq |-> c.inseq]>>)

\* prepare_write_ack, prepare_ack, prepare_write_seq
Acked(c, k) == Put([c EXCEPT !.acked = c.inseq], <<[k |-> k, seq |-> c.inseq]>>)

\* prepare_write_message and prepare_message; v1 sneaks an ack in before it, v2
\* puts it into the header
MsgFrame(c) == [k |-> "msg", id |-> c.outmsg.id, seq |-> c.outmsg.seq, ack |-> c.acked]
PrepareMessage(c) ==
    LET d == GetOutMsg(IF c.inseq = c.acked THEN c
                       ELSE IF scen.v1 THEN Acked(c, "ack")
                       ELSE [c EXCEPT !.acked = c.inseq])
    IN  Put(d, <<MsgFrame(d)>>)

\* do_next of ceph_con_v1_try_write, and populate_out_iter
Populate(c) ==
    CASE c.obuf # <<>> -> c
      [] c.state = "OPEN" /\ Has(c, "KEEPALIVE_PENDING") ->
           Put(ClearFlags(c, {"KEEPALIVE_PENDING"}), <<[k |-> "ka"]>>)
      [] c.state = "OPEN" /\ ~Has(c, "KEEPALIVE_PENDING") /\ c.outq # <<>> -> PrepareMessage(c)
      [] c.state = "OPEN" /\ ~Has(c, "KEEPALIVE_PENDING") /\ c.outq = <<>>
         /\ c.inseq > c.acked -> Acked(c, "ack")
      [] OTHER -> ClearFlags(c, {"WRITE_PENDING"})

------------------------------------------------------------------------------
\* ceph_con_workfn

\* The top of the loop: con_sock_closed, con_backoff, standby and closed
Top(c) ==
    CASE Has(c, "SOCK_CLOSED") -> Fails(ClearFlags(c, {"SOCK_CLOSED"}), net)
      [] ~Has(c, "SOCK_CLOSED") /\ Has(c, "BACKOFF") ->
           Worker(IF c.work = "none" THEN QueueConDelay(ClearFlags(c, {"BACKOFF"})) ELSE c,
                  net, "idle")
      [] c.flags \cap {"SOCK_CLOSED", "BACKOFF"} = {} /\ c.state \in {"STANDBY", "CLOSED"} ->
           Worker(WarnIf(c, c.state = "CLOSED" /\ net.up # "none"), net, "idle")
      [] OTHER ->
           Worker(WarnIf(c, c.state = "PREOPEN" /\ net.up # "none"), net, "read")

StartWork ==
    /\ pc = "idle" /\ con.work = "now"
    /\ Top([con EXCEPT !.work = "none"])
    /\ UNCHANGED <<cur, user, got>>

\* A step of try_read returned -EAGAIN
Again ==
    /\ pc = "top"
    /\ Top(con)
    /\ UNCHANGED <<cur, user, got>>

\* try_write of a connection in PREOPEN: the socket is opened first, which may fail
\* at once (ok is FALSE).
TryWriteConnect(ok) ==
    LET c1 == GetGlobalSeq(con, 0)
        c2 == IF scen.v1 THEN [con EXCEPT !.state = "V1_BANNER"]
              ELSE [c1 EXCEPT !.state = "V2_BANNER_PREFIX", !.gseq = c1.mg,
                              !.cseq = IF con.sc # 0 THEN @ + 1 ELSE @]
        c3 == SockConnecting(Reput(c2, <<[k |-> "banner"]>>)) IN
    /\ pc = "write" /\ con.state = "PREOPEN"
    /\ IF ok THEN Worker(c3, [net EXCEPT !.up = "syn"], "write")
       ELSE Spends /\ Goes(ConFault(c3), net, "cb_fault")
    /\ UNCHANGED <<cur, user, got>>

\* try_write: write what is prepared, then what comes next, until there is nothing
\* to write or no space (ok is FALSE). A socket that still connects has no space,
\* one that was reset gives an error.
Writable == con.state \notin {"PREOPEN", "CLOSED", "STANDBY"}
TryWrite(ok) ==
    LET c == Populate(con) IN
    /\ pc = "write" /\ Writable /\ c.obuf # <<>>
    /\ CASE net.up = "reset" -> ok /\ Fails(c, net)
         [] net.up = "syn" -> ok /\ Worker(c, net, "idle")
         [] net.up = "est" /\ ok /\ ~net.full ->
              Worker([c EXCEPT !.obuf = <<>>, !.outmsg = NoMsg],
                     [net EXCEPT !.out = @ \o c.obuf], "write")
         [] net.up = "est" /\ ok /\ net.full -> Worker(c, net, "idle")
         [] OTHER -> ~ok /\ ~net.full /\ Spends /\ Goes(c, [net EXCEPT !.full = TRUE], "idle")
    /\ UNCHANGED <<cur, user, got>>

NothingToWrite ==
    /\ pc = "write" /\ con.state # "PREOPEN"
    /\ ~Writable \/ Populate(con).obuf = <<>>
    /\ Worker(IF Writable THEN Populate(con) ELSE con, net, "idle")
    /\ UNCHANGED <<cur, user, got>>

------------------------------------------------------------------------------
\* ceph_con_v1_try_read and ceph_con_v2_try_read: one frame per step, as far as it
\* has arrived.

\* The frames each state takes; anything else, and a frame that does not verify, is
\* a protocol or integrity error.
Expected(s) ==
    CASE s = "V1_BANNER" -> {"banner"}
      [] s = "V1_CONNECT_MSG" -> {"reply"}
      [] s = "V2_BANNER_PREFIX" -> {"bprefix"}
      [] s = "V2_BANNER_PAYLOAD" -> {"bpayload"}
      [] s = "V2_HELLO" -> {"hello"}
      [] s = "V2_AUTH" -> {"auth_bad", "auth_more", "auth_done"}
      [] s = "V2_AUTH_SIGNATURE" -> {"auth_sig"}
      [] s = "V2_SESSION_CONNECT" -> {"server_ident"}
      [] s = "V2_SESSION_RECONNECT" -> {"reconnect_ok", "retry", "retry_global", "reset"}
      [] s = "OPEN" -> {"seqval", "ack", "kaack", "close", "msghdr", "msgbody"}
      [] OTHER -> {}

Arrived == /\ Expected(con.state) # {} /\ net.in # <<>>
           /\ ~(net.hold /\ Head(net.in).k = "msgbody")
Read(kinds) == pc = "read" /\ Arrived /\ Head(net.in).k \in kinds \cap Expected(con.state)
Rest == [net EXCEPT !.in = Tail(@)]
F == Head(net.in)

NothingToRead ==
    /\ pc = "read" /\ ~Arrived
    /\ Worker(con, net, "write")
    /\ UNCHANGED <<cur, user, got>>

ReadBad ==
    /\ pc = "read" /\ Arrived /\ F.k \notin Expected(con.state)
    /\ Fails(con, Rest)
    /\ UNCHANGED <<cur, user, got>>

\* process_banner of v1, then prepare_write_connect, whose get_authorizer may fail;
\* process_banner_prefix and process_banner_payload of v2
ProcessBanner(ok) ==
    /\ Read({"banner", "bprefix", "bpayload"})
    /\ CASE ~ok -> /\ F.k = "banner" /\ Spends
                   /\ Goes(ConFault([con EXCEPT !.state = "V1_CONNECT_MSG"]), Rest, "cb_fault")
         [] F.k = "banner" /\ ok ->
              Worker(PrepareWriteConnect([con EXCEPT !.state = "V1_CONNECT_MSG"]), Rest, "write")
         [] F.k = "bprefix" /\ ok ->
              Worker([con EXCEPT !.state = "V2_BANNER_PAYLOAD"], Rest, "read")
         [] OTHER ->
              Worker(Put([con EXCEPT !.state = "V2_HELLO"], <<[k |-> "hello"]>>), Rest, "read")
    /\ UNCHANGED <<cur, user, got>>

\* process_connect: tags READY and SEQ
Opened(c, f) ==
    LET d == [WarnIf(c, c.cseq + 1 # f.cseq) EXCEPT
                !.state = "OPEN", !.retry = 0, !.pgs = f.gseq, !.cseq = @ + 1, !.delay = 0]
    IN  IF f.lossy THEN SetFlag(d, "LOSSYTX") ELSE d

\* process_connect
Lost(c) == Ids(c.outq) \cup Ids(c.sent)
ProcessConnect ==
    /\ Read({"reply"})
    /\ CASE F.tag = "CHALLENGE" -> Worker(Reput(con, <<ConnectFrame(con, TRUE)>>), Rest, "read")
         [] F.tag = "REFUSED" \/ (F.tag = "BADAUTHORIZER" /\ con.retry = 1) ->
              Fails([con EXCEPT !.retry = IF F.tag = "REFUSED" THEN @ ELSE 2], Rest)
         [] F.tag = "BADAUTHORIZER" /\ con.retry # 1 ->
              Worker(RewriteConnect([con EXCEPT !.retry = @ + 1]), Rest, "read")
         [] F.tag = "RESETSESSION" ->
              Worker(RewriteConnect(ResetSession(con)), Rest, "cb_reset")
         [] F.tag = "RETRY_SESSION" ->
              Worker(RewriteConnect([con EXCEPT !.cseq = F.cseq]), Rest, "read")
         [] F.tag = "RETRY_GLOBAL" ->
              Worker(RewriteConnect(GetGlobalSeq(con, F.gseq)), Rest, "read")
         [] F.tag = "READY" -> Worker(Opened(con, F), Rest, "read")
         [] OTHER -> Worker(Acked([Opened(con, F) EXCEPT !.obuf = <<>>], "seq"), Rest, "read")
    /\ user' = IF F.tag = "RESETSESSION" THEN [user EXCEPT !.lost = @ \cup Lost(con)] ELSE user
    /\ UNCHANGED <<cur, got>>

\* process_hello, process_auth_bad_method, process_auth_reply_more and
\* process_auth_done, up to where they drop the mutex
ProcessAuth ==
    /\ Read({"hello", "auth_bad", "auth_more", "auth_done"})
    /\ Worker(IF F.k = "auth_more" THEN [con EXCEPT !.obuf = <<>>] ELSE con, Rest,
              CASE F.k = "hello" -> "cb_authreq" [] F.k = "auth_bad" -> "cb_bad"
                [] F.k = "auth_more" -> "cb_more" [] OTHER -> "cb_done")
    /\ UNCHANGED <<cur, user, got>>

\* process_auth_signature
ProcessAuthSignature ==
    /\ Read({"auth_sig"})
    /\ Worker(IF con.sc = 0
              THEN PrepareClientIdent([con EXCEPT !.state = "V2_SESSION_CONNECT"])
              ELSE PrepareSessionReconnect([con EXCEPT !.state = "V2_SESSION_RECONNECT"]),
              Rest, "read")
    /\ UNCHANGED <<cur, user, got>>

\* process_server_ident
ProcessServerIdent ==
    LET c == [WarnIf(con, F.lossy = (F.sc # 0)) EXCEPT
                !.pgs = F.gseq, !.sc = F.sc, !.delay = 0, !.state = "OPEN"] IN
    /\ Read({"server_ident"})
    /\ Worker(IF F.lossy THEN SetFlag(c, "LOSSYTX") ELSE c, Rest, "read")
    /\ UNCHANGED <<cur, user, got>>

\* process_session_reconnect_ok, process_session_retry, process_session_retry_global
\* and process_session_reset
ProcessSession ==
    /\ Read({"reconnect_ok", "retry", "retry_global", "reset"})
    /\ CASE F.k = "reconnect_ok" ->
              Worker([DiscardRequeued(con, F.seq) EXCEPT !.delay = 0, !.state = "OPEN"],
                     Rest, "read")
         [] F.k = "retry" ->
              Worker(PrepareSessionReconnect([WarnIf(con, F.cseq <= con.cseq) EXCEPT
                         !.cseq = F.cseq + 1, !.obuf = <<>>]), Rest, "read")
         [] F.k = "retry_global" ->
              LET c == GetGlobalSeq(WarnIf(con, F.gseq <= con.gseq), F.gseq) IN
              Worker(PrepareSessionReconnect([c EXCEPT !.gseq = c.mg, !.obuf = <<>>]),
                     Rest, "read")
         [] OTHER -> Worker(ResetSession(con), Rest, "cb_reset")
    /\ user' = IF F.k = "reset" THEN [user EXCEPT !.lost = @ \cup Lost(con)] ELSE user
    /\ UNCHANGED <<cur, got>>

\* process_ack of both protocols, read_keepalive_ack, process_keepalive2_ack, and
\* CEPH_MSGR_TAG_CLOSE
ProcessAck ==
    /\ Read({"seqval", "ack", "kaack", "close"})
    /\ Worker(CASE F.k = "seqval" -> DiscardRequeued(con, F.seq)
                [] F.k = "ack" -> DiscardSent(con, F.seq)
                [] F.k = "kaack" -> con
                [] OTHER -> [CloseSocket(con) EXCEPT !.state = "CLOSED"], Rest, "read")
    /\ UNCHANGED <<cur, user, got>>

\* read_partial_message and process_message_header, up to ops->alloc_msg: a message
\* already seen is skipped (v2 counts what it skips), one too far ahead is an error
MessageHeader ==
    /\ Read({"msghdr"})
    /\ CASE F.seq <= con.inseq ->
              Worker([con EXCEPT !.skip = IF scen.v1 THEN "drop" ELSE "count"], Rest, "read")
              /\ UNCHANGED cur
         [] F.seq > con.inseq + 1 -> Fails(con, Rest) /\ UNCHANGED cur
         [] OTHER ->
              /\ Worker(WarnIf(IF scen.v1 THEN con ELSE DiscardSent(con, F.ack),
                               con.inmsg # NoMsg), Rest, "cb_alloc")
              /\ cur' = [id |-> F.id, seq |-> F.seq, epoch |-> F.epoch]
    /\ UNCHANGED <<user, got>>

\* The rest of a message: skipped, or handed to ceph_con_process_message
MessageBody ==
    /\ Read({"msgbody"})
    /\ IF con.skip # "no"
       THEN /\ Worker([con EXCEPT !.skip = "no",
                                  !.inseq = IF con.skip = "count" THEN @ + 1 ELSE @],
                      Rest, "read")
            /\ UNCHANGED got
       ELSE /\ Worker(ProcessMessage(con), Rest, "cb_dispatch")
            /\ got' = Append(got, [id |-> con.inmsg.id, epoch |-> con.inmsg.epoch,
                                   now |-> user.epoch])
    /\ UNCHANGED <<cur, user>>

------------------------------------------------------------------------------
\* The callbacks return; the connection may have been closed meanwhile.

\* alloc_msg of the owner gives a message, wants it skipped, or fails
AllocReturns(r) ==
    /\ pc = "cb_alloc"
    /\ cur' = NoMsg
    /\ CASE con.state # "OPEN" -> r = "msg" /\ Worker(con, net, "top")
         [] con.state = "OPEN" /\ r = "msg" -> Worker(InMsgAlloc(con, cur), net, "read")
         [] con.state = "OPEN" /\ r = "nomem" -> Spends /\ Goes(ConFault(con), net, "cb_fault")
         [] OTHER -> Spends /\ Goes(IF scen.v1 THEN [con EXCEPT !.inseq = @ + 1, !.skip = "drop"]
                                    ELSE [con EXCEPT !.skip = "count"], net, "read")
    /\ user' = IF con.state = "OPEN" /\ r = "skip"
               THEN [user EXCEPT !.skipped = @ \cup {cur.id}] ELSE user
    /\ UNCHANGED got

\* dispatch: v1 goes on reading whatever the state is, v2 starts over
DispatchReturns ==
    /\ pc = "cb_dispatch"
    /\ Worker(con, net, IF scen.v1 \/ con.state = "OPEN" THEN "read" ELSE "top")
    /\ UNCHANGED <<cur, user, got>>

\* peer_reset
ResetReturns ==
    /\ pc = "cb_reset"
    /\ CASE con.state = "V1_CONNECT_MSG" -> Worker(con, net, "read")
         [] con.state = "V2_SESSION_RECONNECT" ->
              Worker(PrepareClientIdent([con EXCEPT !.obuf = <<>>,
                                                    !.state = "V2_SESSION_CONNECT"]),
                     net, "read")
         [] OTHER -> Worker(con, net, "top")
    /\ UNCHANGED <<cur, user, got>>

\* prepare_auth_request, prepare_auth_request_more, process_auth_done and
\* process_auth_bad_method after their callbacks; ok: the callback succeeded
AuthState(p) == IF p = "cb_authreq" THEN "V2_HELLO" ELSE "V2_AUTH"
AuthReturns(ok) ==
    /\ pc \in {"cb_authreq", "cb_more", "cb_done", "cb_bad"}
    /\ CASE con.state # AuthState(pc) -> ok /\ Worker(con, net, "top")
         [] con.state = AuthState(pc) /\ pc = "cb_bad" -> ok /\ Fails(con, net)
         [] con.state = AuthState(pc) /\ pc # "cb_bad" /\ ~ok ->
              Spends /\ Goes(ConFault(con), net, "cb_fault")
         [] OTHER ->
              /\ Worker(CASE pc = "cb_authreq" ->
                               Put([con EXCEPT !.state = "V2_AUTH"], <<[k |-> "auth_req"]>>)
                          [] pc = "cb_more" -> Put(con, <<[k |-> "auth_req_more"]>>)
                          [] OTHER -> Reput([con EXCEPT !.state = "V2_AUTH_SIGNATURE"],
                                            <<[k |-> "auth_sig"]>>), net, "read")
    /\ UNCHANGED <<cur, user, got>>

\* con_fault_finish: the authorizer is invalidated after a failed retry
FaultReturns ==
    /\ pc = "cb_fault"
    /\ Worker([con EXCEPT !.retry = 0], net, "idle")
    /\ UNCHANGED <<cur, user, got>>

------------------------------------------------------------------------------
\* The owner's calls.

Owner(c) == /\ con' = c /\ net' = NetOf(c, net) /\ peer' = BoundOf(c)
            /\ UNCHANGED <<scen, pc, cur, got>>

\* ceph_con_open
Open ==
    /\ MutexFree /\ ~user.open
    /\ Owner(ConOpen(con))
    /\ user' = [user EXCEPT !.open = TRUE]
    /\ UNCHANGED faults

\* ceph_con_close; the owner takes a connection down with its session
Close ==
    /\ MutexFree /\ user.open /\ scen.reopen /\ Spends
    /\ Owner(ConClose(con))
    /\ user' = [user EXCEPT !.open = FALSE, !.stray = FALSE, !.epoch = @ + 1, !.lost = @ \cup Lost(con)]

\* ceph_con_send, up to where it drops the mutex
Send ==
    LET id == user.n + 1
        closed == con.state = "CLOSED" IN
    /\ MutexFree /\ id <= scen.msgs /\ user.open
    /\ Owner(ConSend(con, id, scen.v1))
    /\ user' = IF closed THEN [user EXCEPT !.n = id, !.lost = @ \cup {id}]
               ELSE [user EXCEPT !.n = id, !.tail = @ + 1]
    /\ UNCHANGED faults

\* The rest of ceph_con_send and ceph_con_keepalive, without the mutex
SendTail ==
    /\ user.tail # 0
    /\ Owner(KickWrite(con))
    /\ user' = [user EXCEPT !.tail = @ - 1, !.stray = @ \/ (con.state = "STANDBY" /\ con.outq = <<>>)]
    /\ UNCHANGED faults

\* ceph_msg_revoke; how says whether a frame partly written ends as aborted
RevokeMsg(id, how) ==
    /\ MutexFree /\ id \in Lost(con) /\ Spends
    /\ how = "msg" => con.outmsg.id = id /\ ~scen.v1
    /\ Owner(Revoke(con, id, how))
    /\ user' = [user EXCEPT !.revoked = @ \cup {id}]

\* ceph_msg_revoke_incoming
RevokeIn ==
    /\ MutexFree /\ con.inmsg # NoMsg /\ Spends
    /\ Owner(RevokeIncoming(con, scen.v1))
    /\ user' = [user EXCEPT !.skipped = @ \cup {con.inmsg.id}]

\* ceph_con_keepalive, up to where it drops the mutex
Keepalive ==
    /\ MutexFree /\ user.open /\ user.ka = 0 /\ Spends
    /\ Owner(ConKeepalive(con, scen.v1))
    /\ user' = [user EXCEPT !.ka = 1, !.tail = @ + 1]

------------------------------------------------------------------------------
\* The socket's callbacks and the timer; they take no lock.

Sock(c, n) == con' = c /\ net' = n /\ UNCHANGED <<scen, pc, cur, peer, user, got>>

Established ==
    /\ net.up = "syn"
    /\ Sock(SockStateChange(con, TRUE), [net EXCEPT !.up = "est"])
    /\ UNCHANGED faults

\* The connection breaks; what was on its way to the client may be lost.
NetReset(keep) ==
    /\ net.up \in {"syn", "est"} /\ Spends
    /\ Sock(SockStateChange(con, FALSE),
            [net EXCEPT !.up = "reset", !.in = IF keep THEN @ ELSE <<>>,
                        !.out = IF net.up = "est" THEN @ ELSE <<>>])

\* ceph_sock_write_space
WriteSpace ==
    /\ net.full
    /\ Sock(IF Has(con, "WRITE_PENDING") THEN QueueCon(con) ELSE con,
            [net EXCEPT !.full = FALSE])
    /\ UNCHANGED faults

\* ceph_sock_data_ready
DataReady ==
    /\ net.hold
    /\ Sock(QueueCon(con), [net EXCEPT !.hold = FALSE])
    /\ UNCHANGED faults

TimerFires ==
    /\ con.work = "delayed"
    /\ Sock([con EXCEPT !.work = "now"], net)
    /\ UNCHANGED faults

\* A frame is damaged on its way; its crc or its authentication tag shows it.
Garble ==
    /\ net.in # <<>> /\ Head(net.in).k # "bad" /\ Spends
    /\ Sock(con, [net EXCEPT !.in[1] = [k |-> "bad"]])

------------------------------------------------------------------------------
\* The peer. It reads the current connection, or what is left of the last one; what
\* it answers there is lost.

Pending(side) == IF side = "cur" THEN net.out ELSE net.old
Takes(side, kinds) == Pending(side) # <<>> /\ Head(Pending(side)).k \in kinds
Answer(side, p, fs) ==
    /\ peer' = p
    /\ net' = IF side = "cur"
              THEN [net EXCEPT !.out = Tail(@), !.in = IF net.up = "est" THEN @ \o fs ELSE @]
              ELSE [net EXCEPT !.old = Tail(@)]
    /\ con' = IF side = "cur" /\ net.up = "est" /\ fs # <<>> THEN QueueCon(con) ELSE con
    /\ UNCHANGED <<scen, pc, cur, user, got>>

PeerGreets(side) ==
    LET k == Head(Pending(side)).k
        fs == CASE k = "banner" /\ scen.v1 -> <<"banner">>
                [] k = "banner" /\ ~scen.v1 -> <<"bprefix", "bpayload">>
                [] k = "auth_req" -> <<IF scen.more THEN "auth_more" ELSE "auth_done">>
                [] k = "auth_req_more" -> <<"auth_done">>
                [] k = "ka" -> <<"kaack">>
                [] OTHER -> <<k>> IN
    /\ Takes(side, {"banner", "hello", "auth_req", "auth_req_more", "auth_sig", "ka"})
    /\ Answer(side, peer, [i \in DOMAIN fs |-> [k |-> fs[i]]])
    /\ UNCHANGED faults

\* A new session, or the session found again on connection side: what the client
\* has not acknowledged is sent again.
Fresh(side, f) == [peer EXCEPT !.bound = side, !.has = TRUE, !.cookies = @ + 1,
                     !.sess = [NoSess EXCEPT !.gseq = f.gseq]]
Found(side, f) == [peer EXCEPT !.bound = side, !.sess.gseq = f.gseq, !.sess.tx = 0]
Reply(tag, cseq, gseq) == [k |-> "reply", tag |-> tag, cseq |-> cseq, gseq |-> gseq,
                           lossy |-> scen.lossy]

\* msgr1: the answer to a connect
PeerConnects(side) ==
    LET f == Head(Pending(side))
        s == peer.sess
        fresh == scen.lossy \/ f.cseq = 0
        accept(p, tag) == [p EXCEPT !.sess.cseq = f.cseq + 1, !.sess.seqx = tag = "SEQ"] IN
    /\ Takes(side, {"connect"})
    /\ CASE scen.more /\ ~f.chal -> Answer(side, peer, <<Reply("CHALLENGE", 0, 0)>>)
         [] (~scen.more \/ f.chal) /\ peer.has /\ s.gseq > f.gseq ->
              Answer(side, peer, <<Reply("RETRY_GLOBAL", 0, s.gseq)>>)
         [] (~scen.more \/ f.chal) /\ ~(peer.has /\ s.gseq > f.gseq) /\ fresh ->
              Answer(side, accept(Fresh(side, f), "READY"), <<Reply("READY", f.cseq + 1, 1)>>)
         [] (~scen.more \/ f.chal) /\ ~fresh /\ ~peer.has ->
              Answer(side, peer, <<Reply("RESETSESSION", 0, 0)>>)
         [] (~scen.more \/ f.chal) /\ ~fresh /\ peer.has /\ s.gseq <= f.gseq /\ f.cseq <= s.cseq ->
              Answer(side, peer, <<Reply("RETRY_SESSION", s.cseq + 1, 0)>>)
         [] OTHER ->
              Answer(side, accept(Found(side, f), IF scen.seqx THEN "SEQ" ELSE "READY"),
                     <<Reply(IF scen.seqx THEN "SEQ" ELSE "READY", f.cseq + 1, 1)>>
                     \o IF scen.seqx THEN <<[k |-> "seqval", seq |-> s.inseq]>> ELSE <<>>)
    /\ UNCHANGED faults

\* msgr2: the answer to client_ident and to session_reconnect
Heard(p, n) == [p EXCEPT !.sess.queue = SelectSeq(@, LAMBDA m : m.seq > n),
                         !.gone = @ \cup {m.id : m \in {x \in ToSet(p.sess.queue) : x.seq <= n}}]
PeerIdents(side) ==
    LET f == Head(Pending(side))
        s == peer.sess
        p == [Fresh(side, f) EXCEPT !.sess.cc = f.cc,
                !.sess.sc = IF scen.lossy THEN 0 ELSE peer.cookies + 1]
        q == IF peer.has /\ ~scen.lossy /\ s.cc = f.cc THEN Found(side, f) ELSE p IN
    /\ Takes(side, {"client_ident"})
    /\ IF peer.has /\ s.gseq > f.gseq
       THEN Answer(side, peer, <<[k |-> "retry_global", gseq |-> s.gseq]>>)
       ELSE Answer(side, q, <<[k |-> "server_ident", gseq |-> 1, sc |-> q.sess.sc,
                               lossy |-> scen.lossy]>>)
    /\ UNCHANGED faults

PeerReconnects(side) ==
    LET f == Head(Pending(side))
        s == peer.sess IN
    /\ Takes(side, {"reconnect"})
    /\ CASE ~peer.has \/ s.sc # f.sc -> Answer(side, peer, <<[k |-> "reset"]>>)
         [] peer.has /\ s.sc = f.sc /\ s.gseq > f.gseq ->
              Answer(side, peer, <<[k |-> "retry_global", gseq |-> s.gseq]>>)
         [] peer.has /\ s.sc = f.sc /\ s.gseq <= f.gseq /\ s.cseq > f.cseq ->
              Answer(side, peer, <<[k |-> "retry", cseq |-> s.cseq]>>)
         [] OTHER -> Answer(side, Heard([Found(side, f) EXCEPT !.sess.cseq = f.cseq], f.inseq),
                            <<[k |-> "reconnect_ok", seq |-> s.inseq]>>)
    /\ UNCHANGED faults

\* The peer turns the client down, or has seen it with higher numbers.
PeerRefuses ==
    LET f == Head(net.out) IN
    /\ Takes("cur", {"connect", "auth_req", "client_ident", "reconnect"}) /\ Spends
    /\ \E a \in CASE f.k = "connect" -> {Reply("REFUSED", 0, 0), Reply("BADAUTHORIZER", 0, 0),
                                         Reply("RETRY_GLOBAL", 0, f.gseq + 1)}
                  [] f.k = "auth_req" -> {[k |-> "auth_bad"]}
                  [] f.k = "client_ident" -> {[k |-> "missing"]}
                  [] OTHER -> {[k |-> "retry_global", gseq |-> f.gseq + 1],
                               [k |-> "retry", cseq |-> f.cseq + 1]} :
          Answer("cur", peer, <<a>>)

\* Messages and acknowledgements of the client
PeerReceives(side) ==
    LET f == Head(Pending(side))
        mine == peer.bound = side
        new == mine /\ f.k = "msg" /\ f.seq > peer.sess.inseq
        p == IF new THEN [peer EXCEPT !.sess.inseq = f.seq, !.delivered = Append(@, f.id)]
             ELSE peer
        n == CASE f.k \in {"ack", "seq"} -> f.seq
               [] f.k = "msg" /\ ~scen.v1 -> f.ack
               [] OTHER -> 0 IN
    /\ Takes(side, {"msg", "aborted", "ack", "seq"})
    /\ Answer(side, IF mine THEN [Heard(p, n) EXCEPT !.sess.seqx = @ /\ f.k # "seq"] ELSE peer,
              <<>>)
    /\ UNCHANGED faults

\* The peer sends: a message (again, after a reconnect), or an acknowledgement; the
\* rest of a message may be late.
Sends(p) ==
    /\ peer.bound = "cur" /\ net.up = "est" /\ ~peer.sess.seqx
    /\ peer' = p /\ con' = QueueCon(con)
    /\ UNCHANGED <<scen, pc, cur, user, got>>
PeerSend(hold) ==
    LET todo == SelectSeq(peer.sess.queue, LAMBDA m : m.seq > peer.sess.tx)
        new == [id |-> peer.n + 1, seq |-> peer.sess.outseq + 1]
        m == IF todo # <<>> THEN Head(todo) ELSE new
        p == [peer EXCEPT !.sess.tx = m.seq,
                          !.sess.acked = IF scen.v1 THEN @ ELSE peer.sess.inseq] IN
    /\ todo # <<>> \/ peer.n < scen.replies
    /\ hold => faults < scen.faults /\ ~net.hold
    /\ Sends(IF todo # <<>> THEN p
             ELSE [p EXCEPT !.n = @ + 1, !.sess.outseq = @ + 1, !.sess.queue = Append(@, m)])
    /\ net' = [net EXCEPT !.hold = @ \/ hold,
                 !.in = @ \o <<[k |-> "msghdr", id |-> m.id, seq |-> m.seq, epoch |-> user.epoch,
                                ack |-> peer.sess.inseq], [k |-> "msgbody"]>>]
    /\ faults' = IF hold THEN faults + 1 ELSE faults

PeerAck ==
    /\ peer.sess.inseq > peer.sess.acked
    /\ Sends([peer EXCEPT !.sess.acked = peer.sess.inseq])
    /\ net' = [net EXCEPT !.in = Append(@, [k |-> "ack", seq |-> peer.sess.inseq])]
    /\ UNCHANGED faults

\* msgr1: the peer says it closes the session
PeerClose ==
    /\ scen.v1 /\ Spends
    /\ Sends([peer EXCEPT !.bound = "none", !.has = FALSE, !.sess = NoSess])
    /\ net' = [net EXCEPT !.in = Append(@, [k |-> "close"])]

\* The peer crashes: its sessions and connections are gone.
PeerRestart ==
    /\ peer.has /\ Spends
    /\ peer' = [peer EXCEPT !.bound = "none", !.has = FALSE, !.sess = NoSess]
    /\ net' = [net EXCEPT !.old = <<>>, !.up = IF @ = "est" THEN "reset" ELSE @,
                          !.out = IF net.up = "est" THEN <<>> ELSE @]
    /\ con' = IF net.up = "est" THEN SockStateChange(con, FALSE) ELSE con
    /\ UNCHANGED <<scen, pc, cur, user, got>>

------------------------------------------------------------------------------
WorkerStep ==
    \/ StartWork \/ Again
    \/ \E ok \in BOOLEAN : TryWriteConnect(ok) \/ TryWrite(ok) \/ ProcessBanner(ok)
                            \/ AuthReturns(ok)
    \/ NothingToWrite \/ NothingToRead \/ ReadBad
    \/ ProcessConnect \/ ProcessAuth \/ ProcessAuthSignature \/ ProcessServerIdent
    \/ ProcessSession \/ ProcessAck \/ MessageHeader \/ MessageBody
    \/ \E r \in {"msg", "skip", "nomem"} : AllocReturns(r)
    \/ DispatchReturns \/ ResetReturns \/ FaultReturns

OwnerStep ==
    \/ Open \/ Close \/ Send \/ SendTail \/ RevokeIn \/ Keepalive
    \/ \E id \in 1..scen.msgs, how \in {"aborted", "msg"} : RevokeMsg(id, how)

SockStep ==
    \/ Established \/ WriteSpace \/ DataReady \/ TimerFires \/ Garble
    \/ \E keep \in BOOLEAN : NetReset(keep)

PeerReads(side) == PeerGreets(side) \/ PeerConnects(side) \/ PeerIdents(side)
                   \/ PeerReconnects(side) \/ PeerReceives(side)
PeerStep ==
    \/ \E side \in {"cur", "old"} : PeerReads(side)
    \/ PeerRefuses \/ PeerAck \/ PeerClose \/ PeerRestart
    \/ \E hold \in BOOLEAN : PeerSend(hold)

Next == WorkerStep \/ OwnerStep \/ SockStep \/ PeerStep

Spec == Init /\ [][Next]_vars

\* The workqueue runs queued work and callbacks return; TCP connects, makes space
\* and delivers; a timer expires and a preempted sender runs again; the peer reads
\* its connection.
WorkDue == pc # "idle" \/ con.work = "now"
SockDue == net.up = "syn" \/ net.full \/ net.hold \/ con.work = "delayed"
Delivers == Established \/ WriteSpace \/ DataReady \/ TimerFires
PeerDue == net.out # <<>> /\ net.up = "est"
Fairness ==
    /\ []<>~WorkDue \/ []<><<WorkerStep>>_vars
    /\ []<>~SockDue \/ []<><<Delivers>>_vars
    /\ []<>~PeerDue \/ []<><<PeerReads("cur")>>_vars
    /\ []<>(user.tail = 0) \/ []<><<SendTail>>_vars

FairSpec == Spec /\ Fairness

------------------------------------------------------------------------------
Msg == [id : Nat, seq : Nat]
ConStates == {"CLOSED", "PREOPEN", "OPEN", "STANDBY", "V1_BANNER", "V1_CONNECT_MSG",
              "V2_BANNER_PREFIX", "V2_BANNER_PAYLOAD", "V2_HELLO", "V2_AUTH",
              "V2_AUTH_SIGNATURE", "V2_SESSION_CONNECT", "V2_SESSION_RECONNECT"}

\* struct ceph_connection, the work item and the position of ceph_con_workfn.
TypeOK ==
    /\ con.state \in ConStates
    /\ con.sock \in {"CLOSED", "CONNECTING", "CONNECTED", "CLOSING"}
    /\ con.flags \subseteq {"LOSSYTX", "KEEPALIVE_PENDING", "WRITE_PENDING", "SOCK_CLOSED",
                            "BACKOFF"}
    /\ con.work \in {"none", "now", "delayed"} /\ con.delay \in 0..MaxDelay
    /\ con.outq \in Seq(Msg) /\ con.sent \in Seq(Msg)
    /\ {con.inseq, con.acked, con.outseq, con.cseq, con.retry} \subseteq Nat
    /\ con.skip \in {"no", "drop", "count"}
    /\ pc \in Callbacks \cup {"idle", "top", "read", "write"}
    /\ net.up \in {"none", "syn", "est", "reset"} /\ peer.bound \in {"none", "cur", "old"}

Increasing(s) == \A i, j \in DOMAIN s : i < j => s[i] < s[j]

\* The peer gets every message at most once and in the order of ceph_con_send,
\* however often the connection breaks: out_sent goes back in front of out_queue
\* (con_fault) and what the peer already has is discarded (ceph_con_discard_requeued,
\* ceph_con_discard_sent).
DeliveredInOrder == Increasing(peer.delivered)

\* A message the owner sent is with the peer, on out_queue or out_sent, or its owner
\* was told: it revoked it, closed the connection, or had a peer_reset or fault.
NothingLost ==
    (1..user.n) \ (Ids(con.outq) \cup Ids(con.sent) \cup user.revoked \cup user.lost
                   \cup (IF con.state = "CLOSED" THEN 1..user.n ELSE {}))
        \subseteq ToSet(peer.delivered)

\* Messages of the peer are dispatched once and in order, and only while the session
\* they were sent in is the owner's: none after ceph_con_close returned.
ReceivedInOrder ==
    /\ Increasing([i \in DOMAIN got |-> got[i].id])
    /\ \A i \in DOMAIN got : got[i].epoch = got[i].now

\* The peer forgets a message only when it was dispatched or skipped by the owner's
\* choice: in_seq, which ceph_con_v1_try_write and populate_out_iter acknowledge,
\* never runs ahead of that, neither for a message that is skipped or revoked while
\* it comes in nor across a fault.
AckedIsHandled == peer.gone \subseteq {got[i].id : i \in DOMAIN got} \cup user.skipped

\* No WARN_ON or BUG_ON of the messenger is reached: the transitions of the socket
\* state, the states con_fault and ceph_msg_revoke may meet, and in_msg and out_msg
\* where they must be NULL. The one that can be is clear_standby's, and only because a
\* sender set WRITE_PENDING after the fault that took the connection to STANDBY.
NoWarnings == ~con.warn /\ (con.stale => user.stray)

\* A connection nobody will wake: WRITE_PENDING says that work is queued, and none is
Stranded ==
    /\ pc = "idle" /\ con.work = "none"
    /\ con.state \in {"STANDBY", "PREOPEN"} /\ Has(con, "WRITE_PENDING")

\* Work that is queued is never forgotten: an idle connection with something to
\* write or an event to handle has its work queued, waits for the socket, or is in
\* standby with nothing queued. It is stranded only where a sender was overtaken by
\* a fault: it dropped the mutex, the connection went to STANDBY, and it then set
\* WRITE_PENDING, which ceph_con_workfn leaves set in STANDBY.
NoLostWakeup ==
    (pc = "idle" /\ con.work = "none" /\ user.open /\ user.tail = 0) =>
        /\ ~Has(con, "SOCK_CLOSED") /\ ~Has(con, "BACKOFF")
        /\ Stranded => user.stray
        /\ con.state = "PREOPEN" => Stranded
        /\ con.state = "STANDBY" => con.outq = <<>>
        /\ (con.state = "OPEN" /\ ~net.full) => con.outq = <<>> /\ con.obuf = <<>>
        /\ (Expected(con.state) # {} /\ net.up # "syn" /\ ~net.hold) => net.in = <<>>

\* A message handed to ceph_con_send reaches the peer, or its owner is told that it
\* did not: a lossless connection comes back from every fault, unless it is stranded
\* as NoLostWakeup says.
Progress ==
    \A id \in 1..4 :
        (user.n >= id) ~> \/ id \in ToSet(peer.delivered) \cup user.revoked \cup user.lost
                          \/ con.state = "CLOSED" \/ ~user.open \/ (Stranded /\ user.stray)

\* A session is exact in both directions: messages arrive once, in order and none is
\* lost unnoticed, and what is acknowledged has been handled.
SessionExact == DeliveredInOrder /\ NothingLost /\ ReceivedInOrder /\ AckedIsHandled

\* The state of struct ceph_connection: its types, no warning and no work
\* forgotten, but for the sender a fault to STANDBY overtakes.
ConStateSound == TypeOK /\ NoWarnings /\ NoLostWakeup
=============================================================================
