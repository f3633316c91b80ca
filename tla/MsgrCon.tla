------------------------------- MODULE MsgrCon -------------------------------
(* struct ceph_connection and what messenger.c does to it with con->mutex held: *)
(* the queues and sequence numbers, the flags, the socket states, standby,       *)
(* backoff and faults. Each operator takes the connection and returns it.        *)
(*                                                                             *)
(*   state  CEPH_CON_S_*                 sock    CON_SOCK_STATE_*               *)
(*   flags  CEPH_CON_F_*                 work    the delayed_work: none, now     *)
(*   delay  the backoff delay                    (queued) or delayed            *)
(*   outq, sent, outmsg, outseq          out_queue, out_sent, out_msg, out_seq  *)
(*   inseq, acked, inmsg                 in_seq, in_seq_acked, in_msg           *)
(*   skip   how the rest of an incoming message is dropped                      *)
(*   obuf   the frames prepared (out_kvec, out_iter) and not yet written         *)
(*   cseq, pgs, retry                    v1 (and v2) connect_seq,               *)
(*                                       peer_global_seq, auth_retry            *)
(*   gseq, cc, sc                        v2 global_seq, client and server cookie *)
(*   mg     the messenger's global_seq   warn    a WARN_ON or BUG_ON fired       *)
(*   stale  the WARN_ONs of clear_standby fired                                  *)
EXTENDS Naturals, Sequences, SequencesExt, FiniteSetsExt

CONSTANT
    MaxDelay   \* MAX_DELAY_INTERVAL in units of BASE_DELAY_INTERVAL

ASSUME DelayAssumption == MaxDelay \in Nat \ {0}

NoMsg == [id |-> 0, seq |-> 0]

\* ceph_con_init; kzalloc for the rest
ConInit ==
    [state |-> "CLOSED", sock |-> "CLOSED", flags |-> {}, work |-> "none", delay |-> 0,
     outq |-> <<>>, sent |-> <<>>, outmsg |-> NoMsg, outseq |-> 0,
     inseq |-> 0, acked |-> 0, inmsg |-> NoMsg, skip |-> "no", obuf |-> <<>>,
     cseq |-> 0, pgs |-> 0, retry |-> 0,
     gseq |-> 0, cc |-> 0, sc |-> 0, mg |-> 0, warn |-> FALSE, stale |-> FALSE]

\* ceph_con_flag_*
Has(c, f) == f \in c.flags
SetFlag(c, f) == [c EXCEPT !.flags = @ \cup {f}]
ClearFlags(c, fs) == [c EXCEPT !.flags = @ \ fs]

WarnIf(c, b) == [c EXCEPT !.warn = @ \/ b]

\* con_sock_state_connecting, _connected, _closing and _closed
SockState(c, s, from) == [WarnIf(c, c.sock \notin from) EXCEPT !.sock = s]
SockConnecting(c) == SockState(c, "CONNECTING", {"CLOSED"})
SockConnected(c) == SockState(c, "CONNECTED", {"CONNECTING"})
SockClosing(c) == SockState(c, "CLOSING", {"CONNECTING", "CONNECTED", "CLOSING"})
SockClosed(c) == SockState(c, "CLOSED", {"CONNECTED", "CLOSING", "CONNECTING", "CLOSED"})

\* queue_con and queue_con_delay: a work that is pending stays as it is
QueueCon(c) == IF c.work = "none" THEN [c EXCEPT !.work = "now"] ELSE c
QueueConDelay(c) == IF c.work = "none" THEN [c EXCEPT !.work = "delayed"] ELSE c
CancelCon(c) == [c EXCEPT !.work = "none"]

\* test_and_set of WRITE_PENDING at the end of ceph_con_send and
\* ceph_con_keepalive, after they dropped the mutex
KickWrite(c) == IF Has(c, "WRITE_PENDING") THEN c
                ELSE QueueCon(SetFlag(c, "WRITE_PENDING"))

\* ceph_sock_state_change, for a socket that closes and for one that connects
SockStateChange(c, established) ==
    QueueCon(IF established THEN SockConnected(c)
             ELSE SetFlag(SockClosing(c), "SOCK_CLOSED"))

\* ceph_con_close_socket
CloseSocket(c) == SockClosed(ClearFlags(c, {"SOCK_CLOSED"}))

\* ceph_con_reset_protocol, with ceph_con_v1_ and _v2_reset_protocol
ResetProtocol(c) ==
    [CloseSocket(c) EXCEPT !.inmsg = NoMsg, !.outmsg = NoMsg, !.skip = "no", !.obuf = <<>>]

\* ceph_con_reset_session, with ceph_con_v1_ and _v2_reset_session
ResetSession(c) ==
    [WarnIf(c, c.inmsg # NoMsg \/ c.outmsg # NoMsg) EXCEPT
       !.outq = <<>>, !.sent = <<>>, !.outseq = 0, !.inseq = 0, !.acked = 0,
       !.cseq = 0, !.pgs = 0, !.gseq = 0, !.cc = 0, !.sc = 0]

ConClose(c) ==
    CancelCon(ResetSession(ResetProtocol(
        [ClearFlags(c, {"LOSSYTX", "KEEPALIVE_PENDING", "WRITE_PENDING", "BACKOFF"})
         EXCEPT !.state = "CLOSED", !.stale = FALSE])))

ConOpen(c) ==
    QueueCon([WarnIf(c, c.state # "CLOSED") EXCEPT !.state = "PREOPEN", !.delay = 0])

\* ceph_get_global_seq; the new value is mg of the result
GetGlobalSeq(c, gt) == [c EXCEPT !.mg = Max({@, gt}) + 1]

\* Drop the messages at the front of q that satisfy P
DropWhile(q, P(_)) ==
    LET n == Max({k \in 0..Len(q) : \A i \in 1..k : P(q[i])})
    IN  SubSeq(q, n + 1, Len(q))

\* ceph_con_discard_sent
DiscardSent(c, ack) == [c EXCEPT !.sent = DropWhile(@, LAMBDA m : m.seq <= ack)]

\* ceph_con_discard_requeued: it stops at the first message never sent
DiscardRequeued(c, seq) ==
    [c EXCEPT !.outq = DropWhile(@, LAMBDA m : m.seq # 0 /\ m.seq <= seq)]

\* ceph_con_process_message, up to the call of ops->dispatch
ProcessMessage(c) == [c EXCEPT !.inmsg = NoMsg, !.inseq = @ + 1]

\* ceph_con_in_msg_alloc after ops->alloc_msg, in an open connection
InMsgAlloc(c, m) == [WarnIf(c, c.inmsg # NoMsg) EXCEPT !.inmsg = m]

\* Bugs: a fault forgets out_sent, going to standby leaves WRITE_PENDING set
FaultedForgets(c) ==
    IF Has(c, "LOSSYTX") THEN [c EXCEPT !.state = "CLOSED"]
    ELSE IF c.outq = <<>> THEN [c EXCEPT !.sent = <<>>, !.state = "STANDBY"]
    ELSE QueueCon([SetFlag(c, "BACKOFF") EXCEPT !.sent = <<>>, !.state = "PREOPEN"])
StandbyKeepsPending(c) ==
    IF c.outq = <<>> /\ ~Has(c, "KEEPALIVE_PENDING") THEN [c EXCEPT !.state = "STANDBY"]
    ELSE QueueCon([SetFlag(c, "BACKOFF") EXCEPT !.state = "PREOPEN", !.delay = 1])

\* con_fault
NextDelay(d) == IF d = 0 THEN 1 ELSE Min({2 * d, MaxDelay})
Standby(c) ==
    IF c.outq = <<>> /\ ~Has(c, "KEEPALIVE_PENDING")
    THEN [ClearFlags(c, {"WRITE_PENDING"}) EXCEPT !.state = "STANDBY"]
    ELSE QueueCon([SetFlag(c, "BACKOFF") EXCEPT !.state = "PREOPEN",
                                                !.delay = NextDelay(@)])
Faulted(c) ==
    IF Has(c, "LOSSYTX") THEN [c EXCEPT !.state = "CLOSED"]
    ELSE Standby([c EXCEPT !.outq = c.sent \o @, !.sent = <<>>])
ConFault(c) == Faulted(ResetProtocol(WarnIf(c, c.state \in {"STANDBY", "CLOSED"})))

\* A bug: a send does not bring the connection back from standby
ClearStandbyStays(c, v1) == c
\* clear_standby. With msgr2 the increment of v1.connect_seq lands in a slot of
\* v2.conn_bufs that a fault has already released.
ClearStandby(c, v1) ==
    IF c.state # "STANDBY" THEN c
    ELSE [c EXCEPT !.stale = @ \/ c.flags \cap {"WRITE_PENDING", "KEEPALIVE_PENDING"} # {},
                   !.state = "PREOPEN", !.cseq = IF v1 THEN @ + 1 ELSE @]

\* ceph_con_send and ceph_con_keepalive, up to where they drop the mutex
ConSend(c, id, v1) ==
    IF c.state = "CLOSED" THEN c
    ELSE ClearStandby([c EXCEPT !.outq = Append(@, [id |-> id, seq |-> 0])], v1)
ConKeepalive(c, v1) == SetFlag(ClearStandby(c, v1), "KEEPALIVE_PENDING")

\* ceph_msg_revoke of a message on a list. A frame of which a part is written is
\* finished with zeroes (aborted), see MsgrFrames.
Without(q, id) == SelectSeq(q, LAMBDA m : m.id # id)
Revoke(c, id, aborted) ==
    LET listed == [c EXCEPT !.outq = Without(@, id), !.sent = Without(@, id)]
        frame(f) == IF f.k = "msg" THEN [k |-> aborted, seq |-> f.seq, id |-> id, ack |-> f.ack]
                    ELSE f IN
    IF c.outmsg.id # id THEN listed
    ELSE [WarnIf(listed, c.state # "OPEN") EXCEPT
            !.outmsg = NoMsg, !.obuf = [i \in DOMAIN @ |-> frame(@[i])]]

\* ceph_msg_revoke_incoming: v1 counts the message at once, v2 when it has
\* skipped the rest
RevokeIncoming(c, v1) ==
    [WarnIf(c, c.state # "OPEN") EXCEPT
       !.inmsg = NoMsg, !.skip = IF v1 THEN "drop" ELSE "count",
       !.inseq = IF v1 THEN @ + 1 ELSE @]

\* ceph_con_get_out_msg: a requeued message keeps its seq
GetOutMsg(c) ==
    LET fresh == Head(c.outq).seq = 0
        m == [Head(c.outq) EXCEPT !.seq = IF fresh THEN c.outseq + 1 ELSE @] IN
    [WarnIf(c, c.outmsg # NoMsg) EXCEPT
       !.outq = Tail(@), !.sent = Append(@, m), !.outmsg = m,
       !.outseq = IF fresh THEN @ + 1 ELSE @]
==============================================================================
