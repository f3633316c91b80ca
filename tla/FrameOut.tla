------------------------------ MODULE FrameOut -------------------------------
(* How the messages of a connection become bytes on its socket, in the three    *)
(* wire formats (v1, msgr2 crc mode "plain", msgr2 "secure"), with a socket      *)
(* that takes any number of bytes and messages revoked at any byte               *)
(* (messenger_v1.c, messenger_v2.c).                                            *)
(*                                                                             *)
(* con->mutex is held for all of try_write and all of ceph_msg_revoke: a step    *)
(* sends what the socket takes and then prepares what is to be sent next.        *)
(* The peer that reads the socket knows frames only by what their heads say.     *)
EXTENDS MsgData

CONSTANTS
    HeadLen,      \* v1: the tag and the header; v2: preamble and control segment
    EpilLen,      \* the footer of v1, the epilogue of v2
    BlockLen,     \* CEPH_GCM_BLOCK_LEN
    TagLen,       \* CEPH_GCM_TAG_LEN
    OutCases      \* the cases to check: [dir, proto, msgs, asks, revokes]

VARIABLES case, out, peer

Secure == case.proto = "secure"
Msg(m) == case.msgs[m]
FrontLen(m) == Msg(m).front
MiddleLen(m) == Msg(m).middle
DataLen(m) == DataLength(Msg(m).data)

\* A byte: of which part of which message, its position there; e is what the bytes
\* of a footer or an epilogue say
NoEpil == [complete |-> FALSE, front |-> <<>>, middle |-> <<>>, data |-> <<>>]
Raw(k, m, n) == [i \in 1..n |-> [k |-> k, m |-> m, i |-> i, e |-> NoEpil]]
EpilBytes(m, e) == [i \in 1..EpilLen |-> [k |-> "epil", m |-> m, i |-> i, e |-> e]]
Zeros(n) == [i \in 1..n |-> [k |-> "zero", m |-> 0, i |-> 0, e |-> NoEpil]]
DataBytes(m, ps) == [i \in DOMAIN ps |-> [k |-> "data", m |-> m, i |-> ps[i], e |-> NoEpil]]

\* Checksums: crc32c(-1, the bytes of a part), and the 0 of a part that is not there
Crc(n) == [i \in 1..n |-> i]
CrcNone == <<99>>
ZeroCrc(n) == [i \in 1..n |-> 0]

---------------------------------------------------------------------------
\* padded_len, head_onwire_len of a message and __tail_onwire_len
PaddedLen(n) == ((n + BlockLen - 1) \div BlockLen) * BlockLen
TailOnwireLen(f, m, d, secure) ==
    IF f + m + d = 0 THEN 0
    ELSE IF secure THEN PaddedLen(f) + PaddedLen(m) + PaddedLen(d) + BlockLen + TagLen
    ELSE f + m + d + EpilLen

---------------------------------------------------------------------------
\* con->v1 and con->v2 as far as writing goes:
\*   queue, cur   out_queue, out_msg          keep, ack   a keepalive, an ack is due
\*   fr           the message whose frame is being sent, be it revoked
\*   kvecs        v1.out_kvec                 iter        v2.out_iter, its bytes
\*   skip, done   v1.out_skip, out_msg_done   zero, st    v2.out_zero, out_state
\*   cursor, crc  the data cursor and data_crc so far     bv  v2.out_bvec.bv_len
\*   epil         v2.out_epil                 encr, enci, encp  v2.out_enc_resid,
\*                                            _i and _page_cnt; nonce out_gcm_nonce
OutInit(c) ==
    [queue |-> [i \in DOMAIN c.msgs |-> i], cur |-> 0, fr |-> 0, keep |-> FALSE, ack |-> FALSE,
     kvecs |-> <<>>, skip |-> 0, done |-> FALSE,
     cursor |-> [item |-> 1, pos |-> 0, resid |-> 0, total |-> 0, need |-> FALSE], crc |-> <<>>,
     iter |-> <<>>, zero |-> 0, st |-> "GET_NEXT", bv |-> 0, epil |-> NoEpil,
     encr |-> 0, enci |-> 0, encp |-> 0, nonce |-> 0,
     asked |-> {}, revoked |-> {}, warn |-> FALSE]

WarnIf(o, b) == [o EXCEPT !.warn = @ \/ b]
Queued(o) == Total([i \in DOMAIN o.kvecs |-> Len(o.kvecs[i])])    \* v1.out_kvec_bytes

---------------------------------------------------------------------------
\* v1

\* The footer as prepare_write_message fills it in, and with the data_crc
Footer(o, m) ==
    [complete |-> TRUE, front |-> Crc(FrontLen(m)), middle |-> Crc(MiddleLen(m)), data |-> o.crc]

\* prepare_write_message_footer
PrepareFooter(o) ==
    [o EXCEPT !.kvecs = Append(@, EpilBytes(o.cur, Footer(o, o.cur))), !.done = TRUE]

\* prepare_write_message; ceph_con_get_out_msg; an ack goes ahead of the header
PrepareWriteMessage(o) ==
    LET m == Head(o.queue)
        ack == IF o.ack THEN <<Raw("ctl", 0, 1)>> ELSE <<>>
        middle == IF MiddleLen(m) # 0 THEN <<Raw("middle", m, MiddleLen(m))>> ELSE <<>>
        p == [o EXCEPT !.queue = Tail(@), !.cur = m, !.ack = FALSE, !.done = FALSE, !.crc = <<>>,
                       !.kvecs = ack \o <<Raw("head", m, HeadLen), Raw("front", m, FrontLen(m))>>
                                   \o middle]
    IN  WarnIf(IF DataLen(m) = 0 THEN PrepareFooter(p)
               ELSE [p EXCEPT !.cursor = SkipEmpty(Msg(m).data, CursorInit(Msg(m).data, DataLen(m)))],
               o.skip # 0)

\* do_next: a keepalive, a message, an ack
V1Next(o) ==
    CASE o.keep -> [o EXCEPT !.keep = FALSE, !.kvecs = <<Raw("ctl", 0, 1)>>]
      [] ~o.keep /\ o.queue # <<>> -> PrepareWriteMessage(o)
      [] ~o.keep /\ o.queue = <<>> /\ o.ack ->
             [o EXCEPT !.ack = FALSE, !.kvecs = <<Raw("ctl", 0, 1)>>]
      [] OTHER -> o

\* The way of ceph_con_v1_try_write from "more:" to its next send
V1Settle(o) ==
    CASE Queued(o) # 0 \/ o.skip # 0 -> o
      [] Queued(o) = 0 /\ o.skip = 0 /\ (o.cur = 0 \/ o.done) ->
             V1Next([o EXCEPT !.cur = 0, !.kvecs = <<>>])
      [] OTHER -> IF o.cursor.total = 0 THEN PrepareFooter([o EXCEPT !.kvecs = <<>>])
                  ELSE [o EXCEPT !.kvecs = <<>>]

\* write_partial_kvec after n bytes: entries used up are dropped, one may be cut
WrittenKvecs(ks, n) ==
    LET upTo(i) == Total([j \in 1..i |-> Len(ks[j])])
        gone == Max({i \in 0..Len(ks) : upTo(i) <= n})
        cut == n - upTo(gone)
    IN  IF gone = Len(ks) THEN <<>>
        ELSE <<SubSeq(ks[gone + 1], cut + 1, Len(ks[gone + 1]))>> \o SubSeq(ks, gone + 2, Len(ks))

\* What v1 sends next: kvecs, then zeros, then a piece of data
V1Pending(o) ==
    CASE Queued(o) # 0 -> FlattenSeq(o.kvecs)
      [] Queued(o) = 0 /\ o.skip # 0 -> Zeros(Min({o.skip, PageSize}))
      [] Queued(o) = 0 /\ o.skip = 0 /\ o.cur # 0 ->
             DataBytes(o.cur, Positions(Msg(o.cur).data, o.cursor,
                                        PieceLen(Msg(o.cur).data, o.cursor)))
      [] OTHER -> <<>>

\* One send of v1 that the socket cuts to n bytes, and the way to the next
V1Sent(o, n) ==
    V1Settle(
      CASE Queued(o) # 0 -> [o EXCEPT !.kvecs = IF n = Queued(o) THEN <<>> ELSE WrittenKvecs(@, n)]
        [] Queued(o) = 0 /\ o.skip # 0 -> [o EXCEPT !.skip = @ - n]
        [] OTHER ->
             LET data == Msg(o.cur).data
                 piece == Positions(data, o.cursor, PieceLen(data, o.cursor))
             IN  [o EXCEPT !.crc = IF o.cursor.need THEN @ \o piece ELSE @,
                           !.cursor = SkipEmpty(data, DataAdvance(data, @, n))])

\* con_out_kvec_skip: chop off the last kvec, if there are bytes at all
KvecSkip(o) ==
    IF Queued(o) = 0 THEN o
    ELSE [o EXCEPT !.skip = @ + Len(Last(o.kvecs)), !.kvecs = Front(@)]

\* ceph_con_v1_revoke
V1Revoke(o) ==
    LET footer == IF o.done THEN KvecSkip(o)
                  ELSE [WarnIf(o, DataLen(o.cur) = 0) EXCEPT !.skip = @ + EpilLen]
        data == IF DataLen(o.cur) # 0 THEN [footer EXCEPT !.skip = @ + o.cursor.total] ELSE footer
    IN  KvecSkip(IF MiddleLen(o.cur) # 0 THEN KvecSkip(data) ELSE data)

---------------------------------------------------------------------------
\* v2. The out_iter of kvecs, or of one bvec of bv bytes
SetIter(o, bytes) == [WarnIf(o, o.iter # <<>> \/ o.zero # 0) EXCEPT !.iter = bytes]
SetBvec(o, bytes) == [SetIter(o, bytes) EXCEPT !.bv = Len(bytes)]

\* prepare_epilogue_plain after a reset_out_kvecs
PrepareEpilogue(o, m, complete) ==
    [SetIter(o, EpilBytes(m, [o.epil EXCEPT !.complete = complete])) EXCEPT !.st = "FINISH_MESSAGE"]

\* prepare_message_plain
PrepareMessagePlain(o, m) ==
    LET f == FrontLen(m)
        mid == MiddleLen(m)
        d == DataLen(m)
        epil == [complete |-> TRUE, front |-> Crc(f),
                 middle |-> IF mid = 0 /\ d = 0 THEN CrcNone ELSE Crc(mid), data |-> CrcNone]
        body == Raw("head", m, HeadLen) \o Raw("front", m, f) \o Raw("middle", m, mid)
    IN  CASE f + mid + d = 0 -> [SetIter(o, body) EXCEPT !.st = "FINISH_MESSAGE"]
          [] f + mid + d # 0 /\ d = 0 ->
                 [SetIter(o, body \o EpilBytes(m, epil)) EXCEPT !.st = "FINISH_MESSAGE", !.epil = epil]
          [] OTHER -> [SetIter(o, body) EXCEPT !.st = "QUEUE_DATA", !.epil = epil]

\* prepare_message_secure: the head is one ciphertext, the tail another, in pages
PrepareMessageSecure(o, m) ==
    LET tail == TailOnwireLen(FrontLen(m), MiddleLen(m), DataLen(m), TRUE)
        head == SetIter(o, Raw("head", m, HeadLen))
    IN  IF tail = 0 THEN [head EXCEPT !.st = "FINISH_MESSAGE", !.nonce = @ + 1]
        ELSE [WarnIf(head, o.encp # 0) EXCEPT
                !.st = "QUEUE_ENC_PAGE", !.nonce = @ + 2, !.encr = tail, !.enci = 0,
                !.encp = (tail + PageSize - 1) \div PageSize]

\* prepare_message; ceph_con_get_out_msg
PrepareMessage(o) ==
    LET m == Head(o.queue)
        p == [o EXCEPT !.queue = Tail(@), !.cur = m, !.fr = m, !.ack = FALSE]
    IN  IF Secure THEN PrepareMessageSecure(p, m) ELSE PrepareMessagePlain(p, m)

\* prepare_keepalive2 and prepare_ack
PrepareControl(o) ==
    [SetIter(o, Raw("ctl", 0, 1)) EXCEPT !.nonce = IF Secure THEN @ + 1 ELSE @]

\* get_bvec_at and set_out_bvec
QueuePiece(o) ==
    LET data == Msg(o.cur).data
        c == SkipEmpty(data, o.cursor)
    IN  [SetBvec(o, DataBytes(o.cur, Positions(data, c, PieceLen(data, c)))) EXCEPT
           !.cursor = c, !.st = "QUEUE_DATA_CONT"]

QueueData(o) ==
    QueuePiece([o EXCEPT !.epil.data = <<>>, !.cursor = CursorInit(Msg(o.cur).data, DataLen(o.cur))])
QueueDataCont(o) ==
    LET data == Msg(o.cur).data
        p == [o EXCEPT !.epil.data = @ \o Positions(data, o.cursor, o.bv),
                       !.cursor = DataAdvance(data, @, o.bv)]
    IN  IF p.cursor.total # 0 THEN QueuePiece(p) ELSE PrepareEpilogue(p, o.cur, TRUE)

\* queue_enc_page; a byte of ciphertext is known by its place in the tail
QueueEncPage(o) ==
    LET n == Min({o.encr, PageSize})
        tail == Raw("enc", o.fr, o.enci * PageSize + n)
        p == [SetBvec(WarnIf(o, n = 0), SubSeq(tail, o.enci * PageSize + 1, Len(tail))) EXCEPT
                !.enci = @ + 1, !.encr = @ - n]
    IN  IF p.encr # 0 THEN p ELSE [WarnIf(p, p.enci # p.encp) EXCEPT !.st = "FINISH_MESSAGE"]

\* queue_zeros
QueueZeros(o) ==
    LET n == Min({o.zero, PageSize})
    IN  IF o.zero = 0 THEN PrepareEpilogue(o, o.fr, FALSE)
        ELSE [WarnIf(o, o.iter # <<>>) EXCEPT
                !.iter = Zeros(n), !.bv = n, !.zero = @ - n, !.st = "QUEUE_ZEROS"]

\* populate_out_iter from OUT_S_GET_NEXT
V2Next(o) ==
    CASE o.keep -> PrepareControl([o EXCEPT !.keep = FALSE])
      [] ~o.keep /\ o.queue # <<>> -> PrepareMessage(o)
      [] ~o.keep /\ o.queue = <<>> /\ o.ack -> PrepareControl([o EXCEPT !.ack = FALSE])
      [] OTHER -> o

\* finish_message
FinishMessage(o) == [o EXCEPT !.encp = 0, !.cur = 0, !.st = "GET_NEXT"]

\* prepare_zero_front, _middle and _data: the bytes not sent become zeros, and the
\* checksum is recomputed for them
PrepareZeroFront(o, resid) ==
    LET sent == FrontLen(o.cur) - resid
    IN  [WarnIf(o, resid = 0 \/ resid > FrontLen(o.cur)) EXCEPT
           !.epil.front = Crc(sent) \o ZeroCrc(resid),
           !.iter = SubSeq(@, 1, Len(@) - resid), !.zero = @ + resid]
PrepareZeroMiddle(o, resid) ==
    LET sent == MiddleLen(o.cur) - resid
    IN  [WarnIf(o, resid = 0 \/ resid > MiddleLen(o.cur)) EXCEPT
           !.epil.middle = Crc(sent) \o ZeroCrc(resid),
           !.iter = SubSeq(@, 1, Len(@) - resid), !.zero = @ + resid]
PrepareZeroData(o) ==
    [o EXCEPT !.epil.data = ZeroCrc(DataLen(o.cur)), !.zero = @ + DataLen(o.cur)]

\* "if (front_len) prepare_zero_front(front_len)", and the same for the middle
ZeroWholeFront(o) == IF FrontLen(o.cur) = 0 THEN o ELSE PrepareZeroFront(o, FrontLen(o.cur))
ZeroWholeMiddle(o) == IF MiddleLen(o.cur) = 0 THEN o ELSE PrepareZeroMiddle(o, MiddleLen(o.cur))

RevokeAtQueueData(o) ==
    LET f == FrontLen(o.cur)
        mid == MiddleLen(o.cur)
        resid == Len(o.iter)
    IN  CASE resid > f + mid ->     \* was sending head
               [PrepareZeroData(ZeroWholeMiddle(ZeroWholeFront(WarnIf(o, resid - f - mid > HeadLen))))
                  EXCEPT !.st = "QUEUE_ZEROS"]
          [] resid <= f + mid /\ resid > mid ->     \* was sending front
               QueueZeros(PrepareZeroData(ZeroWholeMiddle(PrepareZeroFront(o, resid - mid))))
          [] OTHER ->     \* was sending middle
               QueueZeros(PrepareZeroData(PrepareZeroMiddle(o, resid)))

\* revoke_at_queue_data_cont
RevokeAtQueueDataCont(o) ==
    LET data == Msg(o.cur).data
        sent == o.bv - Len(o.iter)
        c == IF sent = 0 THEN o.cursor ELSE DataAdvance(data, o.cursor, sent)
    IN  QueueZeros([WarnIf(o, o.iter = <<>> \/ Len(o.iter) > c.total) EXCEPT
          !.epil.data = @ \o Positions(data, o.cursor, sent) \o ZeroCrc(c.total),
          !.cursor = c, !.iter = <<>>, !.zero = @ + c.total])

\* "out_iter.count -= CEPH_EPILOGUE_PLAIN_LEN"
CutEpilogue(o) == [o EXCEPT !.iter = SubSeq(@, 1, Len(@) - EpilLen)]

\* The parts are cut off from the end of out_iter: only its count matters
RevokeAtFinishMessage(o) ==
    LET f == FrontLen(o.cur)
        mid == MiddleLen(o.cur)
        resid == Len(o.iter)
    IN  CASE f + mid + DataLen(o.cur) = 0 -> WarnIf(o, resid = 0 \/ resid > HeadLen)
          [] f + mid + DataLen(o.cur) # 0 /\ resid > f + mid + EpilLen ->     \* was sending head
               [ZeroWholeMiddle(ZeroWholeFront(CutEpilogue(WarnIf(o, resid - f - mid - EpilLen > HeadLen))))
                  EXCEPT !.st = "QUEUE_ZEROS"]
          [] resid <= f + mid + EpilLen /\ resid > mid + EpilLen ->     \* was sending front
               QueueZeros(ZeroWholeMiddle(PrepareZeroFront(CutEpilogue(o), resid - mid - EpilLen)))
          [] resid <= mid + EpilLen /\ resid > EpilLen ->     \* was sending middle
               QueueZeros(PrepareZeroMiddle(CutEpilogue(o), resid - EpilLen))
          [] OTHER -> WarnIf(o, resid = 0)     \* was sending epilogue

\* ceph_con_v2_revoke: the ciphertext of a secure message is sent to its end
V2Revoke(o) ==
    LET p == WarnIf(o, o.zero # 0)
    IN  CASE Secure -> WarnIf(p, o.st \notin {"QUEUE_ENC_PAGE", "FINISH_MESSAGE"})
          [] ~Secure /\ o.st = "QUEUE_DATA" -> RevokeAtQueueData(p)
          [] ~Secure /\ o.st = "QUEUE_DATA_CONT" -> RevokeAtQueueDataCont(p)
          [] ~Secure /\ o.st = "FINISH_MESSAGE" -> RevokeAtFinishMessage(p)
          [] OTHER -> WarnIf(p, TRUE)

\* populate_out_iter, for a connection that is open
PopulateOutIter(o) ==
    CASE o.st = "QUEUE_DATA" -> QueueData(WarnIf(o, o.cur = 0))
      [] o.st = "QUEUE_DATA_CONT" -> QueueDataCont(WarnIf(o, o.cur = 0))
      [] o.st = "QUEUE_ENC_PAGE" -> QueueEncPage(o)
      [] o.st = "QUEUE_ZEROS" -> QueueZeros(WarnIf(o, o.cur # 0))
      [] o.st = "FINISH_MESSAGE" -> V2Next(FinishMessage(o))
      [] OTHER -> V2Next(o)

---------------------------------------------------------------------------
\* Both

Pending(o) == IF case.proto = "v1" THEN V1Pending(o) ELSE o.iter

Sent(o, n) ==
    IF case.proto = "v1" THEN V1Sent(o, n)
    ELSE LET rest == SubSeq(o.iter, n + 1, Len(o.iter))
             p == [o EXCEPT !.iter = rest]
         IN  IF rest # <<>> THEN p ELSE PopulateOutIter(p)

\* The peer reads a frame by its first byte: a control frame, or a head which gives
\* the lengths. It knows nothing but the bytes.
TailLen(m) ==
    IF case.proto = "v1" THEN FrontLen(m) + MiddleLen(m) + DataLen(m) + EpilLen
    ELSE TailOnwireLen(FrontLen(m), MiddleLen(m), DataLen(m), Secure)
FrameLen(b) == IF b.k = "head" THEN HeadLen + TailLen(b.m) ELSE 1

PeerInit == [frame |-> <<>>, got |-> <<>>]
Feed(p, b) ==
    LET frame == Append(p.frame, b)
    IN  IF Len(frame) < FrameLen(frame[1]) THEN [p EXCEPT !.frame = frame]
        ELSE [frame |-> <<>>, got |-> IF frame[1].k = "head" THEN Append(p.got, frame) ELSE p.got]

---------------------------------------------------------------------------
\* ceph_con_v1_try_write and ceph_con_v2_try_write, with nothing in the buffers
TryWrite ==
    /\ Pending(out) = <<>>
    /\ out' = IF case.proto = "v1" THEN V1Settle(out) ELSE PopulateOutIter(out)
    /\ out' # out
    /\ UNCHANGED <<case, peer>>

\* ceph_tcp_sendmsg, _sendpage and ceph_tcp_send: the socket takes n bytes
SendSome ==
    \E n \in 1..Len(Pending(out)) :
       /\ peer' = FoldLeft(Feed, peer, SubSeq(Pending(out), 1, n))
       /\ out' = Sent(out, n)
       /\ UNCHANGED case

\* ceph_msg_revoke: of a message that is queued, or is out_msg
Revoke ==
    \E m \in DOMAIN case.msgs :
       /\ Cardinality(out.revoked) < case.revokes
       /\ m = out.cur \/ m \in Range(out.queue)
       /\ out' = IF m # out.cur
                 THEN [out EXCEPT !.queue = SelectSeq(@, LAMBDA x : x # m), !.revoked = @ \cup {m}]
                 ELSE [(IF case.proto = "v1" THEN V1Revoke(out) ELSE V2Revoke(out)) EXCEPT
                         !.cur = 0, !.revoked = @ \cup {m}]
       /\ UNCHANGED <<case, peer>>

\* ceph_con_keepalive sets KEEPALIVE_PENDING; a message received makes an ack due
AskAck ==
    \E what \in case.asks \ out.asked :
       /\ out' = [out EXCEPT !.asked = @ \cup {what},
                             !.keep = @ \/ what = "keepalive", !.ack = @ \/ what = "ack"]
       /\ UNCHANGED <<case, peer>>

OutNext == TryWrite \/ SendSome \/ Revoke \/ AskAck

---------------------------------------------------------------------------
\* Properties

\* The part of message m that byte i of its frame belongs to, and the place there
PartOf(m, i) ==
    LET f == HeadLen + FrontLen(m)
        mid == f + MiddleLen(m)
        d == mid + DataLen(m)
    IN  CASE i <= HeadLen -> <<"head", i>>
          [] i > HeadLen /\ Secure -> <<"enc", i - HeadLen>>
          [] i > HeadLen /\ ~Secure /\ i <= f -> <<"front", i - HeadLen>>
          [] i > f /\ ~Secure /\ i <= mid -> <<"middle", i - f>>
          [] i > mid /\ ~Secure /\ i <= d -> <<"data", i - mid>>
          [] OTHER -> <<"epil", i - d>>

WellFramed(frame) ==
    frame[1].k = "head" => \A i \in DOMAIN frame :
      LET b == frame[i]
          part == PartOf(frame[1].m, i)
      IN  \/ <<b.k, b.i, b.m>> = <<part[1], part[2], frame[1].m>>
          \/ /\ b.k = "zero"
             /\ part[1] \in {"front", "middle", "data"} \/ (part[1] = "epil" /\ case.proto = "v1")

\* Wherever the socket stopped and whatever was revoked there, every byte the
\* connection writes is the one the peer expects at that place of the frame its head
\* announced: a head, an epilogue or a footer where one belongs, and in between the
\* bytes of the message or the zeros that make up for them.
FramesKept ==
    /\ \A i \in DOMAIN peer.got : WellFramed(peer.got[i])
    /\ peer.frame # <<>> => peer.frame[1].k \in {"head", "ctl"} /\ WellFramed(peer.frame)

\* What the peer finds in a frame: the checksum of a part, and whether it is aborted
SeenCrc(frame, part) ==
    LET s == SelectSeq([i \in DOMAIN frame |-> <<PartOf(frame[1].m, i)[1], frame[i].i>>],
                       LAMBDA x : x[1] = part)
    IN  [i \in DOMAIN s |-> s[i][2]]
SaysComplete(frame) ==
    IF case.proto = "v1" THEN Last(frame).k = "epil" ELSE Last(frame).e.complete
HasZeros(frame) == \E i \in DOMAIN frame : frame[i].k = "zero"
CrcRight(frame, e) ==
    LET m == frame[1].m
    IN  /\ e.front = SeenCrc(frame, "front")
        /\ e.middle = IF case.proto # "v1" /\ MiddleLen(m) + DataLen(m) = 0 THEN CrcNone
                      ELSE SeenCrc(frame, "middle")
        /\ e.data = IF case.proto # "v1" /\ DataLen(m) = 0 THEN CrcNone ELSE SeenCrc(frame, "data")

\* The peer takes a message for complete exactly if all its bytes were sent: a footer
\* or an epilogue never vouches for zeros. And the checksums fit what was sent, for a
\* message patched up after a revoke in msgr2 too, or the peer would drop the session.
StatusTruthful ==
    \A i \in DOMAIN peer.got :
      LET frame == peer.got[i]
      IN  (~Secure /\ TailLen(frame[1].m) # 0) =>
            /\ SaysComplete(frame) <=> ~HasZeros(frame)
            /\ Last(frame).k = "epil" => CrcRight(frame, Last(frame).e)

\* Once ceph_msg_revoke returned, nothing that is still to be sent lies in the memory
\* of the message, which its owner may now free: front, middle and data in plain text,
\* and the footer of v1, which is part of the message.
RevokedUnreferenced ==
    \A i \in 1..Len(Pending(out)) :
      LET b == Pending(out)[i]
      IN  b.m \in out.revoked => b.k \in IF case.proto = "v1" THEN {"head"} ELSE {"head", "epil", "enc"}

\* A message that is no longer queued nor being sent, and was not revoked, has reached
\* the peer whole; messages arrive once and in the order they were queued.
WrittenOnce ==
    LET arrived == [i \in DOMAIN peer.got |-> peer.got[i][1].m]
    IN  /\ \A i, j \in DOMAIN arrived : i < j => arrived[i] < arrived[j]
        /\ \A m \in DOMAIN case.msgs :
             \/ m \in Range(arrived) \cup Range(out.queue) \cup out.revoked
             \/ m = out.cur

\* None of the WARN_ONs and BUG_ONs of the write path fires: no zeros left over from
\* an earlier revoke, no buffer replaced while it has bytes, no page left over.
WriterConsistent == ~out.warn

OutType ==
    /\ out.queue \in Seq(DOMAIN case.msgs)
    /\ out.cur \in DOMAIN case.msgs \cup {0}
    /\ out.skip \in Nat /\ out.zero \in Nat /\ out.encr \in Nat
    /\ out.st \in {"QUEUE_DATA", "QUEUE_DATA_CONT", "QUEUE_ENC_PAGE", "QUEUE_ZEROS",
                   "FINISH_MESSAGE", "GET_NEXT"}
=============================================================================
