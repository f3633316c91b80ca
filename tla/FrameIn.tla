------------------------------- MODULE FrameIn -------------------------------
(* How a connection reads frames from its socket, in the three wire formats,     *)
(* when the socket hands over any number of bytes and a message may be skipped   *)
(* or revoked (ceph_msg_revoke_incoming) at any byte of it.                      *)
(*                                                                             *)
(* The frames on the wire are messages and control frames (an ack in v1); a      *)
(* message is taken, or alloc_msg has it skipped. The reader knows the wire only  *)
(* by the lengths in the heads it has read.                                      *)
EXTENDS FrameOut, Integers

CONSTANTS
    PreLen,       \* the preamble of a plain frame; the tag of v1
    InCases       \* the cases to check: the same

VARIABLE rx

IsMsg(m) == Msg(m).kind # "ctl"

\* Lengths on the wire: a control frame "big" has a control segment that does not fit
\* the inline part of a secure preamble
InHeadLen(m) ==
    CASE case.proto = "v1" -> IF IsMsg(m) THEN HeadLen ELSE PreLen + 1
      [] case.proto = "plain" -> HeadLen
      [] Secure -> IF Msg(m).kind = "ctl" /\ Msg(m).front # 0 THEN HeadLen + BlockLen + TagLen
                   ELSE HeadLen
InTailLen(m) == IF IsMsg(m) THEN TailLen(m) ELSE 0

\* The ciphertexts a frame consists of, each with the next nonce of the sender
Ciphertexts(m) ==
    IF ~Secure THEN 0
    ELSE IF InTailLen(m) # 0 \/ InHeadLen(m) # HeadLen THEN 2 ELSE 1

WireFrame(m) == Raw("head", m, InHeadLen(m)) \o Raw("tail", m, InTailLen(m))
Wire == FlattenSeq([m \in DOMAIN case.msgs |-> WireFrame(m)])
NonceOf(m) == Total([i \in 1..(m - 1) |-> Ciphertexts(i)])

\* con->v1 and con->v2 as far as reading goes:
\*   pos    bytes read from the socket       fr      the frame being read
\*   msg    in_msg                           seq     in_seq
\*   bp, tag, f, mid   v1.in_base_pos, in_tag, and iov_len of front and middle
\*   cursor            the data cursor
\*   left, bv, st      v2.in_iter.count, in_bvec.bv_len, in_state
\*   encr, enci, encp  v2.in_enc_resid, _i and _page_cnt
\*   skipr, nonce      v2.in_skip_resid, in_gcm_nonce
\*   got    messages dispatched              lost    what was read is not what it
\*                                                   is taken for
\*   over   bytes read of the front, the middle and the data of a message when v1
\*          revoked it                       leak    pages of ciphertext were replaced
\*                                                   by those of the next message
InInit(v1, secure) ==
    [pos |-> 0, fr |-> 1, msg |-> 0, seq |-> 0, got |-> <<>>, revoked |-> {},
     bp |-> 0, tag |-> "READY", f |-> 0, mid |-> 0,
     cursor |-> [item |-> 1, pos |-> 0, resid |-> 0, total |-> 0, need |-> FALSE],
     left |-> IF v1 THEN 0 ELSE IF secure THEN HeadLen ELSE PreLen, bv |-> 0, st |-> "HANDLE_PREAMBLE",
     encr |-> 0, enci |-> 0, encp |-> 0, skipr |-> 0, nonce |-> 0,
     lost |-> FALSE, warn |-> FALSE, over |-> 0, leak |-> FALSE]

Warned(r, b) == [r EXCEPT !.warn = @ \/ b]
DataCursor(m) == SkipEmpty(Msg(m).data, CursorInit(Msg(m).data, DataLen(m)))
NextFrame(r) == [r EXCEPT !.fr = @ + 1]

\* ceph_con_process_message: dispatched, in_seq++
Dispatch(r) == NextFrame([r EXCEPT !.got = Append(@, r.msg), !.msg = 0, !.seq = @ + 1])

---------------------------------------------------------------------------
\* v1
HdrLen == HeadLen - PreLen

\* The bytes ceph_con_v1_try_read asks the socket for, as it takes them to be
V1Wants(r) ==
    LET m == r.fr
        body(i, n) == SubSeq(Raw("tail", m, i + n), i + 1, i + n)
        head(i, n) == SubSeq(Raw("head", m, i + n), i + 1, i + n)
    IN  CASE r.bp < 0 -> Raw("skip", m, 0 - r.bp)
          [] r.bp >= 0 /\ r.tag = "READY" -> head(0, PreLen)
          [] r.bp >= 0 /\ r.tag = "ACK" -> head(PreLen + r.bp, 1 - r.bp)
          [] r.tag = "MSG" /\ r.bp >= 0 /\ r.bp < HdrLen -> head(PreLen + r.bp, HdrLen - r.bp)
          [] r.tag = "MSG" /\ r.bp >= HdrLen /\ r.f < FrontLen(m) -> body(r.f, FrontLen(m) - r.f)
          [] r.tag = "MSG" /\ r.bp >= HdrLen /\ r.f = FrontLen(m) /\ r.mid < MiddleLen(m) ->
                 body(r.f + r.mid, MiddleLen(m) - r.mid)
          [] r.tag = "MSG" /\ r.bp >= HdrLen /\ r.f = FrontLen(m) /\ r.mid = MiddleLen(m)
                 /\ r.cursor.total # 0 ->
                 body(r.f + r.mid + DataLen(m) - r.cursor.total, PieceLen(Msg(m).data, r.cursor))
          [] OTHER -> body(r.f + r.mid + DataLen(m) + r.bp - HdrLen, HdrLen + EpilLen - r.bp)

\* prepare_read_tag
PrepareReadTag(r) == [r EXCEPT !.bp = 0, !.tag = "READY"]

\* The part of read_partial_message that follows the header, the first time: an old
\* message and one alloc_msg does not want are skipped
V1Header(r) ==
    LET m == r.fr
        skip == [r EXCEPT !.bp = 0 - TailLen(m), !.tag = "READY"]
    IN  CASE Msg(m).seq <= r.seq -> skip
          [] Msg(m).seq > r.seq /\ Msg(m).kind = "skip" -> [skip EXCEPT !.seq = @ + 1]
          [] OTHER -> [r EXCEPT !.msg = m, !.f = 0, !.mid = 0,
                                !.cursor = IF DataLen(m) = 0 THEN [@ EXCEPT !.total = 0] ELSE DataCursor(m)]

\* After n bytes of what V1Wants names: the rest of try_read up to the next recvmsg
V1Got(r, n) ==
    LET m == r.fr
        data == Msg(m).data
    IN  CASE r.bp < 0 -> IF r.bp + n = 0 THEN NextFrame([r EXCEPT !.bp = 0]) ELSE [r EXCEPT !.bp = @ + n]
          [] r.bp >= 0 /\ r.tag = "READY" ->
                 [r EXCEPT !.bp = 0, !.tag = IF IsMsg(m) THEN "MSG" ELSE "ACK"]
          [] r.bp >= 0 /\ r.tag = "ACK" -> NextFrame(PrepareReadTag(r))
          [] r.tag = "MSG" /\ r.bp >= 0 /\ r.bp < HdrLen ->
                 IF r.bp + n = HdrLen THEN V1Header([r EXCEPT !.bp = HdrLen]) ELSE [r EXCEPT !.bp = @ + n]
          [] r.tag = "MSG" /\ r.bp >= HdrLen /\ r.f < FrontLen(m) -> [r EXCEPT !.f = @ + n]
          [] r.tag = "MSG" /\ r.bp >= HdrLen /\ r.f = FrontLen(m) /\ r.mid < MiddleLen(m) ->
                 [r EXCEPT !.mid = @ + n]
          [] r.tag = "MSG" /\ r.bp >= HdrLen /\ r.f = FrontLen(m) /\ r.mid = MiddleLen(m)
                 /\ r.cursor.total # 0 ->
                 [r EXCEPT !.cursor = SkipEmpty(data, DataAdvance(data, @, n))]
          [] OTHER -> IF r.bp + n = HdrLen + EpilLen THEN PrepareReadTag(Dispatch(r))
                      ELSE [r EXCEPT !.bp = @ + n]

\* ceph_con_v1_revoke_incoming. in_base_pos counts the bytes of the header and of the
\* footer only, and all of the front, the middle and the data is subtracted from it
V1RevokeIncoming(r) ==
    [r EXCEPT !.bp = @ - HdrLen - FrontLen(r.msg) - MiddleLen(r.msg) - DataLen(r.msg) - EpilLen,
              !.tag = "READY", !.seq = @ + 1, !.msg = 0,
              !.over = r.f + r.mid + (IF DataLen(r.msg) = 0 THEN 0 ELSE DataLen(r.msg) - r.cursor.total)]

---------------------------------------------------------------------------
\* v2

\* reset_in_kvecs and add_in_kvec, set_in_bvec: both expect an empty in_iter
InIter(r, n, st) == [Warned(r, r.left # 0) EXCEPT !.left = n, !.st = st]
InBvec(r, n, st) == [InIter(r, n, st) EXCEPT !.bv = n]

PrepareReadPreamble(r) == InIter(r, IF Secure THEN HeadLen ELSE PreLen, "HANDLE_PREAMBLE")

\* arm_skip_chunk: without ITER_DISCARD, a skip goes page by page
ArmSkipChunk(r) ==
    LET n == Min({r.skipr, PageSize})
    IN  [InBvec(r, n, "FINISH_SKIP") EXCEPT !.skipr = @ - n]
\* set_in_skip and IN_S_FINISH_SKIP
SetInSkip(r, n) == ArmSkipChunk([r EXCEPT !.skipr = n])

\* __finish_skip
FinishSkipped(r) == PrepareReadPreamble(NextFrame([r EXCEPT !.seq = @ + 1]))
\* A bug: the nonce moves on with every chunk that was skipped
FinishSkipEarlyNonce(r) ==
    LET p == [r EXCEPT !.nonce = IF Secure THEN @ + 1 ELSE @]
    IN  IF r.skipr > 0 THEN ArmSkipChunk(p) ELSE FinishSkipped(p)
\* finish_skip
FinishSkip(r) ==
    IF r.skipr > 0 THEN ArmSkipChunk(r)
    ELSE FinishSkipped([r EXCEPT !.nonce = IF Secure THEN @ + 1 ELSE @])

\* get_bvec_at and set_in_bvec
ReadPiece(r) == InBvec(r, PieceLen(Msg(r.msg).data, r.cursor), "PREPARE_READ_DATA_CONT")
\* prepare_read_data
PrepareReadData(r) == ReadPiece([r EXCEPT !.cursor = DataCursor(r.msg)])
\* prepare_read_data_cont
PrepareReadDataCont(r) ==
    LET data == Msg(r.msg).data
        p == [r EXCEPT !.cursor = SkipEmpty(data, DataAdvance(data, @, r.bv))]
    IN  IF p.cursor.total # 0 THEN ReadPiece(p) ELSE InIter(p, EpilLen, "HANDLE_EPILOGUE")

\* prepare_read_tail_plain
PrepareReadTailPlain(r) ==
    LET n == FrontLen(r.msg) + MiddleLen(r.msg)
    IN  CASE n = 0 -> PrepareReadData(r)
          [] n # 0 /\ DataLen(r.msg) # 0 -> InIter(r, n, "PREPARE_READ_DATA")
          [] OTHER -> InIter(r, n + EpilLen, "HANDLE_EPILOGUE")

\* prepare_read_enc_page
PrepareReadEncPage(r) ==
    LET n == Min({r.encr, PageSize})
        p == [InBvec(Warned(r, r.encr = 0), n, "PREPARE_READ_ENC_PAGE") EXCEPT !.enci = @ + 1, !.encr = @ - n]
    IN  IF p.encr # 0 THEN p ELSE [Warned(p, p.enci # p.encp) EXCEPT !.st = "HANDLE_EPILOGUE"]
\* prepare_read_tail_secure
PrepareReadTailSecure(r) ==
    LET tail == TailLen(r.msg)
    IN  PrepareReadEncPage([Warned(r, tail = 0) EXCEPT
          !.leak = @ \/ r.encp # 0, !.encp = (tail + PageSize - 1) \div PageSize, !.encr = tail, !.enci = 0])

\* process_message
ProcessMessage(r) == PrepareReadPreamble(Dispatch(r))

\* prepare_skip_message
PrepareSkipMessage(r) == IF TailLen(r.fr) = 0 THEN FinishSkipped(r) ELSE SetInSkip(r, TailLen(r.fr))

\* __handle_control: process_control, or process_message_header and what follows
HandleMessage(r) ==
    CASE Msg(r.fr).seq <= r.seq \/ Msg(r.fr).kind = "skip" -> PrepareSkipMessage(r)
      [] OTHER ->
           LET p == [r EXCEPT !.msg = r.fr]
           IN  CASE TailLen(r.fr) = 0 -> ProcessMessage(p)
                 [] TailLen(r.fr) # 0 /\ Secure -> PrepareReadTailSecure(p)
                 [] TailLen(r.fr) # 0 /\ ~Secure -> PrepareReadTailPlain(p)
HandleControl(r) ==
    IF IsMsg(r.fr) THEN HandleMessage(r) ELSE PrepareReadPreamble(NextFrame(r))

\* gcm_crypt: what does not decrypt under in_gcm_nonce is refused
Decrypt(r, nonce) == [r EXCEPT !.nonce = @ + 1, !.lost = @ \/ r.nonce # nonce]

\* handle_preamble
HandlePreamble(r) ==
    LET p == Decrypt(r, NonceOf(r.fr))
    IN  CASE ~Secure -> InIter(r, InHeadLen(r.fr) - PreLen, "HANDLE_CONTROL")
          [] Secure /\ InHeadLen(r.fr) # HeadLen ->
                 InIter(p, InHeadLen(r.fr) - HeadLen, "HANDLE_CONTROL_REMAINDER")
          [] OTHER -> HandleControl(p)

\* handle_epilogue, with decrypt_tail, which frees the pages of the ciphertext
HandleEpilogue(r) ==
    ProcessMessage(IF Secure
                   THEN [Decrypt(Warned(r, r.encp = 0), NonceOf(r.fr) + 1) EXCEPT !.encp = 0]
                   ELSE r)

\* populate_in_iter
PopulateInIter(r) ==
    CASE r.st = "HANDLE_PREAMBLE" -> HandlePreamble(r)
      [] r.st = "HANDLE_CONTROL" -> HandleControl(r)
      [] r.st = "HANDLE_CONTROL_REMAINDER" -> HandleControl(Decrypt(r, NonceOf(r.fr) + 1))
      [] r.st = "PREPARE_READ_DATA" -> PrepareReadData(r)
      [] r.st = "PREPARE_READ_DATA_CONT" -> PrepareReadDataCont(r)
      [] r.st = "PREPARE_READ_ENC_PAGE" -> PrepareReadEncPage(r)
      [] r.st = "HANDLE_EPILOGUE" -> HandleEpilogue(r)
      [] r.st = "FINISH_SKIP" -> FinishSkip(r)

\* The bytes in_iter is there for
V2Wants(r) ==
    LET m == r.fr
        part(k, end) == SubSeq(Raw(k, m, end), end - r.left + 1, end)
        fm == FrontLen(m) + MiddleLen(m)
    IN  CASE r.st = "HANDLE_PREAMBLE" -> part("head", IF Secure THEN HeadLen ELSE PreLen)
          [] r.st \in {"HANDLE_CONTROL", "HANDLE_CONTROL_REMAINDER"} -> part("head", InHeadLen(m))
          [] r.st = "PREPARE_READ_DATA" -> part("tail", fm)
          [] r.st = "PREPARE_READ_DATA_CONT" -> part("tail", fm + DataLen(m) - r.cursor.total + r.bv)
          [] r.st = "PREPARE_READ_ENC_PAGE" -> part("tail", TailLen(m) - r.encr)
          [] r.st = "HANDLE_EPILOGUE" -> part("tail", TailLen(m))
          [] r.st = "FINISH_SKIP" -> Raw("skip", m, r.left)

\* revoke_at_prepare_read_data, _cont, _enc_page and revoke_at_handle_epilogue:
\* the rest of the message is skipped
ToSkip(r) ==
    CASE r.st = "PREPARE_READ_DATA" -> r.left + DataLen(r.msg) + EpilLen
      [] r.st = "PREPARE_READ_DATA_CONT" ->
             LET data == Msg(r.msg).data
                 recved == r.bv - r.left
                 c == IF recved = 0 THEN r.cursor ELSE DataAdvance(data, r.cursor, recved)
             IN  c.total + EpilLen
      [] r.st = "PREPARE_READ_ENC_PAGE" -> r.left + r.encr
      [] r.st = "HANDLE_EPILOGUE" -> r.left

\* ceph_con_v2_revoke_incoming
V2RevokeIncoming(r) == [SetInSkip([Warned(r, r.left = 0) EXCEPT !.left = 0], ToSkip(r)) EXCEPT !.msg = 0]

---------------------------------------------------------------------------
\* A case is about one direction; the other one rests
FrInit == /\ case \in OutCases \cup InCases
          /\ out = OutInit(case)
          /\ peer = PeerInit
          /\ rx = InInit(case.proto = "v1", Secure)
frVars == <<case, out, peer, rx>>

Wants(r) == IF r.fr > Len(case.msgs) THEN <<>>
            ELSE IF case.proto = "v1" THEN V1Wants(r) ELSE V2Wants(r)

\* A byte read in a skip is any byte of the tail of that frame
Fits(want, byte) ==
    IF want.k = "skip" THEN byte.k = "tail" /\ byte.m = want.m ELSE byte = want

\* ceph_con_v1_try_read and ceph_con_v2_try_read: n bytes have arrived
Receive ==
    \E n \in 1..Len(Wants(rx)) :
       /\ ~rx.lost
       /\ rx.pos + n <= Len(Wire)
       /\ LET right == \A i \in 1..n : Fits(Wants(rx)[i], Wire[rx.pos + i])
              r == [rx EXCEPT !.pos = @ + n]
          IN  rx' = IF ~right THEN [r EXCEPT !.lost = TRUE]
                    ELSE IF case.proto = "v1" THEN V1Got(r, n)
                    ELSE IF rx.left = n THEN PopulateInIter([r EXCEPT !.left = 0])
                    ELSE [r EXCEPT !.left = @ - n]
       /\ UNCHANGED case

\* ceph_msg_revoke_incoming
RevokeIncoming ==
    /\ rx.msg # 0 /\ ~rx.lost
    /\ Cardinality(rx.revoked) < case.revokes
    /\ rx' = [(IF case.proto = "v1" THEN V1RevokeIncoming(rx) ELSE V2RevokeIncoming(rx)) EXCEPT
                !.revoked = @ \cup {rx.msg}]
    /\ UNCHANGED case

FrNext ==
    \/ case.dir = "out" /\ OutNext /\ UNCHANGED rx
    \/ case.dir = "in" /\ (Receive \/ RevokeIncoming) /\ UNCHANGED <<out, peer>>

FrSpec == FrInit /\ [][FrNext]_frVars

---------------------------------------------------------------------------
\* Properties

\* The bytes of the frames up to and including the m-th
EndOf(m) == Total([i \in 1..m |-> InHeadLen(i) + InTailLen(i)])

\* Every byte read is the one it is taken for: a preamble or a tag is looked for
\* exactly where the peer sent one, however the bytes arrived and whichever message
\* was skipped or revoked on the way; and each ciphertext meets its nonce. The reader
\* is through with the last frame exactly when the stream is used up. The exception is
\* a v1 message revoked when part of its front, middle or data had been read: the skip
\* then ends that many bytes behind the message, among the bytes of the next ones, and
\* a reader that got that far has lost its place.
InStep ==
    /\ rx.over = 0 => /\ ~rx.lost
                      /\ rx.pos = Len(Wire) <=> rx.fr > Len(case.msgs)
    /\ rx.over # 0 => /\ case.proto = "v1"
                      /\ IF rx.lost THEN rx.pos > EndOf(rx.fr)
                         ELSE rx.pos <= EndOf(rx.fr) /\ rx.pos - rx.bp = EndOf(rx.fr) + rx.over

\* Messages are dispatched once, in order, and only those taken and not revoked; and
\* in_seq counts every message that was passed over too, so that the next one is
\* neither refused nor taken for an old one.
DispatchedRight ==
    LET passed == {m \in 1..(rx.fr - 1) : IsMsg(m)}
    IN  /\ rx.got = SelectSeq([m \in 1..(rx.fr - 1) |-> m],
                              LAMBDA m : /\ Msg(m).kind = "take" /\ m \notin rx.revoked
                                         /\ \A l \in 1..(m - 1) : IsMsg(l) => Msg(l).seq < Msg(m).seq)
        /\ (rx.fr \notin rx.revoked /\ rx.bp >= 0) =>
             rx.seq = Cardinality({Msg(m).seq : m \in passed})

\* No WARN_ON of the read path fires but one, and that one only after a secure message
\* was revoked, because nobody frees the pages of its ciphertext: no buffer is replaced
\* while bytes are due, and no other message leaves pages behind.
ReaderConsistent ==
    /\ ~rx.warn
    /\ rx.leak => Secure /\ \E m \in rx.revoked : m < rx.fr \/ rx.msg = 0

FrType ==
    /\ OutType
    /\ rx.pos \in 0..Len(Wire) /\ rx.fr \in 1..(Len(case.msgs) + 1)
    /\ rx.msg \in DOMAIN case.msgs \cup {0}
    /\ rx.left \in Nat /\ rx.encr \in Nat /\ rx.skipr \in Nat /\ rx.bp \in Int

\* The frames of a connection in both directions: what is written is well framed,
\* truthful about revoked messages and written once; what is read is in step and
\* dispatched right, as far as InStep goes; and no warning of either path fires but the
\* one ReaderConsistent names.
FramesSound ==
    /\ FrType /\ FramesKept /\ StatusTruthful
    /\ RevokedUnreferenced /\ WrittenOnce /\ WriterConsistent
    /\ InStep /\ DispatchedRight /\ ReaderConsistent
=============================================================================
