------------------------------- MODULE MsgData -------------------------------
(* The data payload of a message (ceph_msg_data) and the cursor that walks it   *)
(* in pieces, each within one page (messenger.c).                               *)
(*                                                                             *)
(* A data item is a sequence of segments [off, len], off being the offset in    *)
(* its first page. A page array and a pagelist are one segment; a bio list and  *)
(* a bvec array have one segment per bio_vec, which may span pages; an iov_iter  *)
(* has one per segment. A byte of the payload is known by its position, so that  *)
(* a checksum is the sequence of the positions it covers, 0 for a zero.          *)
EXTENDS Naturals, Sequences, SequencesExt, FiniteSetsExt, Folds

CONSTANT
    PageSize   \* PAGE_SIZE

ASSUME PageAssumption == PageSize \in Nat \ {0}

Types == {"pages", "pagelist", "bio", "bvecs", "iter"}
Segment == [off : 0..(PageSize - 1), len : Nat]
Item == [type : Types, segs : Seq(Segment)]

Total(lens) == FoldSeq(+, 0, lens)
SegLens(segs) == [i \in DOMAIN segs |-> segs[i].len]

\* ceph_msg_data_add_pages, _pagelist, _bio, _bvecs and _iter
Pages(len, align) == [type |-> "pages", segs |-> <<[off |-> align % PageSize, len |-> len]>>]
Pagelist(len) == [type |-> "pagelist", segs |-> <<[off |-> 0, len |-> len]>>]
Bio(segs) == [type |-> "bio", segs |-> segs]
Bvecs(segs) == [type |-> "bvecs", segs |-> segs]
Iter(segs) == [type |-> "iter", segs |-> segs]

ItemLen(item) == Total(SegLens(item.segs))
DataLength(data) == Total([i \in DOMAIN data |-> ItemLen(data[i])])

\* Where a byte of an item lies: its segment, and its offset there
SegAt(item, pos) ==
    CHOOSE i \in DOMAIN item.segs :
       /\ Total(SegLens(SubSeq(item.segs, 1, i - 1))) <= pos
       /\ pos < Total(SegLens(SubSeq(item.segs, 1, i)))
SegPos(item, pos) == pos - Total(SegLens(SubSeq(item.segs, 1, SegAt(item, pos) - 1)))
PageOffset(item, pos) == (item.segs[SegAt(item, pos)].off + SegPos(item, pos)) % PageSize

\* __ceph_msg_data_cursor_init and the cursor_init of each type: at the first byte
\* of item i, with "total" bytes of the payload to go
ItemCursor(data, i, total) ==
    [item |-> i, pos |-> 0, resid |-> Min({total, ItemLen(data[i])}), total |-> total, need |-> TRUE]

\* ceph_msg_data_cursor_init
CursorInit(data, length) == ItemCursor(data, 1, length)

\* The length ceph_msg_data_next returns: what is left of the page and of the segment
PieceLen(data, c) ==
    LET item == data[c.item]
        seg == item.segs[SegAt(item, c.pos)]
    IN  Min({c.resid, PageSize - PageOffset(item, c.pos), seg.len - SegPos(item, c.pos)})

\* The value of ceph_msg_data_<type>_advance for a cursor moved by n bytes: whether
\* the next piece begins here. For an iov_iter it is cursor->resid.
NewPiece(item, pos, resid, n) ==
    /\ resid # 0
    /\ \/ item.type = "iter"
       \/ n # 0 /\ (PageOffset(item, pos) = 0 \/ SegPos(item, pos) = 0)

\* ceph_msg_data_advance, which also steps over an item that is used up
DataAdvance(data, c, n) ==
    LET resid == c.resid - n
        total == c.total - n
    IN  IF resid = 0 /\ total # 0 THEN ItemCursor(data, c.item + 1, total)
        ELSE [c EXCEPT !.pos = @ + n, !.resid = resid, !.total = total,
                       !.need = NewPiece(data[c.item], c.pos + n, resid, n)]

\* The loop over "if (!cursor->resid)": past items with no bytes
SkipEmpty(data, c) ==
    IF c.resid # 0 \/ c.total = 0 THEN c
    ELSE ItemCursor(data, Min({i \in DOMAIN data : i > c.item /\ ItemLen(data[i]) # 0}), c.total)

\* The positions of the next n bytes, counted from the start of the payload
Positions(data, c, n) == [i \in 1..n |-> DataLength(data) - c.total + i]

=============================================================================
