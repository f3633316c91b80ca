------------------------------- MODULE Striper -------------------------------
(* Striping (libceph/striper.c): file extents to object extents and back. Two          *)
(* successive file extents are mapped onto one list, a stripe unit at a time.         *)
EXTENDS Integers, Sequences, SequencesExt, FiniteSets, FiniteSetsExt

CONSTANTS
    Layouts,    \* records: su (stripe unit), count (stripe count), per (stripes per object)
    Extents     \* sequences of file extents [off, len], in order and disjoint

VARIABLE st

UpDiv(a, b) == (a + b - 1) \div b

\* ceph_calc_file_object_mapping
Mapping(l, off, len) ==
    LET block == off \div l.su
        stripe == block \div l.count
    IN  [obj |-> (stripe \div l.per) * l.count + (block % l.count),
         off |-> (stripe % l.per) * l.su + (off % l.su),
         len |-> Min({len, l.su - (off % l.su)})]

\* lookup_last: the place of the last extent of an object, or where one would follow
LastOf(exts, obj) == Max({0} \cup {i \in DOMAIN exts : exts[i].obj <= obj})
Adjoins(exts, i, x) == i > 0 /\ exts[i].obj = x.obj /\ exts[i].off + exts[i].len = x.off
\* One round of ceph_file_to_extents: merged into the last extent of its object, or inserted
Inserted(exts, x) ==
    LET i == LastOf(exts, x.obj)
    IN  IF Adjoins(exts, i, x) THEN [exts EXCEPT ![i].len = @ + x.len] ELSE InsertAt(exts, i + 1, x)

\* The final test of ceph_file_to_extents
Sorted(exts) ==
    \A i \in 1..Len(exts) - 1 :
        \/ exts[i].obj < exts[i + 1].obj
        \/ exts[i].obj = exts[i + 1].obj /\ exts[i].off + exts[i].len < exts[i + 1].off

\* lookup_containing, for ceph_iterate_extents
Holding(exts, x) ==
    \E i \in DOMAIN exts :
        exts[i].obj = x.obj /\ exts[i].off <= x.off /\ exts[i].off + exts[i].len >= x.off + x.len

\* ceph_extent_to_file: the n-th file extent of an object extent. Only the first starts
\* inside of a stripe unit.
\* A bug: each starts where the first did
FileExtentSkewed(l, x, n) ==
    LET at == (x.off \div l.su + n) * l.su + (x.off % l.su)
        stripe == x.off \div l.su + n + (x.obj \div l.count) * l.per
    IN  [off |-> (stripe * l.count + (x.obj % l.count)) * l.su + (x.off % l.su),
         len |-> Min({x.off + x.len - at, l.su - (x.off % l.su)})]
FileExtent(l, x, n) ==
    LET skip == IF n = 0 THEN x.off % l.su ELSE 0
        at == (x.off \div l.su + n) * l.su + skip
        stripe == x.off \div l.su + n + (x.obj \div l.count) * l.per
    IN  [off |-> (stripe * l.count + (x.obj % l.count)) * l.su + skip,
         len |-> Min({x.off + x.len - at, l.su - skip})]
NumFileExtents(l, x) == IF x.len = 0 THEN 0 ELSE UpDiv(x.off + x.len, l.su) - x.off \div l.su
ToFile(l, x) == [n \in 1..NumFileExtents(l, x) |-> FileExtent(l, x, n - 1)]

\* ceph_get_num_objects
NumObjects(l, size) ==
    LET period == l.count * l.per * l.su
        rest == size % period
    IN  UpDiv(size, period) * l.count
        - (IF rest > 0 /\ rest < l.count * l.su THEN l.count - UpDiv(rest, l.su) ELSE 0)

---------------------------------------------------------------------------
\* st: the layout, the file extents, the one in hand and how far it is, and the list
StInit == st \in {[l |-> l, in |-> e, i |-> 1, done |-> 0, exts |-> <<>>] : l \in Layouts, e \in Extents}
Cur == st.in[st.i]
StStep ==
    /\ st.i <= Len(st.in) /\ st.done < Cur.len
    /\ LET x == Mapping(st.l, Cur.off + st.done, Cur.len - st.done)
       IN  st' = [st EXCEPT !.exts = Inserted(@, x), !.done = @ + x.len]
\* The call returns; the caller maps its next extent
StNextCall ==
    /\ st.i <= Len(st.in) /\ st.done = Cur.len
    /\ st' = [st EXCEPT !.i = @ + 1, !.done = 0]
StNext == StStep \/ StNextCall
StSpec == StInit /\ [][StNext]_st

---------------------------------------------------------------------------
\* Properties

Bytes(e) == e.off..e.off + e.len - 1
Handled == UNION ({Bytes(st.in[i]) : i \in 1..st.i - 1}
                  \cup (IF st.i <= Len(st.in) THEN {Bytes([Cur EXCEPT !.len = st.done])} ELSE {}))

\* ceph_file_to_extents never meets the list that it warns of, and what it maps is found
\* again by ceph_iterate_extents: the list is sorted, its extents are apart, and every
\* stripe unit of the bytes handled lies in one of them.
ListSorted ==
    /\ Sorted(st.exts)
    /\ \A b \in Handled : Holding(st.exts, Mapping(st.l, b, 1))

\* Mapped back by ceph_extent_to_file, the object extents are exactly the bytes mapped, each
\* once: nothing is lost, doubled or shifted by merging.
MappedBack ==
    LET back == FlattenSeq([i \in DOMAIN st.exts |-> ToFile(st.l, st.exts[i])])
    IN  /\ UNION {Bytes(back[i]) : i \in DOMAIN back} = Handled
        /\ FoldLeft(LAMBDA n, e : n + e.len, 0, back) = Cardinality(Handled)

\* An image of a given size has the objects that ceph_get_num_objects counts: the last byte
\* of the size, or an earlier one, lies in the last of them, and none lies beyond.
ObjectsCounted ==
    \A e \in ToSet(st.in) :
        LET size == e.off + e.len
        IN  NumObjects(st.l, size) = Max({Mapping(st.l, b, 1).obj : b \in 0..size - 1}) + 1

\* The striper as a whole: ceph_file_to_extents, ceph_iterate_extents, their inverse
\* ceph_extent_to_file, and ceph_get_num_objects.
StripedExact == ListSorted /\ MappedBack /\ ObjectsCounted
=============================================================================
