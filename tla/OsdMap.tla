------------------------------- MODULE OsdMap -------------------------------
(* The client's copy of the cluster map (libceph/osdmap.c): built from a full map   *)
(* or, epoch by epoch, from increments, and what it says of a placement group:     *)
(* the OSDs that are up for it and the ones that act for it. The monitors' own map  *)
(* (external) is changed by one or two changes per epoch; an increment lists, per   *)
(* field, what is new. CRUSH itself is the table Crushed; see Crush.               *)
EXTENDS Integers, Sequences, SequencesExt, FiniteSets, FiniteSetsExt, Functions, TLC

CONSTANTS
    First,       \* the cluster's first map
    Plans,       \* what may happen to it: records of changes and a bound on the epochs
    Crushed(_, _, _, _),   \* a crush map, an input, a size and weights to a list of OSDs
    Shies,       \* sets of OSDs that the hash may turn down as primaries
    Raws,        \* placement groups at full precision
    MapFaults    \* bound: increments that run out of memory

VARIABLE om

NoOsd == 1000    \* CRUSH_ITEM_NONE
DefAff == 2      \* CEPH_OSD_DEFAULT_PRIMARY_AFFINITY: always; 1 is by the hash, 0 never
NoAddr == 0
Blank == [exists |-> FALSE, up |-> FALSE, auto |-> FALSE, weight |-> 0, addr |-> NoAddr]

\* ceph_osdmap_alloc. osds stands for the arrays osd_state, osd_weight and osd_addr, which
\* are replaced together, max for max_osd. The affinities are an array or NULL: aff is empty
\* then.
MapAlloc ==
    [epoch |-> 0, crush |-> 0, flags |-> {}, max |-> 0, osds |-> <<>>, aff |-> <<>>, pools |-> <<>>,
     names |-> <<>>, temp |-> <<>>, ptemp |-> <<>>, upmap |-> <<>>, items |-> <<>>]

\* An array of n entries, like a for the first ones
Sized(a, n, new) == [i \in 0..n - 1 |-> IF i \in DOMAIN a THEN a[i] ELSE new]
NumOsds(t) == Cardinality(DOMAIN t.osds)

---------------------------------------------------------------------------
\* Decoding

\* osdmap_set_max_osd: the three arrays go first, then the affinities, then max_osd. What
\* the arrays hold beyond max_osd is not copied.
Resized(m, n) == [m EXCEPT !.osds = Sized([o \in DOMAIN @ \cap 0..m.max - 1 |-> @[o]], n, Blank)]
SetMaxOsd(m, n) ==
    IF n = m.max THEN m
    ELSE [Resized(m, n) EXCEPT !.aff = IF @ = <<>> THEN @ ELSE Sized(@, n, DefAff), !.max = n]

\* ceph_get_primary_affinity, set_primary_affinity
Affinity(m, o) == IF m.aff = <<>> THEN DefAff ELSE m.aff[o]
SetAffinity(m, o, a) ==
    [m EXCEPT !.aff = [(IF @ = <<>> THEN Sized(<<>>, m.max, DefAff) ELSE @) EXCEPT ![o] = a]]

\* decode_pg_mapping: the entry of a group is replaced; a value of gone removes it
Mapped(f, new, gone) ==
    LET all == new @@ f
    IN  Restrict(all, {pg \in DOMAIN all : pg \notin DOMAIN new \/ new[pg] # gone})
Removed(f, pgs) == Restrict(f, DOMAIN f \ pgs)

\* calc_bits_of, calc_pg_masks
BitsOf(t) == CHOOSE b \in 0..32 : 2^b > t /\ (b = 0 \/ 2^(b - 1) <= t)
PgMask(n) == 2^BitsOf(n - 1) - 1

\* decode_pool: what the encoding of version v says, and the masks
DecodePool(w) ==
    [id |-> w.id, type |-> w.type, size |-> w.size, pg |-> w.pg, pgp |-> w.pgp, hashed |-> w.hashed,
     min |-> IF w.v >= 7 THEN w.min ELSE w.size - w.size \div 2,
     resend |-> IF w.v < 15 THEN 0 ELSE IF w.v < 25 THEN w.pre ELSE w.resend,
     pgMask |-> PgMask(w.pg), pgpMask |-> PgMask(w.pgp), name |-> ""]
\* __decode_pools: a pool that is there keeps its name. decode_pool_names.
DecodePools(pools, new) ==
    [p \in DOMAIN new |-> [DecodePool(new[p]) EXCEPT !.name = IF p \in DOMAIN pools THEN pools[p].name ELSE @]]
        @@ pools
DecodeNames(pools, names) ==
    [p \in DOMAIN pools |-> [pools[p] EXCEPT !.name = IF p \in DOMAIN names THEN names[p] ELSE @]]

\* osdmap_decode of a full map
OsdmapDecode(f) ==
    LET sized == SetMaxOsd([MapAlloc EXCEPT !.epoch = f.epoch, !.pools = DecodeNames(DecodePools(@, f.pools), f.names), !.flags = f.flags],
                           NumOsds(f))
        states == [sized EXCEPT !.osds = [o \in DOMAIN @ |-> f.osds[o]],
                                !.temp = f.temp @@ @, !.ptemp = f.ptemp @@ @]
        affs == FoldLeft(LAMBDA m, i : SetAffinity(m, i - 1, f.aff[i - 1]), states,
                         [i \in 1..Cardinality(DOMAIN f.aff) |-> i])
    IN  [affs EXCEPT !.crush = f.crush, !.upmap = f.upmap @@ @,
                     !.items = f.items @@ @]

\* decode_new_up_state_weight: weights first, then states, then the OSDs that came up
NewWeights(m, ws) ==
    [m EXCEPT !.osds = [o \in DOMAIN @ |->
        IF o \notin DOMAIN ws THEN @[o]
        ELSE IF ws[o] = 0 THEN [@[o] EXCEPT !.weight = 0]
        ELSE [@[o] EXCEPT !.weight = ws[o], !.exists = TRUE, !.auto = FALSE]]]
Xor(s, bits) ==
    [s EXCEPT !.exists = @ # ("exists" \in bits), !.up = @ # ("up" \in bits), !.auto = @ # ("auto" \in bits)]
\* An empty set of bits stands for UP, as it did before there were others
Bits(x) == IF x = {} THEN {"up"} ELSE x
NewState(m, o, x) ==
    IF m.osds[o].exists /\ "exists" \in Bits(x)
    THEN [SetAffinity(m, o, DefAff) EXCEPT !.osds[o] = [Blank EXCEPT !.weight = m.osds[o].weight]]
    ELSE [m EXCEPT !.osds[o] = Xor(@, Bits(x))]
NewStates(m, xs) == FoldSet(LAMBDA o, n : NewState(n, o, xs[o]), m, DOMAIN xs)
NewUp(m, ups) ==
    [m EXCEPT !.osds = [o \in DOMAIN @ |->
        IF o \in DOMAIN ups THEN [@[o] EXCEPT !.exists = TRUE, !.up = TRUE, !.addr = ups[o]] ELSE @[o]]]
NewUpStateWeight(m, d) == NewUp(NewStates(NewWeights(m, d.weight), d.state), d.up)

\* The stages of osdmap_apply_incremental, in order; d is the increment
Stage(m, d, k) ==
    CASE k = "crush"  -> [m EXCEPT !.crush = IF d.crush = {} THEN @ ELSE CHOOSE c \in d.crush : TRUE]
      [] k = "flags"  -> [m EXCEPT !.flags = IF d.flags = {} THEN @ ELSE CHOOSE f \in d.flags : TRUE]
      [] k = "max"    -> IF d.max = {} THEN m ELSE SetMaxOsd(m, CHOOSE n \in d.max : TRUE)
      [] k = "epoch"  -> [m EXCEPT !.epoch = @ + 1]
      [] k = "pools"  -> [m EXCEPT !.pools = Removed(DecodeNames(DecodePools(@, d.pools), d.names), d.oldPools)]
      [] k = "osds"   -> NewUpStateWeight(m, d)
      [] k = "temp"   -> [m EXCEPT !.temp = Mapped(@, d.temp, <<>>)]
      [] k = "ptemp"  -> [m EXCEPT !.ptemp = Mapped(@, d.ptemp, -1)]
      [] k = "aff"    -> FoldSet(LAMBDA o, n : SetAffinity(n, o, d.aff[o]), m, DOMAIN d.aff)
      [] k = "upmap"  -> [m EXCEPT !.upmap = Removed(d.upmap @@ @, d.oldUpmap)]
      [] k = "items"  -> [m EXCEPT !.items = Removed(d.items @@ @, d.oldItems)]
Stages == <<"crush", "flags", "max", "epoch", "pools", "osds", "temp", "ptemp", "aff", "upmap", "items">>

\* What a stage may leave of the map when it runs out of memory. osdmap_set_max_osd has
\* replaced the arrays when it allocates the affinities; set_primary_affinity allocates
\* them for an OSD that goes, after the weights; decode_pg_mapping has erased the entry
\* it allocates a new one for.
Unmapped(m, d, k, gone) ==
    UNION {{[m EXCEPT ![k] = Removed(Mapped(@, Restrict(d[k], done), gone), {pg})] :
                done \in SUBSET (DOMAIN d[k] \ {pg})} : pg \in {q \in DOMAIN d[k] : d[k][q] # gone}}
Partial(m, d, k) ==
    CASE k = "crush"  -> {m : c \in d.crush}
      [] k = "max"    -> UNION {{m} \cup (IF m.aff = <<>> THEN {} ELSE {Resized(m, n)}) : n \in d.max \ {m.max}}
      [] k = "pools"  -> {m : p \in DOMAIN d.pools \ DOMAIN m.pools}
                            \cup {[m EXCEPT !.pools = DecodePools(@, d.pools)] : p \in DOMAIN d.names}
      [] k = "osds"   -> {NewWeights(m, d.weight) :
                            o \in {o \in DOMAIN d.state : m.aff = <<>> /\ m.osds[o].exists /\ "exists" \in d.state[o]}}
      [] k = "aff"    -> {m : o \in {o \in DOMAIN d.aff : m.aff = <<>>}}
      [] k = "temp"   -> Unmapped(m, d, k, <<>>)
      [] k = "ptemp"  -> Unmapped(m, d, k, -1)
      [] k \in {"upmap", "items"} -> Unmapped(m, d, k, <<>>)
      [] OTHER -> {}

\* osdmap_apply_incremental, stopped at stage n; past the last stage it is complete
ApplyTo(m, d, n) == FoldLeft(LAMBDA a, k : Stage(a, d, k), m, SubSeq(Stages, 1, n - 1))
ApplyIncremental(m, d) ==
    IF d.full # {} THEN OsdmapDecode(CHOOSE f \in d.full : TRUE) ELSE ApplyTo(m, d, Len(Stages) + 1)

---------------------------------------------------------------------------
\* Placement

\* ceph_stable_mod
StableMod(x, b, mask) == IF x % (mask + 1) < b THEN x % (mask + 1) ELSE x % (mask \div 2 + 1)

\* The n-th candidate of ceph_pg_is_split: n shifted to the top bit of the old number of
\* groups, or-ed with the seed, which has the lowest bit of n already in the upper half
Candidate(seed, n, half) ==
    (IF seed >= half /\ n % 2 = 0 THEN n + 1 ELSE n) * half + (seed % half)
\* A bug: the groups that the old number leaves out of its power of two are overlooked
IsSplitDoubled(seed, old, new) ==
    LET half == 2^BitsOf(old)
    IN  \E n \in 1..new : LET s == n * half + seed IN s < new /\ StableMod(s, old, 2 * half - 1) = seed
\* ceph_pg_is_split
IsSplit(seed, old, new) ==
    LET half == 2^(BitsOf(old) - 1)
    IN  \E n \in 1..new :
            LET s == Candidate(seed, n, half)
            IN  s >= old /\ s # seed /\ s < new /\ StableMod(s, old, 2 * half - 1) = seed

Exists(m, o) == o \in 0..m.max - 1 /\ m.osds[o].exists
IsUp(m, o) == Exists(m, o) /\ m.osds[o].up
CanShift(pi) == pi.type = "replicated"

\* raw_pg_to_pg, raw_pg_to_pps
PgOf(pi, raw) == <<pi.id, StableMod(raw, pi.pg, pi.pgMask)>>
PpsOf(pi, raw) ==
    LET ps == StableMod(raw, pi.pgp, pi.pgpMask)
    IN  IF pi.hashed THEN <<ps, pi.id>> ELSE <<ps + pi.id>>

\* Drop the OSDs that fail a test, or leave a hole in their place
Kept(pi, set, Good(_)) ==
    IF CanShift(pi) THEN SelectSeq(set, Good)
    ELSE [i \in DOMAIN set |-> IF Good(set[i]) THEN set[i] ELSE NoOsd]
\* pg_to_raw_osds, do_crush and remove_nonexistent_osds
RawOsds(m, pi, raw) ==
    Kept(pi, Crushed(m.crush, PpsOf(pi, raw), pi.size, [o \in 0..m.max - 1 |-> m.osds[o].weight]),
         LAMBDA o : Exists(m, o))

\* apply_upmap
MarkedOut(m, o) == o \in 0..m.max - 1 /\ m.osds[o].weight = 0
\* A bug: the replacement may be in the set already
MovedTwice(m, set, from, to) ==
    IF ~MarkedOut(m, to) THEN [i \in DOMAIN set |-> IF set[i] = from THEN to ELSE set[i]] ELSE set
Moved(m, set, from, to) ==
    IF ToSet(set) \cap {to} = {} /\ ~MarkedOut(m, to)
    THEN [i \in DOMAIN set |-> IF set[i] = from THEN to ELSE set[i]]
    ELSE set
Explicit(m, pg, set) == IF pg \in DOMAIN m.upmap THEN m.upmap[pg] ELSE set
Refused(m, pg) == pg \in DOMAIN m.upmap /\ \E o \in ToSet(m.upmap[pg]) : MarkedOut(m, o)
ApplyUpmap(m, pg, set) ==
    IF Refused(m, pg) THEN set
    ELSE FoldLeft(LAMBDA s, ft : Moved(m, s, ft[1], ft[2]), Explicit(m, pg, set),
                  IF pg \in DOMAIN m.items THEN m.items[pg] ELSE <<>>)

\* The first OSD of a set, or none
FirstOf(set) == LET live == SelectSeq(set, LAMBDA o : o # NoOsd) IN IF live = <<>> THEN -1 ELSE live[1]
WithPrimary(set) == [osds |-> set, primary |-> FirstOf(set)]
\* raw_to_up_osds
UpOf(m, pi, set) == WithPrimary(Kept(pi, set, LAMBDA o : IsUp(m, o)))

\* apply_primary_affinity; shy are the OSDs that the hash turns down at affinity 1
TurnedDown(m, o, shy) == Affinity(m, o) = 0 \/ (Affinity(m, o) = 1 /\ o \in shy)
ToFront(set, o) == <<o>> \o SelectSeq(set, LAMBDA p : p # o)
ApplyAffinity(m, pi, up, shy) ==
    LET live == SelectSeq(up.osds, LAMBDA o : o # NoOsd)
        willing == SelectSeq(live, LAMBDA o : ~TurnedDown(m, o, shy))
        o == IF willing # <<>> THEN willing[1] ELSE live[1]
    IN  IF live = <<>> \/ \A p \in ToSet(live) : Affinity(m, p) = DefAff THEN up
        ELSE [osds |-> IF CanShift(pi) THEN ToFront(up.osds, o) ELSE up.osds, primary |-> o]

\* get_temp_osds
TempOf(m, pi, pg) ==
    WithPrimary(IF pg \in DOMAIN m.temp THEN Kept(pi, m.temp[pg], LAMBDA o : IsUp(m, o)) ELSE <<>>)
Temp(m, pi, pg) ==
    [TempOf(m, pi, pg) EXCEPT !.primary = IF pg \in DOMAIN m.ptemp THEN m.ptemp[pg] ELSE @]

\* ceph_pg_to_up_acting_osds
Up(m, pi, raw, shy) ==
    ApplyAffinity(m, pi, UpOf(m, pi, ApplyUpmap(m, PgOf(pi, raw), RawOsds(m, pi, raw))), shy)
ActingOf(temp, up) ==
    IF temp.osds # <<>> THEN temp
    ELSE [osds |-> up.osds, primary |-> IF temp.primary = -1 THEN up.primary ELSE temp.primary]
Acting(m, pi, raw, shy) == ActingOf(Temp(m, pi, PgOf(pi, raw)), Up(m, pi, raw, shy))

\* osds_valid
OsdsValid(set) ==
    \/ set.osds # <<>> /\ set.primary >= 0
    \/ ToSet(set.osds) \subseteq {NoOsd} /\ set.primary = -1

\* ceph_pg_to_primary_shard: the group itself, not the raw one, is placed
Shard(m, pi, raw, shy) ==
    LET acting == Acting(m, pi, PgOf(pi, raw)[2], shy)
        at == {i \in DOMAIN acting.osds : acting.osds[i] = acting.primary}
    IN  IF at = {} THEN 0 ELSE Min(at)

---------------------------------------------------------------------------
(* The monitors (external): what a change does to the cluster, said without          *)
(* encodings, and the increment that announces it.                                  *)
NoDelta ==
    [full |-> {}, crush |-> {}, flags |-> {}, max |-> {}, pools |-> <<>>, names |-> <<>>, oldPools |-> {},
     up |-> <<>>, state |-> <<>>, weight |-> <<>>, temp |-> <<>>, ptemp |-> <<>>, aff |-> <<>>,
     upmap |-> <<>>, oldUpmap |-> {}, items |-> <<>>, oldItems |-> {}]

\* The groups whose temporary primary or whose every temporary OSD is gone
DeadPtemp(t, o) == {pg \in DOMAIN t.ptemp : t.ptemp[pg] = o}
OfPool(f, p) == {pg \in DOMAIN f : pg[1] = p}

\* A change is possible
Legal(t, c) ==
    CASE c.op = "down"    -> IsUp(t, c.o)
      [] c.op = "boot"    -> c.o \in DOMAIN t.osds /\ ~IsUp(t, c.o)
      [] c.op \in {"destroy", "replace"} -> Exists(t, c.o) /\ ~IsUp(t, c.o)
      [] c.op = "out"     -> Exists(t, c.o) /\ t.osds[c.o].weight > 0
      [] c.op = "in"      -> c.o \in DOMAIN t.osds /\ t.osds[c.o].weight = 0
      [] c.op = "aff"     -> Exists(t, c.o)
      [] c.op = "max"     -> c.n # t.max /\ \A o \in DOMAIN t.osds : o >= c.n => ~t.osds[o].exists
      [] c.op = "pool"    -> c.info # (IF c.info.id \in DOMAIN t.pools THEN t.pools[c.info.id] ELSE <<>>)
      [] c.op = "rmpool"  -> c.p \in DOMAIN t.pools
      [] c.op = "temp"    -> c.pg[1] \in DOMAIN t.pools /\ \A o \in ToSet(c.set) : IsUp(t, o)
      [] c.op = "ptemp"   -> c.pg[1] \in DOMAIN t.pools /\ IsUp(t, c.o)
      [] c.op \in {"upmap", "items"} -> c.pg[1] \in DOMAIN t.pools
      [] c.op = "untemp"  -> c.pg \in DOMAIN t.temp \cup DOMAIN t.ptemp
      [] c.op = "unmap"   -> c.pg \in DOMAIN t.upmap \cup DOMAIN t.items
      [] OTHER            -> TRUE

\* What it does to the cluster. aff is total here.
Happens(t, c) ==
    CASE c.op = "down"    -> [t EXCEPT !.osds[c.o].up = FALSE, !.ptemp = Removed(@, DeadPtemp(t, c.o))]
      [] c.op = "boot"    -> [t EXCEPT !.osds[c.o].up = TRUE, !.osds[c.o].exists = TRUE, !.osds[c.o].addr = c.a]
      [] c.op = "destroy" -> [t EXCEPT !.osds[c.o] = [Blank EXCEPT !.weight = t.osds[c.o].weight],
                                       !.aff[c.o] = DefAff]
      [] c.op = "replace" -> [t EXCEPT !.osds[c.o] = [exists |-> TRUE, up |-> TRUE, auto |-> FALSE,
                                                      weight |-> t.osds[c.o].weight, addr |-> c.a],
                                       !.aff[c.o] = DefAff]
      [] c.op = "out"     -> [t EXCEPT !.osds[c.o].weight = 0, !.osds[c.o].auto = TRUE]
      [] c.op = "in"      -> [t EXCEPT !.osds[c.o].weight = 1, !.osds[c.o].exists = TRUE, !.osds[c.o].auto = FALSE]
      [] c.op = "aff"     -> [t EXCEPT !.aff[c.o] = c.v]
      [] c.op = "max"     -> [t EXCEPT !.osds = Sized(@, c.n, Blank), !.aff = Sized(@, c.n, DefAff), !.max = c.n]
      [] c.op = "pool"    -> [t EXCEPT !.pools = (c.info.id :> c.info) @@ @,
                                       !.names = (c.info.id :> c.name) @@ @]
      [] c.op = "rmpool"  -> [t EXCEPT !.pools = Removed(@, {c.p}), !.names = Removed(@, {c.p}), !.temp = Removed(@, OfPool(@, c.p)),
                                       !.ptemp = Removed(@, OfPool(@, c.p)), !.upmap = Removed(@, OfPool(@, c.p)),
                                       !.items = Removed(@, OfPool(@, c.p))]
      [] c.op = "temp"    -> [t EXCEPT !.temp = (c.pg :> c.set) @@ @]
      [] c.op = "ptemp"   -> [t EXCEPT !.ptemp = (c.pg :> c.o) @@ @]
      [] c.op = "untemp"  -> [t EXCEPT !.temp = Removed(@, {c.pg}), !.ptemp = Removed(@, {c.pg})]
      [] c.op = "upmap"   -> [t EXCEPT !.upmap = (c.pg :> c.set) @@ @]
      [] c.op = "items"   -> [t EXCEPT !.items = (c.pg :> c.set) @@ @]
      [] c.op = "unmap"   -> [t EXCEPT !.upmap = Removed(@, {c.pg}), !.items = Removed(@, {c.pg})]
      [] c.op = "crush"   -> [t EXCEPT !.crush = 3 - @]
      [] c.op = "flags"   -> [t EXCEPT !.flags = {"full"} \ @]
      [] c.op = "whole"   -> [t EXCEPT !.flags = {"full"} \ @, !.crush = 3 - @]

\* A full map: no affinities when all have the default
Encoded(t, e) ==
    [t EXCEPT !.epoch = e, !.aff = IF \A o \in DOMAIN @ : @[o] = DefAff THEN <<>> ELSE @]

\* The increment from t to u by the change c
Delta(t, u, c) ==
    LET gone(f, g, none) == [pg \in DOMAIN f \ DOMAIN g |-> none]
        new(f, g) == [pg \in {p \in DOMAIN g : p \notin DOMAIN f \/ f[p] # g[p]} |-> g[pg]]
        lists == [NoDelta EXCEPT
                    !.temp = new(t.temp, u.temp) @@ gone(t.temp, u.temp, <<>>),
                    !.ptemp = new(t.ptemp, u.ptemp) @@ gone(t.ptemp, u.ptemp, -1),
                    !.upmap = new(t.upmap, u.upmap), !.oldUpmap = DOMAIN t.upmap \ DOMAIN u.upmap,
                    !.items = new(t.items, u.items), !.oldItems = DOMAIN t.items \ DOMAIN u.items,
                    !.pools = new(t.pools, u.pools), !.names = new(t.names, u.names),
                    !.oldPools = DOMAIN t.pools \ DOMAIN u.pools,
                    !.flags = IF t.flags = u.flags THEN {} ELSE {u.flags},
                    !.crush = IF t.crush = u.crush THEN {} ELSE {u.crush}]
    IN  CASE c.op = "down"    -> [lists EXCEPT !.state = c.o :> c.bits]
          [] c.op = "boot"    -> [lists EXCEPT !.up = c.o :> c.a]
          [] c.op = "destroy" -> [lists EXCEPT !.state = c.o :> {"exists"}]
          [] c.op = "replace" -> [lists EXCEPT !.state = c.o :> {"exists"}, !.up = c.o :> c.a]
          [] c.op = "out"     -> [lists EXCEPT !.weight = c.o :> 0,
                                               !.state = IF t.osds[c.o].auto THEN <<>> ELSE c.o :> {"auto"}]
          [] c.op = "in"      -> [lists EXCEPT !.weight = c.o :> 1]
          [] c.op = "aff"     -> [lists EXCEPT !.aff = c.o :> c.v]
          [] c.op = "max"     -> [lists EXCEPT !.max = {c.n}]
          [] c.op = "whole"   -> [NoDelta EXCEPT !.full = {Encoded(u, u.epoch)}]
          [] OTHER            -> lists

---------------------------------------------------------------------------
\* The client. hist holds the cluster's maps, deltas the increments to them.
OmInit ==
    om \in {[hist |-> <<First>>, deltas |-> <<NoDelta>>, map |-> MapAlloc, mark |-> {},
             faults |-> 0, shy |-> s, plan |-> p] : s \in Shies, p \in Plans}

Publish ==
    /\ Len(om.hist) < om.plan.epochs
    /\ \E c \in om.plan.changes :
           LET t == Last(om.hist)
               u == [Happens(t, c) EXCEPT !.epoch = @ + 1]
           IN  /\ Legal(t, c)
               /\ om' = [om EXCEPT !.hist = Append(@, u), !.deltas = Append(@, Delta(t, u, c))]

\* ceph_osdc_handle_map takes the next increment
NextDelta == om.deltas[om.map.epoch + 1]
TakeInc ==
    /\ om.map.epoch \in 1..Len(om.hist) - 1
    /\ om' = [om EXCEPT !.map = ApplyIncremental(@, NextDelta),
                        !.mark = IF NextDelta.full # {} THEN {} ELSE @ \ {"half"}]

\* It runs out of memory at a stage: the map stays as far as it got. Up to where the epoch
\* is counted the increment will come again (half), later ones go on from the pieces (torn).
IncFails ==
    /\ om.map.epoch \in 1..Len(om.hist) - 1 /\ NextDelta.full = {} /\ om.faults < MapFaults
    /\ \E n \in DOMAIN Stages : \E m \in Partial(ApplyTo(om.map, NextDelta, n), NextDelta, Stages[n]) :
           om' = [om EXCEPT !.map = m, !.faults = @ + 1,
                            !.mark = @ \cup {IF m.epoch = om.map.epoch THEN "half" ELSE "torn"}]

\* A full map, newer than the client's
TakeFull ==
    \E e \in om.map.epoch + 1..Len(om.hist) :
        om' = [om EXCEPT !.map = OsdmapDecode(Encoded(om.hist[e], e)), !.mark = {}]

OmNext == Publish \/ TakeInc \/ IncFails \/ TakeFull
OmSpec == OmInit /\ [][OmNext]_om

---------------------------------------------------------------------------
\* Properties

\* The arrays are shorter than max_osd says: what is read beyond them is undefined
Short(m) == m.max > NumOsds(m)

\* max_osd is the size of the arrays (osdmap.h), as every accessor assumes, except while an
\* increment that changes it waits to come again: when osdmap_set_max_osd replaced the
\* arrays and found no memory for the affinities, they are too short if it was to shrink
\* them, and the increment that comes again is the one that brings the size to agree.
OmType ==
    /\ om.map.epoch \in 0..Len(om.hist)
    /\ DOMAIN om.map.osds = 0..NumOsds(om.map) - 1
    /\ om.map.aff # <<>> => DOMAIN om.map.aff = 0..om.map.max - 1
    /\ om.map.max = NumOsds(om.map) \/ ("half" \in om.mark /\ NextDelta.max = {NumOsds(om.map)})
    /\ \A p \in DOMAIN om.map.pools : om.map.pools[p].id = p /\ om.map.pools[p].min \in 1..om.map.pools[p].size
    /\ om.faults \in 0..MapFaults /\ om.mark \subseteq {"half", "torn"}

\* However the client came to an epoch, by one full map or by a chain of increments
\* (osdmap_decode, osdmap_apply_incremental), and also when an increment failed before the
\* epoch was counted and came again, its map is the cluster's map of that epoch.
MapAgrees ==
    om.mark = {} /\ om.map.epoch > 0 =>
        LET t == om.hist[om.map.epoch]
        IN  /\ \A k \in {"epoch", "crush", "flags", "max", "osds", "temp", "ptemp", "upmap", "items"} :
                   om.map[k] = t[k]
            /\ DOMAIN om.map.pools = DOMAIN t.pools
            /\ \A p \in DOMAIN t.pools :
                   /\ \A k \in {"type", "size", "pg", "pgp"} : om.map.pools[p][k] = t.pools[p][k]
                   /\ om.map.pools[p].name = t.names[p]
            /\ \A o \in DOMAIN t.osds : Affinity(om.map, o) = t.aff[o]

EveryGroup(P(_, _)) == ~Short(om.map) => \A p \in DOMAIN om.map.pools, raw \in Raws : P(om.map.pools[p], raw)
Distinct(set) == \A i, j \in DOMAIN set : i # j /\ set[i] = set[j] => set[i] = NoOsd

\* "By definition of an up set, the result won't contain nonexistent or down OSDs", nor one
\* OSD twice, and its primary is one of it (raw_to_up_osds, apply_upmap).
UpSetSound ==
    EveryGroup(LAMBDA pi, raw :
        LET up == Up(om.map, pi, raw, om.shy)
        IN  /\ \A o \in ToSet(up.osds) : IsUp(om.map, o) \/ (o = NoOsd /\ ~CanShift(pi))
            /\ Distinct(up.osds)
            /\ up.primary \in ToSet(up.osds) \cup {-1}
            /\ OsdsValid(up))

\* Requests go to an OSD that is up, or nowhere: the acting set holds no OSD that is down
\* and the primary is up. The set is valid in the sense of the assertion at the end of
\* ceph_pg_to_up_acting_osds, unless only a temporary primary is left. A map that a failed
\* increment left in pieces is excepted.
ActingServes ==
    "torn" \notin om.mark =>
        EveryGroup(LAMBDA pi, raw :
            LET acting == Acting(om.map, pi, raw, om.shy)
            IN  /\ \A o \in ToSet(acting.osds) : IsUp(om.map, o) \/ o = NoOsd
                /\ acting.primary = -1 \/ IsUp(om.map, acting.primary)
                /\ OsdsValid(acting) \/ (acting.osds = <<>> /\ PgOf(pi, raw) \in DOMAIN om.map.ptemp))

\* The shard that a request is addressed to is the acting primary's place, although
\* ceph_pg_to_primary_shard places the group where its caller placed the raw one.
ShardRight ==
    EveryGroup(LAMBDA pi, raw :
        LET acting == Acting(om.map, pi, raw, om.shy)
        IN  ~CanShift(pi) /\ acting.primary \in ToSet(acting.osds) =>
                acting.osds[Shard(om.map, pi, raw, om.shy)] = acting.primary)

\* ceph_is_new_interval, as calc_target asks it of two maps, and the other grounds to send again:
\* the pool demands it with this epoch, or epochs were skipped
NewInterval(m, n, p, raw, shy) ==
    LET pi == m.pools[p]
        pj == n.pools[p]
    IN  \/ Acting(m, pi, raw, shy) # Acting(n, pj, raw, shy)
        \/ Up(m, pi, raw, shy) # Up(n, pj, raw, shy)
        \/ pi.size # pj.size \/ pi.min # pj.min
        \/ IsSplit(PgOf(pi, raw)[2], pi.pg, pj.pg)
Resend(m, n, p) == n.pools[p].resend = n.epoch \/ n.epoch > m.epoch + 1
Target(m, p, raw, shy) == <<PgOf(m.pools[p], raw), Acting(m, m.pools[p], raw, shy).primary>>

\* Whenever a new map, the next one or one many epochs later, moves an object to another group
\* or to another OSD, calc_target notices: ceph_is_new_interval of the old group says so, or
\* the pool asked for it. Otherwise a request would stay with an OSD that no longer serves it.
Retargeted ==
    [][om.mark = {} /\ om'.mark = {} =>
       \A p \in DOMAIN om.map.pools \cap DOMAIN om.map'.pools, raw \in Raws :
           Target(om.map, p, raw, om.shy) # Target(om.map', p, raw, om.shy) =>
               NewInterval(om.map, om.map', p, raw, om.shy) \/ Resend(om.map, om.map', p)]_om

\* ceph_pg_is_split is exact for every growth of a pool: it tells that a group is split if and
\* only if one of the objects of the group goes to another one.
SplitExact ==
    \A p \in DOMAIN om.map.pools : \A new \in om.map.pools[p].pg..2 * Cardinality(Raws) :
        LET old == om.map.pools[p].pg
        IN  \A seed \in 0..old - 1 :
                IsSplit(seed, old, new) <=>
                    \E raw \in 0..15 : /\ StableMod(raw, old, PgMask(old)) = seed
                                       /\ StableMod(raw, new, PgMask(new)) # seed

\* The map is the cluster's, and what is computed from it serves: up sets, acting sets,
\* shards and splits. Of arrays that are too short nothing but their size is claimed.
OsdMapSound ==
    /\ OmType /\ MapAgrees /\ UpSetSound
    /\ ActingServes /\ ShardRight /\ SplitExact
=============================================================================
