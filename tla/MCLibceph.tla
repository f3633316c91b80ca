----------------------------- MODULE MCLibceph -----------------------------
(* The parts of libceph that compute on data of their own, for TLC: CRUSH, the    *)
(* osdmap, the striper, the workspaces of CRUSH, and the frames of the messengers. *)
EXTENDS Crush, OsdMap, Striper, WorkPool, FrameIn

Bkt(type, alg, items) == [type |-> type, alg |-> alg, items |-> items, weights |-> [i \in DOMAIN items |-> 1]]
Step(op, arg) == [op |-> op, arg |-> arg]
Choose(op, arg, type) == [op |-> op, arg |-> arg, type |-> type]

\* Three hosts with two devices each; of two of them one device is not (always) in
Hosts == [i \in -4..-1 |-> CASE i = -1 -> Bkt(2, "straw2", <<-2, -3, -4>>)
                             [] i = -2 -> Bkt(1, "straw2", <<0, 1>>)
                             [] i = -3 -> Bkt(1, "straw2", <<2, 3>>)
                             [] i = -4 -> Bkt(1, "straw2", <<4, 5>>)]
Optimal ==
    [buckets |-> Hosts, devs |-> 6, rule |-> <<Step("take", -1), Choose("chooseleaf_firstn", 0, 1), Step("emit", 0)>>,
     max |-> 2, weight |-> (0 :> 0 @@ 1 :> 2 @@ 2 :> 2 @@ 3 :> 2 @@ 4 :> 1 @@ 5 :> 2), tries |-> 2, local |-> 0,
     fallback |-> 0, vary |-> 1, stable |-> TRUE, once |-> TRUE, again |-> "no", sets |-> <<>>]
Indep == [Optimal EXCEPT !.rule = <<Step("take", -1), Choose("chooseleaf_indep", 0, 1), Step("emit", 0)>>, !.again = "out"]
\* Permutations: one bucket of four equal devices, with another input afterwards
Flat(alg) == [i \in {-1} |-> Bkt(2, alg, <<0, 1, 2, 3>>)]
Uniform(op) ==
    [Optimal EXCEPT !.buckets = Flat("uniform"), !.devs = 4, !.again = "x",
                    !.rule = <<Step("take", -1), Choose(op, 0, 0), Step("emit", 0)>>,
                    !.weight = 0 :> 0 @@ 1 :> 2 @@ 2 :> 1 @@ 3 :> 2]
\* The tunables of old: local retries, the exhaustive search of a bucket, leaves that
\* depend on the replica
Legacy ==
    [Optimal EXCEPT !.buckets = [i \in -3..-1 |-> IF i = -1 THEN Bkt(2, "list", <<-2, -3>>)
                                                  ELSE Bkt(1, "straw", IF i = -2 THEN <<0, 1>> ELSE <<2, 3>>)],
                    !.devs = 4, !.weight = 0 :> 0 @@ 1 :> 2 @@ 2 :> 2 @@ 3 :> 0, !.local = 1, !.fallback = 1,
                    !.vary = 0, !.stable = FALSE, !.once = FALSE, !.tries = 1]
\* Two steps: hosts first, then devices, with more tries
TwoSteps(op) ==
    [Optimal EXCEPT !.rule = <<Step("tries", 4), Step("leaf", 0), Step("take", -1), Choose(op, 2, 1),
                               Choose(op, 1, 0), Step("emit", 0)>>, !.again = "no"]
\* A host without devices, a device that is not there, and a rule that takes nothing
Broken(op) ==
    [Optimal EXCEPT !.buckets[-3].items = <<>>, !.buckets[-4].items = <<4, 9>>,
                    !.rule = <<Step("take", -9), Choose(op, 0, 1), Step("take", -1), Choose(op, 0, 1),
                               Step("emit", 0)>>]
\* Weight sets per position
Sets == [Optimal EXCEPT !.sets = -1 :> <<<<1, 1, 0>>, <<0, 1, 1>>>>, !.max = 3]
CrushCases ==
    {Optimal, Indep, Legacy, Sets} \cup {Uniform(op) : op \in {"choose_firstn", "choose_indep", "chooseleaf_indep"}}
        \cup {TwoSteps(op) : op \in {"choose_firstn", "choose_indep"}}
        \cup {Broken(op) : op \in {"chooseleaf_firstn", "chooseleaf_indep"}}

\* One OSD is not there yet, one is down; a replicated pool and one with positions
Osd(up, w) == [exists |-> TRUE, up |-> up, auto |-> FALSE, weight |-> w, addr |-> 1]
Pool(id, type, pg, pgp, v) ==
    [id |-> id, type |-> type, size |-> 2, min |-> 1, pg |-> pg, pgp |-> pgp, hashed |-> id = 1, v |-> v,
     pre |-> 1, resend |-> 0]
FirstMap ==
    [MapAlloc EXCEPT !.epoch = 1, !.crush = 1, !.max = 3, !.osds = 0 :> Osd(TRUE, 1) @@ 1 :> Osd(TRUE, 1) @@ 2 :> Osd(FALSE, 1),
                     !.aff = [o \in 0..2 |-> DefAff],
                     !.pools = 1 :> Pool(1, "replicated", 3, 2, 25) @@ 2 :> Pool(2, "erasure", 2, 1, 17),
                     !.names = 1 :> "rbd" @@ 2 :> "ec"]
\* CRUSH: the OSDs that are in, from a place that the input and the map choose
CrushedTo(crush, pps, size, weights) ==
    LET from == (Head(pps) + crush) % 3
    IN  SelectSeq([i \in 1..size |-> (from + i) % 3],
                  LAMBDA o : o \notin DOMAIN weights \/ weights[o] > 0)
OsdChanges ==
    {[op |-> "down", o |-> 0, bits |-> {}], [op |-> "down", o |-> 1, bits |-> {"up"}],
     [op |-> "boot", o |-> 2, a |-> 2], [op |-> "boot", o |-> 0, a |-> 2], [op |-> "replace", o |-> 2, a |-> 3],
     [op |-> "destroy", o |-> 2], [op |-> "out", o |-> 1], [op |-> "in", o |-> 1], [op |-> "max", n |-> 2],
     [op |-> "max", n |-> 4], [op |-> "aff", o |-> 0, v |-> 0], [op |-> "aff", o |-> 2, v |-> 1]}
GroupChanges ==
    {[op |-> "temp", pg |-> <<1, 0>>, set |-> <<1, 0>>], [op |-> "temp", pg |-> <<2, 0>>, set |-> <<1, 0>>],
     [op |-> "ptemp", pg |-> <<2, 1>>, o |-> 1], [op |-> "ptemp", pg |-> <<1, 0>>, o |-> 0],
     [op |-> "untemp", pg |-> <<1, 0>>], [op |-> "upmap", pg |-> <<1, 0>>, set |-> <<2, 0>>],
     [op |-> "items", pg |-> <<1, 0>>, set |-> <<<<0, 1>>, <<1, 2>>>>],
     [op |-> "items", pg |-> <<2, 1>>, set |-> <<<<1, 0>>>>], [op |-> "unmap", pg |-> <<1, 0>>]}
PoolChanges ==
    {[op |-> "pool", info |-> Pool(1, "replicated", 5, 2, 25), name |-> "rbd"], [op |-> "pool", info |-> Pool(2, "erasure", 3, 3, 17), name |-> "cold"],
     [op |-> "pool", info |-> Pool(3, "replicated", 1, 1, 6), name |-> "new"],
     [op |-> "rmpool", p |-> 1], [op |-> "crush"], [op |-> "flags"], [op |-> "whole"]}
MapChanges == OsdChanges \cup GroupChanges \cup PoolChanges
Core ==
    {c \in MapChanges : c.op \in {"replace", "upmap"} \/ c \in
        {[op |-> "down", o |-> 0, bits |-> {}], [op |-> "boot", o |-> 2, a |-> 2], [op |-> "destroy", o |-> 2],
         [op |-> "temp", pg |-> <<1, 0>>, set |-> <<1, 0>>],
         [op |-> "pool", info |-> Pool(1, "replicated", 5, 2, 25), name |-> "rbd"]}}
MapPlans == {[changes |-> MapChanges, epochs |-> 3], [changes |-> Core, epochs |-> 4]}
ShySets == {{}, {2}}
RawGroups == 0..5

Layouts2 == {[su |-> u, count |-> c, per |-> p] : u \in 1..3, c \in 1..3, p \in 1..2}
FileExtents == {<<[off |-> o, len |-> n], [off |-> o + n + g, len |-> k]>> : o \in 0..4, n \in {1, 3, 7}, g \in {0, 1, 5}, k \in {1, 4}}

\* Frames, with pages and cipher blocks of two bytes
S(off, len) == [off |-> off, len |-> len]
M(kind, seq, front, middle, data) ==
    [kind |-> kind, seq |-> seq, front |-> front, middle |-> middle, data |-> data]
Case(dir, proto, msgs, asks, revokes) ==
    [dir |-> dir, proto |-> proto, msgs |-> msgs, asks |-> asks, revokes |-> revokes]

\* No data; pages that start inside a page; an empty item before a bio whose second
\* segment spans pages.
Payloads == {<<>>, <<Pages(3, 1)>>, <<Bvecs(<<S(0, 0)>>), Bio(<<S(1, 1), S(0, 3)>>)>>}
Protos == {"v1", "plain", "secure"}

\* A message of every shape and another behind it, each revoked at any byte
Writes ==
    {Case("out", p, <<M("take", 1, f, m, d), M("take", 2, 1, 0, <<Pagelist(2)>>)>>,
          {"keepalive", "ack"}, 2) :
       p \in Protos, f \in 0..2, m \in {0, 2}, d \in Payloads}

\* A message of every shape, taken or skipped, a control frame, another message;
\* and in v1 a message that was received before
Reads ==
    {Case("in", p, <<M(k, 1, f, m, d), M("ctl", 0, f % 2, 0, <<>>), M("take", 2, 1, 0, <<Pagelist(2)>>)>>,
          {}, 2) :
       p \in Protos, k \in {"take", "skip"}, f \in 0..2, m \in {0, 2}, d \in Payloads}
    \cup
    {Case("in", "v1", <<M("take", 1, f, 0, <<>>), M("take", 1, f, 0, d), M("take", 2, 1, 0, <<Pagelist(2)>>)>>,
          {}, 0) : f \in 0..2, d \in Payloads}

---------------------------------------------------------------------------
\* The five parts side by side: each behaviour is of one of them, the others rest
VARIABLE part
Resting(p) ==
    /\ p # "crush" => cr = [Start(Optimal, WorkInit(Optimal), {}, 1, 1) EXCEPT !.step = 4]
    /\ p # "map" => om = [hist |-> <<First>>, deltas |-> <<NoDelta>>, map |-> MapAlloc, mark |-> {},
                          faults |-> 0, shy |-> {}, plan |-> [changes |-> {}, epochs |-> 0]]
    /\ p # "striper" => st = [l |-> [su |-> 1, count |-> 1, per |-> 1], in |-> <<>>, i |-> 1, done |-> 0, exts |-> <<>>]
    /\ p # "pool" => WsInit
    /\ p # "frames" => /\ case = Case("out", "v1", <<>>, {}, 0)
                       /\ out = OutInit(case) /\ peer = PeerInit /\ rx = InInit(TRUE, FALSE)
Init ==
    \/ part = "crush" /\ CrushInit /\ Resting(part)
    \/ part = "map" /\ OmInit /\ Resting(part)
    \/ part = "striper" /\ StInit /\ Resting(part)
    \/ part = "pool" /\ WsInit /\ Resting(part)
    \/ part = "frames" /\ FrInit /\ Resting(part)
Next ==
    \/ part = "crush" /\ CrushNext /\ UNCHANGED <<om, st, ws, frVars, part>>
    \/ part = "map" /\ OmNext /\ UNCHANGED <<cr, st, ws, frVars, part>>
    \/ part = "striper" /\ StNext /\ UNCHANGED <<cr, om, ws, frVars, part>>
    \/ part = "pool" /\ WsNext /\ UNCHANGED <<cr, om, st, frVars, part>>
    \/ part = "frames" /\ FrNext /\ UNCHANGED <<cr, om, st, ws, part>>
Spec == Init /\ [][Next]_<<cr, om, st, ws, frVars, part>>
=============================================================================
