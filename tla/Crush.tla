------------------------------- MODULE Crush -------------------------------
(* CRUSH, the placement function of the cluster (libceph/crush/mapper.c): a rule    *)
(* walks the tree of buckets and picks devices, trying again when an item          *)
(* collides with one it already has or is out. The hash is any function: what a    *)
(* bucket answers for a replica number is chosen the first time and kept. One      *)
(* step is one try. A rule is evaluated twice: with another input on the same      *)
(* workspace, or after a device went out.                                        *)
EXTENDS Integers, Sequences, SequencesExt, FiniteSets, FiniteSetsExt, Functions, TLC

CONSTANT Cases   \* [buckets, devs, rule, max, weight, tries, local, fallback, vary, stable,
                 \*  once, again, sets]: a map, a rule and how to evaluate it twice

VARIABLE cr

None == 1000     \* CRUSH_ITEM_NONE
Undef == 1001    \* CRUSH_ITEM_UNDEF
Magic == 65535   \* perm_n after the shortcut for r = 0

---------------------------------------------------------------------------
\* Buckets

Bucket(id) == cr.case.buckets[id]
Size(id) == Len(Bucket(id).items)
TypeOf(item) == IF item < 0 THEN Bucket(item).type ELSE 0

\* get_choose_arg_weights: the weight set of a position, the last one for those beyond
Position(id, pos) ==
    IF id \in DOMAIN cr.case.sets THEN Min({pos, Len(cr.case.sets[id]) - 1}) ELSE 0
WeightsAt(id, pos) ==
    IF id \in DOMAIN cr.case.sets THEN cr.case.sets[id][Position(id, pos) + 1] ELSE Bucket(id).weights

\* bucket_list_choose, bucket_tree_choose, bucket_straw_choose, bucket_straw2_choose: an
\* item without weight is never drawn while there are others
Draws(id, pos) ==
    LET ws == WeightsAt(id, pos)
    IN  IF \E i \in DOMAIN ws : ws[i] > 0 THEN {i \in DOMAIN ws : ws[i] > 0} ELSE {1}

\* crush_init_workspace
WorkInit(c) ==
    [id \in DOMAIN c.buckets |-> [x |-> 0, n |-> 0, perm |-> [i \in 0..Len(c.buckets[id].items) - 1 |-> 0]]]

\* The permutation of n items that the hash gives for seeds s: Fisher and Yates
Swap(p, i, j) == [p EXCEPT ![i] = p[j], ![j] = p[i]]
Identity(n) == [i \in 0..n - 1 |-> i]
PermTo(p, n, s, from, to) ==
    FoldLeft(LAMBDA q, k : IF k < n - 1 THEN Swap(q, k, k + s[k + 1]) ELSE q, p,
             [i \in 1..to - from + 1 |-> from + i - 1])

\* bucket_perm_choose: the workspace after it and the index it answers
PermChoose(wk, n, x, s, r) ==
    LET pr == r % n
        new == wk.x # x \/ wk.n = 0
    IN  IF new /\ pr = 0
        THEN [wk |-> [wk EXCEPT !.x = x, !.n = Magic, !.perm[0] = s[1]], s |-> s[1]]
        ELSE LET base == IF new THEN [x |-> x, n |-> 0, perm |-> Identity(n)]
                         ELSE IF wk.n = Magic
                         THEN [x |-> x, n |-> 1,
                               perm |-> [[i \in 0..n - 1 |-> IF i = 0 THEN wk.perm[0] ELSE i]
                                             EXCEPT ![wk.perm[0]] = 0]]
                         ELSE wk
                 done == IF base.n > pr THEN base
                         ELSE [base EXCEPT !.perm = PermTo(@, n, s, base.n, pr), !.n = pr + 1]
             IN  [wk |-> done, s |-> done.perm[pr]]

\* crush_bucket_choose and the hash behind it: what bucket id may answer for r
Answers(id, r, pos, exhaustive) ==
    IF exhaustive \/ Bucket(id).alg = "uniform"
    THEN LET p == PermChoose(cr.work[id], Size(id), cr.x, cr.seed[id], r)
         IN  {[item |-> Bucket(id).items[p.s + 1], hash |-> cr.hash, work |-> [cr.work EXCEPT ![id] = p.wk]]}
    ELSE LET key == <<id, r, Position(id, pos)>>
         IN  {[item |-> Bucket(id).items[i], hash |-> (key :> i) @@ cr.hash, work |-> cr.work] :
                 i \in IF key \in DOMAIN cr.hash THEN {cr.hash[key]} ELSE Draws(id, pos)}

\* is_out: devices are in (2), out (0) or, by their own hash, one of both (1)
Weight(d) == IF d \in cr.out THEN 0 ELSE cr.case.weight[d]
IsOut(item, lots) ==
    item \notin DOMAIN cr.case.weight \/ Weight(item) = 0 \/ (Weight(item) = 1 /\ ~lots[item])

Top == Head(cr.stack)
Below == Tail(cr.stack)
Replaced(f) == <<f>> \o Below

---------------------------------------------------------------------------
\* crush_choose_firstn

FirstnFrame(id, numrep, type, out, count, tries, leaf, rep, pr) ==
    [k |-> "firstn", bucket |-> id, in |-> id, numrep |-> numrep, type |-> type, out |-> out,
     out2 |-> out, count |-> count, tries |-> tries, leaf |-> leaf, rep |-> rep, pr |-> pr,
     ftotal |-> 0, flocal |-> 0, item |-> Undef]
FirstnDone(f) == f.rep >= f.numrep \/ f.count <= 0

NextRep(f) == [f EXCEPT !.rep = @ + 1, !.in = f.bucket, !.ftotal = 0, !.flocal = 0]
Accepted(f, item, dev) ==
    NextRep([f EXCEPT !.out = Append(@, item), !.out2 = Append(@, dev), !.count = @ - 1])

\* Try the same bucket again, or the whole descent, or give the replica up
Rejected(f, collide) ==
    LET g == [f EXCEPT !.ftotal = @ + 1, !.flocal = @ + 1]
        here == \/ collide /\ g.flocal <= cr.tun.local
                \/ cr.tun.fallback > 0 /\ g.flocal <= Size(f.in) + cr.tun.fallback
    IN  IF here THEN g
        ELSE IF g.ftotal < f.tries THEN [g EXCEPT !.in = f.bucket, !.flocal = 0]
        ELSE NextRep(f)

\* The call for a leaf of a bucket
LeafOf(f, item, r) ==
    FirstnFrame(item, IF cr.tun.stable THEN 1 ELSE Len(f.out) + 1, 0, f.out2, f.count, cr.tun.rtries,
                FALSE, IF cr.tun.stable THEN 0 ELSE Len(f.out),
                IF cr.tun.vary = 0 THEN 0 ELSE r \div 2^(cr.tun.vary - 1))

FirstnTaken(f, r, item) ==
    IF item >= cr.case.devs \/ (TypeOf(item) # f.type /\ item >= 0) THEN Replaced(NextRep(f))
    ELSE IF TypeOf(item) # f.type THEN Replaced([f EXCEPT !.in = item])
    ELSE IF item \in Range(f.out) THEN Replaced(Rejected(f, TRUE))
    ELSE IF f.leaf /\ item < 0 THEN <<LeafOf(f, item, r), [f EXCEPT !.item = item]>> \o Below
    ELSE IF item >= 0 /\ IsOut(item, cr.lots) THEN Replaced(Rejected(f, FALSE))
    ELSE Replaced(Accepted(f, item, item))

FirstnTry ==
    /\ cr.stack # <<>> /\ Top.k = "firstn" /\ ~FirstnDone(Top)
    /\ LET f == Top
           r == f.rep + f.pr + f.ftotal
       IN  \/ /\ Size(f.in) = 0
              /\ cr' = [cr EXCEPT !.stack = Replaced(Rejected(f, FALSE))]
           \/ /\ Size(f.in) > 0
              /\ \E a \in Answers(f.in, r, Len(f.out),
                                  /\ cr.tun.fallback > 0 /\ f.flocal >= Size(f.in) \div 2
                                  /\ f.flocal > cr.tun.fallback) :
                     cr' = [cr EXCEPT !.hash = a.hash, !.work = a.work, !.stack = FirstnTaken(f, r, a.item)]

\* The leaf call is over: with one leaf more, or with none
FirstnReturn ==
    /\ Len(cr.stack) = 2 /\ Top.k = "firstn" /\ FirstnDone(Top)
    /\ LET f == Below[1]
       IN  cr' = [cr EXCEPT !.stack = <<IF Len(Top.out) > Len(f.out)
                                        THEN Accepted(f, f.item, Last(Top.out))
                                        ELSE Rejected(f, FALSE)>>]

---------------------------------------------------------------------------
\* crush_choose_indep

IndepFrame(id, from, left, numrep, type, tries, leaf, pr) ==
    [k |-> "indep", bucket |-> id, in |-> id, from |-> from, numrep |-> numrep, type |-> type,
     out |-> [p \in from..from + left - 1 |-> Undef], out2 |-> [p \in from..from + left - 1 |-> Undef],
     tries |-> tries, leaf |-> leaf, pr |-> pr, rep |-> from, ftotal |-> 0, item |-> Undef,
     won |-> [p \in from..from + left - 1 |-> -1]]
Open(f) == {p \in DOMAIN f.out : f.out[p] = Undef}
IndepDone(f) == Open(f) = {} \/ f.ftotal >= f.tries

\* The next position that has nothing yet, in this round or in the next
Advance(f) ==
    LET later == {p \in Open(f) : p > f.rep}
    IN  IF later # {} THEN [f EXCEPT !.rep = Min(later), !.in = f.bucket]
        ELSE IF Open(f) = {} THEN f
        ELSE [f EXCEPT !.rep = Min(Open(f)), !.in = f.bucket, !.ftotal = @ + 1]

Hole(f) == Advance([f EXCEPT !.out[f.rep] = None, !.out2[f.rep] = None])
Placed(f, item) == Advance([f EXCEPT !.out[f.rep] = item, !.won[f.rep] = f.ftotal])
NoneLeft(out) == [p \in DOMAIN out |-> IF out[p] = Undef THEN None ELSE out[p]]

\* A bug: only the positions before are looked at
CollidesBefore(f, item) == \E p \in DOMAIN f.out : p < f.rep /\ f.out[p] = item
Collides(f, item) == item \in Range(f.out)
IndepTaken(f, r, item) ==
    IF item >= cr.case.devs \/ (TypeOf(item) # f.type /\ item >= 0) THEN Replaced(Hole(f))
    ELSE IF TypeOf(item) # f.type THEN Replaced([f EXCEPT !.in = item])
    ELSE IF Collides(f, item) THEN Replaced(Advance(f))
    ELSE IF f.leaf /\ item < 0
    THEN <<IndepFrame(item, f.rep, 1, f.numrep, 0, cr.tun.itries, FALSE, r), [f EXCEPT !.item = item]>>
             \o Below
    ELSE LET g == [f EXCEPT !.out2[f.rep] = IF f.leaf THEN item ELSE @]
         IN  Replaced(IF item >= 0 /\ IsOut(item, cr.lots) THEN Advance(g) ELSE Placed(g, item))

IndepTry ==
    /\ cr.stack # <<>> /\ Top.k = "indep" /\ ~IndepDone(Top)
    /\ LET f == Top
           r == f.rep + f.pr
                + (IF Bucket(f.in).alg = "uniform" /\ Size(f.in) % f.numrep = 0 THEN f.numrep + 1 ELSE f.numrep)
                    * f.ftotal
       IN  \/ /\ Size(f.in) = 0
              /\ cr' = [cr EXCEPT !.stack = Replaced(Advance(f))]
           \/ /\ Size(f.in) > 0
              /\ \E a \in Answers(f.in, r, f.from, FALSE) :
                     cr' = [cr EXCEPT !.hash = a.hash, !.work = a.work, !.stack = IndepTaken(f, r, a.item)]

IndepReturn ==
    /\ Len(cr.stack) = 2 /\ Top.k = "indep" /\ IndepDone(Top)
    /\ LET dev == NoneLeft(Top.out)[Top.from]
           f == [Below[1] EXCEPT !.out2[Below[1].rep] = dev]
       IN  cr' = [cr EXCEPT !.stack = <<IF dev = None THEN Advance(f) ELSE Placed(f, f.item)>>]

---------------------------------------------------------------------------
\* crush_do_rule

Rule == cr.case.rule
Op == Rule[cr.step].op
Arg == Rule[cr.step].arg
Evaluating == cr.stack = <<>> /\ cr.step <= Len(Rule)
NextStep(c) == [c EXCEPT !.step = @ + 1, !.o = <<>>, !.c = <<>>, !.wi = 1]
IsChoose(op) == op \in {"choose_firstn", "chooseleaf_firstn", "choose_indep", "chooseleaf_indep"}

Take ==
    /\ Evaluating /\ Op = "take"
    /\ LET valid == (Arg >= 0 /\ Arg < cr.case.devs) \/ Arg \in DOMAIN cr.case.buckets
       IN  cr' = NextStep(IF valid THEN [cr EXCEPT !.w = <<Arg>>] ELSE cr)

\* The steps that set a tunable; zero means the default for the numbers of tries
SetTunable ==
    /\ Evaluating /\ Op \in DOMAIN cr.tun
    /\ cr' = NextStep(IF Op \in {"tries", "leaf"} /\ Arg <= 0 THEN cr ELSE [cr EXCEPT !.tun[Op] = Arg])

\* How often a leaf is tried for: recurse_tries of firstn and of indep
LeafTries(t) ==
    [t EXCEPT !.rtries = IF t.leaf # 0 THEN t.leaf ELSE IF cr.case.once THEN 1 ELSE t.tries,
              !.itries = IF t.leaf # 0 THEN t.leaf ELSE 1]

\* One call of crush_choose_firstn or crush_choose_indep per item of the working set
ChooseFrom ==
    /\ Evaluating /\ IsChoose(Op) /\ cr.wi <= Len(cr.w)
    /\ LET n == IF Arg <= 0 THEN Arg + cr.case.max ELSE Arg
           id == cr.w[cr.wi]
           room == cr.case.max - Len(cr.o)
           leaf == Op \in {"chooseleaf_firstn", "chooseleaf_indep"}
           type == Rule[cr.step].type
           t == LeafTries(cr.tun)
           f == IF Op \in {"choose_firstn", "chooseleaf_firstn"}
                THEN FirstnFrame(id, n, type, <<>>, room, t.tries, leaf, 0, 0)
                ELSE IndepFrame(id, 0, Min({n, room}), n, type, t.tries, leaf, 0)
       IN  cr' = IF n <= 0 \/ id \notin DOMAIN cr.case.buckets THEN [cr EXCEPT !.wi = @ + 1]
                 ELSE [cr EXCEPT !.tun = t, !.stack = <<f>>]

Listed(out) == [i \in 1..Cardinality(DOMAIN out) |-> out[i - 1]]
ChooseReturn ==
    /\ Len(cr.stack) = 1
    /\ LET f == Top
       IN  \/ /\ f.k = "firstn" /\ FirstnDone(f)
              /\ cr' = [cr EXCEPT !.stack = <<>>, !.wi = @ + 1, !.o = @ \o f.out, !.c = @ \o f.out2]
           \/ /\ f.k = "indep" /\ IndepDone(f)
              /\ cr' = [cr EXCEPT !.stack = <<>>, !.wi = @ + 1, !.o = @ \o Listed(NoneLeft(f.out)),
                                  !.c = @ \o Listed(NoneLeft(f.out2)), !.won = Listed(f.won)]

Chosen ==
    /\ Evaluating /\ IsChoose(Op) /\ cr.wi > Len(cr.w)
    /\ cr' = NextStep(IF cr.w = <<>> THEN cr
                      ELSE [cr EXCEPT !.w = IF Op \in {"chooseleaf_firstn", "chooseleaf_indep"} THEN cr.c
                                            ELSE cr.o])

Emit ==
    /\ Evaluating /\ Op = "emit"
    /\ cr' = NextStep([cr EXCEPT !.result = @ \o SubSeq(cr.w, 1, Min({Len(cr.w), cr.case.max - Len(@)})),
                                 !.w = <<>>])

---------------------------------------------------------------------------
\* Evaluations of the case's rule

Start(c, work, out, x, run) ==
    [case |-> c, run |-> run, x |-> x, hash |-> <<>>, lots |-> <<>>, seed |-> <<>>, work |-> work,
     step |-> 1, w |-> <<>>, wi |-> 1, o |-> <<>>, c |-> <<>>, stack |-> <<>>, result |-> <<>>, out |-> out,
     won |-> <<>>, before |-> <<>>, wonBefore |-> <<>>,
     tun |-> [tries |-> c.tries + 1, leaf |-> 0, local |-> c.local, fallback |-> c.fallback,
              vary |-> c.vary, stable |-> c.stable, rtries |-> 0, itries |-> 0]]
Seeds(c, id) ==
    LET n == Len(c.buckets[id].items)
    IN  IF n > 0 /\ (c.buckets[id].alg = "uniform" \/ c.fallback > 0)
        THEN {s \in [1..n - 1 -> 0..n - 1] : \A k \in 1..n - 1 : s[k] <= n - k} ELSE {<<>>}
Hashes(c) ==
    {[lots |-> l, seed |-> s] :
        l \in [{d \in DOMAIN c.weight : c.weight[d] = 1} -> BOOLEAN],
        s \in {t \in [DOMAIN c.buckets -> UNION {Seeds(c, id) : id \in DOMAIN c.buckets}] :
                  \A id \in DOMAIN c.buckets : t[id] \in Seeds(c, id)}}

CrushInit ==
    \E c \in Cases : \E h \in Hashes(c) :
        cr = [Start(c, WorkInit(c), {}, 1, 1) EXCEPT !.lots = h.lots, !.seed = h.seed]

Finished == cr.stack = <<>> /\ cr.step > Len(Rule)
\* Another input, on the same workspace
AgainOther ==
    /\ Finished /\ cr.run = 1 /\ cr.case.again = "x"
    /\ \E h \in Hashes(cr.case) :
           cr' = [Start(cr.case, cr.work, {}, 2, 2) EXCEPT !.lots = h.lots, !.seed = h.seed]
\* The same input, after one of the devices went out
AgainOut ==
    /\ Finished /\ cr.run = 1 /\ cr.case.again = "out"
    /\ \E d \in Range(cr.result) \ {None} :
           cr' = [Start(cr.case, cr.work, {d}, cr.x, 2)
                     EXCEPT !.lots = cr.lots, !.seed = cr.seed, !.hash = cr.hash, !.before = cr.result,
                            !.wonBefore = cr.won]

CrushNext ==
    \/ Take \/ SetTunable \/ ChooseFrom \/ ChooseReturn \/ Chosen \/ Emit
    \/ FirstnTry \/ FirstnReturn \/ IndepTry \/ IndepReturn \/ AgainOther \/ AgainOut
CrushSpec == CrushInit /\ [][CrushNext]_cr

---------------------------------------------------------------------------
\* Properties

CrushType ==
    /\ Len(cr.result) <= cr.case.max /\ Len(cr.stack) <= 2
    /\ \A i \in DOMAIN cr.stack :
           LET f == cr.stack[i]
           IN  IF f.k = "indep" THEN f.ftotal \in 0..f.tries
               ELSE f.count + Len(f.out) = cr.case.max - Len(cr.o) /\ f.count >= 0

Devices == {i \in DOMAIN cr.result : cr.result[i] # None}
Under(id) == {d \in Range(Bucket(id).items) : d >= 0}
LeafSteps == {i \in DOMAIN Rule : Rule[i].op \in {"chooseleaf_firstn", "chooseleaf_indep"} /\ Rule[i].type = 1}

\* Replicas are on different devices and, if the rule asks for leaves of hosts, on
\* different hosts, whatever the hash and however many tries were needed
Separated ==
    Finished =>
        \A i, j \in Devices : i # j =>
            /\ cr.result[i] # cr.result[j]
            /\ LeafSteps # {} =>
                   ~\E id \in DOMAIN cr.case.buckets :
                       Bucket(id).type = 1 /\ {cr.result[i], cr.result[j]} \subseteq Under(id)

\* No replica is on a device that is out (is_out). A rule that asks indep for leaves of
\* devices keeps the last one it tried.
NoneOut ==
    Finished /\ ~(\E i \in DOMAIN Rule : Rule[i].op = "chooseleaf_indep" /\ Rule[i].type = 0) =>
        \A i \in Devices : Weight(cr.result[i]) = 2 \/ (Weight(cr.result[i]) = 1 /\ cr.lots[cr.result[i]])

\* "positionally stable": when a device goes out, a position of an indep rule that was
\* settled in the first round stays where it was
PositionStable ==
    Finished /\ cr.run = 2 /\ cr.before # <<>> =>
        \A i \in DOMAIN cr.wonBefore :
            cr.wonBefore[i] = 0 /\ cr.before[i] \notin cr.out => cr.result[i] = cr.before[i]

\* What the workspace keeps of a permutation is the start of the one the hash gives for
\* the input, however the calls for different replicas and inputs follow each other
\* (bucket_perm_choose)
PermOf(n, s) == PermTo(Identity(n), n, s, 0, n - 1)
WorkspaceRight ==
    \A id \in DOMAIN cr.work :
        LET k == cr.work[id]
        IN  k.n > 0 /\ k.x = cr.x =>
                \A i \in 0..(IF k.n = Magic THEN 0 ELSE k.n - 1) :
                    k.perm[i] = PermOf(Size(id), cr.seed[id])[i]

\* What crush_do_rule promises, with the bounds of its loops and the workspaces it
\* reuses.
CrushSound == CrushType /\ Separated /\ NoneOut /\ PositionStable /\ WorkspaceRight
=============================================================================
