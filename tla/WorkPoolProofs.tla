--------------------------- MODULE WorkPoolProofs ---------------------------
(* The workspaces of CRUSH, for any number of concurrent mappings and of processors: *)
(* PoolSound is inductive.                                                           *)
EXTENDS WorkPool, FiniteSetTheorems, TLAPS

\* A step of one mapping: where it is, and what it does to the counters.
Moves(t, l) == ws'.pc = [ws.pc EXCEPT ![t] = l]
Keeps == ws'.online = ws.online /\ ws'.cpus = ws.cpus

LEMMA FiniteIn ==
    ASSUME NEW ls
    PROVE  IsFiniteSet(In(ls)) /\ Cardinality(In(ls)) \in Nat
<1>1. In(ls) \subseteq Mappers
  BY DEF In
<1> QED BY <1>1, PoolAssumption, FS_Subset, FS_CardinalityType

\* How a move changes the number of mappings at some places.
LEMMA CountMove ==
    ASSUME WsTyped, NEW t \in Mappers, NEW l, Moves(t, l), NEW ls
    PROVE  Cardinality(In(ls))' =
             Cardinality(In(ls)) + (IF l \in ls THEN 1 ELSE 0)
                                 - (IF ws.pc[t] \in ls THEN 1 ELSE 0)
<1> DEFINE A == In(ls)
           B == {u \in Mappers : ws'.pc[u] \in ls}
           n == Cardinality(A)
<1>1. Cardinality(In(ls))' = Cardinality(B)
  BY DEF In
<1>2. ws.pc \in [Mappers -> Pcs] /\ ws'.pc[t] = l /\ \A u \in Mappers : u # t => ws'.pc[u] = ws.pc[u]
  BY DEF WsTyped, Ws, Moves
<1>3. IsFiniteSet(A) /\ n \in Nat
  BY FiniteIn
<1>4. t \in A <=> ws.pc[t] \in ls
  BY DEF In
<1>5. CASE l \in ls /\ ws.pc[t] \in ls
  <2>1. B = A
    BY <1>2, <1>5 DEF In
  <2>2. n = n + 1 - 1
    BY <1>3
  <2> QED BY <1>1, <1>5, <2>1, <2>2
<1>6. CASE l \notin ls /\ ws.pc[t] \notin ls
  <2>1. B = A
    BY <1>2, <1>6 DEF In
  <2>2. n = n + 0 - 0
    BY <1>3
  <2> QED BY <1>1, <1>6, <2>1, <2>2
<1>7. CASE l \in ls /\ ws.pc[t] \notin ls
  <2>1. B = A \cup {t}
    BY <1>2, <1>7 DEF In
  <2>2. Cardinality(A \cup {t}) = Cardinality(A) + 1
    BY <1>3, <1>4, <1>7, FS_AddElement
  <2>3. n + 1 = n + 1 - 0
    BY <1>3
  <2> QED BY <1>1, <1>7, <2>1, <2>2, <2>3
<1>8. CASE l \notin ls /\ ws.pc[t] \in ls
  <2>1. B = A \ {t}
    BY <1>2, <1>8 DEF In
  <2>2. Cardinality(A \ {t}) = Cardinality(A) - 1
    BY <1>3, <1>4, <1>8, FS_RemoveElement
  <2>3. n - 1 = n + 0 - 1
    BY <1>3
  <2> QED BY <1>1, <1>8, <2>1, <2>2, <2>3
<1> QED BY <1>5, <1>6, <1>7, <1>8

\* The same places as before: the same number.
LEMMA CountSame ==
    ASSUME NEW ls, \A u \in Mappers : ws'.pc[u] \in ls <=> ws.pc[u] \in ls
    PROVE  Cardinality(In(ls))' = Cardinality(In(ls))
<1>1. In(ls)' = In(ls)
  BY DEF In
<1> QED BY <1>1

\* The record after a move.
LEMMA ToTyped ==
    ASSUME WsTyped, NEW t \in Mappers, NEW l \in Pcs
    PROVE  /\ To(l, t) \in Ws
           /\ To(l, t).pc = [ws.pc EXCEPT ![t] = l]
           /\ To(l, t).idle = ws.idle /\ To(l, t).total = ws.total
           /\ To(l, t).online = ws.online /\ To(l, t).cpus = ws.cpus
<1> DEFINE pc == [ws.pc EXCEPT ![t] = l]
<1>1. To(l, t) = [ws EXCEPT !.pc = pc]
  BY DEF To
<1>2. pc \in [Mappers -> Pcs]
  BY DEF WsTyped, Ws
<1> HIDE DEF pc
<1>3. [ws EXCEPT !.pc = pc] \in Ws
  BY <1>2 DEF WsTyped, Ws
<1>4. LET r == [ws EXCEPT !.pc = pc]
      IN  r.pc = pc /\ r.idle = ws.idle /\ r.total = ws.total /\ r.online = ws.online /\ r.cpus = ws.cpus
  BY DEF WsTyped, Ws
<1> QED BY <1>1, <1>3, <1>4 DEF pc

\* What a step of a mapping does: from where to where, the idle list and the total.
Does(t, from, to, idle, total) ==
    /\ WsTyped' /\ At(t, from) /\ Moves(t, to)
    /\ ws'.idle = idle /\ ws'.total = total /\ Keeps

LEMMA MoveDoes ==
    ASSUME WsTyped, NEW t \in Mappers, NEW from, NEW l \in Pcs, At(t, from), ws' = To(l, t)
    PROVE  Does(t, from, l, ws.idle, ws.total)
BY ToTyped DEF Does, Moves, Keeps, WsTyped

LEMMA IdleDoes ==
    ASSUME WsTyped, NEW t \in Mappers, NEW from, NEW l \in Pcs, NEW n \in Nat, At(t, from),
           ws' = [To(l, t) EXCEPT !.idle = n]
    PROVE  Does(t, from, l, n, ws.total)
<1> DEFINE r == To(l, t)
<1>1. /\ r \in Ws /\ r.pc = [ws.pc EXCEPT ![t] = l]
      /\ r.idle = ws.idle /\ r.total = ws.total /\ r.online = ws.online /\ r.cpus = ws.cpus
  BY ToTyped
<1>2. ws' = [r EXCEPT !.idle = n]
  OBVIOUS
<1> HIDE DEF r
<1>3. /\ ws' \in Ws /\ ws'.idle = n /\ ws'.total = r.total /\ ws'.online = r.online
      /\ ws'.cpus = r.cpus /\ ws'.pc = r.pc
  BY <1>1, <1>2 DEF Ws
<1> QED BY <1>1, <1>3 DEF Does, Moves, Keeps, WsTyped

LEMMA TotalDoes ==
    ASSUME WsTyped, NEW t \in Mappers, NEW from, NEW l \in Pcs, NEW n \in Nat, At(t, from),
           ws' = [To(l, t) EXCEPT !.total = n]
    PROVE  Does(t, from, l, ws.idle, n)
<1> DEFINE r == To(l, t)
<1>1. /\ r \in Ws /\ r.pc = [ws.pc EXCEPT ![t] = l]
      /\ r.idle = ws.idle /\ r.total = ws.total /\ r.online = ws.online /\ r.cpus = ws.cpus
  BY ToTyped
<1>2. ws' = [r EXCEPT !.total = n]
  OBVIOUS
<1> HIDE DEF r
<1>3. /\ ws' \in Ws /\ ws'.total = n /\ ws'.idle = r.idle /\ ws'.online = r.online
      /\ ws'.cpus = r.cpus /\ ws'.pc = r.pc
  BY <1>1, <1>2 DEF Ws
<1> QED BY <1>1, <1>3 DEF Does, Moves, Keeps, WsTyped

\* The two counts after a step of a mapping.
Held == {"have", "alloc", "free"}

LEMMA DoesCount ==
    ASSUME WsTyped, NEW t \in Mappers, NEW from, NEW to, NEW i, NEW n, Does(t, from, to, i, n)
    PROVE  /\ Cardinality(In(Held))' = Cardinality(In(Held)) + (IF to \in Held THEN 1 ELSE 0)
                                                             - (IF from \in Held THEN 1 ELSE 0)
           /\ Cardinality(In({"have"}))' = Cardinality(In({"have"})) + (IF to = "have" THEN 1 ELSE 0)
                                                                     - (IF from = "have" THEN 1 ELSE 0)
<1>1. Moves(t, to) /\ ws.pc[t] = from
  BY DEF Does, At
<1>2. Cardinality(In({"have"}))' = Cardinality(In({"have"})) + (IF to \in {"have"} THEN 1 ELSE 0)
                                                  - (IF ws.pc[t] \in {"have"} THEN 1 ELSE 0)
  BY <1>1, CountMove
<1>3. Cardinality(In(Held))' = Cardinality(In(Held)) + (IF to \in Held THEN 1 ELSE 0)
                                                  - (IF ws.pc[t] \in Held THEN 1 ELSE 0)
  BY <1>1, CountMove
<1> QED BY <1>1, <1>2, <1>3

\* Every step of a mapping, as a move and a change of the counters.
LEMMA Effects ==
    ASSUME PoolSound, NEW t \in Mappers
    PROVE  /\ GetIdle(t) => ws.idle > 0 /\ Does(t, "get", "have", ws.idle - 1, ws.total)
           /\ GetWait(t) => Does(t, "get", "prepare", ws.idle, ws.total)
           /\ GetNew(t) => /\ ws.idle = 0 /\ ws.total <= ws.cpus[t]
                           /\ Does(t, "get", "alloc", ws.idle, ws.total + 1)
           /\ Prepare(t) => Does(t, "prepare", "queued", ws.idle, ws.total)
           /\ Check(t) => \/ /\ ws.total > ws.cpus[t] /\ ws.idle = 0
                             /\ Does(t, "queued", "asleep", ws.idle, ws.total)
                          \/ Does(t, "queued", "get", ws.idle, ws.total)
           /\ Awake(t) => Does(t, "awake", "get", ws.idle, ws.total)
           /\ Alloc(t) => Does(t, "alloc", "have", ws.idle, ws.total)
           /\ AllocFails(t) => ws.total > 0 /\ Does(t, "alloc", "wakeGet", ws.idle, ws.total - 1)
           /\ Put(t) => \/ ws.idle <= ws.online /\ Does(t, "have", "wakeOut", ws.idle + 1, ws.total)
                        \/ ws.idle > ws.online /\ Does(t, "have", "free", ws.idle, ws.total)
           /\ Free(t) => ws.total > 0 /\ Does(t, "free", "wakeOut", ws.idle, ws.total - 1)
<1>1. WsTyped /\ ws.idle \in Nat /\ ws.total \in Nat /\ ws.total > 0 /\ ws.total + 1 \in Nat
      /\ ws.total - 1 \in Nat /\ ws.idle + 1 \in Nat /\ ws.online \in Nat
      /\ ws.cpus[t] \in Nat
  BY PoolAssumption DEF PoolSound, WsTyped, WsCounted, Ws
<1> USE DEF Pcs
<1>2. GetIdle(t) => ws.idle > 0 /\ Does(t, "get", "have", ws.idle - 1, ws.total)
  <2> SUFFICES ASSUME GetIdle(t)
               PROVE  ws.idle > 0 /\ Does(t, "get", "have", ws.idle - 1, ws.total)
    OBVIOUS
  <2>1. ws.idle > 0 /\ ws.idle - 1 \in Nat
    BY <1>1 DEF GetIdle
  <2>2. ws' = [To("have", t) EXCEPT !.idle = ws.idle - 1]
    BY <1>1, ToTyped DEF GetIdle
  <2> QED BY <1>1, <2>1, <2>2, IdleDoes DEF GetIdle
<1>3. GetWait(t) => Does(t, "get", "prepare", ws.idle, ws.total)
  BY <1>1, MoveDoes DEF GetWait
<1>4. GetNew(t) => ws.idle = 0 /\ ws.total <= ws.cpus[t] /\ Does(t, "get", "alloc", ws.idle, ws.total + 1)
  <2> SUFFICES ASSUME GetNew(t)
               PROVE  Does(t, "get", "alloc", ws.idle, ws.total + 1)
    BY DEF GetNew
  <2>1. ws' = [To("alloc", t) EXCEPT !.total = ws.total + 1]
    BY <1>1, ToTyped DEF GetNew
  <2> QED BY <1>1, <2>1, TotalDoes DEF GetNew
<1>5. Prepare(t) => Does(t, "prepare", "queued", ws.idle, ws.total)
  BY <1>1, MoveDoes DEF Prepare
<1>6. Check(t) => \/ ws.total > ws.cpus[t] /\ ws.idle = 0 /\ Does(t, "queued", "asleep", ws.idle, ws.total)
                  \/ Does(t, "queued", "get", ws.idle, ws.total)
  <2>1. CASE ws.total > ws.cpus[t] /\ ws.idle = 0
    BY <1>1, <2>1, MoveDoes DEF Check
  <2>2. CASE ~(ws.total > ws.cpus[t] /\ ws.idle = 0)
    BY <1>1, <2>2, MoveDoes DEF Check
  <2> QED BY <2>1, <2>2
<1>7. Awake(t) => Does(t, "awake", "get", ws.idle, ws.total)
  BY <1>1, MoveDoes DEF Awake
<1>8. Alloc(t) => Does(t, "alloc", "have", ws.idle, ws.total)
  BY <1>1, MoveDoes DEF Alloc
<1>9. AllocFails(t) => Does(t, "alloc", "wakeGet", ws.idle, ws.total - 1)
  <2> SUFFICES ASSUME AllocFails(t)
               PROVE  Does(t, "alloc", "wakeGet", ws.idle, ws.total - 1)
    OBVIOUS
  <2>1. ws' = [To("wakeGet", t) EXCEPT !.total = ws.total - 1]
    BY <1>1, ToTyped DEF AllocFails
  <2> QED BY <1>1, <2>1, TotalDoes DEF AllocFails
<1>10. Put(t) => \/ ws.idle <= ws.online /\ Does(t, "have", "wakeOut", ws.idle + 1, ws.total)
                 \/ ws.idle > ws.online /\ Does(t, "have", "free", ws.idle, ws.total)
  <2>1. CASE ws.idle <= ws.online /\ Put(t)
    <3>1. ws' = [To("wakeOut", t) EXCEPT !.idle = ws.idle + 1]
      BY <1>1, <2>1, ToTyped DEF Put
    <3> QED BY <1>1, <2>1, <3>1, IdleDoes DEF Put
  <2>2. CASE ~(ws.idle <= ws.online) /\ Put(t)
    BY <1>1, <2>2, MoveDoes DEF Put
  <2> QED BY <2>1, <2>2
<1>11. Free(t) => Does(t, "free", "wakeOut", ws.idle, ws.total - 1)
  <2> SUFFICES ASSUME Free(t)
               PROVE  Does(t, "free", "wakeOut", ws.idle, ws.total - 1)
    OBVIOUS
  <2>1. ws' = [To("wakeOut", t) EXCEPT !.total = ws.total - 1]
    BY <1>1, ToTyped DEF Free
  <2> QED BY <1>1, <2>1, TotalDoes DEF Free
<1> QED BY <1>1, <1>2, <1>3, <1>4, <1>5, <1>6, <1>7, <1>8, <1>9, <1>10, <1>11

\* A step that puts nobody to sleep keeps the sleepers' wake-up on the way: it brings one, or
\* leaves what there is, and takes nothing that they wait for.
LEMMA SleepersKept ==
    ASSUME WsTyped, SleeperWoken, NEW t \in Mappers, NEW from, NEW to, NEW i, NEW n \in Nat,
           Does(t, from, to, i, n), to # "asleep",
           \/ to \in {"wakeGet", "wakeOut", "free"}
           \/ /\ from \notin {"wakeGet", "wakeOut", "free"}
              /\ \/ ws.idle > 0
                 \/ /\ i = ws.idle /\ n >= ws.total
                    /\ from \in {"have", "alloc"} => to \in {"have", "alloc"}
    PROVE  SleeperWoken'
<1> SUFFICES ASSUME NEW u \in Mappers, ws'.pc[u] = "asleep"
             PROVE  \/ \E v \in Mappers : ws'.pc[v] \in {"wakeGet", "wakeOut", "free"}
                    \/ /\ ws'.idle = 0 /\ ws'.total > ws'.cpus[u]
                       /\ \E v \in Mappers : ws'.pc[v] \in {"have", "alloc"}
  BY DEF SleeperWoken, In
<1>1. /\ ws.pc[t] = from /\ ws'.pc[t] = to /\ \A v \in Mappers : v # t => ws'.pc[v] = ws.pc[v]
      /\ ws'.idle = i /\ ws'.total = n /\ ws'.cpus = ws.cpus
  BY DEF Does, At, Moves, Keeps, WsTyped, Ws
<1>2. ws.pc[u] = "asleep"
  BY <1>1
<1>3. \/ \E v \in Mappers : ws.pc[v] \in {"wakeGet", "wakeOut", "free"}
      \/ /\ ws.idle = 0 /\ ws.total > ws.cpus[u]
         /\ \E v \in Mappers : ws.pc[v] \in {"have", "alloc"}
  BY <1>2 DEF SleeperWoken, In
<1>4. ws.idle \in Nat /\ ws.total \in Nat /\ ws.cpus[u] \in Int
  BY DEF WsTyped, Ws
<1>5. CASE to \in {"wakeGet", "wakeOut", "free"}
  BY <1>1, <1>5
<1>6. CASE /\ to \notin {"wakeGet", "wakeOut", "free"}
           /\ \E v \in Mappers : ws.pc[v] \in {"wakeGet", "wakeOut", "free"}
  BY <1>1, <1>6
<1>7. CASE /\ to \notin {"wakeGet", "wakeOut", "free"}
           /\ ~\E v \in Mappers : ws.pc[v] \in {"wakeGet", "wakeOut", "free"}
  <2>1. ws.idle = 0 /\ ws.total > ws.cpus[u]
    BY <1>3, <1>7
  <2>2. PICK v \in Mappers : ws.pc[v] \in {"have", "alloc"}
    BY <1>3, <1>7
  <2>3. i = ws.idle /\ n >= ws.total /\ (from \in {"have", "alloc"} => to \in {"have", "alloc"})
    BY <1>4, <1>7, <2>1
  <2>4. ws'.pc[v] \in {"have", "alloc"}
    BY <1>1, <2>2, <2>3
  <2> QED BY <1>1, <1>4, <2>1, <2>3, <2>4
<1> QED BY <1>5, <1>6, <1>7

\* Whoever makes or frees a workspace holds one beyond those at work.
LEMMA MoreHeld ==
    ASSUME NEW t \in Mappers, ws.pc[t] \in {"alloc", "free"}
    PROVE  Cardinality(In({"have"})) + 1 <= Cardinality(In(Held))
<1>1. /\ IsFiniteSet(In(Held)) /\ t \in In(Held) /\ In({"have"}) \subseteq In(Held) \ {t}
      /\ Cardinality(In(Held)) \in Nat
  BY FiniteIn DEF In, Held
<1>2. IsFiniteSet(In(Held) \ {t}) /\ Cardinality(In(Held) \ {t}) = Cardinality(In(Held)) - 1
  BY <1>1, FS_RemoveElement
<1>3. Cardinality(In({"have"})) <= Cardinality(In(Held) \ {t})
  BY <1>1, <1>2, FS_Subset
<1> QED BY <1>1, <1>2, <1>3, FiniteIn

LEMMA PoolStep ==
    ASSUME PoolSound, [WsNext]_ws
    PROVE  PoolSound'
<1> DEFINE held == Cardinality(In(Held))
           have == Cardinality(In({"have"}))
<1>1. /\ WsTyped /\ SleeperWoken /\ ws.idle \in Nat /\ ws.total \in Nat /\ ws.online \in 1..MaxCpus
      /\ held \in Nat /\ have \in Nat /\ MaxCpus \in Nat
  BY FiniteIn, PoolAssumption DEF PoolSound, WsTyped, Ws
<1>2. ws.total = ws.idle + held /\ ws.total \in 1..MaxCpus + 1 /\ ws.idle + have >= 1
  BY DEF PoolSound, WsCounted, OneStays, Held
<1>3. ASSUME NEW t \in Mappers, GetIdle(t) PROVE PoolSound'
  <2>1. ws.idle > 0 /\ Does(t, "get", "have", ws.idle - 1, ws.total)
    BY <1>3, Effects
  <2>2. held' = held + 1 - 0 /\ have' = have + 1 - 0 /\ SleeperWoken'
    BY <1>1, <1>2, <2>1, DoesCount, SleepersKept DEF Held
  <2>3. WsTyped' /\ ws'.idle = ws.idle - 1 /\ ws'.total = ws.total
    BY <2>1 DEF Does
  <2> QED BY <1>1, <1>2, <2>1, <2>2, <2>3 DEF PoolSound, WsCounted, OneStays, Held
<1>4. ASSUME NEW t \in Mappers, GetWait(t) PROVE PoolSound'
  <2>1. Does(t, "get", "prepare", ws.idle, ws.total)
    BY <1>4, Effects
  <2>2. held' = held + 0 - 0 /\ have' = have + 0 - 0 /\ SleeperWoken'
    BY <1>1, <1>2, <2>1, DoesCount, SleepersKept DEF Held
  <2>3. WsTyped' /\ ws'.idle = ws.idle /\ ws'.total = ws.total
    BY <2>1 DEF Does
  <2> QED BY <1>1, <1>2, <2>1, <2>2, <2>3 DEF PoolSound, WsCounted, OneStays, Held
<1>5. ASSUME NEW t \in Mappers, GetNew(t) PROVE PoolSound'
  <2>1. /\ ws.idle = 0 /\ ws.total <= ws.cpus[t] /\ ws.cpus[t] \in 1..MaxCpus
        /\ Does(t, "get", "alloc", ws.idle, ws.total + 1)
    BY <1>1, <1>5, Effects DEF WsTyped, Ws
  <2>2. held' = held + 1 - 0 /\ have' = have + 0 - 0 /\ SleeperWoken'
    BY <1>1, <1>2, <2>1, DoesCount, SleepersKept DEF Held
  <2>3. WsTyped' /\ ws'.idle = ws.idle /\ ws'.total = ws.total + 1
    BY <2>1 DEF Does
  <2> QED BY <1>1, <1>2, <2>1, <2>2, <2>3 DEF PoolSound, WsCounted, OneStays, Held
<1>6. ASSUME NEW t \in Mappers, Prepare(t) PROVE PoolSound'
  <2>1. Does(t, "prepare", "queued", ws.idle, ws.total)
    BY <1>6, Effects
  <2>2. held' = held + 0 - 0 /\ have' = have + 0 - 0 /\ SleeperWoken'
    BY <1>1, <1>2, <2>1, DoesCount, SleepersKept DEF Held
  <2>3. WsTyped' /\ ws'.idle = ws.idle /\ ws'.total = ws.total
    BY <2>1 DEF Does
  <2> QED BY <1>1, <1>2, <2>1, <2>2, <2>3 DEF PoolSound, WsCounted, OneStays, Held
<1>7. ASSUME NEW t \in Mappers, Awake(t) PROVE PoolSound'
  <2>1. Does(t, "awake", "get", ws.idle, ws.total)
    BY <1>7, Effects
  <2>2. held' = held + 0 - 0 /\ have' = have + 0 - 0 /\ SleeperWoken'
    BY <1>1, <1>2, <2>1, DoesCount, SleepersKept DEF Held
  <2>3. WsTyped' /\ ws'.idle = ws.idle /\ ws'.total = ws.total
    BY <2>1 DEF Does
  <2> QED BY <1>1, <1>2, <2>1, <2>2, <2>3 DEF PoolSound, WsCounted, OneStays, Held
<1>8. ASSUME NEW t \in Mappers, Alloc(t) PROVE PoolSound'
  <2>1. Does(t, "alloc", "have", ws.idle, ws.total)
    BY <1>8, Effects
  <2>2. held' = held + 1 - 1 /\ have' = have + 1 - 0 /\ SleeperWoken'
    BY <1>1, <1>2, <2>1, DoesCount, SleepersKept DEF Held
  <2>3. WsTyped' /\ ws'.idle = ws.idle /\ ws'.total = ws.total
    BY <2>1 DEF Does
  <2> QED BY <1>1, <1>2, <2>1, <2>2, <2>3 DEF PoolSound, WsCounted, OneStays, Held
<1>9. ASSUME NEW t \in Mappers, AllocFails(t) PROVE PoolSound'
  <2>1. ws.total > 0 /\ Does(t, "alloc", "wakeGet", ws.idle, ws.total - 1)
    BY <1>9, Effects
  <2>2. held' = held + 0 - 1 /\ have' = have + 0 - 0 /\ SleeperWoken'
    BY <1>1, <1>2, <2>1, DoesCount, SleepersKept DEF Held
  <2>3. WsTyped' /\ ws'.idle = ws.idle /\ ws'.total = ws.total - 1
    BY <2>1 DEF Does
  <2>4. have + 1 <= held
    BY <2>1, MoreHeld DEF Does, At
  <2> QED BY <1>1, <1>2, <2>1, <2>2, <2>3, <2>4 DEF PoolSound, WsCounted, OneStays, Held
<1>10. ASSUME NEW t \in Mappers, Free(t) PROVE PoolSound'
  <2>1. ws.total > 0 /\ Does(t, "free", "wakeOut", ws.idle, ws.total - 1)
    BY <1>10, Effects
  <2>2. held' = held + 0 - 1 /\ have' = have + 0 - 0 /\ SleeperWoken'
    BY <1>1, <1>2, <2>1, DoesCount, SleepersKept DEF Held
  <2>3. WsTyped' /\ ws'.idle = ws.idle /\ ws'.total = ws.total - 1
    BY <2>1 DEF Does
  <2>4. have + 1 <= held
    BY <2>1, MoreHeld DEF Does, At
  <2> QED BY <1>1, <1>2, <2>1, <2>2, <2>3, <2>4 DEF PoolSound, WsCounted, OneStays, Held
<1>11. ASSUME NEW t \in Mappers, Put(t) PROVE PoolSound'
  <2>1. CASE Does(t, "have", "wakeOut", ws.idle + 1, ws.total)
    <3>1. held' = held + 0 - 1 /\ have' = have + 0 - 1 /\ SleeperWoken'
      BY <1>1, <1>2, <2>1, DoesCount, SleepersKept DEF Held
    <3>2. WsTyped' /\ ws'.idle = ws.idle + 1 /\ ws'.total = ws.total
      BY <2>1 DEF Does
    <3> QED BY <1>1, <1>2, <3>1, <3>2 DEF PoolSound, WsCounted, OneStays, Held
  <2>2. CASE ws.idle > ws.online /\ Does(t, "have", "free", ws.idle, ws.total)
    <3>1. held' = held + 1 - 1 /\ have' = have + 0 - 1 /\ SleeperWoken'
      BY <1>1, <1>2, <2>2, DoesCount, SleepersKept DEF Held
    <3>2. WsTyped' /\ ws'.idle = ws.idle /\ ws'.total = ws.total
      BY <2>2 DEF Does
    <3> QED BY <1>1, <1>2, <2>2, <3>1, <3>2 DEF PoolSound, WsCounted, OneStays, Held
  <2> QED BY <1>11, <2>1, <2>2, Effects
<1>12. ASSUME NEW t \in Mappers, Check(t) PROVE PoolSound'
  <2>1. CASE Does(t, "queued", "get", ws.idle, ws.total)
    <3>1. held' = held + 0 - 0 /\ have' = have + 0 - 0 /\ SleeperWoken'
      BY <1>1, <1>2, <2>1, DoesCount, SleepersKept DEF Held
    <3>2. WsTyped' /\ ws'.idle = ws.idle /\ ws'.total = ws.total
      BY <2>1 DEF Does
    <3> QED BY <1>1, <1>2, <3>1, <3>2 DEF PoolSound, WsCounted, OneStays, Held
  <2>2. CASE /\ ws.total > ws.cpus[t] /\ ws.idle = 0
             /\ Does(t, "queued", "asleep", ws.idle, ws.total)
    <3>1. held' = held + 0 - 0 /\ have' = have + 0 - 0
      BY <1>1, <1>2, <2>2, DoesCount DEF Held
    <3>2. WsTyped' /\ ws'.idle = ws.idle /\ ws'.total = ws.total /\ ws'.cpus = ws.cpus
      BY <2>2 DEF Does, Keeps
    <3>3. PICK v \in Mappers : ws.pc[v] = "have"
      <4>1. In({"have"}) # {}
        BY <1>1, <1>2, <2>2, FS_EmptySet
      <4> QED BY <4>1 DEF In
    <3>4. ws'.pc[v] = "have" /\ \A u \in Mappers : u # t => ws'.pc[u] = ws.pc[u]
      BY <1>1, <2>2, <3>3 DEF Does, Moves, At, WsTyped, Ws
    <3>5. SleeperWoken'
      <4> SUFFICES ASSUME NEW u \in Mappers, ws'.pc[u] = "asleep"
                   PROVE  \/ \E w \in Mappers : ws'.pc[w] \in {"wakeGet", "wakeOut", "free"}
                          \/ /\ ws'.idle = 0 /\ ws'.total > ws'.cpus[u]
                             /\ \E w \in Mappers : ws'.pc[w] \in {"have", "alloc"}
        BY DEF SleeperWoken, In
      <4>1. CASE u = t
        BY <2>2, <3>2, <3>4, <4>1
      <4>2. CASE u # t
        <5>1. ws.pc[u] = "asleep"
          BY <3>4, <4>2
        <5>2. \/ \E w \in Mappers : ws.pc[w] \in {"wakeGet", "wakeOut", "free"}
              \/ ws.idle = 0 /\ ws.total > ws.cpus[u]
          BY <1>1, <5>1 DEF SleeperWoken, In
        <5>3. ws.pc[t] = "queued"
          BY <2>2 DEF Does, At
        <5> QED BY <3>2, <3>4, <5>2, <5>3
      <4> QED BY <4>1, <4>2
    <3> QED BY <1>1, <1>2, <3>1, <3>2, <3>5 DEF PoolSound, WsCounted, OneStays, Held
  <2> QED BY <1>12, <2>1, <2>2, Effects
<1>13. ASSUME NEW t \in Mappers, Ask(t) PROVE PoolSound'
  <2>1. /\ WsTyped' /\ ws'.pc = [ws.pc EXCEPT ![t] = "get"] /\ ws.pc[t] = "out"
        /\ ws'.idle = ws.idle /\ ws'.total = ws.total
        /\ \A u \in Mappers : u # t => ws'.cpus[u] = ws.cpus[u]
    <3> DEFINE r == To("get", t)
               cp == [ws.cpus EXCEPT ![t] = ws.online]
    <3>1. /\ r \in Ws /\ r.pc = [ws.pc EXCEPT ![t] = "get"] /\ r.cpus = ws.cpus
          /\ r.idle = ws.idle /\ r.total = ws.total
      BY <1>1, ToTyped DEF Pcs
    <3>2. cp \in [Mappers -> 1..MaxCpus] /\ \A u \in Mappers : u # t => cp[u] = ws.cpus[u]
      BY <1>1 DEF WsTyped, Ws
    <3>3. ws' = [r EXCEPT !.cpus = cp]
      BY <1>13, <3>1 DEF Ask
    <3> HIDE DEF r, cp
    <3>4. ws' \in Ws /\ ws'.pc = r.pc /\ ws'.idle = r.idle /\ ws'.total = r.total /\ ws'.cpus = cp
      BY <3>1, <3>2, <3>3 DEF Ws
    <3> QED BY <1>13, <3>1, <3>2, <3>4 DEF Ask, At, WsTyped
  <2>2. held' = held + 0 - 0 /\ have' = have + 0 - 0
    <3>1. Moves(t, "get")
      BY <2>1 DEF Moves
    <3>2. /\ held' = held + (IF "get" \in Held THEN 1 ELSE 0) - (IF ws.pc[t] \in Held THEN 1 ELSE 0)
          /\ have' = have + (IF "get" \in {"have"} THEN 1 ELSE 0)
                          - (IF ws.pc[t] \in {"have"} THEN 1 ELSE 0)
      BY <1>1, <3>1, CountMove
    <3> QED BY <2>1, <3>2 DEF Held
  <2>3. \A u \in Mappers : u # t => ws'.pc[u] = ws.pc[u] /\ ws'.cpus[u] = ws.cpus[u]
    BY <1>1, <2>1 DEF WsTyped, Ws
  <2>4. SleeperWoken'
    <3>1. ws'.pc[t] = "get"
      BY <1>1, <2>1 DEF WsTyped, Ws
    <3> QED BY <1>1, <2>1, <2>3, <3>1 DEF SleeperWoken, In
  <2> QED BY <1>1, <1>2, <2>1, <2>2, <2>4 DEF PoolSound, WsCounted, OneStays, Held
<1>14. ASSUME NEW t \in Mappers, Wake(t) PROVE PoolSound'
  <2> DEFINE pc == [u \in Mappers |-> IF u = t THEN (IF At(t, "wakeGet") THEN "get" ELSE "out")
                                      ELSE IF ws.pc[u] \in {"queued", "asleep"} THEN "awake" ELSE ws.pc[u]]
  <2>1. ws' = [ws EXCEPT !.pc = pc] /\ ws.pc[t] \in {"wakeGet", "wakeOut"}
    BY <1>1, <1>14 DEF Wake, WsTyped, Ws
  <2>2. pc \in [Mappers -> Pcs]
    BY <1>1 DEF WsTyped, Ws, Pcs
  <2>3. /\ \A u \in Mappers : pc[u] # "asleep"
        /\ \A u \in Mappers : pc[u] \in Held <=> ws.pc[u] \in Held
        /\ \A u \in Mappers : pc[u] \in {"have"} <=> ws.pc[u] \in {"have"}
    BY <2>1 DEF Held
  <2> HIDE DEF pc
  <2>4. WsTyped' /\ ws'.pc = pc /\ ws'.idle = ws.idle /\ ws'.total = ws.total
    BY <1>1, <2>1, <2>2 DEF WsTyped, Ws
  <2>5. held' = held /\ have' = have
    BY <2>3, <2>4, CountSame
  <2>6. SleeperWoken'
    BY <2>3, <2>4 DEF SleeperWoken, In
  <2> QED BY <1>1, <1>2, <2>4, <2>5, <2>6 DEF PoolSound, WsCounted, OneStays, Held
<1>15. CASE Hotplug \/ UNCHANGED ws
  <2>1. /\ WsTyped' /\ ws'.pc = ws.pc /\ ws'.idle = ws.idle /\ ws'.total = ws.total
        /\ ws'.cpus = ws.cpus
    BY <1>1, <1>15 DEF Hotplug, WsTyped, Ws
  <2>2. held' = held /\ have' = have
    BY <2>1, CountSame
  <2>3. SleeperWoken'
    BY <1>1, <2>1 DEF SleeperWoken, In
  <2> QED BY <1>1, <1>2, <2>1, <2>2, <2>3 DEF PoolSound, WsCounted, OneStays, Held
<1> QED BY <1>3, <1>4, <1>5, <1>6, <1>7, <1>8, <1>9, <1>10, <1>11, <1>12, <1>13,
           <1>14, <1>15 DEF WsNext

LEMMA PoolInit ==
    ASSUME WsInit
    PROVE  PoolSound
<1>1. WsTyped
  BY PoolAssumption DEF WsInit, WsTyped, Ws, Pcs
<1>2. ws.idle = 1 /\ ws.total = 1 /\ \A t \in Mappers : ws.pc[t] = "out"
  BY DEF WsInit
<1>3. In({"have", "alloc", "free"}) = {} /\ In({"have"}) = {} /\ In({"asleep"}) = {}
  BY <1>2 DEF In
<1> QED BY <1>1, <1>2, <1>3, FS_EmptySet, PoolAssumption DEF PoolSound, WsCounted, OneStays, SleeperWoken

(***************************************************************************)
(* The workspaces are counted right, one always stays, and whoever sleeps  *)
(* in get_workspace has a wake-up on the way or a workspace in someone's   *)
(* hands, for every number of mappings and of processors.                  *)
(***************************************************************************)
THEOREM PoolIsSound == WsSpec => []PoolSound
<1>1. WsInit => PoolSound
  BY PoolInit
<1>2. PoolSound /\ [WsNext]_ws => PoolSound'
  BY PoolStep
<1> QED BY <1>1, <1>2, PTL DEF WsSpec
=============================================================================
