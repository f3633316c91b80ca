------------------------------ MODULE WorkPool ------------------------------
(* The CRUSH workspaces that concurrent mappings share (get_workspace, put_workspace of  *)
(* libceph/osdmap.c): taken from an idle list, made when there are few, waited for        *)
(* otherwise. A critical section of ws_lock is one step.                                *)
EXTENDS Integers, FiniteSets

CONSTANTS Mappers, MaxCpus

ASSUME PoolAssumption == IsFiniteSet(Mappers) /\ MaxCpus \in Nat \ {0}

VARIABLE ws

\* add_initial_workspace
WsInit ==
    ws = [idle |-> 1, total |-> 1, online |-> MaxCpus, cpus |-> [t \in Mappers |-> MaxCpus],
          pc |-> [t \in Mappers |-> "out"]]

At(t, l) == ws.pc[t] = l
To(l, t) == [ws EXCEPT !.pc[t] = l]

\* Processors come and go: num_online_cpus
Hotplug == \E n \in 1..MaxCpus \ {ws.online} : ws' = [ws EXCEPT !.online = n]

\* do_crush asks for a workspace; the number of processors is read once
Ask(t) == At(t, "out") /\ ws' = [To("get", t) EXCEPT !.cpus[t] = ws.online]

\* Under the lock: an idle one, or wait, or make one
GetIdle(t) ==
    At(t, "get") /\ ws.idle > 0 /\ ws' = [To("have", t) EXCEPT !.idle = @ - 1]
GetWait(t) ==
    At(t, "get") /\ ws.idle = 0 /\ ws.total > ws.cpus[t] /\ ws' = To("prepare", t)
GetNew(t) ==
    At(t, "get") /\ ws.idle = 0 /\ ws.total <= ws.cpus[t] /\ ws' = [To("alloc", t) EXCEPT !.total = @ + 1]

\* prepare_to_wait: on the queue from here on
Prepare(t) == At(t, "prepare") /\ ws' = To("queued", t)
\* A bug: the test is made once, before the queue
CheckOnce(t) == At(t, "queued") /\ ws' = To("asleep", t)
\* The test is repeated on the queue; schedule
Check(t) ==
    At(t, "queued") /\ ws' = To(IF ws.total > ws.cpus[t] /\ ws.idle = 0 THEN "asleep" ELSE "get", t)
\* finish_wait, again
Awake(t) == At(t, "awake") /\ ws' = To("get", t)

Alloc(t) == At(t, "alloc") /\ ws' = To("have", t)
AllocFails(t) == At(t, "alloc") /\ ws' = [To("wakeGet", t) EXCEPT !.total = @ - 1]

\* put_workspace: back on the list, or freed when enough are idle
Put(t) ==
    At(t, "have") /\ ws' = IF ws.idle <= ws.online THEN [To("wakeOut", t) EXCEPT !.idle = @ + 1] ELSE To("free", t)
Free(t) == At(t, "free") /\ ws' = [To("wakeOut", t) EXCEPT !.total = @ - 1]

\* wake_up: everyone on the queue
Wake(t) ==
    /\ ws.pc[t] \in {"wakeGet", "wakeOut"}
    /\ ws' = [ws EXCEPT !.pc = [u \in Mappers |->
                  IF u = t THEN (IF At(t, "wakeGet") THEN "get" ELSE "out")
                  ELSE IF @[u] \in {"queued", "asleep"} THEN "awake" ELSE @[u]]]

WsNext ==
    \/ Hotplug
    \/ \E t \in Mappers :
           \/ Ask(t) \/ GetIdle(t) \/ GetWait(t) \/ GetNew(t) \/ Prepare(t) \/ Check(t) \/ Awake(t)
           \/ Alloc(t) \/ AllocFails(t) \/ Put(t) \/ Free(t) \/ Wake(t)
WsSpec == WsInit /\ [][WsNext]_ws

---------------------------------------------------------------------------
\* Properties

In(ls) == {t \in Mappers : ws.pc[t] \in ls}

\* The counters are what they count: total_ws is the idle workspaces and those in someone's
\* hands, being made or being freed; "there is always at least one workspace" and never more
\* than one for each processor and one to spare.
WsCounted ==
    /\ ws.total = ws.idle + Cardinality(In({"have", "alloc", "free"}))
    /\ ws.total \in 1..MaxCpus + 1

\* "We have the initial workspace and the CRUSH computation time is bounded so we will get it
\* eventually": nobody sleeps on a queue that no one is going to wake. Whoever sleeps while
\* there is something to take has its wake-up on the way, and otherwise someone holds a
\* workspace.
SleeperWoken ==
    \A t \in In({"asleep"}) :
        \/ In({"wakeGet", "wakeOut", "free"}) # {}
        \/ ws.idle = 0 /\ ws.total > ws.cpus[t] /\ In({"have", "alloc"}) # {}

Pcs == {"out", "get", "prepare", "queued", "asleep", "awake", "alloc", "have", "free",
        "wakeGet", "wakeOut"}
Ws == [idle : Nat, total : Nat, online : 1..MaxCpus, cpus : [Mappers -> 1..MaxCpus],
       pc : [Mappers -> Pcs]]
WsTyped == ws \in Ws

\* One workspace at least is idle or at work: those being made or freed are extra.
OneStays == ws.idle + Cardinality(In({"have"})) >= 1

\* The pool as a whole: its counters, the workspace that stays, and no sleeper without a
\* wake-up.
PoolSound == WsTyped /\ WsCounted /\ OneStays /\ SleeperWoken
=============================================================================
