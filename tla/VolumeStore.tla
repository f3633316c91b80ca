---------------------------- MODULE VolumeStore ----------------------------
(***************************************************************************)
(* What the volume plugin promises xapi, with no backend, no garbage       *)
(* collector and no hosts: a volume or snapshot (a key) is fresh, then     *)
(* listed by SR.ls, then retired for good, and one whose creation was      *)
(* reported is retired only after its destruction was asked for.           *)
(***************************************************************************)
EXTENDS TLAPS

CONSTANT Key

VARIABLES
  status,       \* status[k]: "fresh", "listed" or "retired"
  acked,        \* keys whose creation was reported
  asked         \* keys whose destruction was asked for

vars == <<status, acked, asked>>

TypeOK ==
  /\ status \in [Key -> {"fresh", "listed", "retired"}]
  /\ acked \subseteq Key
  /\ asked \subseteq Key

Init ==
  /\ status = [k \in Key |-> "fresh"]
  /\ acked = {} /\ asked = {}

Set(K, st) == [k \in Key |-> IF k \in K THEN st ELSE status[k]]

Add(k) ==
  /\ status[k] = "fresh"
  /\ status' = Set({k}, "listed")
  /\ acked' \in {acked, acked \cup {k}}
  /\ UNCHANGED asked

Ack(k) ==
  /\ status[k] = "listed"
  /\ acked' = acked \cup {k}
  /\ UNCHANGED <<status, asked>>

Ask(K) ==
  /\ asked' = asked \cup K
  /\ UNCHANGED <<status, acked>>

\* Retiring an image retires the snapshots inside it in the same step.
Retire(K) ==
  /\ K \cap acked \subseteq asked
  /\ status' = Set(K, "retired")
  /\ UNCHANGED <<acked, asked>>

Next ==
  \/ \E k \in Key : Add(k) \/ Ack(k)
  \/ \E K \in SUBSET Key : Ask(K) \/ Retire(K)

Spec == Init /\ [][Next]_vars

\* A key whose creation was reported is listed until its destruction is
\* asked for.
Safe == \A k \in acked \ asked : status[k] = "listed"

\* The promise holds of every behaviour of this specification: a reported
\* key is listed until its destruction is asked for.
THEOREM SafeStore == Spec => [](TypeOK /\ Safe)
<1>1. Init => TypeOK /\ Safe
  BY DEF Init, TypeOK, Safe
<1>2. TypeOK /\ Safe /\ [Next]_vars => (TypeOK /\ Safe)'
  <2> SUFFICES ASSUME TypeOK, Safe, [Next]_vars PROVE (TypeOK /\ Safe)'
    OBVIOUS
  <2> USE DEF TypeOK, Safe, Set
  <2>1. ASSUME NEW k \in Key, Add(k) PROVE (TypeOK /\ Safe)'
    BY <2>1 DEF Add
  <2>2. ASSUME NEW k \in Key, Ack(k) PROVE (TypeOK /\ Safe)'
    BY <2>2 DEF Ack
  <2>3. ASSUME NEW K \in SUBSET Key, Ask(K) PROVE (TypeOK /\ Safe)'
    BY <2>3 DEF Ask
  <2>4. ASSUME NEW K \in SUBSET Key, Retire(K) PROVE (TypeOK /\ Safe)'
    BY <2>4 DEF Retire
  <2>5. CASE UNCHANGED vars
    BY <2>5 DEF vars
  <2> QED BY <2>1, <2>2, <2>3, <2>4, <2>5 DEF Next
<1> QED BY <1>1, <1>2, PTL DEF Spec
=============================================================================
