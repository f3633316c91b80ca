---------------------------- MODULE MCMessenger ----------------------------
(* Connections to check: one of each kind, with a few messages and faults.   *)
EXTENDS Messenger

\* A peer that exchanges sequence numbers, and authenticates in two rounds, is
\* checked where it also sends a message. A lossless msgr1 connection is not opened
\* again and then hit by a fault.
Scen(v1, lossy, msgs, replies, f) ==
    [v1 |-> v1, lossy |-> lossy, seqx |-> replies = 1, more |-> replies = 1,
     reopen |-> lossy \/ ~v1 \/ f < 2,
     msgs |-> msgs, replies |-> replies, faults |-> f]

\* Lossless sessions, which the protocol is made for, and lossy ones, which monitors
\* and OSDs offer: with one fault of every kind at every moment, with two faults, and
\* without faults; senders are preempted anywhere.
Some ==
    UNION {{Scen(v1, FALSE, 1, 1, 1), Scen(v1, FALSE, 2, 0, 1), Scen(v1, FALSE, 0, 2, 1),
            Scen(v1, TRUE, 1, 1, 1), Scen(v1, FALSE, 1, 0, 2), Scen(v1, FALSE, 0, 1, 2),
            Scen(v1, FALSE, 2, 0, 0), Scen(v1, TRUE, 2, 0, 0)} : v1 \in BOOLEAN}
=============================================================================
