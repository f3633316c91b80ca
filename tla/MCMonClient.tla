---------------------------- MODULE MCMonClient ----------------------------
(* Monitor clients to check. Monitors are numbers; the map that the options give *)
(* may differ from the monitors' own.                                          *)
EXTENDS MonClient

Base ==
    [msgr2 |-> FALSE, keyed |-> TRUE, refuse |-> FALSE, nautilus |-> TRUE, legacy |-> FALSE,
     init |-> <<1, 2>>, maps |-> <<1, 2>>, down |-> {}, call |-> TRUE, share |-> FALSE, stop |-> FALSE,
     check |-> FALSE, osd |-> FALSE, late |-> 0, faults |-> 0, rot |-> 1, epochs |-> 1]

\* The session is replaced or closed while the messenger's worker holds an answer
Racing == {[Base EXCEPT !.msgr2 = v, !.keyed = k, !.stop = TRUE, !.late = 1] : v \in BOOLEAN, k \in BOOLEAN}
\* An OSD shares a map and the session is lost
Sharing == {[Base EXCEPT !.share = TRUE, !.faults = 1, !.epochs = 2]}

\* Per kind of session: a fault and a late timer; a monitor that is down and a new monitor
\* map; maps shared by OSDs; tickets that are renewed and expire; clients that are
\* not let in; callers interrupted and clients destroyed
Kinds == {[Base EXCEPT !.msgr2 = v] : v \in BOOLEAN}
Old == [Base EXCEPT !.nautilus = FALSE, !.legacy = TRUE]
Some ==
    UNION {{[k EXCEPT !.faults = 1, !.late = 1],
            [k EXCEPT !.faults = 2, !.maps = <<2>>, !.down = {1}],
            [k EXCEPT !.share = TRUE, !.epochs = 2]} : k \in Kinds \cup {Old}}
        \cup UNION {{[k EXCEPT !.osd = TRUE, !.call = FALSE, !.faults = 1, !.rot = 2],
                    [k EXCEPT !.osd = TRUE, !.call = FALSE, !.rot = 3],
                    [k EXCEPT !.keyed = FALSE, !.osd = TRUE, !.faults = 1, !.call = FALSE],
                    [k EXCEPT !.refuse = TRUE, !.faults = 1],
                    [k EXCEPT !.stop = TRUE, !.check = TRUE, !.faults = 1]} : k \in Kinds}
        \cup Racing \cup Sharing
        \cup {[Old EXCEPT !.osd = TRUE, !.call = FALSE, !.rot = 2]}
OnlyOsd == {"OSD"}

=============================================================================
