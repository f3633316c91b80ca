----------------------------- MODULE MCOsdClient -----------------------------
EXTENDS OsdClient

Nearest == [o \in 1..NumOsds |-> IF o = 2 THEN 0 ELSE 1]

Healthy ==
    [pool |-> TRUE, tier |-> 0, acting |-> <<1, 2>>, pgn |-> 1, full |-> FALSE,
     poolfull |-> FALSE, pausewr |-> FALSE, pauserd |-> FALSE, resend |-> FALSE,
     up |-> {1, 2}, addr |-> <<1, 1>>]
Moved == [Healthy EXCEPT !.acting = <<2, 1>>]
Down == [Healthy EXCEPT !.acting = <<2>>, !.up = {2}]
Restarted == [Healthy EXCEPT !.addr = <<2, 1>>]
NoPrimary == [Healthy EXCEPT !.acting = <<>>]
Deleted == [Healthy EXCEPT !.pool = FALSE]
Split == [Healthy EXCEPT !.pgn = 2]
PoolFull == [Healthy EXCEPT !.poolfull = TRUE]
Paused == [Healthy EXCEPT !.pausewr = TRUE, !.pauserd = TRUE]
Tiered == [Healthy EXCEPT !.tier = 2]
Resend == [Healthy EXCEPT !.resend = TRUE]

AllFaults == {"cancel", "abort", "barrier", "map", "reset", "reopen", "overtake", "giveup",
              "garble", "backoff", "lose"}

W(o) == [kind |-> "write", obj |-> o]
Scenario(maps, io, linger) ==
    [maps |-> maps, io |-> io, linger |-> linger, keep |-> FALSE, timeout |-> FALSE,
     aof |-> FALSE, notifies |-> 0, faults |-> AllFaults]
Only(kinds, s) == [s EXCEPT !.faults = kinds]
Quiet(s) == Only({}, s)
Kept(s) == [s EXCEPT !.keep = TRUE]
Timing(s) == [s EXCEPT !.timeout = TRUE]
Aborting(s) == [s EXCEPT !.aof = TRUE]
Notified(s) == [s EXCEPT !.notifies = 1]

TwoWrites == <<W(1), W(1)>>
WriteAndRead == <<W(1), [kind |-> "lread", obj |-> 1]>>
Watching(maps) == Scenario(maps, <<>>, <<"watch">>)

\* A watch, while the OSD that has it restarts: it is lost, or a map fails.
RestartedUnderWatch ==
    Only({"lose", "map"}, Kept(Watching(<<Healthy, Down, Restarted>>)))

\* A pool that is deleted in the epoch after the one that gave a request its OSD.
DeletedAfterMapped == Scenario(<<NoPrimary, Healthy, Deleted, Deleted>>, <<W(1)>>, <<>>)

\* The second map of a message fails when the first has moved both writes.
LateMapError == Only({"map"}, Scenario(<<Healthy, Moved, Healthy>>, TwoWrites, <<>>))

Workloads ==
    {Scenario(maps, TwoWrites, <<>>) :
       maps \in {<<Healthy, Moved>>, <<NoPrimary, Healthy>>, <<Healthy, Down>>,
                 <<Healthy, Split>>, <<Healthy, PoolFull, Healthy>>, <<Paused, Healthy>>}}
    \cup {Scenario(maps, <<W(1)>>, <<>>) :
            maps \in {<<Healthy, Deleted>>, <<Deleted, Healthy>>,
                      <<Healthy, Down, Restarted>>}}
    \cup {Quiet(Scenario(<<Tiered, Healthy>>, TwoWrites, <<>>)),
          Timing(Scenario(<<Resend>>, WriteAndRead, <<>>)),
          Only({"reset", "garble", "map"}, Scenario(<<Healthy, Resend>>, WriteAndRead, <<>>))}
    \cup {Aborting(Scenario(maps, <<W(1)>>, <<>>)) :
            maps \in {<<Healthy, PoolFull>>, <<PoolFull>>}}
    \cup {Kept(Watching(maps)) : maps \in {<<Healthy, Down>>, <<Healthy, Deleted>>}}
    \cup {Only({"giveup"}, Watching(maps)) :
            maps \in {<<Healthy, Down>>, <<Healthy, Deleted>>}}
    \cup {Watching(<<Deleted>>), Watching(<<Healthy>>),
          Only({"lose", "reset", "giveup"}, Notified(Watching(<<Healthy>>))),
          Scenario(<<Healthy, Moved>>, <<>>, <<"notify">>)}
    \cup {RestartedUnderWatch, DeletedAfterMapped, LateMapError}
==============================================================================
