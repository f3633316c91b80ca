------------------------------ MODULE MCRbdDev ------------------------------
(***************************************************************************)
(* Mappings for TLC: two slots that share a client (or must not), a clone  *)
(* whose image changes under its mapping, a format 1 image, and a chain of *)
(* parents longer than the limit.                                          *)
(***************************************************************************)
EXTENDS RbdDev

\* the steps that may fail
FailSteps ==
    {"parse", "latest", "open", "pool", "alloc", "devid", "imageid", "watch", "size", "snapc", "fill", "pinfo", "chain",
     "disk", "lock", "announce", "lose", "rsize", "rsnapc", "rparent"}

None == [maps |-> {"a"}, ro |-> FALSE, noshare |-> FALSE, v1 |-> FALSE, depth |-> 0, changes |-> 0,
         kinds |-> {}, adds |-> 1, writes |-> 0, open |-> 1, io |-> 2, fails |-> FailSteps]

Sharing  == [maps |-> {"a", "b"}, ro |-> TRUE, depth |-> 1] @@ None
Apart    == [maps |-> {"a", "b"}, ro |-> TRUE, noshare |-> TRUE] @@ None
Cloned   == [depth |-> 1, changes |-> 2, kinds |-> {"empty", "snap", "flatten"},
             fails |-> {"chain", "disk", "announce", "rsnapc", "rparent"}] @@ None
Unheard  == [depth |-> 1, changes |-> 1, kinds |-> {"grow", "snap", "flatten"}, writes |-> 1, open |-> 0,
             fails |-> {"lose"}] @@ None
Resized  == [changes |-> 2, kinds |-> {"grow", "shrink"}, writes |-> 1, open |-> 0,
             fails |-> {"rsize"}] @@ None
Oldimage == [v1 |-> TRUE, adds |-> 2, changes |-> 1, kinds |-> {"grow", "shrink", "snap"}] @@ None
Deep     == [depth |-> 2, ro |-> TRUE] @@ None
TooDeep  == [depth |-> 3, ro |-> TRUE] @@ None

Mappings == {Sharing, Apart, Cloned, Unheard, Resized, Oldimage, Deep, TooDeep}
Shared   == {Sharing}
=============================================================================
