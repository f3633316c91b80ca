------------------------------ MODULE RbdStore ------------------------------
(***************************************************************************)
(* The RBD images of one SR (one Ceph namespace) as the control-plane      *)
(* backend of rbd_backend.py presents them: images, their snapshots, the   *)
(* copy-on-write parent of an image, and for every backend call what it    *)
(* needs to succeed and what it changes.  Ceph itself is not in this       *)
(* repository: these rules are the ones the callers in volume.py and       *)
(* rbd_gc.py rely on (clone format 1: a snapshot is cloned while it is     *)
(* protected, and it is unprotected only when nothing depends on it).      *)
(*                                                                         *)
(* Uuids are never reused, so an image or snapshot is identified for good  *)
(* by the uuid it was created with and only the name it is found under     *)
(* changes: "free" (not created yet), "uuid" (what SR.ls lists),           *)
(* "clonebase" (xcp-clonebase-..., snapshots only), "trash"                *)
(* (xcp-trash-...) and "gone".                                             *)
(***************************************************************************)
EXTENDS Naturals

CONSTANTS
  Image,        \* image identities
  Snap,         \* snapshot identities
  NoImage,      \* no image
  NoSnap,       \* no snapshot
  Deep,         \* the images created with the deep-flatten feature
  MaxFaults     \* bound on lost requests, lost replies and crashes

ASSUME StoreAssumption ==
  /\ NoImage \notin Image
  /\ NoSnap \notin Snap
  /\ Image \cap Snap = {}
  /\ Deep \subseteq Image
  /\ MaxFaults \in Nat

VARIABLES
  img,          \* img[i]: the name image i is found under
  parent,       \* parent[i]: the snapshot image i is a clone of, or NoSnap
  snap,         \* snap[s]: name, image, protection, and the parent it pins
  faults        \* faults injected so far

storeVars == <<img, parent, snap, faults>>

ImageName == {"free", "uuid", "trash", "gone"}
SnapName == {"free", "uuid", "clonebase", "trash", "gone"}
SnapRecord == [name : SnapName, img : Image \cup {NoImage}, prot : BOOLEAN,
               par : Snap \cup {NoSnap}]

StoreTypeOK ==
  /\ img \in [Image -> ImageName]
  /\ parent \in [Image -> Snap \cup {NoSnap}]
  /\ snap \in [Snap -> SnapRecord]
  /\ faults \in 0 .. MaxFaults

StoreInit ==
  /\ img = [i \in Image |-> "free"]
  /\ parent = [i \in Image |-> NoSnap]
  /\ snap = [s \in Snap |-> [name |-> "free", img |-> NoImage,
                             prot |-> FALSE, par |-> NoSnap]]
  /\ faults = 0

ImageExists(i) == img[i] \in {"uuid", "trash"}
SnapExists(s) == snap[s].name \in {"uuid", "clonebase", "trash"}
SnapsOf(i) == {s \in Snap : SnapExists(s) /\ snap[s].img = i}

\* The images list_children reports: a clone is a child of s as long as its
\* head, or one of its snapshots, still reads through s.
Children(s) ==
  {c \in Image : /\ ImageExists(c)
                 /\ \/ parent[c] = s
                    \/ \E t \in SnapsOf(c) : snap[t].par = s}

(***************************************************************************)
(* One backend call.  found: the object it names exists; allowed: Ceph     *)
(* accepts it.  r is what happened: "ok"; "nf" (RbdBackendError with       *)
(* not_found); "err" (any other RbdBackendError, nothing changed); or      *)
(* "lost" (the change was made but the caller sees an error).              *)
(***************************************************************************)
Results == {"ok", "nf", "err", "lost"}

Reply(found, allowed, r) ==
  \/ /\ \/ r = "ok" /\ found /\ allowed
        \/ r = "nf" /\ ~found
        \/ r = "err" /\ found /\ ~allowed
     /\ UNCHANGED faults
  \/ /\ \/ r = "err"
        \/ r = "lost" /\ found /\ allowed
     /\ faults < MaxFaults
     /\ faults' = faults + 1

Done(r) == r \in {"ok", "lost"}

(***************************************************************************)
(* What the calls change, when they are Done.                              *)
(***************************************************************************)
SnapCreated(s, i, name) ==
  [snap EXCEPT ![s] = [name |-> name, img |-> i, prot |-> FALSE,
                       par |-> parent[i]]]

SnapProtected(s, p) == [snap EXCEPT ![s].prot = p]
SnapNamed(s, name) == [snap EXCEPT ![s].name = name]
ImageNamed(i, name) == [img EXCEPT ![i] = name]

\* flatten: the head always stops reading through its parent; the
\* snapshots only when the image has deep-flatten.
SnapsFlattened(c) ==
  [s \in Snap |-> IF c \in Deep /\ snap[s].img = c
                  THEN [snap[s] EXCEPT !.par = NoSnap] ELSE snap[s]]

CanUnprotect(s) == snap[s].prot /\ Children(s) = {}
=============================================================================
