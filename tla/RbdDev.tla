------------------------------- MODULE RbdDev -------------------------------
(***************************************************************************)
(* The life of an rbd mapping (rbd.c): do_rbd_add with all its error       *)
(* labels, do_rbd_remove, open and close, the header refresh a watch       *)
(* notification starts, the reference counts on the shared ceph client, on *)
(* the parent chain of a clone and on the module, and the image header     *)
(* that other clients of the cluster change meanwhile.                     *)
(***************************************************************************)
EXTENDS Integers, FiniteSets, FiniteSetsExt, TLC

CONSTANTS Scenarios,   \* what is mapped and how often (bound), see the MC module
          Maps,        \* mapping slots: one do_rbd_add/do_rbd_remove at a time each
          MaxChain,    \* RBD_MAX_PARENT_CHAIN_LEN
          MaxClients,  \* bound: rbd_client structures ever allocated
          MaxFaults    \* bound: failing steps and lost watches

VARIABLES scen,    \* the scenario, chosen once
          img,     \* the header object in the cluster
          owed,    \* header updates made and not yet notified
          cl,      \* the rbd_clients: references and state
          cmutex,  \* client_mutex: the slot that holds it, or "free"
          dev,     \* per slot: the thread's place and the rbd_device
          mod,     \* references on the module
          faults,  \* failures so far
          oops     \* how memory was used after it was freed, or "no": the kernel
                   \* is not modelled any further

vars == <<scen, img, owed, cl, cmutex, dev, mod, faults, oops>>

Clients == 1..MaxClients

\* rbd_dev_refresh runs on notify_wq (one at a time), from watch_dwork once the watch
\* was registered again, and in a write to the sysfs attribute
Threads == {"notify", "dwork", "sysfs"}
Idle == [at |-> "no", old |-> 0, want |-> 0, size |-> 0]

\* an rbd_device that does not exist, and the call that may create one
NoDev ==
    [pc |-> "none", call |-> "none", adds |-> 0, cl |-> 0, made |-> FALSE,
     watch |-> "no", notif |-> 0, hdr |-> "free", size |-> 0, seq |-> 0,
     msize |-> 0, cap |-> 0, want |-> 0, ov |-> 0, pspec |-> FALSE, par |-> 0, pref |-> 0,
     disk |-> FALSE, exists |-> FALSE, removing |-> FALSE, frozen |-> FALSE,
     open |-> 0, io |-> 0, lay |-> 0, rf |-> [t \in Threads |-> Idle], writes |-> 0,
     stale |-> FALSE, cross |-> FALSE, freed |-> FALSE]

Init ==
    /\ scen \in Scenarios
    /\ img = [size |-> 2, seq |-> 1, clone |-> scen.depth > 0, ov |-> IF scen.depth > 0 THEN 2 ELSE 0,
              left |-> scen.changes]
    /\ owed = 0
    /\ cl = [c \in Clients |-> [ref |-> 0, st |-> "none"]]
    /\ cmutex = "free"
    /\ dev = [m \in Maps |-> NoDev]
    /\ mod = 0
    /\ faults = 0
    /\ oops = "no"

\* slot m goes on with the fields of f changed
Go(m, f) == dev' = [dev EXCEPT ![m] = f @@ @]

\* step s is reached by slot m; it may fail while the fault bound allows it
Alive == oops = "no"
At(m, s) == Alive /\ dev[m].pc = s
Fails(s) ==
    /\ s \in scen.fails
    /\ faults < MaxFaults
    /\ faults' = faults + 1

-----------------------------------------------------------------------------
(* The shared ceph client                                                  *)

\* rbd_client_find: a client on the list with the same options, unless noshare
Found == {c \in Clients : ~scen.noshare /\ cl[c].st \in {"listed", "dying"}}

\* kref_put: n references of c go away, the last one starts rbd_client_release
Dropped(c, n) ==
    [cl EXCEPT ![c].ref = @ - n, ![c].st = IF cl[c].ref = n THEN "dying" ELSE @]

\* do_rbd_add is called: the module is pinned
StartAdd(m) ==
    /\ At(m, "none")
    /\ m \in scen.maps
    /\ dev[m].adds < scen.adds
    /\ mod' = mod + 1
    /\ Go(m, [pc |-> "parse", call |-> "add", adds |-> dev[m].adds + 1])
    /\ UNCHANGED <<scen, img, owed, cl, cmutex, faults, oops>>

\* rbd_get_client takes client_mutex and looks for a client to share. kref_get
\* on a client whose last reference is gone revives memory about to be freed.
GetClient(m) ==
    /\ At(m, "find")
    /\ cmutex = "free"
    /\ cmutex' = m
    /\ \/ \E c \in Found :
            /\ cl' = [cl EXCEPT ![c].ref = @ + 1]
            /\ oops' = IF cl[c].st = "dying" THEN "revived" ELSE "no"
            /\ Go(m, [pc |-> "latest", cl |-> c])
       \/ /\ Found = {}
          /\ \E c \in Clients :
               /\ cl[c].st = "none"
               /\ \A e \in Clients : cl[e].st = "none" => c <= e
               /\ cl' = [cl EXCEPT ![c] = [ref |-> 1, st |-> "new"]]
               /\ Go(m, [pc |-> "open", cl |-> c])
          /\ UNCHANGED oops
    /\ UNCHANGED <<scen, img, owed, mod, faults>>

\* an existing client waits for the latest osdmap; failing, the reference is put
WaitLatest(m) ==
    /\ At(m, "latest")
    /\ \/ /\ cmutex' = "free"
          /\ Go(m, [pc |-> "pool"])
          /\ UNCHANGED <<cl, faults>>
       \/ /\ Fails("latest")
          /\ cl' = Dropped(dev[m].cl, 1)
          /\ cmutex' = IF cl[dev[m].cl].ref = 1 THEN m ELSE "free"
          /\ Go(m, IF cl[dev[m].cl].ref = 1 THEN [pc |-> "unlist"] ELSE [pc |-> "out", cl |-> 0])
    /\ UNCHANGED <<scen, img, owed, mod, oops>>

\* rbd_client_create opens the session before the client is listed
OpenSession(m) ==
    /\ At(m, "open")
    /\ cmutex' = "free"
    /\ \/ /\ cl' = [cl EXCEPT ![dev[m].cl].st = "listed"]
          /\ Go(m, [pc |-> "pool"])
          /\ UNCHANGED faults
       \/ /\ Fails("open")
          /\ cl' = [cl EXCEPT ![dev[m].cl] = [ref |-> 0, st |-> "gone"]]
          /\ Go(m, [pc |-> "out", cl |-> 0])
    /\ UNCHANGED <<scen, img, owed, mod, oops>>

\* rbd_put_client: the reference is dropped without client_mutex and without the
\* list lock; rbd_client_release takes the list lock only afterwards
PutClient(m) ==
    /\ At(m, "putclient")
    /\ \/ /\ ~dev[m].freed
          /\ cl' = Dropped(dev[m].cl, 1)
          /\ Go(m, IF cl[dev[m].cl].ref = 1 THEN [pc |-> "unlist"] ELSE [pc |-> "out", cl |-> 0])
          /\ UNCHANGED oops
       \/ /\ dev[m].freed
          /\ oops' = "twice"
          /\ UNCHANGED <<cl, dev>>
    /\ UNCHANGED <<scen, img, owed, cmutex, mod, faults>>

\* rbd_client_release: off the list, destroyed and freed; a release made inside
\* rbd_get_client then leaves client_mutex.
UnlistClient(m) ==
    /\ At(m, "unlist")
    /\ cl' = [cl EXCEPT ![dev[m].cl].st = "gone"]
    /\ cmutex' = IF cmutex = m THEN "free" ELSE cmutex
    /\ Go(m, [pc |-> "out", cl |-> 0])
    /\ UNCHANGED <<scen, img, owed, mod, faults, oops>>

\* the call returns; an add leaves the module reference it took
Return(m) ==
    /\ At(m, "out")
    /\ mod' = mod - (IF dev[m].call = "add" THEN 1 ELSE 0)
    /\ Go(m, [pc |-> "none", call |-> "none"])
    /\ UNCHANGED <<scen, img, owed, cl, cmutex, faults, oops>>

-----------------------------------------------------------------------------
(* do_rbd_add                                                              *)

\* a step of the add that only may fail: s, where it goes, where failing takes it
Step(m, s, next, undo) ==
    /\ At(m, s)
    /\ \/ Go(m, [pc |-> next]) /\ UNCHANGED faults
       \/ Fails(s) /\ Go(m, [pc |-> undo])
    /\ UNCHANGED <<scen, img, owed, cl, cmutex, mod, oops>>

\* rbd_add_parse_args: options, spec and ceph options, all given back on an error
ParseArgs(m) == Step(m, "parse", "find", "out")

\* ceph_pg_poolid_by_name
PickPool(m) == Step(m, "pool", "create", "putclient")

\* rbd_dev_create: the device owns the client reference. It fails when there is no
\* memory for it, or ("devid") when there is no id or no work queue: then
\* rbd_dev_free has put the client and freed the device with its spec and options,
\* and do_rbd_add does it again. (A client released here is gone at once: the second
\* put finds it freed, or the spec that it puts next.)
CreateDev(m) ==
    /\ At(m, "create")
    /\ \/ /\ mod' = mod + 1
          /\ Go(m, [pc |-> "imageid", made |-> TRUE])
          /\ UNCHANGED <<cl, faults>>
       \/ /\ Fails("alloc")
          /\ Go(m, [pc |-> "putclient"])
          /\ UNCHANGED <<cl, mod>>
       \/ /\ Fails("devid")
          /\ cl' = [cl EXCEPT ![dev[m].cl] =
                      [ref |-> @.ref - 1, st |-> IF @.ref = 1 THEN "gone" ELSE @.st]]
          /\ Go(m, [pc |-> "putclient", freed |-> TRUE])
          /\ UNCHANGED mod
    /\ UNCHANGED <<scen, img, owed, cmutex, oops>>

\* rbd_dev_image_id and rbd_dev_header_name; only a writable mapping needs a watch
ImageId(m) == Step(m, "imageid", IF scen.ro THEN "lockhdr" ELSE "watch", "destroy")

\* rbd_register_watch, before anything of the header is read
RegisterWatch(m) ==
    /\ At(m, "watch")
    /\ \/ Go(m, [pc |-> "lockhdr", watch |-> "on"]) /\ UNCHANGED faults
       \/ Fails("watch") /\ Go(m, [pc |-> "destroy"])
    /\ UNCHANGED <<scen, img, owed, cl, cmutex, mod, oops>>

\* down_write(header_rwsem)
LockHeader(m) ==
    /\ At(m, "lockhdr")
    /\ dev[m].hdr = "free"
    /\ Go(m, [pc |-> "size", hdr |-> "add"])
    /\ UNCHANGED <<scen, img, owed, cl, cmutex, mod, faults, oops>>

\* rbd_header_from_disk: a format 1 header holds the size and the snapshots
HeaderFromDisk == [size |-> img.size, seq |-> img.seq]

\* rbd_dev_v2_header_info, its first half: the size (and, once, the features). A
\* format 1 header is one object, read again until the number of snapshots it
\* shows is the number the buffer was made for (rbd_dev_v1_header_info).
SizeRead == IF scen.v1 THEN HeaderFromDisk ELSE [size |-> img.size]

HeaderSize(m) ==
    /\ At(m, "size")
    /\ \/ /\ \/ scen.v1 /\ dev[m].want # img.seq /\ Go(m, [want |-> img.seq])
             \/ /\ scen.v1 => dev[m].want = img.seq
                /\ Go(m, [pc |-> IF scen.v1 THEN "fill" ELSE "snapc", want |-> 0]
                             @@ SizeRead)
          /\ UNCHANGED faults
       \/ Fails("size") /\ Go(m, [pc |-> "uphdr"])
    /\ UNCHANGED <<scen, img, owed, cl, cmutex, mod, oops>>

\* rbd_dev_v2_header_info, its second half: the snapshot context
HeaderSnapc(m) ==
    /\ At(m, "snapc")
    /\ \/ Go(m, [pc |-> "fill", seq |-> img.seq]) /\ UNCHANGED faults
       \/ Fails("snapc") /\ Go(m, [pc |-> "uphdr"])
    /\ UNCHANGED <<scen, img, owed, cl, cmutex, mod, oops>>

\* rbd_dev_mapping_set: the size of the image, or of the snapshot that is mapped
MappingSet(d) == [msize |-> d.size]

\* rbd_spec_fill_snap_id finds the snapshot, then the mapping is set
FillSpec(m) ==
    /\ At(m, "fill")
    /\ \/ Go(m, [pc |-> "pinfo"] @@ MappingSet(dev[m])) /\ UNCHANGED faults
       \/ Fails("fill") /\ Go(m, [pc |-> "uphdr"])
    /\ UNCHANGED <<scen, img, owed, cl, cmutex, mod, oops>>

-----------------------------------------------------------------------------
(* The parent chain                                                        *)

\* rbd_dev_unparent: the parents go from the far end, each putting the client
Unparented(d) == [par |-> 0, pref |-> 0, pspec |-> FALSE, ov |-> 0] @@ d

\* a request that ends tears the parent down whatever else uses it
ParentPutAtOnce(d) == IF d.pspec THEN Unparented(d) ELSE d

\* rbd_dev_parent_put
ParentPut(d) ==
    IF ~d.pspec THEN d
    ELSE IF d.pref = 1 THEN Unparented(d)
    ELSE IF d.pref > 1 THEN [d EXCEPT !.pref = @ - 1] ELSE d

\* rbd_dev_v2_parent_info: a flattened image loses its overlap and the mapping's
\* own reference at once; otherwise the overlap is always taken over
ParentInfo(d) ==
    IF ~img.clone THEN IF d.ov > 0 THEN ParentPut([d EXCEPT !.ov = 0]) ELSE d
    ELSE [d EXCEPT !.pspec = TRUE, !.ov = img.ov]

\* the device becomes d; parents that went away put their client references
Becomes(m, d) ==
    /\ dev' = [dev EXCEPT ![m] = d]
    /\ cl' = IF d.par < dev[m].par THEN Dropped(dev[m].cl, dev[m].par - d.par) ELSE cl

ReadParent(m) ==
    /\ At(m, "pinfo")
    /\ \/ Becomes(m, [ParentInfo(dev[m]) EXCEPT !.pc = "chain"]) /\ UNCHANGED faults
       \/ Fails("pinfo") /\ Go(m, [pc |-> "uphdr"]) /\ UNCHANGED cl
    /\ UNCHANGED <<scen, img, owed, cmutex, mod, oops>>

\* rbd_dev_probe_parent, one level per step: a device that shares the client. The
\* recursion fails when the chain is too long, when a level has no memory and when
\* its probe fails; every level made so far is destroyed.
ProbeParent(m) ==
    /\ At(m, "chain")
    /\ LET d == dev[m]
           more == d.pspec /\ d.par < scen.depth
       IN  \/ /\ ~more
              /\ Go(m, [pc |-> "disk", pref |-> IF d.pspec THEN 1 ELSE 0])
              /\ UNCHANGED <<cl, faults>>
           \/ /\ more
              /\ d.par < MaxChain
              /\ cl' = [cl EXCEPT ![d.cl].ref = @ + 1]
              /\ Go(m, [par |-> d.par + 1])
              /\ UNCHANGED faults
           \/ /\ more
              /\ \/ d.par = MaxChain /\ UNCHANGED faults
                 \/ d.par < MaxChain /\ Fails("chain")
              /\ Becomes(m, [Unparented(d) EXCEPT !.pc = "uphdr"])
    /\ UNCHANGED <<scen, img, owed, cmutex, mod, oops>>

-----------------------------------------------------------------------------
(* Announcing the device, and taking it all back                           *)

\* rbd_dev_device_setup: the disk with its capacity, EXISTS, up_write
SetupDisk(m) ==
    /\ At(m, "disk")
    /\ \/ /\ Go(m, [pc |-> "lock", disk |-> TRUE, exists |-> TRUE, cap |-> dev[m].msize,
                    hdr |-> "free"])
          /\ UNCHANGED faults
       \/ /\ Fails("disk")
          /\ Go(m, [pc |-> "unwatch", hdr |-> "free"])
    /\ UNCHANGED <<scen, img, owed, cl, cmutex, mod, oops>>

\* rbd_add_acquire_lock
AcquireLock(m) == Step(m, "lock", "announce", "unlock")

\* device_add, device_add_disk and the device list
Announce(m) ==
    /\ At(m, "announce")
    /\ \/ /\ Go(m, [pc |-> "mapped", call |-> "none"])
          /\ mod' = mod - 1
          /\ UNCHANGED faults
       \/ /\ Fails("announce")
          /\ Go(m, [pc |-> "unlock"])
          /\ UNCHANGED mod
    /\ UNCHANGED <<scen, img, owed, cl, cmutex, oops>>

\* the watch is unregistered with the header still locked
UnlockHeaderLate(m) ==
    /\ At(m, "uphdr")
    /\ Go(m, [pc |-> "unwatch"])
    /\ UNCHANGED <<scen, img, owed, cl, cmutex, mod, faults, oops>>

\* err_out_probe: the header is unlocked before the watch is unregistered
UnlockHeader(m) ==
    /\ At(m, "uphdr")
    /\ Go(m, [pc |-> "unwatch", hdr |-> "free"])
    /\ UNCHANGED <<scen, img, owed, cl, cmutex, mod, faults, oops>>

\* rbd_dev_image_unlock and rbd_dev_device_release: EXISTS is cleared and the disk
\* freed once its queue has drained
ReleaseDevice(m) ==
    /\ At(m, "unlock")
    /\ dev[m].io + dev[m].lay = 0
    /\ Go(m, [pc |-> "unwatch", exists |-> FALSE, disk |-> FALSE])
    /\ UNCHANGED <<scen, img, owed, cl, cmutex, mod, faults, oops>>

\* rbd_unregister_watch: no more notifications, and those under way are waited for
Unwatch(m) ==
    /\ At(m, "unwatch")
    /\ Go(m, [pc |-> "flush", watch |-> "no"])
    /\ UNCHANGED <<scen, img, owed, cl, cmutex, mod, faults, oops>>

\* cancel_delayed_work_sync and ceph_osdc_flush_notifies
FlushNotifies(m) ==
    /\ At(m, "flush")
    /\ dev[m].notif = 0 /\ \A t \in Threads : dev[m].rf[t] = Idle
    /\ Go(m, [pc |-> "unprobe"])
    /\ UNCHANGED <<scen, img, owed, cl, cmutex, mod, faults, oops>>

\* rbd_dev_unprobe: the mapping's reference on the parent, then the header
Unprobe(m) ==
    /\ At(m, "unprobe")
    /\ Becomes(m, [ParentPut(dev[m]) EXCEPT !.pc = "destroy", !.size = 0, !.seq = 0, !.msize = 0,
                                            !.stale = FALSE])
    /\ UNCHANGED <<scen, img, owed, cmutex, mod, faults, oops>>

\* rbd_dev_destroy: the last reference on the device frees it, and an open file
\* holds one; do_rbd_remove returns then and the last close frees the device
Destroy(m) ==
    /\ At(m, "destroy")
    /\ Go(m, IF dev[m].open = 0 THEN [pc |-> "free"] ELSE [pc |-> "zombie", call |-> "none"])
    /\ UNCHANGED <<scen, img, owed, cl, cmutex, mod, faults, oops>>

\* rbd_dev_release and rbd_dev_free: the device's module reference goes, and its
\* client reference is put (rbd_put_client)
FreeDev(m) ==
    /\ At(m, "free")
    /\ mod' = mod - 1
    /\ cl' = Dropped(dev[m].cl, 1)
    /\ dev' = [dev EXCEPT ![m] =
                 [pc |-> IF cl[@.cl].ref = 1 THEN "unlist" ELSE "out", call |-> @.call,
                  adds |-> @.adds, cl |-> IF cl[@.cl].ref = 1 THEN @.cl ELSE 0] @@ NoDev]
    /\ UNCHANGED <<scen, img, owed, cmutex, faults, oops>>

-----------------------------------------------------------------------------
(* do_rbd_remove, open and close, requests                                 *)

\* -EBUSY for an open device unless forced; a second remover meets REMOVING
\* (-EINPROGRESS) or no device (-ENOENT) and changes nothing
StartRemove(m, force) ==
    /\ At(m, "mapped")
    /\ dev[m].open = 0 \/ force
    /\ Go(m, [pc |-> IF force THEN "freeze" ELSE "gendisk", call |-> "remove", removing |-> TRUE])
    /\ UNCHANGED <<scen, img, owed, cl, cmutex, mod, faults, oops>>

\* blk_mq_freeze_queue keeps new requests out and waits for those in flight
Freeze(m) ==
    /\ At(m, "freeze")
    /\ IF dev[m].frozen THEN dev[m].io + dev[m].lay = 0 /\ Go(m, [pc |-> "gendisk"])
                        ELSE Go(m, [frozen |-> TRUE])
    /\ UNCHANGED <<scen, img, owed, cl, cmutex, mod, faults, oops>>

\* del_gendisk, off the device list, device_del, which waits for the users of the
\* device's attributes
DelGendisk(m) ==
    /\ At(m, "gendisk")
    /\ dev[m].rf["sysfs"] = Idle
    /\ Go(m, [pc |-> "unlock"])
    /\ UNCHANGED <<scen, img, owed, cl, cmutex, mod, faults, oops>>

\* rbd_open fails once REMOVING is set
Open(m) ==
    /\ At(m, "mapped")
    /\ ~dev[m].removing
    /\ dev[m].open < scen.open
    /\ Go(m, [open |-> dev[m].open + 1])
    /\ UNCHANGED <<scen, img, owed, cl, cmutex, mod, faults, oops>>

\* rbd_release; the last close of a removed device frees it
Close(m) ==
    /\ Alive
    /\ dev[m].open > 0
    /\ Go(m, [open |-> dev[m].open - 1,
              pc |-> IF dev[m].pc = "zombie" /\ dev[m].open = 1 THEN "free" ELSE dev[m].pc])
    /\ UNCHANGED <<scen, img, owed, cl, cmutex, mod, faults, oops>>

\* a request captures the header under header_rwsem: layered when rbd_dev_parent_get
\* got a reference
Submit(m) ==
    /\ Alive
    /\ LET d == dev[m]
           layered == d.pspec /\ d.ov > 0
       IN  /\ d.open > 0 /\ d.exists /\ ~d.frozen
           /\ d.hdr = "free"
           /\ d.io + d.lay < scen.io
           /\ Go(m, IF layered THEN [lay |-> d.lay + 1, pref |-> d.pref + 1] ELSE [io |-> d.io + 1])
    /\ UNCHANGED <<scen, img, owed, cl, cmutex, mod, faults, oops>>

\* rbd_img_request_destroy: a layered request puts its parent reference, which
\* may tear the parent down while anything else runs
Complete(m) ==
    /\ Alive
    /\ \/ /\ dev[m].io > 0
          /\ Go(m, [io |-> dev[m].io - 1])
          /\ UNCHANGED cl
       \/ /\ dev[m].lay > 0
          /\ Becomes(m, ParentPut([dev[m] EXCEPT !.lay = @ - 1]))
    /\ UNCHANGED <<scen, img, owed, cmutex, mod, faults, oops>>

-----------------------------------------------------------------------------
(* The image changes, the watch tells, the header is refreshed             *)

\* another client resizes, snapshots or flattens the image
Change(kind) ==
    /\ Alive
    /\ img.left > 0
    /\ img' = [CASE kind = "grow" -> [img EXCEPT !.size = 3]
                 [] kind = "shrink" -> [img EXCEPT !.size = 1, !.ov = IF @ > 1 THEN 1 ELSE @]
                 [] kind = "empty" -> [img EXCEPT !.size = 0, !.ov = 0]
                 [] kind = "snap" -> [img EXCEPT !.seq = @ + 1]
                 [] kind = "flatten" -> [img EXCEPT !.clone = FALSE, !.ov = 0]
               EXCEPT !.left = @ - 1]
    /\ owed' = owed + 1
    /\ UNCHANGED <<scen, cl, cmutex, dev, mod, faults, oops>>

\* and notifies every client whose watch stands
Notify ==
    /\ Alive
    /\ owed > 0
    /\ owed' = owed - 1
    /\ dev' = [m \in Maps |-> IF dev[m].watch = "on" THEN [dev[m] EXCEPT !.notif = @ + 1] ELSE dev[m]]
    /\ UNCHANGED <<scen, img, cl, cmutex, mod, faults, oops>>

\* the watch is lost; what is notified meanwhile is not heard
LoseWatch(m) ==
    /\ Alive
    /\ dev[m].watch = "on"
    /\ Fails("lose")
    /\ Go(m, [watch |-> "lost"])
    /\ UNCHANGED <<scen, img, owed, cl, cmutex, mod, oops>>

\* thread t of m goes on with the fields of f changed, the device with those of g
GoRefresh(m, t, f, g) ==
    dev' = [dev EXCEPT ![m] = g @@ [@ EXCEPT !.rf[t] = f @@ @]]

\* the watch stands again, and no refresh
ReregisterWatchOnly(m) ==
    /\ Alive
    /\ dev[m].watch = "lost"
    /\ dev[m].rf["notify"] = Idle /\ dev[m].rf["dwork"] = Idle
    /\ Go(m, [watch |-> "on", notif |-> 0])
    /\ UNCHANGED <<scen, img, owed, cl, cmutex, mod, faults, oops>>

\* rbd_watch_errcb, on notify_wq, drops the old watch and with it the notifications
\* behind the error; rbd_reregister_watch refreshes once the new watch stands
ReregisterWatch(m) ==
    /\ Alive
    /\ dev[m].watch = "lost"
    /\ dev[m].rf["notify"] = Idle /\ dev[m].rf["dwork"] = Idle
    /\ GoRefresh(m, "dwork", [at |-> "lock"], [watch |-> "on", notif |-> 0])
    /\ UNCHANGED <<scen, img, owed, cl, cmutex, mod, faults, oops>>

\* rbd_watch_cb, and rbd_image_refresh while the device has its attributes
NotifyRefresh(m) ==
    /\ Alive
    /\ dev[m].notif > 0 /\ dev[m].rf["notify"] = Idle
    /\ GoRefresh(m, "notify", [at |-> "lock"], [notif |-> dev[m].notif - 1])
    /\ UNCHANGED <<scen, img, owed, cl, cmutex, mod, faults, oops>>

ImageRefresh(m) ==
    /\ Alive
    /\ dev[m].pc \in {"mapped", "freeze", "gendisk"}
    /\ dev[m].writes < scen.writes /\ dev[m].rf["sysfs"] = Idle
    /\ GoRefresh(m, "sysfs", [at |-> "lock"], [writes |-> dev[m].writes + 1])
    /\ UNCHANGED <<scen, img, owed, cl, cmutex, mod, faults, oops>>

\* rbd_dev_refresh: the header is locked for write, then read piece by piece
LockRefresh(m, t) ==
    /\ Alive
    /\ dev[m].rf[t].at = "lock" /\ dev[m].hdr = "free"
    /\ GoRefresh(m, t, [at |-> "size", old |-> dev[m].msize], [hdr |-> t])
    /\ UNCHANGED <<scen, img, owed, cl, cmutex, mod, faults, oops>>

\* a refresh that fails unlocks the header as far as it was read; nobody retries it
RefreshFails(m, t) == GoRefresh(m, t, Idle, [hdr |-> "free", stale |-> TRUE])

RefreshSize(m, t) ==
    /\ Alive
    /\ dev[m].rf[t].at = "size"
    /\ \/ /\ \/ /\ scen.v1 /\ dev[m].rf[t].want # img.seq
                /\ GoRefresh(m, t, [want |-> img.seq], << >>)
             \/ /\ scen.v1 => dev[m].rf[t].want = img.seq
                /\ GoRefresh(m, t, [at |-> IF scen.v1 THEN "parent" ELSE "snapc", want |-> 0],
                             SizeRead)
          /\ UNCHANGED faults
       \/ Fails("rsize") /\ RefreshFails(m, t)
    /\ UNCHANGED <<scen, img, owed, cl, cmutex, mod, oops>>

RefreshSnapc(m, t) ==
    /\ Alive
    /\ dev[m].rf[t].at = "snapc"
    /\ \/ GoRefresh(m, t, [at |-> "parent"], [seq |-> img.seq]) /\ UNCHANGED faults
       \/ Fails("rsnapc") /\ RefreshFails(m, t)
    /\ UNCHANGED <<scen, img, owed, cl, cmutex, mod, oops>>

\* only a device that has a parent asks whether it still has. That it has none any
\* more is logged with the name of the disk, which an unmap may have freed.
RefreshParent(m, t) ==
    /\ Alive
    /\ dev[m].rf[t].at = "parent"
    /\ \/ /\ dev[m].par > 0
          /\ Becomes(m, [ParentInfo(dev[m]) EXCEPT !.rf[t].at = "done"])
          /\ oops' = IF ~img.clone /\ dev[m].ov > 0 /\ ~dev[m].disk THEN "disk" ELSE "no"
          /\ UNCHANGED faults
       \/ /\ dev[m].par = 0
          /\ GoRefresh(m, t, [at |-> "done"], << >>)
          /\ UNCHANGED <<cl, faults, oops>>
       \/ dev[m].par > 0 /\ Fails("rparent") /\ RefreshFails(m, t) /\ UNCHANGED <<cl, oops>>
    /\ UNCHANGED <<scen, img, owed, cmutex, mod>>

\* the refreshes that have dropped the lock and may still set the capacity
Resizing(d) == {t \in Threads : d.rf[t].at \in {"compare", "check", "cap"}}

\* mapping.size, up_write. cross: the last refresh that changed the size was not the
\* only one behind its up_write
RefreshDone(m, t) ==
    /\ Alive
    /\ dev[m].rf[t].at = "done"
    /\ GoRefresh(m, t, [at |-> "compare"],
                 [msize |-> dev[m].size, hdr |-> "free", stale |-> FALSE,
                  cross |-> \/ Resizing(dev[m]) # {}
                            \/ dev[m].cross /\ dev[m].size = dev[m].rf[t].old])
    /\ UNCHANGED <<scen, img, owed, cl, cmutex, mod, faults, oops>>

\* the mapping's size is compared with what it was, with no lock held
CompareSize(m, t) ==
    /\ Alive
    /\ dev[m].rf[t].at = "compare"
    /\ IF dev[m].rf[t].old = dev[m].msize THEN GoRefresh(m, t, Idle, << >>)
       ELSE GoRefresh(m, t, [at |-> "check", old |-> 0], << >>)
    /\ UNCHANGED <<scen, img, owed, cl, cmutex, mod, faults, oops>>

\* rbd_dev_update_size: the flags and the size are read, then the capacity is set,
\* with no lock held (set_capacity_and_notify)
UpdateSize(m, t) ==
    /\ Alive
    /\ dev[m].rf[t].at = "check"
    /\ IF dev[m].exists /\ ~dev[m].removing
       THEN GoRefresh(m, t, [at |-> "cap", size |-> dev[m].msize], << >>)
       ELSE GoRefresh(m, t, Idle, << >>)
    /\ UNCHANGED <<scen, img, owed, cl, cmutex, mod, faults, oops>>

SetCapacity(m, t) ==
    /\ Alive
    /\ dev[m].rf[t].at = "cap"
    /\ \/ /\ dev[m].disk
          /\ GoRefresh(m, t, Idle, [cap |-> dev[m].rf[t].size])
          /\ UNCHANGED oops
       \/ /\ ~dev[m].disk
          /\ oops' = "disk"
          /\ UNCHANGED dev
    /\ UNCHANGED <<scen, img, owed, cl, cmutex, mod, faults>>

-----------------------------------------------------------------------------
(* The specification                                                       *)

\* what the thread inside do_rbd_add, do_rbd_remove or the last close does next
CallStep(m) ==
    \/ ParseArgs(m) \/ GetClient(m) \/ WaitLatest(m) \/ OpenSession(m) \/ PutClient(m) \/ UnlistClient(m)
    \/ Return(m) \/ PickPool(m) \/ CreateDev(m) \/ ImageId(m) \/ RegisterWatch(m) \/ LockHeader(m)
    \/ HeaderSize(m) \/ HeaderSnapc(m) \/ FillSpec(m) \/ ReadParent(m) \/ ProbeParent(m)
    \/ SetupDisk(m) \/ AcquireLock(m) \/ Announce(m) \/ UnlockHeader(m) \/ ReleaseDevice(m)
    \/ Unwatch(m) \/ FlushNotifies(m) \/ Unprobe(m) \/ Destroy(m) \/ FreeDev(m)
    \/ Freeze(m) \/ DelGendisk(m)

\* what a thread in rbd_dev_refresh does next
RefreshStep(m, t) ==
    \/ LockRefresh(m, t) \/ RefreshSize(m, t) \/ RefreshSnapc(m, t) \/ RefreshParent(m, t)
    \/ RefreshDone(m, t) \/ CompareSize(m, t) \/ UpdateSize(m, t) \/ SetCapacity(m, t)

Next ==
    \/ Notify
    \/ \E kind \in scen.kinds : Change(kind)
    \/ \E m \in Maps :
         \/ StartAdd(m) \/ CallStep(m) \/ NotifyRefresh(m) \/ ImageRefresh(m)
         \/ \E t \in Threads : RefreshStep(m, t)
         \/ \E force \in BOOLEAN : StartRemove(m, force)
         \/ Open(m) \/ Close(m) \/ Submit(m) \/ Complete(m)
         \/ LoseWatch(m) \/ ReregisterWatch(m)

Spec == Init /\ [][Next]_vars

\* the threads run, the cluster answers every request, the lost watch is retried
FairSpec ==
    /\ Spec
    /\ \A m \in Maps : /\ WF_vars(CallStep(m)) /\ WF_vars(Complete(m)) /\ WF_vars(NotifyRefresh(m))
                       /\ \A t \in Threads : WF_vars(RefreshStep(m, t))

-----------------------------------------------------------------------------
(* Properties                                                              *)

\* Types and bounds of the state; the counters of rbd_device and rbd_client never
\* go below zero.
TypeOK ==
    /\ cl \in [Clients -> [ref : 0..(Cardinality(Maps) * (MaxChain + 2)),
                           st : {"none", "new", "listed", "dying", "gone"}]]
    /\ cmutex \in Maps \cup {"free"}
    /\ mod \in 0..(2 * Cardinality(Maps))
    /\ \A m \in Maps :
         LET d == dev[m]
         IN  /\ d.cl \in 0..MaxClients /\ d.hdr \in {"free", "add"} \cup Threads
             /\ d.par \in 0..MaxChain /\ d.pref \in 0..(scen.io + 1)
             /\ d.open \in 0..scen.open /\ d.io \in 0..scen.io /\ d.lay \in 0..scen.io
             /\ d.watch \in {"no", "on", "lost"} /\ d.notif \in Nat

\* Every reference is accounted for, whatever step of do_rbd_add fails and however
\* adds, removals and closes interleave: a client has one reference per call or
\* device that holds it and one per parent device (none for the caller whose
\* reference rbd_dev_free put), the module one per add under way and one per mapped
\* device.
RefsExact ==
    /\ \A c \in Clients :
         cl[c].ref = MapThenSumSet(LAMBDA m : IF dev[m].cl # c \/ dev[m].freed THEN 0
                                              ELSE dev[m].par + (IF dev[m].pc = "unlist" THEN 0 ELSE 1),
                                   Maps)
    /\ mod = Cardinality({m \in Maps : dev[m].call = "add"})
              + Cardinality({m \in Maps : dev[m].made})

\* Freed memory is used in three ways only: rbd_client_find took a client whose
\* last reference was put and whose release had yet to take it off the list; an add
\* failed in __rbd_dev_create, which put and freed what do_rbd_add then puts and
\* frees; or a refresh used the disk (its name or its capacity) of a mapping that
\* freed the disk, or never got one, before it unregistered the watch.
OopsKnown ==
    /\ oops = "revived" => \E m \in Maps : dev[m].pc = "unlist"
    /\ oops = "twice" => \E m \in Maps : dev[m].freed
    /\ oops = "disk" => \E m \in Maps : /\ dev[m].pc \in {"unwatch", "flush"}
                                       /\ \E t \in Threads : dev[m].rf[t] # Idle

\* The header follows the image: once every update was notified and refreshed, a
\* mapping whose watch stands shows the image's size, snapshot context and
\* overlap, and the disk has that capacity. Updates made during the probe, while
\* the watch was lost or between the pieces of one refresh are not missed, and
\* refreshes of the notification, of the new watch and of the administrator may run
\* at once. (A refresh that fails is not retried: the mapping is stale until the
\* next one. The capacity is set with no lock held: when two refreshes were behind
\* their up_write at once, an older size may stand until the size changes again.)
HeaderFollows ==
    \A m \in Maps :
      LET d == dev[m]
      IN  (/\ d.pc = "mapped" /\ d.watch = "on" /\ d.notif = 0 /\ owed = 0
           /\ \A t \in Threads : d.rf[t] = Idle
           /\ ~d.stale)
          => /\ d.size = img.size /\ d.msize = img.size /\ (d.cross \/ d.cap = img.size)
             /\ d.seq = img.seq /\ d.ov = img.ov

\* The parents outlive the requests that read through them: a layered request in
\* flight finds the whole chain, although a flatten seen by a refresh takes the
\* mapping's own reference away and another request's end may be the last put. A
\* chain nobody references is gone.
ParentsHeld ==
    \A m \in Maps :
      LET d == dev[m]
      IN  /\ d.lay > 0 => d.par = scen.depth /\ d.pref >= d.lay
          /\ d.exists /\ d.par > 0 => d.pref > 0
          /\ d.exists /\ d.ov > 0 => d.pref = d.lay + 1

\* A device is freed quiet: no watch, no notification queued, no refresh running,
\* no request in flight, no parent, no disk, nobody holding header_rwsem. That is
\* what rbd_dev_free's WARN_ONs ask and what the refresh thread relies on.
FreedQuiet ==
    \A m \in Maps :
      LET d == dev[m]
      IN  d.pc = "free" =>
            /\ d.watch = "no" /\ d.notif = 0 /\ d.hdr = "free" /\ \A t \in Threads : d.rf[t] = Idle
            /\ d.io + d.lay = 0 /\ d.par = 0 /\ ~d.disk /\ d.open = 0

\* An unforced unmap never takes a device from under an open file: while someone
\* has the device open its disk exists, unless the removal was forced.
OpenHasDisk ==
    \A m \in Maps : dev[m].open > 0 /\ ~dev[m].frozen => dev[m].disk

\* Every do_rbd_add and do_rbd_remove returns: no step waits for a lock that its
\* own caller holds (unregistering the watch flushes notifications that need
\* header_rwsem), whatever failed before and whatever refreshes run, until freed
\* memory is used.
CallsReturn ==
    \A m \in Maps : dev[m].call # "none" ~> (dev[m].call = "none" \/ ~Alive)

\* The bookkeeping of the devices: their types, references, parents, disks, and
\* what is left of a device when it is freed, and how freed memory may be used.
DevStateSound == TypeOK /\ RefsExact /\ OopsKnown /\ ParentsHeld /\ FreedQuiet /\ OpenHasDisk
=============================================================================
