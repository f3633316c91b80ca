------------------------------- MODULE RbdLock -------------------------------
(* The exclusive lock of an rbd image, as rbd.c's mapped devices negotiate it:  *)
(* the cls_lock on the header object, the watch that proves its holder alive,  *)
(* the three notifications, and the ordered workqueue of each device.          *)
(*                                                                             *)
(* One device per client. The cluster (lock, watchers, blocklist, notify) is    *)
(* external; every call a device makes to it is one step, and lock_rwsem held   *)
(* for write across such a call is the field sem.                              *)
EXTENDS Naturals, Sequences, FiniteSets, Functions

CONSTANTS
    Client,      \* the clients, each with the image mapped at most once
    Exclusive,   \* the clients that map it with the exclusive option
    MaxReqs,     \* bound: image requests issued per device
    MaxWatches,  \* bound: watch registrations per device
    MaxFaults    \* bound: watches lost, crashes, spurious timeouts, failed opens

ASSUME LockConstants == Exclusive \subseteq Client /\ "none" \notin Client

NoCid == <<"none", 0>>
Cid == Client \X (1..MaxWatches)
Errors == {"EROFS", "EBLOCKLISTED", "EMAP"}

VARIABLES
    dev,        \* dev[d]: struct rbd_device, its lock part, and its workqueue
    holder,     \* the locker of the header object: NoCid or a (client, cookie)
    watchers,   \* the watchers of the header object
    blocklist,  \* the clients whose address is blocklisted
    notify,     \* notify[d]: the notification d is waiting on
    faults      \* faults so far

vars == <<dev, holder, watchers, blocklist, notify, faults>>

Work == {"acquired", "released", "lock", "unlock", "watch"}

NoNotify == [op |-> "none", cid |-> NoCid, to |-> {}, acks |-> <<>>]

\* A device before rbd map: what __rbd_dev_create initialises.
NewDev ==
    [st |-> "off", bug |-> FALSE,
     lock |-> "UNLOCKED", cookie |-> 0, owner |-> NoCid,
     watch |-> "UNREGISTERED", wcookie |-> 0,
     acquiring |-> 0, sched |-> 0, failed |-> 0, io |-> 0, issued |-> 0,
     q |-> <<>>, timer |-> {}, task |-> "none", pc |-> "none",
     locker |-> NoCid, sem |-> FALSE, waitDone |-> FALSE, waitErr |-> "none",
     releasing |-> 0, cancelled |-> 0]

TypeOK ==
    /\ \A d \in Client :
          /\ dev[d].st \in {"off", "adding", "givingup", "up", "unlocking",
                            "cancelling", "flushing", "gone", "dead"}
          /\ dev[d].lock \in {"UNLOCKED", "LOCKED", "RELEASING"}
          /\ dev[d].cookie \in 0..MaxWatches
          /\ dev[d].owner \in Cid \union {NoCid}
          /\ dev[d].watch \in {"UNREGISTERED", "REGISTERED", "ERROR"}
          /\ dev[d].wcookie \in 0..MaxWatches
          /\ {dev[d].acquiring, dev[d].sched, dev[d].failed, dev[d].io,
              dev[d].issued} \subseteq 0..MaxReqs
          /\ Range(dev[d].q) \subseteq Work
          /\ IsInjective(dev[d].q)
          /\ dev[d].timer \subseteq {"lock", "watch"}
          /\ dev[d].task \in Work \union {"none"}
          /\ dev[d].locker \in Cid \union {NoCid}
          /\ dev[d].waitErr \in Errors \union {"none"}
          /\ dev[d].releasing \in Nat /\ dev[d].cancelled \in 0..4
    /\ holder \in Cid \union {NoCid}
    /\ watchers \subseteq Cid
    /\ blocklist \subseteq Client
    /\ \A d \in Client :
          /\ notify[d].op \in {"none", "acquired", "released", "request"}
          /\ notify[d].to \subseteq Cid
    /\ faults \in 0..MaxFaults

------------------------------------------------------------------------------
\* The kernel's work items: a work item is pending at most once, and task_wq is
\* an ordered workqueue.

Pending(r, w) == w \in Range(r.q) \union r.timer

\* cancel_delayed_work, cancel_work: a pending item is dropped, a running one not.
Cancel(r, w) ==
    [r EXCEPT !.q = SelectSeq(@, LAMBDA x : x # w), !.timer = @ \ {w}]

\* queue_work, and queue_delayed_work with no delay.
Queue(r, w) == IF Pending(r, w) THEN r ELSE [r EXCEPT !.q = Append(@, w)]

\* mod_delayed_work with no delay, and with one.
Kick(r, w) == [Cancel(r, w) EXCEPT !.q = Append(@, w)]
Delay(r, w) == [Cancel(r, w) EXCEPT !.timer = @ \union {w}]

\* The end of a work function that holds lock_rwsem or not.
Finish(r) ==
    [r EXCEPT !.task = "none", !.pc = "none", !.sem = FALSE, !.locker = NoCid]

\* rbd_assert() fails: BUG(), which takes the machine down.
Bug(r) == [Finish(r) EXCEPT !.bug = TRUE, !.st = "dead"]

Live(d) == dev[d].st \notin {"off", "gone", "dead"}

\* __rbd_is_lock_owner
IsOwner(r) == r.lock \in {"LOCKED", "RELEASING"}

\* rbd_get_cid
MyCid(d) == IF dev[d].wcookie = 0 THEN NoCid ELSE <<d, dev[d].wcookie>>

\* The length of running_list.
Running(r) == r.sched + r.failed + r.io

\* __rbd_lock
Locked(d, r) ==
    Queue([r EXCEPT !.lock = "LOCKED", !.cookie = r.wcookie,
                    !.owner = <<d, r.wcookie>>], "acquired")

\* rbd_unlock, after the call to the cluster; its errors are ignored.
Unlocked(r) ==
    Queue([r EXCEPT !.lock = "UNLOCKED", !.cookie = 0, !.owner = NoCid],
          "released")

\* wake_lock_waiters: either rbd map, or every request of acquiring_list.
WakeLockWaiters(r, err) ==
    LET c == Cancel(r, "lock") IN
    IF ~r.waitDone
    THEN IF r.acquiring + Running(r) > 0 THEN Bug(r)
         ELSE [c EXCEPT !.waitDone = TRUE, !.waitErr = err]
    ELSE IF err = "none"
         THEN [c EXCEPT !.sched = @ + r.acquiring, !.acquiring = 0]
         ELSE [c EXCEPT !.failed = @ + r.acquiring, !.acquiring = 0]

\* The list is looked at before the request has left it.
DelRequestBefore(r) ==
    IF r.lock = "RELEASING" /\ Running(r) = 1
    THEN [r EXCEPT !.releasing = @ + 1] ELSE r

\* rbd_lock_del_request, after the request has left its list.
DelRequest(r) ==
    IF r.lock = "RELEASING" /\ Running(r) = 0
    THEN [r EXCEPT !.releasing = @ + 1] ELSE r

\* ceph_cls_unlock by (d, cookie): the OSD drops that locker, or says ENOENT.
ClsUnlock(d, cookie) ==
    holder' = IF holder = <<d, cookie>> /\ d \notin blocklist
              THEN NoCid ELSE holder

Set(d, r) == dev' = [dev EXCEPT ![d] = r]

Fault == faults < MaxFaults /\ faults' = faults + 1

Init ==
    /\ dev = [d \in Client |-> NewDev]
    /\ holder = NoCid
    /\ watchers = {}
    /\ blocklist = {}
    /\ notify = [d \in Client |-> NoNotify]
    /\ faults = 0

------------------------------------------------------------------------------
\* rbd map and rbd unmap.

\* do_rbd_add: rbd_register_watch (from rbd_dev_image_probe), and then
\* rbd_add_acquire_lock up to its wait.
Map(d) ==
    /\ dev[d].st = "off"
    /\ Set(d, Queue([dev[d] EXCEPT !.st = "adding", !.watch = "REGISTERED",
                                   !.wcookie = 1], "lock"))
    /\ watchers' = watchers \union {<<d, 1>>}
    /\ UNCHANGED <<holder, blocklist, notify, faults>>

\* rbd_add_acquire_lock: the wait ends because the waiters were woken.
AddWoken(d) ==
    LET r == dev[d] IN
    /\ r.st = "adding" /\ r.waitDone
    /\ Set(d, IF r.waitErr # "none" THEN [r EXCEPT !.st = "unlocking"]
              ELSE IF d \in Exclusive /\ ~IsOwner(r) THEN Bug(r)
              ELSE [r EXCEPT !.st = "up"])
    /\ UNCHANGED <<holder, watchers, blocklist, notify, faults>>

\* rbd_add_acquire_lock: the wait times out or is killed.
AddGivesUp(d) ==
    /\ dev[d].st = "adding"
    /\ Set(d, [dev[d] EXCEPT !.st = "givingup"])
    /\ UNCHANGED <<holder, watchers, blocklist, notify, faults>>

\* ... cancel_delayed_work_sync then waits for a running lock_dwork.
AddCancelled(d) ==
    /\ dev[d].st = "givingup" /\ dev[d].task # "lock"
    /\ Set(d, [Cancel(dev[d], "lock") EXCEPT !.st = "unlocking"])
    /\ UNCHANGED <<holder, watchers, blocklist, notify, faults>>

\* do_rbd_remove up to del_gendisk: no request is outstanding after it.
Unmap(d) ==
    /\ dev[d].st = "up" /\ dev[d].acquiring + Running(dev[d]) = 0
    /\ Set(d, [dev[d] EXCEPT !.st = "unlocking"])
    /\ UNCHANGED <<holder, watchers, blocklist, notify, faults>>

\* rbd_dev_image_unlock
ImageUnlock(d) ==
    LET r == dev[d] IN
    /\ r.st = "unlocking" /\ ~r.sem
    /\ IF IsOwner(r)
       THEN IF Running(r) > 0
            THEN Set(d, Bug(r)) /\ UNCHANGED holder
            ELSE /\ Set(d, [Unlocked(r) EXCEPT !.st = "cancelling"])
                 /\ ClsUnlock(d, r.cookie)
       ELSE Set(d, [r EXCEPT !.st = "cancelling"]) /\ UNCHANGED holder
    /\ UNCHANGED <<watchers, blocklist, notify, faults>>

\* cancel_tasks_sync: each item in turn, waiting for it when it is running.
CancelOrder == <<"acquired", "released", "lock", "unlock">>

CancelTask(d) ==
    LET r == dev[d] w == CancelOrder[r.cancelled + 1] IN
    /\ r.st = "cancelling" /\ r.cancelled < 4
    /\ r.task # w
    /\ Set(d, [Cancel(r, w) EXCEPT !.cancelled = @ + 1])
    /\ UNCHANGED <<holder, watchers, blocklist, notify, faults>>

\* The watch of a client is gone: no notification waits for it any more.
DropWatch(cid) ==
    /\ watchers' = watchers \ {cid}
    /\ notify' = [c \in Client |-> [notify[c] EXCEPT !.to = @ \ {cid}]]

\* watch_state is changed before it is looked at
UnregisterWatchLate(d) ==
    /\ dev[d].st = "cancelling" /\ dev[d].cancelled = 4
    /\ Set(d, [dev[d] EXCEPT !.st = "flushing", !.watch = "UNREGISTERED"])
    /\ UNCHANGED <<holder, watchers, blocklist, notify, faults>>

\* rbd_unregister_watch after cancel_tasks_sync.
UnregisterWatch(d) ==
    LET r == dev[d] IN
    /\ r.st = "cancelling" /\ r.cancelled = 4
    /\ Set(d, [r EXCEPT !.st = "flushing", !.watch = "UNREGISTERED"])
    /\ IF r.watch = "REGISTERED" THEN DropWatch(MyCid(d))
                                 ELSE UNCHANGED <<watchers, notify>>
    /\ UNCHANGED <<holder, blocklist, faults>>

\* ... then watch_dwork is cancelled, and rbd_dev_destroy drains task_wq.
Gone(d) ==
    LET r == Cancel(dev[d], "watch") IN
    /\ r.st = "flushing" /\ r.task = "none" /\ r.q = <<>>
    /\ Set(d, [r EXCEPT !.st = "gone"])
    /\ UNCHANGED <<holder, watchers, blocklist, notify, faults>>

------------------------------------------------------------------------------
\* Image requests that need the lock (rbd_img_advance).

\* RBD_IMG_START: rbd_img_exclusive_lock with lock_rwsem held for read.
Submit(d) ==
    LET r == [dev[d] EXCEPT !.issued = @ + 1] IN
    /\ r.st = "up" /\ dev[d].issued < MaxReqs /\ ~r.sem
    /\ Set(d, IF r.lock = "LOCKED" THEN [r EXCEPT !.io = @ + 1]
              ELSE IF d \in Exclusive THEN DelRequest(r)
              ELSE Queue([r EXCEPT !.acquiring = @ + 1], "lock"))
    /\ UNCHANGED <<holder, watchers, blocklist, notify, faults>>

\* RBD_IMG_EXCLUSIVE_LOCK with no error: the object requests are issued.
Resume(d) ==
    LET r == dev[d] IN
    /\ Live(d) /\ r.sched > 0 /\ ~r.sem
    /\ Set(d, IF ~IsOwner(r) THEN Bug(r)
              ELSE [r EXCEPT !.sched = @ - 1, !.io = @ + 1])
    /\ UNCHANGED <<holder, watchers, blocklist, notify, faults>>

\* RBD_IMG_EXCLUSIVE_LOCK with an error: the request is completed with it.
ResumeFailed(d) ==
    /\ Live(d) /\ dev[d].failed > 0 /\ ~dev[d].sem
    /\ Set(d, DelRequest([dev[d] EXCEPT !.failed = @ - 1]))
    /\ UNCHANGED <<holder, watchers, blocklist, notify, faults>>

\* __RBD_IMG_OBJECT_REQUESTS: the last object request has completed.
IoDone(d) ==
    /\ Live(d) /\ dev[d].io > 0 /\ ~dev[d].sem
    /\ Set(d, DelRequest([dev[d] EXCEPT !.io = @ - 1]))
    /\ UNCHANGED <<holder, watchers, blocklist, notify, faults>>

------------------------------------------------------------------------------
\* The workqueue.

Dequeue(d) ==
    LET r == dev[d] IN
    /\ Live(d) /\ r.task = "none" /\ r.q # <<>>
    /\ Set(d, [r EXCEPT !.task = Head(r.q), !.pc = "start", !.q = Tail(r.q)])
    /\ UNCHANGED <<holder, watchers, blocklist, notify, faults>>

TimerFires(d) ==
    /\ Live(d)
    /\ \E w \in dev[d].timer : Set(d, Kick(dev[d], w))
    /\ UNCHANGED <<holder, watchers, blocklist, notify, faults>>

At(d, w, pc) == Live(d) /\ dev[d].task = w /\ dev[d].pc = pc

Goto(d, pc) == Set(d, [dev[d] EXCEPT !.pc = pc])

\* rbd_try_acquire_lock: owner already, or lock_rwsem is taken for write.
TryAcquire(d) ==
    LET r == dev[d] IN
    /\ At(d, "lock", "start") /\ ~r.sem
    /\ Set(d, IF IsOwner(r) THEN Finish(r)
              ELSE [r EXCEPT !.sem = TRUE, !.pc = "cls_lock"])
    /\ UNCHANGED <<holder, watchers, blocklist, notify, faults>>

\* rbd_try_acquire_lock when the call to the cluster says EBLOCKLISTED.
AcquireFenced(d) ==
    /\ d \in blocklist
    /\ \E pc \in {"cls_lock", "info", "watchers", "break"} : At(d, "lock", pc)
    /\ Set(d, Finish(WakeLockWaiters(dev[d], "EBLOCKLISTED")))
    /\ UNCHANGED <<holder, watchers, blocklist, notify, faults>>

\* rbd_lock and rbd_post_acquire_action, whose opening of the object map may
\* fail; a failure hands the lock back.
ClsLock(d) ==
    LET r == Locked(d, dev[d]) IN
    /\ At(d, "lock", "cls_lock") /\ d \notin blocklist
    /\ \/ /\ holder = NoCid
          /\ holder' = <<d, dev[d].wcookie>>
          /\ Set(d, IF Running(r) > 0 THEN Bug(r)
                    ELSE Finish(WakeLockWaiters(r, "none")))
          /\ UNCHANGED faults
       \/ /\ holder = NoCid /\ Running(r) = 0
          /\ Fault
          /\ Set(d, Finish(WakeLockWaiters(Unlocked(r), "EMAP")))
          /\ UNCHANGED holder
       \/ /\ holder # NoCid
          /\ IF holder = MyCid(d)
             THEN Set(d, [dev[d] EXCEPT !.sem = FALSE, !.pc = "request"])
             ELSE Goto(d, "info")
          /\ UNCHANGED <<holder, faults>>
    /\ UNCHANGED <<watchers, blocklist, notify>>

\* get_lock_owner_info: no locker any more, or the one to look for.
LockInfo(d) ==
    /\ At(d, "lock", "info") /\ d \notin blocklist
    /\ IF holder = NoCid THEN Goto(d, "cls_lock")
       ELSE Set(d, [dev[d] EXCEPT !.locker = holder, !.pc = "watchers"])
    /\ UNCHANGED <<holder, watchers, blocklist, notify, faults>>

\* find_watcher: a watcher with the locker's address and cookie is alive.
FindWatcher(d) ==
    LET r == dev[d] IN
    /\ At(d, "lock", "watchers") /\ d \notin blocklist
    /\ Set(d, IF r.locker \in watchers
              THEN [r EXCEPT !.owner = r.locker, !.sem = FALSE,
                             !.pc = "request", !.locker = NoCid]
              ELSE [r EXCEPT !.pc = "blocklist"])
    /\ UNCHANGED <<holder, watchers, blocklist, notify, faults>>

\* The lock is broken without fencing its holder.
BlocklistAddNot(d) ==
    /\ At(d, "lock", "blocklist")
    /\ Goto(d, "break")
    /\ UNCHANGED <<holder, watchers, blocklist, notify, faults>>

\* ceph_monc_blocklist_add of the locker's address.
BlocklistAdd(d) ==
    /\ At(d, "lock", "blocklist")
    /\ blocklist' = blocklist \union {dev[d].locker[1]}
    /\ Goto(d, "break")
    /\ UNCHANGED <<holder, watchers, notify, faults>>

\* ceph_cls_break_lock: ENOENT when that locker is not there any more.
BreakLock(d) ==
    /\ At(d, "lock", "break") /\ d \notin blocklist
    /\ holder' = IF holder = dev[d].locker THEN NoCid ELSE holder
    /\ Goto(d, "cls_lock")
    /\ UNCHANGED <<watchers, blocklist, notify, faults>>

------------------------------------------------------------------------------
\* Notifications: __rbd_notify_op_lock sends one and waits for its acks.

\* ceph_osdc_notify; a blocklisted client gets an error instead.
SendNotify(d) ==
    LET r == dev[d]
        op == IF r.task = "lock" THEN "request" ELSE r.task IN
    /\ At(d, "acquired", "start") \/ At(d, "released", "start")
       \/ At(d, "lock", "request")
    /\ IF d \in blocklist
       THEN /\ Set(d, IF r.task = "lock" THEN Finish(Delay(r, "lock"))
                      ELSE Finish(r))
            /\ UNCHANGED notify
       ELSE /\ notify' = [notify EXCEPT ![d] =
                            [op |-> op, cid |-> MyCid(d), to |-> watchers,
                             acks |-> <<>>]]
            /\ Goto(d, "wait")
    /\ UNCHANGED <<holder, watchers, blocklist, faults>>

\* The reply of a notification, complete or timed out. rbd_request_lock counts
\* the responses: none means a dead owner, two are an error, and one decides.
Replied(d) ==
    LET r == dev[d] acks == notify[d].acks IN
    /\ Live(d) /\ r.pc = "wait"
    /\ notify' = [notify EXCEPT ![d] = NoNotify]
    /\ Set(d, IF r.task # "lock" THEN Finish(r)
              ELSE IF acks = <<>> THEN [r EXCEPT !.pc = "start"]
              ELSE IF acks = <<"EROFS">>
                   THEN Finish(WakeLockWaiters(r, "EROFS"))
              ELSE Finish(Delay(r, "lock")))
    /\ UNCHANGED <<holder, watchers, blocklist>>

NotifyDone(d) == notify[d].to = {} /\ Replied(d) /\ UNCHANGED faults

\* A watcher does not ack within the timeout: it is dead, or merely slow.
NotifyTimeout(d) ==
    /\ notify[d].to # {}
    /\ Replied(d)
    /\ IF \E cid \in notify[d].to : ~Live(cid[1]) THEN UNCHANGED faults ELSE Fault

\* maybe_kick_acquire
MaybeKickAcquire(r) ==
    IF ~IsOwner(r) /\ (r.acquiring > 0 \/ Pending(r, "lock"))
    THEN Kick(r, "lock") ELSE r

\* rbd_handle_acquired_lock, rbd_handle_released_lock
HandleAcquired(r, cid) == MaybeKickAcquire([r EXCEPT !.owner = cid])

HandleReleased(r, cid) ==
    MaybeKickAcquire([r EXCEPT !.owner = IF @ = cid THEN NoCid ELSE @])

\* rbd_handle_request_lock: the device after it, and the response it encodes.
HandleRequest(d, cid) ==
    LET r == dev[d]
        silent == \/ cid = MyCid(d)
                  \/ ~IsOwner(r)
                  \/ r.lock = "LOCKED" /\ r.owner = NoCid IN
    IF silent THEN [dev |-> r, ack |-> <<>>]
    ELSE IF r.lock # "LOCKED" THEN [dev |-> r, ack |-> <<"OK">>]
    ELSE IF d \in Exclusive THEN [dev |-> r, ack |-> <<"EROFS">>]
    ELSE [dev |-> Queue(r, "unlock"), ack |-> <<"OK">>]

\* rbd_watch_cb on d for the notification of c, with its acknowledgement.
WatchCb(d, c) ==
    LET n == notify[c]
        h == IF n.op = "request" THEN HandleRequest(d, n.cid)
             ELSE IF n.op = "acquired"
                  THEN [dev |-> HandleAcquired(dev[d], n.cid), ack |-> <<>>]
             ELSE [dev |-> HandleReleased(dev[d], n.cid), ack |-> <<>>] IN
    /\ Live(d) /\ dev[d].watch = "REGISTERED" /\ ~dev[d].sem
    /\ MyCid(d) \in n.to
    /\ Set(d, h.dev)
    /\ notify' = [notify EXCEPT ![c].to = @ \ {MyCid(d)}, ![c].acks = @ \o h.ack]
    /\ UNCHANGED <<holder, watchers, blocklist, faults>>

------------------------------------------------------------------------------
\* Releasing the lock, and re-registering a watch that was lost.

\* The requests that run are not waited for.
QuiesceNow(r, next) ==
    IF r.releasing > 0 THEN Bug(r)
    ELSE [r EXCEPT !.lock = "RELEASING", !.sem = TRUE, !.pc = next]

\* rbd_quiesce_lock with lock_rwsem held: lock_rwsem is kept when no request is
\* running, and dropped for the wait otherwise.
Quiesce(r, next) ==
    IF r.releasing > 0 THEN Bug(r)
    ELSE IF Running(r) = 0
         THEN [r EXCEPT !.lock = "RELEASING", !.sem = TRUE, !.pc = next]
         ELSE [r EXCEPT !.lock = "RELEASING", !.pc = "drain"]

\* rbd_release_lock_work
ReleaseLock(d) ==
    LET r == dev[d] IN
    /\ At(d, "unlock", "start") /\ ~r.sem
    /\ Set(d, IF r.lock # "LOCKED" THEN Finish(r) ELSE Quiesce(r, "cls_unlock"))
    /\ UNCHANGED <<holder, watchers, blocklist, notify, faults>>

\* rbd_quiesce_lock after wait_for_completion.
Drained(d) ==
    LET r == [dev[d] EXCEPT !.releasing = @ - 1] IN
    /\ Live(d) /\ r.pc = "drain" /\ dev[d].releasing > 0 /\ ~r.sem
    /\ Set(d, IF r.lock # "RELEASING" THEN Finish(r)
              ELSE IF Running(r) > 0 THEN Bug(r)
              ELSE [r EXCEPT !.sem = TRUE,
                             !.pc = IF r.task = "unlock" THEN "cls_unlock"
                                    ELSE "set_cookie"])
    /\ UNCHANGED <<holder, watchers, blocklist, notify, faults>>

\* __rbd_release_lock, and the cancel that gives the peers their chance.
ReleaseUnlock(d) ==
    LET r == dev[d] IN
    /\ At(d, "unlock", "cls_unlock")
    /\ ClsUnlock(d, r.cookie)
    /\ Set(d, Finish(Cancel(Unlocked(r), "lock")))
    /\ UNCHANGED <<watchers, blocklist, notify, faults>>

\* The OSD drops the watch of a client it has not heard from, or has fenced.
WatchLost(d) ==
    /\ MyCid(d) \in watchers
    /\ \/ d \in blocklist \/ dev[d].st = "dead"
       \/ Live(d) /\ dev[d].wcookie < MaxWatches
    /\ IF d \in blocklist \/ dev[d].st = "dead" THEN UNCHANGED faults ELSE Fault
    /\ DropWatch(MyCid(d))
    /\ UNCHANGED <<dev, holder, blocklist>>

\* rbd_watch_errcb
WatchErrcb(d) ==
    LET r == dev[d] IN
    /\ Live(d) /\ r.watch = "REGISTERED" /\ MyCid(d) \notin watchers /\ ~r.sem
    /\ Set(d, Queue([r EXCEPT !.owner = NoCid, !.watch = "ERROR"], "watch"))
    /\ UNCHANGED <<holder, watchers, blocklist, notify, faults>>

\* rbd_reregister_watch up to the new watch. A failure other than being
\* blocklisted is retried.
ReregisterWatch(d) ==
    LET r == dev[d] IN
    /\ At(d, "watch", "start") /\ ~r.sem
    /\ \/ /\ r.watch # "ERROR"
          /\ Set(d, Finish(r)) /\ UNCHANGED <<watchers, faults>>
       \/ /\ r.watch = "ERROR" /\ d \in blocklist
          /\ Set(d, Finish(WakeLockWaiters(r, "EBLOCKLISTED")))
          /\ UNCHANGED <<watchers, faults>>
       \/ /\ r.watch = "ERROR" /\ d \notin blocklist /\ Fault
          /\ Set(d, Finish(Delay(r, "watch"))) /\ UNCHANGED watchers
       \/ /\ r.watch = "ERROR" /\ d \notin blocklist
          /\ watchers' = watchers \union {<<d, r.wcookie + 1>>}
          /\ Set(d, [r EXCEPT !.watch = "REGISTERED", !.wcookie = @ + 1,
                              !.pc = "reacquire"])
          /\ UNCHANGED faults
    /\ UNCHANGED <<holder, blocklist, notify>>

\* rbd_reacquire_lock when the lock is held.
Reacquire(d) ==
    LET r == dev[d] IN
    /\ At(d, "watch", "reacquire") /\ ~r.sem
    /\ Set(d, IF r.lock # "LOCKED" THEN Finish(r) ELSE Quiesce(r, "set_cookie"))
    /\ UNCHANGED <<holder, watchers, blocklist, notify, faults>>

\* ceph_cls_set_cookie: the lock moves to the new cookie, or it is released by
\* hand and an acquire is queued.
SetCookie(d) ==
    LET r == dev[d] IN
    /\ At(d, "watch", "set_cookie")
    /\ \/ /\ holder = <<d, r.cookie>> /\ d \notin blocklist
          /\ holder' = <<d, r.wcookie>>
          /\ Set(d, Finish(WakeLockWaiters(Locked(d, r), "none")))
          /\ UNCHANGED faults
       \/ /\ IF holder = <<d, r.cookie>> /\ d \notin blocklist
             THEN Fault ELSE UNCHANGED faults
          /\ ClsUnlock(d, r.cookie)
          /\ Set(d, Finish(Queue(Unlocked(r), "lock")))
    /\ UNCHANGED <<watchers, blocklist, notify>>

\* The machine of a client dies; the cluster keeps its lock and, for a while,
\* its watch.
Crash(d) ==
    /\ Live(d) /\ Fault
    /\ Set(d, [NewDev EXCEPT !.st = "dead", !.wcookie = dev[d].wcookie])
    /\ notify' = [notify EXCEPT ![d] = NoNotify]
    /\ UNCHANGED <<holder, watchers, blocklist>>

------------------------------------------------------------------------------
Step(d) ==
    \/ AddWoken(d) \/ AddCancelled(d) \/ ImageUnlock(d) \/ CancelTask(d)
    \/ UnregisterWatch(d) \/ Gone(d)
    \/ Resume(d) \/ ResumeFailed(d)
    \/ TryAcquire(d) \/ AcquireFenced(d) \/ ClsLock(d) \/ LockInfo(d)
    \/ FindWatcher(d) \/ BlocklistAdd(d) \/ BreakLock(d)
    \/ SendNotify(d)
    \/ ReleaseLock(d) \/ Drained(d) \/ ReleaseUnlock(d)
    \/ ReregisterWatch(d) \/ Reacquire(d) \/ SetCookie(d)

Next ==
    \E d \in Client :
        \/ Map(d) \/ AddGivesUp(d) \/ Unmap(d) \/ Submit(d)
        \/ Step(d) \/ IoDone(d) \/ Dequeue(d) \/ TimerFires(d)
        \/ NotifyDone(d) \/ NotifyTimeout(d)
        \/ \E c \in Client : WatchCb(d, c)
        \/ WatchLost(d) \/ WatchErrcb(d) \/ Crash(d)

Spec == Init /\ [][Next]_vars

\* Fairness: the workqueue, its timers, I/O completions, the delivery of
\* notifications and of watch errors, and a wait that has been signalled all go
\* on; nobody has to issue requests, map, unmap, crash or lose a watch. A peer's
\* notification gets lock_rwsem however often lock_dwork takes it meanwhile: a
\* kernel rwsem is handed over in the order of its waiters, hence SF there.
Fairness ==
    \A d \in Client :
        /\ WF_vars(Step(d)) /\ WF_vars(Dequeue(d)) /\ WF_vars(TimerFires(d))
        /\ WF_vars(IoDone(d)) /\ WF_vars(Resume(d))
        /\ WF_vars(NotifyDone(d)) /\ WF_vars(NotifyTimeout(d) /\ UNCHANGED faults)
        /\ WF_vars(WatchCb(d, d))
        /\ \A c \in Client \ {d} : SF_vars(WatchCb(d, c))
        /\ WF_vars(WatchLost(d) /\ UNCHANGED faults) /\ WF_vars(WatchErrcb(d))

FairSpec == Spec /\ Fairness

------------------------------------------------------------------------------
\* Two devices may both believe they own the lock only when one of them has been
\* blocklisted: rbd_try_lock fences a locker before it breaks its lock.
OneOwner ==
    \A c, d \in Client :
        c # d /\ Live(c) /\ Live(d) /\ IsOwner(dev[c]) /\ IsOwner(dev[d])
            => c \in blocklist \/ d \in blocklist

\* I/O is in flight only under the lock as the cluster sees it, or is fenced:
\* rbd_quiesce_lock drains it before the unlock, and set_cookie keeps the locker.
IoUnderLock ==
    \A d \in Client : Live(d) /\ dev[d].io > 0 => holder[1] = d \/ d \in blocklist

\* A device that was unmapped has left no watch behind, no timer that would fire
\* into freed memory, and no lock that it does not know of: rbd_dev_image_unlock,
\* then rbd_unregister_watch. A lock it does know of may stay: a lock_dwork that a
\* failed set_cookie queued can run after rbd_dev_image_unlock and before
\* cancel_tasks_sync reaches it.
UnmapLeavesNothing ==
    \A d \in Client :
        dev[d].st = "gone" =>
            /\ IsOwner(dev[d]) \/ holder[1] # d \/ d \in blocklist
            /\ dev[d].timer = {}
            /\ \A cid \in watchers : cid[1] # d

\* The fields of a device, and the lengths of its lists.
Shaped(r) ==
    /\ DOMAIN r = DOMAIN NewDev
    /\ r.acquiring \in Nat /\ r.sched \in Nat /\ r.failed \in Nat /\ r.io \in Nat

\* What makes the lock exclusive, for device d with locker h and blocklist b. A
\* device that believes it owns the lock is the locker of the header object or is
\* fenced; I/O is in flight only while it believes so; the lock is given up or
\* moved to a new cookie only with no I/O in flight and lock_rwsem held; and the
\* locker that rbd_try_lock is about to break has been blocklisted.
DevSafe(d, r, h, b) ==
    /\ IsOwner(r) => h = <<d, r.cookie>> \/ d \in b
    /\ r.io > 0 => IsOwner(r)
    /\ r.pc \in {"cls_unlock", "set_cookie"} => r.sem /\ r.io = 0
    /\ r.pc = "break" => r.locker[1] \in b

LockInv ==
    /\ DOMAIN dev = Client
    /\ \A d \in Client :
          Shaped(dev[d]) /\ DevSafe(d, dev[d], holder, blocklist)

\* A request on acquiring_list is woken, with the lock or with an error: the
\* released_lock notification of the peer kicks lock_dwork, or its timer does.
RequestsWoken ==
    \A d \in Client : dev[d].acquiring > 0 ~> dev[d].acquiring = 0

\* The state of the lock code: its types, what makes the lock exclusive, and
\* nothing left of a device that was unmapped (rbd_dev_image_unlock,
\* rbd_unregister_watch).
LockStateSound == TypeOK /\ LockInv /\ UnmapLeavesNothing
=============================================================================
