---------------------------- MODULE RbdLockProofs ----------------------------
(* The exclusive lock excludes, for every set of clients and every bound: the  *)
(* invariant LockInv of RbdLock is inductive, and the two properties that make *)
(* the lock worth having, OneOwner and IoUnderLock, follow from it.            *)
EXTENDS RbdLock, TLAPS

\* What LockInv looks at is the same in s as in r.
Alike(r, s) ==
    /\ Shaped(s)
    /\ s.lock = r.lock /\ s.cookie = r.cookie /\ s.io = r.io
    /\ s.pc = r.pc /\ s.sem = r.sem /\ s.locker = r.locker

\* In s the work function that ran in r has ended.
Ended(r, s) ==
    /\ Shaped(s)
    /\ s.lock = r.lock /\ s.cookie = r.cookie /\ s.io = r.io /\ s.pc = "none"

------------------------------------------------------------------------------
\* The operators on a device.

\* cancel_work drops an item and nothing else.
LEMMA CancelAlike ==
    ASSUME NEW r, Shaped(r), NEW w
    PROVE  Alike(r, Cancel(r, w)) /\ Cancel(r, w).wcookie = r.wcookie
<1> DEFINE q == SelectSeq(r.q, LAMBDA x : x # w)
           t == r.timer \ {w}
<1>1. Cancel(r, w) = [r EXCEPT !.q = q, !.timer = t]
  BY DEF Cancel, Shaped, NewDev
<1> HIDE DEF q, t
<1> QED  BY <1>1 DEF Alike, Shaped, NewDev

\* ... as does queue_work, and a timer set or fired.
LEMMA QueueAlike ==
    ASSUME NEW r, Shaped(r), NEW w
    PROVE  Alike(r, Queue(r, w)) /\ Queue(r, w).wcookie = r.wcookie
<1> DEFINE q == Append(r.q, w)
<1>1. Queue(r, w) = r \/ Queue(r, w) = [r EXCEPT !.q = q]
  BY DEF Queue, Shaped, NewDev
<1> HIDE DEF q
<1> QED  BY <1>1 DEF Alike, Shaped, NewDev

LEMMA KickAlike ==
    ASSUME NEW r, Shaped(r), NEW w
    PROVE  Alike(r, Kick(r, w)) /\ Alike(r, Delay(r, w))
<1> DEFINE c == Cancel(r, w)
           q == Append(c.q, w)
           t == c.timer \union {w}
<1>1. Alike(r, c)  BY CancelAlike
<1> HIDE DEF c
<1>2. Kick(r, w) = [c EXCEPT !.q = q] /\ Delay(r, w) = [c EXCEPT !.timer = t]
  BY <1>1 DEF Kick, Delay, c, q, t, Alike, Shaped, NewDev
<1> HIDE DEF q, t
<1> QED  BY <1>1, <1>2 DEF Alike, Shaped, NewDev

\* A work function that ends, by itself or in an assertion.
LEMMA FinishEnded ==
    ASSUME NEW r, Shaped(r)
    PROVE  Ended(r, Finish(r)) /\ Ended(r, Bug(r))
<1>1. Ended(r, Finish(r))  BY DEF Finish, Ended, Shaped, NewDev
<1> DEFINE f == Finish(r)
<1> HIDE DEF f
<1>2. Ended(r, f)  BY <1>1 DEF f
<1>3. Bug(r) = [f EXCEPT !.bug = TRUE, !.st = "dead"]  BY DEF Bug, f
<1>4. Ended(r, Bug(r))  BY <1>2, <1>3 DEF Ended, Shaped, NewDev
<1> QED  BY <1>1, <1>4

LEMMA AlikeEnded ==
    ASSUME NEW r, NEW s, Alike(r, s)
    PROVE  Ended(r, Finish(s))
BY FinishEnded DEF Alike, Ended

\* wake_lock_waiters moves waiters, or fails its assertion; the lock stays.
LEMMA WakeEnded ==
    ASSUME NEW r, Shaped(r), NEW err
    PROVE  Ended(r, Finish(WakeLockWaiters(r, err)))
<1> DEFINE c == Cancel(r, "lock")
           s == WakeLockWaiters(r, err)
           n1 == c.sched + r.acquiring
           n2 == c.failed + r.acquiring
<1>1. Alike(r, c)  BY CancelAlike
<1>2. c.sched \in Nat /\ c.failed \in Nat /\ r.acquiring \in Nat
  BY <1>1 DEF Alike, Shaped
<1> HIDE DEF c
<1>3. \/ s = Bug(r)
      \/ s = [c EXCEPT !.waitDone = TRUE, !.waitErr = err]
      \/ s = [c EXCEPT !.sched = n1, !.acquiring = 0]
      \/ s = [c EXCEPT !.failed = n2, !.acquiring = 0]
  BY <1>1 DEF WakeLockWaiters, c, Alike, Shaped, NewDev
<1>4. n1 \in Nat /\ n2 \in Nat  BY <1>2
<1> HIDE DEF s, n1, n2
<1>5. CASE s = Bug(r)
  <2>1. Ended(r, s)  BY <1>5, FinishEnded
  <2>2. Ended(s, Finish(s))  BY <2>1, FinishEnded DEF Ended
  <2> QED  BY <2>1, <2>2 DEF Ended, s
<1>6. ASSUME s # Bug(r) PROVE Alike(r, s)
  <2>1. CASE s = [c EXCEPT !.waitDone = TRUE, !.waitErr = err]
    BY <1>1, <2>1 DEF Alike, Shaped, NewDev
  <2>2. CASE s = [c EXCEPT !.sched = n1, !.acquiring = 0]
    BY <1>1, <1>4, <2>2 DEF Alike, Shaped, NewDev
  <2>3. CASE s = [c EXCEPT !.failed = n2, !.acquiring = 0]
    BY <1>1, <1>4, <2>3 DEF Alike, Shaped, NewDev
  <2>4. QED  BY <1>3, <1>6, <2>1, <2>2, <2>3
<1>7. CASE Alike(r, s)  BY <1>7, AlikeEnded DEF s
<1> QED  BY <1>5, <1>6, <1>7

\* __rbd_lock and rbd_unlock change the lock and leave requests and tasks alone.
LEMMA LockedShape ==
    ASSUME NEW d, NEW r, Shaped(r)
    PROVE  LET s == Locked(d, r) IN
           /\ Shaped(s) /\ s.lock = "LOCKED" /\ s.cookie = r.wcookie
           /\ s.io = r.io /\ s.sched = r.sched /\ s.failed = r.failed
<1> DEFINE l == [r EXCEPT !.lock = "LOCKED", !.cookie = r.wcookie,
                          !.owner = <<d, r.wcookie>>]
           q == Append(l.q, "acquired")
<1>1. Shaped(l) /\ l.lock = "LOCKED" /\ l.cookie = r.wcookie
      /\ l.io = r.io /\ l.sched = r.sched /\ l.failed = r.failed
  BY DEF Shaped, NewDev
<1>2. Locked(d, r) = l \/ Locked(d, r) = [l EXCEPT !.q = q]
  BY DEF Locked, Queue, Shaped, NewDev
<1> HIDE DEF l, q
<1> QED  BY <1>1, <1>2 DEF Shaped, NewDev

LEMMA UnlockedShape ==
    ASSUME NEW r, Shaped(r)
    PROVE  LET s == Unlocked(r) IN
           /\ Shaped(s) /\ s.lock = "UNLOCKED" /\ s.io = r.io
           /\ s.pc = r.pc /\ s.locker = r.locker
<1> DEFINE l == [r EXCEPT !.lock = "UNLOCKED", !.cookie = 0, !.owner = NoCid]
           q == Append(l.q, "released")
<1>1. Shaped(l) /\ l.lock = "UNLOCKED" /\ l.io = r.io
      /\ l.pc = r.pc /\ l.locker = r.locker
  BY DEF Shaped, NewDev
<1>2. Unlocked(r) = l \/ Unlocked(r) = [l EXCEPT !.q = q]
  BY DEF Unlocked, Queue, Shaped, NewDev
<1> HIDE DEF l, q
<1> QED  BY <1>1, <1>2 DEF Shaped, NewDev

\* rbd_lock_del_request completes releasing_wait at most.
LEMMA DelRequestAlike ==
    ASSUME NEW r, Shaped(r)
    PROVE  Alike(r, DelRequest(r))
<1> DEFINE n == r.releasing + 1
<1>1. DelRequest(r) = r \/ DelRequest(r) = [r EXCEPT !.releasing = n]
  BY DEF DelRequest, Shaped, NewDev
<1> HIDE DEF n
<1> QED  BY <1>1 DEF Alike, Shaped, NewDev

\* maybe_kick_acquire, and the three handlers of notifications.
LEMMA HandlersAlike ==
    ASSUME NEW d \in Client, Shaped(dev[d]), NEW cid
    PROVE  /\ Alike(dev[d], HandleAcquired(dev[d], cid))
           /\ Alike(dev[d], HandleReleased(dev[d], cid))
           /\ Alike(dev[d], HandleRequest(d, cid).dev)
<1>1. ASSUME NEW s, Shaped(s) PROVE Alike(s, MaybeKickAcquire(s))
  <2>1. Alike(s, Kick(s, "lock")) /\ Alike(s, s)
    BY <1>1, KickAlike DEF Alike
  <2> QED  BY <2>1 DEF MaybeKickAcquire
<1>2. ASSUME NEW o PROVE Alike(dev[d], [dev[d] EXCEPT !.owner = o])
  BY DEF Alike, Shaped, NewDev
<1>3. ASSUME NEW o
      PROVE  Alike(dev[d], MaybeKickAcquire([dev[d] EXCEPT !.owner = o]))
  <2> DEFINE s == [dev[d] EXCEPT !.owner = o]
  <2>1. Alike(dev[d], s)  BY <1>2
  <2> HIDE DEF s
  <2>2. Alike(s, MaybeKickAcquire(s))  BY <1>1, <2>1 DEF Alike
  <2>3. Alike(dev[d], MaybeKickAcquire(s))  BY <2>1, <2>2 DEF Alike
  <2> QED  BY <2>3 DEF s
<1>4. Alike(dev[d], HandleAcquired(dev[d], cid))
  BY <1>3 DEF HandleAcquired
<1>5. Alike(dev[d], HandleReleased(dev[d], cid))
  <2> DEFINE o == IF dev[d].owner = cid THEN NoCid ELSE dev[d].owner
  <2>1. HandleReleased(dev[d], cid) = MaybeKickAcquire([dev[d] EXCEPT !.owner = o])
    BY DEF HandleReleased, Shaped, NewDev
  <2> QED  BY <1>3, <2>1
<1>6. Alike(dev[d], HandleRequest(d, cid).dev)
  <2>1. Alike(dev[d], Queue(dev[d], "unlock")) /\ Alike(dev[d], dev[d])
    BY QueueAlike DEF Alike
  <2>2. \/ HandleRequest(d, cid).dev = dev[d]
        \/ HandleRequest(d, cid).dev = Queue(dev[d], "unlock")
    BY DEF HandleRequest
  <2> QED  BY <2>1, <2>2
<1> QED  BY <1>4, <1>5, <1>6

------------------------------------------------------------------------------
\* One device steps, and the others keep what they have.

LEMMA AlikeSafe ==
    ASSUME NEW d, NEW r, NEW s, NEW h, NEW b, DevSafe(d, r, h, b),
           Alike(r, s) \/ Ended(r, s)
    PROVE  Shaped(s) /\ DevSafe(d, s, h, b)
BY DEF Alike, Ended, DevSafe, IsOwner

\* A step that sets device d to s keeps the invariant when s is safe, the
\* blocklist only grows, and the lock is taken from no owner that is not fenced.
LEMMA OneDevice ==
    ASSUME LockInv, NEW d \in Client, NEW s, Set(d, s),
           blocklist \subseteq blocklist',
           Shaped(s), DevSafe(d, s, holder', blocklist'),
           \/ holder' = holder
           \/ \A e \in Client \ {d} : IsOwner(dev[e]) => e \in blocklist
    PROVE  LockInv'
<1>1. DOMAIN dev' = Client /\ dev'[d] = s
      /\ \A e \in Client \ {d} : dev'[e] = dev[e]
  BY DEF LockInv, Set
<1>2. ASSUME NEW e \in Client
      PROVE  Shaped(dev'[e]) /\ DevSafe(e, dev'[e], holder', blocklist')
  <2>1. CASE e = d  BY <1>1, <2>1
  <2>2. CASE e # d
    <3>1. dev'[e] = dev[e]  BY <1>1, <2>2
    <3>2. Shaped(dev[e]) /\ DevSafe(e, dev[e], holder, blocklist)
      BY DEF LockInv
    <3>3. DevSafe(e, dev[e], holder', blocklist')
      BY <2>2, <3>2 DEF DevSafe
    <3> QED  BY <3>1, <3>2, <3>3
  <2> QED  BY <2>1, <2>2
<1> QED  BY <1>1, <1>2 DEF LockInv

\* ... when s is like the device, or like it with its work function ended.
LEMMA QuietDevice ==
    ASSUME LockInv, NEW d \in Client, NEW s, Set(d, s),
           Alike(dev[d], s) \/ Ended(dev[d], s),
           UNCHANGED <<holder, blocklist>>
    PROVE  LockInv'
<1>1. DevSafe(d, dev[d], holder, blocklist)  BY DEF LockInv
<1>2. Shaped(s) /\ DevSafe(d, s, holder, blocklist)  BY <1>1, AlikeSafe
<1> QED  BY <1>2, OneDevice

\* Who else believes to own the lock while <<d, c>> is its locker, or nobody is,
\* has been fenced.
LEMMA OthersFenced ==
    ASSUME LockInv, NEW d \in Client, NEW c, holder = <<d, c>> \/ holder = NoCid
    PROVE  \A e \in Client \ {d} : IsOwner(dev[e]) => e \in blocklist
BY LockConstants DEF LockInv, DevSafe, NoCid

\* The locker of a device, after it has been broken or has given the lock up,
\* leaves no owner that is not fenced.
LEMMA UnlockFenced ==
    ASSUME LockInv, NEW d \in Client, NEW c, ClsUnlock(d, c)
    PROVE  \/ holder' = holder
           \/ \A e \in Client \ {d} : IsOwner(dev[e]) => e \in blocklist
BY OthersFenced DEF ClsUnlock

------------------------------------------------------------------------------
\* One lemma per group of actions.

\* rbd map and rbd unmap.
LEMMA MapStep ==
    ASSUME LockInv, NEW d \in Client,
           Map(d) \/ AddWoken(d) \/ AddGivesUp(d) \/ AddCancelled(d) \/ Unmap(d)
    PROVE  LockInv'
<1>1. Shaped(dev[d])  BY DEF LockInv
<1>2. ASSUME NEW x PROVE Alike(dev[d], [dev[d] EXCEPT !.st = x])
  BY <1>1 DEF Alike, Shaped, NewDev
<1>3. CASE Map(d)
  <2> DEFINE m == [dev[d] EXCEPT !.st = "adding", !.watch = "REGISTERED",
                                 !.wcookie = 1]
  <2>1. Alike(dev[d], m)  BY <1>1 DEF Alike, Shaped, NewDev
  <2>2. Set(d, Queue(m, "lock")) /\ UNCHANGED <<holder, blocklist>>
    BY <1>3 DEF Map
  <2> HIDE DEF m
  <2>3. Alike(dev[d], Queue(m, "lock"))  BY <2>1, QueueAlike DEF Alike
  <2> QED  BY <2>2, <2>3, QuietDevice
<1>4. CASE AddWoken(d)
  <2>1. PICK s : /\ Set(d, s)
                 /\ \/ s = Bug(dev[d])
                    \/ \E x : s = [dev[d] EXCEPT !.st = x]
    BY <1>4 DEF AddWoken
  <2>2. Alike(dev[d], s) \/ Ended(dev[d], s)  BY <1>1, <1>2, <2>1, FinishEnded
  <2>3. UNCHANGED <<holder, blocklist>>  BY <1>4 DEF AddWoken
  <2> QED  BY <2>1, <2>2, <2>3, QuietDevice
<1>5. CASE AddGivesUp(d)
  <2>1. Set(d, [dev[d] EXCEPT !.st = "givingup"])
        /\ UNCHANGED <<holder, blocklist>>
    BY <1>5 DEF AddGivesUp
  <2> QED  BY <1>2, <2>1, QuietDevice
<1>6. CASE AddCancelled(d)
  <2> DEFINE c == Cancel(dev[d], "lock")
  <2>1. Alike(dev[d], c)  BY <1>1, CancelAlike
  <2>2. Set(d, [c EXCEPT !.st = "unlocking"]) /\ UNCHANGED <<holder, blocklist>>
    BY <1>6 DEF AddCancelled
  <2> HIDE DEF c
  <2>3. Alike(dev[d], [c EXCEPT !.st = "unlocking"])
    BY <2>1 DEF Alike, Shaped, NewDev
  <2> QED  BY <2>2, <2>3, QuietDevice
<1>7. CASE Unmap(d)
  <2>1. Set(d, [dev[d] EXCEPT !.st = "unlocking"])
        /\ UNCHANGED <<holder, blocklist>>
    BY <1>7 DEF Unmap
  <2> QED  BY <1>2, <2>1, QuietDevice
<1> QED  BY <1>3, <1>4, <1>5, <1>6, <1>7

\* The end of rbd unmap.
LEMMA RemoveStep ==
    ASSUME LockInv, NEW d \in Client,
           ImageUnlock(d) \/ CancelTask(d) \/ UnregisterWatch(d) \/ Gone(d)
    PROVE  LockInv'
<1>1. Shaped(dev[d]) /\ DevSafe(d, dev[d], holder, blocklist)  BY DEF LockInv
<1>2. CASE ImageUnlock(d)
  <2>1. UNCHANGED blocklist /\ ~dev[d].sem  BY <1>2 DEF ImageUnlock
  <2>2. CASE IsOwner(dev[d]) /\ Running(dev[d]) > 0
    <3>1. Set(d, Bug(dev[d])) /\ UNCHANGED <<holder, blocklist>>
      BY <1>2, <2>2 DEF ImageUnlock
    <3> QED  BY <1>1, <3>1, FinishEnded, QuietDevice
  <2>3. CASE IsOwner(dev[d]) /\ ~(Running(dev[d]) > 0)
    <3> DEFINE u == Unlocked(dev[d])
               s == [u EXCEPT !.st = "cancelling"]
    <3>1. dev[d].io = 0  BY <1>1, <2>3 DEF Running, Shaped
    <3>2. Shaped(u) /\ u.lock = "UNLOCKED" /\ u.io = 0
          /\ u.pc = dev[d].pc /\ u.locker = dev[d].locker
      BY <1>1, <3>1, UnlockedShape
    <3>3. Set(d, s) /\ ClsUnlock(d, dev[d].cookie)
      BY <1>2, <2>3 DEF ImageUnlock
    <3> HIDE DEF u
    <3>4. Shaped(s) /\ s.lock = "UNLOCKED" /\ s.io = 0
          /\ s.pc = dev[d].pc /\ s.locker = dev[d].locker
      BY <3>2 DEF Shaped, NewDev
    <3> HIDE DEF s
    <3>5. DevSafe(d, s, holder', blocklist')
      BY <1>1, <2>1, <3>4 DEF DevSafe, IsOwner
    <3> QED  BY <2>1, <3>3, <3>4, <3>5, UnlockFenced, OneDevice
  <2>4. CASE ~IsOwner(dev[d])
    <3>1. Set(d, [dev[d] EXCEPT !.st = "cancelling"])
          /\ UNCHANGED <<holder, blocklist>>
      BY <1>2, <2>4 DEF ImageUnlock
    <3>2. Alike(dev[d], [dev[d] EXCEPT !.st = "cancelling"])
      BY <1>1 DEF Alike, Shaped, NewDev
    <3> QED  BY <3>1, <3>2, QuietDevice
  <2> QED  BY <2>2, <2>3, <2>4
<1>3. CASE CancelTask(d)
  <2>1. PICK w, n : Set(d, [Cancel(dev[d], w) EXCEPT !.cancelled = n])
    BY <1>3 DEF CancelTask
  <2> DEFINE c == Cancel(dev[d], w)
  <2>2. Alike(dev[d], c)  BY <1>1, CancelAlike
  <2> HIDE DEF c
  <2>3. Alike(dev[d], [c EXCEPT !.cancelled = n])
    BY <2>2 DEF Alike, Shaped, NewDev
  <2>4. UNCHANGED <<holder, blocklist>>  BY <1>3 DEF CancelTask
  <2> QED  BY <2>1, <2>3, <2>4, QuietDevice DEF c
<1>4. CASE UnregisterWatch(d)
  <2> DEFINE s == [dev[d] EXCEPT !.st = "flushing", !.watch = "UNREGISTERED"]
  <2>1. Set(d, s) /\ UNCHANGED <<holder, blocklist>>
    BY <1>4 DEF UnregisterWatch
  <2>2. Alike(dev[d], s)  BY <1>1 DEF Alike, Shaped, NewDev
  <2> QED  BY <2>1, <2>2, QuietDevice
<1>5. CASE Gone(d)
  <2> DEFINE c == Cancel(dev[d], "watch")
  <2>1. Alike(dev[d], c)  BY <1>1, CancelAlike
  <2>2. Set(d, [c EXCEPT !.st = "gone"]) /\ UNCHANGED <<holder, blocklist>>
    BY <1>5 DEF Gone
  <2> HIDE DEF c
  <2>3. Alike(dev[d], [c EXCEPT !.st = "gone"])
    BY <2>1 DEF Alike, Shaped, NewDev
  <2> QED  BY <2>2, <2>3, QuietDevice
<1> QED  BY <1>2, <1>3, <1>4, <1>5

\* Image requests.
LEMMA RequestStep ==
    ASSUME LockInv, NEW d \in Client,
           Submit(d) \/ Resume(d) \/ ResumeFailed(d) \/ IoDone(d)
    PROVE  LockInv'
<1>1. Shaped(dev[d]) /\ DevSafe(d, dev[d], holder, blocklist)  BY DEF LockInv
<1>2. UNCHANGED <<holder, blocklist>> /\ ~dev[d].sem
  BY <1>1 DEF Submit, Resume, ResumeFailed, IoDone, Shaped, NewDev
<1>3. ASSUME NEW s, Set(d, s), Shaped(s), s.lock = dev[d].lock,
             s.cookie = dev[d].cookie, s.pc = dev[d].pc,
             s.locker = dev[d].locker, s.io > 0 => IsOwner(dev[d])
      PROVE  LockInv'
  <2>1. DevSafe(d, s, holder, blocklist)
    BY <1>1, <1>2, <1>3 DEF DevSafe, IsOwner
  <2> QED  BY <1>2, <1>3, <2>1, OneDevice
<1>4. CASE Submit(d)
  <2> DEFINE n == dev[d].issued + 1
             r == [dev[d] EXCEPT !.issued = n]
             a == [r EXCEPT !.acquiring = r.acquiring + 1]
             i == [r EXCEPT !.io = r.io + 1]
  <2> HIDE DEF n
  <2>1. Alike(dev[d], r)  BY <1>1 DEF Alike, Shaped, NewDev
  <2>2. \/ dev[d].lock = "LOCKED" /\ Set(d, i)
        \/ Set(d, DelRequest(r))
        \/ Set(d, Queue(a, "lock"))
    <3>1. r.lock = dev[d].lock  BY <2>1 DEF Alike
    <3> QED  BY <1>1, <1>4, <3>1 DEF Submit, n, Shaped, NewDev
  <2> HIDE DEF r
  <2>3. CASE dev[d].lock = "LOCKED" /\ Set(d, i)
    <3>1. Shaped(i) /\ i.lock = dev[d].lock /\ i.cookie = dev[d].cookie
          /\ i.pc = dev[d].pc /\ i.locker = dev[d].locker
      BY <2>1 DEF Alike, Shaped, NewDev
    <3> HIDE DEF i
    <3> QED  BY <1>3, <2>3, <3>1 DEF IsOwner
  <2>4. CASE Set(d, DelRequest(r))
    <3>1. Alike(dev[d], DelRequest(r))  BY <2>1, DelRequestAlike DEF Alike
    <3> QED  BY <1>2, <2>4, <3>1, QuietDevice
  <2>5. CASE Set(d, Queue(a, "lock"))
    <3>1. Alike(dev[d], a)  BY <2>1 DEF Alike, Shaped, NewDev
    <3> HIDE DEF a
    <3>2. Alike(dev[d], Queue(a, "lock"))  BY <3>1, QueueAlike DEF Alike
    <3> QED  BY <1>2, <2>5, <3>2, QuietDevice
  <2> QED  BY <2>2, <2>3, <2>4, <2>5
<1>5. CASE Resume(d)
  <2> DEFINE i == [dev[d] EXCEPT !.sched = dev[d].sched - 1,
                                 !.io = dev[d].io + 1]
  <2>1. \/ Set(d, Bug(dev[d]))
        \/ IsOwner(dev[d]) /\ dev[d].sched > 0 /\ Set(d, i)
    BY <1>1, <1>5 DEF Resume, Shaped, NewDev
  <2>2. CASE Set(d, Bug(dev[d]))
    BY <1>1, <1>2, <2>2, FinishEnded, QuietDevice
  <2>3. CASE IsOwner(dev[d]) /\ dev[d].sched > 0 /\ Set(d, i)
    <3>1. Shaped(i) /\ i.lock = dev[d].lock /\ i.cookie = dev[d].cookie
          /\ i.pc = dev[d].pc /\ i.locker = dev[d].locker
      BY <1>1, <2>3 DEF Shaped, NewDev
    <3> HIDE DEF i
    <3> QED  BY <1>3, <2>3, <3>1
  <2> QED  BY <2>1, <2>2, <2>3
<1>6. CASE ResumeFailed(d)
  <2> DEFINE r == [dev[d] EXCEPT !.failed = dev[d].failed - 1]
  <2>1. Set(d, DelRequest(r)) /\ dev[d].failed > 0
    BY <1>1, <1>6 DEF ResumeFailed, Shaped, NewDev
  <2>2. Alike(dev[d], r)  BY <1>1, <2>1 DEF Alike, Shaped, NewDev
  <2> HIDE DEF r
  <2>3. Alike(dev[d], DelRequest(r))  BY <2>2, DelRequestAlike DEF Alike
  <2> QED  BY <1>2, <2>1, <2>3, QuietDevice
<1>7. CASE IoDone(d)
  <2> DEFINE r == [dev[d] EXCEPT !.io = dev[d].io - 1]
             s == DelRequest(r)
  <2>1. Set(d, s) /\ dev[d].io > 0
    BY <1>1, <1>7 DEF IoDone, Shaped, NewDev
  <2>2. Shaped(r) /\ r.lock = dev[d].lock /\ r.cookie = dev[d].cookie
        /\ r.pc = dev[d].pc /\ r.locker = dev[d].locker
    BY <1>1, <2>1 DEF Shaped, NewDev
  <2> HIDE DEF r
  <2>3. Alike(r, s)  BY <2>2, DelRequestAlike
  <2>4. IsOwner(dev[d])  BY <1>1, <2>1 DEF DevSafe
  <2> HIDE DEF s
  <2> QED  BY <1>3, <2>1, <2>2, <2>3, <2>4 DEF Alike
<1> QED  BY <1>4, <1>5, <1>6, <1>7

\* The workqueue, its timers, and the loss of a watch.
LEMMA QueueStep ==
    ASSUME LockInv, NEW d \in Client,
           Dequeue(d) \/ TimerFires(d) \/ WatchErrcb(d) \/ WatchLost(d)
    PROVE  LockInv'
<1>1. Shaped(dev[d]) /\ DevSafe(d, dev[d], holder, blocklist)  BY DEF LockInv
<1>2. UNCHANGED <<holder, blocklist>>
  BY DEF Dequeue, TimerFires, WatchErrcb, WatchLost
<1>3. CASE Dequeue(d)
  <2> DEFINE h == Head(dev[d].q)
             t == Tail(dev[d].q)
             s == [dev[d] EXCEPT !.task = h, !.pc = "start", !.q = t]
  <2>1. Set(d, s)  BY <1>3 DEF Dequeue
  <2> HIDE DEF h, t
  <2>2. Shaped(s) /\ s.lock = dev[d].lock /\ s.cookie = dev[d].cookie
        /\ s.pc = "start" /\ s.io = dev[d].io
    BY <1>1 DEF Shaped, NewDev
  <2> HIDE DEF s
  <2>3. DevSafe(d, s, holder, blocklist)  BY <1>1, <2>2 DEF DevSafe, IsOwner
  <2> QED  BY <1>2, <2>1, <2>2, <2>3, OneDevice
<1>4. CASE TimerFires(d)
  <2>1. PICK w : Set(d, Kick(dev[d], w))  BY <1>4 DEF TimerFires
  <2> QED  BY <1>1, <1>2, <2>1, KickAlike, QuietDevice
<1>5. CASE WatchErrcb(d)
  <2> DEFINE m == [dev[d] EXCEPT !.owner = NoCid, !.watch = "ERROR"]
  <2>1. Alike(dev[d], m)  BY <1>1 DEF Alike, Shaped, NewDev
  <2>2. Set(d, Queue(m, "watch"))  BY <1>5 DEF WatchErrcb
  <2> HIDE DEF m
  <2>3. Alike(dev[d], Queue(m, "watch"))  BY <2>1, QueueAlike DEF Alike
  <2> QED  BY <1>2, <2>2, <2>3, QuietDevice
<1>6. CASE WatchLost(d)
  <2>1. UNCHANGED dev  BY <1>6 DEF WatchLost
  <2> QED  BY <1>2, <2>1 DEF LockInv
<1> QED  BY <1>3, <1>4, <1>5, <1>6

\* A work function goes on to a step that LockInv says nothing of.
LEMMA MovedDevice ==
    ASSUME LockInv, NEW d \in Client, NEW s, Set(d, s),
           UNCHANGED <<holder, blocklist>>, Shaped(s),
           s.lock = dev[d].lock, s.cookie = dev[d].cookie, s.io = dev[d].io,
           s.pc \notin {"cls_unlock", "set_cookie", "break"}
    PROVE  LockInv'
<1>1. DevSafe(d, dev[d], holder, blocklist)  BY DEF LockInv
<1>2. DevSafe(d, s, holder, blocklist)  BY <1>1 DEF DevSafe, IsOwner
<1> QED  BY <1>2, OneDevice

\* rbd_try_lock, up to the lock it finds taken.
LEMMA AcquireStep ==
    ASSUME LockInv, NEW d \in Client,
           TryAcquire(d) \/ AcquireFenced(d) \/ ClsLock(d)
    PROVE  LockInv'
<1>1. Shaped(dev[d]) /\ DevSafe(d, dev[d], holder, blocklist)  BY DEF LockInv
<1>2. CASE TryAcquire(d)
  <2> DEFINE s == [dev[d] EXCEPT !.sem = TRUE, !.pc = "cls_lock"]
  <2>1. (Set(d, Finish(dev[d])) \/ Set(d, s)) /\ UNCHANGED <<holder, blocklist>>
    BY <1>2 DEF TryAcquire
  <2>2. CASE Set(d, Finish(dev[d]))
    BY <1>1, <2>1, <2>2, FinishEnded, QuietDevice
  <2>3. CASE Set(d, s)
    <3>1. Shaped(s) /\ s.lock = dev[d].lock /\ s.cookie = dev[d].cookie
          /\ s.io = dev[d].io /\ s.pc = "cls_lock"
      BY <1>1 DEF Shaped, NewDev
    <3> HIDE DEF s
    <3> QED  BY <2>1, <2>3, <3>1, MovedDevice
  <2> QED  BY <2>1, <2>2, <2>3
<1>3. CASE AcquireFenced(d)
  <2>1. Set(d, Finish(WakeLockWaiters(dev[d], "EBLOCKLISTED")))
        /\ UNCHANGED <<holder, blocklist>>
    BY <1>3 DEF AcquireFenced
  <2> QED  BY <1>1, <2>1, WakeEnded, QuietDevice
<1>4. CASE ClsLock(d)
  <2> DEFINE r == Locked(d, dev[d])
  <2>1. Shaped(r) /\ r.lock = "LOCKED" /\ r.cookie = dev[d].wcookie
        /\ r.io = dev[d].io /\ r.sched = dev[d].sched /\ r.failed = dev[d].failed
    BY <1>1, LockedShape
  <2>2. blocklist' = blocklist  BY <1>4 DEF ClsLock
  <2>3. ASSUME NEW s, Set(d, s), Ended(r, s),
               holder = NoCid, holder' = <<d, dev[d].wcookie>>
        PROVE  LockInv'
    <3> HIDE DEF r
    <3>1. Shaped(s) /\ DevSafe(d, s, holder', blocklist')
      BY <2>1, <2>3 DEF Ended, DevSafe, IsOwner
    <3>2. \A e \in Client \ {d} : IsOwner(dev[e]) => e \in blocklist
      BY <2>3, OthersFenced
    <3> QED  BY <2>2, <2>3, <3>1, <3>2, OneDevice
  <2>4. CASE /\ holder = NoCid /\ holder' = <<d, dev[d].wcookie>>
             /\ Set(d, IF Running(r) > 0 THEN Bug(r)
                       ELSE Finish(WakeLockWaiters(r, "none")))
    <3> HIDE DEF r
    <3>1. Ended(r, Bug(r)) /\ Ended(r, Finish(WakeLockWaiters(r, "none")))
      BY <2>1, FinishEnded, WakeEnded
    <3> QED  BY <2>3, <2>4, <3>1
  <2>5. CASE /\ holder = NoCid /\ Running(r) = 0
             /\ Set(d, Finish(WakeLockWaiters(Unlocked(r), "EMAP")))
             /\ UNCHANGED holder
    <3> HIDE DEF r
    <3> DEFINE u == Unlocked(r)
               s == Finish(WakeLockWaiters(u, "EMAP"))
    <3>1. Shaped(u) /\ u.lock = "UNLOCKED" /\ u.io = r.io
      BY <2>1, UnlockedShape
    <3>2. r.io = 0  BY <2>1, <2>5 DEF Running, Shaped
    <3>3. Ended(u, s)  BY <3>1, WakeEnded
    <3>4. Shaped(s) /\ DevSafe(d, s, holder', blocklist')
      <4> HIDE DEF u, s
      <4> QED  BY <3>1, <3>2, <3>3 DEF Ended, DevSafe, IsOwner
    <3> QED  BY <2>2, <2>5, <3>4, OneDevice
  <2>6. CASE holder # NoCid
    <3>1. PICK s : /\ Set(d, s)
                   /\ \/ s = [dev[d] EXCEPT !.sem = FALSE, !.pc = "request"]
                      \/ s = [dev[d] EXCEPT !.pc = "info"]
      BY <1>4, <2>6 DEF ClsLock, Goto
    <3>2. Shaped(s) /\ s.lock = dev[d].lock /\ s.cookie = dev[d].cookie
          /\ s.io = dev[d].io /\ s.pc \in {"request", "info"}
      BY <1>1, <3>1 DEF Shaped, NewDev
    <3>3. UNCHANGED holder  BY <1>4, <2>6 DEF ClsLock
    <3> QED  BY <2>2, <3>1, <3>2, <3>3, MovedDevice
  <2> QED  BY <1>4, <2>4, <2>5, <2>6 DEF ClsLock
<1> QED  BY <1>2, <1>3, <1>4

\* rbd_try_lock, with a lock that is taken.
LEMMA BreakStep ==
    ASSUME LockInv, NEW d \in Client,
           LockInfo(d) \/ FindWatcher(d) \/ BlocklistAdd(d) \/ BreakLock(d)
    PROVE  LockInv'
<1>1. Shaped(dev[d]) /\ DevSafe(d, dev[d], holder, blocklist)  BY DEF LockInv
<1>2. CASE LockInfo(d) \/ FindWatcher(d)
  <2>1. PICK s, o :
          /\ Set(d, s)
          /\ \/ s = [dev[d] EXCEPT !.pc = "cls_lock"]
             \/ s = [dev[d] EXCEPT !.locker = o, !.pc = "watchers"]
             \/ s = [dev[d] EXCEPT !.owner = o, !.sem = FALSE,
                                   !.pc = "request", !.locker = NoCid]
             \/ s = [dev[d] EXCEPT !.pc = "blocklist"]
    BY <1>2 DEF LockInfo, FindWatcher, Goto
  <2>2. Shaped(s) /\ s.lock = dev[d].lock /\ s.cookie = dev[d].cookie
        /\ s.io = dev[d].io
        /\ s.pc \in {"cls_lock", "watchers", "request", "blocklist"}
    <3>1. CASE s = [dev[d] EXCEPT !.pc = "cls_lock"]
      BY <1>1, <3>1 DEF Shaped, NewDev
    <3>2. CASE s = [dev[d] EXCEPT !.locker = o, !.pc = "watchers"]
      BY <1>1, <3>2 DEF Shaped, NewDev
    <3>3. CASE s = [dev[d] EXCEPT !.owner = o, !.sem = FALSE,
                                  !.pc = "request", !.locker = NoCid]
      BY <1>1, <3>3 DEF Shaped, NewDev
    <3>4. CASE s = [dev[d] EXCEPT !.pc = "blocklist"]
      BY <1>1, <3>4 DEF Shaped, NewDev
    <3> QED  BY <2>1, <3>1, <3>2, <3>3, <3>4
  <2>3. UNCHANGED <<holder, blocklist>>  BY <1>2 DEF LockInfo, FindWatcher
  <2> QED  BY <2>1, <2>2, <2>3, MovedDevice
<1>3. CASE BlocklistAdd(d)
  <2> DEFINE s == [dev[d] EXCEPT !.pc = "break"]
  <2>1. Set(d, s) /\ holder' = holder
        /\ blocklist' = blocklist \union {dev[d].locker[1]}
    BY <1>3 DEF BlocklistAdd, Goto
  <2>2. Shaped(s) /\ s.lock = dev[d].lock /\ s.cookie = dev[d].cookie
        /\ s.io = dev[d].io /\ s.pc = "break" /\ s.locker = dev[d].locker
    BY <1>1 DEF Shaped, NewDev
  <2> HIDE DEF s
  <2>3. DevSafe(d, s, holder', blocklist')
    BY <1>1, <2>1, <2>2 DEF DevSafe, IsOwner
  <2> QED  BY <2>1, <2>2, <2>3, OneDevice
<1>4. CASE BreakLock(d)
  <2> DEFINE s == [dev[d] EXCEPT !.pc = "cls_lock"]
  <2>1. /\ Set(d, s) /\ blocklist' = blocklist
        /\ holder' = IF holder = dev[d].locker THEN NoCid ELSE holder
        /\ dev[d].pc = "break"
    BY <1>4 DEF BreakLock, Goto, At
  <2>2. Shaped(s) /\ s.lock = dev[d].lock /\ s.cookie = dev[d].cookie
        /\ s.io = dev[d].io /\ s.pc = "cls_lock"
    BY <1>1 DEF Shaped, NewDev
  <2> HIDE DEF s
  <2>3. dev[d].locker[1] \in blocklist  BY <1>1, <2>1 DEF DevSafe
  <2>4. \A e \in Client :
          holder' # holder /\ IsOwner(dev[e]) => e \in blocklist
    BY <2>1, <2>3 DEF LockInv, DevSafe
  <2>5. DevSafe(d, s, holder', blocklist')
    BY <1>1, <2>1, <2>2, <2>4 DEF DevSafe, IsOwner
  <2> QED  BY <2>1, <2>2, <2>4, <2>5, OneDevice
<1> QED  BY <1>2, <1>3, <1>4

\* The notifications: sent, answered, and acknowledged.
LEMMA NotifyStep ==
    ASSUME LockInv, NEW d \in Client,
           \/ SendNotify(d) \/ NotifyDone(d) \/ NotifyTimeout(d)
           \/ \E c \in Client : WatchCb(d, c)
    PROVE  LockInv'
<1>1. Shaped(dev[d])  BY DEF LockInv
<1>2. /\ Ended(dev[d], Finish(dev[d]))
      /\ Ended(dev[d], Finish(Delay(dev[d], "lock")))
      /\ Ended(dev[d], Finish(WakeLockWaiters(dev[d], "EROFS")))
  BY <1>1, FinishEnded, KickAlike, AlikeEnded, WakeEnded
<1>3. ASSUME NEW pc, pc \in {"wait", "start"},
             Set(d, [dev[d] EXCEPT !.pc = pc]), UNCHANGED <<holder, blocklist>>
      PROVE  LockInv'
  <2> DEFINE s == [dev[d] EXCEPT !.pc = pc]
  <2>1. Shaped(s) /\ s.lock = dev[d].lock /\ s.cookie = dev[d].cookie
        /\ s.io = dev[d].io /\ s.pc = pc
    BY <1>1 DEF Shaped, NewDev
  <2>2. Set(d, s)  BY <1>3
  <2> HIDE DEF s
  <2> QED  BY <1>3, <2>1, <2>2, MovedDevice
<1>4. CASE SendNotify(d)
  <2>1. UNCHANGED <<holder, blocklist>>  BY <1>4 DEF SendNotify
  <2>2. \/ Set(d, Finish(Delay(dev[d], "lock")))
        \/ Set(d, Finish(dev[d]))
        \/ Set(d, [dev[d] EXCEPT !.pc = "wait"])
    BY <1>4 DEF SendNotify, Goto
  <2> QED  BY <1>2, <1>3, <2>1, <2>2, QuietDevice
<1>5. CASE Replied(d)
  <2>1. UNCHANGED <<holder, blocklist>>  BY <1>5 DEF Replied
  <2>2. \/ Set(d, Finish(dev[d]))
        \/ Set(d, [dev[d] EXCEPT !.pc = "start"])
        \/ Set(d, Finish(WakeLockWaiters(dev[d], "EROFS")))
        \/ Set(d, Finish(Delay(dev[d], "lock")))
    BY <1>5 DEF Replied
  <2> QED  BY <1>2, <1>3, <2>1, <2>2, QuietDevice
<1>6. ASSUME NEW c \in Client, WatchCb(d, c) PROVE LockInv'
  <2>1. UNCHANGED <<holder, blocklist>>  BY <1>6 DEF WatchCb
  <2>2. PICK cid, s :
          /\ Set(d, s)
          /\ \/ s = HandleRequest(d, cid).dev
             \/ s = HandleAcquired(dev[d], cid)
             \/ s = HandleReleased(dev[d], cid)
    <3> DEFINE cid == notify[c].cid
    <3>1. \/ Set(d, HandleRequest(d, cid).dev)
          \/ Set(d, HandleAcquired(dev[d], cid))
          \/ Set(d, HandleReleased(dev[d], cid))
      BY <1>6 DEF WatchCb
    <3> QED  BY <3>1
  <2>3. Alike(dev[d], s)  BY <1>1, <2>2, HandlersAlike
  <2> QED  BY <2>1, <2>2, <2>3, QuietDevice
<1> QED  BY <1>4, <1>5, <1>6 DEF NotifyDone, NotifyTimeout

\* rbd_quiesce_lock of a lock that is held: with requests running it waits, with
\* none it keeps lock_rwsem for the call that follows.
LEMMA QuiesceDevice ==
    ASSUME LockInv, NEW d \in Client, IsOwner(dev[d]),
           NEW next, next \in {"cls_unlock", "set_cookie"},
           Set(d, Quiesce(dev[d], next)), UNCHANGED <<holder, blocklist>>
    PROVE  LockInv'
<1>1. Shaped(dev[d]) /\ DevSafe(d, dev[d], holder, blocklist)  BY DEF LockInv
<1>2. \/ Set(d, Bug(dev[d]))
      \/ /\ Running(dev[d]) = 0
         /\ Set(d, [dev[d] EXCEPT !.lock = "RELEASING", !.sem = TRUE, !.pc = next])
      \/ Set(d, [dev[d] EXCEPT !.lock = "RELEASING", !.pc = "drain"])
  BY DEF Quiesce
<1>3. CASE Set(d, Bug(dev[d]))
  BY <1>1, <1>3, FinishEnded, QuietDevice
<1>4. CASE /\ Running(dev[d]) = 0
           /\ Set(d, [dev[d] EXCEPT !.lock = "RELEASING", !.sem = TRUE,
                                    !.pc = next])
  <2> DEFINE s == [dev[d] EXCEPT !.lock = "RELEASING", !.sem = TRUE, !.pc = next]
  <2>1. Shaped(s) /\ s.lock = "RELEASING" /\ s.cookie = dev[d].cookie
        /\ s.io = dev[d].io /\ s.pc = next /\ s.sem = TRUE
    BY <1>1 DEF Shaped, NewDev
  <2>2. Set(d, s) /\ dev[d].io = 0  BY <1>1, <1>4 DEF Running, Shaped
  <2> HIDE DEF s
  <2>3. DevSafe(d, s, holder, blocklist)
    BY <1>1, <2>1, <2>2 DEF DevSafe, IsOwner
  <2> QED  BY <2>1, <2>2, <2>3, OneDevice
<1>5. CASE Set(d, [dev[d] EXCEPT !.lock = "RELEASING", !.pc = "drain"])
  <2> DEFINE s == [dev[d] EXCEPT !.lock = "RELEASING", !.pc = "drain"]
  <2>1. Shaped(s) /\ s.lock = "RELEASING" /\ s.cookie = dev[d].cookie
        /\ s.io = dev[d].io /\ s.pc = "drain"
    BY <1>1 DEF Shaped, NewDev
  <2>2. Set(d, s)  BY <1>5
  <2> HIDE DEF s
  <2>3. DevSafe(d, s, holder, blocklist)  BY <1>1, <2>1 DEF DevSafe, IsOwner
  <2> QED  BY <2>1, <2>2, <2>3, OneDevice
<1> QED  BY <1>2, <1>3, <1>4, <1>5

\* The lock is given up: s is the device after __rbd_release_lock.
LEMMA UnlockedDevice ==
    ASSUME LockInv, NEW d \in Client, NEW s, Set(d, s), NEW u, Ended(u, s),
           u.lock = "UNLOCKED", u.io = 0,
           ClsUnlock(d, dev[d].cookie), blocklist' = blocklist
    PROVE  LockInv'
<1>1. Shaped(s) /\ DevSafe(d, s, holder', blocklist')
  BY DEF Ended, DevSafe, IsOwner
<1> QED  BY <1>1, UnlockFenced, OneDevice

\* rbd_release_lock_work.
LEMMA ReleaseStep ==
    ASSUME LockInv, NEW d \in Client,
           ReleaseLock(d) \/ Drained(d) \/ ReleaseUnlock(d)
    PROVE  LockInv'
<1>1. Shaped(dev[d]) /\ DevSafe(d, dev[d], holder, blocklist)  BY DEF LockInv
<1>2. CASE ReleaseLock(d)
  <2>1. UNCHANGED <<holder, blocklist>>  BY <1>2 DEF ReleaseLock
  <2>2. \/ Set(d, Finish(dev[d]))
        \/ dev[d].lock = "LOCKED" /\ Set(d, Quiesce(dev[d], "cls_unlock"))
    BY <1>2 DEF ReleaseLock
  <2> QED  BY <1>1, <2>1, <2>2, FinishEnded, QuietDevice, QuiesceDevice DEF IsOwner
<1>3. CASE Drained(d)
  <2> DEFINE n == dev[d].releasing - 1
             r == [dev[d] EXCEPT !.releasing = n]
  <2> HIDE DEF n
  <2>1. Alike(dev[d], r)  BY <1>1 DEF Alike, Shaped, NewDev
  <2>2. UNCHANGED <<holder, blocklist>>  BY <1>3 DEF Drained
  <2>3. PICK pc :
          \/ Set(d, Finish(r)) \/ Set(d, Bug(r))
          \/ /\ r.lock = "RELEASING" /\ ~(Running(r) > 0)
             /\ pc \in {"cls_unlock", "set_cookie"}
             /\ Set(d, [r EXCEPT !.sem = TRUE, !.pc = pc])
    <3> DEFINE p == IF r.task = "unlock" THEN "cls_unlock" ELSE "set_cookie"
    <3>1. r = [dev[d] EXCEPT !.releasing = @ - 1]
      BY <1>1 DEF n, Shaped, NewDev
    <3> HIDE DEF r
    <3>2. \/ Set(d, Finish(r)) \/ Set(d, Bug(r))
          \/ /\ r.lock = "RELEASING" /\ ~(Running(r) > 0)
             /\ Set(d, [r EXCEPT !.sem = TRUE, !.pc = p])
      BY <1>3, <3>1 DEF Drained
    <3>3. p \in {"cls_unlock", "set_cookie"}  OBVIOUS
    <3> HIDE DEF p
    <3> QED  BY <3>2, <3>3
  <2> HIDE DEF r
  <2>4. CASE Set(d, Finish(r)) \/ Set(d, Bug(r))
    <3>1. Ended(dev[d], Finish(r)) /\ Ended(dev[d], Bug(r))
      BY <2>1, FinishEnded DEF Alike, Ended
    <3> QED  BY <2>2, <2>4, <3>1, QuietDevice
  <2>5. CASE /\ r.lock = "RELEASING" /\ ~(Running(r) > 0)
             /\ pc \in {"cls_unlock", "set_cookie"}
             /\ Set(d, [r EXCEPT !.sem = TRUE, !.pc = pc])
    <3> DEFINE s == [r EXCEPT !.sem = TRUE, !.pc = pc]
    <3>1. Shaped(s) /\ s.lock = "RELEASING" /\ s.cookie = dev[d].cookie
          /\ s.io = r.io /\ s.sem = TRUE /\ s.pc = pc
      BY <2>1, <2>5 DEF Alike, Shaped, NewDev
    <3>2. r.io = 0 /\ r.lock = dev[d].lock
      BY <2>1, <2>5 DEF Alike, Shaped, Running
    <3>3. Set(d, s)  BY <2>5
    <3> HIDE DEF s
    <3>4. DevSafe(d, s, holder, blocklist)
      BY <1>1, <2>5, <3>1, <3>2 DEF DevSafe, IsOwner
    <3> QED  BY <2>2, <3>1, <3>3, <3>4, OneDevice
  <2> QED  BY <2>3, <2>4, <2>5
<1>4. CASE ReleaseUnlock(d)
  <2> DEFINE u == Unlocked(dev[d])
             s == Finish(Cancel(u, "lock"))
  <2>1. Set(d, s) /\ ClsUnlock(d, dev[d].cookie) /\ blocklist' = blocklist
        /\ dev[d].pc = "cls_unlock"
    BY <1>4 DEF ReleaseUnlock, At
  <2>2. Shaped(u) /\ u.lock = "UNLOCKED" /\ u.io = dev[d].io
    BY <1>1, UnlockedShape
  <2>3. u.io = 0  BY <1>1, <2>1, <2>2 DEF DevSafe
  <2> HIDE DEF u
  <2>4. Ended(u, s)  BY <2>2, CancelAlike, AlikeEnded
  <2> HIDE DEF s
  <2> QED  BY <2>1, <2>2, <2>3, <2>4, UnlockedDevice
<1> QED  BY <1>2, <1>3, <1>4

\* rbd_reregister_watch, and a machine that dies.
LEMMA WatchStep ==
    ASSUME LockInv, NEW d \in Client,
           ReregisterWatch(d) \/ Reacquire(d) \/ SetCookie(d) \/ Crash(d)
    PROVE  LockInv'
<1>1. Shaped(dev[d]) /\ DevSafe(d, dev[d], holder, blocklist)  BY DEF LockInv
<1>2. CASE ReregisterWatch(d)
  <2> DEFINE n == dev[d].wcookie + 1
             s == [dev[d] EXCEPT !.watch = "REGISTERED", !.wcookie = n,
                                 !.pc = "reacquire"]
  <2>1. UNCHANGED <<holder, blocklist>>  BY <1>2 DEF ReregisterWatch
  <2>2. \/ Set(d, Finish(dev[d]))
        \/ Set(d, Finish(WakeLockWaiters(dev[d], "EBLOCKLISTED")))
        \/ Set(d, Finish(Delay(dev[d], "watch")))
        \/ Set(d, s)
    BY <1>1, <1>2 DEF ReregisterWatch, Shaped, NewDev
  <2> HIDE DEF n
  <2>3. Shaped(s) /\ s.lock = dev[d].lock /\ s.cookie = dev[d].cookie
        /\ s.io = dev[d].io /\ s.pc = "reacquire"
    BY <1>1 DEF Shaped, NewDev
  <2> HIDE DEF s
  <2>4. CASE Set(d, s)  BY <2>1, <2>3, <2>4, MovedDevice
  <2>5. /\ Ended(dev[d], Finish(dev[d]))
        /\ Ended(dev[d], Finish(WakeLockWaiters(dev[d], "EBLOCKLISTED")))
        /\ Ended(dev[d], Finish(Delay(dev[d], "watch")))
    BY <1>1, FinishEnded, WakeEnded, KickAlike, AlikeEnded
  <2> QED  BY <2>1, <2>2, <2>4, <2>5, QuietDevice
<1>3. CASE Reacquire(d)
  <2>1. UNCHANGED <<holder, blocklist>>  BY <1>3 DEF Reacquire
  <2>2. \/ Set(d, Finish(dev[d]))
        \/ dev[d].lock = "LOCKED" /\ Set(d, Quiesce(dev[d], "set_cookie"))
    BY <1>3 DEF Reacquire
  <2> QED  BY <1>1, <2>1, <2>2, FinishEnded, QuietDevice, QuiesceDevice DEF IsOwner
<1>4. CASE SetCookie(d)
  <2>1. dev[d].io = 0 /\ blocklist' = blocklist
    BY <1>1, <1>4 DEF SetCookie, At, DevSafe
  <2>2. CASE /\ holder = <<d, dev[d].cookie>>
             /\ holder' = <<d, dev[d].wcookie>>
             /\ Set(d, Finish(WakeLockWaiters(Locked(d, dev[d]), "none")))
    <3> DEFINE l == Locked(d, dev[d])
               s == Finish(WakeLockWaiters(l, "none"))
    <3>1. Shaped(l) /\ l.lock = "LOCKED" /\ l.cookie = dev[d].wcookie /\ l.io = 0
      BY <1>1, <2>1, LockedShape
    <3> HIDE DEF l
    <3>2. Ended(l, s)  BY <3>1, WakeEnded
    <3>3. Set(d, s)  BY <2>2 DEF l
    <3> HIDE DEF s
    <3>4. Shaped(s) /\ DevSafe(d, s, holder', blocklist')
      BY <2>2, <3>1, <3>2 DEF Ended, DevSafe, IsOwner
    <3>5. \A e \in Client \ {d} : IsOwner(dev[e]) => e \in blocklist
      BY <2>2, OthersFenced
    <3> QED  BY <2>1, <3>3, <3>4, <3>5, OneDevice
  <2>3. CASE /\ ClsUnlock(d, dev[d].cookie)
             /\ Set(d, Finish(Queue(Unlocked(dev[d]), "lock")))
    <3> DEFINE u == Unlocked(dev[d])
               s == Finish(Queue(u, "lock"))
    <3>1. Shaped(u) /\ u.lock = "UNLOCKED" /\ u.io = 0
      BY <1>1, <2>1, UnlockedShape
    <3> HIDE DEF u
    <3>2. Ended(u, s)  BY <3>1, QueueAlike, AlikeEnded
    <3>3. Set(d, s)  BY <2>3 DEF u
    <3> HIDE DEF s
    <3> QED  BY <2>1, <2>3, <3>1, <3>2, <3>3, UnlockedDevice
  <2> QED  BY <1>4, <2>2, <2>3 DEF SetCookie
<1>5. CASE Crash(d)
  <2> DEFINE s == [NewDev EXCEPT !.st = "dead", !.wcookie = dev[d].wcookie]
  <2>1. Set(d, s) /\ UNCHANGED <<holder, blocklist>>  BY <1>5 DEF Crash
  <2>2. Shaped(s) /\ s.lock = "UNLOCKED" /\ s.io = 0 /\ s.pc = "none"
    BY DEF Shaped, NewDev
  <2> HIDE DEF s
  <2>3. DevSafe(d, s, holder, blocklist)  BY <2>2 DEF DevSafe, IsOwner
  <2> QED  BY <2>1, <2>2, <2>3, OneDevice
<1> QED  BY <1>2, <1>3, <1>4, <1>5

------------------------------------------------------------------------------
\* The lock of the cluster and what the devices believe of it agree, up to
\* fencing, in every reachable state: rbd_lock, rbd_unlock, rbd_reacquire_lock and
\* rbd_try_lock's breaking of a lock all keep LockInv, for any number of clients,
\* requests, watches and faults.
THEOREM LockInvariant == Spec => []LockInv
<1>1. Init => LockInv
  <2> SUFFICES ASSUME Init PROVE LockInv  OBVIOUS
  <2>1. Shaped(NewDev) /\ NewDev.lock = "UNLOCKED" /\ NewDev.io = 0
        /\ NewDev.pc = "none"
    BY DEF Shaped, NewDev
  <2>2. DOMAIN dev = Client /\ \A d \in Client : dev[d] = NewDev  BY DEF Init
  <2> QED  BY <2>1, <2>2 DEF LockInv, DevSafe, IsOwner
<1>2. LockInv /\ [Next]_vars => LockInv'
  <2> SUFFICES ASSUME LockInv, [Next]_vars PROVE LockInv'  OBVIOUS
  <2>1. ASSUME NEW d \in Client, Step(d) PROVE LockInv'
    BY <2>1, MapStep, RemoveStep, RequestStep, AcquireStep, BreakStep,
       NotifyStep, ReleaseStep, WatchStep DEF Step
  <2>2. CASE Next
    BY <2>1, <2>2, MapStep, RequestStep, QueueStep, NotifyStep, WatchStep
       DEF Next
  <2>3. CASE UNCHANGED vars  BY <2>3 DEF vars, LockInv
  <2> QED  BY <2>2, <2>3
<1> QED  BY <1>1, <1>2, PTL DEF Spec

\* Of two devices that both believe they own the lock, one has been blocklisted:
\* rbd_try_lock fences a locker before it breaks its lock.
THEOREM LockExcludes == Spec => []OneOwner
<1>1. LockInv => OneOwner  BY DEF LockInv, DevSafe, OneOwner
<1> QED  BY <1>1, LockInvariant, PTL

\* I/O that is in flight is covered by the cluster's lock, or its client is fenced:
\* rbd_quiesce_lock drains it before the lock is given up.
THEOREM IoIsCovered == Spec => []IoUnderLock
<1>1. LockInv => IoUnderLock  BY DEF LockInv, DevSafe, IoUnderLock
<1> QED  BY <1>1, LockInvariant, PTL
=============================================================================
