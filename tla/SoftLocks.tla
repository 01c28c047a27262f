----------------------------- MODULE SoftLocks -----------------------------
(***************************************************************************)
(* The fibers of one Thread together with the two classes they wait on:    *)
(* the Forth classes Lock and Semaphore (namespace OLock in                *)
(* ForthLib/Thread.cpp).  Both keep a deque of the fibers that they        *)
(* blocked, and both hand what was released to the one at its front.       *)
(*                                                                         *)
(* All fibers of a Thread run on one system thread, so the pthread mutex   *)
(* each of these ops holds while it works is never contended here and is   *)
(* left out: an op is one step.                                            *)
(***************************************************************************)
EXTENDS Fibers, Integers, Sequences, Functions

CONSTANTS
    Locks,        \* the Lock objects
    Semaphores,   \* the Semaphore objects
    MaxDepth,     \* bound: how deep a program nests grabs of one lock
    Counts,       \* the counts that programs initialise semaphores with
    MaxCount,     \* bound: how high a program lets a semaphore count
    MaxWaiters    \* bound: how long the deque of a semaphore gets

SyncOps == {"grab", "tryGrab", "ungrab", "init", "wait", "post"}

ASSUME SoftLocksAssumption ==
    /\ MaxDepth \in Nat
    /\ MaxCount \in Nat
    /\ MaxWaiters \in Nat
    /\ Counts \subseteq Int
    /\ Program \in [Fibers -> SUBSET (FiberOps \cup SyncOps)]

VARIABLES
    lockHolder,    \* oLockStruct::pLockHolder
    lockDepth,     \* oLockStruct::lockDepth
    lockQueue,     \* oLockStruct::pBlockedFibers
    semCount,      \* oSemaphoreStruct::count
    semQueue,      \* oSemaphoreStruct::pBlockedThreads
    grabs          \* history: grabs less ungrabs that fiber f did of lock l

lockVars == <<lockHolder, lockDepth, lockQueue, grabs>>
semVars == <<semCount, semQueue>>
vars == <<fiberVars, lockVars, semVars>>

TypeOK ==
    /\ FiberTypeOK
    /\ lockHolder \in [Locks -> Fibers \cup {NoFiber}]
    /\ lockDepth \in [Locks -> Nat]
    /\ lockQueue \in [Locks -> Seq(Fibers)]
    /\ semCount \in [Semaphores -> Int]
    /\ semQueue \in [Semaphores -> Seq(Fibers)]
    /\ grabs \in [Locks -> [Fibers -> Nat]]

\* oLockNew and oSemaphoreNew.
Init ==
    /\ FiberInit
    /\ lockHolder = [l \in Locks |-> NoFiber]
    /\ lockDepth = [l \in Locks |-> 0]
    /\ lockQueue = [l \in Locks |-> <<>>]
    /\ semCount = [s \in Semaphores |-> 0]
    /\ semQueue = [s \in Semaphores |-> <<>>]
    /\ grabs = [l \in Locks |-> [f \in Fibers |-> 0]]

-----------------------------------------------------------------------------
(* Lock *)

\* Mutation: the op that blocks its fiber does not set kYield.
BlockWithoutYield ==
    /\ runState' = [runState EXCEPT ![pActive] = "Blocked"]
    /\ UNCHANGED <<wakeupTime, pActive, activeIndex, inLoop, mainError, now,
                   fellThrough, leftAway>>

Block == YieldWith([runState EXCEPT ![pActive] = "Blocked"], wakeupTime)

\* Mutation: the fiber taken off the deque is not woken.
UnblockWithoutWake(f) == YieldWith(runState, wakeupTime)

Unblock(f) ==
    YieldWith([runState EXCEPT ![f] = "Ready"], [wakeupTime EXCEPT ![f] = 0])

\* The part that grab and tryGrab share: the lock is free, or it is the
\* fiber's own already.
Acquire(l) ==
    /\ lockHolder[l] \in {NoFiber, pActive}
    /\ lockHolder' = [lockHolder EXCEPT ![l] = pActive]
    /\ lockDepth' = [lockDepth EXCEPT ![l] = @ + 1]
    /\ grabs' = [grabs EXCEPT ![l][pActive] = @ + 1]
    /\ KeepRunning
    /\ UNCHANGED lockQueue

\* Lock.grab: a fiber that has to wait is queued and goes on, holding the
\* lock, when it is run again.
Grab(l) ==
    /\ Running("grab")
    /\ grabs[l][pActive] < MaxDepth
    /\ \/ Acquire(l)
       \/ /\ lockHolder[l] \notin {NoFiber, pActive}
          /\ lockQueue' = [lockQueue EXCEPT ![l] = Append(@, pActive)]
          /\ grabs' = [grabs EXCEPT ![l][pActive] = @ + 1]
          /\ Block
          /\ UNCHANGED <<lockHolder, lockDepth>>
    /\ UNCHANGED <<joinHead, nextJoiner, semVars>>

\* Lock.tryGrab that returns true; one that returns false changes nothing.
TryGrab(l) ==
    /\ Running("tryGrab")
    /\ grabs[l][pActive] < MaxDepth
    /\ Acquire(l)
    /\ UNCHANGED <<joinHead, nextJoiner, semVars>>

\* Mutation: the depth is not counted up again for the new holder.
HandOverDepthless(l) ==
    /\ lockHolder' = [lockHolder EXCEPT ![l] = Head(lockQueue[l])]
    /\ lockQueue' = [lockQueue EXCEPT ![l] = Tail(@)]
    /\ Unblock(Head(lockQueue[l]))
    /\ lockDepth' = [lockDepth EXCEPT ![l] = @ - 1]

\* Mutation: the lock is freed, and the fiber woken has to take it itself.
HandOverNothing(l) ==
    /\ lockHolder' = [lockHolder EXCEPT ![l] = NoFiber]
    /\ lockQueue' = [lockQueue EXCEPT ![l] = Tail(@)]
    /\ Unblock(Head(lockQueue[l]))
    /\ lockDepth' = [lockDepth EXCEPT ![l] = @ - 1]

\* Mutation: the fiber that came last is served first.
HandOverLast(l) ==
    LET f == lockQueue[l][Len(lockQueue[l])] IN
    /\ lockHolder' = [lockHolder EXCEPT ![l] = f]
    /\ lockQueue' = [lockQueue EXCEPT ![l] = SubSeq(@, 1, Len(@) - 1)]
    /\ Unblock(f)
    /\ UNCHANGED lockDepth

\* The lock goes to the fiber at the front of the queue, which is woken.
HandOver(l) ==
    /\ lockHolder' = [lockHolder EXCEPT ![l] = Head(lockQueue[l])]
    /\ lockQueue' = [lockQueue EXCEPT ![l] = Tail(@)]
    /\ Unblock(Head(lockQueue[l]))
    /\ UNCHANGED lockDepth

\* Lock.ungrab by the holder: the last one frees the lock or hands it to the
\* fiber at the front of the queue, which yields.
Ungrab(l) ==
    /\ Running("ungrab")
    /\ lockHolder[l] = pActive
    /\ lockDepth[l] > 0
    /\ grabs' = [grabs EXCEPT ![l][pActive] = IF @ > 0 THEN @ - 1 ELSE 0]
    /\ IF lockDepth[l] > 1 \/ lockQueue[l] = <<>>
       THEN /\ lockDepth' = [lockDepth EXCEPT ![l] = @ - 1]
            /\ lockHolder' = [lockHolder EXCEPT ![l] =
                                 IF lockDepth[l] > 1 THEN @ ELSE NoFiber]
            /\ KeepRunning
            /\ UNCHANGED lockQueue
       ELSE HandOver(l)
    /\ UNCHANGED <<joinHead, nextJoiner, semVars>>

\* Lock.ungrab by any other fiber, and the checks of lockDepth against a
\* lock without a holder: an error reported to the engine.
LockError(l) ==
    /\ \/ /\ Running("ungrab")
          /\ lockHolder[l] # pActive \/ lockDepth[l] = 0
       \/ /\ Running("grab") \/ Running("tryGrab")
          /\ lockHolder[l] = NoFiber /\ lockDepth[l] # 0
    /\ SetError
    /\ UNCHANGED <<joinHead, nextJoiner, lockVars, semVars>>

-----------------------------------------------------------------------------
(* Semaphore *)

\* Semaphore.init stores a count.  A polite program does it before anybody
\* waits.
InitSemaphore(s, count) ==
    /\ Running("init")
    /\ Polite => semQueue[s] = <<>>
    /\ semCount' = [semCount EXCEPT ![s] = count]
    /\ KeepRunning
    /\ UNCHANGED <<joinHead, nextJoiner, lockVars, semQueue>>

\* Semaphore.wait
Wait(s) ==
    /\ Running("wait")
    /\ \/ /\ semCount[s] > 0
          /\ semCount' = [semCount EXCEPT ![s] = @ - 1]
          /\ KeepRunning
          /\ UNCHANGED semQueue
       \/ /\ semCount[s] <= 0
          /\ Len(semQueue[s]) < MaxWaiters
          /\ semQueue' = [semQueue EXCEPT ![s] = Append(@, pActive)]
          /\ Block
          /\ UNCHANGED semCount
    /\ UNCHANGED <<joinHead, nextJoiner, lockVars>>

\* Mutation: the token handed to a waiter stays in the count as well.
PostTwice(s) ==
    /\ Running("post")
    /\ semCount[s] < MaxCount
    /\ semCount' = [semCount EXCEPT ![s] = @ + 1]
    /\ IF semQueue[s] = <<>> \/ semCount[s] < 0
       THEN KeepRunning /\ UNCHANGED semQueue
       ELSE /\ semQueue' = [semQueue EXCEPT ![s] = Tail(@)]
            /\ Unblock(Head(semQueue[s]))
    /\ UNCHANGED <<joinHead, nextJoiner, lockVars>>

\* Semaphore.post: the count goes up, and if that makes it positive down
\* again for the fiber at the front of the queue, which is woken.
Post(s) ==
    /\ Running("post")
    /\ \/ /\ semQueue[s] = <<>> \/ semCount[s] < 0
          /\ semCount[s] < MaxCount
          /\ semCount' = [semCount EXCEPT ![s] = @ + 1]
          /\ KeepRunning
          /\ UNCHANGED semQueue
       \/ /\ semQueue[s] # <<>> /\ semCount[s] >= 0
          /\ semQueue' = [semQueue EXCEPT ![s] = Tail(@)]
          /\ Unblock(Head(semQueue[s]))
          /\ UNCHANGED semCount
    /\ UNCHANGED <<joinHead, nextJoiner, lockVars>>

-----------------------------------------------------------------------------
FiberStep == FiberNext /\ UNCHANGED <<lockVars, semVars>>

LockStep(l) == Grab(l) \/ TryGrab(l) \/ Ungrab(l) \/ LockError(l)

SemaphoreStep(s) ==
    Wait(s) \/ Post(s) \/ \E count \in Counts : InitSemaphore(s, count)

Next ==
    \/ FiberStep
    \/ \E l \in Locks : LockStep(l)
    \/ \E s \in Semaphores : SemaphoreStep(s)

Spec == Init /\ [][Next]_vars

\* Cooperative programs that give back what they take: every fiber that runs
\* yields again and again, and one that comes to hold a lock at some depth in
\* turn after turn will at last ungrab it there.  The shell goes on after an
\* error.
FairSpec ==
    /\ Spec
    /\ WF_vars(Yield /\ UNCHANGED <<lockVars, semVars>>)
    /\ WF_vars(ExecuteOps /\ UNCHANGED <<lockVars, semVars>>)
    /\ \A f \in Fibers, l \in Locks, depth \in 1 .. MaxDepth :
          SF_vars(pActive = f /\ lockDepth[l] = depth /\ Ungrab(l))

-----------------------------------------------------------------------------
(* Properties *)

\* The fibers in one of the deques.
InLockQueue(f) == \E l \in Locks : f \in Range(lockQueue[l])
InSemQueue(f) == \E s \in Semaphores : f \in Range(semQueue[s])

\* A lock is held exactly while its depth is positive, and only a held lock
\* has fibers queued on it: whoever releases it does not leave them behind.
LockCoherent ==
    \A l \in Locks :
        /\ lockHolder[l] = NoFiber <=> lockDepth[l] = 0
        /\ lockQueue[l] # <<>> => lockHolder[l] # NoFiber

\* Mutual exclusion: a fiber that runs with a lock grabbed and not yet
\* ungrabbed is its holder, with the depth that it thinks it has, until
\* InnerLoop has lost track of the fibers.
MutualExclusion ==
    inLoop /\ OnTrack =>
        \A l \in Locks :
            grabs[l][pActive] > 0 =>
                /\ lockHolder[l] = pActive
                /\ lockDepth[l] = grabs[l][pActive]

\* A fiber that waits for a lock, a semaphore or a fiber does not run.
WaitersDoNotRun ==
    inLoop /\ OnTrack =>
        /\ ~InLockQueue(pActive)
        /\ ~InSemQueue(pActive)
        /\ \A t \in Fibers : pActive \notin Joiners(t)

\* The places in the deques and join lists where a fiber can wait, and that f
\* is the one at p.
Places ==
    {<<"lock", l, i>> : l \in Locks, i \in 1 .. NumFibers}
    \cup {<<"semaphore", s, i>> : s \in Semaphores, i \in 1 .. NumFibers}
    \cup {<<"join", t, 1>> : t \in Fibers}

IsAt(f, p) ==
    CASE p[1] = "lock" -> p[3] <= Len(lockQueue[p[2]])
                            /\ lockQueue[p[2]][p[3]] = f
      [] p[1] = "semaphore" -> p[3] <= Len(semQueue[p[2]])
                            /\ semQueue[p[2]][p[3]] = f
      [] p[1] = "join" -> f \in Joiners(p[2])

\* No wakeup is lost: a blocked fiber is still queued where somebody will
\* find it, and in one place only, once.
NoLostWaiter ==
    OnTrack =>
        \A f \in Fibers : runState[f] = "Blocked" =>
            \E p \in Places :
                IsAt(f, p) /\ \A q \in Places : IsAt(f, q) => q = p

\* A semaphore never holds a token back from a fiber that waits for it.
NoTokenWhileWaiting ==
    \A s \in Semaphores : semQueue[s] # <<>> => semCount[s] <= 0

\* A fiber that waits for a lock gets it, if those before it give it back.
WaiterGetsLock ==
    \A f \in Fibers, l \in Locks :
        (f \in Range(lockQueue[l]) /\ OnTrack)
            ~> (lockHolder[l] = f \/ ~OnTrack)

=============================================================================
