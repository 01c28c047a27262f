--------------------------- MODULE ThreadsProofs ---------------------------
(***************************************************************************)
(* What TLAPS proves about Threads, for any number of Threads, of which    *)
(* each is started at most once and exits itself: types, that join returns *)
(* after the run it waits for, that no joiner sleeps through an exit, and  *)
(* that nothing uses a deleted Thread.                                     *)
(***************************************************************************)
EXTENDS Threads, TLAPS

\* The thread u is at a step of exit or join at which it holds t's mutex.
Holds(u, t) ==
    /\ target[u] = t
    /\ at[u] \in {"setting", "signalling", "unlocking", "testing", "joined"}

MutexHasHolder == \A t, u \in Threads : exitMutex[t] = u <=> Holds(u, t)

\* A thread that exits does so itself.
ExitsItself == \A t \in Threads : at[t] \in Exiting => target[t] = t

\* Why a walk along the list ends at the Engine's own Thread.
LinkIsThread == \A t \in Threads : t # Main /\ object[t] = "live" => next[t] \in Threads

\* A Thread that was started once ends once.
OneRun ==
    \A t \in Threads :
        /\ starts[t] <= 1 /\ awaited[t] <= 1
        /\ starts[t] = 0 => at[t] = "nowhere" /\ runState[t] # "Exited" /\ ends[t] = 0
        /\ ends[t] > 0 => at[t] \in {"leaving", "nowhere"}

ExitedIsOver ==
    \A t \in Threads : runState[t] = "Exited" =>
        \/ at[t] \in {"signalling", "unlocking"}
        \/ at[t] \in {"leaving", "nowhere"} /\ ends[t] > 0

\* JoinMeansOver for those who have come back from join, too.
AwaitedIsOver ==
    \A u \in Threads :
        at[u] \notin {"joining", "testing", "waiting", "woken"} => ends[target[u]] >= awaited[u]

\* NoUseAfterDelete for those that are still to be created, too.
OnlyLiveIsUsed ==
    \A t \in Threads : object[t] # "live" =>
        /\ at[t] \in {"nowhere", "leaving"}
        /\ exitMutex[t] = NoThread
        /\ \A u \in Threads : at[u] \in Joining => target[u] # t

IInv ==
    /\ ThreadsTypeOK
    /\ MutexHasHolder
    /\ ExitsItself
    /\ LinkIsThread
    /\ OneRun
    /\ ExitedIsOver
    /\ AwaitedIsOver
    /\ NoLostWakeup
    /\ OnlyLiveIsUsed

-----------------------------------------------------------------------------

LEMMA InitIInv == Init => IInv
  BY ThreadsAssumption DEF Init, IInv, ThreadsTypeOK, MutexHasHolder, Holds, ExitsItself, LinkIsThread, OneRun,
     ExitedIsOver, AwaitedIsOver, NoLostWakeup, WaitingFor, OnlyLiveIsUsed, Places, Joining, Exiting

LEMMA CreateThreadKeeps ==
  ASSUME NEW u \in Threads, NEW t \in Threads, IInv, CreateThread(u, t)
  PROVE  IInv'
<1>1. ThreadsTypeOK'
  BY ThreadsAssumption DEF IInv, CreateThread, Goes, ThreadsTypeOK, Places, Joining,
     Exiting
<1>2. MutexHasHolder'
  BY ThreadsAssumption DEF IInv, CreateThread, Goes, ThreadsTypeOK, MutexHasHolder,
     Holds
<1>3. LinkIsThread'
  BY ThreadsAssumption DEF IInv, CreateThread, Goes, ThreadsTypeOK, LinkIsThread
<1>4. OneRun'
  BY DEF IInv, CreateThread, Goes, ThreadsTypeOK, OneRun
<1>5. ExitedIsOver'
  BY DEF IInv, CreateThread, Goes, ThreadsTypeOK, ExitedIsOver
<1>6. AwaitedIsOver'
  BY DEF IInv, CreateThread, Goes, ThreadsTypeOK, AwaitedIsOver
<1>7. NoLostWakeup'
  BY DEF IInv, CreateThread, Goes, ThreadsTypeOK, NoLostWakeup, WaitingFor
<1>8. OnlyLiveIsUsed'
  BY ThreadsAssumption DEF IInv, CreateThread, Goes, ThreadsTypeOK, OnlyLiveIsUsed,
     Joining
<1>9. ExitsItself'
  BY DEF IInv, CreateThread, Goes, ThreadsTypeOK, ExitsItself, Exiting
<1>10. QED
  BY <1>1, <1>2, <1>3, <1>4, <1>5, <1>6, <1>7, <1>8, <1>9 DEF IInv

LEMMA DestroyThreadKeeps ==
  ASSUME NEW u \in Threads, NEW t \in Threads, IInv, DestroyThread(u, t)
  PROVE  IInv'
<1>1. ThreadsTypeOK'
  BY ThreadsAssumption DEF IInv, DestroyThread, Unused, Unlink, ThreadsTypeOK, Places,
     Joining, Exiting, LinkIsThread
<1>2. LinkIsThread'
  BY ThreadsAssumption DEF IInv, DestroyThread, Unused, Unlink, ThreadsTypeOK,
     LinkIsThread
<1>3. OnlyLiveIsUsed'
  BY ThreadsAssumption DEF IInv, DestroyThread, Unused, Unlink, ThreadsTypeOK,
     OnlyLiveIsUsed, Joining, OneRun, AwaitedIsOver, MutexHasHolder, Holds,
     ExitsItself, Exiting
<1>4. MutexHasHolder' /\ ExitsItself' /\ OneRun' /\ ExitedIsOver' /\ AwaitedIsOver' /\ NoLostWakeup'
  BY DEF IInv, DestroyThread, MutexHasHolder, OneRun, ExitedIsOver, AwaitedIsOver,
     NoLostWakeup, Holds, WaitingFor, ExitsItself
<1>5. QED
  BY <1>1, <1>2, <1>3, <1>4 DEF IInv

LEMMA StartKeeps ==
  ASSUME NEW u \in Threads, NEW t \in Threads, IInv, Start(u, t), MaxStarts <= 1
  PROVE  IInv'
<1>1. ThreadsTypeOK'
  BY ThreadsAssumption DEF IInv, Start, Goes, ThreadsTypeOK, Places, Joining, Exiting
<1>2. MutexHasHolder'
  BY ThreadsAssumption DEF IInv, Start, Goes, ThreadsTypeOK, MutexHasHolder, Holds
<1>3. OneRun'
  BY ThreadsAssumption DEF IInv, Start, Goes, ThreadsTypeOK, OneRun
<1>4. ExitedIsOver'
  <2>1. starts[t] = 0
    <3>1. starts[t] \in Nat /\ starts[t] < MaxStarts
      BY DEF IInv, Start, ThreadsTypeOK
    <3>2. QED
      BY <3>1, ThreadsAssumption DEF ThreadsAssumption
  <2>2. runState[t] # "Exited"
    BY <2>1 DEF IInv, OneRun
  <2>3. QED
    BY <2>1, <2>2 DEF IInv, Start, Goes, ThreadsTypeOK, ExitedIsOver
<1>5. AwaitedIsOver'
  BY DEF IInv, Start, Goes, ThreadsTypeOK, AwaitedIsOver
<1>6. NoLostWakeup'
  BY DEF IInv, Start, Goes, ThreadsTypeOK, NoLostWakeup, WaitingFor
<1>7. OnlyLiveIsUsed'
  BY ThreadsAssumption DEF IInv, Start, Goes, ThreadsTypeOK, OnlyLiveIsUsed, Joining
<1>8. LinkIsThread'
  BY DEF IInv, Start, LinkIsThread
<1>9. ExitsItself'
  BY DEF IInv, Start, Goes, ThreadsTypeOK, ExitsItself, Exiting
<1>10. QED
  BY <1>1, <1>2, <1>3, <1>4, <1>5, <1>6, <1>7, <1>8, <1>9 DEF IInv

LEMMA JoinKeeps ==
  ASSUME NEW u \in Threads, NEW t \in Threads, IInv, Join(u, t)
  PROVE  IInv'
<1>1. ThreadsTypeOK'
  BY ThreadsAssumption DEF IInv, Join, Goes, ThreadsTypeOK, Places, Joining, Exiting
<1>2. MutexHasHolder'
  BY ThreadsAssumption DEF IInv, Join, Goes, ThreadsTypeOK, MutexHasHolder, Holds
<1>3. OneRun'
  BY DEF IInv, Join, Goes, ThreadsTypeOK, OneRun
<1>4. ExitedIsOver'
  BY DEF IInv, Join, Goes, ThreadsTypeOK, ExitedIsOver
<1>5. AwaitedIsOver'
  BY DEF IInv, Join, Goes, ThreadsTypeOK, AwaitedIsOver
<1>6. NoLostWakeup'
  BY DEF IInv, Join, Goes, ThreadsTypeOK, NoLostWakeup, WaitingFor
<1>7. OnlyLiveIsUsed'
  BY ThreadsAssumption DEF IInv, Join, Goes, ThreadsTypeOK, OnlyLiveIsUsed, Joining
<1>8. LinkIsThread'
  BY DEF IInv, Join, LinkIsThread
<1>9. ExitsItself'
  BY DEF IInv, Join, Goes, ThreadsTypeOK, ExitsItself, Exiting
<1>10. QED
  BY <1>1, <1>2, <1>3, <1>4, <1>5, <1>6, <1>7, <1>8, <1>9 DEF IInv

LEMMA LinkThreadKeeps ==
  ASSUME NEW u \in Threads, IInv, LinkThread(u)
  PROVE  IInv'
<1>1. ThreadsTypeOK'
  BY ThreadsAssumption DEF IInv, LinkThread, Goes, ThreadsTypeOK, Places, Joining,
     Exiting
<1>2. MutexHasHolder'
  BY ThreadsAssumption DEF IInv, LinkThread, Goes, ThreadsTypeOK, MutexHasHolder, Holds
<1>3. OneRun'
  BY DEF IInv, LinkThread, Goes, ThreadsTypeOK, OneRun
<1>4. ExitedIsOver'
  BY DEF IInv, LinkThread, Goes, ThreadsTypeOK, ExitedIsOver
<1>5. AwaitedIsOver'
  BY DEF IInv, LinkThread, Goes, ThreadsTypeOK, AwaitedIsOver
<1>6. NoLostWakeup'
  BY DEF IInv, LinkThread, Goes, ThreadsTypeOK, NoLostWakeup, WaitingFor
<1>7. OnlyLiveIsUsed'
  BY ThreadsAssumption DEF IInv, LinkThread, Goes, ThreadsTypeOK, OnlyLiveIsUsed,
     Joining
<1>8. LinkIsThread'
  BY DEF IInv, LinkThread, LinkIsThread
<1>9. ExitsItself'
  BY DEF IInv, LinkThread, Goes, ThreadsTypeOK, ExitsItself, Exiting
<1>10. QED
  BY <1>1, <1>2, <1>3, <1>4, <1>5, <1>6, <1>7, <1>8, <1>9 DEF IInv

LEMMA RunLoopKeeps ==
  ASSUME NEW u \in Threads, IInv, RunLoop(u)
  PROVE  IInv'
<1>1. ThreadsTypeOK'
  BY ThreadsAssumption DEF IInv, RunLoop, Goes, ThreadsTypeOK, Places, Joining, Exiting
<1>2. MutexHasHolder'
  BY ThreadsAssumption DEF IInv, RunLoop, Goes, ThreadsTypeOK, MutexHasHolder, Holds
<1>3. OneRun'
  BY DEF IInv, RunLoop, Goes, ThreadsTypeOK, OneRun
<1>4. ExitedIsOver'
  BY DEF IInv, RunLoop, Goes, ThreadsTypeOK, ExitedIsOver
<1>5. AwaitedIsOver'
  BY DEF IInv, RunLoop, Goes, ThreadsTypeOK, AwaitedIsOver
<1>6. NoLostWakeup'
  BY DEF IInv, RunLoop, Goes, ThreadsTypeOK, NoLostWakeup, WaitingFor
<1>7. OnlyLiveIsUsed'
  BY ThreadsAssumption DEF IInv, RunLoop, Goes, ThreadsTypeOK, OnlyLiveIsUsed, Joining
<1>8. LinkIsThread'
  BY DEF IInv, RunLoop, LinkIsThread
<1>9. ExitsItself'
  BY DEF IInv, RunLoop, Goes, ThreadsTypeOK, ExitsItself, Exiting
<1>10. QED
  BY <1>1, <1>2, <1>3, <1>4, <1>5, <1>6, <1>7, <1>8, <1>9 DEF IInv

LEMMA ExitKeeps ==
  ASSUME NEW u \in Threads, NEW t \in Threads, OwnExit, IInv, Exit(u, t)
  PROVE  IInv'
<1>1. ThreadsTypeOK'
  BY ThreadsAssumption DEF IInv, ExitsItself, Exiting, Exit, Goes, ThreadsTypeOK, Places, Joining, Exiting
<1>2. MutexHasHolder'
  BY ThreadsAssumption DEF IInv, ExitsItself, Exiting, Exit, Goes, ThreadsTypeOK, MutexHasHolder, Holds
<1>3. OneRun'
  BY DEF IInv, ExitsItself, Exiting, Exit, Goes, ThreadsTypeOK, OneRun
<1>4. ExitedIsOver'
  BY DEF IInv, ExitsItself, Exiting, Exit, Goes, ThreadsTypeOK, ExitedIsOver
<1>5. AwaitedIsOver'
  BY DEF IInv, ExitsItself, Exiting, Exit, Goes, ThreadsTypeOK, AwaitedIsOver
<1>6. NoLostWakeup'
  BY DEF IInv, ExitsItself, Exiting, Exit, Goes, ThreadsTypeOK, NoLostWakeup, WaitingFor
<1>7. OnlyLiveIsUsed'
  BY ThreadsAssumption DEF IInv, ExitsItself, Exiting, Exit, Goes, ThreadsTypeOK, OnlyLiveIsUsed, Joining
<1>8. LinkIsThread'
  BY DEF IInv, ExitsItself, Exiting, Exit, LinkIsThread
<1>9. ExitsItself'
  BY DEF IInv, Exit, Goes, ThreadsTypeOK, ExitsItself, Exiting
<1>10. QED
  BY <1>1, <1>2, <1>3, <1>4, <1>5, <1>6, <1>7, <1>8, <1>9 DEF IInv

LEMMA ExitLocksKeeps ==
  ASSUME NEW u \in Threads, IInv, ExitLocks(u)
  PROVE  IInv'
<1>1. ThreadsTypeOK'
  BY ThreadsAssumption DEF IInv, ExitsItself, Exiting, ExitLocks, Goes, ThreadsTypeOK, Places, Joining,
     Exiting
<1>2. MutexHasHolder'
  BY ThreadsAssumption DEF IInv, ExitsItself, Exiting, ExitLocks, Goes, ThreadsTypeOK, MutexHasHolder, Holds
<1>3. OneRun'
  BY DEF IInv, ExitsItself, Exiting, ExitLocks, Goes, ThreadsTypeOK, OneRun
<1>4. ExitedIsOver'
  BY DEF IInv, ExitsItself, Exiting, ExitLocks, Goes, ThreadsTypeOK, ExitedIsOver
<1>5. AwaitedIsOver'
  BY DEF IInv, ExitsItself, Exiting, ExitLocks, Goes, ThreadsTypeOK, AwaitedIsOver
<1>6. NoLostWakeup'
  BY DEF IInv, ExitsItself, Exiting, ExitLocks, Goes, ThreadsTypeOK, NoLostWakeup, WaitingFor
<1>7. OnlyLiveIsUsed'
  BY ThreadsAssumption DEF IInv, ExitsItself, Exiting, ExitLocks, Goes, ThreadsTypeOK, OnlyLiveIsUsed, Joining
<1>8. LinkIsThread'
  BY DEF IInv, ExitsItself, Exiting, ExitLocks, LinkIsThread
<1>9. ExitsItself'
  BY DEF IInv, ExitLocks, Goes, ThreadsTypeOK, ExitsItself, Exiting
<1>10. QED
  BY <1>1, <1>2, <1>3, <1>4, <1>5, <1>6, <1>7, <1>8, <1>9 DEF IInv

LEMMA ExitSetsKeeps ==
  ASSUME NEW u \in Threads, IInv, ExitSets(u)
  PROVE  IInv'
<1>1. ThreadsTypeOK'
  BY ThreadsAssumption DEF IInv, ExitsItself, Exiting, ExitSets, Goes, ThreadsTypeOK, Places, Joining, Exiting
<1>2. MutexHasHolder'
  BY ThreadsAssumption DEF IInv, ExitsItself, Exiting, ExitSets, Goes, ThreadsTypeOK, MutexHasHolder, Holds
<1>3. OneRun'
  BY DEF IInv, ExitsItself, Exiting, ExitSets, Goes, ThreadsTypeOK, OneRun
<1>4. ExitedIsOver'
  BY DEF IInv, ExitsItself, Exiting, ExitSets, Goes, ThreadsTypeOK, ExitedIsOver
<1>5. AwaitedIsOver'
  BY DEF IInv, ExitsItself, Exiting, ExitSets, Goes, ThreadsTypeOK, AwaitedIsOver
<1>6. NoLostWakeup'
  BY DEF IInv, ExitsItself, Exiting, ExitSets, Goes, ThreadsTypeOK, NoLostWakeup, WaitingFor
<1>7. OnlyLiveIsUsed'
  BY ThreadsAssumption DEF IInv, ExitsItself, Exiting, ExitSets, Goes, ThreadsTypeOK, OnlyLiveIsUsed, Joining
<1>8. LinkIsThread'
  BY DEF IInv, ExitsItself, Exiting, ExitSets, LinkIsThread
<1>9. ExitsItself'
  BY DEF IInv, ExitSets, Goes, ThreadsTypeOK, ExitsItself, Exiting
<1>10. QED
  BY <1>1, <1>2, <1>3, <1>4, <1>5, <1>6, <1>7, <1>8, <1>9 DEF IInv

LEMMA ExitSignalsKeeps ==
  ASSUME NEW u \in Threads, IInv, ExitSignals(u)
  PROVE  IInv'
<1>1. ThreadsTypeOK'
  BY ThreadsAssumption DEF IInv, ExitsItself, Exiting, ExitSignals, WaitingFor, ThreadsTypeOK, Places,
     Joining, Exiting
<1>2. MutexHasHolder'
  BY ThreadsAssumption DEF IInv, ExitsItself, Exiting, ExitSignals, WaitingFor, ThreadsTypeOK, MutexHasHolder,
     Holds
<1>3. OneRun'
  BY DEF IInv, ExitsItself, Exiting, ExitSignals, WaitingFor, ThreadsTypeOK, OneRun
<1>4. ExitedIsOver'
  BY DEF IInv, ExitsItself, Exiting, ExitSignals, WaitingFor, ThreadsTypeOK, ExitedIsOver
<1>5. AwaitedIsOver'
  BY DEF IInv, ExitsItself, Exiting, ExitSignals, WaitingFor, ThreadsTypeOK, AwaitedIsOver
<1>6. NoLostWakeup'
  BY DEF IInv, ExitsItself, Exiting, ExitSignals, WaitingFor, ThreadsTypeOK, NoLostWakeup
<1>7. OnlyLiveIsUsed'
  BY ThreadsAssumption DEF IInv, ExitsItself, Exiting, ExitSignals, WaitingFor, ThreadsTypeOK, OnlyLiveIsUsed,
     Joining
<1>8. LinkIsThread'
  BY DEF IInv, ExitsItself, Exiting, ExitSignals, LinkIsThread
<1>9. ExitsItself'
  BY DEF IInv, ExitSignals, WaitingFor, Joining, ThreadsTypeOK, ExitsItself, Exiting
<1>10. QED
  BY <1>1, <1>2, <1>3, <1>4, <1>5, <1>6, <1>7, <1>8, <1>9 DEF IInv

LEMMA ExitUnlocksKeeps ==
  ASSUME NEW u \in Threads, IInv, ExitUnlocks(u)
  PROVE  IInv'
<1>1. ThreadsTypeOK'
  BY ThreadsAssumption DEF IInv, ExitsItself, Exiting, ExitUnlocks, Goes, ThreadsTypeOK, Places, Joining,
     Exiting
<1>2. MutexHasHolder'
  BY ThreadsAssumption DEF IInv, ExitsItself, Exiting, ExitUnlocks, Goes, ThreadsTypeOK, MutexHasHolder, Holds
<1>3. OneRun'
  BY DEF IInv, ExitsItself, Exiting, ExitUnlocks, Goes, ThreadsTypeOK, OneRun
<1>4. ExitedIsOver'
  BY DEF IInv, ExitsItself, Exiting, ExitUnlocks, Goes, ThreadsTypeOK, ExitedIsOver
<1>5. AwaitedIsOver'
  BY DEF IInv, ExitsItself, Exiting, ExitUnlocks, Goes, ThreadsTypeOK, AwaitedIsOver
<1>6. NoLostWakeup'
  BY DEF IInv, ExitsItself, Exiting, ExitUnlocks, Goes, ThreadsTypeOK, NoLostWakeup, WaitingFor
<1>7. OnlyLiveIsUsed'
  BY ThreadsAssumption DEF IInv, ExitsItself, Exiting, ExitUnlocks, Goes, ThreadsTypeOK, OnlyLiveIsUsed,
     Joining
<1>8. LinkIsThread'
  BY DEF IInv, ExitsItself, Exiting, ExitUnlocks, LinkIsThread
<1>9. ExitsItself'
  BY DEF IInv, ExitUnlocks, Goes, ThreadsTypeOK, ExitsItself, Exiting
<1>10. QED
  BY <1>1, <1>2, <1>3, <1>4, <1>5, <1>6, <1>7, <1>8, <1>9 DEF IInv

LEMMA LeaveKeeps ==
  ASSUME NEW u \in Threads, IInv, Leave(u)
  PROVE  IInv'
<1>1. ThreadsTypeOK'
  BY ThreadsAssumption DEF IInv, Leave, Goes, ThreadsTypeOK, Places, Joining, Exiting
<1>2. MutexHasHolder'
  BY ThreadsAssumption DEF IInv, Leave, Goes, ThreadsTypeOK, MutexHasHolder, Holds
<1>3. OneRun'
  BY DEF IInv, Leave, Goes, ThreadsTypeOK, OneRun
<1>4. ExitedIsOver'
  BY DEF IInv, Leave, Goes, ThreadsTypeOK, ExitedIsOver
<1>5. AwaitedIsOver'
  BY DEF IInv, Leave, Goes, ThreadsTypeOK, AwaitedIsOver
<1>6. NoLostWakeup'
  BY DEF IInv, Leave, Goes, ThreadsTypeOK, NoLostWakeup, WaitingFor
<1>7. OnlyLiveIsUsed'
  BY ThreadsAssumption DEF IInv, Leave, Goes, ThreadsTypeOK, OnlyLiveIsUsed, Joining
<1>8. LinkIsThread'
  BY DEF IInv, Leave, LinkIsThread
<1>9. ExitsItself'
  BY DEF IInv, Leave, Goes, ThreadsTypeOK, ExitsItself, Exiting
<1>10. QED
  BY <1>1, <1>2, <1>3, <1>4, <1>5, <1>6, <1>7, <1>8, <1>9 DEF IInv

LEMMA JoinLocksKeeps ==
  ASSUME NEW u \in Threads, IInv, JoinLocks(u)
  PROVE  IInv'
<1>1. ThreadsTypeOK'
  BY ThreadsAssumption DEF IInv, JoinLocks, Goes, ThreadsTypeOK, Places, Joining,
     Exiting
<1>2. MutexHasHolder'
  BY ThreadsAssumption DEF IInv, JoinLocks, Goes, ThreadsTypeOK, MutexHasHolder, Holds
<1>3. OneRun'
  BY DEF IInv, JoinLocks, Goes, ThreadsTypeOK, OneRun
<1>4. ExitedIsOver'
  BY DEF IInv, JoinLocks, Goes, ThreadsTypeOK, ExitedIsOver
<1>5. AwaitedIsOver'
  BY DEF IInv, JoinLocks, Goes, ThreadsTypeOK, AwaitedIsOver
<1>6. NoLostWakeup'
  BY DEF IInv, JoinLocks, Goes, ThreadsTypeOK, NoLostWakeup, WaitingFor
<1>7. OnlyLiveIsUsed'
  BY ThreadsAssumption DEF IInv, JoinLocks, Goes, ThreadsTypeOK, OnlyLiveIsUsed, Joining
<1>8. LinkIsThread'
  BY DEF IInv, JoinLocks, LinkIsThread
<1>9. ExitsItself'
  BY DEF IInv, JoinLocks, Goes, ThreadsTypeOK, ExitsItself, Exiting
<1>10. QED
  BY <1>1, <1>2, <1>3, <1>4, <1>5, <1>6, <1>7, <1>8, <1>9 DEF IInv

LEMMA JoinTestsKeeps ==
  ASSUME NEW u \in Threads, IInv, JoinTests(u)
  PROVE  IInv'
<1>1. ThreadsTypeOK'
  BY ThreadsAssumption DEF IInv, JoinTests, Goes, ThreadsTypeOK, Places, Joining,
     Exiting
<1>2. MutexHasHolder'
  BY ThreadsAssumption DEF IInv, JoinTests, Goes, ThreadsTypeOK, MutexHasHolder, Holds
<1>3. OneRun'
  BY DEF IInv, JoinTests, Goes, ThreadsTypeOK, OneRun
<1>4. ExitedIsOver'
  BY DEF IInv, JoinTests, Goes, ThreadsTypeOK, ExitedIsOver
<1>5. AwaitedIsOver'
  BY DEF IInv, JoinTests, Goes, ThreadsTypeOK, AwaitedIsOver, OneRun, ExitedIsOver,
     MutexHasHolder, Holds, ExitsItself, Exiting
<1>6. NoLostWakeup'
  BY DEF IInv, JoinTests, Goes, ThreadsTypeOK, NoLostWakeup, WaitingFor
<1>7. OnlyLiveIsUsed'
  BY ThreadsAssumption DEF IInv, JoinTests, Goes, ThreadsTypeOK, OnlyLiveIsUsed, Joining
<1>8. LinkIsThread'
  BY DEF IInv, JoinTests, LinkIsThread
<1>9. ExitsItself'
  BY DEF IInv, JoinTests, Goes, ThreadsTypeOK, ExitsItself, Exiting
<1>10. QED
  BY <1>1, <1>2, <1>3, <1>4, <1>5, <1>6, <1>7, <1>8, <1>9 DEF IInv

LEMMA JoinUnlocksKeeps ==
  ASSUME NEW u \in Threads, IInv, JoinUnlocks(u)
  PROVE  IInv'
<1>1. ThreadsTypeOK'
  BY ThreadsAssumption DEF IInv, JoinUnlocks, Goes, ThreadsTypeOK, Places, Joining,
     Exiting
<1>2. MutexHasHolder'
  BY ThreadsAssumption DEF IInv, JoinUnlocks, Goes, ThreadsTypeOK, MutexHasHolder, Holds
<1>3. OneRun'
  BY DEF IInv, JoinUnlocks, Goes, ThreadsTypeOK, OneRun
<1>4. ExitedIsOver'
  BY DEF IInv, JoinUnlocks, Goes, ThreadsTypeOK, ExitedIsOver
<1>5. AwaitedIsOver'
  BY DEF IInv, JoinUnlocks, Goes, ThreadsTypeOK, AwaitedIsOver
<1>6. NoLostWakeup'
  BY DEF IInv, JoinUnlocks, Goes, ThreadsTypeOK, NoLostWakeup, WaitingFor
<1>7. OnlyLiveIsUsed'
  BY ThreadsAssumption DEF IInv, JoinUnlocks, Goes, ThreadsTypeOK, OnlyLiveIsUsed,
     Joining
<1>8. LinkIsThread'
  BY DEF IInv, JoinUnlocks, LinkIsThread
<1>9. ExitsItself'
  BY DEF IInv, JoinUnlocks, Goes, ThreadsTypeOK, ExitsItself, Exiting
<1>10. QED
  BY <1>1, <1>2, <1>3, <1>4, <1>5, <1>6, <1>7, <1>8, <1>9 DEF IInv

LEMMA SpuriousKeeps ==
  ASSUME NEW u \in Threads, IInv, Spurious(u)
  PROVE  IInv'
<1>1. ThreadsTypeOK'
  BY ThreadsAssumption DEF IInv, Spurious, Goes, ThreadsTypeOK, Places, Joining, Exiting
<1>2. MutexHasHolder'
  BY ThreadsAssumption DEF IInv, Spurious, Goes, ThreadsTypeOK, MutexHasHolder, Holds
<1>3. OneRun'
  BY DEF IInv, Spurious, Goes, ThreadsTypeOK, OneRun
<1>4. ExitedIsOver'
  BY DEF IInv, Spurious, Goes, ThreadsTypeOK, ExitedIsOver
<1>5. AwaitedIsOver'
  BY DEF IInv, Spurious, Goes, ThreadsTypeOK, AwaitedIsOver
<1>6. NoLostWakeup'
  BY DEF IInv, Spurious, Goes, ThreadsTypeOK, NoLostWakeup, WaitingFor
<1>7. OnlyLiveIsUsed'
  BY ThreadsAssumption DEF IInv, Spurious, Goes, ThreadsTypeOK, OnlyLiveIsUsed, Joining
<1>8. LinkIsThread'
  BY DEF IInv, Spurious, LinkIsThread
<1>9. ExitsItself'
  BY DEF IInv, Spurious, Goes, ThreadsTypeOK, ExitsItself, Exiting
<1>10. QED
  BY <1>1, <1>2, <1>3, <1>4, <1>5, <1>6, <1>7, <1>8, <1>9 DEF IInv

LEMMA StutterKeeps ==
  ASSUME IInv, UNCHANGED vars
  PROVE  IInv'
  BY DEF vars, IInv, ThreadsTypeOK, MutexHasHolder, Holds, ExitsItself, Exiting, LinkIsThread, OneRun,
     ExitedIsOver, AwaitedIsOver, NoLostWakeup, WaitingFor, OnlyLiveIsUsed

LEMMA NextKeeps ==
  ASSUME IInv, [Next]_vars, MaxStarts <= 1, OwnExit
  PROVE  IInv'
<1>1. CASE UNCHANGED vars
  BY <1>1, StutterKeeps
<1>2. ASSUME NEW u \in Threads, NEW t \in Threads,
            \/ CreateThread(u, t) \/ DestroyThread(u, t)
            \/ Start(u, t) \/ Exit(u, t) \/ Join(u, t)
      PROVE  IInv'
  BY <1>2, CreateThreadKeeps, DestroyThreadKeeps, StartKeeps, ExitKeeps, JoinKeeps
<1>3. ASSUME NEW u \in Threads, Proceed(u) \/ Spurious(u)
      PROVE  IInv'
  BY <1>3, LinkThreadKeeps, RunLoopKeeps, ExitLocksKeeps, ExitSetsKeeps,
     ExitSignalsKeeps, ExitUnlocksKeeps, LeaveKeeps, JoinLocksKeeps, JoinTestsKeeps,
     JoinUnlocksKeeps, SpuriousKeeps DEF Proceed
<1>4. QED
  BY <1>1, <1>2, <1>3 DEF Next

LEMMA InvariantHolds ==
  ASSUME MaxStarts <= 1, OwnExit
  PROVE  Spec => []IInv
<1>1. IInv /\ [Next]_vars => IInv'
  BY NextKeeps
<1>2. QED
  BY <1>1, InitIInv, PTL DEF Spec

\* Every variable keeps its type, in particular head: there is always a Thread
\* in the list (Engine::CreateThread, DestroyThread).
THEOREM ThreadsTypeCorrect ==
  ASSUME MaxStarts <= 1, OwnExit
  PROVE  Spec => []ThreadsTypeOK
<1>1. IInv => ThreadsTypeOK
  BY DEF IInv
<1>2. QED
  BY <1>1, InvariantHolds, PTL

\* join returns after the run that it was called for has ended (Thread::Join),
\* for any number of joiners and whatever wakes them.
THEOREM JoinReturnsAfterRun ==
  ASSUME MaxStarts <= 1, OwnExit
  PROVE  Spec => []JoinMeansOver
<1>1. IInv => JoinMeansOver
  BY DEF IInv, AwaitedIsOver, JoinMeansOver
<1>2. QED
  BY <1>1, InvariantHolds, PTL

\* The broadcast of Thread::Exit reaches every joiner.
THEOREM ExitWakesJoiners ==
  ASSUME MaxStarts <= 1, OwnExit
  PROVE  Spec => []NoLostWakeup
<1>1. IInv => NoLostWakeup
  BY DEF IInv
<1>2. QED
  BY <1>1, InvariantHolds, PTL

\* A Thread that was joined, or never started, can be deleted: neither its
\* system thread nor a joiner touches it afterwards (Engine::DestroyThread).
THEOREM DeletedIsUnused ==
  ASSUME MaxStarts <= 1, OwnExit
  PROVE  Spec => []NoUseAfterDelete
<1>1. IInv => NoUseAfterDelete
  BY DEF IInv, OnlyLiveIsUsed, NoUseAfterDelete
<1>2. QED
  BY <1>1, InvariantHolds, PTL

-----------------------------------------------------------------------------
(* The list of threads, when only one thread creates and deletes others *)

OneCreator == \A u, v \in Creators : u = v

\* The list is a chain: no link leads back to its head, and no two to the same
\* Thread.
Chain ==
    /\ \A p \in Listed : next[p] # head
    /\ \A p, q \in Listed : next[p] = next[q] /\ next[p] # NoThread => p = q

\* The Thread that is being linked is live, not in the list yet, and points to
\* its head.
LinkingIsNext ==
    \A u \in Threads : at[u] = "linking" =>
        /\ u \in Creators
        /\ object[target[u]] = "live"
        /\ next[target[u]] = head

ListInv == ListHasThreads /\ Chain /\ LinkingIsNext /\ object[Main] = "live"

LEMMA ListedClosed ==
  ASSUME ThreadsTypeOK
  PROVE  /\ Listed \subseteq Threads
         /\ head \in Listed
         /\ \A p \in Listed : next[p] \in Listed \cup {NoThread}
  BY DEF ThreadsTypeOK, Listed

LEMMA ListedLeast ==
  ASSUME NEW S \in SUBSET Threads, head \in S,
         \A p \in S : next[p] \in S \cup {NoThread}
  PROVE  Listed \subseteq S
  BY DEF Listed

\* The same, from below, for the state after a step.
LEMMA ListedReached ==
  ASSUME NEW T \in SUBSET Threads,
         \A S \in SUBSET Threads :
            head' \in S /\ (\A p \in S : next'[p] \in S \cup {NoThread}) => T \subseteq S
  PROVE  T \subseteq Listed'
  BY DEF Listed

LEMMA ListedWithin ==
  ASSUME NEW T \in SUBSET Threads, head' \in T,
         \A p \in T : next'[p] \in T \cup {NoThread}
  PROVE  Listed' \subseteq T
  BY DEF Listed

\* A step that leaves the head and the links of the listed Threads alone.
LEMMA ListedSame ==
  ASSUME ThreadsTypeOK, head' = head, \A p \in Listed : next'[p] = next[p]
  PROVE  Listed' = Listed
<1>1. Listed' \subseteq Listed
  BY ListedClosed, ListedWithin
<1>2. ASSUME NEW S \in SUBSET Threads, head' \in S,
             \A p \in S : next'[p] \in S \cup {NoThread}
      PROVE  Listed \subseteq S
  <2> DEFINE T == S \cap Listed
  <2>1. T \in SUBSET Threads /\ head \in T
    BY <1>2, ListedClosed
  <2>2. \A p \in T : next[p] \in T \cup {NoThread}
    BY <1>2, ListedClosed
  <2>3. QED
    BY <2>1, <2>2, ListedLeast
<1>3. Listed \subseteq Listed'
  BY <1>2, ListedClosed, ListedReached
<1>4. QED
  BY <1>1, <1>3

\* A chain has no loops of one or two Threads.
LEMMA ChainHasNoLoop ==
  ASSUME ThreadsTypeOK, Chain, ThreadsAssumption, NEW t \in Listed
  PROVE  next[t] # t /\ \A p \in Listed : ~(next[p] = t /\ next[t] = p)
<1>1. ASSUME NEW p \in Listed, next[p] = t, next[t] = p
      PROVE  FALSE
  <2> DEFINE S == Listed \ {p, t}
  <2>1. S \in SUBSET Threads /\ head \in S
    BY <1>1, ListedClosed DEF Chain
  <2>2. \A q \in S : next[q] \in S \cup {NoThread}
    BY <1>1, ListedClosed, ThreadsAssumption DEF Chain
  <2>3. QED
    BY <2>1, <2>2, ListedLeast
<1>2. QED
  BY <1>1

\* The new Thread comes to be in front of the list.
LEMMA LinkThreadLinks ==
  ASSUME ThreadsAssumption, ThreadsTypeOK, ThreadsTypeOK', OneCreator, ListInv,
         NEW u \in Threads, LinkThread(u)
  PROVE  ListInv'
<1> DEFINE t == target[u]
<1>1. /\ at[u] = "linking"
      /\ head' = t
      /\ at' = [at EXCEPT ![u] = "running"]
      /\ UNCHANGED <<object, next, target>>
      /\ t \in Threads
  BY DEF LinkThread, Goes, ThreadsTypeOK
<1>2. object[t] = "live" /\ next[t] = head /\ t \notin Listed
  BY <1>1 DEF ListInv, LinkingIsNext, ListHasThreads
<1>3. Listed' = Listed \cup {t}
  <2> DEFINE T == Listed \cup {t}
  <2>1. Listed' \subseteq T
    <3>1. T \in SUBSET Threads /\ head' \in T
      BY <1>1, ListedClosed
    <3>2. \A p \in T : next'[p] \in T \cup {NoThread}
      BY <1>1, <1>2, ListedClosed
    <3>3. QED
      BY <3>1, <3>2, ListedWithin
  <2>2. ASSUME NEW S \in SUBSET Threads, head' \in S,
               \A p \in S : next'[p] \in S \cup {NoThread}
        PROVE  T \subseteq S
    <3>1. head \in S
      BY <1>1, <1>2, <2>2, ThreadsAssumption DEF ThreadsTypeOK
    <3>2. Listed \subseteq S
      BY <1>1, <2>2, <3>1, ListedLeast
    <3>3. QED
      BY <1>1, <2>2, <3>2
  <2>3. T \subseteq Listed'
    <3>1. T \in SUBSET Threads
      BY <1>1, ListedClosed
    <3>2. QED
      BY <2>2, <3>1, ListedReached
  <2>4. QED
    BY <2>1, <2>3
<1>4. \A v \in Threads : at[v] = "linking" => v = u
  BY <1>1 DEF ListInv, LinkingIsNext, OneCreator
<1>5. \A v \in Threads : at'[v] # "linking"
  BY <1>1, <1>4 DEF ThreadsTypeOK
<1>6. ListHasThreads'
  <2>1. ASSUME NEW v \in Threads
        PROVE  v \in Listed' <=> object'[v] = "live"
    BY <1>1, <1>2, <1>3, <1>4 DEF ListInv, ListHasThreads
  <2>2. QED
    BY <1>1, <1>5, <2>1 DEF ListInv, ListHasThreads
<1>7. Chain'
  BY <1>1, <1>2, <1>3, ListedClosed, ThreadsAssumption DEF ListInv, Chain, ThreadsTypeOK
<1>8. LinkingIsNext'
  BY <1>5 DEF LinkingIsNext
<1>9. QED
  BY <1>1, <1>6, <1>7, <1>8 DEF ListInv

\* A Thread that was just made is not in the list.
LEMMA CreateThreadLinks ==
  ASSUME ThreadsAssumption, ThreadsTypeOK, OneCreator, ListInv,
         NEW u \in Threads, NEW t \in Threads, CreateThread(u, t)
  PROVE  ListInv'
<1>1. /\ at[u] = "running" /\ u \in Creators
      /\ object[t] # "live"
      /\ object' = [object EXCEPT ![t] = "live"]
      /\ next' = [next EXCEPT ![t] = head]
      /\ target' = [target EXCEPT ![u] = t]
      /\ at' = [at EXCEPT ![u] = "linking"]
      /\ head' = head
  BY DEF CreateThread, Goes
<1>2. t \notin Listed /\ t # Main
  BY <1>1 DEF ListInv, ListHasThreads
<1>3. Listed' = Listed
  <2>1. \A p \in Listed : next'[p] = next[p]
    BY <1>1, <1>2, ListedClosed DEF ThreadsTypeOK
  <2>2. QED
    BY <1>1, <2>1, ListedSame
<1>4. \A v \in Threads : at[v] # "linking"
  BY <1>1 DEF ListInv, LinkingIsNext, OneCreator
<1>5. \A v \in Threads : at'[v] = "linking" <=> v = u
  BY <1>1, <1>4 DEF ThreadsTypeOK
<1>6. target'[u] = t
  BY <1>1 DEF ThreadsTypeOK
<1>7. ListHasThreads'
  <2>1. ASSUME NEW v \in Threads
        PROVE  /\ v \in Listed' <=>
                    /\ object'[v] = "live"
                    /\ \A w \in Threads : ~(at'[w] = "linking" /\ target'[w] = v)
               /\ object'[v] = "live" => (next'[v] = NoThread <=> v = Main)
    <3>1. CASE v = t
      BY <1>1, <1>2, <1>3, <1>5, <1>6, <3>1, ThreadsAssumption DEF ThreadsTypeOK
    <3>2. CASE v # t
      <4>1. object'[v] = object[v] /\ next'[v] = next[v]
        BY <1>1, <3>2 DEF ThreadsTypeOK
      <4>2. v \in Listed <=> object[v] = "live"
        BY <1>4 DEF ListInv, ListHasThreads
      <4>3. QED
        BY <1>3, <1>5, <1>6, <3>2, <4>1, <4>2 DEF ListInv, ListHasThreads
    <3>3. QED
      BY <3>1, <3>2
  <2>2. QED
    BY <2>1 DEF ListHasThreads
<1>8. Chain'
  BY <1>1, <1>2, <1>3, ListedClosed DEF ListInv, Chain, ThreadsTypeOK
<1>9. LinkingIsNext'
  BY <1>1, <1>5, <1>6 DEF LinkingIsNext, ThreadsTypeOK
<1>10. object'[Main] = "live"
  BY <1>1, ThreadsAssumption DEF ListInv, ThreadsTypeOK
<1>11. QED
  BY <1>7, <1>8, <1>9, <1>10 DEF ListInv

\* Taking a Thread out of the list leaves all the others in it.
LEMMA DestroyThreadUnlinks ==
  ASSUME ThreadsAssumption, ThreadsTypeOK, ThreadsTypeOK', OneCreator, ListInv,
         NEW u \in Threads, NEW t \in Threads, DestroyThread(u, t)
  PROVE  ListInv'
<1>1. /\ at[u] = "running" /\ u \in Creators
      /\ object[t] = "live" /\ t # Main
      /\ object' = [object EXCEPT ![t] = "deleted"]
      /\ Unlink(t)
      /\ UNCHANGED <<at, target>>
  BY DEF DestroyThread, Unused
<1>2. \A v \in Threads : at[v] # "linking"
  BY <1>1 DEF ListInv, LinkingIsNext, OneCreator
<1>3. \A v \in Threads : v \in Listed <=> object[v] = "live"
  BY <1>2 DEF ListInv, ListHasThreads
<1>4. /\ t \in Listed
      /\ next[t] \in Listed
      /\ next[t] # t
      /\ \A p \in Listed : ~(next[p] = t /\ next[t] = p)
  BY <1>1, <1>3, ListedClosed, ChainHasNoLoop DEF ListInv, ListHasThreads
<1>5. Chain
  BY DEF ListInv
<1>6. CASE head = t
  <2>1. head' = next[t] /\ next' = next
    BY <1>1, <1>6 DEF Unlink
  <2>2. Listed' = Listed \ {t}
    <3>1. Listed' \subseteq Listed \ {t}
      <4> DEFINE T == Listed \ {t}
      <4>1. T \in SUBSET Threads /\ head' \in T
        BY <1>4, <2>1, ListedClosed
      <4>2. \A p \in T : next'[p] \in T \cup {NoThread}
        BY <1>5, <1>6, <2>1, ListedClosed DEF Chain
      <4>3. QED
        BY <4>1, <4>2, ListedWithin
    <3>2. ASSUME NEW S \in SUBSET Threads, head' \in S,
                 \A p \in S : next'[p] \in S \cup {NoThread}
          PROVE  Listed \ {t} \subseteq S
      <4> DEFINE T == S \cup {t}
      <4>1. T \in SUBSET Threads /\ head \in T /\ \A p \in T : next[p] \in T \cup {NoThread}
        BY <1>6, <2>1, <3>2
      <4>2. QED
        BY <4>1, ListedLeast
    <3>3. Listed \ {t} \subseteq Listed'
      BY <3>2, ListedClosed, ListedReached
    <3>4. QED
      BY <3>1, <3>3
  <2>3. Chain'
    BY <1>4, <1>5, <1>6, <2>1, <2>2, ThreadsAssumption, ListedClosed DEF Chain
  <2>4. \A v \in Threads : object'[v] = "live" => (next'[v] = NoThread <=> v = Main)
    BY <1>1, <2>1 DEF ListInv, ListHasThreads, ThreadsTypeOK
  <2>5. QED
    BY <1>1, <1>2, <1>3, <2>2, <2>3, <2>4, ThreadsAssumption
    DEF ListInv, ListHasThreads, LinkingIsNext, ThreadsTypeOK
<1>7. CASE head # t
  <2>1. /\ head' = head
        /\ \A p \in Listed : next'[p] = IF next[p] = t THEN next[t] ELSE next[p]
    BY <1>1, <1>3, <1>7, ListedClosed DEF Unlink
  <2>2. PICK p \in Listed : next[p] = t
    <3>1. CASE \A p \in Listed : next[p] # t
      <4> DEFINE T == Listed \ {t}
      <4>1. T \in SUBSET Threads /\ head \in T /\ \A p \in T : next[p] \in T \cup {NoThread}
        BY <1>7, <3>1, ListedClosed
      <4>2. QED
        BY <1>4, <4>1, ListedLeast
    <3>2. QED
      BY <3>1
  <2>3. \A q \in Listed : next[q] = t => q = p
    BY <1>1, <1>5, <2>2, ThreadsAssumption DEF Chain
  <2>4. Listed' = Listed \ {t}
    <3>1. Listed' \subseteq Listed \ {t}
      <4> DEFINE T == Listed \ {t}
      <4>1. T \in SUBSET Threads /\ head' \in T
        BY <1>7, <2>1, ListedClosed
      <4>2. \A q \in T : next'[q] \in T \cup {NoThread}
        BY <1>4, <2>1, ListedClosed
      <4>3. QED
        BY <4>1, <4>2, ListedWithin
    <3>2. ASSUME NEW S \in SUBSET Threads, head' \in S,
                 \A q \in S : next'[q] \in S \cup {NoThread}
          PROVE  Listed \ {t} \subseteq S
      <4>1. p \in S
        <5>1. CASE p \notin S
          <6> DEFINE T == (S \cap Listed) \ {t}
          <6>1. T \in SUBSET Threads /\ head \in T
            BY <1>7, <2>1, <3>2, ListedClosed
          <6>2. ASSUME NEW q \in T PROVE next[q] \in T \cup {NoThread}
            <7>1. next[q] # t /\ q \in S /\ q \in Listed
              BY <2>3, <5>1
            <7>2. next'[q] = next[q]
              BY <2>1, <7>1
            <7>3. QED
              BY <3>2, <7>1, <7>2, ListedClosed
          <6>3. Listed \subseteq T
            BY <6>1, <6>2, ListedLeast
          <6>4. QED
            BY <1>4, <6>3
        <5>2. QED
          BY <5>1
      <4> DEFINE T == (S \cap Listed) \cup {t}
      <4>2. next'[p] = next[t]
        BY <2>1, <2>2
      <4>3. next[t] \in S \cap Listed
        BY <1>1, <1>4, <3>2, <4>1, <4>2, ThreadsAssumption, ListedClosed
      <4>4. T \in SUBSET Threads /\ head \in T
        BY <2>1, <3>2, ListedClosed
      <4>5. ASSUME NEW q \in T PROVE next[q] \in T \cup {NoThread}
        <5>1. CASE q = t
          BY <4>3, <5>1
        <5>2. CASE q # t
          BY <2>1, <3>2, <5>2, ListedClosed
        <5>3. QED
          BY <5>1, <5>2
      <4>6. QED
        BY <4>4, <4>5, ListedLeast
    <3>3. Listed \ {t} \subseteq Listed'
      BY <3>2, ListedClosed, ListedReached
    <3>4. QED
      BY <3>1, <3>3
  <2>5. Chain'
    <3>1. \A q \in Listed' : next'[q] # head'
      BY <1>5, <2>1, <2>4, <1>4 DEF Chain
    <3>2. ASSUME NEW q \in Listed', NEW r \in Listed', next'[q] = next'[r],
                 next'[q] # NoThread
          PROVE  q = r
      BY <1>4, <1>5, <2>1, <2>3, <2>4, <3>2 DEF Chain
    <3>3. QED
      BY <3>1, <3>2 DEF Chain
  <2>6. ASSUME NEW v \in Threads, object'[v] = "live"
        PROVE  next'[v] = NoThread <=> v = Main
    <3>1. v \in Listed /\ v # t
      BY <1>1, <1>3, <2>6 DEF ThreadsTypeOK
    <3>2. (next[v] = NoThread <=> v = Main) /\ (next[t] = NoThread <=> t = Main)
      BY <1>1, <1>3, <3>1 DEF ListInv, ListHasThreads
    <3>3. QED
      BY <1>1, <2>1, <3>1, <3>2, ThreadsAssumption
  <2>7. QED
    BY <1>1, <1>2, <1>3, <2>4, <2>5, <2>6, ThreadsAssumption
    DEF ListInv, ListHasThreads, LinkingIsNext, ThreadsTypeOK
<1>8. QED
  BY <1>6, <1>7

\* Nothing else touches the list.
LEMMA OthersLeaveList ==
  ASSUME ListInv, UNCHANGED <<object, head, next>>,
         \A u \in Threads : /\ at'[u] = "linking" <=> at[u] = "linking"
                            /\ at[u] = "linking" => target'[u] = target[u]
  PROVE  ListInv'
<1>1. Listed' = Listed
  BY DEF Listed
<1>2. QED
  BY <1>1 DEF ListInv, ListHasThreads, Chain, LinkingIsNext

\* As long as one thread creates and deletes the others, the list has exactly
\* the Threads that are live and linked, and the Engine's own at its end
\* (Engine::CreateThread, DestroyThread).
THEOREM ListIsComplete ==
  ASSUME MaxStarts <= 1, OwnExit, OneCreator
  PROVE  Spec => []ListHasThreads
<1>1. Init => ListInv
  <2> SUFFICES ASSUME Init PROVE ListInv
    OBVIOUS
  <2>1. ThreadsTypeOK
    BY InitIInv DEF IInv
  <2>2. Listed = {Main}
    <3>1. Listed \subseteq {Main}
      BY ThreadsAssumption, ListedLeast DEF Init
    <3>2. QED
      BY <2>1, <3>1, ListedClosed DEF Init
  <2>3. QED
    BY <2>2, ThreadsAssumption DEF Init, ListInv, ListHasThreads, Chain, LinkingIsNext
<1>2. ThreadsTypeOK /\ ThreadsTypeOK' /\ ListInv /\ [Next]_vars => ListInv'
  <2> SUFFICES ASSUME ThreadsTypeOK, ThreadsTypeOK', ListInv, [Next]_vars PROVE ListInv'
    OBVIOUS
  <2>1. CASE UNCHANGED vars
    BY <2>1, OthersLeaveList DEF vars
  <2>2. ASSUME NEW u \in Threads, NEW t \in Threads,
               CreateThread(u, t) \/ DestroyThread(u, t)
        PROVE  ListInv'
    BY <2>2, ThreadsAssumption, CreateThreadLinks, DestroyThreadUnlinks
  <2>3. ASSUME NEW u \in Threads, LinkThread(u) PROVE ListInv'
    BY <2>3, ThreadsAssumption, LinkThreadLinks
  <2>4. ASSUME NEW u \in Threads, NEW t \in Threads,
               Start(u, t) \/ Exit(u, t) \/ Join(u, t)
        PROVE  ListInv'
    BY <2>4, OthersLeaveList DEF Start, Exit, Join, Goes, ThreadsTypeOK
  <2>5. ASSUME NEW u \in Threads,
               \/ RunLoop(u) \/ ExitLocks(u) \/ ExitSets(u) \/ ExitUnlocks(u)
               \/ Leave(u) \/ JoinLocks(u) \/ JoinTests(u)
               \/ JoinUnlocks(u) \/ Spurious(u) \/ ExitSignals(u)
        PROVE  ListInv'
    <3>1. UNCHANGED <<object, head, next, target>>
      BY <2>5 DEF RunLoop, ExitLocks, ExitSets, ExitUnlocks, Leave, JoinLocks,
         JoinTests, JoinUnlocks, Spurious, ExitSignals
    <3>2. \A v \in Threads : at'[v] = "linking" <=> at[v] = "linking"
      BY <2>5 DEF RunLoop, ExitLocks, ExitSets, ExitUnlocks, Leave, JoinLocks,
         JoinTests, JoinUnlocks, Spurious, ExitSignals, WaitingFor, Goes, ThreadsTypeOK
    <3>3. QED
      BY <3>1, <3>2, OthersLeaveList
  <2>6. QED
    BY <2>1, <2>2, <2>3, <2>4, <2>5 DEF Next, Proceed
<1>3. ListInv => ListHasThreads
  BY DEF ListInv
<1>4. QED
  BY <1>1, <1>2, <1>3, ThreadsTypeCorrect, PTL DEF Spec

=============================================================================
