------------------------------ MODULE Threads ------------------------------
(***************************************************************************)
(* The Threads of the Engine (ForthLib/Thread.cpp, Engine.cpp): system     *)
(* threads that run in parallel, start one another, exit and are joined    *)
(* with a mutex and a condition variable each, and the Engine's list of    *)
(* them.  A step is what a thread does between two accesses to something   *)
(* it shares with the others.                                              *)
(*                                                                         *)
(* What a Thread runs is left to chance: any order of the methods of class *)
(* Thread.  Its fibers are those of Fibers.tla; here all of them exit when *)
(* RunLoop ends.                                                           *)
(***************************************************************************)
EXTENDS Naturals

CONSTANTS
    Threads,      \* the Thread objects there may be
    Main,         \* the one the Engine makes for itself
    NoThread,     \* nullptr
    Creators,     \* the threads that create and delete Thread objects
    MaxStarts,    \* how often a Thread is started
    OwnExit       \* TRUE: a program calls exit only on the Thread it runs in

ASSUME ThreadsAssumption ==
    /\ Main \in Threads
    /\ NoThread \notin Threads
    /\ Creators \subseteq Threads
    /\ MaxStarts \in Nat
    /\ OwnExit \in BOOLEAN

VARIABLES
    object,       \* has the Thread been created, has it been deleted
    head,         \* Engine::mpThreads
    next,         \* Thread::mpNext
    runState,     \* Thread::mRunState
    exitMutex,    \* the holder of Thread::mExitMutex
    at,           \* how far the system thread of a Thread has come
    target,       \* the Thread that one links, exits or joins
    starts,       \* history: how often a Thread was started
    ends,         \* history: how many of its runs have ended
    awaited       \* history: the run that a joiner waits for

vars == <<object, head, next, runState, exitMutex, at, target, starts, ends, awaited>>

\* The steps of a joiner: lock, test, wait, lock again ..., unlock.
Joining == {"joining", "testing", "waiting", "woken", "joined"}
\* The steps of an exit: lock, set, broadcast, unlock.
Exiting == {"exiting", "setting", "signalling", "unlocking"}
Places == {"nowhere", "starting", "running", "linking", "leaving"} \cup Joining \cup Exiting

ThreadsTypeOK ==
    /\ object \in [Threads -> {"none", "live", "deleted"}]
    /\ head \in Threads
    /\ next \in [Threads -> Threads \cup {NoThread}]
    /\ runState \in [Threads -> {"Stopped", "Ready", "Exited"}]
    /\ exitMutex \in [Threads -> Threads \cup {NoThread}]
    /\ at \in [Threads -> Places]
    /\ target \in [Threads -> Threads]
    /\ starts \in [Threads -> Nat]
    /\ ends \in [Threads -> Nat]
    /\ awaited \in [Threads -> Nat]

\* The Engine's own Thread runs without having been started.
Init ==
    /\ object = [t \in Threads |-> IF t = Main THEN "live" ELSE "none"]
    /\ head = Main
    /\ next = [t \in Threads |-> NoThread]
    /\ runState = [t \in Threads |-> "Stopped"]
    /\ exitMutex = [t \in Threads |-> NoThread]
    /\ at = [t \in Threads |-> IF t = Main THEN "running" ELSE "nowhere"]
    /\ target = [t \in Threads |-> t]
    /\ starts = [t \in Threads |-> IF t = Main THEN 1 ELSE 0]
    /\ ends = [t \in Threads |-> 0]
    /\ awaited = [t \in Threads |-> 0]

Goes(u, place) == at' = [at EXCEPT ![u] = place]

-----------------------------------------------------------------------------
(* The list of threads *)

\* Engine::CreateThread makes a Thread, which may get the memory of a deleted
\* one, and reads the head of the list ...
CreateThread(u, t) ==
    /\ at[u] = "running" /\ u \in Creators
    /\ object[t] # "live" /\ at[t] = "nowhere"
    /\ object' = [object EXCEPT ![t] = "live"]
    /\ runState' = [runState EXCEPT ![t] = "Stopped"]
    /\ next' = [next EXCEPT ![t] = head]
    /\ target' = [target EXCEPT ![u] = t]
    /\ starts' = [starts EXCEPT ![t] = 0]
    /\ ends' = [ends EXCEPT ![t] = 0]
    /\ awaited' = [v \in Threads |-> IF v = u \/ target[v] = t THEN 0 ELSE awaited[v]]
    /\ Goes(u, "linking")
    /\ UNCHANGED <<head, exitMutex>>

\* ... and makes the new Thread the head.
LinkThread(u) ==
    /\ at[u] = "linking"
    /\ head' = target[u]
    /\ Goes(u, "running")
    /\ UNCHANGED <<object, next, runState, exitMutex, target, starts, ends, awaited>>

\* Mutation: only the head of the list is taken out.
UnlinkHead(t) ==
    /\ head' = IF head = t THEN next[t] ELSE head
    /\ UNCHANGED next

\* DestroyThread takes a Thread out of the list, if it finds it there.
Unlink(t) ==
    IF head = t
    THEN head' = next[t] /\ UNCHANGED next
    ELSE /\ next' = [p \in Threads |-> IF next[p] = t /\ object[p] = "live" THEN next[t] ELSE next[p]]
         /\ UNCHANGED head

\* Nobody uses t any more: it has not been started since it was last joined
\* by u, and nobody else is at its join.
Unused(u, t) ==
    /\ t # Main
    /\ starts[t] = 0 \/ (target[u] = t /\ awaited[u] = starts[t])
    /\ \A v \in Threads : at[v] \in Joining \cup {"linking"} => target[v] # t

\* The last reference to a Thread object is dropped: Engine::DestroyThread.
DestroyThread(u, t) ==
    /\ at[u] = "running" /\ u \in Creators
    /\ object[t] = "live" /\ Unused(u, t)
    /\ object' = [object EXCEPT ![t] = "deleted"]
    /\ Unlink(t)
    /\ UNCHANGED <<runState, exitMutex, at, target, starts, ends, awaited>>

-----------------------------------------------------------------------------
(* Runs *)

\* Thread.start: pthread_create.  Nothing else changes before the new system
\* thread gets to run.
Start(u, t) ==
    /\ at[u] = "running"
    /\ object[t] = "live" /\ at[t] = "nowhere" /\ starts[t] < MaxStarts
    /\ \A v \in Threads : at[v] = "linking" => target[v] # t
    /\ starts' = [starts EXCEPT ![t] = @ + 1]
    /\ Goes(t, "starting")
    /\ UNCHANGED <<object, head, next, runState, exitMutex, target, ends, awaited>>

\* RunLoop begins.
RunLoop(t) ==
    /\ at[t] = "starting"
    /\ runState' = [runState EXCEPT ![t] = "Ready"]
    /\ Goes(t, "running")
    /\ UNCHANGED <<object, head, next, exitMutex, target, starts, ends, awaited>>

\* Thread.exit on t, which the last Thread of the list ignores, and the end of
\* RunLoop when all fibers of the Thread have exited.  Whatever t is, it is
\* the system thread that calls it which will end.
Exit(u, t) ==
    /\ at[u] = "running"
    /\ OwnExit => u = t
    /\ object[t] = "live" /\ next[t] # NoThread
    /\ \A v \in Threads : at[v] = "linking" => target[v] # t
    /\ target' = [target EXCEPT ![u] = t]
    /\ awaited' = [awaited EXCEPT ![u] = 0]
    /\ Goes(u, "exiting")
    /\ UNCHANGED <<object, head, next, runState, exitMutex, starts, ends>>

ExitLocks(u) ==
    /\ at[u] = "exiting" /\ exitMutex[target[u]] = NoThread
    /\ exitMutex' = [exitMutex EXCEPT ![target[u]] = u]
    /\ Goes(u, "setting")
    /\ UNCHANGED <<object, head, next, runState, target, starts, ends, awaited>>

\* Mutation: the mutex is given back before the broadcast.
ExitSetsUnlocks(u) ==
    /\ at[u] = "setting"
    /\ runState' = [runState EXCEPT ![target[u]] = "Exited"]
    /\ exitMutex' = [exitMutex EXCEPT ![target[u]] = NoThread]
    /\ ends' = [ends EXCEPT ![u] = @ + 1]
    /\ Goes(u, "signalling")
    /\ UNCHANGED <<object, head, next, target, starts, awaited>>

ExitSets(u) ==
    /\ at[u] = "setting"
    /\ runState' = [runState EXCEPT ![target[u]] = "Exited"]
    /\ Goes(u, "signalling")
    /\ UNCHANGED <<object, head, next, exitMutex, target, starts, ends, awaited>>

WaitingFor(t) == {u \in Threads : at[u] = "waiting" /\ target[u] = t}

\* Mutation: one of the waiting threads is woken.
ExitSignalsOne(u) ==
    /\ at[u] = "signalling"
    /\ \E woken \in SUBSET WaitingFor(target[u]) :
        /\ WaitingFor(target[u]) # {} => \E v \in WaitingFor(target[u]) : woken = {v}
        /\ at' = [v \in Threads |-> IF v = u THEN "unlocking"
                                    ELSE IF v \in woken THEN "woken" ELSE at[v]]
    /\ UNCHANGED <<object, head, next, runState, exitMutex, target, starts, ends, awaited>>

\* pthread_cond_broadcast
ExitSignals(u) ==
    /\ at[u] = "signalling"
    /\ at' = [v \in Threads |-> IF v = u THEN "unlocking"
                                ELSE IF v \in WaitingFor(target[u]) THEN "woken" ELSE at[v]]
    /\ UNCHANGED <<object, head, next, runState, exitMutex, target, starts, ends, awaited>>

\* The last time that the system thread touches the Thread.
ExitUnlocks(u) ==
    /\ at[u] = "unlocking"
    /\ exitMutex' = [exitMutex EXCEPT ![target[u]] = NoThread]
    /\ ends' = [ends EXCEPT ![u] = @ + 1]
    /\ Goes(u, "leaving")
    /\ UNCHANGED <<object, head, next, runState, target, starts, awaited>>

\* pthread_exit
Leave(t) ==
    /\ at[t] = "leaving"
    /\ Goes(t, "nowhere")
    /\ UNCHANGED <<object, head, next, runState, exitMutex, target, starts, ends, awaited>>

-----------------------------------------------------------------------------
(* Thread.join *)

\* Anybody may join t, which waits for ever for itself.
Join(u, t) ==
    /\ at[u] = "running"
    /\ object[t] = "live"
    /\ \A v \in Threads : at[v] = "linking" => target[v] # t
    /\ target' = [target EXCEPT ![u] = t]
    /\ awaited' = [awaited EXCEPT ![u] = starts[t]]
    /\ Goes(u, "joining")
    /\ UNCHANGED <<object, head, next, runState, exitMutex, starts, ends>>

\* Mutation: a thread that was woken does not look at the run state again.
JoinLocksOnce(u) ==
    /\ at[u] \in {"joining", "woken"} /\ exitMutex[target[u]] = NoThread
    /\ exitMutex' = [exitMutex EXCEPT ![target[u]] = u]
    /\ Goes(u, IF at[u] = "woken" THEN "joined" ELSE "testing")
    /\ UNCHANGED <<object, head, next, runState, target, starts, ends, awaited>>

\* pthread_mutex_lock, and the end of pthread_cond_wait.
JoinLocks(u) ==
    /\ at[u] \in {"joining", "woken"} /\ exitMutex[target[u]] = NoThread
    /\ exitMutex' = [exitMutex EXCEPT ![target[u]] = u]
    /\ Goes(u, "testing")
    /\ UNCHANGED <<object, head, next, runState, target, starts, ends, awaited>>

\* Mutation: the mutex is given back before the thread waits.
JoinTestsUnlocked(u) ==
    /\ at[u] = "testing"
    /\ IF exitMutex[target[u]] = u
       THEN /\ exitMutex' = [exitMutex EXCEPT ![target[u]] = NoThread]
            /\ IF runState[target[u]] = "Exited" THEN Goes(u, "running") ELSE UNCHANGED at
       ELSE Goes(u, "waiting") /\ UNCHANGED exitMutex
    /\ UNCHANGED <<object, head, next, runState, target, starts, ends, awaited>>

\* while (mRunState != kExited): pthread_cond_wait gives the mutex back and
\* waits in one step.
JoinTests(u) ==
    /\ at[u] = "testing"
    /\ IF runState[target[u]] = "Exited"
       THEN Goes(u, "joined") /\ UNCHANGED exitMutex
       ELSE /\ Goes(u, "waiting")
            /\ exitMutex' = [exitMutex EXCEPT ![target[u]] = NoThread]
    /\ UNCHANGED <<object, head, next, runState, target, starts, ends, awaited>>

\* A condition variable may wake without a signal.
Spurious(u) ==
    /\ at[u] = "waiting"
    /\ Goes(u, "woken")
    /\ UNCHANGED <<object, head, next, runState, exitMutex, target, starts, ends, awaited>>

JoinUnlocks(u) ==
    /\ at[u] = "joined"
    /\ exitMutex' = [exitMutex EXCEPT ![target[u]] = NoThread]
    /\ Goes(u, "running")
    /\ UNCHANGED <<object, head, next, runState, target, starts, ends, awaited>>

-----------------------------------------------------------------------------

\* What a system thread does once it is on its way.
Proceed(t) ==
    \/ RunLoop(t) \/ LinkThread(t)
    \/ ExitLocks(t) \/ ExitSets(t) \/ ExitSignals(t) \/ ExitUnlocks(t) \/ Leave(t)
    \/ JoinLocks(t) \/ JoinTests(t) \/ JoinUnlocks(t)

Next ==
    \E u \in Threads :
        \/ Proceed(u) \/ Spurious(u)
        \/ \E t \in Threads : \/ CreateThread(u, t) \/ DestroyThread(u, t)
                              \/ Start(u, t) \/ Exit(u, t) \/ Join(u, t)

Spec == Init /\ [][Next]_vars

\* The system runs every thread that can go on, and a mutex that is free
\* again and again is given to each that wants it.
FairSpec ==
    /\ Spec
    /\ \A t \in Threads : /\ WF_vars(Proceed(t))
                          /\ SF_vars(ExitLocks(t)) /\ SF_vars(JoinLocks(t))

-----------------------------------------------------------------------------
(* Properties *)

\* join comes back only after the run it was called for has ended: a waiting
\* joiner that is woken for no reason, or whose thread has not even begun to
\* run, goes on waiting (Thread::Join, Thread::Exit).
JoinMeansOver ==
    \A u \in Threads : at[u] = "joined" => ends[target[u]] >= awaited[u]

\* No joiner sleeps through the exit: once the broadcast is over, nobody
\* waits for it.
NoLostWakeup ==
    \A t \in Threads :
        runState[t] = "Exited" =>
            WaitingFor(t) = {} \/ \E u \in Threads : at[u] = "signalling" /\ target[u] = t

\* A Thread is not touched after it was deleted, not even by the system
\* thread that has just been joined and may still be on its way out.
NoUseAfterDelete ==
    \A t \in Threads : object[t] = "deleted" =>
        /\ at[t] \in {"nowhere", "leaving"}
        /\ exitMutex[t] = NoThread
        /\ \A u \in Threads : at[u] \in Joining => target[u] # t

\* The threads that a walk from head along mpNext visits.
Listed ==
    {t \in Threads :
        \A S \in SUBSET Threads :
            /\ head \in S
            /\ \A p \in S : next[p] \in S \cup {NoThread}
            => t \in S}

\* The list has all the Threads that are not just being linked or were
\* deleted, and the Engine's own at its end, by which exit knows it.
ListHasThreads ==
    /\ \A t \in Threads :
        t \in Listed <=>
            object[t] = "live" /\ \A u \in Threads : ~(at[u] = "linking" /\ target[u] = t)
    /\ \A t \in Threads : object[t] = "live" => (next[t] = NoThread <=> t = Main)

\* Whoever joins a thread that exits comes back.
JoinersReturn ==
    \A t, u \in Threads :
        (runState[t] = "Exited" /\ at[u] \in Joining /\ target[u] = t)
            ~> ~(at[u] \in Joining /\ target[u] = t)

=============================================================================
