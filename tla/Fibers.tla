------------------------------- MODULE Fibers -------------------------------
(***************************************************************************)
(* The cooperative fibers of one Thread (ForthLib/Thread.cpp): the run     *)
(* state of every Fiber, the scheduler Thread::InnerLoop, and the methods  *)
(* of the Forth class Fiber.                                               *)
(*                                                                         *)
(* A Forth program is an arbitrary sequence of the ops that Program allows *)
(* each fiber, so a step of the model is one op of the fiber being run     *)
(* together with what InnerLoop does when that op returns kYield, kDone or *)
(* kError to it.  Stack contents, opcodes and IPs are abstracted away.     *)
(***************************************************************************)
EXTENDS Naturals

CONSTANTS
    NumFibers,    \* mFibers.size(): the fibers are numbered as in mFibers
    NoFiber,      \* nullptr
    Program,      \* Program[f]: the ops that the code of fiber f uses
    Polite,       \* TRUE: fibers only control fibers that are not waiting
    MaxUsleep,    \* milliseconds whose microseconds still fit in an int
    MaxTime,      \* bound: the clock stops here
    MaxSleep      \* bound: the longest sleep a program asks for

FiberState == {"Stopped", "Ready", "Sleeping", "Blocked", "Exited"}

Fibers == 0 .. NumFibers - 1
main == 0

FiberOps == {"yield", "start", "stop", "exit", "join", "sleep", "wake",
             "done", "error", "setError"}

ASSUME FibersAssumption ==
    /\ NumFibers \in Nat \ {0}
    /\ NoFiber \notin Fibers
    /\ Polite \in BOOLEAN
    /\ MaxUsleep \in Nat
    /\ MaxTime \in Nat
    /\ MaxSleep \in Nat

VARIABLES
    runState,     \* Fiber::mRunState
    wakeupTime,   \* Fiber::mWakeupTime
    joinHead,     \* Fiber::mpJoinHead
    nextJoiner,   \* Fiber::mpNextJoiner
    pActive,      \* InnerLoop's local pActiveFiber: the fiber being run
    activeIndex,  \* Thread::mActiveFiberIndex
    inLoop,       \* InnerLoop is on the C++ stack
    mainError,    \* another fiber's op set the main core's state to kError
    now,          \* Engine::GetElapsedTime()
    fellThrough,  \* history: InnerLoop once found no fiber to switch to
    leftAway      \* history: InnerLoop once ended with another fiber active

fiberVars == <<runState, wakeupTime, joinHead, nextJoiner, pActive,
               activeIndex, inLoop, mainError, now, fellThrough, leftAway>>

FiberTypeOK ==
    /\ runState \in [Fibers -> FiberState]
    /\ wakeupTime \in [Fibers -> Nat]
    /\ joinHead \in [Fibers -> Fibers \cup {NoFiber}]
    /\ nextJoiner \in [Fibers -> Fibers \cup {NoFiber}]
    /\ pActive \in Fibers
    /\ activeIndex \in Fibers
    /\ inLoop \in BOOLEAN
    /\ mainError \in BOOLEAN
    /\ now \in Nat
    /\ fellThrough \in BOOLEAN
    /\ leftAway \in BOOLEAN

\* The Thread constructor and CreateFiber: the primary fiber is ready, the
\* fibers it created are stopped until somebody starts them.
FiberInit ==
    /\ runState = [f \in Fibers |-> IF f = main THEN "Ready" ELSE "Stopped"]
    /\ wakeupTime = [f \in Fibers |-> 0]
    /\ joinHead = [f \in Fibers |-> NoFiber]
    /\ nextJoiner = [f \in Fibers |-> NoFiber]
    /\ pActive = main
    /\ activeIndex = main
    /\ inLoop = FALSE
    /\ mainError = FALSE
    /\ now = 0
    /\ fellThrough = FALSE
    /\ leftAway = FALSE

-----------------------------------------------------------------------------
(* Scheduling *)

\* How many steps of the cyclic scan that starts after mActiveFiberIndex it
\* takes to reach f; the scan visits the active fiber itself last.
Distance(f) ==
    IF f > activeIndex THEN f - activeIndex ELSE f + NumFibers - activeIndex

ReadyIn(rs) == {f \in Fibers : rs[f] = "Ready"}
SleepingIn(rs) == {f \in Fibers : rs[f] = "Sleeping"}

\* Mutation: the scan starts at mFibers[0] every time.
IsNextReadyFromZero(f, rs) ==
    /\ f \in ReadyIn(rs)
    /\ \A g \in ReadyIn(rs) : f <= g

\* Thread::GetNextReadyFiber: the first ready fiber of the scan.
IsNextReady(f, rs) ==
    /\ f \in ReadyIn(rs)
    /\ \A g \in ReadyIn(rs) : Distance(f) <= Distance(g)

\* Mutation: any fiber with a wakeup time counts as asleep.
IsNextSleepingByTime(f, rs, wt) ==
    /\ wt[f] > 0
    /\ \A g \in Fibers : wt[g] > 0 => wt[f] <= wt[g]

\* Thread::GetNextSleepingFiber: the first of the sleepers that wake first.
IsNextSleeping(f, rs, wt) ==
    /\ f \in SleepingIn(rs)
    /\ \A g \in SleepingIn(rs) :
          \/ wt[f] < wt[g]
          \/ wt[f] = wt[g] /\ Distance(f) <= Distance(g)

\* Mutation: the scan works on a copy of mActiveFiberIndex and InnerLoop does
\* not call SetActiveFiber.
RunNextReadyUnset(rs, wt) ==
    \E f \in Fibers :
        /\ IsNextReady(f, rs)
        /\ pActive' = f
        /\ runState' = rs
        /\ wakeupTime' = wt
        /\ UNCHANGED <<activeIndex, now, fellThrough>>

\* The body of "if (switchActiveFiber)" in Thread::InnerLoop, entered with
\* the run states rs and the wakeup times wt that the op left behind.
RunNextReady(rs, wt) ==
    \E f \in Fibers :
        /\ IsNextReady(f, rs)
        /\ pActive' = f
        /\ activeIndex' = f
        /\ runState' = rs
        /\ wakeupTime' = wt
        /\ UNCHANGED <<now, fellThrough>>

\* When a usleep of that many milliseconds ends: its argument is an int of
\* microseconds, and one that overflows may cut the sleep short.
AfterUsleep(milliseconds) ==
    IF milliseconds <= MaxUsleep THEN {now + milliseconds}
    ELSE now .. now + milliseconds

\* A sleeper that is due is woken first.  One that is not due makes the
\* whole thread usleep until it is, and is then run as it is: kSleeping.
RunNextSleeping(rs, wt) ==
    /\ ReadyIn(rs) = {}
    /\ \E f \in Fibers :
        /\ IsNextSleeping(f, rs, wt)
        /\ pActive' = f
        /\ activeIndex' = f
        /\ IF now >= wt[f]
           THEN /\ runState' = [rs EXCEPT ![f] = "Ready"]
                /\ wakeupTime' = [wt EXCEPT ![f] = 0]
                /\ now' = now
           ELSE /\ runState' = rs
                /\ wakeupTime' = wt
                /\ now' \in AfterUsleep(wt[f] - now)
        /\ UNCHANGED fellThrough

\* Nobody is ready or sleeping: the same fiber goes on, whatever its state.
RunSameFiber(rs, wt) ==
    /\ ReadyIn(rs) \cup SleepingIn(rs) = {}
    /\ runState' = rs
    /\ wakeupTime' = wt
    /\ fellThrough' = TRUE
    /\ UNCHANGED <<pActive, activeIndex, now>>

SwitchFiber(rs, wt) ==
    \/ RunNextReady(rs, wt)
    \/ RunNextSleeping(rs, wt)
    \/ RunSameFiber(rs, wt)

\* InnerLoop goes on looping if so and the main fiber has neither exited nor
\* been put into error by another one's op; else it ends.
GoOn(so) ==
    /\ inLoop' = (so /\ runState'[main] # "Exited" /\ ~mainError)
    /\ leftAway' = (leftAway \/ (~inLoop' /\ activeIndex' # main))
    /\ UNCHANGED mainError

\* An op that set the core state to kYield returns to InnerLoop, which
\* switches fibers.
YieldWith(rs, wt) == SwitchFiber(rs, wt) /\ GoOn(TRUE)

\* The fiber being run executes op.
Running(op) == inLoop /\ op \in Program[pActive]

\* The fiber being run goes on with its next op.
KeepRunning ==
    UNCHANGED <<runState, wakeupTime, pActive, activeIndex, inLoop, mainError,
                now, fellThrough, leftAway>>

\* What a polite program makes sure of before it controls fiber t.
MayControl(t) == Polite => runState[t] \notin {"Blocked", "Exited"}

-----------------------------------------------------------------------------
(* Joining: an intrusive list that starts at joinHead[t] *)

\* The fibers that a walk from joinHead[t] along mpNextJoiner visits.
Joiners(t) ==
    {f \in Fibers :
        \A S \in SUBSET Fibers :
            /\ joinHead[t] \in S \cup {NoFiber}
            /\ \A g \in S : nextJoiner[g] \in S \cup {NoFiber}
            => f \in S}

\* Mutation: the joiners are unlinked but not woken.
ExitWithoutWake(t) ==
    /\ Running("exit")
    /\ MayControl(t)
    /\ YieldWith([runState EXCEPT ![t] = "Exited"], wakeupTime)
    /\ nextJoiner' = [f \in Fibers |-> IF f \in Joiners(t) THEN NoFiber
                                       ELSE nextJoiner[f]]
    /\ joinHead' = [joinHead EXCEPT ![t] = NoFiber]

\* Fiber::Exit: the fiber is exited, its joiners are ready and unlinked.
Exit(t) ==
    /\ Running("exit")
    /\ MayControl(t)
    /\ YieldWith([f \in Fibers |-> IF f \in Joiners(t) THEN "Ready"
                                   ELSE IF f = t THEN "Exited"
                                   ELSE runState[f]],
                 [f \in Fibers |-> IF f \in Joiners(t) THEN 0
                                   ELSE wakeupTime[f]])
    /\ nextJoiner' = [f \in Fibers |-> IF f \in Joiners(t) THEN NoFiber
                                       ELSE nextJoiner[f]]
    /\ joinHead' = [joinHead EXCEPT ![t] = NoFiber]

\* Fiber.join: the fiber that the thread calls active, which need not be the
\* one that executes the op, blocks at the head of t's list.
Join(t) ==
    /\ Running("join")
    /\ IF runState[t] = "Exited"
       THEN /\ YieldWith(runState, wakeupTime)
            /\ UNCHANGED <<joinHead, nextJoiner>>
       ELSE /\ YieldWith([runState EXCEPT ![activeIndex] = "Blocked"],
                         wakeupTime)
            /\ nextJoiner' = [nextJoiner EXCEPT ![activeIndex] = joinHead[t]]
            /\ joinHead' = [joinHead EXCEPT ![t] = activeIndex]

-----------------------------------------------------------------------------
(* The other ops of a fiber *)

\* yield
Yield ==
    /\ Running("yield")
    /\ YieldWith(runState, wakeupTime)
    /\ UNCHANGED <<joinHead, nextJoiner>>

\* Fiber.start and Fiber.startWithArgs make t ready and do not yield.
Start(t) ==
    /\ Running("start")
    /\ MayControl(t)
    /\ runState' = [runState EXCEPT ![t] = "Ready"]
    /\ UNCHANGED <<wakeupTime, joinHead, nextJoiner, pActive, activeIndex,
                   inLoop, mainError, now, fellThrough, leftAway>>

\* Mutation: stop does not set kYield.
StopWithoutYield(t) ==
    /\ Running("stop")
    /\ MayControl(t)
    /\ runState' = [runState EXCEPT ![t] = "Stopped"]
    /\ UNCHANGED <<wakeupTime, joinHead, nextJoiner, pActive, activeIndex,
                   inLoop, mainError, now, fellThrough, leftAway>>

\* Fiber.stop
Stop(t) ==
    /\ Running("stop")
    /\ MayControl(t)
    /\ YieldWith([runState EXCEPT ![t] = "Stopped"], wakeupTime)
    /\ UNCHANGED <<joinHead, nextJoiner>>

\* Fiber.sleep
Sleep(t, milliseconds) ==
    /\ Running("sleep")
    /\ MayControl(t)
    /\ now + milliseconds <= MaxTime
    /\ YieldWith([runState EXCEPT ![t] = "Sleeping"],
                 [wakeupTime EXCEPT ![t] = now + milliseconds])
    /\ UNCHANGED <<joinHead, nextJoiner>>

\* Fiber.wake
Wake(t) ==
    /\ Running("wake")
    /\ MayControl(t)
    /\ YieldWith([runState EXCEPT ![t] = "Ready"],
                 [wakeupTime EXCEPT ![t] = 0])
    /\ UNCHANGED <<joinHead, nextJoiner>>

\* An op that returned kDone or kError to InnerLoop.  Only if the fiber has
\* exited meanwhile does InnerLoop switch, as after a yield.
SwitchIfExited ==
    IF runState[pActive] = "Exited"
    THEN SwitchFiber(runState, wakeupTime)
    ELSE UNCHANGED <<runState, wakeupTime, pActive, activeIndex, now,
                     fellThrough>>

\* The op of a fiber returns to OP_DONE: InnerLoop ends, for every fiber.
Done ==
    /\ Running("done")
    /\ SwitchIfExited
    /\ GoOn(FALSE)
    /\ UNCHANGED <<joinHead, nextJoiner>>

\* An error in the core of the fiber that runs: InnerLoop ends if that is the
\* main fiber, and runs the failed fiber again if it is another.
ErrorReturn ==
    /\ SwitchIfExited
    /\ GoOn(pActive # main)

\* An op that reports its error to its own core (CoreSetError, and
\* RaiseException without a frame).
Fail ==
    /\ Running("error")
    /\ ErrorReturn
    /\ UNCHANGED <<joinHead, nextJoiner>>

\* Mutation: the error of another fiber's op ends InnerLoop at once.
SetErrorEndsLoop ==
    IF pActive = main THEN ErrorReturn ELSE SwitchIfExited /\ GoOn(FALSE)

\* Engine::SetError puts the error into the main fiber's core, whose op ever
\* reports it: another fiber goes on, and InnerLoop ends after its next yield.
SetError ==
    \/ pActive = main /\ ErrorReturn
    \/ /\ pActive # main
       /\ mainError' = TRUE
       /\ UNCHANGED <<runState, wakeupTime, pActive, activeIndex, inLoop, now,
                      fellThrough, leftAway>>

\* An op that reports its error to the engine, as most do.
Report ==
    /\ Running("setError")
    /\ SetError
    /\ UNCHANGED <<joinHead, nextJoiner>>

\* Engine::ExecuteOps enters InnerLoop again for the next op of the main
\* fiber, whose core starts without an error and whatever the fiber waited
\* for.  mActiveFiberIndex keeps the value it had when the loop ended.
ExecuteOps ==
    /\ ~inLoop
    /\ inLoop' = TRUE
    /\ mainError' = FALSE
    /\ pActive' = main
    /\ runState' = [runState EXCEPT ![main] = "Ready"]
    /\ UNCHANGED <<wakeupTime, joinHead, nextJoiner, activeIndex, now,
                   fellThrough, leftAway>>

\* Time passes.
Tick ==
    /\ now < MaxTime
    /\ now' = now + 1
    /\ UNCHANGED <<runState, wakeupTime, joinHead, nextJoiner, pActive,
                   activeIndex, inLoop, mainError, fellThrough, leftAway>>

Control(t) ==
    \/ Exit(t) \/ Join(t) \/ Start(t) \/ Stop(t) \/ Wake(t)
    \/ \E milliseconds \in 0 .. MaxSleep : Sleep(t, milliseconds)

FiberNext ==
    \/ Yield \/ Done \/ Fail \/ Report \/ ExecuteOps \/ Tick
    \/ \E t \in Fibers : Control(t)

FiberSpec == FiberInit /\ [][FiberNext]_fiberVars

\* A cooperative program: whatever fiber runs, it yields again and again.
FairFiberSpec == FiberSpec /\ WF_fiberVars(Yield)

-----------------------------------------------------------------------------
(* Properties *)

\* InnerLoop has always known which fiber it runs: it never had to go on with
\* one that cannot, nor ended while another than the main fiber was active.
OnTrack == ~fellThrough /\ ~leftAway

\* InnerLoop and the fiber methods agree on which fiber is active: when
\* fiber.join blocks GetActiveFiber(), that is the fiber that called it.
\* ExecuteOps spoils it once the loop has ended in another fiber.
ActiveInSync == inLoop /\ ~leftAway => activeIndex = pActive

\* Until InnerLoop has lost track, the fiber it runs is one that may run: it
\* has not blocked, stopped or exited.
ActiveIsRunnable ==
    inLoop /\ OnTrack => runState[pActive] \in {"Ready", "Sleeping"}

\* No joiner is forgotten: a blocked fiber is in the join list of exactly
\* one fiber, and that fiber has yet to exit and wake it.
NoLostJoiner ==
    OnTrack =>
        \A f \in Fibers : runState[f] = "Blocked" =>
            \E t \in Fibers :
                /\ f \in Joiners(t)
                /\ runState[t] # "Exited"
                /\ \A u \in Fibers \ {t} : f \notin Joiners(u)

\* A fiber that has exited is never made runnable again, by a join list it
\* was left in or by anything else.
ExitIsFinal ==
    [][\A f \in Fibers :
          runState[f] = "Exited" /\ OnTrack' => runState'[f] = "Exited"
      ]_fiberVars

\* Round robin: a ready fiber gets its turn if the others keep yielding.
ReadyIsRun ==
    \A f \in Fibers :
        (inLoop /\ runState[f] = "Ready")
            ~> (pActive = f \/ runState[f] # "Ready" \/ ~inLoop)

=============================================================================
