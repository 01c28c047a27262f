--------------------------- MODULE SoftLocksProofs ---------------------------
(***************************************************************************)
(* Proofs about Fibers and SoftLocks.  Part one is about Fibers alone, for *)
(* any number of fibers: type correctness for any program, and for polite  *)
(* ones that the fiber InnerLoop runs may run and that every blocked fiber *)
(* is in the join list that will wake it.  Part two is about the locks and *)
(* semaphores, for any number of them and any program; it uses part one.   *)
(***************************************************************************)
EXTENDS SoftLocks, FiniteSetTheorems, TLAPS

-----------------------------------------------------------------------------
(* PART ONE: FIBERS *)


-----------------------------------------------------------------------------
(* Switching fibers *)

\* A usleep ends at a time, whether or not its argument overflows.
LEMMA UsleepType ==
    ASSUME now \in Nat, NEW milliseconds \in Nat
    PROVE  AfterUsleep(milliseconds) \subseteq Nat
BY DEF AfterUsleep

\* Whatever run states an op leaves behind, InnerLoop switches to one of the
\* fibers and leaves run states and times behind.
LEMMA SwitchType ==
    ASSUME FiberTypeOK,
           NEW rs \in [Fibers -> FiberState],
           NEW wt \in [Fibers -> Nat],
           SwitchFiber(rs, wt)
    PROVE  /\ runState' \in [Fibers -> FiberState]
           /\ wakeupTime' \in [Fibers -> Nat]
           /\ pActive' \in Fibers
           /\ activeIndex' \in Fibers
           /\ now' \in Nat
           /\ fellThrough' \in BOOLEAN
<1>1. CASE RunNextReady(rs, wt)
    BY <1>1 DEF RunNextReady, FiberTypeOK
<1>2. CASE RunNextSleeping(rs, wt)
  <2>1. PICK f \in Fibers :
          /\ pActive' = f
          /\ activeIndex' = f
          /\ IF now >= wt[f]
             THEN /\ runState' = [rs EXCEPT ![f] = "Ready"]
                  /\ wakeupTime' = [wt EXCEPT ![f] = 0]
                  /\ now' = now
             ELSE /\ runState' = rs
                  /\ wakeupTime' = wt
                  /\ now' \in AfterUsleep(wt[f] - now)
          /\ UNCHANGED fellThrough
      BY <1>2 DEF RunNextSleeping
  <2>2. now \in Nat /\ wt[f] \in Nat
      BY DEF FiberTypeOK
  <2>3. CASE now >= wt[f]
      BY <2>1, <2>3 DEF FiberTypeOK, FiberState
  <2>4. CASE ~(now >= wt[f])
    <3>1. wt[f] - now \in Nat
        BY <2>2, <2>4
    <3>2. now' \in Nat
        BY <2>1, <2>2, <2>4, <3>1, UsleepType
    <3>3. QED
        BY <2>1, <2>4, <3>2 DEF FiberTypeOK
  <2>5. QED
      BY <2>3, <2>4
<1>3. CASE RunSameFiber(rs, wt)
    BY <1>3 DEF RunSameFiber, FiberTypeOK
<1>4. QED
    BY <1>1, <1>2, <1>3 DEF SwitchFiber

\* The loop goes on or ends, and nobody forgets where it ended.
LEMMA GoOnType ==
    ASSUME FiberTypeOK, NEW so \in BOOLEAN, GoOn(so)
    PROVE  inLoop' \in BOOLEAN /\ mainError' \in BOOLEAN /\ leftAway' \in BOOLEAN
<1>1. inLoop' = (so /\ runState'[main] # "Exited" /\ ~mainError)
    BY DEF GoOn
<1>2. leftAway' = (leftAway \/ (~inLoop' /\ activeIndex' # main))
    BY DEF GoOn
<1>3. QED
    BY <1>1, <1>2 DEF GoOn, FiberTypeOK

LEMMA YieldType ==
    ASSUME FiberTypeOK,
           NEW rs \in [Fibers -> FiberState],
           NEW wt \in [Fibers -> Nat],
           YieldWith(rs, wt)
    PROVE  /\ runState' \in [Fibers -> FiberState]
           /\ wakeupTime' \in [Fibers -> Nat]
           /\ pActive' \in Fibers
           /\ activeIndex' \in Fibers
           /\ inLoop' \in BOOLEAN
           /\ mainError' \in BOOLEAN
           /\ now' \in Nat
           /\ fellThrough' \in BOOLEAN
           /\ leftAway' \in BOOLEAN
BY SwitchType, GoOnType DEF YieldWith

\* The part of the state that every step of the scheduler may change.
SchedulerTypeOK ==
    /\ runState \in [Fibers -> FiberState]
    /\ wakeupTime \in [Fibers -> Nat]
    /\ pActive \in Fibers
    /\ activeIndex \in Fibers
    /\ inLoop \in BOOLEAN
    /\ mainError \in BOOLEAN
    /\ now \in Nat
    /\ fellThrough \in BOOLEAN
    /\ leftAway \in BOOLEAN

\* The same for an op that ends with kDone or kError.
LEMMA ExitedType ==
    ASSUME FiberTypeOK, SwitchIfExited, NEW so \in BOOLEAN, GoOn(so)
    PROVE  SchedulerTypeOK'
<1>1. CASE runState[pActive] = "Exited"
  <2>1. SwitchFiber(runState, wakeupTime)
      BY <1>1 DEF SwitchIfExited
  <2>2. /\ runState \in [Fibers -> FiberState]
        /\ wakeupTime \in [Fibers -> Nat]
      BY DEF FiberTypeOK
  <2>3. QED
      BY <2>1, <2>2, SwitchType, GoOnType DEF SchedulerTypeOK
<1>2. CASE runState[pActive] # "Exited"
    BY <1>2, GoOnType DEF SwitchIfExited, FiberTypeOK, SchedulerTypeOK
<1>3. QED
    BY <1>1, <1>2

\* And for one whose error goes to the main fiber's core.
LEMMA SetErrorType ==
    ASSUME FiberTypeOK, SetError
    PROVE  SchedulerTypeOK'
<1>1. CASE pActive = main /\ ErrorReturn
    BY <1>1, ExitedType DEF ErrorReturn
<1>2. CASE /\ mainError' = TRUE
           /\ UNCHANGED <<runState, wakeupTime, pActive, activeIndex, inLoop,
                          now, fellThrough, leftAway>>
    BY <1>2 DEF FiberTypeOK, SchedulerTypeOK
<1>3. QED
    BY <1>1, <1>2 DEF SetError

-----------------------------------------------------------------------------
(* Type correctness *)

\* Every op of a fiber keeps the types.
LEMMA FiberNextType ==
    ASSUME FibersAssumption, FiberTypeOK, FiberNext
    PROVE  FiberTypeOK'
<1> USE FibersAssumption
<1> DEFINE Lists == /\ joinHead' \in [Fibers -> Fibers \cup {NoFiber}]
                    /\ nextJoiner' \in [Fibers -> Fibers \cup {NoFiber}]
<1>0. main \in Fibers
    BY DEF Fibers, main
<1>1. CASE Yield
  <2>1. YieldWith(runState, wakeupTime)
      BY <1>1 DEF Yield
  <2>2. QED
      BY <1>1, <2>1, YieldType DEF Yield, FiberTypeOK
<1>2. CASE Done
  <2>1. SchedulerTypeOK'
      BY <1>2, ExitedType DEF Done
  <2>2. QED
      BY <1>2, <2>1 DEF Done, FiberTypeOK, SchedulerTypeOK
<1>3. CASE Fail
  <2>1. SchedulerTypeOK'
      BY <1>3, ExitedType DEF Fail, ErrorReturn
  <2>2. QED
      BY <1>3, <2>1 DEF Fail, FiberTypeOK, SchedulerTypeOK
<1>4. CASE ExecuteOps
    BY <1>0, <1>4 DEF ExecuteOps, FiberTypeOK, FiberState
<1>5. CASE Tick
    BY <1>5 DEF Tick, FiberTypeOK
<1>8. CASE Report
  <2>1. SchedulerTypeOK'
      BY <1>8, SetErrorType DEF Report
  <2>2. QED
      BY <1>8, <2>1 DEF Report, FiberTypeOK, SchedulerTypeOK
<1>6. ASSUME NEW t \in Fibers, Control(t)
      PROVE  FiberTypeOK'
  <2>1. CASE Exit(t)
    <3> DEFINE rs == [f \in Fibers |-> IF f \in Joiners(t) THEN "Ready"
                                       ELSE IF f = t THEN "Exited"
                                       ELSE runState[f]]
               wt == [f \in Fibers |-> IF f \in Joiners(t) THEN 0
                                       ELSE wakeupTime[f]]
    <3>1. rs \in [Fibers -> FiberState] /\ wt \in [Fibers -> Nat]
        BY DEF FiberTypeOK, FiberState
    <3>2. YieldWith(rs, wt)
        BY <2>1 DEF Exit
    <3>3. Lists
        BY <2>1 DEF Exit, FiberTypeOK
    <3>4. QED
        BY <3>1, <3>2, <3>3, YieldType DEF FiberTypeOK
  <2>2. CASE Join(t)
    <3>1. CASE runState[t] = "Exited"
      <4>1. YieldWith(runState, wakeupTime) /\ Lists
          BY <2>2, <3>1 DEF Join, FiberTypeOK
      <4>2. QED
          BY <4>1, YieldType DEF FiberTypeOK
    <3>2. CASE runState[t] # "Exited"
      <4> DEFINE rs == [runState EXCEPT ![activeIndex] = "Blocked"]
      <4>1. rs \in [Fibers -> FiberState]
          BY DEF FiberTypeOK, FiberState
      <4>2. YieldWith(rs, wakeupTime) /\ Lists
          BY <2>2, <3>2 DEF Join, FiberTypeOK
      <4>3. QED
          BY <4>1, <4>2, YieldType DEF FiberTypeOK
    <3>3. QED
        BY <3>1, <3>2
  <2>3. CASE Start(t)
      BY <2>3 DEF Start, FiberTypeOK, FiberState
  <2>4. CASE Stop(t)
    <3> DEFINE rs == [runState EXCEPT ![t] = "Stopped"]
    <3>1. rs \in [Fibers -> FiberState]
        BY DEF FiberTypeOK, FiberState
    <3>2. YieldWith(rs, wakeupTime) /\ Lists
        BY <2>4 DEF Stop, FiberTypeOK
    <3>3. QED
        BY <3>1, <3>2, YieldType DEF FiberTypeOK
  <2>5. CASE Wake(t)
    <3> DEFINE rs == [runState EXCEPT ![t] = "Ready"]
               wt == [wakeupTime EXCEPT ![t] = 0]
    <3>1. rs \in [Fibers -> FiberState] /\ wt \in [Fibers -> Nat]
        BY DEF FiberTypeOK, FiberState
    <3>2. YieldWith(rs, wt) /\ Lists
        BY <2>5 DEF Wake, FiberTypeOK
    <3>3. QED
        BY <3>1, <3>2, YieldType DEF FiberTypeOK
  <2>6. ASSUME NEW ms \in 0 .. MaxSleep, Sleep(t, ms)
        PROVE  FiberTypeOK'
    <3> DEFINE rs == [runState EXCEPT ![t] = "Sleeping"]
               wt == [wakeupTime EXCEPT ![t] = now + ms]
    <3>1. rs \in [Fibers -> FiberState] /\ wt \in [Fibers -> Nat]
        BY DEF FiberTypeOK, FiberState
    <3>2. YieldWith(rs, wt) /\ Lists
        BY <2>6 DEF Sleep, FiberTypeOK
    <3>3. QED
        BY <3>1, <3>2, YieldType DEF FiberTypeOK
  <2>7. QED
      BY <1>6, <2>1, <2>2, <2>3, <2>4, <2>5, <2>6 DEF Control
<1>7. QED
    BY <1>1, <1>2, <1>3, <1>4, <1>5, <1>6, <1>8 DEF FiberNext

-----------------------------------------------------------------------------
(* What polite programs keep, until InnerLoop loses track *)

\* The fiber being run is the active one, and may run; the loop has ended only
\* in the main fiber, which has not exited.
SchedulerInv ==
    /\ activeIndex = pActive
    /\ runState[pActive] \in {"Ready", "Sleeping"}
    /\ ~inLoop => pActive = main
    /\ runState[main] # "Exited"

\* A fiber in a join list is blocked, in no other, and the fiber it waits
\* for has yet to exit.
JoinInv ==
    \A t \in Fibers : \A f \in Joiners(t) :
        /\ runState[f] = "Blocked"
        /\ runState[t] # "Exited"
        /\ \A u \in Fibers \ {t} : f \notin Joiners(u)

\* Fiber f waits for a fiber.
IsJoiner(f) == \E t \in Fibers : f \in Joiners(t)

\* What a step of the scheduler may do to the fibers that wait: a fiber that
\* is blocked for another reason stays blocked and joins nothing, and one
\* that is blocked is so for the same reason as before or has joined.  Nor
\* does an exited fiber come back.
WaitersKept ==
    \A f \in Fibers :
        /\ runState[f] = "Exited" => runState'[f] = "Exited"
        /\ runState[f] = "Blocked" /\ ~IsJoiner(f)
             => runState'[f] = "Blocked" /\ ~IsJoiner(f)'
        /\ runState'[f] = "Blocked" /\ ~IsJoiner(f)'
             => runState[f] = "Blocked" /\ ~IsJoiner(f)

\* Unless it falls through, the loop goes on with a fiber that may run, and
\* changes no state but that of a sleeper it wakes.
LEMMA SwitchEffect ==
    ASSUME FiberTypeOK,
           NEW rs \in [Fibers -> FiberState],
           NEW wt \in [Fibers -> Nat],
           SwitchFiber(rs, wt),
           ~fellThrough'
    PROVE  /\ ~fellThrough
           /\ pActive' \in Fibers
           /\ activeIndex' = pActive'
           /\ runState'[pActive'] \in {"Ready", "Sleeping"}
           /\ \A f \in Fibers :
                 /\ runState'[f] = "Blocked" <=> rs[f] = "Blocked"
                 /\ runState'[f] = "Exited" <=> rs[f] = "Exited"
<1>1. CASE RunNextReady(rs, wt)
    BY <1>1 DEF RunNextReady, IsNextReady, ReadyIn
<1>2. CASE RunNextSleeping(rs, wt)
  <2>1. PICK f \in Fibers :
          /\ rs[f] = "Sleeping"
          /\ pActive' = f
          /\ activeIndex' = f
          /\ runState' = rs \/ runState' = [rs EXCEPT ![f] = "Ready"]
      BY <1>2 DEF RunNextSleeping, IsNextSleeping, SleepingIn
  <2>2. ~fellThrough
      BY <1>2 DEF RunNextSleeping
  <2>3. QED
      BY <2>1, <2>2
<1>3. CASE RunSameFiber(rs, wt)
    BY <1>3 DEF RunSameFiber
<1>4. QED
    BY <1>1, <1>2, <1>3 DEF SwitchFiber

\* An op that yields keeps SchedulerInv: if the loop ends after it, as it does
\* when the main fiber has exited, the active fiber is the main one, which
\* then may run.
LEMMA YieldEffect ==
    ASSUME FibersAssumption,
           FiberTypeOK,
           NEW rs \in [Fibers -> FiberState],
           NEW wt \in [Fibers -> Nat],
           YieldWith(rs, wt),
           OnTrack'
    PROVE  /\ OnTrack
           /\ SchedulerInv'
           /\ \A f \in Fibers :
                 /\ runState'[f] = "Blocked" <=> rs[f] = "Blocked"
                 /\ runState'[f] = "Exited" <=> rs[f] = "Exited"
<1>1. /\ main \in Fibers /\ main' = main
      /\ ~fellThrough' /\ ~leftAway'
    BY FibersAssumption DEF Fibers, main, OnTrack
<1>2. SwitchFiber(rs, wt)
    BY DEF YieldWith
<1>3. /\ runState'[main] = "Exited" => ~inLoop'
      /\ ~inLoop' => activeIndex' = main
      /\ ~leftAway
    BY <1>1 DEF YieldWith, GoOn
<1>4. /\ ~fellThrough
      /\ activeIndex' = pActive'
      /\ runState'[pActive'] \in {"Ready", "Sleeping"}
      /\ \A f \in Fibers :
            /\ runState'[f] = "Blocked" <=> rs[f] = "Blocked"
            /\ runState'[f] = "Exited" <=> rs[f] = "Exited"
    BY <1>1, <1>2, SwitchEffect
<1>5. runState'[main] # "Exited"
    BY <1>3, <1>4
<1>6. QED
    BY <1>1, <1>3, <1>4, <1>5 DEF SchedulerInv, OnTrack

-----------------------------------------------------------------------------
(* Join lists *)

\* The joiners of a fiber are reached: whoever its list starts with, and
\* whoever comes after one of them.
LEMMA JoinersClosed ==
    ASSUME FiberTypeOK, NEW t \in Fibers
    PROVE  /\ Joiners(t) \subseteq Fibers
           /\ joinHead[t] \in Joiners(t) \cup {NoFiber}
           /\ \A g \in Joiners(t) : nextJoiner[g] \in Joiners(t) \cup {NoFiber}
BY DEF Joiners, FiberTypeOK

\* And nobody else is: they are in every set that is closed like this.
LEMMA JoinersLeast ==
    ASSUME FiberTypeOK, NEW t \in Fibers, NEW S \in SUBSET Fibers,
           joinHead[t] \in S \cup {NoFiber},
           \A g \in S : nextJoiner[g] \in S \cup {NoFiber}
    PROVE  Joiners(t) \subseteq S
BY DEF Joiners

\* A list of which neither the head nor a link changes keeps its joiners.
LEMMA JoinersSame ==
    ASSUME FiberTypeOK, FiberTypeOK', NEW t \in Fibers,
           joinHead'[t] = joinHead[t],
           \A g \in Joiners(t) : nextJoiner'[g] = nextJoiner[g]
    PROVE  Joiners(t)' = Joiners(t)
<1>1. Joiners(t)' \subseteq Joiners(t)
  <2>1. joinHead'[t] \in Joiners(t) \cup {NoFiber}
      BY JoinersClosed
  <2>2. \A g \in Joiners(t) : nextJoiner'[g] \in Joiners(t) \cup {NoFiber}
      BY JoinersClosed
  <2>3. QED
      BY <2>1, <2>2, JoinersClosed DEF Joiners
<1>2. ASSUME NEW f \in Joiners(t), NEW S \in SUBSET Fibers,
             joinHead'[t] \in S \cup {NoFiber},
             \A g \in S : nextJoiner'[g] \in S \cup {NoFiber}
      PROVE  f \in S
  <2> DEFINE T == S \cap Joiners(t)
  <2>1. T \in SUBSET Fibers /\ joinHead[t] \in T \cup {NoFiber}
      BY <1>2, JoinersClosed
  <2>2. \A g \in T : nextJoiner[g] \in T \cup {NoFiber}
      BY <1>2, JoinersClosed
  <2>3. QED
      BY <1>2, <2>1, <2>2, JoinersLeast
<1>3. Joiners(t) \subseteq Joiners(t)'
    BY <1>2, JoinersClosed DEF Joiners
<1>4. QED
    BY <1>1, <1>3

\* Linking a fiber that is in no list in front of a list adds it.
LEMMA JoinersPush ==
    ASSUME FiberTypeOK, FiberTypeOK', NEW t \in Fibers, NEW a \in Fibers,
           a \notin Joiners(t),
           joinHead'[t] = a,
           nextJoiner' = [nextJoiner EXCEPT ![a] = joinHead[t]]
    PROVE  Joiners(t)' = Joiners(t) \cup {a}
<1> DEFINE U == Joiners(t) \cup {a}
<1>0. nextJoiner \in [Fibers -> Fibers \cup {NoFiber}]
    BY DEF FiberTypeOK
<1>1. Joiners(t)' \subseteq U
  <2>1. U \in SUBSET Fibers /\ joinHead'[t] \in U \cup {NoFiber}
      BY JoinersClosed
  <2>2. \A g \in U : nextJoiner'[g] \in U \cup {NoFiber}
      BY <1>0, JoinersClosed
  <2>3. QED
      BY <2>1, <2>2 DEF Joiners
<1>2. ASSUME NEW f \in U, NEW S \in SUBSET Fibers,
             joinHead'[t] \in S \cup {NoFiber},
             \A g \in S : nextJoiner'[g] \in S \cup {NoFiber}
      PROVE  f \in S
  <2> DEFINE T == S \cap Joiners(t)
  <2>0. a \in S
      BY <1>2, FibersAssumption DEF FibersAssumption
  <2>1. T \in SUBSET Fibers /\ joinHead[t] \in T \cup {NoFiber}
      BY <1>0, <1>2, <2>0, JoinersClosed
  <2>2. \A g \in T : nextJoiner[g] \in T \cup {NoFiber}
      BY <1>0, <1>2, JoinersClosed
  <2>3. Joiners(t) \subseteq T
      BY <2>1, <2>2, JoinersLeast
  <2>4. QED
      BY <2>0, <2>3
<1>3. U \subseteq Joiners(t)'
    BY <1>2, JoinersClosed DEF Joiners
<1>4. QED
    BY <1>1, <1>3

\* A list that has lost its head has no joiners.
LEMMA JoinersEmpty ==
    ASSUME NEW t \in Fibers, joinHead'[t] = NoFiber
    PROVE  Joiners(t)' = {}
<1>1. {} \in SUBSET Fibers
    OBVIOUS
<1>2. \A f \in Joiners(t)' : f \in {}
    BY <1>1 DEF Joiners
<1>3. QED
    BY <1>2

\* A step that touches no list and changes no blocked or exited fiber.
LEMMA QuietEffect ==
    ASSUME JoinInv,
           UNCHANGED <<joinHead, nextJoiner>>,
           \A f \in Fibers :
              /\ runState'[f] = "Blocked" <=> runState[f] = "Blocked"
              /\ runState'[f] = "Exited" <=> runState[f] = "Exited"
    PROVE  JoinInv' /\ WaitersKept
<1>1. \A t \in Fibers : Joiners(t)' = Joiners(t)
    BY DEF Joiners
<1>2. \A t \in Fibers : Joiners(t) \subseteq Fibers
    BY DEF Joiners
<1>3. QED
    BY <1>1, <1>2 DEF JoinInv, WaitersKept, IsJoiner

\* Fiber.exit wakes exactly the joiners of t, and leaves every other list be.
LEMMA ExitEffect ==
    ASSUME FibersAssumption, Polite, FiberTypeOK, FiberTypeOK', SchedulerInv,
           JoinInv, NEW t \in Fibers, Exit(t), OnTrack'
    PROVE  OnTrack /\ SchedulerInv' /\ JoinInv' /\ WaitersKept
<1> DEFINE rs == [f \in Fibers |-> IF f \in Joiners(t) THEN "Ready"
                                   ELSE IF f = t THEN "Exited"
                                   ELSE runState[f]]
           wt == [f \in Fibers |-> IF f \in Joiners(t) THEN 0
                                   ELSE wakeupTime[f]]
<1>1. /\ rs \in [Fibers -> FiberState]
      /\ wt \in [Fibers -> Nat]
      /\ main \in Fibers
    BY FibersAssumption DEF FiberTypeOK, FiberState, Fibers, main
<1>2. runState[t] # "Blocked" /\ YieldWith(rs, wt)
    BY DEF Exit, MayControl
<1>4. /\ OnTrack
      /\ SchedulerInv'
      /\ \A f \in Fibers :
            /\ runState'[f] = "Blocked" <=> rs[f] = "Blocked"
            /\ runState'[f] = "Exited" <=> rs[f] = "Exited"
    BY <1>1, <1>2, YieldEffect
<1>5. Joiners(t)' = {}
    BY JoinersEmpty DEF Exit, FiberTypeOK
<1>6. ASSUME NEW u \in Fibers, u # t
      PROVE  Joiners(u)' = Joiners(u)
  <2>1. joinHead'[u] = joinHead[u]
      BY <1>6 DEF Exit, FiberTypeOK
  <2>2. ASSUME NEW g \in Joiners(u)
        PROVE  nextJoiner'[g] = nextJoiner[g]
    <3>1. g \in Fibers /\ g \notin Joiners(t)
        BY <1>6, JoinersClosed DEF JoinInv
    <3>2. QED
        BY <3>1 DEF Exit
  <2>3. QED
      BY <2>1, <2>2, JoinersSame
<1>7. \A u \in Fibers : Joiners(u) \subseteq Fibers
    BY JoinersClosed
<1>8. JoinInv'
  <2> SUFFICES ASSUME NEW u \in Fibers, NEW f \in Joiners(u)'
               PROVE  /\ runState'[f] = "Blocked"
                      /\ runState'[u] # "Exited"
                      /\ \A v \in Fibers \ {u} : f \notin Joiners(v)'
      BY DEF JoinInv
  <2>1. u # t /\ f \in Joiners(u) /\ f \in Fibers
      BY <1>5, <1>6, <1>7
  <2>2. /\ runState[f] = "Blocked"
        /\ runState[u] # "Exited"
        /\ \A v \in Fibers \ {u} : f \notin Joiners(v)
      BY <2>1 DEF JoinInv
  <2>3. rs[f] = "Blocked" /\ rs[u] # "Exited"
      BY <1>2, <2>1, <2>2
  <2>4. \A v \in Fibers \ {u} : f \notin Joiners(v)'
      BY <1>5, <1>6, <2>2
  <2>5. QED
      BY <1>4, <2>1, <2>3, <2>4
<1>9. WaitersKept
  <2> SUFFICES ASSUME NEW f \in Fibers
               PROVE  /\ runState[f] = "Exited" => runState'[f] = "Exited"
                      /\ runState[f] = "Blocked" /\ ~IsJoiner(f)
                           => runState'[f] = "Blocked" /\ ~IsJoiner(f)'
                      /\ runState'[f] = "Blocked" /\ ~IsJoiner(f)'
                           => runState[f] = "Blocked" /\ ~IsJoiner(f)
      BY DEF WaitersKept
  <2>1. ~IsJoiner(f) => ~IsJoiner(f)'
      BY <1>5, <1>6 DEF IsJoiner
  <2>2. ~IsJoiner(f)' => ~IsJoiner(f) \/ f \in Joiners(t)
      BY <1>6 DEF IsJoiner
  <2>3. runState'[f] = "Blocked" <=> rs[f] = "Blocked"
      BY <1>4
  <2>4. rs[f] = "Blocked" <=> runState[f] = "Blocked" /\ f \notin Joiners(t)
      BY <1>2
  <2>5. ~IsJoiner(f) => f \notin Joiners(t)
      BY DEF IsJoiner
  <2>6. runState[f] = "Exited" => runState'[f] = "Exited"
    <3>1. runState[f] = "Exited" => f \notin Joiners(t)
        BY DEF JoinInv
    <3>2. QED
        BY <1>4, <3>1
  <2>7. QED
      BY <2>1, <2>2, <2>3, <2>4, <2>5, <2>6
<1>10. QED
    BY <1>4, <1>8, <1>9

\* Fiber.join on a fiber that has yet to exit blocks the fiber that calls it
\* and links it in front of the list.
LEMMA JoinEffect ==
    ASSUME FibersAssumption, Polite, FiberTypeOK, FiberTypeOK', SchedulerInv,
           JoinInv, NEW t \in Fibers, Join(t), runState[t] # "Exited",
           OnTrack'
    PROVE  OnTrack /\ SchedulerInv' /\ JoinInv' /\ WaitersKept
<1> DEFINE a == activeIndex
           rs == [runState EXCEPT ![a] = "Blocked"]
<1>1. /\ rs \in [Fibers -> FiberState]
      /\ a \in Fibers
      /\ main \in Fibers
      /\ wakeupTime \in [Fibers -> Nat]
    BY FibersAssumption DEF FiberTypeOK, FiberState, Fibers, main
<1>2. YieldWith(rs, wakeupTime)
    BY DEF Join
<1>4. /\ OnTrack
      /\ SchedulerInv'
      /\ \A f \in Fibers :
            /\ runState'[f] = "Blocked" <=> rs[f] = "Blocked"
            /\ runState'[f] = "Exited" <=> rs[f] = "Exited"
    BY <1>1, <1>2, YieldEffect
<1>5. runState[a] # "Blocked" /\ \A u \in Fibers : a \notin Joiners(u)
    BY DEF SchedulerInv, JoinInv
<1>6. Joiners(t)' = Joiners(t) \cup {a}
  <2>1. /\ joinHead'[t] = a
        /\ nextJoiner' = [nextJoiner EXCEPT ![a] = joinHead[t]]
      BY DEF Join, FiberTypeOK
  <2>2. QED
      BY <1>1, <1>5, <2>1, JoinersPush
<1>7. ASSUME NEW u \in Fibers, u # t
      PROVE  Joiners(u)' = Joiners(u)
  <2>1. joinHead'[u] = joinHead[u]
      BY <1>7 DEF Join, FiberTypeOK
  <2>2. ASSUME NEW g \in Joiners(u)
        PROVE  nextJoiner'[g] = nextJoiner[g]
      BY <1>5, JoinersClosed DEF Join, FiberTypeOK
  <2>3. QED
      BY <2>1, <2>2, JoinersSame
<1>8. \A u \in Fibers : Joiners(u) \subseteq Fibers
    BY JoinersClosed
<1>9. JoinInv'
  <2> SUFFICES ASSUME NEW u \in Fibers, NEW f \in Joiners(u)'
               PROVE  /\ runState'[f] = "Blocked"
                      /\ runState'[u] # "Exited"
                      /\ \A v \in Fibers \ {u} : f \notin Joiners(v)'
      BY DEF JoinInv
  <2>1. CASE f = a
    <3>1. u = t
        BY <1>5, <1>7, <2>1
    <3>2. rs[f] = "Blocked" /\ rs[u] # "Exited"
        BY <1>1, <2>1, <3>1 DEF FiberTypeOK
    <3>3. QED
        BY <1>1, <1>4, <1>5, <1>7, <2>1, <3>1, <3>2
  <2>2. CASE f # a
    <3>1. f \in Joiners(u) /\ f \in Fibers
        BY <1>6, <1>7, <1>8, <2>2
    <3>2. /\ runState[f] = "Blocked"
          /\ runState[u] # "Exited"
          /\ \A v \in Fibers \ {u} : f \notin Joiners(v)
        BY <3>1 DEF JoinInv
    <3>3. rs[f] = "Blocked" /\ rs[u] # "Exited"
        BY <1>1, <2>2, <3>1, <3>2 DEF FiberTypeOK
    <3>4. \A v \in Fibers \ {u} : f \notin Joiners(v)'
        BY <1>6, <1>7, <2>2, <3>2
    <3>5. QED
        BY <1>4, <3>1, <3>3, <3>4
  <2>3. QED
      BY <2>1, <2>2
<1>10. WaitersKept
  <2> SUFFICES ASSUME NEW f \in Fibers
               PROVE  /\ runState[f] = "Exited" => runState'[f] = "Exited"
                      /\ runState[f] = "Blocked" /\ ~IsJoiner(f)
                           => runState'[f] = "Blocked" /\ ~IsJoiner(f)'
                      /\ runState'[f] = "Blocked" /\ ~IsJoiner(f)'
                           => runState[f] = "Blocked" /\ ~IsJoiner(f)
      BY DEF WaitersKept
  <2>1. IsJoiner(f)' <=> IsJoiner(f) \/ f = a
      BY <1>1, <1>6, <1>7 DEF IsJoiner
  <2>2. runState'[f] = "Blocked" <=> runState[f] = "Blocked" \/ f = a
      BY <1>1, <1>4 DEF FiberTypeOK
  <2>3. runState[f] = "Exited" => runState'[f] = "Exited"
    <3>1. runState[f] = "Exited" => f # a
        BY DEF SchedulerInv
    <3>2. QED
        BY <1>1, <1>4, <3>1 DEF FiberTypeOK
  <2>4. QED
      BY <1>5, <2>1, <2>2, <2>3
<1>11. QED
    BY <1>4, <1>9, <1>10

-----------------------------------------------------------------------------
(* Every step of a polite program *)

\* An op that yields and touches neither lists nor blocked or exited fibers.
LEMMA QuietYield ==
    ASSUME FibersAssumption, FiberTypeOK, SchedulerInv, JoinInv,
           NEW rs \in [Fibers -> FiberState],
           NEW wt \in [Fibers -> Nat],
           \A f \in Fibers :
              /\ rs[f] = "Blocked" <=> runState[f] = "Blocked"
              /\ rs[f] = "Exited" <=> runState[f] = "Exited",
           YieldWith(rs, wt),
           UNCHANGED <<joinHead, nextJoiner>>,
           OnTrack'
    PROVE  OnTrack /\ SchedulerInv' /\ JoinInv' /\ WaitersKept
BY YieldEffect, QuietEffect

\* An op that fails or is done keeps the run states: the fiber is no exited
\* one, so the loop does not switch.
LEMMA NoSwitch ==
    ASSUME FibersAssumption, SchedulerInv, JoinInv, SwitchIfExited,
           UNCHANGED <<joinHead, nextJoiner>>,
           NEW so \in BOOLEAN, GoOn(so), OnTrack'
    PROVE  OnTrack /\ SchedulerInv' /\ JoinInv' /\ WaitersKept
<1>1. UNCHANGED <<runState, wakeupTime, pActive, activeIndex, now, fellThrough>>
    BY DEF SwitchIfExited, SchedulerInv
<1>2. OnTrack /\ (~inLoop' => activeIndex' = main)
    BY <1>1 DEF GoOn, OnTrack
<1>3. SchedulerInv'
    BY <1>1, <1>2 DEF SchedulerInv, main
<1>4. QED
    BY <1>1, <1>2, <1>3, QuietEffect

\* One whose error goes to the main fiber's core ends the loop in that fiber
\* or changes nothing that the scheduler relies on.
LEMMA SetErrorEffect ==
    ASSUME FibersAssumption, SchedulerInv, JoinInv, SetError,
           UNCHANGED <<joinHead, nextJoiner>>, OnTrack'
    PROVE  OnTrack /\ SchedulerInv' /\ JoinInv' /\ WaitersKept
<1>1. CASE pActive = main /\ ErrorReturn
    BY <1>1, NoSwitch DEF ErrorReturn
<1>2. CASE UNCHANGED <<runState, pActive, activeIndex, inLoop, fellThrough,
                       leftAway>>
  <2>1. OnTrack /\ SchedulerInv'
      BY <1>2 DEF SchedulerInv, main, OnTrack
  <2>2. QED
      BY <1>2, <2>1, QuietEffect
<1>3. QED
    BY <1>1, <1>2 DEF SetError

\* Fiber.start, stop, sleep, wake: the fiber controlled is not a waiting one.
LEMMA ControlEffect ==
    ASSUME FibersAssumption, Polite, FiberTypeOK, FiberTypeOK', SchedulerInv,
           JoinInv, NEW t \in Fibers, Control(t), OnTrack'
    PROVE  OnTrack /\ SchedulerInv' /\ JoinInv' /\ WaitersKept
<1> DEFINE Effect == OnTrack /\ SchedulerInv' /\ JoinInv' /\ WaitersKept
<1>1. /\ runState \in [Fibers -> FiberState]
      /\ wakeupTime \in [Fibers -> Nat]
      /\ now \in Nat
    BY DEF FiberTypeOK
<1>2. CASE Exit(t)
    BY <1>2, ExitEffect
<1>3. CASE Join(t)
  <2>1. CASE runState[t] = "Exited"
      BY <1>1, <1>3, <2>1, QuietYield DEF Join
  <2>2. CASE runState[t] # "Exited"
      BY <1>3, <2>2, JoinEffect
  <2>3. QED
      BY <2>1, <2>2
<1>4. ASSUME NEW state \in {"Stopped", "Sleeping", "Ready"},
             NEW wt \in [Fibers -> Nat],
             MayControl(t),
             YieldWith([runState EXCEPT ![t] = state], wt),
             UNCHANGED <<joinHead, nextJoiner>>
      PROVE  Effect
  <2> DEFINE rs == [runState EXCEPT ![t] = state]
  <2>1. rs \in [Fibers -> FiberState]
      BY <1>1 DEF FiberState
  <2>2. \A f \in Fibers :
           /\ rs[f] = "Blocked" <=> runState[f] = "Blocked"
           /\ rs[f] = "Exited" <=> runState[f] = "Exited"
      BY <1>1, <1>4 DEF MayControl
  <2>3. YieldWith(rs, wt)
      BY <1>4
  <2>4. QED
      BY <1>4, <2>1, <2>2, <2>3, QuietYield
<1>5. CASE Start(t)
  <2>1. /\ runState' = [runState EXCEPT ![t] = "Ready"]
        /\ UNCHANGED <<joinHead, nextJoiner, pActive, activeIndex, inLoop,
                       fellThrough, leftAway>>
        /\ runState[t] \notin {"Blocked", "Exited"}
      BY <1>5 DEF Start, MayControl
  <2>2. \A f \in Fibers :
           /\ runState'[f] = "Blocked" <=> runState[f] = "Blocked"
           /\ runState'[f] = "Exited" <=> runState[f] = "Exited"
      BY <1>1, <2>1
  <2>3. SchedulerInv'
    <3>1. main \in Fibers /\ pActive \in Fibers
        BY FibersAssumption DEF Fibers, main, FiberTypeOK
    <3>2. runState'[pActive] \in {"Ready", "Sleeping"}
        BY <1>1, <2>1, <3>1 DEF SchedulerInv
    <3>3. QED
        BY <2>1, <2>2, <3>1, <3>2 DEF SchedulerInv, main
  <2>4. OnTrack
      BY <2>1 DEF OnTrack
  <2>5. QED
      BY <2>1, <2>2, <2>3, <2>4, QuietEffect
<1>6. CASE Stop(t)
  <2>1. /\ MayControl(t)
        /\ YieldWith([runState EXCEPT ![t] = "Stopped"], wakeupTime)
        /\ UNCHANGED <<joinHead, nextJoiner>>
      BY <1>6 DEF Stop
  <2>2. QED
      BY <1>1, <1>4, <2>1
<1>7. CASE Wake(t)
  <2>1. /\ MayControl(t)
        /\ YieldWith([runState EXCEPT ![t] = "Ready"],
                     [wakeupTime EXCEPT ![t] = 0])
        /\ UNCHANGED <<joinHead, nextJoiner>>
      BY <1>7 DEF Wake
  <2>2. [wakeupTime EXCEPT ![t] = 0] \in [Fibers -> Nat]
      BY <1>1
  <2>3. QED
      BY <1>4, <2>1, <2>2
<1>8. ASSUME NEW ms \in 0 .. MaxSleep, Sleep(t, ms)
      PROVE  Effect
  <2>1. /\ MayControl(t)
        /\ YieldWith([runState EXCEPT ![t] = "Sleeping"],
                     [wakeupTime EXCEPT ![t] = now + ms])
        /\ UNCHANGED <<joinHead, nextJoiner>>
      BY <1>8 DEF Sleep
  <2>2. [wakeupTime EXCEPT ![t] = now + ms] \in [Fibers -> Nat]
      BY <1>1
  <2>3. QED
      BY <1>4, <2>1, <2>2
<1>9. QED
    BY <1>2, <1>3, <1>5, <1>6, <1>7, <1>8 DEF Control

\* A loop that has lost track never is on track again.
LEMMA SwitchFell ==
    ASSUME NEW rs, NEW wt, SwitchFiber(rs, wt)
    PROVE  fellThrough => fellThrough'
BY DEF SwitchFiber, RunNextReady, RunNextSleeping, RunSameFiber

LEMMA YieldOffTrack ==
    ASSUME NEW rs, NEW wt, YieldWith(rs, wt), OnTrack'
    PROVE  OnTrack
BY SwitchFell DEF YieldWith, GoOn, OnTrack

LEMMA SetErrorOffTrack ==
    ASSUME SetError, OnTrack'
    PROVE  OnTrack
<1>1. SwitchIfExited => (fellThrough => fellThrough')
    BY SwitchFell DEF SwitchIfExited
<1>2. CASE ErrorReturn
    BY <1>1, <1>2 DEF ErrorReturn, GoOn, OnTrack
<1>3. CASE fellThrough' = fellThrough /\ leftAway' = leftAway
    BY <1>3 DEF OnTrack
<1>4. QED
    BY <1>2, <1>3 DEF SetError

LEMMA FiberNextOffTrack ==
    ASSUME FiberNext, OnTrack'
    PROVE  OnTrack
<1>1. SwitchIfExited => (fellThrough => fellThrough')
    BY SwitchFell DEF SwitchIfExited
<1>2. CASE Yield \/ \E t \in Fibers : Control(t) /\ ~Start(t)
    BY <1>2, YieldOffTrack DEF Yield, Control, Exit, Join, Stop, Wake, Sleep
<1>3. CASE Done \/ Fail
    BY <1>1, <1>3 DEF Done, Fail, ErrorReturn, GoOn, OnTrack
<1>4. CASE Report
    BY <1>4, SetErrorOffTrack DEF Report
<1>5. CASE ExecuteOps \/ Tick \/ \E t \in Fibers : Start(t)
    BY <1>5 DEF ExecuteOps, Tick, Start, OnTrack
<1>6. QED
    BY <1>2, <1>3, <1>4, <1>5 DEF FiberNext

\* Every op of a polite program keeps what the scheduler relies on, unless the
\* loop loses track, and leaves the waiters as they are.
LEMMA FiberNextEffect ==
    ASSUME FibersAssumption, Polite, FiberTypeOK, SchedulerInv, JoinInv,
           FiberNext, OnTrack'
    PROVE  OnTrack /\ SchedulerInv' /\ JoinInv' /\ WaitersKept
<1>0. FiberTypeOK'
    BY FiberNextType
<1>1. /\ runState \in [Fibers -> FiberState]
      /\ wakeupTime \in [Fibers -> Nat]
      /\ main \in Fibers
    BY FibersAssumption DEF FiberTypeOK, Fibers, main
<1>2. CASE Yield
    BY <1>1, <1>2, QuietYield DEF Yield
<1>3. CASE Done
    BY <1>3, NoSwitch DEF Done
<1>4. CASE Fail
    BY <1>4, NoSwitch DEF Fail, ErrorReturn
<1>5. CASE ExecuteOps
  <2>1. /\ pActive = main
        /\ pActive' = main
        /\ inLoop'
        /\ runState' = [runState EXCEPT ![main] = "Ready"]
        /\ UNCHANGED <<joinHead, nextJoiner, activeIndex, fellThrough,
                       leftAway>>
      BY <1>5 DEF ExecuteOps, SchedulerInv
  <2>2. runState[main] \in {"Ready", "Sleeping"} /\ activeIndex = main
      BY <2>1 DEF SchedulerInv
  <2>3. \A f \in Fibers :
           /\ runState'[f] = "Blocked" <=> runState[f] = "Blocked"
           /\ runState'[f] = "Exited" <=> runState[f] = "Exited"
      BY <1>1, <2>1, <2>2
  <2>4. SchedulerInv'
      BY <1>1, <2>1, <2>2 DEF SchedulerInv, main
  <2>5. OnTrack
      BY <2>1 DEF OnTrack
  <2>6. QED
      BY <2>1, <2>3, <2>4, <2>5, QuietEffect
<1>6. CASE Tick
  <2>1. UNCHANGED <<runState, joinHead, nextJoiner, pActive, activeIndex,
                    inLoop, fellThrough, leftAway>>
      BY <1>6 DEF Tick
  <2>2. SchedulerInv'
      BY <2>1 DEF SchedulerInv, main
  <2>3. OnTrack
      BY <2>1 DEF OnTrack
  <2>4. QED
      BY <2>1, <2>2, <2>3, QuietEffect
<1>9. CASE Report
    BY <1>9, SetErrorEffect DEF Report
<1>7. ASSUME NEW t \in Fibers, Control(t)
      PROVE  OnTrack /\ SchedulerInv' /\ JoinInv' /\ WaitersKept
    BY <1>0, <1>7, ControlEffect
<1>8. QED
    BY <1>2, <1>3, <1>4, <1>5, <1>6, <1>7, <1>9 DEF FiberNext

-----------------------------------------------------------------------------
(* Programs that use only the ops of fibers *)

\* The inductive invariant: types, and until the loop loses track the
\* scheduler's, the lists', and that every blocked fiber is in a list.
FiberInv ==
    /\ FiberTypeOK
    /\ OnTrack =>
          /\ SchedulerInv
          /\ JoinInv
          /\ \A f \in Fibers : runState[f] = "Blocked" => IsJoiner(f)

LEMMA FiberInvInit ==
    ASSUME FibersAssumption, FiberInit
    PROVE  FiberInv
<1>1. main \in Fibers
    BY FibersAssumption DEF Fibers, main
<1>2. FiberTypeOK
    BY <1>1 DEF FiberInit, FiberTypeOK, FiberState
<1>3. SchedulerInv
    BY <1>1 DEF FiberInit, SchedulerInv
<1>4. \A t \in Fibers : Joiners(t) = {}
  <2> SUFFICES ASSUME NEW t \in Fibers PROVE Joiners(t) = {}
      OBVIOUS
  <2>1. joinHead[t] = NoFiber /\ {} \in SUBSET Fibers
      BY DEF FiberInit
  <2>2. \A f \in Joiners(t) : f \in {}
      BY <2>1 DEF Joiners
  <2>3. QED
      BY <2>2
<1>5. JoinInv
    BY <1>4 DEF JoinInv
<1>6. \A f \in Fibers : runState[f] # "Blocked"
    BY DEF FiberInit
<1>7. QED
    BY <1>2, <1>3, <1>5, <1>6 DEF FiberInv

LEMMA FiberInvStep ==
    ASSUME FibersAssumption, Polite, FiberInv, [FiberNext]_fiberVars
    PROVE  /\ FiberInv'
           /\ \A f \in Fibers : runState[f] = "Exited" /\ OnTrack'
                                   => runState'[f] = "Exited"
<1>1. CASE FiberNext
  <2>1. FiberTypeOK'
      BY <1>1, FiberNextType DEF FiberInv
  <2>2. OnTrack' => OnTrack
      BY <1>1, FiberNextOffTrack
  <2>3. ASSUME OnTrack'
        PROVE  /\ SchedulerInv'
               /\ JoinInv'
               /\ \A f \in Fibers : runState'[f] = "Blocked" => IsJoiner(f)'
    <3>1. /\ FiberTypeOK
          /\ SchedulerInv
          /\ JoinInv
          /\ \A f \in Fibers : runState[f] = "Blocked" => IsJoiner(f)
        BY <2>2, <2>3 DEF FiberInv
    <3>2. SchedulerInv' /\ JoinInv' /\ WaitersKept
        BY <1>1, <2>3, <3>1, FiberNextEffect
    <3>3. QED
        BY <3>1, <3>2 DEF WaitersKept
  <2>4. ASSUME OnTrack', NEW f \in Fibers, runState[f] = "Exited"
        PROVE  runState'[f] = "Exited"
      BY <1>1, <2>2, <2>4, FiberNextEffect DEF FiberInv, WaitersKept
  <2>5. QED
      BY <2>1, <2>3, <2>4 DEF FiberInv
<1>2. CASE UNCHANGED fiberVars
    BY <1>2 DEF fiberVars, FiberInv, FiberTypeOK, SchedulerInv, JoinInv,
       IsJoiner, Joiners, main, OnTrack
<1>3. QED
    BY <1>1, <1>2

\* The inductive invariant holds of every polite program.
THEOREM FiberInvariant == ASSUME Polite PROVE FiberSpec => []FiberInv
<1>1. FiberInit => FiberInv
    BY FibersAssumption, FiberInvInit
<1>2. FiberInv /\ [FiberNext]_fiberVars => FiberInv'
    BY FibersAssumption, FiberInvStep
<1>3. QED
    BY <1>1, <1>2, PTL DEF FiberSpec

\* InnerLoop never runs a fiber that is blocked, stopped or exited before it
\* has lost track of its fibers.
THEOREM ActiveMayRun == ASSUME Polite PROVE FiberSpec => []ActiveIsRunnable
<1>1. FiberInv => ActiveIsRunnable
    BY DEF FiberInv, SchedulerInv, ActiveIsRunnable
<1>2. QED
    BY <1>1, FiberInvariant, PTL

\* A blocked fiber is in the list of exactly one fiber that has yet to exit
\* and wake it, whatever polite programs do.
THEOREM JoinersAreKept == ASSUME Polite PROVE FiberSpec => []NoLostJoiner
<1>1. FiberInv => NoLostJoiner
    BY DEF FiberInv, JoinInv, IsJoiner, NoLostJoiner
<1>2. QED
    BY <1>1, FiberInvariant, PTL

\* An exited fiber stays so: no list that is still to be woken holds it.
THEOREM ExitedStaysExited == ASSUME Polite PROVE FiberSpec => ExitIsFinal
<1> DEFINE StaysExited == \A f \in Fibers :
               runState[f] = "Exited" /\ OnTrack' => runState'[f] = "Exited"
<1>1. FiberInv /\ [FiberNext]_fiberVars => [StaysExited]_fiberVars
    BY FibersAssumption, FiberInvStep
<1>2. QED
    BY <1>1, FiberInvariant, PTL DEF FiberSpec, ExitIsFinal

-----------------------------------------------------------------------------
(* The two notions of the active fiber *)

\* InnerLoop's local and mActiveFiberIndex agree, also after the loop has
\* fallen through, until it has ended with another fiber active than the main
\* one, which is where ExecuteOps goes on.
SyncInv ==
    ~leftAway =>
        /\ activeIndex = pActive
        /\ ~inLoop => pActive = main

\* Switching sets both or neither.
LEMMA SwitchKeepsSync ==
    ASSUME NEW rs, NEW wt, SwitchFiber(rs, wt), activeIndex = pActive
    PROVE  activeIndex' = pActive'
BY DEF SwitchFiber, RunNextReady, RunNextSleeping, RunSameFiber

LEMMA YieldKeepsSync ==
    ASSUME NEW rs, NEW wt, SyncInv, YieldWith(rs, wt)
    PROVE  SyncInv'
BY SwitchKeepsSync DEF YieldWith, GoOn, SyncInv, main

LEMMA ReturnKeepsSync ==
    ASSUME SyncInv, NEW so, SwitchIfExited, GoOn(so)
    PROVE  SyncInv'
<1>1. activeIndex = pActive => activeIndex' = pActive'
    BY SwitchKeepsSync DEF SwitchIfExited
<1>2. QED
    BY <1>1 DEF GoOn, SyncInv, main

LEMMA SyncStep ==
    ASSUME SyncInv, FiberNext
    PROVE  SyncInv'
<1>1. CASE Yield \/ \E t \in Fibers : Control(t) /\ ~Start(t)
    BY <1>1, YieldKeepsSync DEF Yield, Control, Exit, Join, Stop, Wake, Sleep
<1>2. CASE Done \/ Fail
    BY <1>2, ReturnKeepsSync DEF Done, Fail, ErrorReturn
<1>3. CASE Report
    BY <1>3, ReturnKeepsSync DEF Report, SetError, ErrorReturn, SyncInv, main
<1>4. CASE ExecuteOps \/ Tick \/ \E t \in Fibers : Start(t)
    BY <1>4 DEF ExecuteOps, Tick, Start, SyncInv, main
<1>5. QED
    BY <1>1, <1>2, <1>3, <1>4 DEF FiberNext

\* When fiber.join blocks the fiber that the Thread calls active, that is the
\* fiber that called it, whatever programs do, until the loop has ended with
\* another fiber than the main one active.
THEOREM ActiveAgrees == FiberSpec => []ActiveInSync
<1>1. FiberInit => SyncInv
    BY DEF FiberInit, SyncInv
<1>2. SyncInv /\ [FiberNext]_fiberVars => SyncInv'
  <2>1. SyncInv /\ UNCHANGED fiberVars => SyncInv'
      BY DEF fiberVars, SyncInv, main
  <2>2. QED
      BY <2>1, SyncStep
<1>3. SyncInv => ActiveInSync
    BY DEF SyncInv, ActiveInSync
<1>4. QED
    BY <1>1, <1>2, <1>3, PTL DEF FiberSpec

-----------------------------------------------------------------------------
(* PART TWO: LOCKS AND SEMAPHORES *)


-----------------------------------------------------------------------------
(* Type correctness *)

\* Taking the fiber at the front off a deque leaves a deque of fibers.
LEMMA FrontType ==
    ASSUME NEW S, NEW q \in Seq(S), q # <<>>
    PROVE  Head(q) \in S /\ Tail(q) \in Seq(S)
OBVIOUS

\* The scheduler's part of the types survives blocking the active fiber,
\* waking a fiber, and going on with the same fiber.
LEMMA BlockType ==
    ASSUME FiberTypeOK, Block
    PROVE  SchedulerTypeOK'
<1> DEFINE rs == [runState EXCEPT ![pActive] = "Blocked"]
<1>1. rs \in [Fibers -> FiberState]
    BY DEF FiberTypeOK, FiberState
<1>2. YieldWith(rs, wakeupTime)
    BY DEF Block
<1>3. QED
    BY <1>1, <1>2, YieldType DEF FiberTypeOK, SchedulerTypeOK

LEMMA UnblockType ==
    ASSUME FiberTypeOK, NEW f \in Fibers, Unblock(f)
    PROVE  SchedulerTypeOK'
<1> DEFINE rs == [runState EXCEPT ![f] = "Ready"]
           wt == [wakeupTime EXCEPT ![f] = 0]
<1>1. rs \in [Fibers -> FiberState] /\ wt \in [Fibers -> Nat]
    BY DEF FiberTypeOK, FiberState
<1>2. YieldWith(rs, wt)
    BY DEF Unblock
<1>3. QED
    BY <1>1, <1>2, YieldType DEF FiberTypeOK, SchedulerTypeOK

LEMMA KeepRunningType ==
    ASSUME FiberTypeOK, KeepRunning
    PROVE  SchedulerTypeOK'
BY DEF FiberTypeOK, KeepRunning, SchedulerTypeOK

LockTypeOK ==
    /\ lockHolder \in [Locks -> Fibers \cup {NoFiber}]
    /\ lockDepth \in [Locks -> Nat]
    /\ lockQueue \in [Locks -> Seq(Fibers)]
    /\ grabs \in [Locks -> [Fibers -> Nat]]

SemTypeOK ==
    /\ semCount \in [Semaphores -> Int]
    /\ semQueue \in [Semaphores -> Seq(Fibers)]

\* Every op on a lock keeps the types.
LEMMA LockStepType ==
    ASSUME SoftLocksAssumption, TypeOK, NEW l \in Locks, LockStep(l)
    PROVE  TypeOK'
<1> USE DEF TypeOK
<1> SUFFICES SchedulerTypeOK' /\ LockTypeOK' /\ UNCHANGED <<joinHead, nextJoiner, semVars>>
    BY DEF SchedulerTypeOK, LockTypeOK, FiberTypeOK, semVars
<1>1. ASSUME Acquire(l) PROVE SchedulerTypeOK' /\ LockTypeOK'
    BY <1>1, KeepRunningType DEF Acquire, LockTypeOK, FiberTypeOK
<1>2. CASE Grab(l)
  <2>1. CASE Acquire(l)
      BY <1>1, <1>2, <2>1 DEF Grab
  <2>2. CASE ~Acquire(l)
    <3>1. /\ lockQueue' = [lockQueue EXCEPT ![l] = Append(@, pActive)]
          /\ grabs' = [grabs EXCEPT ![l][pActive] = @ + 1]
          /\ Block
          /\ UNCHANGED <<lockHolder, lockDepth>>
        BY <1>2, <2>2 DEF Grab
    <3>2. pActive \in Fibers
        BY DEF FiberTypeOK
    <3>3. LockTypeOK'
        BY <3>1, <3>2 DEF LockTypeOK
    <3>4. QED
        BY <1>2, <3>1, <3>3, BlockType DEF Grab
  <2>3. QED
      BY <2>1, <2>2
<1>3. CASE TryGrab(l)
    BY <1>1, <1>3 DEF TryGrab
<1>4. CASE Ungrab(l)
  <2>1. grabs' \in [Locks -> [Fibers -> Nat]]
      BY <1>4 DEF Ungrab, FiberTypeOK
  <2>2. CASE lockDepth[l] > 1 \/ lockQueue[l] = <<>>
    <3>1. /\ lockDepth' = [lockDepth EXCEPT ![l] = @ - 1]
          /\ lockHolder' = [lockHolder EXCEPT ![l] =
                               IF lockDepth[l] > 1 THEN @ ELSE NoFiber]
          /\ KeepRunning
          /\ UNCHANGED lockQueue
          /\ lockDepth[l] > 0
        BY <1>4, <2>2 DEF Ungrab
    <3>2. LockTypeOK'
        BY <2>1, <3>1 DEF LockTypeOK
    <3>3. QED
        BY <1>4, <3>1, <3>2, KeepRunningType DEF Ungrab
  <2>3. CASE ~(lockDepth[l] > 1 \/ lockQueue[l] = <<>>)
    <3>1. HandOver(l)
        BY <1>4, <2>3 DEF Ungrab
    <3>2. Head(lockQueue[l]) \in Fibers /\ Tail(lockQueue[l]) \in Seq(Fibers)
        BY <2>3, FrontType
    <3>3. LockTypeOK'
        BY <2>1, <3>1, <3>2 DEF LockTypeOK, HandOver
    <3>4. SchedulerTypeOK'
        BY <3>1, <3>2, UnblockType DEF HandOver
    <3>5. QED
        BY <1>4, <3>3, <3>4 DEF Ungrab
  <2>4. QED
      BY <2>2, <2>3
<1>5. CASE LockError(l)
  <2>1. SchedulerTypeOK'
      BY <1>5, SetErrorType DEF LockError
  <2>2. QED
      BY <1>5, <2>1 DEF LockError, lockVars, LockTypeOK
<1>6. QED
    BY <1>2, <1>3, <1>4, <1>5 DEF LockStep

\* Every op on a semaphore keeps the types.
LEMMA SemaphoreStepType ==
    ASSUME SoftLocksAssumption, TypeOK, NEW s \in Semaphores, SemaphoreStep(s)
    PROVE  TypeOK'
<1> USE DEF TypeOK
<1> SUFFICES SchedulerTypeOK' /\ SemTypeOK' /\ UNCHANGED <<joinHead, nextJoiner, lockVars>>
    BY DEF SchedulerTypeOK, SemTypeOK, FiberTypeOK, lockVars
<1>1. CASE Wait(s)
  <2>1. CASE semCount[s] > 0
      BY <1>1, <2>1, KeepRunningType DEF Wait, SemTypeOK
  <2>2. CASE ~(semCount[s] > 0)
    <3>1. /\ semQueue' = [semQueue EXCEPT ![s] = Append(@, pActive)]
          /\ Block
          /\ UNCHANGED semCount
        BY <1>1, <2>2 DEF Wait
    <3>2. pActive \in Fibers
        BY DEF FiberTypeOK
    <3>3. SemTypeOK'
        BY <3>1, <3>2 DEF SemTypeOK
    <3>4. QED
        BY <1>1, <3>1, <3>3, BlockType DEF Wait
  <2>3. QED
      BY <2>1, <2>2
<1>2. CASE Post(s)
  <2>1. CASE semQueue[s] = <<>> \/ semCount[s] < 0
      BY <1>2, <2>1, KeepRunningType DEF Post, SemTypeOK
  <2>2. CASE ~(semQueue[s] = <<>> \/ semCount[s] < 0)
    <3>1. /\ semQueue' = [semQueue EXCEPT ![s] = Tail(@)]
          /\ Unblock(Head(semQueue[s]))
          /\ UNCHANGED semCount
        BY <1>2, <2>2 DEF Post
    <3>2. Head(semQueue[s]) \in Fibers /\ Tail(semQueue[s]) \in Seq(Fibers)
        BY <2>2, FrontType
    <3>3. SemTypeOK'
        BY <3>1, <3>2 DEF SemTypeOK
    <3>4. QED
        BY <1>2, <3>1, <3>2, <3>3, UnblockType DEF Post
  <2>3. QED
      BY <2>1, <2>2
<1>3. ASSUME NEW count \in Counts, InitSemaphore(s, count)
      PROVE  SchedulerTypeOK' /\ SemTypeOK' /\ UNCHANGED <<joinHead, nextJoiner, lockVars>>
    BY <1>3, KeepRunningType DEF InitSemaphore, SemTypeOK, SoftLocksAssumption
<1>4. QED
    BY <1>1, <1>2, <1>3 DEF SemaphoreStep

\* The variables always have their types: in particular every deque holds
\* fibers of this thread, and a fiber of this thread is active.
THEOREM TypeCorrect == Spec => []TypeOK
<1> USE FibersAssumption, SoftLocksAssumption
<1>1. Init => TypeOK
  <2> SUFFICES ASSUME Init PROVE TypeOK
      OBVIOUS
  <2>1. FiberTypeOK
    <3>1. main \in Fibers
        BY DEF Fibers, main
    <3>2. QED
        BY <3>1 DEF Init, FiberInit, FiberTypeOK, FiberState
  <2>2. /\ lockQueue \in [Locks -> Seq(Fibers)]
        /\ semQueue \in [Semaphores -> Seq(Fibers)]
      BY DEF Init
  <2>3. /\ lockHolder \in [Locks -> Fibers \cup {NoFiber}]
        /\ lockDepth \in [Locks -> Nat]
        /\ grabs \in [Locks -> [Fibers -> Nat]]
        /\ semCount \in [Semaphores -> Int]
      BY DEF Init
  <2>4. QED
      BY <2>1, <2>2, <2>3 DEF TypeOK
<1>2. TypeOK /\ [Next]_vars => TypeOK'
  <2> SUFFICES ASSUME TypeOK, [Next]_vars PROVE TypeOK'
      OBVIOUS
  <2>1. CASE FiberStep
      BY <2>1, FiberNextType DEF FiberStep, TypeOK, lockVars, semVars
  <2>2. ASSUME NEW l \in Locks, LockStep(l) PROVE TypeOK'
      BY <2>2, LockStepType
  <2>3. ASSUME NEW s \in Semaphores, SemaphoreStep(s) PROVE TypeOK'
      BY <2>3, SemaphoreStepType
  <2>4. CASE UNCHANGED vars
      BY <2>4 DEF vars, fiberVars, lockVars, semVars, TypeOK, FiberTypeOK
  <2>5. QED
      BY <2>1, <2>2, <2>3, <2>4 DEF Next
<1>3. QED
    BY <1>1, <1>2, PTL DEF Spec

-----------------------------------------------------------------------------
(* Locks are coherent *)

\* A lock is held exactly while its depth is positive, and nobody is queued
\* on a lock that is not held, whatever the program does.
THEOREM LocksAreCoherent == Spec => []LockCoherent
<1> USE FibersAssumption
<1>1. Init => LockCoherent
    BY DEF Init, LockCoherent
<1>2. TypeOK /\ LockCoherent /\ [Next]_vars => LockCoherent'
  <2> SUFFICES ASSUME TypeOK, LockCoherent, [Next]_vars PROVE LockCoherent'
      OBVIOUS
  <2> USE DEF LockCoherent
  <2>1. CASE UNCHANGED lockVars
      BY <2>1 DEF lockVars
  <2>2. ASSUME NEW l \in Locks, Acquire(l) PROVE LockCoherent'
      BY <2>2 DEF Acquire, TypeOK, FiberTypeOK
  <2>3. ASSUME NEW l \in Locks, Grab(l) PROVE LockCoherent'
    <3>1. CASE ~Acquire(l)
      <4>1. /\ lockHolder[l] # NoFiber
            /\ lockQueue' = [lockQueue EXCEPT ![l] = Append(@, pActive)]
            /\ UNCHANGED <<lockHolder, lockDepth>>
          BY <2>3, <3>1 DEF Grab
      <4>2. QED
          BY <4>1 DEF TypeOK
    <3>2. QED
        BY <2>2, <2>3, <3>1
  <2>4. ASSUME NEW l \in Locks, Ungrab(l) PROVE LockCoherent'
    <3>1. CASE lockDepth[l] > 1 \/ lockQueue[l] = <<>>
      <4>1. /\ lockDepth \in [Locks -> Nat]
            /\ lockHolder \in [Locks -> Fibers \cup {NoFiber}]
            /\ pActive \in Fibers
          BY DEF TypeOK, FiberTypeOK
      <4>2. /\ lockDepth[l] > 0 /\ lockHolder[l] = pActive
            /\ lockDepth' = [lockDepth EXCEPT ![l] = @ - 1]
            /\ lockHolder' = [lockHolder EXCEPT ![l] =
                                 IF lockDepth[l] > 1 THEN @ ELSE NoFiber]
            /\ UNCHANGED lockQueue
          BY <2>4, <3>1 DEF Ungrab
      <4>3. lockHolder'[l] = NoFiber <=> lockDepth'[l] = 0
          BY <4>1, <4>2
      <4>4. lockQueue'[l] # <<>> => lockHolder'[l] # NoFiber
          BY <3>1, <4>1, <4>2
      <4>5. ASSUME NEW k \in Locks \ {l}
            PROVE  /\ lockHolder'[k] = lockHolder[k]
                   /\ lockDepth'[k] = lockDepth[k]
          BY <4>1, <4>2
      <4>6. QED
          BY <4>2, <4>3, <4>4, <4>5
    <3>2. CASE ~(lockDepth[l] > 1 \/ lockQueue[l] = <<>>)
      <4>1. Head(lockQueue[l]) \in Fibers
          BY <3>2, FrontType DEF TypeOK
      <4>2. HandOver(l) /\ lockDepth[l] > 0
          BY <2>4, <3>2 DEF Ungrab
      <4>3. QED
          BY <4>1, <4>2 DEF HandOver, TypeOK
    <3>3. QED
        BY <3>1, <3>2
  <2>5. CASE FiberStep
      BY <2>1, <2>5 DEF FiberStep
  <2>6. ASSUME NEW l \in Locks, LockStep(l) PROVE LockCoherent'
      BY <2>1, <2>2, <2>3, <2>4, <2>6 DEF LockStep, TryGrab, LockError
  <2>7. ASSUME NEW s \in Semaphores, SemaphoreStep(s) PROVE LockCoherent'
      BY <2>1, <2>7 DEF SemaphoreStep, Wait, Post, InitSemaphore
  <2>8. QED
      BY <2>1, <2>5, <2>6, <2>7 DEF Next, vars
<1>3. QED
    BY <1>1, <1>2, TypeCorrect, PTL DEF Spec

-----------------------------------------------------------------------------
(* Deques *)

\* A deque is injective if nobody is in it twice.  Then it cannot be longer
\* than there are fibers.
LEMMA DequeLength ==
    ASSUME FibersAssumption, NEW q \in Seq(Fibers), IsInjective(q)
    PROVE  Len(q) <= NumFibers
<1>1. /\ NumFibers \in Nat \ {0}
      /\ Len(q) \in Nat
      /\ q \in [1 .. Len(q) -> Fibers]
    BY FibersAssumption
<1>2. IsFiniteSet(Fibers) /\ Cardinality(Fibers) = NumFibers
    BY <1>1, FS_Interval DEF Fibers
<1>3. IsFiniteSet(1 .. Len(q)) /\ Cardinality(1 .. Len(q)) = Len(q)
    BY <1>1, FS_Interval
<1>4. ~(NumFibers < Len(q))
  <2>1. \A i, j \in 1 .. Len(q) : q[i] = q[j] => i = j
      BY <1>1 DEF IsInjective
  <2>2. QED
      BY <1>1, <1>2, <1>3, <2>1, FS_PigeonHole
<1>5. QED
    BY <1>1, <1>4

\* Appending to a deque somebody who is not in it.
LEMMA AppendDeque ==
    ASSUME NEW S, NEW q \in Seq(S), NEW x \in S, x \notin Range(q), IsInjective(q)
    PROVE  IsInjective(Append(q, x)) /\ Range(Append(q, x)) = Range(q) \cup {x}
<1> DEFINE r == Append(q, x)
<1>1. /\ DOMAIN q = 1 .. Len(q)
      /\ DOMAIN r = 1 .. Len(q) + 1
      /\ \A i \in 1 .. Len(q) : r[i] = q[i]
      /\ r[Len(q) + 1] = x
      /\ Len(q) \in Nat
    OBVIOUS
<1>2. \A i \in DOMAIN q : q[i] # x
    BY DEF Range
<1>3. IsInjective(r)
    BY <1>1, <1>2 DEF IsInjective
<1>4. Range(r) \subseteq Range(q) \cup {x}
    BY <1>1 DEF Range
<1>5. Range(q) \cup {x} \subseteq Range(r)
  <2>1. ASSUME NEW i \in DOMAIN q PROVE q[i] \in Range(r)
      BY <1>1 DEF Range
  <2>2. x \in Range(r)
      BY <1>1 DEF Range
  <2>3. QED
      BY <2>1, <2>2 DEF Range
<1>6. QED
    BY <1>3, <1>4, <1>5

\* Taking the one at the front off a deque.
LEMMA TailDeque ==
    ASSUME NEW S, NEW q \in Seq(S), q # <<>>, IsInjective(q)
    PROVE  /\ IsInjective(Tail(q))
           /\ Head(q) \in Range(q)
           /\ Range(Tail(q)) = Range(q) \ {Head(q)}
<1> DEFINE r == Tail(q)
<1>1. /\ Len(q) \in Nat \ {0}
      /\ DOMAIN q = 1 .. Len(q)
      /\ DOMAIN r = 1 .. Len(q) - 1
      /\ \A i \in 1 .. Len(q) - 1 : r[i] = q[i + 1]
      /\ Head(q) = q[1]
    OBVIOUS
<1>2. IsInjective(r)
  <2>1. ASSUME NEW i \in DOMAIN r, NEW j \in DOMAIN r, r[i] = r[j]
        PROVE  i = j
    <3>1. i + 1 \in DOMAIN q /\ j + 1 \in DOMAIN q /\ q[i + 1] = q[j + 1]
        BY <1>1, <2>1
    <3>2. i + 1 = j + 1
        BY <3>1 DEF IsInjective
    <3>3. QED
        BY <1>1, <3>2
  <2>2. QED
      BY <2>1 DEF IsInjective
<1>3. Head(q) \in Range(q)
    BY <1>1 DEF Range
<1>4. ASSUME NEW i \in DOMAIN r PROVE r[i] \in Range(q) /\ r[i] # Head(q)
  <2>1. i + 1 \in DOMAIN q /\ 1 \in DOMAIN q /\ i + 1 # 1 /\ r[i] = q[i + 1]
      BY <1>1
  <2>2. QED
      BY <1>1, <2>1 DEF IsInjective, Range
<1>5. ASSUME NEW i \in DOMAIN q, q[i] # Head(q) PROVE q[i] \in Range(r)
  <2>1. i - 1 \in DOMAIN r /\ r[i - 1] = q[i]
      BY <1>1, <1>5
  <2>2. QED
      BY <2>1 DEF Range
<1>6. QED
    BY <1>2, <1>3, <1>4, <1>5 DEF Range

-----------------------------------------------------------------------------
(* Blocking and waking fibers *)

\* Blocking the fiber that runs blocks that one only.
LEMMA BlockEffect ==
    ASSUME FibersAssumption, FiberTypeOK, SchedulerInv, JoinInv, Block,
           UNCHANGED <<joinHead, nextJoiner>>, OnTrack'
    PROVE  /\ SchedulerInv' /\ JoinInv'
           /\ \A f \in Fibers :
                 /\ IsJoiner(f)' <=> IsJoiner(f)
                 /\ runState'[f] = "Blocked"
                      <=> runState[f] = "Blocked" \/ f = pActive
<1> DEFINE rs == [runState EXCEPT ![pActive] = "Blocked"]
<1>1. /\ rs \in [Fibers -> FiberState]
      /\ runState \in [Fibers -> FiberState]
      /\ wakeupTime \in [Fibers -> Nat]
      /\ pActive \in Fibers /\ main \in Fibers
    BY FibersAssumption DEF FiberTypeOK, FiberState, Fibers, main
<1>2. YieldWith(rs, wakeupTime)
    BY DEF Block
<1>3. /\ SchedulerInv'
      /\ \A f \in Fibers :
            /\ runState'[f] = "Blocked" <=> rs[f] = "Blocked"
            /\ runState'[f] = "Exited" <=> rs[f] = "Exited"
    BY <1>1, <1>2, YieldEffect
<1>4. \A f \in Fibers :
         /\ runState'[f] = "Blocked" <=> runState[f] = "Blocked" \/ f = pActive
         /\ runState'[f] = "Exited" => runState[f] = "Exited"
    BY <1>1, <1>3
<1>5. \A t \in Fibers : Joiners(t)' = Joiners(t) /\ Joiners(t) \subseteq Fibers
    BY DEF Joiners
<1>6. JoinInv'
    BY <1>4, <1>5 DEF JoinInv
<1>7. \A f \in Fibers : IsJoiner(f)' <=> IsJoiner(f)
    BY <1>5 DEF IsJoiner
<1>8. QED
    BY <1>3, <1>4, <1>6, <1>7

\* Waking a fiber that is blocked but in no join list wakes that one only.
LEMMA UnblockEffect ==
    ASSUME FibersAssumption, FiberTypeOK, SchedulerInv, JoinInv,
           NEW w \in Fibers, Unblock(w), runState[w] = "Blocked", ~IsJoiner(w),
           UNCHANGED <<joinHead, nextJoiner>>, OnTrack'
    PROVE  /\ SchedulerInv' /\ JoinInv'
           /\ \A f \in Fibers :
                 /\ IsJoiner(f)' <=> IsJoiner(f)
                 /\ runState'[f] = "Blocked" <=> runState[f] = "Blocked" /\ f # w
<1> DEFINE rs == [runState EXCEPT ![w] = "Ready"]
           wt == [wakeupTime EXCEPT ![w] = 0]
<1>1. /\ rs \in [Fibers -> FiberState]
      /\ wt \in [Fibers -> Nat]
      /\ runState \in [Fibers -> FiberState]
      /\ main \in Fibers
    BY FibersAssumption DEF FiberTypeOK, FiberState, Fibers, main
<1>2. YieldWith(rs, wt)
    BY DEF Unblock
<1>3. /\ SchedulerInv'
      /\ \A f \in Fibers :
            /\ runState'[f] = "Blocked" <=> rs[f] = "Blocked"
            /\ runState'[f] = "Exited" <=> rs[f] = "Exited"
    BY <1>1, <1>2, YieldEffect
<1>4. \A f \in Fibers :
         /\ runState'[f] = "Blocked" <=> runState[f] = "Blocked" /\ f # w
         /\ runState'[f] = "Exited" => runState[f] = "Exited"
    BY <1>1, <1>3
<1>5. \A t \in Fibers :
         /\ Joiners(t)' = Joiners(t)
         /\ Joiners(t) \subseteq Fibers
         /\ w \notin Joiners(t)
    BY DEF Joiners, IsJoiner
<1>6. JoinInv'
    BY <1>4, <1>5 DEF JoinInv
<1>7. \A f \in Fibers : IsJoiner(f)' <=> IsJoiner(f)
    BY <1>5 DEF IsJoiner
<1>8. QED
    BY <1>3, <1>4, <1>6, <1>7

\* An op that does not yield.
LEMMA KeepRunningEffect ==
    ASSUME SchedulerInv, JoinInv, KeepRunning,
           UNCHANGED <<joinHead, nextJoiner>>
    PROVE  SchedulerInv' /\ JoinInv' /\ WaitersKept
<1>1. SchedulerInv'
    BY DEF KeepRunning, SchedulerInv, main
<1>2. QED
    BY <1>1, QuietEffect DEF KeepRunning

-----------------------------------------------------------------------------
(* The inductive invariant of polite programs *)

\* A fiber in the deque of a lock or of a semaphore is blocked, in that place
\* only and once, and every blocked fiber has such a place or is in a join list.
QueueInv ==
    /\ \A l \in Locks :
          /\ IsInjective(lockQueue[l])
          /\ \A f \in Range(lockQueue[l]) :
                /\ runState[f] = "Blocked" /\ ~IsJoiner(f) /\ ~InSemQueue(f)
                /\ \A k \in Locks \ {l} : f \notin Range(lockQueue[k])
    /\ \A s \in Semaphores :
          /\ IsInjective(semQueue[s])
          /\ \A f \in Range(semQueue[s]) :
                /\ runState[f] = "Blocked" /\ ~IsJoiner(f)
                /\ \A r \in Semaphores \ {s} : f \notin Range(semQueue[r])
    /\ \A f \in Fibers :
          runState[f] = "Blocked" => IsJoiner(f) \/ InLockQueue(f) \/ InSemQueue(f)

\* The holder of a lock has grabbed it as often as the lock counts, a fiber
\* that is queued on it once, and everybody else not at all.
GrabsInv ==
    \A l \in Locks, f \in Fibers :
        /\ f = lockHolder[l] =>
              f \notin Range(lockQueue[l]) /\ grabs[l][f] = lockDepth[l]
        /\ f \in Range(lockQueue[l]) => grabs[l][f] = 1
        /\ f # lockHolder[l] /\ f \notin Range(lockQueue[l]) => grabs[l][f] = 0

SoftInv ==
    OnTrack => SchedulerInv /\ JoinInv /\ QueueInv /\ GrabsInv

\* A step that leaves the deques alone and touches no fiber in one.
LEMMA QueuesKept ==
    ASSUME TypeOK, QueueInv, WaitersKept, UNCHANGED <<lockQueue, semQueue>>
    PROVE  QueueInv'
<1>1. \A l \in Locks : Range(lockQueue[l]) \subseteq Fibers
    BY DEF TypeOK, Range
<1>2. \A s \in Semaphores : Range(semQueue[s]) \subseteq Fibers
    BY DEF TypeOK, Range
<1>3. \A f \in Fibers : /\ InLockQueue(f)' <=> InLockQueue(f)
                        /\ InSemQueue(f)' <=> InSemQueue(f)
    BY DEF InLockQueue, InSemQueue
<1>4. ASSUME NEW l \in Locks
      PROVE  /\ IsInjective(lockQueue[l])'
             /\ \A f \in Range(lockQueue[l])' :
                   /\ runState'[f] = "Blocked" /\ ~IsJoiner(f)' /\ ~InSemQueue(f)'
                   /\ \A k \in Locks \ {l} : f \notin Range(lockQueue[k])'
    BY <1>1, <1>3 DEF QueueInv, WaitersKept
<1>5. ASSUME NEW s \in Semaphores
      PROVE  /\ IsInjective(semQueue[s])'
             /\ \A f \in Range(semQueue[s])' :
                   /\ runState'[f] = "Blocked" /\ ~IsJoiner(f)'
                   /\ \A r \in Semaphores \ {s} : f \notin Range(semQueue[r])'
    BY <1>2 DEF QueueInv, WaitersKept
<1>6. \A f \in Fibers : runState'[f] = "Blocked" =>
                          IsJoiner(f)' \/ InLockQueue(f)' \/ InSemQueue(f)'
    BY <1>3 DEF QueueInv, WaitersKept
<1>7. QED
    BY <1>4, <1>5, <1>6 DEF QueueInv

\* Blocking the fiber that runs, queued on a lock or on a semaphore.
LEMMA LockQueued ==
    ASSUME FibersAssumption, TypeOK, SchedulerInv, JoinInv, QueueInv,
           NEW l \in Locks, Block,
           lockQueue' = [lockQueue EXCEPT ![l] = Append(@, pActive)],
           UNCHANGED <<joinHead, nextJoiner, semQueue>>, OnTrack'
    PROVE  /\ SchedulerInv' /\ JoinInv' /\ QueueInv'
           /\ pActive \notin Range(lockQueue[l])
           /\ Range(lockQueue[l])' = Range(lockQueue[l]) \cup {pActive}
           /\ \A k \in Locks \ {l} : lockQueue'[k] = lockQueue[k]
<1>1. /\ FiberTypeOK
      /\ pActive \in Fibers
      /\ lockQueue \in [Locks -> Seq(Fibers)]
      /\ semQueue \in [Semaphores -> Seq(Fibers)]
    BY DEF TypeOK, FiberTypeOK
<1>2. /\ SchedulerInv' /\ JoinInv'
      /\ \A f \in Fibers :
            /\ IsJoiner(f)' <=> IsJoiner(f)
            /\ runState'[f] = "Blocked" <=> runState[f] = "Blocked" \/ f = pActive
    BY <1>1, BlockEffect
<1>3. /\ ~IsJoiner(pActive)
      /\ \A k \in Locks : pActive \notin Range(lockQueue[k])
      /\ \A s \in Semaphores : pActive \notin Range(semQueue[s])
    BY DEF SchedulerInv, JoinInv, IsJoiner, QueueInv
<1>4. /\ IsInjective(lockQueue[l])'
      /\ Range(lockQueue[l])' = Range(lockQueue[l]) \cup {pActive}
  <2>1. lockQueue'[l] = Append(lockQueue[l], pActive) /\ IsInjective(lockQueue[l])
      BY <1>1 DEF QueueInv
  <2>2. QED
      BY <1>1, <1>3, <2>1, AppendDeque
<1>5. \A k \in Locks \ {l} : lockQueue'[k] = lockQueue[k]
    BY <1>1
<1>6. /\ \A k \in Locks : Range(lockQueue[k]) \subseteq Fibers
      /\ \A s \in Semaphores : Range(semQueue[s]) \subseteq Fibers
    BY <1>1 DEF Range
<1>7. \A f \in Fibers : /\ InSemQueue(f)' <=> InSemQueue(f)
                        /\ InLockQueue(f)' <=> InLockQueue(f) \/ f = pActive
    BY <1>4, <1>5 DEF InSemQueue, InLockQueue
<1>8. ASSUME NEW k \in Locks
      PROVE  /\ IsInjective(lockQueue[k])'
             /\ \A f \in Range(lockQueue[k])' :
                   /\ runState'[f] = "Blocked" /\ ~IsJoiner(f)' /\ ~InSemQueue(f)'
                   /\ \A j \in Locks \ {k} : f \notin Range(lockQueue[j])'
  <2>1. CASE k = l
      BY <1>1, <1>2, <1>3, <1>4, <1>5, <1>6, <1>7, <2>1 DEF QueueInv, InSemQueue
  <2>2. CASE k # l
      BY <1>2, <1>3, <1>4, <1>5, <1>6, <1>7, <2>2 DEF QueueInv
  <2>3. QED
      BY <2>1, <2>2
<1>9. ASSUME NEW s \in Semaphores
      PROVE  /\ IsInjective(semQueue[s])'
             /\ \A f \in Range(semQueue[s])' :
                   /\ runState'[f] = "Blocked" /\ ~IsJoiner(f)'
                   /\ \A r \in Semaphores \ {s} : f \notin Range(semQueue[r])'
    BY <1>2, <1>6 DEF QueueInv
<1>10. \A f \in Fibers : runState'[f] = "Blocked" =>
                           IsJoiner(f)' \/ InLockQueue(f)' \/ InSemQueue(f)'
    BY <1>2, <1>7 DEF QueueInv
<1>11. QED
    BY <1>2, <1>3, <1>4, <1>5, <1>8, <1>9, <1>10 DEF QueueInv

LEMMA SemQueued ==
    ASSUME FibersAssumption, TypeOK, SchedulerInv, JoinInv, QueueInv,
           NEW s \in Semaphores, Block,
           semQueue' = [semQueue EXCEPT ![s] = Append(@, pActive)],
           UNCHANGED <<joinHead, nextJoiner, lockQueue>>, OnTrack'
    PROVE  SchedulerInv' /\ JoinInv' /\ QueueInv'
<1>1. /\ FiberTypeOK
      /\ pActive \in Fibers
      /\ lockQueue \in [Locks -> Seq(Fibers)]
      /\ semQueue \in [Semaphores -> Seq(Fibers)]
    BY DEF TypeOK, FiberTypeOK
<1>2. /\ SchedulerInv' /\ JoinInv'
      /\ \A f \in Fibers :
            /\ IsJoiner(f)' <=> IsJoiner(f)
            /\ runState'[f] = "Blocked" <=> runState[f] = "Blocked" \/ f = pActive
    BY <1>1, BlockEffect
<1>3. /\ ~IsJoiner(pActive)
      /\ \A k \in Locks : pActive \notin Range(lockQueue[k])
      /\ \A r \in Semaphores : pActive \notin Range(semQueue[r])
    BY DEF SchedulerInv, JoinInv, IsJoiner, QueueInv
<1>4. /\ IsInjective(semQueue[s])'
      /\ Range(semQueue[s])' = Range(semQueue[s]) \cup {pActive}
  <2>1. semQueue'[s] = Append(semQueue[s], pActive) /\ IsInjective(semQueue[s])
      BY <1>1 DEF QueueInv
  <2>2. QED
      BY <1>1, <1>3, <2>1, AppendDeque
<1>5. \A r \in Semaphores \ {s} : semQueue'[r] = semQueue[r]
    BY <1>1
<1>6. /\ \A k \in Locks : Range(lockQueue[k]) \subseteq Fibers
      /\ \A r \in Semaphores : Range(semQueue[r]) \subseteq Fibers
    BY <1>1 DEF Range
<1>7. \A f \in Fibers : /\ InLockQueue(f)' <=> InLockQueue(f)
                        /\ InSemQueue(f)' <=> InSemQueue(f) \/ f = pActive
    BY <1>4, <1>5 DEF InSemQueue, InLockQueue
<1>8. ASSUME NEW k \in Locks
      PROVE  /\ IsInjective(lockQueue[k])'
             /\ \A f \in Range(lockQueue[k])' :
                   /\ runState'[f] = "Blocked" /\ ~IsJoiner(f)' /\ ~InSemQueue(f)'
                   /\ \A j \in Locks \ {k} : f \notin Range(lockQueue[j])'
    BY <1>2, <1>3, <1>6, <1>7 DEF QueueInv
<1>9. ASSUME NEW r \in Semaphores
      PROVE  /\ IsInjective(semQueue[r])'
             /\ \A f \in Range(semQueue[r])' :
                   /\ runState'[f] = "Blocked" /\ ~IsJoiner(f)'
                   /\ \A q \in Semaphores \ {r} : f \notin Range(semQueue[q])'
  <2>1. CASE r = s
      BY <1>1, <1>2, <1>3, <1>4, <1>5, <1>6, <2>1 DEF QueueInv
  <2>2. CASE r # s
      BY <1>2, <1>3, <1>4, <1>5, <1>6, <2>2 DEF QueueInv
  <2>3. QED
      BY <2>1, <2>2
<1>10. \A f \in Fibers : runState'[f] = "Blocked" =>
                           IsJoiner(f)' \/ InLockQueue(f)' \/ InSemQueue(f)'
    BY <1>2, <1>7 DEF QueueInv
<1>11. QED
    BY <1>2, <1>8, <1>9, <1>10 DEF QueueInv

\* Waking the fiber at the front of a deque.
LEMMA LockServed ==
    ASSUME FibersAssumption, TypeOK, SchedulerInv, JoinInv, QueueInv,
           NEW l \in Locks, lockQueue[l] # <<>>, Unblock(Head(lockQueue[l])),
           lockQueue' = [lockQueue EXCEPT ![l] = Tail(@)],
           UNCHANGED <<joinHead, nextJoiner, semQueue>>, OnTrack'
    PROVE  /\ SchedulerInv' /\ JoinInv' /\ QueueInv'
           /\ Head(lockQueue[l]) \in Range(lockQueue[l])
           /\ Range(lockQueue[l])' = Range(lockQueue[l]) \ {Head(lockQueue[l])}
           /\ \A k \in Locks \ {l} : lockQueue'[k] = lockQueue[k]
<1> DEFINE w == Head(lockQueue[l])
<1>1. /\ FiberTypeOK
      /\ w \in Fibers
      /\ lockQueue \in [Locks -> Seq(Fibers)]
      /\ semQueue \in [Semaphores -> Seq(Fibers)]
    BY FrontType DEF TypeOK
<1>2. /\ IsInjective(lockQueue[l])'
      /\ w \in Range(lockQueue[l])
      /\ Range(lockQueue[l])' = Range(lockQueue[l]) \ {w}
  <2>1. lockQueue'[l] = Tail(lockQueue[l]) /\ IsInjective(lockQueue[l])
      BY <1>1 DEF QueueInv
  <2>2. QED
      BY <1>1, <2>1, TailDeque
<1>3. /\ runState[w] = "Blocked" /\ ~IsJoiner(w) /\ ~InSemQueue(w)
      /\ \A k \in Locks \ {l} : w \notin Range(lockQueue[k])
    BY <1>2 DEF QueueInv
<1>4. /\ SchedulerInv' /\ JoinInv'
      /\ \A f \in Fibers :
            /\ IsJoiner(f)' <=> IsJoiner(f)
            /\ runState'[f] = "Blocked" <=> runState[f] = "Blocked" /\ f # w
    BY <1>1, <1>3, UnblockEffect
<1>5. \A k \in Locks \ {l} : lockQueue'[k] = lockQueue[k]
    BY <1>1
<1>6. /\ \A k \in Locks : Range(lockQueue[k]) \subseteq Fibers
      /\ \A s \in Semaphores : Range(semQueue[s]) \subseteq Fibers
    BY <1>1 DEF Range
<1>7. \A f \in Fibers : /\ InSemQueue(f)' <=> InSemQueue(f)
                        /\ InLockQueue(f) /\ f # w => InLockQueue(f)'
    BY <1>2, <1>5 DEF InSemQueue, InLockQueue
<1>8. ASSUME NEW k \in Locks
      PROVE  /\ IsInjective(lockQueue[k])'
             /\ \A f \in Range(lockQueue[k])' :
                   /\ runState'[f] = "Blocked" /\ ~IsJoiner(f)' /\ ~InSemQueue(f)'
                   /\ \A j \in Locks \ {k} : f \notin Range(lockQueue[j])'
  <2>1. CASE k = l
      BY <1>2, <1>4, <1>5, <1>6, <1>7, <2>1 DEF QueueInv
  <2>2. CASE k # l
      BY <1>2, <1>3, <1>4, <1>5, <1>6, <1>7, <2>2 DEF QueueInv
  <2>3. QED
      BY <2>1, <2>2
<1>9. ASSUME NEW s \in Semaphores
      PROVE  /\ IsInjective(semQueue[s])'
             /\ \A f \in Range(semQueue[s])' :
                   /\ runState'[f] = "Blocked" /\ ~IsJoiner(f)'
                   /\ \A r \in Semaphores \ {s} : f \notin Range(semQueue[r])'
    BY <1>3, <1>4, <1>6 DEF QueueInv, InSemQueue
<1>10. \A f \in Fibers : runState'[f] = "Blocked" =>
                           IsJoiner(f)' \/ InLockQueue(f)' \/ InSemQueue(f)'
    BY <1>4, <1>7 DEF QueueInv
<1>11. QED
    BY <1>2, <1>4, <1>5, <1>8, <1>9, <1>10 DEF QueueInv

LEMMA SemServed ==
    ASSUME FibersAssumption, TypeOK, SchedulerInv, JoinInv, QueueInv,
           NEW s \in Semaphores, semQueue[s] # <<>>, Unblock(Head(semQueue[s])),
           semQueue' = [semQueue EXCEPT ![s] = Tail(@)],
           UNCHANGED <<joinHead, nextJoiner, lockQueue>>, OnTrack'
    PROVE  SchedulerInv' /\ JoinInv' /\ QueueInv'
<1> DEFINE w == Head(semQueue[s])
<1>1. /\ FiberTypeOK
      /\ w \in Fibers
      /\ lockQueue \in [Locks -> Seq(Fibers)]
      /\ semQueue \in [Semaphores -> Seq(Fibers)]
    BY FrontType DEF TypeOK
<1>2. /\ IsInjective(semQueue[s])'
      /\ w \in Range(semQueue[s])
      /\ Range(semQueue[s])' = Range(semQueue[s]) \ {w}
  <2>1. semQueue'[s] = Tail(semQueue[s]) /\ IsInjective(semQueue[s])
      BY <1>1 DEF QueueInv
  <2>2. QED
      BY <1>1, <2>1, TailDeque
<1>3. /\ runState[w] = "Blocked" /\ ~IsJoiner(w)
      /\ \A r \in Semaphores \ {s} : w \notin Range(semQueue[r])
      /\ \A k \in Locks : w \notin Range(lockQueue[k])
    BY <1>2 DEF QueueInv, InSemQueue
<1>4. /\ SchedulerInv' /\ JoinInv'
      /\ \A f \in Fibers :
            /\ IsJoiner(f)' <=> IsJoiner(f)
            /\ runState'[f] = "Blocked" <=> runState[f] = "Blocked" /\ f # w
    BY <1>1, <1>3, UnblockEffect
<1>5. \A r \in Semaphores \ {s} : semQueue'[r] = semQueue[r]
    BY <1>1
<1>6. /\ \A k \in Locks : Range(lockQueue[k]) \subseteq Fibers
      /\ \A r \in Semaphores : Range(semQueue[r]) \subseteq Fibers
    BY <1>1 DEF Range
<1>7. \A f \in Fibers : /\ InLockQueue(f)' <=> InLockQueue(f)
                        /\ InSemQueue(f)' => InSemQueue(f)
                        /\ InSemQueue(f) /\ f # w => InSemQueue(f)'
    BY <1>2, <1>5 DEF InSemQueue, InLockQueue
<1>8. ASSUME NEW k \in Locks
      PROVE  /\ IsInjective(lockQueue[k])'
             /\ \A f \in Range(lockQueue[k])' :
                   /\ runState'[f] = "Blocked" /\ ~IsJoiner(f)' /\ ~InSemQueue(f)'
                   /\ \A j \in Locks \ {k} : f \notin Range(lockQueue[j])'
    BY <1>3, <1>4, <1>6, <1>7 DEF QueueInv
<1>9. ASSUME NEW r \in Semaphores
      PROVE  /\ IsInjective(semQueue[r])'
             /\ \A f \in Range(semQueue[r])' :
                   /\ runState'[f] = "Blocked" /\ ~IsJoiner(f)'
                   /\ \A q \in Semaphores \ {r} : f \notin Range(semQueue[q])'
  <2>1. CASE r = s
      BY <1>2, <1>4, <1>5, <1>6, <2>1 DEF QueueInv
  <2>2. CASE r # s
      BY <1>2, <1>3, <1>4, <1>5, <1>6, <2>2 DEF QueueInv
  <2>3. QED
      BY <2>1, <2>2
<1>10. \A f \in Fibers : runState'[f] = "Blocked" =>
                           IsJoiner(f)' \/ InLockQueue(f)' \/ InSemQueue(f)'
    BY <1>4, <1>7 DEF QueueInv
<1>11. QED
    BY <1>4, <1>8, <1>9, <1>10 DEF QueueInv

-----------------------------------------------------------------------------
(* The grabs that a lock counts *)

LEMMA AcquireKeeps ==
    ASSUME FibersAssumption, TypeOK, LockCoherent, SchedulerInv, JoinInv,
           QueueInv, GrabsInv, NEW l \in Locks, Acquire(l),
           UNCHANGED <<joinHead, nextJoiner, semVars>>
    PROVE  SchedulerInv' /\ JoinInv' /\ QueueInv' /\ GrabsInv'
<1>1. /\ pActive \in Fibers
      /\ lockHolder \in [Locks -> Fibers \cup {NoFiber}]
      /\ lockDepth \in [Locks -> Nat]
      /\ grabs \in [Locks -> [Fibers -> Nat]]
      /\ NoFiber \notin Fibers
    BY FibersAssumption DEF TypeOK, FiberTypeOK
<1>2. /\ KeepRunning
      /\ UNCHANGED <<joinHead, nextJoiner, lockQueue, semQueue>>
      /\ lockHolder[l] \in {NoFiber, pActive}
      /\ lockHolder' = [lockHolder EXCEPT ![l] = pActive]
      /\ lockDepth' = [lockDepth EXCEPT ![l] = @ + 1]
      /\ grabs' = [grabs EXCEPT ![l][pActive] = @ + 1]
    BY DEF Acquire, semVars
<1>3. SchedulerInv' /\ JoinInv' /\ QueueInv'
    BY <1>2, KeepRunningEffect, QueuesKept
<1>4. pActive \notin Range(lockQueue[l])
    BY DEF SchedulerInv, QueueInv
<1>5. grabs[l][pActive] = lockDepth[l]
    BY <1>1, <1>2, <1>4 DEF GrabsInv, LockCoherent
<1>6. ASSUME NEW f \in Fibers
      PROVE  /\ f = lockHolder'[l] =>
                    f \notin Range(lockQueue'[l]) /\ grabs'[l][f] = lockDepth'[l]
             /\ f \in Range(lockQueue'[l]) => grabs'[l][f] = 1
             /\ f # lockHolder'[l] /\ f \notin Range(lockQueue'[l]) => grabs'[l][f] = 0
  <2>1. CASE f = pActive
      BY <1>1, <1>2, <1>4, <1>5, <2>1
  <2>2. CASE f # pActive
    <3>1. f # lockHolder[l] /\ f # lockHolder'[l] /\ grabs'[l][f] = grabs[l][f]
        BY <1>1, <1>2, <2>2
    <3>2. QED
        BY <1>2, <3>1 DEF GrabsInv
  <2>3. QED
      BY <2>1, <2>2
<1>7. \A k \in Locks \ {l} : /\ lockHolder'[k] = lockHolder[k]
                             /\ lockDepth'[k] = lockDepth[k]
                             /\ grabs'[k] = grabs[k]
    BY <1>1, <1>2
<1>8. GrabsInv'
    BY <1>2, <1>6, <1>7 DEF GrabsInv
<1>9. QED
    BY <1>3, <1>8

LEMMA GrabKeeps ==
    ASSUME FibersAssumption, TypeOK, LockCoherent, SchedulerInv, JoinInv,
           QueueInv, GrabsInv, NEW l \in Locks, Grab(l), OnTrack'
    PROVE  SchedulerInv' /\ JoinInv' /\ QueueInv' /\ GrabsInv'
<1>1. CASE Acquire(l)
    BY <1>1, AcquireKeeps DEF Grab
<1>2. CASE ~Acquire(l)
  <2>1. /\ pActive \in Fibers
        /\ grabs \in [Locks -> [Fibers -> Nat]]
      BY DEF TypeOK, FiberTypeOK
  <2>2. /\ lockHolder[l] # pActive
        /\ lockQueue' = [lockQueue EXCEPT ![l] = Append(@, pActive)]
        /\ grabs' = [grabs EXCEPT ![l][pActive] = @ + 1]
        /\ Block
        /\ UNCHANGED <<lockHolder, lockDepth, joinHead, nextJoiner, semQueue>>
      BY <1>2 DEF Grab, semVars
  <2>3. /\ SchedulerInv' /\ JoinInv' /\ QueueInv'
        /\ pActive \notin Range(lockQueue[l])
        /\ Range(lockQueue[l])' = Range(lockQueue[l]) \cup {pActive}
        /\ \A k \in Locks \ {l} : lockQueue'[k] = lockQueue[k]
      BY <2>2, LockQueued
  <2>4. grabs[l][pActive] = 0
      BY <2>1, <2>2, <2>3 DEF GrabsInv
  <2>5. /\ grabs'[l][pActive] = 1
        /\ \A f \in Fibers \ {pActive} : grabs'[l][f] = grabs[l][f]
        /\ \A k \in Locks \ {l} : grabs'[k] = grabs[k]
      BY <2>1, <2>2, <2>4
  <2>6. ASSUME NEW f \in Fibers
        PROVE  /\ f = lockHolder'[l] =>
                    f \notin Range(lockQueue[l])' /\ grabs'[l][f] = lockDepth'[l]
               /\ f \in Range(lockQueue[l])' => grabs'[l][f] = 1
               /\ f # lockHolder'[l] /\ f \notin Range(lockQueue[l])' => grabs'[l][f] = 0
      BY <2>2, <2>3, <2>5 DEF GrabsInv
  <2>7. GrabsInv'
      BY <2>2, <2>3, <2>5, <2>6 DEF GrabsInv
  <2>8. QED
      BY <2>3, <2>7
<1>3. QED
    BY <1>1, <1>2

LEMMA UngrabKeeps ==
    ASSUME FibersAssumption, TypeOK, LockCoherent, SchedulerInv, JoinInv,
           QueueInv, GrabsInv, NEW l \in Locks, Ungrab(l), OnTrack'
    PROVE  SchedulerInv' /\ JoinInv' /\ QueueInv' /\ GrabsInv'
<1>1. /\ pActive \in Fibers
      /\ lockHolder \in [Locks -> Fibers \cup {NoFiber}]
      /\ lockDepth \in [Locks -> Nat]
      /\ lockQueue \in [Locks -> Seq(Fibers)]
      /\ grabs \in [Locks -> [Fibers -> Nat]]
      /\ NoFiber \notin Fibers
    BY FibersAssumption DEF TypeOK, FiberTypeOK
<1>2. /\ lockHolder[l] = pActive
      /\ lockDepth[l] > 0
      /\ UNCHANGED <<joinHead, nextJoiner, semQueue>>
    BY DEF Ungrab, semVars
<1>3. grabs[l][pActive] = lockDepth[l] /\ pActive \notin Range(lockQueue[l])
    BY <1>1, <1>2 DEF GrabsInv
<1>4. /\ grabs'[l][pActive] = lockDepth[l] - 1
      /\ \A f \in Fibers \ {pActive} : grabs'[l][f] = grabs[l][f]
      /\ \A k \in Locks \ {l} : grabs'[k] = grabs[k]
    BY <1>1, <1>2, <1>3 DEF Ungrab
<1>5. CASE lockDepth[l] > 1 \/ lockQueue[l] = <<>>
  <2>1. /\ lockDepth' = [lockDepth EXCEPT ![l] = @ - 1]
        /\ lockHolder' = [lockHolder EXCEPT ![l] =
                             IF lockDepth[l] > 1 THEN @ ELSE NoFiber]
        /\ KeepRunning
        /\ UNCHANGED lockQueue
      BY <1>5 DEF Ungrab
  <2>2. SchedulerInv' /\ JoinInv' /\ QueueInv'
      BY <1>2, <2>1, KeepRunningEffect, QueuesKept
  <2>3. /\ lockDepth'[l] = lockDepth[l] - 1
        /\ lockHolder'[l] = IF lockDepth[l] > 1 THEN pActive ELSE NoFiber
        /\ \A k \in Locks \ {l} : /\ lockHolder'[k] = lockHolder[k]
                                  /\ lockDepth'[k] = lockDepth[k]
      BY <1>1, <1>2, <2>1
  <2>4. ASSUME NEW f \in Fibers
        PROVE  /\ f = lockHolder'[l] =>
                    f \notin Range(lockQueue'[l]) /\ grabs'[l][f] = lockDepth'[l]
               /\ f \in Range(lockQueue'[l]) => grabs'[l][f] = 1
               /\ f # lockHolder'[l] /\ f \notin Range(lockQueue'[l]) => grabs'[l][f] = 0
    <3>1. CASE f = pActive
      <4>1. CASE lockDepth[l] > 1
          BY <1>3, <1>4, <2>1, <2>3, <3>1, <4>1
      <4>2. CASE ~(lockDepth[l] > 1)
        <5>1. lockDepth[l] = 1
            BY <1>1, <1>2, <4>2
        <5>2. QED
            BY <1>1, <1>3, <1>4, <2>1, <2>3, <3>1, <5>1
      <4>3. QED
          BY <4>1, <4>2
    <3>2. CASE f # pActive
        BY <1>1, <1>2, <1>4, <2>1, <2>3, <3>2 DEF GrabsInv
    <3>3. QED
        BY <3>1, <3>2
  <2>5. GrabsInv'
      BY <1>4, <2>1, <2>3, <2>4 DEF GrabsInv
  <2>6. QED
      BY <2>2, <2>5
<1>6. CASE ~(lockDepth[l] > 1 \/ lockQueue[l] = <<>>)
  <2> DEFINE w == Head(lockQueue[l])
  <2>1. /\ lockHolder' = [lockHolder EXCEPT ![l] = w]
        /\ lockQueue' = [lockQueue EXCEPT ![l] = Tail(@)]
        /\ Unblock(w)
        /\ UNCHANGED lockDepth
        /\ lockQueue[l] # <<>>
      BY <1>6 DEF Ungrab, HandOver
  <2>2. /\ SchedulerInv' /\ JoinInv' /\ QueueInv'
        /\ w \in Range(lockQueue[l])
        /\ Range(lockQueue[l])' = Range(lockQueue[l]) \ {w}
        /\ \A k \in Locks \ {l} : lockQueue'[k] = lockQueue[k]
      BY <1>2, <2>1, LockServed
  <2>3. /\ lockDepth[l] = 1
        /\ w # pActive
        /\ w \in Fibers
        /\ lockHolder'[l] = w
        /\ \A k \in Locks \ {l} : lockHolder'[k] = lockHolder[k]
      BY <1>1, <1>2, <1>3, <1>6, <2>1, <2>2, FrontType
  <2>4. ASSUME NEW f \in Fibers
        PROVE  /\ f = lockHolder'[l] =>
                    f \notin Range(lockQueue[l])' /\ grabs'[l][f] = lockDepth'[l]
               /\ f \in Range(lockQueue[l])' => grabs'[l][f] = 1
               /\ f # lockHolder'[l] /\ f \notin Range(lockQueue[l])' => grabs'[l][f] = 0
    <3>1. CASE f = pActive
        BY <1>3, <1>4, <2>1, <2>2, <2>3, <3>1
    <3>2. CASE f # pActive
        BY <1>2, <1>4, <2>1, <2>2, <2>3, <3>2 DEF GrabsInv
    <3>3. QED
        BY <3>1, <3>2
  <2>5. GrabsInv'
      BY <1>4, <2>1, <2>2, <2>3, <2>4 DEF GrabsInv
  <2>6. QED
      BY <2>2, <2>5
<1>7. QED
    BY <1>5, <1>6

-----------------------------------------------------------------------------
(* Every step of a polite program keeps the invariant *)

LEMMA NextOffTrack ==
    ASSUME Next, OnTrack'
    PROVE  OnTrack
<1>1. CASE FiberStep
    BY <1>1, FiberNextOffTrack DEF FiberStep
<1>2. CASE Block \/ \E w : Unblock(w)
    BY <1>2, YieldOffTrack DEF Block, Unblock
<1>3. CASE KeepRunning
    BY <1>3 DEF KeepRunning, OnTrack
<1>4. CASE SetError
    BY <1>4, SetErrorOffTrack
<1>5. ASSUME NEW l \in Locks, LockStep(l)
      PROVE  OnTrack
    BY <1>2, <1>3, <1>4, <1>5 DEF LockStep, Grab, TryGrab, Acquire, Ungrab,
       HandOver, LockError
<1>6. ASSUME NEW s \in Semaphores, SemaphoreStep(s)
      PROVE  OnTrack
    BY <1>2, <1>3, <1>6 DEF SemaphoreStep, Wait, Post, InitSemaphore
<1>7. QED
    BY <1>1, <1>5, <1>6 DEF Next

LEMMA LockStepKeeps ==
    ASSUME FibersAssumption, TypeOK, LockCoherent, SchedulerInv, JoinInv,
           QueueInv, GrabsInv, NEW l \in Locks, LockStep(l), OnTrack'
    PROVE  SchedulerInv' /\ JoinInv' /\ QueueInv' /\ GrabsInv'
<1>1. CASE Grab(l)
    BY <1>1, GrabKeeps
<1>2. CASE TryGrab(l)
    BY <1>2, AcquireKeeps DEF TryGrab
<1>3. CASE Ungrab(l)
    BY <1>3, UngrabKeeps
<1>4. CASE LockError(l)
  <2>1. /\ SetError
        /\ UNCHANGED <<joinHead, nextJoiner, lockHolder, lockDepth, lockQueue,
                       grabs, semQueue>>
      BY <1>4 DEF LockError, lockVars, semVars
  <2>2. SchedulerInv' /\ JoinInv' /\ WaitersKept
      BY <2>1, SetErrorEffect
  <2>3. QueueInv'
      BY <2>1, <2>2, QueuesKept
  <2>4. GrabsInv'
      BY <2>1 DEF GrabsInv
  <2>5. QED
      BY <2>2, <2>3, <2>4
<1>5. QED
    BY <1>1, <1>2, <1>3, <1>4 DEF LockStep

LEMMA SemaphoreStepKeeps ==
    ASSUME FibersAssumption, TypeOK, SchedulerInv, JoinInv, QueueInv, GrabsInv,
           NEW s \in Semaphores, SemaphoreStep(s), OnTrack'
    PROVE  SchedulerInv' /\ JoinInv' /\ QueueInv' /\ GrabsInv'
<1>1. UNCHANGED <<joinHead, nextJoiner, lockHolder, lockDepth, lockQueue, grabs>>
    BY DEF SemaphoreStep, Wait, Post, InitSemaphore, lockVars
<1>2. GrabsInv'
    BY <1>1 DEF GrabsInv
<1>3. CASE KeepRunning /\ UNCHANGED semQueue
    BY <1>1, <1>2, <1>3, KeepRunningEffect, QueuesKept
<1>4. CASE Block /\ semQueue' = [semQueue EXCEPT ![s] = Append(@, pActive)]
    BY <1>1, <1>2, <1>4, SemQueued
<1>5. CASE /\ semQueue[s] # <<>>
           /\ Unblock(Head(semQueue[s]))
           /\ semQueue' = [semQueue EXCEPT ![s] = Tail(@)]
    BY <1>1, <1>2, <1>5, SemServed
<1>6. QED
    BY <1>3, <1>4, <1>5 DEF SemaphoreStep, Wait, Post, InitSemaphore

LEMMA SoftInvInit ==
    ASSUME FibersAssumption, Init
    PROVE  SoftInv
<1>1. FiberInv
    BY FiberInvInit DEF Init
<1>2. \A f \in Fibers : runState[f] # "Blocked"
    BY DEF Init, FiberInit
<1>3. \A l \in Locks : IsInjective(lockQueue[l]) /\ Range(lockQueue[l]) = {}
    BY DEF Init, IsInjective, Range
<1>4. \A s \in Semaphores : IsInjective(semQueue[s]) /\ Range(semQueue[s]) = {}
    BY DEF Init, IsInjective, Range
<1>5. QueueInv
    BY <1>2, <1>3, <1>4 DEF QueueInv
<1>6. GrabsInv
    BY <1>3, FibersAssumption DEF Init, GrabsInv
<1>7. QED
    BY <1>1, <1>5, <1>6 DEF SoftInv, FiberInv

LEMMA SoftInvStep ==
    ASSUME FibersAssumption, Polite, TypeOK, LockCoherent, SoftInv, [Next]_vars
    PROVE  SoftInv'
<1> SUFFICES ASSUME OnTrack'
             PROVE  SchedulerInv' /\ JoinInv' /\ QueueInv' /\ GrabsInv'
    BY DEF SoftInv
<1>1. CASE Next
  <2>1. SchedulerInv /\ JoinInv /\ QueueInv /\ GrabsInv
      BY <1>1, NextOffTrack DEF SoftInv
  <2>2. CASE FiberStep
    <3>1. SchedulerInv' /\ JoinInv' /\ WaitersKept
        BY <2>1, <2>2, FiberNextEffect DEF FiberStep, TypeOK
    <3>2. UNCHANGED <<lockHolder, lockDepth, lockQueue, grabs, semQueue>>
        BY <2>2 DEF FiberStep, lockVars, semVars
    <3>3. QueueInv' /\ GrabsInv'
        BY <2>1, <3>1, <3>2, QueuesKept DEF GrabsInv
    <3>4. QED
        BY <3>1, <3>3
  <2>3. ASSUME NEW l \in Locks, LockStep(l)
        PROVE  SchedulerInv' /\ JoinInv' /\ QueueInv' /\ GrabsInv'
      BY <2>1, <2>3, LockStepKeeps
  <2>4. ASSUME NEW s \in Semaphores, SemaphoreStep(s)
        PROVE  SchedulerInv' /\ JoinInv' /\ QueueInv' /\ GrabsInv'
      BY <2>1, <2>4, SemaphoreStepKeeps
  <2>5. QED
      BY <1>1, <2>2, <2>3, <2>4 DEF Next
<1>2. CASE UNCHANGED vars
    BY <1>2 DEF vars, fiberVars, lockVars, semVars, SoftInv, SchedulerInv,
       JoinInv, QueueInv, GrabsInv, IsJoiner, InLockQueue, InSemQueue, Joiners,
       main, OnTrack
<1>3. QED
    BY <1>1, <1>2

\* The inductive invariant holds of every polite program.
THEOREM SoftInvariant == ASSUME Polite PROVE Spec => []SoftInv
<1>1. Init => SoftInv
    BY FibersAssumption, SoftInvInit
<1>2. TypeOK /\ LockCoherent /\ SoftInv /\ [Next]_vars => SoftInv'
    BY FibersAssumption, SoftInvStep
<1>3. QED
    BY <1>1, <1>2, TypeCorrect, LocksAreCoherent, PTL DEF Spec

\* Mutual exclusion: a fiber that runs with a lock grabbed and not yet
\* ungrabbed holds it, as deep as it thinks, until the loop loses track.
THEOREM LocksExclude == ASSUME Polite PROVE Spec => []MutualExclusion
<1>1. TypeOK /\ SoftInv => MutualExclusion
  <2> SUFFICES ASSUME TypeOK, SoftInv, OnTrack, NEW l \in Locks,
                      grabs[l][pActive] > 0
               PROVE  lockHolder[l] = pActive /\ lockDepth[l] = grabs[l][pActive]
      BY DEF MutualExclusion
  <2>1. pActive \in Fibers /\ pActive \notin Range(lockQueue[l])
      BY DEF TypeOK, FiberTypeOK, SoftInv, SchedulerInv, QueueInv
  <2>2. QED
      BY <2>1 DEF SoftInv, GrabsInv
<1>2. QED
    BY <1>1, TypeCorrect, SoftInvariant, PTL

\* A fiber that waits for a lock, a semaphore or a fiber is not run before the
\* loop loses track.
THEOREM WaitersAreNotRun == ASSUME Polite PROVE Spec => []WaitersDoNotRun
<1>1. SoftInv => WaitersDoNotRun
    BY DEF SoftInv, SchedulerInv, JoinInv, QueueInv, WaitersDoNotRun,
       InLockQueue, InSemQueue
<1>2. QED
    BY <1>1, SoftInvariant, PTL

\* A semaphore with waiters has no token: post hands it to one of them.
THEOREM TokensAreHandedOn == ASSUME Polite PROVE Spec => []NoTokenWhileWaiting
<1>1. Init => NoTokenWhileWaiting
    BY DEF Init, NoTokenWhileWaiting
<1>2. TypeOK /\ NoTokenWhileWaiting /\ [Next]_vars => NoTokenWhileWaiting'
  <2> SUFFICES ASSUME TypeOK, NoTokenWhileWaiting, [Next]_vars
               PROVE  NoTokenWhileWaiting'
      OBVIOUS
  <2>1. CASE UNCHANGED semVars
      BY <2>1 DEF semVars, NoTokenWhileWaiting
  <2>2. ASSUME NEW s \in Semaphores, SemaphoreStep(s)
        PROVE  NoTokenWhileWaiting'
    <3>1. /\ semCount \in [Semaphores -> Int]
          /\ semQueue \in [Semaphores -> Seq(Fibers)]
          /\ \A r \in Semaphores : semQueue[r] # <<>> => semCount[r] <= 0
        BY DEF TypeOK, NoTokenWhileWaiting
    <3>2. /\ \A r \in Semaphores \ {s} : /\ semQueue'[r] = semQueue[r]
                                         /\ semCount'[r] = semCount[r]
          /\ semQueue'[s] # <<>> => semCount'[s] <= 0
      <4>1. CASE Wait(s)
          BY <3>1, <4>1 DEF Wait
      <4>2. CASE Post(s)
          BY <3>1, <4>2 DEF Post
      <4>3. ASSUME NEW count \in Counts, InitSemaphore(s, count)
            PROVE  /\ \A r \in Semaphores \ {s} : /\ semQueue'[r] = semQueue[r]
                                                  /\ semCount'[r] = semCount[r]
                   /\ semQueue'[s] # <<>> => semCount'[s] <= 0
          BY <3>1, <4>3 DEF InitSemaphore
      <4>4. QED
          BY <2>2, <4>1, <4>2, <4>3 DEF SemaphoreStep
    <3>3. QED
        BY <3>1, <3>2 DEF NoTokenWhileWaiting
  <2>3. QED
      BY <2>1, <2>2 DEF Next, FiberStep, LockStep, Grab, TryGrab, Ungrab,
         LockError, vars
<1>3. QED
    BY <1>1, <1>2, TypeCorrect, PTL DEF Spec

\* A blocked fiber has one place.
LEMMA OnePlace ==
    ASSUME FibersAssumption, TypeOK, SoftInv, OnTrack,
           NEW f \in Fibers, runState[f] = "Blocked"
    PROVE  \E p \in Places :
              IsAt(f, p) /\ \A q \in Places : IsAt(f, q) => q = p
<1>1. QueueInv /\ JoinInv
    BY DEF SoftInv
<1>2. /\ \A l \in Locks : lockQueue[l] \in Seq(Fibers) /\ IsInjective(lockQueue[l])
      /\ \A s \in Semaphores : semQueue[s] \in Seq(Fibers) /\ IsInjective(semQueue[s])
    BY <1>1 DEF TypeOK, QueueInv
<1>3. /\ \A l \in Locks : Len(lockQueue[l]) <= NumFibers
      /\ \A s \in Semaphores : Len(semQueue[s]) <= NumFibers
    BY <1>2, FibersAssumption, DequeLength
<1>4. ASSUME NEW l \in Locks, NEW i \in 1 .. NumFibers
      PROVE  IsAt(f, <<"lock", l, i>>)
                <=> i \in DOMAIN lockQueue[l] /\ lockQueue[l][i] = f
    BY <1>2 DEF IsAt
<1>5. ASSUME NEW s \in Semaphores, NEW i \in 1 .. NumFibers
      PROVE  IsAt(f, <<"semaphore", s, i>>)
                <=> i \in DOMAIN semQueue[s] /\ semQueue[s][i] = f
    BY <1>2 DEF IsAt
<1>6. ASSUME NEW t \in Fibers
      PROVE  IsAt(f, <<"join", t, 1>>) <=> f \in Joiners(t)
    BY DEF IsAt
<1>7. ASSUME NEW q \in Places, IsAt(f, q)
      PROVE  \/ \E l \in Locks : \E i \in DOMAIN lockQueue[l] :
                   q = <<"lock", l, i>> /\ lockQueue[l][i] = f
             \/ \E s \in Semaphores : \E i \in DOMAIN semQueue[s] :
                   q = <<"semaphore", s, i>> /\ semQueue[s][i] = f
             \/ \E t \in Fibers : q = <<"join", t, 1>> /\ f \in Joiners(t)
    BY <1>4, <1>5, <1>6, <1>7 DEF Places
<1>8. CASE InLockQueue(f)
  <2>0. PICK l \in Locks : f \in Range(lockQueue[l])
      BY <1>8 DEF InLockQueue
  <2>1. PICK i \in DOMAIN lockQueue[l] : lockQueue[l][i] = f
      BY <2>0 DEF Range
  <2>2. f \in Range(lockQueue[l]) /\ i \in 1 .. NumFibers
      BY <1>2, <1>3, <2>0, <2>1, FibersAssumption
  <2>3. /\ ~IsJoiner(f) /\ ~InSemQueue(f)
        /\ \A k \in Locks \ {l} : f \notin Range(lockQueue[k])
        /\ \A j \in DOMAIN lockQueue[l] : lockQueue[l][j] = f => j = i
      BY <1>1, <1>2, <2>1, <2>2 DEF QueueInv, IsInjective
  <2>4. <<"lock", l, i>> \in Places /\ IsAt(f, <<"lock", l, i>>)
      BY <1>4, <2>1, <2>2 DEF Places
  <2>5. ASSUME NEW q \in Places, IsAt(f, q) PROVE q = <<"lock", l, i>>
      BY <1>7, <2>3, <2>5 DEF IsJoiner, InSemQueue, Range
  <2>6. QED
      BY <2>4, <2>5
<1>9. CASE InSemQueue(f)
  <2>0. PICK s \in Semaphores : f \in Range(semQueue[s])
      BY <1>9 DEF InSemQueue
  <2>1. PICK i \in DOMAIN semQueue[s] : semQueue[s][i] = f
      BY <2>0 DEF Range
  <2>2. f \in Range(semQueue[s]) /\ i \in 1 .. NumFibers
      BY <1>2, <1>3, <2>0, <2>1, FibersAssumption
  <2>3. /\ ~IsJoiner(f)
        /\ \A l \in Locks : f \notin Range(lockQueue[l])
        /\ \A r \in Semaphores \ {s} : f \notin Range(semQueue[r])
        /\ \A j \in DOMAIN semQueue[s] : semQueue[s][j] = f => j = i
      BY <1>1, <1>2, <1>9, <2>1, <2>2 DEF QueueInv, IsInjective
  <2>4. <<"semaphore", s, i>> \in Places /\ IsAt(f, <<"semaphore", s, i>>)
      BY <1>5, <2>1, <2>2 DEF Places
  <2>5. ASSUME NEW q \in Places, IsAt(f, q) PROVE q = <<"semaphore", s, i>>
      BY <1>7, <2>3, <2>5 DEF IsJoiner, Range
  <2>6. QED
      BY <2>4, <2>5
<1>10. CASE IsJoiner(f)
  <2>1. PICK t \in Fibers : f \in Joiners(t)
      BY <1>10 DEF IsJoiner
  <2>2. /\ \A u \in Fibers : f \in Joiners(u) => u = t
        /\ \A l \in Locks : f \notin Range(lockQueue[l])
        /\ \A s \in Semaphores : f \notin Range(semQueue[s])
      BY <1>1, <1>10, <2>1 DEF JoinInv, QueueInv
  <2>3. <<"join", t, 1>> \in Places /\ IsAt(f, <<"join", t, 1>>)
      BY <1>6, <2>1 DEF Places
  <2>4. ASSUME NEW q \in Places, IsAt(f, q) PROVE q = <<"join", t, 1>>
      BY <1>7, <2>2, <2>4 DEF Range
  <2>5. QED
      BY <2>3, <2>4
<1>11. QED
    BY <1>1, <1>8, <1>9, <1>10 DEF QueueInv

\* No wakeup is lost: a blocked fiber has exactly one place in the deques and
\* join lists, and whoever releases that place wakes it.
THEOREM WaitersAreKept == ASSUME Polite PROVE Spec => []NoLostWaiter
<1>1. TypeOK /\ SoftInv => NoLostWaiter
    BY FibersAssumption, OnePlace DEF NoLostWaiter
<1>2. QED
    BY <1>1, TypeCorrect, SoftInvariant, PTL

=============================================================================
