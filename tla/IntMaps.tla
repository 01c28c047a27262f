------------------------------- MODULE IntMaps -------------------------------
(***************************************************************************)
(* Maps from integers to objects and their iterators (OMap.cpp), with the  *)
(* reference counts of Lists.tla.  A key that is in the map has a cell in  *)
(* use; an iterator stands at a key or at End.  The keys are positive and  *)
(* in order, as in the std::map of the code.  Maps with other keys have    *)
(* the same methods.                                                       *)
(***************************************************************************)
EXTENDS Arrays

IntMaps == {m \in Objects : kind[m] = "intMap" /\ \E v \in Vars : refers[v] = m}
IntMapIters == {i \in Objects : kind[i] = "intMapIter" /\ \E v \in Vars : refers[v] = i}

End == MaxElements + 1
Least(keys) == CHOOSE n \in keys \cup {End} : \A k \in keys : n <= k
First(m) == Least(Used(m))
After(m, n) == Least({k \in Used(m) : k > n})
Ahead(m, n) == CHOOSE k \in Used(m) : k < n /\ \A j \in Used(m) : j < n => j <= k

NewIntMap(o) ==
    /\ "intMap" \in program.makes /\ Idle /\ stack = NoObject
    /\ o \in FreeObjects
    /\ kind' = [kind EXCEPT ![o] = "intMap"]
    /\ refCount' = [refCount EXCEPT ![o] = 0]
    /\ stack' = o
    /\ UNCHANGED <<refers, shape, cursor, calls>>

-----------------------------------------------------------------------------
(* Methods of IntMap *)

MapMethod(m) == Idle /\ m \in IntMaps

\* What a program owes to its iterators: it erases no key that one stands at.
KeyUnseen(m, n) == \A i \in Objects : kind[i] = "intMapIter" /\ refers[i] = m => cursor[i] # n
NoKeySeen(m) == \A n \in Used(m) : KeyUnseen(m, n)

MapHeadIter(m, i) ==
    /\ MapMethod(m) /\ stack = NoObject
    /\ MakeIter("intMapIter", i, m, First(m))
    /\ UNCHANGED <<shape, calls>>

MapTailIter(m, i) ==
    /\ MapMethod(m) /\ stack = NoObject
    /\ MakeIter("intMapIter", i, m, End)
    /\ UNCHANGED <<shape, calls>>

MapFind(m, i, n) ==
    /\ MapMethod(m) /\ stack = NoObject /\ n \in Used(m)
    /\ MakeIter("intMapIter", i, m, n)
    /\ UNCHANGED <<shape, calls>>

\* The elements are released one by one (ReleaseCell), then they are erased
\* (EndResize).
MapClear(m) ==
    /\ MapMethod(m) /\ stack = NoObject /\ NoKeySeen(m)
    /\ calls' = <<Calls("clear", m, NoLink, NoLink, NoObject)>>
    /\ UNCHANGED <<counts, shape, cursor, stack>>

Grab(m, n) ==
    /\ MapMethod(m) /\ stack = NoObject /\ n \in Used(m)
    /\ stack' = refers[<<m, n>>]
    /\ UNCHANGED <<counts, shape, cursor, calls>>

Erase(m, n) ==
    /\ n \in Used(m) /\ KeyUnseen(m, n)
    /\ refers' = [refers EXCEPT ![<<m, n>>] = Beyond]
    /\ refCount' = Released(refCount, refers[<<m, n>>])
    /\ calls' = AndDelete(refers[<<m, n>>], << >>)

\* Mutation: an object is not kept when its key is new.
MapSetUnkept(m, n) ==
    /\ MapMethod(m) /\ stack # NoObject
    /\ IF n \in Used(m)
       THEN Replace(<<m, n>>)
       ELSE /\ refers' = [refers EXCEPT ![<<m, n>>] = stack]
            /\ UNCHANGED <<refCount, calls>>
            /\ stack' = NoObject
    /\ UNCHANGED <<kind, shape, cursor>>

MapSet(m, n) ==
    /\ MapMethod(m) /\ stack # NoObject
    /\ IF n \in Used(m)
       THEN Replace(<<m, n>>)
       ELSE /\ refers' = [refers EXCEPT ![<<m, n>>] = stack]
            /\ refCount' = Kept(refCount, stack)
            /\ UNCHANGED calls
            /\ stack' = NoObject
    /\ UNCHANGED <<kind, shape, cursor>>

\* remove; to set a key to null does the same.
MapRemove(m, n) ==
    /\ MapMethod(m) /\ stack = NoObject /\ Erase(m, n)
    /\ UNCHANGED <<kind, shape, cursor, stack>>

MapUnref(m, n) ==
    /\ MapMethod(m) /\ stack = NoObject
    /\ n \in Used(m) /\ KeyUnseen(m, n)
    /\ Unreferred(m, n, [k \in Used(m) \ {n} |-> refers[<<m, k>>]])
    /\ UNCHANGED cursor

\* load of at most one pair, whose object may be null; 0 stands for none.
MapLoad(m, n) ==
    /\ MapMethod(m) /\ NoKeySeen(m) /\ Survives
    /\ IF n = 0 THEN stack = NoObject ELSE stack # NoObject \/ program.nulls
    /\ calls' = <<[Calls("load", m, NoLink, NoLink, stack) EXCEPT !.number = n]>>
    /\ stack' = NoObject
    /\ UNCHANGED <<counts, shape, cursor>>

EndMapLoad ==
    /\ OverCells /\ kind[Top.for] = "intMap" /\ NotPassed = {} /\ Top.does = "load"
    /\ refers' = Filled(refers, Top.for, [n \in {Top.number} |-> Top.arg])
    /\ refCount' = IF Top.number = 0 THEN refCount ELSE Kept(refCount, Top.arg)
    /\ calls' = Rest
    /\ UNCHANGED <<kind, shape, cursor, stack>>

-----------------------------------------------------------------------------
(* Methods of IntMapIter; nothing is said of steps over the ends *)

MapIterMethod(i) == Idle /\ stack = NoObject /\ i \in IntMapIters

MapMoveTo(i, n) ==
    /\ cursor' = [cursor EXCEPT ![i] = n]
    /\ UNCHANGED <<counts, shape, stack, calls>>

MapSeekNext(i) ==
    MapIterMethod(i) /\ cursor[i] # End /\ MapMoveTo(i, After(refers[i], cursor[i]))
MapSeekPrev(i) ==
    MapIterMethod(i) /\ cursor[i] # First(refers[i]) /\ MapMoveTo(i, Ahead(refers[i], cursor[i]))
MapSeekHead(i) == MapIterMethod(i) /\ MapMoveTo(i, First(refers[i]))
MapSeekTail(i) == MapIterMethod(i) /\ MapMoveTo(i, End)

\* current and currentPair
MapCurrent(i) ==
    /\ MapIterMethod(i) /\ cursor[i] # End
    /\ stack' = refers[Here(i)]
    /\ UNCHANGED <<counts, shape, cursor, calls>>

MapNext(i) ==
    /\ MapIterMethod(i) /\ cursor[i] # End
    /\ stack' = refers[Here(i)]
    /\ cursor' = [cursor EXCEPT ![i] = After(refers[i], @)]
    /\ UNCHANGED <<counts, shape, calls>>

MapPrev(i) ==
    /\ MapIterMethod(i) /\ cursor[i] # First(refers[i])
    /\ cursor' = [cursor EXCEPT ![i] = Ahead(refers[i], @)]
    /\ stack' = refers[<<refers[i], Ahead(refers[i], cursor[i])>>]
    /\ UNCHANGED <<counts, shape, calls>>

-----------------------------------------------------------------------------

OnIntMap(m) ==
    \/ \E i \in Objects : \/ MapHeadIter(m, i) \/ MapTailIter(m, i)
                          \/ \E n \in 1 .. program.cells : MapFind(m, i, n)
    \/ MapClear(m)
    \/ \E n \in 1 .. program.cells : \/ Grab(m, n) \/ MapSet(m, n)
                                   \/ MapRemove(m, n) \/ MapUnref(m, n)
    \/ \E n \in 0 .. program.cells : MapLoad(m, n)

OnIntMapIter(i) ==
    \/ MapSeekNext(i) \/ MapSeekPrev(i) \/ MapSeekHead(i) \/ MapSeekTail(i)
    \/ MapCurrent(i) \/ MapNext(i) \/ MapPrev(i)

IntMapsNext ==
    \/ \E m \in IntMaps : OnIntMap(m)
    \/ \E i \in IntMapIters : OnIntMapIter(i)
    \/ EndMapLoad
=============================================================================
