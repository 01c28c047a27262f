------------------------------- MODULE Arrays -------------------------------
(***************************************************************************)
(* Arrays of objects and their iterators (OArray.cpp), with the reference  *)
(* counts of Lists.tla.  The elements of an array are what its first cells *)
(* refer to; positions count from 1.  The classes ByteArray to StructArray *)
(* have the same methods but no references.                                *)
(***************************************************************************)
EXTENDS Lists

S == INSTANCE SequencesExt

Arrays == {a \in Objects : kind[a] = "array" /\ \E v \in Vars : refers[v] = a}
ArrayIters == {i \in Objects : kind[i] = "arrayIter" /\ \E v \in Vars : refers[v] = i}

Used(a) == {n \in 1 .. MaxElements : refers[<<a, n>>] # Beyond}
Size(a) == Cardinality(Used(a))
Elements(a) == [n \in 1 .. Size(a) |-> refers[<<a, n>>]]

\* The cells of a with the sequence s in them.
Filled(cells, a, s) ==
    [h \in Holders |-> IF h \in {a} \X (1 .. MaxElements)
                       THEN IF h[2] \in DOMAIN s THEN s[h[2]] ELSE Beyond
                       ELSE cells[h]]

-----------------------------------------------------------------------------
(* The loops over cells *)

NewArray(o) ==
    /\ "array" \in program.makes /\ Idle /\ stack = NoObject
    /\ o \in FreeObjects
    /\ kind' = [kind EXCEPT ![o] = "array"]
    /\ refCount' = [refCount EXCEPT ![o] = 0]
    /\ stack' = o
    /\ UNCHANGED <<refers, shape, cursor, calls>>

OverCells == ~Idle /\ kind[Top.for] \in {"array", "intMap"}
             /\ Top.does \in {"delete", "drop", "clear", "resize", "load"}
NotPassed == {n \in Used(Top.for) : n >= Top.cell}

\* Mutation: the loop passes over the element behind the one released.
ReleaseCellSkips ==
    /\ OverCells /\ NotPassed # {}
    /\ LET n == CHOOSE m \in NotPassed : \A k \in NotPassed : m <= k
       IN  Release(<<Top.for, n>>, <<[Top EXCEPT !.cell = n + 2]>> \o Rest)
    /\ UNCHANGED <<kind, shape, cursor, stack>>

\* delete, clear, resize and load: the elements are released one by one ...
ReleaseCell ==
    /\ OverCells /\ NotPassed # {}
    /\ LET n == CHOOSE m \in NotPassed : \A k \in NotPassed : m <= k
       IN  Release(<<Top.for, n>>, <<[Top EXCEPT !.cell = n + 1]>> \o Rest)
    /\ UNCHANGED <<kind, shape, cursor, stack>>

\* ... and then the cells are given back, together with the object
FreeCells ==
    /\ OverCells /\ NotPassed = {} /\ Top.does \in {"delete", "drop"}
    /\ kind' = [kind EXCEPT ![Top.for] = IF Top.does = "delete" THEN "free" ELSE "lost"]
    /\ refers' = Filled(refers, Top.for, << >>)
    /\ calls' = Rest
    /\ UNCHANGED <<refCount, shape, cursor, stack>>

\* ... or but for those that resize leaves.
EndResize ==
    /\ OverCells /\ NotPassed = {} /\ Top.does \in {"clear", "resize"}
    /\ refers' = Filled(refers, Top.for, SubSeq(Elements(Top.for), 1, Top.number))
    /\ calls' = Rest
    /\ UNCHANGED <<kind, refCount, shape, cursor, stack>>

-----------------------------------------------------------------------------
(* Methods of Array *)

ArrayMethod(a) == Idle /\ a \in Arrays
Change(a, s) == refers' = Filled(refers, a, s)

ArrayHeadIter(a, i) ==
    /\ ArrayMethod(a) /\ stack = NoObject
    /\ MakeIter("arrayIter", i, a, 1)
    /\ UNCHANGED <<shape, calls>>

ArrayTailIter(a, i) ==
    /\ ArrayMethod(a) /\ stack = NoObject
    /\ MakeIter("arrayIter", i, a, Size(a) + 1)
    /\ UNCHANGED <<shape, calls>>

FirstOf(a, first) == {n \in first .. Size(a) : /\ refers[<<a, n>>] = stack
                                               /\ \A m \in first .. n - 1 : refers[<<a, m>>] # stack}

\* An object that is not found is off the stack all the same.
ArrayFind(a, i) ==
    /\ ArrayMethod(a) /\ Sought
    /\ IF FirstOf(a, 1) # {}
       THEN \E n \in FirstOf(a, 1) : MakeIter("arrayIter", i, a, n)
       ELSE stack' = NoObject /\ UNCHANGED <<counts, cursor>>
    /\ UNCHANGED <<shape, calls>>

\* Mutation: the elements of a clone are not kept.
KeptAllNot(s) == refCount

\* The counts after everything in the sequence s was kept.
KeptAll(s) == [o \in Objects |-> refCount[o] + Cardinality({n \in DOMAIN s : s[n] = o})]

ArrayClone(a, o) ==
    /\ ArrayMethod(a) /\ stack = NoObject
    /\ o \in FreeObjects
    /\ kind' = [kind EXCEPT ![o] = "array"]
    /\ refCount' = [KeptAll(Elements(a)) EXCEPT ![o] = 0]
    /\ Change(o, Elements(a))
    /\ stack' = o
    /\ UNCHANGED <<shape, cursor, calls>>

ArrayClear(a) ==
    /\ ArrayMethod(a) /\ stack = NoObject
    /\ calls' = <<Calls("clear", a, NoLink, NoLink, NoObject)>>
    /\ UNCHANGED <<counts, shape, cursor, stack>>

Get(a, n) ==
    /\ ArrayMethod(a) /\ stack = NoObject /\ n \in Used(a)
    /\ stack' = refers[<<a, n>>]
    /\ UNCHANGED <<counts, shape, cursor, calls>>

\* The cell's old object is released after the new one is kept.
Replace(cell) ==
    /\ refers' = [refers EXCEPT ![cell] = stack]
    /\ IF refers[cell] = stack
       THEN UNCHANGED <<refCount, calls>>
       ELSE /\ refCount' = Released(Kept(refCount, stack), refers[cell])
            /\ calls' = AndDelete(refers[cell], << >>)
    /\ stack' = NoObject

Set(a, n) ==
    /\ ArrayMethod(a) /\ n \in Used(a)
    /\ Replace(<<a, n>>)
    /\ UNCHANGED <<kind, shape, cursor>>

Swap(a, m, n) ==
    /\ ArrayMethod(a) /\ {m, n} \subseteq Used(a)
    /\ refers' = [refers EXCEPT ![<<a, m>>] = refers[<<a, n>>], ![<<a, n>>] = refers[<<a, m>>]]
    /\ UNCHANGED <<kind, refCount, shape, cursor, stack, calls>>

\* resize, and load without objects: with objects its loop does not end.
Resize(a, size) ==
    /\ ArrayMethod(a) /\ stack = NoObject /\ size \in 0 .. program.cells
    /\ IF size >= Size(a)
       THEN /\ Change(a, [n \in 1 .. size |-> IF n <= Size(a) THEN Elements(a)[n] ELSE NoObject])
            /\ UNCHANGED calls
       ELSE /\ calls' = <<[Calls("resize", a, NoLink, NoLink, NoObject)
                             EXCEPT !.cell = size + 1, !.number = size]>>
            /\ UNCHANGED refers
    /\ UNCHANGED <<kind, refCount, shape, cursor, stack>>

InsertElement(a, n) ==
    /\ n \in 1 .. Size(a) + 1 /\ Size(a) < program.cells
    /\ Change(a, S!InsertAt(Elements(a), n, stack))
    /\ refCount' = Kept(refCount, stack)
    /\ stack' = NoObject
    /\ UNCHANGED <<kind, shape, cursor, calls>>

Insert(a, n) == ArrayMethod(a) /\ InsertElement(a, n)
Push(a) == ArrayMethod(a) /\ InsertElement(a, Size(a) + 1)

\* The n-th element goes onto the stack and s is left of the array.
Unreferred(a, n, s) ==
    LET o == refers[<<a, n>>]
    IN  /\ Change(a, s)
        /\ refCount' = IF o # NoObject /\ refCount[o] = 0 THEN refCount ELSE Released(refCount, o)
        /\ stack' = o
        /\ UNCHANGED <<kind, shape, calls>>

RemoveElement(a, n) ==
    /\ ArrayMethod(a) /\ stack = NoObject /\ n \in Used(a)
    /\ Unreferred(a, n, S!RemoveAt(Elements(a), n))
    /\ UNCHANGED cursor

Pop(a) == RemoveElement(a, Size(a))

Unref(a, n) ==
    /\ ArrayMethod(a) /\ stack = NoObject /\ n \in Used(a)
    /\ Unreferred(a, n, [Elements(a) EXCEPT ![n] = NoObject])
    /\ UNCHANGED cursor

ReverseElements(a) ==
    /\ ArrayMethod(a)
    /\ Change(a, S!Reverse(Elements(a)))
    /\ UNCHANGED <<kind, refCount, shape, cursor, stack, calls>>

\* ks are the links of the new list.
ToList(a, o, ks) ==
    LET size == Size(a)
        At(n) == IF n \in 1 .. size THEN ks[n] ELSE NoLink
        Nth(k) == CHOOSE n \in 1 .. size : ks[n] = k
        made == {ks[n] : n \in 1 .. size}
    IN  /\ ArrayMethod(a) /\ stack = NoObject /\ o \in FreeObjects
        /\ kind' = [kind EXCEPT ![o] = "list"]
        /\ refCount' = [KeptAll(Elements(a)) EXCEPT ![o] = 0]
        /\ links' = links \cup made
        /\ refers' = [h \in Holders |-> IF h \in made THEN Elements(a)[Nth(h)] ELSE refers[h]]
        /\ next' = [k \in Links |-> IF k \in made THEN At(Nth(k) + 1) ELSE next[k]]
        /\ prev' = [k \in Links |-> IF k \in made THEN At(Nth(k) - 1) ELSE prev[k]]
        /\ head' = [head EXCEPT ![o] = At(1)] /\ tail' = [tail EXCEPT ![o] = At(size)]
        /\ order' = [order EXCEPT ![o] = ks]
        /\ stack' = o
        /\ UNCHANGED <<cursor, calls, clones>>

-----------------------------------------------------------------------------
(* Methods of ArrayIter *)

ArrayIterMethod(i) == Idle /\ i \in ArrayIters
Here(i) == <<refers[i], cursor[i]>>
AtElement(i) == cursor[i] \in Used(refers[i])

MoveTo(i, n) ==
    /\ ArrayIterMethod(i) /\ stack = NoObject
    /\ cursor' = [cursor EXCEPT ![i] = n]
    /\ UNCHANGED <<counts, shape, stack, calls>>

ArraySeekNext(i) == ArrayIterMethod(i) /\ AtElement(i) /\ MoveTo(i, cursor[i] + 1)
ArraySeekPrev(i) == ArrayIterMethod(i) /\ cursor[i] > 1 /\ MoveTo(i, cursor[i] - 1)
ArraySeekHead(i) == MoveTo(i, 1)
ArraySeekTail(i) == ArrayIterMethod(i) /\ MoveTo(i, Size(refers[i]) + 1)
SeekTo(i, n) == ArrayIterMethod(i) /\ n <= Size(refers[i]) + 1 /\ MoveTo(i, n)

ArrayCurrent(i) ==
    /\ ArrayIterMethod(i) /\ stack = NoObject /\ AtElement(i)
    /\ stack' = refers[Here(i)]
    /\ UNCHANGED <<counts, shape, cursor, calls>>

ArrayNext(i) ==
    /\ ArrayIterMethod(i) /\ stack = NoObject /\ AtElement(i)
    /\ stack' = refers[Here(i)]
    /\ cursor' = [cursor EXCEPT ![i] = @ + 1]
    /\ UNCHANGED <<counts, shape, calls>>

\* An iterator that was left behind the end by others does not go back: prev
\* does not look at the size.
ArrayPrev(i) ==
    /\ ArrayIterMethod(i) /\ stack = NoObject /\ cursor[i] - 1 \in Used(refers[i])
    /\ stack' = refers[<<refers[i], cursor[i] - 1>>]
    /\ cursor' = [cursor EXCEPT ![i] = @ - 1]
    /\ UNCHANGED <<counts, shape, calls>>

ArrayIterRemove(i) ==
    LET a == refers[i]
    IN  /\ ArrayIterMethod(i) /\ stack = NoObject /\ AtElement(i)
        /\ Change(a, S!RemoveAt(Elements(a), cursor[i]))
        /\ refCount' = Released(refCount, refers[Here(i)])
        /\ calls' = AndDelete(refers[Here(i)], << >>)
        /\ UNCHANGED <<kind, shape, cursor, stack>>

\* Behind the end null goes onto the stack.
ArrayIterUnref(i) ==
    /\ ArrayIterMethod(i) /\ stack = NoObject /\ AtElement(i)
    /\ Unreferred(refers[i], cursor[i], [Elements(refers[i]) EXCEPT ![cursor[i]] = NoObject])
    /\ UNCHANGED cursor

ArrayIterClone(i, o) ==
    /\ ArrayIterMethod(i) /\ stack = NoObject
    /\ MakeIter("arrayIter", o, refers[i], cursor[i])
    /\ UNCHANGED <<shape, calls>>

\* The search starts at the cursor itself.
ArrayFindNext(i) ==
    /\ ArrayIterMethod(i) /\ Sought
    /\ cursor' = IF FirstOf(refers[i], cursor[i]) = {} THEN cursor
                 ELSE [cursor EXCEPT ![i] = CHOOSE n \in FirstOf(refers[i], cursor[i]) : TRUE]
    /\ stack' = NoObject
    /\ UNCHANGED <<counts, shape, calls>>

ArrayIterInsert(i) == ArrayIterMethod(i) /\ InsertElement(refers[i], cursor[i])

-----------------------------------------------------------------------------

OnArray(a) ==
    \/ \E o \in Objects : \/ ArrayHeadIter(a, o) \/ ArrayTailIter(a, o) \/ ArrayFind(a, o)
                          \/ ArrayClone(a, o)
    \/ ArrayClear(a) \/ Push(a) \/ Pop(a) \/ ReverseElements(a)
    \/ \E n \in 0 .. MaxElements : \/ Get(a, n) \/ Set(a, n) \/ Insert(a, n) \/ RemoveElement(a, n)
                                   \/ Unref(a, n) \/ Resize(a, n)
                                   \/ \E m \in 1 .. n - 1 : Swap(a, m, n)

OnArrayIter(i) ==
    \/ ArraySeekNext(i) \/ ArraySeekPrev(i) \/ ArraySeekHead(i) \/ ArraySeekTail(i)
    \/ ArrayCurrent(i) \/ ArrayNext(i) \/ ArrayPrev(i)
    \/ ArrayIterRemove(i) \/ ArrayIterUnref(i) \/ ArrayFindNext(i) \/ ArrayIterInsert(i)
    \/ \E n \in 1 .. MaxElements + 1 : SeekTo(i, n)
    \/ \E o \in Objects : ArrayIterClone(i, o)

CellsGo == ReleaseCell \/ FreeCells \/ EndResize

NewLinks(size) == {ks \in [1 .. size -> FreeLinks] : \A i, j \in 1 .. size : ks[i] = ks[j] => i = j}

ArraysNext ==
    \/ \E a \in Arrays : OnArray(a)
    \/ \E i \in ArrayIters : OnArrayIter(i)
    \/ CellsGo
=============================================================================
