-------------------------------- MODULE Lists --------------------------------
(***************************************************************************)
(* Lists, their iterators and reference counts: OList.cpp, the reference   *)
(* counting of Object.h and the operations on object variables.            *)
(*                                                                         *)
(* A step is what a method does between two releases: a release may delete *)
(* an object, whose delete method releases others, and `calls' is the      *)
(* stack of the loops that wait for a deletion below them.  A holder is    *)
(* whatever counts as a reference: an object variable, a link of a list    *)
(* (its element), a cell of an array or map (Arrays.tla, IntMaps.tla), or  *)
(* an iterator (its parent).  The cells of the data stack do not count: an *)
(* object may be deleted while it lies there.                              *)
(***************************************************************************)
EXTENDS Integers, Sequences, FiniteSets

CONSTANTS
    Objects,    \* where objects can be allocated
    Links,      \* where the links of lists can be allocated
    Vars,       \* the object variables of the program
    MaxElements,\* bound: cells of an array or map
    Programs,   \* bounds: what a program makes, how many objects, links and
                \* cells it uses, whether it loads null into a map, and whether
                \* it leaves an object on the stack under its methods
    NoObject, NoLink,
    Beyond      \* what a cell that is not in use holds

ASSUME ListsAssumption ==
    /\ NoObject \notin Objects /\ NoLink \notin Links
    /\ Beyond \notin Objects \cup {NoObject} /\ MaxElements \in Nat
    /\ Programs \subseteq [makes : SUBSET {"item", "list", "array", "intMap"},
                            objects : 0 .. Cardinality(Objects), links : 0 .. Cardinality(Links),
                            cells : 0 .. MaxElements, nulls : BOOLEAN,
                            leaves : BOOLEAN]
    /\ Vars \cap Links = {} /\ Vars \cap Objects = {} /\ Links \cap Objects = {}
    /\ (Vars \cup Links \cup Objects) \cap (Objects \X (1 .. MaxElements)) = {}
    /\ IsFiniteSet(Vars) /\ IsFiniteSet(Links) /\ IsFiniteSet(Objects)

Cells == Objects \X (1 .. MaxElements)
Holders == Vars \cup Links \cup Objects \cup Cells

VARIABLES
    program,    \* the one that runs
    kind,       \* what is allocated at an object's address; "lost": never freed
    refCount,
    refers,     \* what a holder refers to; NoObject again when it is given up
    head, tail, \* of a list
    links,      \* the links that are allocated
    next, prev, \* of a link
    cursor,     \* of an iterator: a link, or a position in an array or map
    stack,      \* what the next method takes from the stack, or the last one
                \* left on it; NoObject when a method finds and leaves nothing
    below,      \* an object that lies on the stack under all of that
    calls,      \* the loops under way, the innermost first
    order,      \* history: the links a list should have, in order
    clones      \* history: lists made by clone, which have no tail

counts   == <<kind, refCount, refers>>
shape    == <<head, tail, links, next, prev, order, clones>>
listVars == <<kind, refCount, refers, head, tail, links, next, prev, cursor,
              stack, calls, order, clones>>

Object == Objects \cup {NoObject}
Link   == Links \cup {NoLink}

\* What a program can still allocate.
FreeObjects ==
    IF Cardinality({o \in Objects : kind[o] # "free"}) < program.objects
    THEN {o \in Objects : kind[o] = "free"} ELSE {}
FreeLinks == IF Cardinality(links) < program.links THEN Links \ links ELSE {}

Containers == {"list", "array", "intMap"}
Iterators  == {"iter", "arrayIter", "intMapIter"}

\* A loop: the object it works for, the link it looks at next, a link that it
\* has at hand, and an object; over cells, the first one that it has not passed
\* and a number.
Loop == [does : {"delete", "drop", "clear", "resize", "load", "remove", "seek remove",
                 "seek", "seek next", "clone"},
         for : Objects, cur : Link, link : Link, arg : Object,
         cell : Nat, number : Nat]

ListsTypeOK ==
    /\ program \in Programs
    /\ kind \in [Objects -> {"free", "item", "lost"} \cup Containers \cup Iterators]
    /\ refCount \in [Objects -> Int]
    /\ refers \in [Holders -> Object \cup {Beyond}]
    /\ \A h \in Holders \ Cells : refers[h] # Beyond
    /\ head \in [Objects -> Link] /\ tail \in [Objects -> Link]
    /\ links \in SUBSET Links
    /\ next \in [Links -> Link] /\ prev \in [Links -> Link]
    /\ cursor \in [Objects -> Link \cup Nat]
    /\ stack \in Object /\ below \in Object
    /\ calls \in Seq(Loop)
    /\ order \in [Objects -> Seq(Links)]
    /\ clones \in SUBSET Objects

ListsInit ==
    /\ program \in Programs
    /\ kind = [o \in Objects |-> "free"]
    /\ refCount = [o \in Objects |-> 0]
    /\ refers = [h \in Holders |-> IF h \in Cells THEN Beyond ELSE NoObject]
    /\ head = [o \in Objects |-> NoLink] /\ tail = [o \in Objects |-> NoLink]
    /\ links = {}
    /\ next = [k \in Links |-> NoLink] /\ prev = [k \in Links |-> NoLink]
    /\ cursor = [o \in Objects |-> NoLink]
    /\ stack = NoObject /\ below = NoObject
    /\ calls = << >>
    /\ order = [o \in Objects |-> << >>]
    /\ clones = {}

-----------------------------------------------------------------------------
(* Keeping and releasing *)

Calls(does, o, cur, link, arg) ==
    [does |-> does, for |-> o, cur |-> cur, link |-> link, arg |-> arg,
     cell |-> 1, number |-> 0]

\* The loop of o's delete method.
Deletion(does, o) ==
    Calls(does, o, IF kind[o] = "list" THEN head[o] ELSE NoLink, NoLink, NoObject)

\* SAFE_KEEP and SAFE_RELEASE as changes of the counts.
Kept(counted, o) == IF o = NoObject THEN counted ELSE [counted EXCEPT ![o] = @ + 1]
Released(counted, o) == IF o = NoObject THEN counted ELSE [counted EXCEPT ![o] = @ - 1]

\* Mutation: the count is tested before it is decremented.
AndDeleteLate(o, rest) ==
    IF o # NoObject /\ refCount[o] = 0 THEN <<Deletion("delete", o)>> \o rest ELSE rest

\* What has to be done before `rest' when a reference to o is released.
AndDelete(o, rest) ==
    IF o # NoObject /\ refCount[o] = 1 THEN <<Deletion("delete", o)>> \o rest ELSE rest

Release(h, rest) ==
    /\ refers' = [refers EXCEPT ![h] = NoObject]
    /\ refCount' = Released(refCount, refers[h])
    /\ calls' = AndDelete(refers[h], rest)

-----------------------------------------------------------------------------
(* Object variables and the stack *)

Idle == calls = << >>

\* The program uses lists and iterators that its variables hold.
Lists == {o \in Objects : kind[o] = "list" /\ \E v \in Vars : refers[v] = o}
Iters == {o \in Objects : kind[o] = "iter" /\ \E v \in Vars : refers[v] = o}

\* objectNew and oListNew.
New(o, what) ==
    /\ Idle /\ stack = NoObject
    /\ o \in FreeObjects /\ what \in {"item", "list"} \cap program.makes
    /\ kind' = [kind EXCEPT ![o] = what]
    /\ refCount' = [refCount EXCEPT ![o] = 0]
    /\ head' = [head EXCEPT ![o] = NoLink] /\ tail' = [tail EXCEPT ![o] = NoLink]
    /\ stack' = o
    /\ UNCHANGED <<refers, links, next, prev, cursor, calls, order, clones>>

Fetch(v) ==
    /\ Idle /\ stack = NoObject
    /\ stack' = refers[v]
    /\ UNCHANGED <<counts, shape, cursor, calls>>

\* The new object is kept before the old one is released.
Store(v) ==
    /\ Idle
    /\ refers' = [refers EXCEPT ![v] = stack]
    /\ IF refers[v] = stack
       THEN UNCHANGED <<refCount, calls>>
       ELSE /\ refCount' = Released(Kept(refCount, stack), refers[v])
            /\ calls' = AndDelete(refers[v], << >>)
    /\ stack' = NoObject
    /\ UNCHANGED <<kind, shape, cursor>>

\* oclear
ClearVar(v) ==
    /\ Idle /\ stack = NoObject
    /\ Release(v, << >>)
    /\ UNCHANGED <<kind, shape, cursor, stack>>

\* odrop: an object without references is deleted by its delete method alone,
\* which does not free the object itself.
Drop ==
    /\ Idle /\ stack # NoObject
    /\ stack' = NoObject
    /\ calls' = IF refCount[stack] = 0 THEN <<Deletion("drop", stack)>> ELSE << >>
    /\ UNCHANGED <<counts, shape, cursor>>

Live(o) == kind[o] \notin {"free", "lost"}

\* The object on the stack is left there while methods go on above it, which
\* may release the last reference to it.
Leave ==
    /\ program.leaves /\ Idle /\ stack # NoObject /\ below = NoObject
    /\ below' = stack /\ stack' = NoObject
    /\ UNCHANGED <<counts, shape, cursor, calls>>

\* What a program owes to its stack: it goes on with an object it left there
\* only if that was not deleted, since the cell does not tell; by then another
\* one may be at its address.
TakeUp ==
    /\ Idle /\ stack = NoObject /\ below # NoObject /\ Live(below)
    /\ stack' = below /\ below' = NoObject
    /\ UNCHANGED <<counts, shape, cursor, calls>>

\* A deleted one is dropped as a mere number.
DropGone ==
    /\ Idle /\ below # NoObject /\ ~Live(below)
    /\ below' = NoObject
    /\ UNCHANGED <<counts, shape, cursor, calls, stack>>

-----------------------------------------------------------------------------
(* The loops *)

Top == Head(calls)
Rest == Tail(calls)

\* delete and clear: the element of the link at hand is released ...
ReleaseElement ==
    /\ ~Idle /\ Top.does \in {"delete", "drop", "clear", "load"} /\ kind[Top.for] = "list"
    /\ Top.link = NoLink /\ Top.cur # NoLink
    /\ Release(Top.cur, <<[Top EXCEPT !.link = Top.cur, !.cur = next[Top.cur]]>> \o Rest)
    /\ order' = [order EXCEPT ![Top.for] = Tail(@)]
    /\ UNCHANGED <<kind, head, tail, links, next, prev, cursor, stack, clones>>

\* What was in freed memory is not looked at again: the model forgets it.
Forget(field, x) == [field EXCEPT ![x] = NoLink]

\* ... and when that is done the link is freed.
FreeLink ==
    /\ ~Idle /\ Top.does \in {"delete", "drop", "clear", "load", "remove"}
    /\ Top.link # NoLink
    /\ links' = links \ {Top.link}
    /\ next' = Forget(next, Top.link) /\ prev' = Forget(prev, Top.link)
    /\ calls' = <<[Top EXCEPT !.link = NoLink]>> \o Rest
    /\ UNCHANGED <<counts, head, tail, cursor, stack, order, clones>>

\* The delete method of an iterator.
ReleaseParent ==
    /\ ~Idle /\ Top.does \in {"delete", "drop"} /\ kind[Top.for] \in Iterators
    /\ refers[Top.for] # NoObject
    /\ Release(Top.for, calls)
    /\ UNCHANGED <<kind, shape, cursor, stack>>

\* The walk over a list has come to its end, or there is nothing to walk.
AtEnd == Top.link = NoLink /\ Top.cur = NoLink

\* DeleteObject frees the object, odrop does not.
FreeObject ==
    /\ ~Idle /\ Top.does \in {"delete", "drop"} /\ AtEnd
    /\ kind[Top.for] \in {"item", "list"} \cup Iterators
    /\ kind[Top.for] \in Iterators => refers[Top.for] = NoObject
    /\ kind' = [kind EXCEPT ![Top.for] = IF Top.does = "delete" THEN "free" ELSE "lost"]
    /\ head' = Forget(head, Top.for) /\ tail' = Forget(tail, Top.for)
    /\ cursor' = Forget(cursor, Top.for)
    /\ clones' = clones \ {Top.for}
    /\ calls' = Rest
    /\ UNCHANGED <<refCount, refers, links, next, prev, stack, order>>

\* clear ends with an empty list.
EndClear ==
    /\ ~Idle /\ Top.does = "clear" /\ kind[Top.for] = "list" /\ AtEnd
    /\ head' = [head EXCEPT ![Top.for] = NoLink]
    /\ tail' = [tail EXCEPT ![Top.for] = NoLink]
    /\ clones' = clones \ {Top.for}
    /\ calls' = Rest
    /\ UNCHANGED <<counts, links, next, prev, cursor, stack, order>>

\* load goes on to append what the program pushed; one object here.
EndLoad(k) ==
    /\ ~Idle /\ Top.does = "load" /\ kind[Top.for] = "list" /\ AtEnd /\ k \in FreeLinks
    /\ links' = links \cup {k}
    /\ refers' = [refers EXCEPT ![k] = Top.arg]
    /\ refCount' = Kept(refCount, Top.arg)
    /\ next' = [next EXCEPT ![k] = NoLink] /\ prev' = [prev EXCEPT ![k] = NoLink]
    /\ head' = [head EXCEPT ![Top.for] = k] /\ tail' = [tail EXCEPT ![Top.for] = k]
    /\ order' = [order EXCEPT ![Top.for] = <<k>>]
    /\ clones' = clones \ {Top.for}
    /\ calls' = Rest
    /\ UNCHANGED <<kind, cursor, stack>>

EndRemove ==
    /\ ~Idle /\ Top.does = "remove" /\ AtEnd
    /\ calls' = Rest
    /\ UNCHANGED <<counts, shape, cursor, stack>>

-----------------------------------------------------------------------------
(* Methods of List *)

ItersOf(l) == {i \in Objects : kind[i] = "iter" /\ refers[i] = l}

\* What a program owes to its iterators: it removes no link that another
\* iterator points to, since nothing tells that iterator.
Unseen(k, except) ==
    \A i \in Objects \ except : kind[i] = "iter" /\ refers[i] # NoObject => cursor[i] # k
NoneSeen(l, except) == \A i \in ItersOf(l) \ except : cursor[i] = NoLink

Method(l) == Idle /\ l \in Lists

\* Mutation: an iterator does not count as a reference to its list.
MakeIterUncounted(what, i, l, k) ==
    /\ i \in FreeObjects
    /\ kind' = [kind EXCEPT ![i] = what]
    /\ refers' = [refers EXCEPT ![i] = l]
    /\ refCount' = [refCount EXCEPT ![i] = 0]
    /\ cursor' = [cursor EXCEPT ![i] = k]
    /\ stack' = i

\* A new iterator of l, whose count of references it raises.
MakeIter(what, i, l, k) ==
    /\ i \in FreeObjects
    /\ kind' = [kind EXCEPT ![i] = what]
    /\ refers' = [refers EXCEPT ![i] = l]
    /\ refCount' = [Kept(refCount, l) EXCEPT ![i] = 0]
    /\ cursor' = [cursor EXCEPT ![i] = k]
    /\ stack' = i

HeadIter(l, i) ==
    /\ Method(l) /\ stack = NoObject
    /\ MakeIter("iter", i, l, head[l])
    /\ UNCHANGED <<shape, calls>>

TailIter(l, i) ==
    /\ Method(l) /\ stack = NoObject
    /\ MakeIter("iter", i, l, NoLink)
    /\ UNCHANGED <<shape, calls>>

Element(k) == IF k = NoLink THEN NoObject ELSE refers[k]

HeadOf(l) ==
    /\ Method(l) /\ stack = NoObject
    /\ stack' = Element(head[l])
    /\ UNCHANGED <<counts, shape, cursor, calls>>

TailOf(l) ==
    /\ Method(l) /\ stack = NoObject
    /\ stack' = Element(tail[l])
    /\ UNCHANGED <<counts, shape, cursor, calls>>

\* The object on the stack, or null, becomes the element of a new link.
NewLink(k) ==
    /\ k \in FreeLinks
    /\ links' = links \cup {k}
    /\ refers' = [refers EXCEPT ![k] = stack]
    /\ refCount' = Kept(refCount, stack)
    /\ stack' = NoObject

AddHead(l, k) ==
    /\ Method(l) /\ NewLink(k)
    /\ IF head[l] = NoLink
       THEN /\ tail' = [tail EXCEPT ![l] = k]
            /\ prev' = [prev EXCEPT ![k] = NoLink]
       ELSE /\ prev' = [prev EXCEPT ![k] = NoLink, ![head[l]] = k]
            /\ UNCHANGED tail
    /\ next' = [next EXCEPT ![k] = head[l]]
    /\ head' = [head EXCEPT ![l] = k]
    /\ order' = [order EXCEPT ![l] = <<k>> \o @]
    /\ UNCHANGED <<kind, cursor, calls, clones>>

\* Nothing is appended to a clone: it has no tail, and its links would be lost.
AddTail(l, k) ==
    /\ Method(l) /\ l \notin clones /\ NewLink(k)
    /\ IF tail[l] = NoLink
       THEN /\ head' = [head EXCEPT ![l] = k]
            /\ next' = [next EXCEPT ![k] = NoLink]
       ELSE /\ next' = [next EXCEPT ![k] = NoLink, ![tail[l]] = k]
            /\ UNCHANGED head
    /\ prev' = [prev EXCEPT ![k] = tail[l]]
    /\ tail' = [tail EXCEPT ![l] = k]
    /\ order' = [order EXCEPT ![l] = Append(@, k)]
    /\ UNCHANGED <<kind, cursor, calls, clones>>

\* The sequence without its j-th element.
Without(s, j) == [i \in 1 .. Len(s) - 1 |-> IF i < j THEN s[i] ELSE s[i + 1]]
Taken(l, k) == [order EXCEPT ![l] = Without(@, CHOOSE j \in DOMAIN @ : @[j] = k)]

UnlinkHead(l) ==
    /\ IF tail[l] = head[l]
       THEN /\ head' = [head EXCEPT ![l] = NoLink]
            /\ tail' = [tail EXCEPT ![l] = NoLink]
            /\ UNCHANGED prev
       ELSE /\ prev' = [prev EXCEPT ![next[head[l]]] = NoLink]
            /\ head' = [head EXCEPT ![l] = next[head[l]]]
            /\ UNCHANGED tail
    /\ order' = [order EXCEPT ![l] = Tail(@)]
    /\ UNCHANGED <<next, clones>>

UnlinkTail(l) ==
    /\ IF head[l] = tail[l]
       THEN /\ head' = [head EXCEPT ![l] = NoLink]
            /\ tail' = [tail EXCEPT ![l] = NoLink]
            /\ UNCHANGED next
       ELSE /\ next' = [next EXCEPT ![prev[tail[l]]] = NoLink]
            /\ tail' = [tail EXCEPT ![l] = prev[tail[l]]]
            /\ UNCHANGED head
    /\ order' = [order EXCEPT ![l] = Without(@, Len(@))]
    /\ UNCHANGED <<prev, clones>>

\* Mutation: the tail is not moved when its link is removed.
UnlinkKeepsTail(l, k) ==
    /\ head' = IF k = head[l] THEN [head EXCEPT ![l] = next[k]] ELSE head
    /\ prev' = IF next[k] # NoLink THEN [prev EXCEPT ![next[k]] = prev[k]] ELSE prev
    /\ next' = IF prev[k] # NoLink THEN [next EXCEPT ![prev[k]] = next[k]] ELSE next
    /\ order' = Taken(l, k)
    /\ UNCHANGED <<tail, clones>>

\* remove and unref in the middle of a list.
Unlink(l, k) ==
    /\ head' = IF k = head[l] THEN [head EXCEPT ![l] = next[k]] ELSE head
    /\ tail' = IF k = tail[l] THEN [tail EXCEPT ![l] = prev[k]] ELSE tail
    /\ prev' = IF next[k] # NoLink THEN [prev EXCEPT ![next[k]] = prev[k]] ELSE prev
    /\ next' = IF prev[k] # NoLink THEN [next EXCEPT ![prev[k]] = next[k]] ELSE next
    /\ order' = Taken(l, k)
    /\ clones' = IF next[k] = NoLink /\ prev[k] = NoLink THEN clones \ {l} ELSE clones

\* The element of an unlinked link is released, and then the link is freed.
ReleaseAndFree(l, k) ==
    /\ Release(k, <<Calls("remove", l, NoLink, k, NoObject)>>)
    /\ UNCHANGED <<kind, links, stack>>

\* The element of an unlinked link is left on the stack.
UnrefAndFree(l, k) ==
    /\ stack' = refers[k]
    /\ refCount' = IF refers[k] # NoObject /\ refCount[refers[k]] = 0
                   THEN refCount ELSE Released(refCount, refers[k])
    /\ refers' = [refers EXCEPT ![k] = NoObject]
    /\ calls' = <<Calls("remove", l, NoLink, k, NoObject)>>
    /\ UNCHANGED <<kind, links>>

\* The last link of a clone is not taken off its head: it is not its tail.
HasHead(l) ==
    /\ Method(l) /\ stack = NoObject
    /\ head[l] # NoLink /\ Unseen(head[l], {})
    /\ l \in clones => next[head[l]] # NoLink

HasTail(l) ==
    /\ Method(l) /\ stack = NoObject
    /\ tail[l] # NoLink /\ Unseen(tail[l], {})

RemoveHead(l) ==
    HasHead(l) /\ UnlinkHead(l) /\ ReleaseAndFree(l, head[l]) /\ UNCHANGED cursor

RemoveTail(l) ==
    HasTail(l) /\ UnlinkTail(l) /\ ReleaseAndFree(l, tail[l]) /\ UNCHANGED cursor

UnrefHead(l) ==
    HasHead(l) /\ UnlinkHead(l) /\ UnrefAndFree(l, head[l]) /\ UNCHANGED cursor

UnrefTail(l) ==
    HasTail(l) /\ UnlinkTail(l) /\ UnrefAndFree(l, tail[l]) /\ UNCHANGED cursor

Clear(l) ==
    /\ Method(l) /\ stack = NoObject /\ NoneSeen(l, {})
    /\ calls' = <<Calls("clear", l, head[l], NoLink, NoObject)>>
    /\ UNCHANGED <<counts, shape, cursor, stack>>

\* load releases the old elements before it keeps the new ones: what is loaded
\* must survive that.
Survives == stack # NoObject => refCount[stack] = 0 \/ \E v \in Vars : refers[v] = stack

Load(l) ==
    /\ Method(l) /\ NoneSeen(l, {}) /\ Survives
    /\ FreeLinks # {} \/ order[l] # << >>
    /\ calls' = <<Calls("load", l, head[l], NoLink, stack)>>
    /\ stack' = NoObject
    /\ UNCHANGED <<counts, shape, cursor>>

\* remove and find look for an object, or for null; so does findNext of an
\* iterator, which starts behind its cursor.  They take the object off the
\* stack, so a program does not look for one without references.
Sought == stack # NoObject => refCount[stack] # 0

Remove(l) ==
    /\ Method(l) /\ Sought
    /\ \A i \in ItersOf(l) : cursor[i] # NoLink => refers[cursor[i]] # stack
    /\ calls' = <<Calls("seek remove", l, head[l], NoLink, stack)>>
    /\ stack' = NoObject
    /\ UNCHANGED <<counts, shape, cursor>>

Find(l) ==
    /\ Method(l) /\ Sought /\ FreeObjects # {}
    /\ calls' = <<Calls("seek", l, head[l], NoLink, stack)>>
    /\ stack' = NoObject
    /\ UNCHANGED <<counts, shape, cursor>>

Seeks == ~Idle /\ Top.does \in {"seek remove", "seek", "seek next"}
Found == Seeks /\ Top.cur # NoLink /\ refers[Top.cur] = Top.arg

SeekOn ==
    /\ Seeks /\ ~Found
    /\ calls' = IF Top.cur = NoLink THEN Rest ELSE <<[Top EXCEPT !.cur = next[@]]>> \o Rest
    /\ UNCHANGED <<counts, shape, cursor, stack>>

FoundToRemove ==
    /\ Found /\ Top.does = "seek remove"
    /\ Unlink(Top.for, Top.cur) /\ ReleaseAndFree(Top.for, Top.cur)
    /\ UNCHANGED cursor

FoundIter(i) ==
    /\ Found /\ Top.does = "seek"
    /\ MakeIter("iter", i, Top.for, Top.cur)
    /\ calls' = Rest
    /\ UNCHANGED shape

FoundNext ==
    /\ Found /\ Top.does = "seek next"
    /\ cursor' = [cursor EXCEPT ![Top.for] = Top.cur]
    /\ calls' = Rest
    /\ UNCHANGED <<counts, shape, stack>>

\* clone makes an empty list and appends a link for every link of the old one.
Clone(l, o) ==
    /\ Method(l) /\ stack = NoObject
    /\ o \in FreeObjects /\ Cardinality(links) + Len(order[l]) <= program.links
    /\ kind' = [kind EXCEPT ![o] = "list"]
    /\ refCount' = [refCount EXCEPT ![o] = 0]
    /\ head' = [head EXCEPT ![o] = NoLink] /\ tail' = [tail EXCEPT ![o] = NoLink]
    /\ calls' = <<Calls("clone", o, head[l], NoLink, NoObject)>>
    /\ UNCHANGED <<refers, links, next, prev, cursor, stack, order, clones>>

\* Loop.link is the link appended last.
CloneLink(k) ==
    /\ ~Idle /\ Top.does = "clone" /\ Top.cur # NoLink /\ k \in FreeLinks
    /\ links' = links \cup {k}
    /\ refers' = [refers EXCEPT ![k] = refers[Top.cur]]
    /\ refCount' = Kept(refCount, refers[Top.cur])
    /\ IF Top.link = NoLink
       THEN head' = [head EXCEPT ![Top.for] = k] /\ UNCHANGED next
       ELSE next' = [next EXCEPT ![Top.link] = k] /\ UNCHANGED head
    /\ prev' = [prev EXCEPT ![k] = Top.link]
    /\ order' = [order EXCEPT ![Top.for] = Append(@, k)]
    /\ calls' = <<[Top EXCEPT !.link = k, !.cur = next[Top.cur]]>> \o Rest
    /\ UNCHANGED <<kind, tail, cursor, stack, clones>>

\* The tail of the clone is left null.
EndClone ==
    /\ ~Idle /\ Top.does = "clone" /\ Top.cur = NoLink
    /\ next' = IF Top.link = NoLink THEN next ELSE [next EXCEPT ![Top.link] = NoLink]
    /\ clones' = IF Top.link = NoLink THEN clones ELSE clones \cup {Top.for}
    /\ stack' = Top.for
    /\ calls' = Rest
    /\ UNCHANGED <<counts, head, tail, links, prev, cursor, order>>

-----------------------------------------------------------------------------
(* Methods of ListIter *)

IterMethod(i) == Idle /\ stack = NoObject /\ i \in Iters

Seek(i, k) ==
    /\ cursor' = [cursor EXCEPT ![i] = k]
    /\ UNCHANGED <<counts, shape, stack, calls>>

SeekNext(i) == IterMethod(i) /\ cursor[i] # NoLink /\ Seek(i, next[cursor[i]])

Before(i) == IF cursor[i] = NoLink THEN tail[refers[i]] ELSE prev[cursor[i]]

SeekPrev(i) == IterMethod(i) /\ Seek(i, Before(i))

\* seekHead; and atHead, whose comparison is an assignment.
SeekHead(i) == IterMethod(i) /\ Seek(i, head[refers[i]])

SeekTail(i) == IterMethod(i) /\ Seek(i, NoLink)

\* current leaves the element on the stack, next and prev move as well.
Current(i) ==
    /\ IterMethod(i)
    /\ stack' = Element(cursor[i])
    /\ UNCHANGED <<counts, shape, cursor, calls>>

NextOf(i) ==
    /\ IterMethod(i) /\ cursor[i] # NoLink
    /\ stack' = refers[cursor[i]]
    /\ cursor' = [cursor EXCEPT ![i] = next[cursor[i]]]
    /\ UNCHANGED <<counts, shape, calls>>

PrevOf(i) ==
    /\ IterMethod(i)
    /\ cursor' = [cursor EXCEPT ![i] = Before(i)]
    /\ stack' = Element(Before(i))
    /\ UNCHANGED <<counts, shape, calls>>

IterAt(i) == IterMethod(i) /\ cursor[i] # NoLink /\ Unseen(cursor[i], {i})

\* Mutation: the iterator stays where it is.
IterRemoveStays(i) ==
    /\ IterAt(i) /\ Unlink(refers[i], cursor[i])
    /\ ReleaseAndFree(refers[i], cursor[i])
    /\ UNCHANGED cursor

IterRemove(i) ==
    /\ IterAt(i) /\ Unlink(refers[i], cursor[i])
    /\ ReleaseAndFree(refers[i], cursor[i])
    /\ cursor' = [cursor EXCEPT ![i] = next[cursor[i]]]

IterUnref(i) ==
    /\ IterAt(i) /\ Unlink(refers[i], cursor[i])
    /\ UnrefAndFree(refers[i], cursor[i])
    /\ cursor' = [cursor EXCEPT ![i] = next[cursor[i]]]

FindNext(i) ==
    /\ Idle /\ i \in Iters /\ Sought
    /\ calls' = <<Calls("seek next", i, IF cursor[i] = NoLink THEN NoLink ELSE next[cursor[i]],
                        NoLink, stack)>>
    /\ stack' = NoObject
    /\ UNCHANGED <<counts, shape, cursor>>

\* The elements of two links change places.
SwapElements(j, k) ==
    /\ refers' = [refers EXCEPT ![j] = refers[k], ![k] = refers[j]]
    /\ UNCHANGED <<kind, refCount, shape, cursor, stack, calls>>

SwapNext(i) ==
    /\ IterMethod(i) /\ cursor[i] # NoLink /\ next[cursor[i]] # NoLink
    /\ SwapElements(cursor[i], next[cursor[i]])

SwapPrev(i) ==
    /\ IterMethod(i) /\ cursor[i] # NoLink /\ prev[cursor[i]] # NoLink
    /\ SwapElements(cursor[i], prev[cursor[i]])

\* A list is split at its head or behind its tail: in the middle the prev of
\* the new list's head would go on pointing into the old list.
Split(i, o) ==
    LET l == refers[i]
    IN  /\ IterMethod(i) /\ o \in FreeObjects
        /\ cursor[i] \in {NoLink, head[l]}
        /\ cursor[i] # NoLink => NoneSeen(l, {i})
        /\ kind' = [kind EXCEPT ![o] = "list"]
        /\ refCount' = [refCount EXCEPT ![o] = 0]
        /\ IF cursor[i] = NoLink
           THEN /\ head' = [head EXCEPT ![o] = NoLink] /\ tail' = [tail EXCEPT ![o] = NoLink]
                /\ UNCHANGED <<order, clones>>
           ELSE /\ head' = [head EXCEPT ![o] = head[l], ![l] = NoLink]
                /\ tail' = [tail EXCEPT ![o] = tail[l], ![l] = NoLink]
                /\ order' = [order EXCEPT ![o] = order[l], ![l] = << >>]
                /\ clones' = IF l \in clones THEN (clones \ {l}) \cup {o} ELSE clones
        /\ cursor' = [cursor EXCEPT ![i] = NoLink]
        /\ stack' = o
        /\ UNCHANGED <<refers, links, next, prev, calls>>

-----------------------------------------------------------------------------

OnVar(v) == Fetch(v) \/ Store(v) \/ ClearVar(v)

OnList(l) ==
    \/ \E i \in Objects : HeadIter(l, i) \/ TailIter(l, i) \/ Clone(l, i)
    \/ \E k \in Links : AddHead(l, k) \/ AddTail(l, k)
    \/ HeadOf(l) \/ TailOf(l)
    \/ RemoveHead(l) \/ RemoveTail(l) \/ UnrefHead(l) \/ UnrefTail(l)
    \/ Clear(l) \/ Load(l) \/ Remove(l) \/ Find(l)

OnIter(i) ==
    \/ SeekNext(i) \/ SeekPrev(i) \/ SeekHead(i) \/ SeekTail(i)
    \/ Current(i) \/ NextOf(i) \/ PrevOf(i)
    \/ IterRemove(i) \/ IterUnref(i) \/ FindNext(i) \/ SwapNext(i) \/ SwapPrev(i)
    \/ \E o \in Objects : Split(i, o)

Goes ==
    \/ ReleaseElement \/ FreeLink \/ ReleaseParent \/ FreeObject
    \/ EndClear \/ EndRemove \/ \E k \in Links : EndLoad(k) \/ CloneLink(k)
    \/ SeekOn \/ FoundToRemove \/ FoundNext \/ \E i \in Objects : FoundIter(i)
    \/ EndClone

OnBelow == Leave \/ TakeUp \/ DropGone

ListsNext ==
    \/ Drop \/ \E v \in Vars : OnVar(v)
    \/ \E l \in Lists : OnList(l)
    \/ \E i \in Iters : OnIter(i)
    \/ Goes

-----------------------------------------------------------------------------
(* Properties *)

HoldersOf(o) == {h \in Holders : refers[h] = o}

\* The reference count of every object is the number of its references: object
\* variables, elements of containers and parents of iterators, also half-way through
\* a cascade of deletions.  A method that keeps once too often or releases
\* twice breaks it.
CountsMatch == \A o \in Objects : refCount[o] = Cardinality(HoldersOf(o))

Dying(o) == \E j \in 1 .. Len(calls) : calls[j].does \in {"delete", "drop"} /\ calls[j].for = o
InHand(o) ==
    \/ o = stack
    \/ \E j \in 1 .. Len(calls) : calls[j].does = "load" /\ calls[j].arg = o
    \/ \E j \in 1 .. Len(calls) : calls[j].does = "clone" /\ calls[j].for = o

\* What is referred to is neither freed nor being deleted, and nor is what a
\* method takes, leaves on the stack or has in hand; and what nobody refers to
\* is in hand, left on the stack or being deleted: objects are deleted neither
\* too early nor too late.  The first half does not hold of an object that lies
\* on the stack while other methods run: the stack's cells do not count.
LiveWhileHeld ==
    \A o \in Objects :
        /\ HoldersOf(o) # {} \/ InHand(o) => Live(o) /\ ~Dying(o)
        /\ Live(o) /\ HoldersOf(o) = {} => InHand(o) \/ o = below \/ Dying(o)

\* The loop that takes the elements of list l from its head.
Walks(c, l) == c.does \in {"delete", "drop", "clear", "load"} /\ c.for = l
Walked(l) == \E j \in 1 .. Len(calls) : Walks(calls[j], l)
Cloned(l) == \E j \in 1 .. Len(calls) : calls[j].does = "clone" /\ calls[j].for = l

\* The pointers of a list form the sequence of links that its methods promise:
\* head and tail are its ends, next and prev lead from one to the other.  A
\* clone has no tail; while a list is emptied or built its ends lag behind.
WellLinked(l) ==
    LET s == order[l]
        Last == IF s = << >> THEN NoLink ELSE s[Len(s)]
    IN  /\ \A j \in 1 .. Len(s) - 1 : next[s[j]] = s[j + 1] /\ prev[s[j + 1]] = s[j]
        /\ ~Walked(l) => /\ head[l] = IF s = << >> THEN NoLink ELSE s[1]
                         /\ s # << >> => prev[s[1]] = NoLink
        /\ ~Cloned(l) => /\ s # << >> => next[s[Len(s)]] = NoLink
                         /\ ~Walked(l) => tail[l] = IF l \in clones THEN NoLink ELSE Last

\* No link is in two places, and none is lost: every allocated link is in one
\* list or about to be freed.
LinksHaveLists ==
    /\ \A l, m \in Objects : \A i \in 1 .. Len(order[l]), j \in 1 .. Len(order[m]) :
           order[l][i] = order[m][j] => l = m /\ i = j
    /\ \A k \in Links : k \in links <=> \/ \E l \in Objects : \E i \in 1 .. Len(order[l]) : order[l][i] = k
                                        \/ \E j \in 1 .. Len(calls) : calls[j].link = k

LinksFormLists == LinksHaveLists /\ \A l \in Objects : kind[l] = "list" => WellLinked(l)

\* An iterator stands at a link of its own list, or at a key of its own map, or
\* past the end.  The code keeps only the cursor of the iterator that removes in
\* order.  An iterator of an array is a position, which may be past the end.
CursorsAreOwn ==
    \A i \in Objects : refers[i] # NoObject =>
        \/ cursor[i] \in {NoLink, MaxElements + 1}
        \/ kind[i] = "iter" /\ \E j \in DOMAIN order[refers[i]] : order[refers[i]][j] = cursor[i]
        \/ kind[i] = "arrayIter" /\ cursor[i] \in 1 .. MaxElements
        \/ kind[i] = "intMapIter" /\ refers[<<refers[i], cursor[i]>>] # Beyond
=============================================================================
