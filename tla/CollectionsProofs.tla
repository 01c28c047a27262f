------------------------- MODULE CollectionsProofs -------------------------
(***************************************************************************)
(* Proofs about Collections, for any number of objects, links, variables   *)
(* and cells: what every method does to the reference counts.  The         *)
(* invariant CollectionsInv says that they are the numbers of references   *)
(* and that objects are deleted neither too early nor too late; that it    *)
(* holds is proved in CollectionLinksProofs.                               *)
(***************************************************************************)
EXTENDS Collections, FiniteSetTheorems, WellFoundedInduction, TLAPS

HasCells == {"array", "intMap"}
Kinds == {"free", "item", "lost"} \cup Containers \cup Iterators

\* What a holder may refer to.
Referred == Object \cup {Beyond}

-----------------------------------------------------------------------------
(* The inductive invariant *)

HeapTypeOK ==
    /\ program \in Programs
    /\ kind \in [Objects -> Kinds]
    /\ refCount \in [Objects -> Nat]
    /\ refers \in [Holders -> Referred]
    /\ \A h \in Holders \ Cells : refers[h] # Beyond
    /\ links \in SUBSET Links
    /\ stack \in Object /\ below \in Object
    /\ calls \in Seq(Loop)

PointersTypeOK ==
    /\ head \in [Objects -> Link] /\ tail \in [Objects -> Link]
    /\ next \in [Links -> Link] /\ prev \in [Links -> Link]
    /\ cursor \in [Objects -> Link \cup Nat]

\* Only what is allocated refers to anything, and only in its own way.
OwnersOnly ==
    /\ \A k \in Links \ links : refers[k] = NoObject
    /\ \A o \in Objects : kind[o] \notin Iterators => refers[o] = NoObject
    /\ \A o \in Objects : kind[o] \notin HasCells => Used(o) = {}

\* The elements of an array are in its first cells.
ArraysAreDense == \A a \in Objects : kind[a] = "array" => Used(a) = 1 .. Size(a)

\* The container that an iterator is for.
ParentKind(what) ==
    CASE what = "iter" -> "list"
      [] what = "arrayIter" -> "array"
      [] what = "intMapIter" -> "intMap"

\* An iterator has a parent of its kind until it is deleted.
ParentsFit ==
    \A i \in Objects : kind[i] \in Iterators =>
        IF refers[i] = NoObject THEN Dying(i)
        ELSE kind[refers[i]] = ParentKind(kind[i])

\* A cursor is what its iterator's methods take it for.
CursorsFit ==
    \A i \in Objects :
        /\ kind[i] = "iter" => cursor[i] \in Link
        /\ kind[i] = "arrayIter" => cursor[i] \in 1 .. MaxElements + 1
        /\ kind[i] = "intMapIter" /\ refers[i] # NoObject =>
               cursor[i] \in Used(refers[i]) \cup {End}

InVar(o) == \E v \in Vars : refers[v] = o

\* The loop has released what it has passed.
PassedIsReleased(c) ==
    /\ c.link # NoLink /\ c.does # "clone" => refers[c.link] = NoObject
    /\ \A n \in Used(c.for) :
           n < c.cell /\ (c.does = "resize" => n > c.number) =>
               refers[<<c.for, n>>] = NoObject

\* The loop still works on what it was started for.
SubjectFits(c) ==
    /\ c.does \in {"clear", "load"} /\ kind[c.for] = "intMap" => NoKeySeen(c.for)
    /\ c.does = "resize" =>
           kind[c.for] = "array" /\ InVar(c.for) /\ c.number <= Size(c.for)
    /\ c.does = "seek" => kind[c.for] = "list" /\ InVar(c.for)
    /\ c.does = "seek next" => kind[c.for] = "iter" /\ InVar(c.for)

\* What load is to store is not deleted with what it replaces.
ArgumentFits(c) ==
    /\ c.does = "clear" => c.number = 0
    /\ c.does = "clone" => refCount[c.for] = 0
    /\ c.does = "load" =>
           /\ c.number <= MaxElements
           /\ kind[c.for] = "intMap" /\ c.number = 0 => c.arg = NoObject
           /\ c.arg # NoObject => refCount[c.arg] = 0 \/ InVar(c.arg)

LoopFits(c) == PassedIsReleased(c) /\ SubjectFits(c) /\ ArgumentFits(c)

\* Only deletions wait above the loop of a method, and the stack is empty
\* until it ends, but for an object that was taken from its link.
LoopsFit ==
    /\ \A j \in 1 .. Len(calls) : LoopFits(calls[j])
    /\ \A j \in 1 .. Len(calls) - 1 : calls[j].does = "delete"
    /\ stack # NoObject =>
           calls = << >> \/ (Len(calls) = 1 /\ calls[1].does = "remove")

\* LiveWhileHeld in terms of the counts.
LiveByCount ==
    \A o \in Objects :
        /\ refCount[o] > 0 \/ InHand(o) => Live(o) /\ ~Dying(o)
        /\ Live(o) => refCount[o] > 0 \/ InHand(o) \/ o = below \/ Dying(o)

CollectionsInv ==
    /\ HeapTypeOK
    /\ PointersTypeOK
    /\ CountsMatch
    /\ LiveByCount
    /\ OwnersOnly
    /\ ArraysAreDense
    /\ ParentsFit
    /\ CursorsFit
    /\ LoopsFit

-----------------------------------------------------------------------------
(* Numbers of holders *)

Count(r, o) == Cardinality({h \in Holders : r[h] = o})

LEMMA HoldersFinite ==
    /\ IsFiniteSet(Holders)
    /\ \A T \in SUBSET Holders : IsFiniteSet(T)
<1> USE ListsAssumption
<1>1. IsFiniteSet(1 .. MaxElements)
  BY FS_Interval
<1>2. IsFiniteSet(Cells)
  BY <1>1, FS_Product DEF Cells
<1>3. IsFiniteSet(Vars \cup Links)
  BY FS_Union
<1>4. IsFiniteSet((Vars \cup Links) \cup Objects)
  BY <1>3, FS_Union
<1>5. IsFiniteSet(Holders)
  BY <1>2, <1>4, FS_Union DEF Holders
<1>6. QED
  BY <1>5, FS_Subset

LEMMA CountType ==
    ASSUME NEW r, NEW o
    PROVE  /\ Count(r, o) \in Nat
           /\ Count(r, o) = 0 <=> \A h \in Holders : r[h] # o
<1> DEFINE held == {h \in Holders : r[h] = o}
<1>1. IsFiniteSet(held)
  BY HoldersFinite
<1>2. Cardinality(held) \in Nat
  BY <1>1, FS_CardinalityType
<1>3. Cardinality(held) = 0 <=> held = {}
  BY <1>1, FS_EmptySet
<1>4. QED
  BY <1>2, <1>3 DEF Count

\* From r to t, one reference to x became one to y.
Turned(r, t, x, y, o) ==
    Count(t, o) = Count(r, o) - (IF x = o THEN 1 ELSE 0) + (IF y = o THEN 1 ELSE 0)

\* One holder refers to something else.
LEMMA CountOne ==
    ASSUME NEW r \in [Holders -> Referred], NEW h \in Holders, NEW x, NEW o,
           NEW t, t = [r EXCEPT ![h] = x]
    PROVE  Turned(r, t, r[h], x, o)
<1> DEFINE before == {g \in Holders : r[g] = o}
           others == before \ {h}
           after == {g \in Holders : t[g] = o}
<1>1. /\ IsFiniteSet(before) /\ IsFiniteSet(others)
      /\ Cardinality(before) \in Nat
  BY HoldersFinite, FS_CardinalityType
<1>2. Cardinality(others) = IF r[h] = o THEN Cardinality(before) - 1 ELSE Cardinality(before)
  BY <1>1, FS_RemoveElement
<1>3. after = IF x = o THEN others \cup {h} ELSE others
  OBVIOUS
<1>4. Cardinality(others \cup {h}) = Cardinality(others) + 1
  BY <1>1, FS_AddElement
<1> HIDE DEF before, others, after
<1>5. Cardinality(after) = Cardinality(before) - (IF r[h] = o THEN 1 ELSE 0)
                           + (IF x = o THEN 1 ELSE 0)
  BY <1>1, <1>2, <1>3, <1>4
<1>6. QED
  BY <1>5 DEF Turned, Count, before, after

\* Holders change places.
LEMMA CountMoved ==
    ASSUME NEW r, NEW t, NEW f \in [Holders -> Holders], NEW g \in [Holders -> Holders],
           \A h \in Holders : g[f[h]] = h /\ f[g[h]] = h,
           \A h \in Holders : t[f[h]] = r[h],
           NEW o
    PROVE  Count(t, o) = Count(r, o)
<1> DEFINE before == {h \in Holders : r[h] = o}
           after == {h \in Holders : t[h] = o}
           move == [h \in before |-> f[h]]
<1>1. move \in [before -> after]
  OBVIOUS
<1>2. \A h, k \in before : move[h] = move[k] => h = k
  OBVIOUS
<1>3. \A k \in after : \E h \in before : move[h] = k
  <2> TAKE k \in after
  <2>1. g[k] \in Holders /\ f[g[k]] = k
    OBVIOUS
  <2>2. g[k] \in before
    BY <2>1
  <2>3. QED
    BY <2>1, <2>2
<1> HIDE DEF before, after, move
<1>4. move \in Bijection(before, after)
  BY <1>1, <1>2, <1>3 DEF Bijection, Injection, Surjection, IsInjective
<1>5. ExistsBijection(before, after)
  BY <1>4 DEF ExistsBijection
<1>6. IsFiniteSet(before)
  BY HoldersFinite DEF before
<1>7. Cardinality(after) = Cardinality(before)
  BY <1>5, <1>6, FS_Bijection
<1>8. QED
  BY <1>7 DEF Count, before, after

\* From r to t, the holders f, which referred to no object, come to refer to the
\* elements of s.
Fills(r, t, f, m, s) ==
    /\ \A i, j \in 1 .. m : f[i] = f[j] => i = j
    /\ \A i \in 1 .. m : r[f[i]] \notin Objects /\ t[f[i]] = s[i]
    /\ \A h \in Holders : (\A i \in 1 .. m : f[i] # h) => t[h] = r[h]
Gains(r, t, m, s, o) == Count(t, o) = Count(r, o) + Cardinality({i \in 1 .. m : s[i] = o})

LEMMA CountAdded ==
    ASSUME NEW r, NEW t, NEW m \in Nat, NEW s, NEW f \in [1 .. m -> Holders],
           Fills(r, t, f, m, s), NEW o \in Objects
    PROVE  Gains(r, t, m, s, o)
<1> DEFINE before == {h \in Holders : r[h] = o}
           after == {h \in Holders : t[h] = o}
           P == {i \in 1 .. m : s[i] = o}
           added == {h \in after : \E i \in 1 .. m : f[i] = h}
           move == [i \in P |-> f[i]]
<1>1. after = before \cup added /\ before \cap added = {}
  BY DEF Fills
<1>2. move \in [P -> added]
  BY DEF Fills
<1>3. \A i, j \in P : move[i] = move[j] => i = j
  BY DEF Fills
<1>4. \A k \in added : \E i \in P : move[i] = k
  BY DEF Fills
<1>5. IsFiniteSet(P)
  <2>1. IsFiniteSet(1 .. m)
    BY FS_Interval
  <2>2. QED
    BY <2>1, FS_Subset
<1>6. IsFiniteSet(before) /\ IsFiniteSet(added)
  <2>1. before \in SUBSET Holders /\ added \in SUBSET Holders
    OBVIOUS
  <2>2. QED
    BY <2>1, HoldersFinite
<1> HIDE DEF before, after, move, added, P
<1>7. move \in Bijection(P, added)
  BY <1>2, <1>3, <1>4 DEF Bijection, Injection, Surjection, IsInjective
<1>8. ExistsBijection(P, added)
  BY <1>7 DEF ExistsBijection
<1>9. Cardinality(added) = Cardinality(P)
  BY <1>5, <1>8, FS_Bijection
<1>10. Cardinality(after) = Cardinality(before) + Cardinality(added) - Cardinality(before \cap added)
  BY <1>1, <1>6, FS_Union
<1>11. Cardinality(before \cap added) = 0
  BY <1>1, FS_EmptySet
<1>12. Cardinality(before) \in Nat /\ Cardinality(added) \in Nat
  BY <1>6, FS_CardinalityType
<1>13. Cardinality(after) = Cardinality(before) + Cardinality(P)
  BY <1>9, <1>10, <1>11, <1>12
<1>14. QED
  BY <1>13 DEF Gains, Count, before, after, P

-----------------------------------------------------------------------------
(* Cells *)

LEMMA CellFacts ==
    /\ \A a \in Objects, n \in 1 .. MaxElements :
           /\ <<a, n>> \in Cells /\ <<a, n>> \in Holders
           /\ <<a, n>> \notin Vars /\ <<a, n>> \notin Links /\ <<a, n>> \notin Objects
    /\ \A h \in Cells : \E a \in Objects, n \in 1 .. MaxElements : h = <<a, n>>
    /\ Holders \ Cells = Vars \cup Links \cup Objects
    /\ Vars \subseteq Holders /\ Links \subseteq Holders /\ Objects \subseteq Holders
BY ListsAssumption DEF Cells, Holders

\* The cells of a hold s.
HoldsIn(r, a, s) ==
    \A n \in 1 .. MaxElements :
        r[<<a, n>>] = IF n \in DOMAIN s THEN s[n] ELSE Beyond

\* But for the cells of a, r and t are the same.
SameBut(r, t, a) ==
    /\ \A h \in Holders \ Cells : t[h] = r[h]
    /\ \A b \in Objects \ {a}, n \in 1 .. MaxElements : t[<<b, n>>] = r[<<b, n>>]

LEMMA FilledFacts ==
    ASSUME NEW r \in [Holders -> Referred], NEW a \in Objects, NEW s,
           \A n \in DOMAIN s : n \in 1 .. MaxElements => s[n] \in Referred
    PROVE  /\ Filled(r, a, s) \in [Holders -> Referred]
           /\ HoldsIn(Filled(r, a, s), a, s)
           /\ SameBut(r, Filled(r, a, s), a)
<1> DEFINE t == Filled(r, a, s)
           own == {a} \X (1 .. MaxElements)
<1>1. t = [h \in Holders |-> IF h \in own
                             THEN IF h[2] \in DOMAIN s THEN s[h[2]] ELSE Beyond
                             ELSE r[h]]
  BY DEF Filled
<1>2. own \subseteq Cells
  BY DEF Cells
<1>3. \A n \in 1 .. MaxElements : <<a, n>> \in own /\ <<a, n>>[2] = n
  OBVIOUS
<1>4. \A h \in own : h[2] \in 1 .. MaxElements
  OBVIOUS
<1>5. \A b \in Objects \ {a}, n \in 1 .. MaxElements : <<b, n>> \notin own
  OBVIOUS
<1>6. Beyond \in Referred
  BY DEF Referred
<1> HIDE DEF t, own
<1>7. t \in [Holders -> Referred]
  BY <1>1, <1>4, <1>6
<1>8. HoldsIn(t, a, s)
  BY <1>1, <1>3, CellFacts DEF HoldsIn
<1>9. SameBut(r, t, a)
  BY <1>1, <1>2, <1>5, CellFacts DEF SameBut
<1>10. QED
  BY <1>7, <1>8, <1>9 DEF t

\* The contents of a's cells change places.
Permutes(p, q) == \A n \in 1 .. MaxElements : q[p[n]] = n /\ p[q[n]] = n
MovedBy(p, r, t, a) == \A n \in 1 .. MaxElements : t[<<a, p[n]>>] = r[<<a, n>>]

LEMMA CellsPermuted ==
    ASSUME NEW r \in [Holders -> Referred], NEW t \in [Holders -> Referred],
           NEW a \in Objects, SameBut(r, t, a),
           NEW p \in [1 .. MaxElements -> 1 .. MaxElements],
           NEW q \in [1 .. MaxElements -> 1 .. MaxElements],
           Permutes(p, q), MovedBy(p, r, t, a), NEW o
    PROVE  Count(t, o) = Count(r, o)
<1> USE DEF Permutes, MovedBy
<1> DEFINE own == {a} \X (1 .. MaxElements)
           f == [h \in Holders |-> IF h \in own THEN <<a, p[h[2]]>> ELSE h]
           g == [h \in Holders |-> IF h \in own THEN <<a, q[h[2]]>> ELSE h]
<1>1. /\ \A h \in own : h = <<a, h[2]>> /\ h[2] \in 1 .. MaxElements
      /\ \A n \in 1 .. MaxElements : <<a, n>> \in own /\ <<a, n>>[2] = n /\ <<a, n>> \in Holders
      /\ \A h \in Holders : h \notin own => t[h] = r[h]
  <2>1. /\ \A h \in own : h = <<a, h[2]>> /\ h[2] \in 1 .. MaxElements
        /\ \A n \in 1 .. MaxElements : <<a, n>> \in own /\ <<a, n>>[2] = n /\ <<a, n>> \in Holders
    BY CellFacts
  <2>2. ASSUME NEW h \in Holders, h \notin own
        PROVE  t[h] = r[h]
    <3>1. CASE h \in Cells
      <4>1. PICK b \in Objects, n \in 1 .. MaxElements : h = <<b, n>>
        BY <3>1, CellFacts
      <4>2. b # a
        BY <2>1, <2>2, <4>1
      <4>3. QED
        BY <4>1, <4>2 DEF SameBut
    <3>2. CASE h \notin Cells
      BY <2>2, <3>2 DEF SameBut
    <3>3. QED
      BY <3>1, <3>2
  <2>3. QED
    BY <2>1, <2>2
<1> HIDE DEF own
<1>2. f \in [Holders -> Holders] /\ g \in [Holders -> Holders]
  BY <1>1
<1>3. ASSUME NEW h \in Holders
      PROVE  g[f[h]] = h /\ f[g[h]] = h /\ t[f[h]] = r[h]
  <2>1. CASE h \notin own
    BY <1>1, <2>1
  <2>2. CASE h \in own
    <3>1. PICK n \in 1 .. MaxElements : h = <<a, n>>
      BY <1>1, <2>2
    <3>2. f[h] = <<a, p[n]>> /\ g[h] = <<a, q[n]>> /\ p[n] \in 1 .. MaxElements /\ q[n] \in 1 .. MaxElements
      BY <1>1, <3>1
    <3>3. g[<<a, p[n]>>] = <<a, q[p[n]]>> /\ f[<<a, q[n]>>] = <<a, p[q[n]]>>
      BY <1>1, <3>2
    <3>4. QED
      BY <3>1, <3>2, <3>3
  <2>3. QED
    BY <2>1, <2>2
<1> HIDE DEF f, g
<1>5. QED
  BY <1>2, <1>3, CountMoved

\* The least and the greatest of some positions.
LEMMA LeastOf ==
    ASSUME NEW T \in SUBSET Nat, T # {}
    PROVE  \E n \in T : \A m \in T : n <= m
<1>1. PICK n \in T : \A m \in T : <<m, n>> \notin OpToRel(<, Nat)
  BY NatLessThanWellFounded, WFMin
<1>2. \A m \in T : ~(m < n)
  BY <1>1 DEF OpToRel
<1>3. QED
  BY <1>2

LEMMA GreatestOf ==
    ASSUME NEW T, T \subseteq 1 .. MaxElements, T # {}
    PROVE  \E n \in T : \A m \in T : m <= n
<1>0. MaxElements \in Nat
  BY ListsAssumption
<1> DEFINE U == {k \in 0 .. MaxElements : MaxElements - k \in T}
<1>1. \A n \in T : n \in 1 .. MaxElements /\ MaxElements - n \in U
  BY <1>0
<1>2. U \in SUBSET Nat /\ U # {}
  <2>1. PICK n \in T : TRUE
    OBVIOUS
  <2>2. MaxElements - n \in U
    BY <1>1, <2>1
  <2>3. \A k \in U : k \in Nat
    BY <1>0
  <2>4. QED
    BY <2>2, <2>3
<1>3. PICK u \in U : \A v \in U : u <= v
  BY <1>2, LeastOf
<1>4. \A m \in T : m <= MaxElements - u
  <2> TAKE m \in T
  <2>1. m \in 1 .. MaxElements /\ u <= MaxElements - m /\ u \in 0 .. MaxElements
    BY <1>1, <1>3
  <2>2. QED
    BY <1>0, <2>1
<1>5. QED
  BY <1>0, <1>3, <1>4

LEMMA UsedFacts ==
    ASSUME NEW a
    PROVE  /\ Used(a) \subseteq 1 .. MaxElements
           /\ Size(a) \in 0 .. MaxElements
           /\ \A n \in 1 .. MaxElements : n \in Used(a) <=> refers[<<a, n>>] # Beyond
<1> USE ListsAssumption
<1>1. Used(a) \subseteq 1 .. MaxElements
  BY DEF Used
<1>2. IsFiniteSet(1 .. MaxElements) /\ Cardinality(1 .. MaxElements) = MaxElements
  BY FS_Interval
<1>3. Cardinality(Used(a)) <= MaxElements /\ IsFiniteSet(Used(a))
  BY <1>1, <1>2, FS_Subset
<1>4. Cardinality(Used(a)) \in Nat
  BY <1>3, FS_CardinalityType
<1>5. QED
  BY <1>1, <1>3, <1>4 DEF Size, Used

\* The cells in use are the first ones.
LEMMA FirstCells ==
    ASSUME NEW a, NEW m \in 0 .. MaxElements,
           \A n \in 1 .. MaxElements : refers[<<a, n>>] # Beyond <=> n <= m
    PROVE  Used(a) = 1 .. m /\ Size(a) = m
<1> USE ListsAssumption
<1>1. Used(a) = 1 .. m
  BY DEF Used
<1>2. Cardinality(1 .. m) = m
  BY FS_Interval
<1>3. QED
  BY <1>1, <1>2 DEF Size

-----------------------------------------------------------------------------
(* Loops *)

Deletes(c, o) == c.does \in {"delete", "drop"} /\ c.for = o
Hands(c, o) ==
    \/ c.does = "load" /\ c.arg = o
    \/ c.does = "clone" /\ c.for = o
DyingIn(cs, o) == \E j \in 1 .. Len(cs) : Deletes(cs[j], o)
HandedBy(cs, o) == \E j \in 1 .. Len(cs) : Hands(cs[j], o)

\* Dying and InHand for the loops cs.
LEMMA DyingAndInHand ==
    ASSUME NEW o
    PROVE  /\ Dying(o) <=> DyingIn(calls, o)
           /\ InHand(o) <=> o = stack \/ HandedBy(calls, o)
           /\ Dying(o)' <=> DyingIn(calls', o)
           /\ InHand(o)' <=> o = stack' \/ HandedBy(calls', o)
BY DEF Dying, DyingIn, Deletes, InHand, HandedBy, Hands

LEMMA OnLoops ==
    ASSUME NEW c \in Loop, NEW rest \in Seq(Loop)
    PROVE  /\ <<c>> \o rest \in Seq(Loop)
           /\ Len(<<c>> \o rest) = Len(rest) + 1
           /\ (<<c>> \o rest)[1] = c
           /\ \A j \in 1 .. Len(rest) : (<<c>> \o rest)[j + 1] = rest[j]
           /\ \A o : DyingIn(<<c>> \o rest, o) <=> Deletes(c, o) \/ DyingIn(rest, o)
           /\ \A o : HandedBy(<<c>> \o rest, o) <=> Hands(c, o) \/ HandedBy(rest, o)
<1> DEFINE cs == <<c>> \o rest
<1>1. /\ cs \in Seq(Loop) /\ Len(cs) = Len(rest) + 1 /\ cs[1] = c
      /\ \A j \in 1 .. Len(rest) : cs[j + 1] = rest[j]
  OBVIOUS
<1>2. /\ \A j \in 1 .. Len(cs) : j = 1 \/ (j - 1 \in 1 .. Len(rest) /\ cs[j] = rest[j - 1])
      /\ \A j \in 1 .. Len(rest) : j + 1 \in 1 .. Len(cs) /\ cs[j + 1] = rest[j]
      /\ 1 \in 1 .. Len(cs) /\ cs[1] = c
  OBVIOUS
<1> HIDE DEF cs
<1>3. \A o : DyingIn(cs, o) <=> Deletes(c, o) \/ DyingIn(rest, o)
  BY <1>2 DEF DyingIn
<1>4. \A o : HandedBy(cs, o) <=> Hands(c, o) \/ HandedBy(rest, o)
  BY <1>2 DEF HandedBy
<1>5. QED
  BY <1>1, <1>3, <1>4 DEF cs

LEMMA NoLoops == \A o : ~DyingIn(<< >>, o) /\ ~HandedBy(<< >>, o)
BY DEF DyingIn, HandedBy

\* The loops of cs are in order.
InOrder(cs) == \A j \in 1 .. Len(cs) - 1 : cs[j].does = "delete"
LoopsOf(cs) == {cs[j] : j \in 1 .. Len(cs)}

LEMMA OneLoop ==
    ASSUME NEW c \in Loop
    PROVE  /\ <<c>> \in Seq(Loop) /\ Len(<<c>>) = 1 /\ <<c>>[1] = c
           /\ \A o : DyingIn(<<c>>, o) <=> Deletes(c, o)
           /\ \A o : HandedBy(<<c>>, o) <=> Hands(c, o)
           /\ LoopsOf(<<c>>) = {c} /\ InOrder(<<c>>)
           /\ <<c>> \o << >> = <<c>>
BY DEF DyingIn, HandedBy, LoopsOf, InOrder

LEMMA TopAndRest ==
    ASSUME HeapTypeOK, ~Idle
    PROVE  /\ calls = <<Top>> \o Rest /\ Top = calls[1]
           /\ Top \in Loop /\ Rest \in Seq(Loop)
           /\ Len(Rest) = Len(calls) - 1 /\ Len(calls) \in Nat \ {0}
           /\ \A j \in 1 .. Len(Rest) : Rest[j] = calls[j + 1]
BY DEF HeapTypeOK, Idle, Top, Rest

LEMMA TopFits ==
    ASSUME HeapTypeOK, LoopsFit, ~Idle
    PROVE  /\ LoopFits(Top)
           /\ \A j \in 1 .. Len(Rest) : LoopFits(Rest[j])
           /\ \A j \in 1 .. Len(Rest) - 1 : Rest[j].does = "delete"
           /\ Top.does # "delete" => Rest = << >> /\ calls = <<Top>>
           /\ Top.does # "remove" => stack = NoObject
<1>1. /\ calls = <<Top>> \o Rest /\ Top = calls[1]
      /\ Len(Rest) = Len(calls) - 1 /\ Len(calls) \in Nat \ {0} /\ Rest \in Seq(Loop)
      /\ \A j \in 1 .. Len(Rest) : Rest[j] = calls[j + 1]
  BY TopAndRest
<1>2. /\ \A j \in 1 .. Len(calls) : LoopFits(calls[j])
      /\ \A j \in 1 .. Len(calls) - 1 : calls[j].does = "delete"
      /\ stack # NoObject =>
           calls = << >> \/ (Len(calls) = 1 /\ calls[1].does = "remove")
  BY DEF LoopsFit
<1>3. LoopFits(Top)
  BY <1>1, <1>2
<1>4. \A j \in 1 .. Len(Rest) : LoopFits(Rest[j])
  BY <1>1, <1>2
<1>5. \A j \in 1 .. Len(Rest) - 1 : Rest[j].does = "delete"
  BY <1>1, <1>2
<1>6. Top.does # "delete" => Rest = << >> /\ calls = <<Top>>
  <2> SUFFICES ASSUME Top.does # "delete"
               PROVE  Rest = << >> /\ calls = <<Top>>
    OBVIOUS
  <2>1. Len(Rest) = 0
    BY <1>1, <1>2
  <2>2. Rest = << >>
    BY <1>1, <2>1
  <2>3. QED
    BY <1>1, <2>2
<1>7. Top.does # "remove" => stack = NoObject
  BY <1>1, <1>2 DEF Idle
<1>8. QED
  BY <1>3, <1>4, <1>5, <1>6, <1>7

\* The loop of a new deletion.
LEMMA DeletionIsLoop ==
    ASSUME PointersTypeOK, NEW o \in Objects, NEW does \in {"delete", "drop"}
    PROVE  /\ Deletion(does, o) \in Loop
           /\ Deletion(does, o).does = does /\ Deletion(does, o).for = o
           /\ Deletion(does, o).link = NoLink /\ Deletion(does, o).cell = 1
BY DEF Deletion, Calls, Loop, Link, Object, PointersTypeOK

\* It has passed nothing.
LEMMA DeletionFits ==
    ASSUME NEW c \in Loop, c.does \in {"delete", "drop"}, c.link = NoLink, c.cell = 1
    PROVE  LoopFits(c)'
<1>1. \A n \in Used(c.for)' : ~(n < c.cell)
  BY DEF Used
<1>2. PassedIsReleased(c)'
  BY <1>1 DEF PassedIsReleased
<1>3. SubjectFits(c)' /\ ArgumentFits(c)'
  BY DEF SubjectFits, ArgumentFits
<1>4. QED
  BY <1>2, <1>3 DEF LoopFits

LEMMA LoopsFitAgain ==
    ASSUME HeapTypeOK', InOrder(calls'), \A c \in LoopsOf(calls') : LoopFits(c)',
           stack' # NoObject => calls' = << >> \/ (Len(calls') = 1 /\ calls'[1].does = "remove")
    PROVE  LoopsFit'
BY DEF LoopsFit, InOrder, LoopsOf

-----------------------------------------------------------------------------
(* What is referred to and what is in hand *)

Known(o) == refCount[o] > 0 \/ InHand(o)

LEMMA LiveAgain ==
    ASSUME LiveByCount, below' = below,
           \A o \in Objects :
               \/ /\ Live(o)' <=> Live(o)
                  /\ Dying(o)' <=> Dying(o)
                  /\ Known(o)' <=> Known(o)
               \/ ~Known(o)' /\ Dying(o)'
               \/ Live(o)' /\ Known(o)' /\ ~Dying(o)'
               \/ ~Known(o)' /\ ~Live(o)'
    PROVE  LiveByCount'
<1> SUFFICES ASSUME NEW o \in Objects
             PROVE  /\ Known(o)' => Live(o)' /\ ~Dying(o)'
                    /\ Live(o)' => Known(o)' \/ o = below' \/ Dying(o)'
  BY DEF LiveByCount, Known
<1>1. /\ Known(o) => Live(o) /\ ~Dying(o)
      /\ Live(o) => Known(o) \/ o = below \/ Dying(o)
  BY DEF LiveByCount, Known
<1>2. QED
  BY <1>1

\* A holder's object is counted.
LEMMA HeldIsCounted ==
    ASSUME HeapTypeOK, CountsMatch, NEW h \in Holders, refers[h] \in Objects
    PROVE  refCount[refers[h]] \in Nat \ {0}
<1>1. refCount[refers[h]] = Count(refers, refers[h])
  BY DEF CountsMatch, HoldersOf, Count
<1>2. QED
  BY <1>1, CountType

\* An object with two holders has two references.
LEMMA TwoHolders ==
    ASSUME HeapTypeOK, CountsMatch, NEW h \in Holders, NEW g \in Holders, g # h,
           refers[h] \in Objects, refers[g] = refers[h]
    PROVE  refCount[refers[h]] # 1
<1> DEFINE o == refers[h]
           t == [refers EXCEPT ![h] = NoObject]
<1>1. refCount[o] = Count(refers, o)
  BY DEF CountsMatch, HoldersOf, Count
<1>2. refers \in [Holders -> Referred] /\ NoObject # o
  BY ListsAssumption DEF HeapTypeOK
<1>3. Count(t, o) = Count(refers, o) - 1
  <2>1. Turned(refers, t, refers[h], NoObject, o)
    BY <1>2, CountOne
  <2>2. Count(refers, o) \in Nat
    BY CountType
  <2>3. QED
    BY <1>2, <2>1, <2>2 DEF Turned
<1>4. t[g] = o
  BY <1>2
<1> HIDE DEF t, o
<1>5. Count(t, o) # 0
  BY <1>4, CountType
<1>6. QED
  BY <1>1, <1>3, <1>5, CountType DEF o

\* What is in a loop's hands is deleted with no release but that of a variable.
LEMMA HandedIsSafe ==
    ASSUME HeapTypeOK, CountsMatch, LoopsFit, NEW h \in Holders \ Vars,
           refers[h] \in Objects, refCount[refers[h]] = 1
    PROVE  ~HandedBy(calls, refers[h])
<1> DEFINE o == refers[h]
<1> SUFFICES ASSUME NEW j \in 1 .. Len(calls), Hands(calls[j], o)
             PROVE  FALSE
  BY DEF HandedBy
<1>1. LoopFits(calls[j])
  BY DEF LoopsFit
<1>2. o # NoObject
  BY ListsAssumption
<1>3. refCount[o] = 0 \/ InVar(o)
  BY <1>1, <1>2 DEF LoopFits, ArgumentFits, Hands
<1>4. PICK v \in Vars : refers[v] = o
  BY <1>3 DEF InVar
<1>5. v \in Holders /\ v # h
  BY CellFacts
<1>6. QED
  BY <1>4, <1>5, TwoHolders

\* Counts after a reference to x became one to y.
Shifted(x, y) == \A o \in Objects : Turned(refers, refers', x, y, o)
Recounted(x, y) ==
    \A o \in Objects :
        refCount'[o] = refCount[o] - (IF x = o THEN 1 ELSE 0)
                       + (IF y = o THEN 1 ELSE 0)

LEMMA CountsAgain ==
    ASSUME CountsMatch, NEW x, NEW y, Shifted(x, y), Recounted(x, y)
    PROVE  CountsMatch'
<1>1. \A o \in Objects : refCount[o] = Count(refers, o)
  BY DEF CountsMatch, HoldersOf, Count
<1>2. \A o \in Objects : refCount'[o] = Count(refers', o)
  BY <1>1 DEF Shifted, Turned, Recounted
<1>3. QED
  BY <1>2 DEF CountsMatch, HoldersOf, Count

LEMMA RecountFacts ==
    ASSUME HeapTypeOK, NEW x \in Object, x \in Objects => refCount[x] > 0, NEW y \in Object,
           refCount' = Released(Kept(refCount, y), x)
    PROVE  refCount' \in [Objects -> Nat] /\ Recounted(x, y)
<1> USE ListsAssumption DEF Object
<1>1. refCount \in [Objects -> Nat]
  BY DEF HeapTypeOK
<1>2. Kept(refCount, y) \in [Objects -> Nat]
      /\ \A o \in Objects : Kept(refCount, y)[o] = refCount[o] + (IF y = o THEN 1 ELSE 0)
  BY <1>1 DEF Kept
<1> DEFINE kept == Kept(refCount, y)
<1>3. kept \in [Objects -> Nat] /\ \A o \in Objects : kept[o] >= refCount[o]
  BY <1>1, <1>2
<1>4. kept \in [Objects -> Nat] /\ (x \in Objects => kept[x] > 0) /\ refCount' = Released(kept, x)
  BY <1>1, <1>3
<1> HIDE DEF kept
<1>5. refCount' \in [Objects -> Nat]
      /\ \A o \in Objects : refCount'[o] = kept[o] - (IF x = o THEN 1 ELSE 0)
  <2>1. CASE x = NoObject
    BY <1>4, <2>1 DEF Released
  <2>2. CASE x \in Objects
    <3>1. x # NoObject /\ kept[x] - 1 \in Nat
      BY <1>4, <2>2
    <3>2. refCount' = [kept EXCEPT ![x] = kept[x] - 1]
      BY <1>4, <3>1 DEF Released
    <3>3. refCount' \in [Objects -> Nat]
      BY <1>4, <3>1, <3>2
    <3>4. ASSUME NEW o \in Objects
          PROVE  refCount'[o] = kept[o] - (IF x = o THEN 1 ELSE 0)
      <4>1. refCount'[o] = IF o = x THEN kept[x] - 1 ELSE kept[o]
        BY <1>4, <3>2
      <4>2. kept[o] \in Nat
        BY <1>4
      <4>3. QED
        BY <4>1, <4>2
    <3>5. QED
      BY <3>3, <3>4
  <2>3. QED
    BY <2>1, <2>2
<1>6. Recounted(x, y)
  <2> SUFFICES ASSUME NEW o \in Objects
               PROVE  refCount'[o] = refCount[o] - (IF x = o THEN 1 ELSE 0) + (IF y = o THEN 1 ELSE 0)
    BY DEF Recounted
  <2>1. kept[o] = refCount[o] + (IF y = o THEN 1 ELSE 0)
    BY <1>2 DEF kept
  <2>2. refCount[o] \in Nat
    BY <1>1
  <2>3. QED
    BY <1>5, <2>1, <2>2
<1>7. QED
  BY <1>5, <1>6

\* Holder h comes to refer to y.
LEMMA ShiftedOne ==
    ASSUME HeapTypeOK, NEW h \in Holders, NEW y, refers' = [refers EXCEPT ![h] = y]
    PROVE  Shifted(refers[h], y)
<1>1. refers \in [Holders -> Referred]
  BY DEF HeapTypeOK
<1>2. ASSUME NEW o \in Objects
      PROVE  Turned(refers, refers', refers[h], y, o)
  BY <1>1, CountOne
<1>3. QED
  BY <1>2 DEF Shifted

-----------------------------------------------------------------------------
(* Steps that leave the references as they are *)

\* References, counts and kinds stay, and nobody's deletion begins or ends.
LEMMA HeapStays ==
    ASSUME CollectionsInv, UNCHANGED <<kind, refers, refCount, links>>,
           \A o \in Objects : Dying(o) => Dying(o)'
    PROVE  CountsMatch' /\ OwnersOnly' /\ ArraysAreDense' /\ ParentsFit'
<1>1. kind' = kind /\ refers' = refers /\ refCount' = refCount /\ links' = links
  OBVIOUS
<1>2. CountsMatch'
  BY <1>1 DEF CollectionsInv, CountsMatch, HoldersOf
<1>3. OwnersOnly'
  BY <1>1 DEF CollectionsInv, OwnersOnly, Used
<1>4. ArraysAreDense'
  BY <1>1 DEF CollectionsInv, ArraysAreDense, Size, Used
<1>5. ParentsFit'
  BY <1>1 DEF CollectionsInv, ParentsFit
<1>6. QED
  BY <1>2, <1>3, <1>4, <1>5

\* Nothing is lost when x is forgotten.
Safe(x) == x = NoObject \/ refCount[x] > 0

LEMMA IdleFacts ==
    ASSUME Idle
    PROVE  /\ calls = << >>
           /\ \A o : ~Dying(o) /\ (InHand(o) <=> o = stack)
BY NoLoops, DyingAndInHand DEF Idle

\* A method that looks at something or moves a cursor.
LEMMA LookStep ==
    ASSUME CollectionsInv, Idle, UNCHANGED <<program, below, kind, refers, refCount, links, calls>>,
           PointersTypeOK', CursorsFit', stack' \in Object,
           stack' = stack \/ (Safe(stack) /\ Safe(stack'))
    PROVE  CollectionsInv'
<1>1. calls' = << >> /\ calls = << >>
  BY DEF Idle
<1>2. \A o : ~Dying(o)' /\ (InHand(o)' <=> o = stack')
  BY <1>1, NoLoops, DyingAndInHand
<1>3. \A o : ~Dying(o) /\ (InHand(o) <=> o = stack)
  BY IdleFacts
<1>4. CountsMatch' /\ OwnersOnly' /\ ArraysAreDense' /\ ParentsFit'
  BY <1>3, HeapStays
<1>5. HeapTypeOK'
  BY DEF CollectionsInv, HeapTypeOK
<1>6. \A o \in Objects : Known(o)' <=> Known(o)
  <2> SUFFICES ASSUME NEW o \in Objects
               PROVE  refCount'[o] > 0 \/ InHand(o)' <=> refCount[o] > 0 \/ InHand(o)
    BY DEF Known
  <2>1. o # NoObject
    BY ListsAssumption
  <2>2. refCount' = refCount
    OBVIOUS
  <2>3. QED
    BY <1>2, <1>3, <2>1, <2>2 DEF Safe
<1>7. \A o \in Objects : Live(o)' <=> Live(o)
  BY DEF Live
<1>8. LiveByCount'
  BY <1>2, <1>3, <1>6, <1>7, LiveAgain DEF CollectionsInv
<1>9. LoopsFit'
  BY <1>1 DEF LoopsFit
<1>10. QED
  BY <1>4, <1>5, <1>8, <1>9 DEF CollectionsInv

\* A method that starts a loop, which takes the stack's object or forgets it.
LEMMA StartStep ==
    ASSUME CollectionsInv, Idle, UNCHANGED <<program, below, kind, refers, refCount, links, cursor>>,
           PointersTypeOK', stack' = NoObject,
           NEW c \in Loop, calls' = <<c>>, LoopFits(c)', c.does \notin {"delete", "clone"},
           IF c.does = "load" THEN c.arg = stack
           ELSE IF c.does = "drop" THEN c.for = stack /\ refCount[stack] = 0
           ELSE Safe(stack)
    PROVE  CollectionsInv'
<1>1. /\ calls' \in Seq(Loop) /\ Len(calls') = 1 /\ calls'[1] = c
      /\ \A o : DyingIn(calls', o) <=> Deletes(c, o)
      /\ \A o : HandedBy(calls', o) <=> Hands(c, o)
  BY OneLoop
<1>2. \A o : /\ Dying(o)' <=> c.does = "drop" /\ c.for = o
             /\ InHand(o)' <=> o = NoObject \/ (c.does = "load" /\ c.arg = o)
  BY <1>1, DyingAndInHand DEF Deletes, Hands
<1>3. \A o : ~Dying(o) /\ (InHand(o) <=> o = stack)
  BY IdleFacts
<1>4. CountsMatch' /\ OwnersOnly' /\ ArraysAreDense' /\ ParentsFit'
  BY <1>3, HeapStays
<1>5. HeapTypeOK' /\ CursorsFit'
  <2>1. NoObject \in Object
    BY DEF Object
  <2>2. HeapTypeOK'
    BY <1>1, <2>1 DEF CollectionsInv, HeapTypeOK
  <2>3. CursorsFit'
    BY DEF CollectionsInv, CursorsFit, Used
  <2>4. QED
    BY <2>2, <2>3
<1>6. \A o \in Objects :
          \/ /\ Live(o)' <=> Live(o)
             /\ Dying(o)' <=> Dying(o)
             /\ Known(o)' <=> Known(o)
          \/ ~Known(o)' /\ Dying(o)'
  <2> TAKE o \in Objects
  <2>1. o # NoObject /\ refCount[o] \in Nat
    BY ListsAssumption DEF CollectionsInv, HeapTypeOK
  <2>2. Live(o)' <=> Live(o)
    BY DEF Live
  <2>3. refCount' = refCount
    OBVIOUS
  <2>4. CASE c.does = "drop" /\ o = stack
    <3>1. ~Known(o)'
      BY <1>2, <2>1, <2>3, <2>4 DEF Known
    <3>2. QED
      BY <1>2, <2>4, <3>1
  <2>5. CASE ~(c.does = "drop" /\ o = stack)
    <3>1. ~Dying(o)'
      BY <1>2, <2>5
    <3>2. refCount[o] > 0 \/ InHand(o)' <=> refCount[o] > 0 \/ InHand(o)
      BY <1>2, <1>3, <2>1, <2>5 DEF Safe
    <3>3. Known(o)' <=> Known(o)
      BY <2>3, <3>2 DEF Known
    <3>4. QED
      BY <1>3, <2>2, <3>1, <3>3
  <2>6. QED
    BY <2>4, <2>5
<1>7. LiveByCount'
  BY <1>6, LiveAgain DEF CollectionsInv
<1>8. LoopsFit'
  <2>1. LoopsOf(calls') = {c} /\ InOrder(calls')
    BY OneLoop
  <2>2. QED
    BY <1>5, <2>1, LoopsFitAgain
<1>9. QED
  BY <1>4, <1>5, <1>7, <1>8 DEF CollectionsInv

\* A search comes to the next link.
LEMMA SeekStep ==
    ASSUME CollectionsInv, ~Idle, Top.does \in {"seek remove", "seek", "seek next"},
           UNCHANGED <<program, below, kind, refers, refCount, links, cursor, stack>>,
           PointersTypeOK', NEW k \in Link,
           calls' = <<[Top EXCEPT !.cur = k]>> \o Rest
    PROVE  CollectionsInv'
<1>1. HeapTypeOK /\ LoopsFit
  BY DEF CollectionsInv
<1>2. Top \in Loop /\ LoopFits(Top) /\ Rest = << >> /\ calls = <<Top>> /\ stack = NoObject
  BY <1>1, TopAndRest, TopFits
<1>3. PICK c \in Loop : c = [Top EXCEPT !.cur = k]
  BY <1>2 DEF Loop
<1>4. calls' = <<c>>
  <2>1. calls' = <<c>> \o << >>
    BY <1>2, <1>3
  <2>2. QED
    BY <2>1, OneLoop
<1>5. /\ c.does = Top.does /\ c.for = Top.for /\ c.link = Top.link /\ c.cell = Top.cell
      /\ c.number = Top.number /\ c.arg = Top.arg
  BY <1>2, <1>3 DEF Loop
<1>6. /\ calls' \in Seq(Loop) /\ Len(calls') = 1 /\ calls'[1] = c
      /\ \A o : DyingIn(calls', o) <=> Deletes(c, o)
      /\ \A o : HandedBy(calls', o) <=> Hands(c, o)
  BY <1>4, OneLoop
<1>7. \A o : (DyingIn(calls, o) <=> Deletes(Top, o)) /\ (HandedBy(calls, o) <=> Hands(Top, o))
  BY <1>2, OneLoop
<1>8. \A o : (Dying(o)' <=> Dying(o)) /\ (InHand(o)' <=> InHand(o))
  BY <1>5, <1>6, <1>7, DyingAndInHand DEF Deletes, Hands
<1>9. CountsMatch' /\ OwnersOnly' /\ ArraysAreDense' /\ ParentsFit'
  BY <1>8, HeapStays
<1>10. HeapTypeOK' /\ CursorsFit'
  <2>1. HeapTypeOK'
    BY <1>6 DEF CollectionsInv, HeapTypeOK
  <2>2. CursorsFit'
    BY DEF CollectionsInv, CursorsFit, Used
  <2>3. QED
    BY <2>1, <2>2
<1>11. \A o \in Objects : (Live(o)' <=> Live(o)) /\ (Known(o)' <=> Known(o))
  BY <1>8 DEF Live, Known
<1>12. LiveByCount'
  BY <1>8, <1>11, LiveAgain DEF CollectionsInv
<1>13. LoopFits(c)'
  <2>1. LoopFits(c)
    BY <1>2, <1>5 DEF LoopFits, PassedIsReleased, SubjectFits, ArgumentFits
  <2>2. PassedIsReleased(c)'
    BY <2>1 DEF LoopFits, PassedIsReleased, Used
  <2>3. SubjectFits(c)'
    BY <2>1 DEF LoopFits, SubjectFits, NoKeySeen, KeyUnseen, Used, Size, InVar
  <2>4. ArgumentFits(c)'
    BY <2>1 DEF LoopFits, ArgumentFits, InVar
  <2>5. QED
    BY <2>2, <2>3, <2>4 DEF LoopFits
<1>14. LoopsFit'
  <2>1. LoopsOf(calls') = {c} /\ InOrder(calls')
    BY <1>4, OneLoop
  <2>2. stack' = NoObject
    BY <1>2
  <2>3. QED
    BY <1>10, <1>13, <2>1, <2>2, LoopsFitAgain
<1>15. QED
  BY <1>9, <1>10, <1>12, <1>14 DEF CollectionsInv

\* The loop of a method ends; clone leaves the new list on the stack.
LEMMA EndStep ==
    ASSUME CollectionsInv, ~Idle, Top.does \notin {"delete", "drop", "load"},
           UNCHANGED <<program, below, kind, refers, refCount, links>>,
           PointersTypeOK', CursorsFit', calls' = Rest,
           stack' = IF Top.does = "clone" THEN Top.for ELSE stack
    PROVE  CollectionsInv'
<1>1. HeapTypeOK /\ LoopsFit
  BY DEF CollectionsInv
<1>2. /\ Top \in Loop /\ Rest = << >> /\ calls = <<Top>>
      /\ Top.does # "remove" => stack = NoObject
  BY <1>1, TopAndRest, TopFits
<1>3. calls' = << >>
  BY <1>2
<1>4. \A o : ~Dying(o)' /\ (InHand(o)' <=> o = stack')
  BY <1>3, NoLoops, DyingAndInHand
<1>5. \A o : ~Dying(o) /\ (InHand(o) <=> o = stack \/ (Top.does = "clone" /\ o = Top.for))
  BY <1>2, OneLoop, DyingAndInHand DEF Deletes, Hands
<1>6. CountsMatch' /\ OwnersOnly' /\ ArraysAreDense' /\ ParentsFit'
  BY <1>5, HeapStays
<1>7. HeapTypeOK'
  <2>1. stack' \in Object
    BY <1>1, <1>2 DEF HeapTypeOK, Loop, Object
  <2>2. QED
    BY <1>3, <2>1 DEF CollectionsInv, HeapTypeOK
<1>8. \A o \in Objects : (Live(o)' <=> Live(o)) /\ (Known(o)' <=> Known(o))
  <2> TAKE o \in Objects
  <2>1. o # NoObject
    BY ListsAssumption
  <2>2. InHand(o)' <=> InHand(o)
    BY <1>2, <1>4, <1>5, <2>1
  <2>3. QED
    BY <2>2 DEF Live, Known
<1>9. LiveByCount'
  BY <1>4, <1>5, <1>8, LiveAgain DEF CollectionsInv
<1>10. LoopsFit'
  BY <1>3 DEF LoopsFit
<1>11. QED
  BY <1>6, <1>7, <1>9, <1>10 DEF CollectionsInv

-----------------------------------------------------------------------------
(* Steps that change references *)

\* The iterators keep their parents, but for one that is deleted.
ParentsStay ==
    \A i \in Objects : refers'[i] = refers[i] \/ (refers'[i] = NoObject /\ Dying(i))

LEMMA ParentsFitAgain ==
    ASSUME CollectionsInv, kind' = kind, ParentsStay, HeapTypeOK',
           \A o \in Objects : Dying(o) => Dying(o)'
    PROVE  ParentsFit'
<1> SUFFICES ASSUME NEW i \in Objects, kind[i] \in Iterators
             PROVE  IF refers'[i] = NoObject THEN Dying(i)'
                    ELSE kind[refers'[i]] = ParentKind(kind[i])
  BY DEF ParentsFit
<1>1. IF refers[i] = NoObject THEN Dying(i) ELSE kind[refers[i]] = ParentKind(kind[i])
  BY DEF CollectionsInv, ParentsFit
<1>2. CASE refers'[i] = refers[i]
  BY <1>1, <1>2
<1>3. CASE refers'[i] = NoObject /\ Dying(i)
  BY <1>3
<1>4. QED
  BY <1>2, <1>3 DEF ParentsStay

\* The loops before and after do the same to objects.
SameDeeds(cs, ds) ==
    \A o \in Objects : (DyingIn(cs, o) <=> DyingIn(ds, o)) /\ (HandedBy(cs, o) <=> HandedBy(ds, o))

LEMMA AndDeleteFacts ==
    ASSUME HeapTypeOK, PointersTypeOK, NEW x \in Object, NEW rest \in Seq(Loop),
           InOrder(rest), \A c \in LoopsOf(rest) : LoopFits(c)'
    PROVE  /\ AndDelete(x, rest) \in Seq(Loop) /\ InOrder(AndDelete(x, rest))
           /\ \A c \in LoopsOf(AndDelete(x, rest)) : LoopFits(c)'
           /\ \A o \in Objects :
                /\ HandedBy(AndDelete(x, rest), o) <=> HandedBy(rest, o)
                /\ DyingIn(AndDelete(x, rest), o) <=>
                       (o = x /\ refCount[o] = 1) \/ DyingIn(rest, o)
<1>1. NoObject \notin Objects
  BY ListsAssumption
<1>2. CASE ~(x # NoObject /\ refCount[x] = 1)
  <2>1. AndDelete(x, rest) = rest
    BY <1>2 DEF AndDelete
  <2>2. QED
    BY <1>1, <1>2, <2>1
<1>3. CASE x # NoObject /\ refCount[x] = 1
  <2>1. x \in Objects
    BY <1>3 DEF Object
  <2>2. PICK c \in Loop : /\ c = Deletion("delete", x) /\ c.does = "delete" /\ c.for = x
                          /\ c.link = NoLink /\ c.cell = 1
    BY <2>1, DeletionIsLoop
  <2>3. AndDelete(x, rest) = <<c>> \o rest
    BY <1>3, <2>2 DEF AndDelete
  <2>4. LoopFits(c)'
    BY <2>2, DeletionFits
  <2> DEFINE cs == <<c>> \o rest
  <2>5. /\ cs \in Seq(Loop) /\ Len(cs) = Len(rest) + 1 /\ cs[1] = c
        /\ \A j \in 1 .. Len(rest) : cs[j + 1] = rest[j]
        /\ \A o : DyingIn(cs, o) <=> Deletes(c, o) \/ DyingIn(rest, o)
        /\ \A o : HandedBy(cs, o) <=> Hands(c, o) \/ HandedBy(rest, o)
    BY OnLoops
  <2>6. Len(rest) \in Nat
    OBVIOUS
  <2> HIDE DEF cs
  <2>7. \A j \in 1 .. Len(cs) : j = 1 \/ (j - 1 \in 1 .. Len(rest) /\ cs[j] = rest[j - 1])
    <3> TAKE j \in 1 .. Len(cs)
    <3>1. j # 1 => j - 1 \in 1 .. Len(rest) /\ (j - 1) + 1 = j
      BY <2>5, <2>6
    <3>2. QED
      BY <2>5, <3>1
  <2>8. InOrder(cs)
    <3> SUFFICES ASSUME NEW j \in 1 .. Len(cs) - 1
                 PROVE  cs[j].does = "delete"
      BY DEF InOrder
    <3>1. j # 1 => j - 1 \in 1 .. Len(rest) - 1 /\ cs[j] = rest[j - 1]
      BY <2>5, <2>6, <2>7
    <3>2. QED
      BY <2>2, <2>5, <3>1 DEF InOrder
  <2>9. \A d \in LoopsOf(cs) : d = c \/ d \in LoopsOf(rest)
    BY <2>5, <2>7 DEF LoopsOf
  <2>10. \A d \in LoopsOf(cs) : LoopFits(d)'
    BY <2>4, <2>9
  <2>11. \A o \in Objects :
            /\ HandedBy(cs, o) <=> HandedBy(rest, o)
            /\ DyingIn(cs, o) <=> (o = x /\ refCount[o] = 1) \/ DyingIn(rest, o)
    BY <1>3, <2>2, <2>5 DEF Deletes, Hands
  <2>12. QED
    BY <2>3, <2>5, <2>8, <2>10, <2>11 DEF cs
<1>4. QED
  BY <1>2, <1>3

\* A reference to x becomes one to what is on the stack; x may have to be
\* deleted.
LEMMA ExchangeStep ==
    ASSUME CollectionsInv, UNCHANGED <<program, below, kind>>, PointersTypeOK', CursorsFit',
           OwnersOnly', ArraysAreDense', ParentsStay,
           refers' \in [Holders -> Referred], \A h \in Holders \ Cells : refers'[h] # Beyond,
           links' \in SUBSET Links,
           NEW x \in Object, x = stack => x = NoObject, x \in Objects => refCount[x] > 0,
           Shifted(x, stack), refCount' = Released(Kept(refCount, stack), x),
           stack' = NoObject, NEW rest \in Seq(Loop), calls' = AndDelete(x, rest),
           InOrder(rest), \A c \in LoopsOf(rest) : LoopFits(c)', SameDeeds(calls, rest),
           x \in Objects /\ refCount[x] = 1 => ~HandedBy(calls, x)
    PROVE  CollectionsInv'
<1>1. HeapTypeOK /\ PointersTypeOK /\ stack \in Object
  BY DEF CollectionsInv, HeapTypeOK
<1>2. /\ calls' \in Seq(Loop) /\ InOrder(calls')
      /\ \A c \in LoopsOf(calls') : LoopFits(c)'
      /\ \A o \in Objects :
            /\ HandedBy(calls', o) <=> HandedBy(rest, o)
            /\ DyingIn(calls', o) <=> (o = x /\ refCount[o] = 1) \/ DyingIn(rest, o)
  BY <1>1, AndDeleteFacts
<1>3. refCount' \in [Objects -> Nat] /\ Recounted(x, stack)
  BY <1>1, RecountFacts
<1>4. HeapTypeOK'
  <2>1. NoObject \in Object
    BY DEF Object
  <2>2. QED
    BY <1>1, <1>2, <1>3, <2>1 DEF HeapTypeOK
<1>5. CountsMatch'
  BY <1>3, CountsAgain DEF CollectionsInv
<1>6. \A o \in Objects :
        /\ Dying(o)' <=> (o = x /\ refCount[o] = 1) \/ Dying(o)
        /\ InHand(o)' <=> HandedBy(calls, o)
        /\ InHand(o) <=> o = stack \/ HandedBy(calls, o)
  <2> TAKE o \in Objects
  <2>1. o # NoObject
    BY ListsAssumption
  <2>2. (DyingIn(calls, o) <=> DyingIn(rest, o)) /\ (HandedBy(calls, o) <=> HandedBy(rest, o))
    BY DEF SameDeeds
  <2>3. QED
    BY <1>2, <2>1, <2>2, DyingAndInHand
<1>7. ParentsFit'
  BY <1>4, <1>6, ParentsFitAgain
<1>8. LiveByCount'
  <2>1. ASSUME NEW o \in Objects
        PROVE  \/ /\ Live(o)' <=> Live(o)
                  /\ Dying(o)' <=> Dying(o)
                  /\ Known(o)' <=> Known(o)
               \/ ~Known(o)' /\ Dying(o)'
    <3>1. Live(o)' <=> Live(o)
      BY DEF Live
    <3>2. refCount[o] \in Nat /\ refCount'[o] = refCount[o] - (IF x = o THEN 1 ELSE 0)
                                                + (IF stack = o THEN 1 ELSE 0)
      BY <1>1, <1>3 DEF HeapTypeOK, Recounted
    <3>3. x = o => stack # o
      BY ListsAssumption
    <3>4. CASE o = x /\ refCount[o] = 1
      <4>1. refCount'[o] = 0
        BY <3>2, <3>3, <3>4
      <4>2. ~Known(o)'
        BY <1>6, <3>4, <4>1 DEF Known
      <4>3. QED
        BY <1>6, <3>4, <4>2
    <3>5. CASE ~(o = x /\ refCount[o] = 1)
      <4>1. refCount'[o] > 0 <=> refCount[o] > 0 \/ stack = o
        BY <3>2, <3>3, <3>5
      <4>2. Known(o)' <=> Known(o)
        BY <1>6, <4>1 DEF Known
      <4>3. QED
        BY <1>6, <3>1, <3>5, <4>2
    <3>6. QED
      BY <3>4, <3>5
  <2>2. QED
    BY <2>1, LiveAgain DEF CollectionsInv
<1>9. LoopsFit'
  BY <1>2, <1>4, LoopsFitAgain
<1>10. QED
  BY <1>4, <1>5, <1>7, <1>8, <1>9 DEF CollectionsInv

\* A reference to x goes and x is left on the stack.
LEMMA UnrefStep ==
    ASSUME CollectionsInv, Idle, stack = NoObject, UNCHANGED <<program, below, kind>>,
           PointersTypeOK', CursorsFit', OwnersOnly', ArraysAreDense', ParentsStay,
           refers' \in [Holders -> Referred], \A h \in Holders \ Cells : refers'[h] # Beyond,
           links' \in SUBSET Links,
           NEW x \in Object, x \in Objects => refCount[x] > 0,
           Shifted(x, NoObject), refCount' = Released(refCount, x), stack' = x,
           calls' \in Seq(Loop), \A o : ~DyingIn(calls', o) /\ ~HandedBy(calls', o),
           InOrder(calls'), \A c \in LoopsOf(calls') : LoopFits(c)',
           calls' = << >> \/ (Len(calls') = 1 /\ calls'[1].does = "remove")
    PROVE  CollectionsInv'
<1>1. HeapTypeOK /\ NoObject \in Object
  BY DEF CollectionsInv, Object
<1>2. refCount' \in [Objects -> Nat] /\ Recounted(x, NoObject)
  <2>1. Kept(refCount, NoObject) = refCount
    BY DEF Kept
  <2>2. QED
    BY <1>1, <2>1, RecountFacts
<1>3. HeapTypeOK'
  BY <1>1, <1>2 DEF HeapTypeOK
<1>4. CountsMatch'
  BY <1>2, CountsAgain DEF CollectionsInv
<1>5. \A o : /\ ~Dying(o) /\ (InHand(o) <=> o = NoObject)
             /\ ~Dying(o)' /\ (InHand(o)' <=> o = x)
  BY IdleFacts, DyingAndInHand
<1>6. ParentsFit'
  BY <1>3, <1>5, ParentsFitAgain
<1>7. LiveByCount'
  <2>1. ASSUME NEW o \in Objects
        PROVE  (Live(o)' <=> Live(o)) /\ (Known(o)' <=> Known(o))
    <3>1. o # NoObject
      BY ListsAssumption
    <3>2. refCount[o] \in Nat /\ refCount'[o] = refCount[o] - (IF x = o THEN 1 ELSE 0)
                                                + (IF NoObject = o THEN 1 ELSE 0)
      BY <1>1, <1>2 DEF HeapTypeOK, Recounted
    <3>3. refCount'[o] > 0 \/ o = x <=> refCount[o] > 0
      BY <3>1, <3>2
    <3>4. QED
      BY <1>5, <3>1, <3>3 DEF Known, Live
  <2>2. QED
    BY <1>5, <2>1, LiveAgain DEF CollectionsInv
<1>8. LoopsFit'
  BY <1>3, LoopsFitAgain
<1>9. QED
  BY <1>3, <1>4, <1>6, <1>7, <1>8 DEF CollectionsInv

\* Holders are rearranged, or hold nothing more.
LEMMA RearrangeStep ==
    ASSUME CollectionsInv, UNCHANGED <<program, below, kind, refCount, stack>>,
           PointersTypeOK', CursorsFit', OwnersOnly', ArraysAreDense', ParentsStay,
           refers' \in [Holders -> Referred], \A h \in Holders \ Cells : refers'[h] # Beyond,
           links' \in SUBSET Links, Shifted(NoObject, NoObject), calls' = << >>,
           \A o \in Objects : ~Dying(o) /\ ~HandedBy(calls, o)
    PROVE  CollectionsInv'
<1>1. HeapTypeOK'
  BY DEF CollectionsInv, HeapTypeOK
<1>2. CountsMatch'
  <2>1. Recounted(NoObject, NoObject)
    <3> SUFFICES ASSUME NEW o \in Objects
                 PROVE  refCount'[o] = refCount[o] - (IF NoObject = o THEN 1 ELSE 0)
                                       + (IF NoObject = o THEN 1 ELSE 0)
      BY DEF Recounted
    <3>1. o # NoObject /\ refCount'[o] = refCount[o] /\ refCount[o] \in Nat
      BY ListsAssumption DEF CollectionsInv, HeapTypeOK
    <3>2. QED
      BY <3>1
  <2>2. QED
    BY <2>1, CountsAgain DEF CollectionsInv
<1>3. \A o \in Objects : ~Dying(o)' /\ (InHand(o)' <=> InHand(o))
  BY NoLoops, DyingAndInHand
<1>4. ParentsFit'
  BY <1>1, ParentsFitAgain
<1>5. LiveByCount'
  <2>1. \A o \in Objects : (Live(o)' <=> Live(o)) /\ (Known(o)' <=> Known(o))
    BY <1>3 DEF Live, Known
  <2>2. QED
    BY <1>3, <2>1, LiveAgain DEF CollectionsInv
<1>6. LoopsFit'
  BY DEF LoopsFit
<1>7. QED
  BY <1>1, <1>2, <1>4, <1>5, <1>6 DEF CollectionsInv

\* A loop stores another reference to y.
LEMMA KeepStep ==
    ASSUME CollectionsInv, ~Idle, Top.does \in {"load", "clone"},
           UNCHANGED <<program, below, kind, stack>>,
           PointersTypeOK', CursorsFit', OwnersOnly', ArraysAreDense', ParentsStay,
           refers' \in [Holders -> Referred], \A h \in Holders \ Cells : refers'[h] # Beyond,
           links' \in SUBSET Links,
           NEW y \in Object, Shifted(NoObject, y), refCount' = Kept(refCount, y),
           NEW cs \in Seq(Loop), calls' = cs, \A o : ~DyingIn(cs, o),
           \A o \in Objects : HandedBy(cs, o) <=> Top.does = "clone" /\ Top.for = o,
           InOrder(cs), \A c \in LoopsOf(cs) : LoopFits(c)',
           IF Top.does = "load" THEN y = Top.arg ELSE Safe(y)
    PROVE  CollectionsInv'
<1>1. HeapTypeOK /\ LoopsFit /\ NoObject \in Object
  BY DEF CollectionsInv, Object
<1>2. Top \in Loop /\ calls = <<Top>> /\ stack = NoObject
  BY <1>1, TopAndRest, TopFits
<1>3. refCount' \in [Objects -> Nat] /\ Recounted(NoObject, y)
  <2>1. refCount' = Released(Kept(refCount, y), NoObject)
    BY DEF Released
  <2>2. NoObject \notin Objects
    BY ListsAssumption
  <2>3. QED
    BY <1>1, <2>1, <2>2, RecountFacts
<1>4. HeapTypeOK'
  BY <1>1, <1>3 DEF HeapTypeOK
<1>5. CountsMatch'
  BY <1>3, CountsAgain DEF CollectionsInv
<1>6. \A o \in Objects : /\ ~Dying(o) /\ (InHand(o) <=> Hands(Top, o))
                         /\ ~Dying(o)' /\ (InHand(o)' <=> Top.does = "clone" /\ Top.for = o)
  <2>1. NoObject \notin Objects
    BY ListsAssumption
  <2>2. QED
    BY <1>2, <2>1, OneLoop, DyingAndInHand DEF Deletes
<1>7. ParentsFit'
  BY <1>4, <1>6, ParentsFitAgain
<1>8. LiveByCount'
  <2>1. ASSUME NEW o \in Objects
        PROVE  (Live(o)' <=> Live(o)) /\ (Known(o)' <=> Known(o))
    <3>1. o # NoObject
      BY ListsAssumption
    <3>2. refCount[o] \in Nat /\ refCount'[o] = refCount[o] - (IF NoObject = o THEN 1 ELSE 0)
                                                + (IF y = o THEN 1 ELSE 0)
      BY <1>1, <1>3 DEF HeapTypeOK, Recounted
    <3>3. refCount'[o] > 0 <=> refCount[o] > 0 \/ y = o
      BY <3>1, <3>2
    <3>4. refCount'[o] > 0 \/ InHand(o)' <=> refCount[o] > 0 \/ InHand(o)
      <4>1. CASE Top.does = "load"
        BY <1>6, <3>3, <4>1 DEF Hands
      <4>2. CASE Top.does = "clone"
        BY <1>6, <3>1, <3>3, <4>2 DEF Hands, Safe
      <4>3. QED
        BY <4>1, <4>2
    <3>5. QED
      BY <3>4 DEF Known, Live
  <2>2. QED
    BY <1>6, <2>1, LiveAgain DEF CollectionsInv
<1>9. LoopsFit'
  BY <1>2, <1>4, LoopsFitAgain
<1>10. QED
  BY <1>4, <1>5, <1>7, <1>8, <1>9 DEF CollectionsInv

\* A free object is made something.
LEMMA MakeStep ==
    ASSUME CollectionsInv, UNCHANGED <<program, below>>, NEW o \in Objects, kind[o] = "free",
           NEW what \in Kinds \ {"free", "lost"}, kind' = [kind EXCEPT ![o] = what],
           PointersTypeOK', CursorsFit', OwnersOnly', ArraysAreDense', ParentsFit',
           refers' \in [Holders -> Referred], \A h \in Holders \ Cells : refers'[h] # Beyond,
           links' \in SUBSET Links,
           refCount' \in [Objects -> Nat], CountsMatch', refCount'[o] = 0,
           \A p \in Objects \ {o} : refCount'[p] > 0 <=> refCount[p] > 0,
           Safe(stack), stack' \in Object, calls' \in Seq(Loop),
           \A p \in Objects : ~Dying(p) /\ ~HandedBy(calls, p),
           \A p \in Objects : ~Dying(p)' /\ (InHand(p)' <=> p = o), LoopsFit'
    PROVE  CollectionsInv'
<1>1. HeapTypeOK'
  BY DEF CollectionsInv, HeapTypeOK
<1>2. LiveByCount'
  <2>1. ASSUME NEW p \in Objects
        PROVE  \/ /\ Live(p)' <=> Live(p)
                  /\ Dying(p)' <=> Dying(p)
                  /\ Known(p)' <=> Known(p)
               \/ Live(p)' /\ Known(p)' /\ ~Dying(p)'
    <3>1. CASE p = o
      <4>1. kind'[p] = what
        BY <3>1 DEF CollectionsInv, HeapTypeOK
      <4>2. Live(p)'
        BY <4>1 DEF Live
      <4>3. QED
        BY <3>1, <4>2 DEF Known
    <3>2. CASE p # o
      <4>1. kind'[p] = kind[p]
        BY <3>2 DEF CollectionsInv, HeapTypeOK
      <4>2. Live(p)' <=> Live(p)
        BY <4>1 DEF Live
      <4>3. InHand(p) <=> p = stack
        BY DyingAndInHand
      <4>4. p # NoObject
        BY ListsAssumption
      <4>5. refCount'[p] > 0 \/ InHand(p)' <=> refCount[p] > 0 \/ InHand(p)
        BY <3>2, <4>3, <4>4 DEF Safe
      <4>6. QED
        BY <4>2, <4>5 DEF Known
    <3>3. QED
      BY <3>1, <3>2
  <2>2. QED
    BY <2>1, LiveAgain DEF CollectionsInv
<1>3. QED
  BY <1>1, <1>2 DEF CollectionsInv

-----------------------------------------------------------------------------
(* Steps of a loop, below which others wait *)

\* Object o stays as it is.
StaysWhole(o) == kind'[o] = kind[o] /\ Used(o)' = Used(o) /\ cursor'[o] = cursor[o]

\* Holders give up what they have, and what nobody refers to is freed.
GoesOn ==
    /\ \A v \in Vars : refers'[v] = refers[v]
    /\ \A h \in Holders :
           \/ refers'[h] = refers[h]
           \/ refers'[h] = NoObject /\ refers[h] \in Objects
           \/ refers'[h] = Beyond /\ refers[h] = NoObject /\ h \in Cells
    /\ \A o \in Objects : refCount'[o] <= refCount[o]
    /\ \A o \in Objects :
           StaysWhole(o) \/ (kind'[o] \in {"free", "lost"} /\ refCount[o] = 0)

LEMMA CountedStays ==
    ASSUME CollectionsInv, GoesOn, NEW o \in Objects, NEW h \in Holders, refers[h] = o
    PROVE  StaysWhole(o)
<1>1. refCount[o] \in Nat \ {0}
  BY HeldIsCounted DEF CollectionsInv
<1>2. QED
  BY <1>1 DEF GoesOn

LEMMA LoopGoesOn ==
    ASSUME CollectionsInv, GoesOn, refers' \in [Holders -> Referred],
           refCount' \in [Objects -> Nat], NEW c \in Loop, LoopFits(c)
    PROVE  LoopFits(c)'
<1>1. c.for \in Objects /\ c.link \in Link /\ c.arg \in Object
  BY DEF Loop
<1>2. \A o \in Objects : InVar(o) => StaysWhole(o) /\ InVar(o)'
  <2> SUFFICES ASSUME NEW o \in Objects, NEW v \in Vars, refers[v] = o
               PROVE  StaysWhole(o) /\ InVar(o)'
    BY DEF InVar
  <2>1. refers'[v] = refers[v] /\ v \in Holders
    BY CellFacts DEF GoesOn
  <2>2. QED
    BY <2>1, CountedStays DEF InVar
<1>3. \A o \in Objects : kind'[o] \notin {"free", "lost"} => StaysWhole(o)
  BY DEF GoesOn
<1>4. PassedIsReleased(c)'
  <2>1. ASSUME c.link # NoLink, c.does # "clone"
        PROVE  refers'[c.link] = NoObject
    <3>1. c.link \in Links
      BY <1>1, <2>1 DEF Link
    <3>2. c.link \in Holders /\ c.link \notin Cells
      <4>1. Links \subseteq Holders /\ Links \cap Cells = {}
        BY ListsAssumption DEF Holders, Cells
      <4>2. QED
        BY <3>1, <4>1
    <3>3. refers[c.link] = NoObject
      BY <2>1 DEF LoopFits, PassedIsReleased
    <3>4. QED
      BY <3>2, <3>3 DEF GoesOn
  <2>2. ASSUME NEW n \in Used(c.for)', n < c.cell, c.does = "resize" => n > c.number
        PROVE  refers'[<<c.for, n>>] = NoObject
    <3>1. n \in 1 .. MaxElements /\ refers'[<<c.for, n>>] # Beyond
      BY DEF Used
    <3>2. <<c.for, n>> \in Holders
      BY <1>1, <3>1, CellFacts
    <3>3. CASE refers'[<<c.for, n>>] = refers[<<c.for, n>>]
      <4>1. n \in Used(c.for)
        BY <3>1, <3>3 DEF Used
      <4>2. QED
        BY <2>2, <3>3, <4>1 DEF LoopFits, PassedIsReleased
    <3>4. QED
      BY <3>1, <3>2, <3>3 DEF GoesOn
  <2>3. QED
    BY <2>1, <2>2 DEF PassedIsReleased
<1>5. SubjectFits(c)'
  <2>1. ASSUME c.does \in {"clear", "load"}, kind'[c.for] = "intMap"
        PROVE  NoKeySeen(c.for)'
    <3>1. StaysWhole(c.for)
      BY <1>1, <1>3, <2>1
    <3>2. NoKeySeen(c.for)
      BY <2>1, <3>1 DEF LoopFits, SubjectFits, StaysWhole
    <3>3. ASSUME NEW n \in Used(c.for)', NEW i \in Objects, kind'[i] = "intMapIter",
                 refers'[i] = c.for
          PROVE  cursor'[i] # n
      <4>1. StaysWhole(i)
        BY <1>3, <3>3
      <4>2. refers[i] = c.for
        <5>1. i \in Holders /\ i \notin Cells
          BY ListsAssumption DEF Holders, Cells
        <5>2. refers'[i] # NoObject
          BY <1>1, <3>3, ListsAssumption
        <5>3. QED
          BY <3>3, <5>1, <5>2 DEF GoesOn
      <4>3. n \in Used(c.for)
        BY <3>1 DEF StaysWhole
      <4>4. QED
        BY <3>2, <3>3, <4>1, <4>2, <4>3 DEF NoKeySeen, KeyUnseen, StaysWhole
    <3>4. QED
      BY <3>3 DEF NoKeySeen, KeyUnseen
  <2>2. InVar(c.for) => StaysWhole(c.for) /\ InVar(c.for)'
    BY <1>1, <1>2
  <2>3. StaysWhole(c.for) => kind'[c.for] = kind[c.for] /\ Size(c.for)' = Size(c.for)
    BY DEF StaysWhole, Size
  <2>4. QED
    BY <2>1, <2>2, <2>3 DEF LoopFits, SubjectFits
<1>6. ArgumentFits(c)'
  <2>1. \A o \in Objects : refCount[o] = 0 => refCount'[o] = 0
    <3> TAKE o \in Objects
    <3>1. refCount'[o] <= refCount[o] /\ refCount'[o] \in Nat
      BY DEF GoesOn
    <3>2. QED
      BY <3>1
  <2>2. kind'[c.for] = "intMap" => kind[c.for] = "intMap"
    BY <1>1, <1>3 DEF StaysWhole
  <2>3. c.arg # NoObject => c.arg \in Objects
    BY <1>1 DEF Object
  <2>4. QED
    BY <1>1, <1>2, <2>1, <2>2, <2>3 DEF LoopFits, ArgumentFits
<1>7. QED
  BY <1>4, <1>5, <1>6 DEF LoopFits

LEMMA ObjectsGoOn ==
    ASSUME CollectionsInv, GoesOn, refers' \in [Holders -> Referred]
    PROVE  CursorsFit' /\ ArraysAreDense'
<1>1. \A o \in Objects : kind'[o] \notin {"free", "lost"} => StaysWhole(o)
  BY DEF GoesOn
<1>2. ASSUME NEW i \in Objects
      PROVE  /\ kind'[i] = "iter" => cursor'[i] \in Link
             /\ kind'[i] = "arrayIter" => cursor'[i] \in 1 .. MaxElements + 1
             /\ \A m : kind'[i] = "intMapIter" /\ refers'[i] # NoObject /\ m = refers'[i] =>
                    cursor'[i] \in Used(m)' \cup {End}
  <2>1. CASE kind'[i] \in Iterators
    <3>1. StaysWhole(i)
      BY <1>1, <2>1 DEF Iterators
    <3>2. /\ kind[i] = "iter" => cursor[i] \in Link
          /\ kind[i] = "arrayIter" => cursor[i] \in 1 .. MaxElements + 1
          /\ kind[i] = "intMapIter" /\ refers[i] # NoObject =>
                 cursor[i] \in Used(refers[i]) \cup {End}
      BY DEF CollectionsInv, CursorsFit
    <3>3. ASSUME NEW m, refers'[i] # NoObject, m = refers'[i]
          PROVE  m = refers[i] /\ Used(m)' = Used(m)
      <4>1. i \in Holders /\ i \notin Cells
        BY ListsAssumption DEF Holders, Cells
      <4>2. m = refers[i]
        BY <3>3, <4>1 DEF GoesOn
      <4>3. refers[i] # Beyond /\ refers[i] \in Referred
        BY <4>1 DEF CollectionsInv, HeapTypeOK
      <4>4. m \in Objects
        BY <3>3, <4>2, <4>3 DEF Referred, Object
      <4>5. StaysWhole(m)
        BY <4>1, <4>2, <4>4, CountedStays
      <4>6. QED
        BY <4>2, <4>5 DEF StaysWhole
    <3>4. QED
      BY <3>1, <3>2, <3>3 DEF StaysWhole
  <2>2. CASE kind'[i] \notin Iterators
    BY <2>2 DEF Iterators
  <2>3. QED
    BY <2>1, <2>2
<1>3. ArraysAreDense'
  BY <1>1 DEF CollectionsInv, ArraysAreDense, StaysWhole, Size
<1>4. CursorsFit'
  BY <1>2 DEF CursorsFit
<1>5. QED
  BY <1>3, <1>4


\* The loop on top deletes an object that nobody refers to.
LEMMA TopIsDying ==
    ASSUME CollectionsInv, ~Idle, Top.does \in {"delete", "drop"}
    PROVE  /\ Top.for \in Objects /\ Dying(Top.for) /\ refCount[Top.for] = 0
           /\ \A h \in Holders : refers[h] # Top.for
           /\ stack = NoObject /\ ~InHand(Top.for)
<1>1. HeapTypeOK /\ LoopsFit /\ LiveByCount /\ CountsMatch
  BY DEF CollectionsInv
<1>2. /\ Top = calls[1] /\ Top \in Loop /\ Len(calls) \in Nat \ {0}
      /\ Top.does # "remove" => stack = NoObject
  BY <1>1, TopAndRest, TopFits
<1>3. Top.for \in Objects /\ stack = NoObject
  BY <1>2 DEF Loop
<1>4. Dying(Top.for)
  BY <1>2 DEF Dying
<1>5. refCount[Top.for] \in Nat
  BY <1>1, <1>3 DEF HeapTypeOK
<1>6. refCount[Top.for] = 0 /\ ~InHand(Top.for)
  BY <1>1, <1>3, <1>4, <1>5 DEF LiveByCount
<1>7. refCount[Top.for] = Count(refers, Top.for)
  BY <1>1, <1>3 DEF CountsMatch, HoldersOf, Count
<1>8. \A h \in Holders : refers[h] # Top.for
  BY <1>6, <1>7, CountType
<1>9. QED
  BY <1>3, <1>4, <1>6, <1>8

\* An object is freed, or lost, and its deletion ends.
LEMMA FreeStep ==
    ASSUME CollectionsInv, ~Idle, Top.does \in {"delete", "drop"},
           UNCHANGED <<program, below, refCount, links, stack>>, PointersTypeOK', OwnersOnly',
           NEW what \in {"free", "lost"}, kind' = [kind EXCEPT ![Top.for] = what],
           refers' \in [Holders -> Referred], \A h \in Holders \ Cells : refers'[h] = refers[h],
           GoesOn, Shifted(NoObject, NoObject), calls' = Rest
    PROVE  CollectionsInv'
<1>1. HeapTypeOK /\ LoopsFit /\ LiveByCount
  BY DEF CollectionsInv
<1>2. /\ calls = <<Top>> \o Rest /\ Top \in Loop /\ Rest \in Seq(Loop) /\ Len(Rest) \in Nat
      /\ \A j \in 1 .. Len(Rest) : LoopFits(Rest[j])
      /\ \A j \in 1 .. Len(Rest) - 1 : Rest[j].does = "delete"
  BY <1>1, TopAndRest, TopFits
<1>3. /\ Top.for \in Objects /\ refCount[Top.for] = 0 /\ stack = NoObject
      /\ \A h \in Holders : refers[h] # Top.for
      /\ ~InHand(Top.for)
  BY TopIsDying
<1>4. HeapTypeOK'
  BY <1>1, <1>2, <1>3 DEF HeapTypeOK, Kinds
<1>5. CountsMatch'
  <2>1. Recounted(NoObject, NoObject)
    <3> SUFFICES ASSUME NEW o \in Objects
                 PROVE  refCount'[o] = refCount[o] - (IF NoObject = o THEN 1 ELSE 0)
                                       + (IF NoObject = o THEN 1 ELSE 0)
      BY DEF Recounted
    <3>1. o # NoObject /\ refCount'[o] = refCount[o] /\ refCount[o] \in Nat
      BY <1>1, ListsAssumption DEF HeapTypeOK
    <3>2. QED
      BY <3>1
  <2>2. QED
    BY <2>1, CountsAgain DEF CollectionsInv
<1>6. /\ \A o : DyingIn(calls, o) <=> Deletes(Top, o) \/ DyingIn(Rest, o)
      /\ \A o : HandedBy(calls, o) <=> Hands(Top, o) \/ HandedBy(Rest, o)
  BY <1>2, OnLoops
<1>7. \A o \in Objects : /\ InHand(o)' <=> InHand(o)
                         /\ o # Top.for => (Dying(o)' <=> Dying(o))
  BY <1>6, DyingAndInHand DEF Deletes, Hands
<1>8. CursorsFit' /\ ArraysAreDense'
  BY <1>4, ObjectsGoOn DEF HeapTypeOK
<1>9. ASSUME NEW i \in Objects, kind'[i] \in Iterators
      PROVE  IF refers'[i] = NoObject THEN Dying(i)' ELSE kind'[refers'[i]] = ParentKind(kind'[i])
  <2>1. i # Top.for /\ kind'[i] = kind[i]
    BY <1>1, <1>3, <1>9 DEF Iterators, HeapTypeOK
  <2>2. i \in Holders \ Cells
    BY CellFacts
  <2>3. refers'[i] = refers[i] /\ refers[i] # Top.for /\ refers[i] \in Object
    BY <1>1, <1>3, <2>2 DEF HeapTypeOK, Referred
  <2>4. IF refers[i] = NoObject THEN Dying(i) ELSE kind[refers[i]] = ParentKind(kind[i])
    BY <1>9, <2>1 DEF CollectionsInv, ParentsFit
  <2>5. refers[i] # NoObject => kind'[refers[i]] = kind[refers[i]]
    BY <1>1, <2>3 DEF HeapTypeOK, Object
  <2>6. QED
    BY <1>7, <2>1, <2>3, <2>4, <2>5
<1>10. ParentsFit'
  BY <1>9 DEF ParentsFit
<1>11. LiveByCount'
  <2>1. ASSUME NEW o \in Objects
        PROVE  \/ /\ Live(o)' <=> Live(o)
                  /\ Dying(o)' <=> Dying(o)
                  /\ Known(o)' <=> Known(o)
               \/ ~Known(o)' /\ ~Live(o)'
    <3>1. Known(o)' <=> Known(o)
      BY <1>7 DEF Known
    <3>2. CASE o = Top.for
      <4>1. kind'[o] = what
        BY <1>1, <3>2 DEF HeapTypeOK
      <4>2. ~Known(o)
        BY <1>3, <3>2 DEF Known
      <4>3. QED
        BY <3>1, <4>1, <4>2 DEF Live
    <3>3. CASE o # Top.for
      <4>1. kind'[o] = kind[o]
        BY <1>1, <1>3, <3>3 DEF HeapTypeOK
      <4>2. QED
        BY <1>7, <3>1, <3>3, <4>1 DEF Live
    <3>4. QED
      BY <3>2, <3>3
  <2>2. QED
    BY <1>1, <2>1, LiveAgain
<1>12. LoopsFit'
  <2>1. PICK rest \in Seq(Loop) : rest = Rest
    BY <1>2
  <2>2. \A j \in 1 .. Len(rest) : rest[j] \in Loop /\ LoopFits(rest[j])
    BY <1>2, <2>1
  <2>3. refers' \in [Holders -> Referred] /\ refCount' \in [Objects -> Nat]
    BY <1>4 DEF HeapTypeOK
  <2>4. ASSUME NEW c \in Loop, LoopFits(c)
        PROVE  LoopFits(c)'
    BY <2>3, <2>4, LoopGoesOn
  <2>5. \A c \in LoopsOf(rest) : LoopFits(c)'
    BY <2>2, <2>4 DEF LoopsOf
  <2>6. InOrder(rest) /\ calls' = rest /\ stack' = NoObject
    BY <1>2, <1>3, <2>1 DEF InOrder
  <2>7. QED
    BY <1>4, <2>5, <2>6, LoopsFitAgain
<1>13. QED
  BY <1>4, <1>5, <1>8, <1>10, <1>11, <1>12 DEF CollectionsInv


-----------------------------------------------------------------------------
(* Cursors and holders, one at a time *)

\* What iterator i may stand at.
OwnCursor(i, k) ==
    /\ kind[i] = "iter" => k \in Link
    /\ kind[i] = "arrayIter" => k \in 1 .. MaxElements + 1
    /\ kind[i] = "intMapIter" /\ refers[i] # NoObject => k \in Used(refers[i]) \cup {End}
CursorsOwn == \A i \in Objects : OwnCursor(i, cursor'[i])

LEMMA CursorsMoved ==
    ASSUME CursorsFit,
           \/ cursor' = cursor
           \/ \E i \in Objects : \E k : OwnCursor(i, k) /\ cursor' = [cursor EXCEPT ![i] = k],
           cursor \in [Objects -> Link \cup Nat]
    PROVE  CursorsOwn
<1>1. \A i \in Objects : OwnCursor(i, cursor[i])
  BY DEF CursorsFit, OwnCursor
<1>2. QED
  BY <1>1 DEF CursorsOwn

LEMMA CursorMoved ==
    ASSUME CollectionsInv, NEW i \in Objects, NEW k, OwnCursor(i, k), k \in Link \cup Nat,
           cursor' = [cursor EXCEPT ![i] = k]
    PROVE  CursorsOwn /\ cursor' \in [Objects -> Link \cup Nat]
<1>1. CursorsFit /\ cursor \in [Objects -> Link \cup Nat]
  BY DEF CollectionsInv, PointersTypeOK
<1>2. cursor' \in [Objects -> Link \cup Nat]
  BY <1>1
<1>3. CursorsOwn
  BY <1>1, CursorsMoved
<1>4. QED
  BY <1>2, <1>3

LEMMA CursorsStay ==
    ASSUME CollectionsInv, cursor' = cursor
    PROVE  CursorsOwn /\ cursor' \in [Objects -> Link \cup Nat]
<1>1. CursorsFit /\ cursor \in [Objects -> Link \cup Nat]
  BY DEF CollectionsInv, PointersTypeOK
<1>2. QED
  BY <1>1, CursorsMoved

\* The cells in use stay.
UsedStay == \A a \in Objects : Used(a)' = Used(a)

LEMMA UsedAgain ==
    ASSUME CollectionsInv, kind' = kind, UsedStay, ParentsStay, CursorsOwn
    PROVE  ArraysAreDense' /\ CursorsFit'
<1>1. ArraysAreDense'
  BY DEF CollectionsInv, ArraysAreDense, UsedStay, Size
<1>2. ASSUME NEW i \in Objects
      PROVE  /\ kind'[i] = "iter" => cursor'[i] \in Link
             /\ kind'[i] = "arrayIter" => cursor'[i] \in 1 .. MaxElements + 1
             /\ \A m : kind'[i] = "intMapIter" /\ refers'[i] # NoObject /\ m = refers'[i] =>
                    cursor'[i] \in Used(m)' \cup {End}
  <2>1. OwnCursor(i, cursor'[i])
    BY DEF CursorsOwn
  <2>2. ASSUME NEW m, kind'[i] = "intMapIter", refers'[i] # NoObject, m = refers'[i]
        PROVE  m = refers[i] /\ Used(m)' = Used(m)
    <3>1. m = refers[i]
      BY <2>2 DEF ParentsStay
    <3>2. i \in Holders \ Cells
      BY CellFacts
    <3>3. refers[i] # Beyond /\ refers[i] \in Referred
      BY <3>2 DEF CollectionsInv, HeapTypeOK
    <3>4. m \in Objects
      BY <2>2, <3>1, <3>3 DEF Referred, Object
    <3>5. QED
      BY <3>1, <3>4 DEF UsedStay
  <2>3. QED
    BY <2>1, <2>2 DEF OwnCursor
<1>3. QED
  BY <1>1, <1>2 DEF CursorsFit

LEMMA UsedSame ==
    ASSUME \A h \in Cells : refers'[h] = Beyond <=> refers[h] = Beyond
    PROVE  UsedStay
BY CellFacts DEF UsedStay, Used

\* A holder that may refer to an object comes to refer to y.
MayHold(h) ==
    \/ h \in Vars
    \/ h \in Links /\ h \in links'
    \/ h \in Cells /\ \E a \in Objects, n \in 1 .. MaxElements : h = <<a, n>> /\ kind[a] \in HasCells

LEMMA HoldsFacts ==
    ASSUME CollectionsInv, kind' = kind, NEW h \in Holders, NEW y,
           refers' = [refers EXCEPT ![h] = y], y \in Object \/ (y = Beyond /\ h \in Cells),
           MayHold(h) \/ (y = NoObject /\ (h \in Objects => Dying(h)) /\ h \notin Cells),
           \A k \in Links \ links' : refers[k] = NoObject
    PROVE  /\ refers' \in [Holders -> Referred] /\ \A g \in Holders \ Cells : refers'[g] # Beyond
           /\ OwnersOnly' /\ ParentsStay /\ Shifted(refers[h], y)
           /\ y = Beyond \/ refers[h] = Beyond \/ UsedStay
<1>1. HeapTypeOK /\ OwnersOnly /\ refers \in [Holders -> Referred]
      /\ \A g \in Holders \ Cells : refers[g] # Beyond
  BY DEF CollectionsInv, HeapTypeOK
<1>2. refers' \in [Holders -> Referred] /\ \A g \in Holders \ Cells : refers'[g] # Beyond
  <2>1. y \in Referred
    BY DEF Referred
  <2>2. y = Beyond => h \in Cells
    BY ListsAssumption DEF Object
  <2>3. QED
    BY <1>1, <2>1, <2>2
<1>3. Shifted(refers[h], y)
  BY <1>1, ShiftedOne
<1>4. ParentsStay
  <2> SUFFICES ASSUME NEW i \in Objects
               PROVE  refers'[i] = refers[i] \/ (refers'[i] = NoObject /\ Dying(i))
    BY DEF ParentsStay
  <2>1. i \in Holders /\ i \notin Cells /\ i \notin Links /\ i \notin Vars
    BY CellFacts, ListsAssumption
  <2>2. CASE i # h
    BY <1>1, <2>1, <2>2
  <2>3. CASE i = h
    BY <1>1, <2>1, <2>3 DEF MayHold
  <2>4. QED
    BY <2>2, <2>3
<1>5. OwnersOnly'
  <2>1. \A k \in Links \ links' : refers'[k] = NoObject
    <3> TAKE k \in Links \ links'
    <3>1. k \in Holders /\ k \notin Cells /\ k \notin Vars /\ refers[k] = NoObject
      BY CellFacts, ListsAssumption
    <3>2. QED
      BY <1>1, <3>1 DEF MayHold
  <2>2. \A o \in Objects : kind[o] \notin Iterators => refers'[o] = NoObject
    BY <1>1, <1>4 DEF ParentsStay, OwnersOnly
  <2>3. ASSUME NEW o \in Objects, kind[o] \notin HasCells
        PROVE  Used(o)' = {}
    <3>1. Used(o) = {}
      BY <1>1, <2>3 DEF OwnersOnly
    <3>2. ASSUME NEW n \in 1 .. MaxElements
          PROVE  refers'[<<o, n>>] = Beyond
      <4>1. refers[<<o, n>>] = Beyond
        BY <3>1 DEF Used
      <4>2. /\ <<o, n>> \in Cells /\ <<o, n>> \in Holders
            /\ <<o, n>> \notin Vars /\ <<o, n>> \notin Links
        BY CellFacts
      <4>3. h # <<o, n>>
        BY <2>3, <4>2 DEF MayHold
      <4>4. QED
        BY <1>1, <4>1, <4>2, <4>3
    <3>3. QED
      BY <3>2 DEF Used
  <2>4. QED
    BY <2>1, <2>2, <2>3 DEF OwnersOnly
<1>6. ASSUME y # Beyond, refers[h] # Beyond
      PROVE  UsedStay
  <2>1. \A g \in Cells : refers'[g] = Beyond <=> refers[g] = Beyond
    <3>1. Cells \subseteq Holders
      BY DEF Holders
    <3>2. QED
      BY <1>1, <1>6, <3>1
  <2>2. QED
    BY <2>1, UsedSame
<1>7. QED
  BY <1>2, <1>3, <1>4, <1>5, <1>6


-----------------------------------------------------------------------------
(* The steps of deletions and of the loops that give up references *)

\* A holder gives up its reference, and the loop goes on with c.
LEMMA ReleaseStep ==
    ASSUME CollectionsInv, ~Idle, Top.does \in {"delete", "drop", "clear", "resize", "load"},
           UNCHANGED <<program, below, kind, links, cursor, stack>>, PointersTypeOK',
           NEW h \in Holders \ Vars, refers[h] # Beyond,
           h \in Cells => MayHold(h), h \in Objects => Dying(h),
           NEW c \in Loop, Release(h, <<c>> \o Rest),
           c.does = Top.does, c.for = Top.for, c.arg = Top.arg, c.number = Top.number,
           PassedIsReleased(c)'
    PROVE  CollectionsInv'
<1>1. HeapTypeOK /\ PointersTypeOK /\ LoopsFit /\ CountsMatch /\ OwnersOnly
  BY DEF CollectionsInv
<1>2. /\ calls = <<Top>> \o Rest /\ Top \in Loop /\ Rest \in Seq(Loop) /\ Len(Rest) \in Nat
      /\ LoopFits(Top) /\ stack = NoObject
      /\ \A j \in 1 .. Len(Rest) : LoopFits(Rest[j])
      /\ \A j \in 1 .. Len(Rest) - 1 : Rest[j].does = "delete"
      /\ Top.does # "delete" => Rest = << >>
  BY <1>1, TopAndRest, TopFits
<1>3. PICK rest \in Seq(Loop), top \in Loop : rest = Rest /\ top = Top
  BY <1>2
<1>4. refers' = [refers EXCEPT ![h] = NoObject] /\ refCount' = Released(refCount, refers[h])
      /\ calls' = AndDelete(refers[h], <<c>> \o rest)
  BY <1>3 DEF Release
<1>5. NoObject \in Object /\ NoObject # Beyond /\ h \in Holders
  BY ListsAssumption DEF Object
<1>6. \A k \in Links \ links' : refers[k] = NoObject
  BY <1>1 DEF OwnersOnly
<1>7. kind' = kind /\ cursor' = cursor /\ stack' = stack
  OBVIOUS
<1>10. MayHold(h) \/ (NoObject = NoObject /\ (h \in Objects => Dying(h)) /\ h \notin Cells)
  OBVIOUS
<1>11. /\ refers' \in [Holders -> Referred] /\ \A g \in Holders \ Cells : refers'[g] # Beyond
       /\ OwnersOnly' /\ ParentsStay /\ Shifted(refers[h], NoObject)
       /\ UsedStay
  BY <1>4, <1>5, <1>6, <1>7, <1>10, HoldsFacts
<1>12. CursorsOwn
  BY <1>7, CursorsStay
<1>13. ArraysAreDense' /\ CursorsFit'
  BY <1>7, <1>11, <1>12, UsedAgain
<1>14. refers[h] \in Object /\ (refers[h] \in Objects => refCount[refers[h]] > 0)
  <2>1. refers[h] \in Object
    BY <1>1, <1>5 DEF HeapTypeOK, Referred
  <2>2. refers[h] \in Objects => refCount[refers[h]] \in Nat \ {0}
    BY <1>1, <1>5, HeldIsCounted
  <2>3. QED
    BY <2>1, <2>2
<1>15. refCount' = Released(Kept(refCount, stack), refers[h])
  BY <1>2, <1>4 DEF Kept
<1>16. refCount' \in [Objects -> Nat] /\ \A o \in Objects : refCount'[o] <= refCount[o]
  <2>1. refCount' \in [Objects -> Nat] /\ Recounted(refers[h], NoObject)
    BY <1>1, <1>2, <1>5, <1>14, <1>15, RecountFacts
  <2>2. ASSUME NEW o \in Objects
        PROVE  refCount'[o] <= refCount[o]
    <3>1. o # NoObject /\ refCount[o] \in Nat
      BY <1>1, ListsAssumption DEF HeapTypeOK
    <3>2. refCount'[o] = refCount[o] - (IF refers[h] = o THEN 1 ELSE 0)
                         + (IF NoObject = o THEN 1 ELSE 0)
      BY <2>1 DEF Recounted
    <3>3. QED
      BY <3>1, <3>2
  <2>3. QED
    BY <2>1, <2>2
<1>17. GoesOn
  <2>1. \A v \in Vars : refers'[v] = refers[v]
    BY <1>1, <1>4, <1>5, CellFacts DEF HeapTypeOK
  <2>2. \A g \in Holders : refers'[g] = refers[g] \/ (refers'[g] = NoObject /\ refers[g] \in Objects)
    <3> TAKE g \in Holders
    <3>1. g # h => refers'[g] = refers[g]
      BY <1>1, <1>4 DEF HeapTypeOK
    <3>2. g = h => refers'[g] = NoObject
      BY <1>1, <1>4 DEF HeapTypeOK
    <3>3. QED
      BY <1>14, <3>1, <3>2 DEF Object
  <2>3. \A o \in Objects : StaysWhole(o)
    BY <1>7, <1>11 DEF StaysWhole, UsedStay
  <2>4. QED
    BY <1>16, <2>1, <2>2, <2>3 DEF GoesOn
<1>18. ASSUME NEW d \in Loop, LoopFits(d)
       PROVE  LoopFits(d)'
  BY <1>11, <1>16, <1>17, <1>18, LoopGoesOn
<1>19. LoopFits(c)'
  <2>1. LoopFits(top)'
    BY <1>2, <1>3, <1>18
  <2>2. SubjectFits(c)' /\ ArgumentFits(c)'
    BY <1>3, <2>1 DEF LoopFits, SubjectFits, ArgumentFits
  <2>3. QED
    BY <2>2 DEF LoopFits
<1> DEFINE cs == <<c>> \o rest
<1>20. /\ cs \in Seq(Loop) /\ Len(cs) = Len(rest) + 1 /\ cs[1] = c
       /\ \A j \in 1 .. Len(rest) : cs[j + 1] = rest[j]
       /\ \A o : DyingIn(cs, o) <=> Deletes(c, o) \/ DyingIn(rest, o)
       /\ \A o : HandedBy(cs, o) <=> Hands(c, o) \/ HandedBy(rest, o)
  BY OnLoops
<1>21. /\ \A o : DyingIn(calls, o) <=> Deletes(Top, o) \/ DyingIn(Rest, o)
       /\ \A o : HandedBy(calls, o) <=> Hands(Top, o) \/ HandedBy(Rest, o)
  BY <1>2, OnLoops
<1> HIDE DEF cs
<1>22. SameDeeds(calls, cs)
  BY <1>3, <1>20, <1>21 DEF SameDeeds, Deletes, Hands
<1>23. \A j \in 1 .. Len(cs) : j = 1 \/ (j - 1 \in 1 .. Len(rest) /\ cs[j] = rest[j - 1])
  <2> TAKE j \in 1 .. Len(cs)
  <2>1. j # 1 => j - 1 \in 1 .. Len(rest) /\ (j - 1) + 1 = j
    BY <1>2, <1>3, <1>20
  <2>2. QED
    BY <1>20, <2>1
<1>24. InOrder(cs)
  <2> SUFFICES ASSUME NEW j \in 1 .. Len(cs) - 1
               PROVE  cs[j].does = "delete"
    BY DEF InOrder
  <2>1. j # 1 => j - 1 \in 1 .. Len(rest) - 1 /\ cs[j] = rest[j - 1]
    BY <1>2, <1>3, <1>20, <1>23
  <2>2. j = 1 => Len(rest) # 0 /\ cs[j] = c
    BY <1>2, <1>3, <1>20
  <2>3. QED
    BY <1>2, <1>3, <2>1, <2>2
<1>25. \A d \in LoopsOf(cs) : LoopFits(d)'
  <2>1. ASSUME NEW j \in 1 .. Len(cs)
        PROVE  LoopFits(cs[j])'
    <3>1. CASE j = 1
      BY <1>19, <1>20, <3>1
    <3>2. CASE j # 1
      <4>0. PICK i \in 1 .. Len(rest) : cs[j] = rest[i]
        BY <1>23, <3>2
      <4>1. PICK d \in Loop : d = cs[j] /\ LoopFits(d)
        <5>1. rest[i] \in Loop /\ rest[i] = Rest[i] /\ i \in 1 .. Len(Rest)
          BY <1>3, <4>0
        <5>2. LoopFits(Rest[i])
          BY <1>2, <5>1
        <5>3. QED
          BY <4>0, <5>1, <5>2
      <4>2. LoopFits(d)'
        BY <1>18, <4>1
      <4>3. QED
        BY <4>1, <4>2
    <3>3. QED
      BY <3>1, <3>2
  <2>2. QED
    BY <2>1 DEF LoopsOf
<1>26. refers[h] \in Objects /\ refCount[refers[h]] = 1 => ~HandedBy(calls, refers[h])
  BY <1>1, HandedIsSafe
<1>27. PICK x \in Object : x = refers[h]
  BY <1>14
<1>28. x = stack => x = NoObject
  BY <1>2
<1>29. links' \in SUBSET Links
  BY <1>1 DEF HeapTypeOK
<1>30. calls' = AndDelete(x, cs) /\ stack' = NoObject
  BY <1>2, <1>4, <1>7, <1>27 DEF cs
<1>31. Shifted(x, stack) /\ refCount' = Released(Kept(refCount, stack), x)
       /\ (x \in Objects => refCount[x] > 0)
       /\ (x \in Objects /\ refCount[x] = 1 => ~HandedBy(calls, x))
  BY <1>2, <1>11, <1>14, <1>15, <1>26, <1>27
<1>32. QED
  BY <1>11, <1>13, <1>20, <1>22, <1>24, <1>25, <1>28, <1>29, <1>30, <1>31, ExchangeStep


\* The parts of the invariant that most steps need.
LEMMA InvFacts ==
    ASSUME CollectionsInv
    PROVE  /\ HeapTypeOK /\ PointersTypeOK /\ LoopsFit /\ CountsMatch /\ OwnersOnly /\ LiveByCount
           /\ kind \in [Objects -> Kinds] /\ refCount \in [Objects -> Nat]
           /\ refers \in [Holders -> Referred] /\ \A h \in Holders \ Cells : refers[h] \in Object
           /\ \A h \in Holders : refers[h] # Beyond => refers[h] \in Object
           /\ links \in SUBSET Links /\ stack \in Object /\ NoObject \in Object
           /\ NoObject \notin Objects /\ Beyond \notin Object /\ NoLink \notin Links
           /\ \A o \in Object : o # NoObject => o \in Objects
           /\ \A k \in Link : k # NoLink => k \in Links
<1>1. \A h \in Holders : refers[h] # Beyond => refers[h] \in Object
  BY DEF CollectionsInv, HeapTypeOK, Referred
<1>2. QED
  BY <1>1, ListsAssumption, CellFacts
     DEF CollectionsInv, HeapTypeOK, Referred, Object, Link

LEMMA ReleaseElementInv ==
    ASSUME CollectionsInv, ReleaseElement, UNCHANGED <<program, below>>
    PROVE  CollectionsInv'
<1>1. /\ ~Idle /\ Top.does \in {"delete", "drop", "clear", "load"} /\ kind[Top.for] = "list"
      /\ Top.link = NoLink /\ Top.cur # NoLink
      /\ Release(Top.cur, <<[Top EXCEPT !.link = Top.cur, !.cur = next[Top.cur]]>> \o Rest)
      /\ UNCHANGED <<program, below, kind, links, cursor, stack>> /\ UNCHANGED <<head, tail, next, prev>>
  BY DEF ReleaseElement
<1>2. Top \in Loop
  BY <1>1, InvFacts, TopAndRest
<1>3. Top.cur \in Links
  BY <1>1, <1>2, InvFacts DEF Loop
<1>4. next[Top.cur] \in Link
  BY <1>3, InvFacts DEF PointersTypeOK
<1>5. PICK c \in Loop : c = [Top EXCEPT !.link = Top.cur, !.cur = next[Top.cur]]
  BY <1>2, <1>3, <1>4 DEF Loop, Link
<1>6. c.does = Top.does /\ c.for = Top.for /\ c.arg = Top.arg /\ c.number = Top.number /\ c.link = Top.cur
  BY <1>2, <1>5 DEF Loop
<1>7. PICK h \in Links : h = Top.cur
  BY <1>3
<1>8. h \in Holders \ Vars /\ h \in Holders \ Cells /\ refers[h] # Beyond
  BY CellFacts, ListsAssumption, InvFacts
<1>9. refers' = [refers EXCEPT ![h] = NoObject]
  BY <1>1, <1>7 DEF Release
<1>10. PassedIsReleased(c)'
  <2>1. refers'[c.link] = NoObject
    BY <1>6, <1>7, <1>8, <1>9, InvFacts
  <2>2. Used(c.for) = {}
    BY <1>1, <1>2, <1>6, InvFacts DEF OwnersOnly, HasCells, Loop
  <2>3. UsedStay
    <3>1. \A g \in Cells : refers'[g] = refers[g]
      BY <1>8, <1>9, InvFacts DEF Holders
    <3>2. QED
      BY <3>1, UsedSame
  <2>4. c.for \in Objects
    BY <1>2, <1>6 DEF Loop
  <2>5. Used(c.for)' = {}
    BY <2>2, <2>3, <2>4 DEF UsedStay
  <2>6. QED
    BY <2>1, <2>5 DEF PassedIsReleased
<1>11. PointersTypeOK'
  <2>1. NoLink \in Link
    BY DEF Link
  <2>2. QED
    BY <1>1, <2>1, InvFacts DEF PointersTypeOK
<1>12. Release(h, <<c>> \o Rest)
  BY <1>1, <1>5, <1>7
<1>13. h \notin Cells /\ h \notin Objects
  BY <1>8, ListsAssumption
<1>14. QED
  BY <1>1, <1>6, <1>8, <1>10, <1>11, <1>12, <1>13, ReleaseStep

LEMMA ReleaseParentInv ==
    ASSUME CollectionsInv, ReleaseParent, UNCHANGED <<program, below>>
    PROVE  CollectionsInv'
<1>1. /\ ~Idle /\ Top.does \in {"delete", "drop"} /\ kind[Top.for] \in Iterators
      /\ Release(Top.for, calls)
      /\ UNCHANGED <<program, below, kind, links, cursor, stack>> /\ UNCHANGED <<head, tail, next, prev>>
  BY DEF ReleaseParent, shape
<1>2. Top \in Loop /\ calls = <<Top>> \o Rest
  BY <1>1, InvFacts, TopAndRest
<1>3. PICK c \in Loop : c = Top
  BY <1>2
<1>4. PICK h \in Objects : h = Top.for
  BY <1>2 DEF Loop
<1>5. h \in Holders \ Vars /\ h \in Holders \ Cells /\ refers[h] # Beyond /\ h \notin Links
  BY CellFacts, ListsAssumption, InvFacts
<1>6. Dying(h)
  BY <1>1, <1>4, TopIsDying
<1>7. refers' = [refers EXCEPT ![h] = NoObject]
  BY <1>1, <1>4 DEF Release
<1>8. PassedIsReleased(c)'
  <2>1. PassedIsReleased(c)
    BY <1>1, <1>3, InvFacts, TopFits DEF LoopFits
  <2>2. Used(c.for) = {}
    <3>1. kind[h] \notin HasCells
      BY <1>1, <1>4 DEF Iterators, HasCells
    <3>2. QED
      BY <1>3, <1>4, <3>1, InvFacts DEF OwnersOnly
  <2>3. UsedStay
    <3>1. \A g \in Cells : refers'[g] = refers[g]
      BY <1>5, <1>7, InvFacts DEF Holders
    <3>2. QED
      BY <3>1, UsedSame
  <2>4. Used(c.for)' = {}
    BY <1>3, <1>4, <2>2, <2>3 DEF UsedStay
  <2>5. c.link # NoLink => refers'[c.link] = refers[c.link]
    <3>1. c.link # NoLink => c.link \in Links
      BY InvFacts DEF Loop
    <3>2. QED
      BY <1>5, <1>7, <3>1, CellFacts, InvFacts
  <2>6. QED
    BY <2>1, <2>4, <2>5 DEF PassedIsReleased
<1>9. PointersTypeOK'
  BY <1>1, InvFacts DEF PointersTypeOK
<1>10. Release(h, <<c>> \o Rest)
  BY <1>1, <1>2, <1>3, <1>4
<1>11. QED
  BY <1>1, <1>3, <1>5, <1>6, <1>8, <1>9, <1>10, ReleaseStep

LEMMA ReleaseCellInv ==
    ASSUME CollectionsInv, ReleaseCell, UNCHANGED <<program, below>>
    PROVE  CollectionsInv'
<1>1. /\ ~Idle /\ Top.does \in {"delete", "drop", "clear", "resize", "load"}
      /\ kind[Top.for] \in HasCells
      /\ NotPassed # {}
      /\ UNCHANGED <<program, below, kind, links, cursor, stack>> /\ UNCHANGED <<head, tail, next, prev>>
  BY DEF ReleaseCell, OverCells, HasCells, shape
<1>2. Top \in Loop /\ LoopFits(Top)
  BY <1>1, InvFacts, TopAndRest, TopFits
<1>3. PICK a \in Objects : a = Top.for
  BY <1>2 DEF Loop
<1>4. NotPassed \in SUBSET Nat
  BY DEF NotPassed, Used
<1>5. PICK n \in NotPassed : /\ \A k \in NotPassed : n <= k
                             /\ Release(<<Top.for, n>>, <<[Top EXCEPT !.cell = n + 1]>> \o Rest)
  <2>1. \E m \in NotPassed : \A k \in NotPassed : m <= k
    BY <1>1, <1>4, LeastOf
  <2>2. QED
    BY <2>1 DEF ReleaseCell
<1>6. /\ n \in 1 .. MaxElements /\ n \in Used(a) /\ n >= Top.cell /\ Top.cell \in Nat
      /\ refers[<<a, n>>] # Beyond
  BY <1>2, <1>3 DEF NotPassed, Used, Loop
<1>7. PICK h \in Cells : h = <<a, n>>
  BY <1>6, CellFacts
<1>8. h \in Holders \ Vars /\ h \notin Objects /\ h \notin Links /\ refers[h] # Beyond
  BY <1>6, <1>7, CellFacts
<1>9. MayHold(h)
  BY <1>1, <1>3, <1>6, <1>7 DEF MayHold
<1>10. PICK c \in Loop : c = [Top EXCEPT !.cell = n + 1]
  <2>1. n + 1 \in Nat
    BY <1>6
  <2>2. QED
    BY <1>2, <2>1 DEF Loop
<1>11. /\ c.does = Top.does /\ c.for = Top.for /\ c.arg = Top.arg /\ c.number = Top.number
       /\ c.link = Top.link /\ c.cell = n + 1
  BY <1>2, <1>10 DEF Loop
<1>12. refers' = [refers EXCEPT ![h] = NoObject]
  BY <1>3, <1>5, <1>7 DEF Release
<1>13. PassedIsReleased(c)'
  <2>1. PassedIsReleased(Top)
    BY <1>2 DEF LoopFits
  <2>2. c.link # NoLink => refers'[c.link] = refers[c.link]
    <3>1. c.link # NoLink => c.link \in Links
      BY InvFacts DEF Loop
    <3>2. QED
      BY <1>8, <1>12, <3>1, CellFacts, InvFacts
  <2>3. ASSUME NEW m \in Used(c.for)', m < c.cell, c.does = "resize" => m > c.number
        PROVE  refers'[<<c.for, m>>] = NoObject
    <3>1. m \in 1 .. MaxElements /\ refers'[<<a, m>>] # Beyond /\ <<a, m>> \in Holders
      BY <1>3, <1>11, CellFacts DEF Used
    <3>2. CASE m = n
      BY <1>3, <1>7, <1>8, <1>11, <1>12, <3>2, InvFacts
    <3>3. CASE m # n
      <4>1. refers'[<<a, m>>] = refers[<<a, m>>]
        BY <1>7, <1>8, <1>12, <3>1, <3>3, InvFacts
      <4>2. m \in Used(Top.for) /\ <<a, m>> = <<Top.for, m>>
        BY <1>3, <3>1, <4>1 DEF Used
      <4>3. m < n
        BY <1>6, <1>11, <2>3, <3>1, <3>3
      <4>4. ~(m >= Top.cell)
        BY <1>5, <1>6, <3>1, <4>2, <4>3 DEF NotPassed
      <4>5. m < Top.cell
        BY <1>6, <3>1, <4>4
      <4>6. QED
        BY <1>3, <1>11, <2>1, <2>3, <4>1, <4>2, <4>5 DEF PassedIsReleased
    <3>4. QED
      BY <3>2, <3>3
  <2>4. QED
    BY <1>11, <2>1, <2>2, <2>3 DEF PassedIsReleased
<1>14. PointersTypeOK'
  BY <1>1, InvFacts DEF PointersTypeOK
<1>15. Release(h, <<c>> \o Rest)
  BY <1>3, <1>5, <1>7, <1>10
<1>16. QED
  BY <1>1, <1>8, <1>9, <1>11, <1>13, <1>14, <1>15, ReleaseStep


\* Nothing else is referred to than before.
LEMMA SameReferences ==
    ASSUME \A h \in Holders :
               refers'[h] = refers[h] \/ (refers[h] \notin Objects /\ refers'[h] \notin Objects)
    PROVE  Shifted(NoObject, NoObject)
<1> SUFFICES ASSUME NEW o \in Objects
             PROVE  Turned(refers, refers', NoObject, NoObject, o)
  BY DEF Shifted
<1>1. {h \in Holders : refers'[h] = o} = {h \in Holders : refers[h] = o}
  OBVIOUS
<1>2. Count(refers', o) = Count(refers, o) /\ Count(refers, o) \in Nat
  BY <1>1, CountType DEF Count
<1>3. o # NoObject
  BY ListsAssumption
<1>4. QED
  BY <1>2, <1>3 DEF Turned

LEMMA TopFields ==
    ASSUME CollectionsInv, ~Idle
    PROVE  /\ Top \in Loop /\ LoopFits(Top)
           /\ Top.for \in Objects /\ Top.cur \in Link /\ Top.link \in Link /\ Top.arg \in Object
           /\ Top.cell \in Nat /\ Top.number \in Nat
<1>1. Top \in Loop /\ LoopFits(Top)
  BY InvFacts, TopAndRest, TopFits
<1>2. Top \in Loop
  BY <1>1
<1>3. /\ Top.for \in Objects /\ Top.cur \in Link /\ Top.link \in Link /\ Top.arg \in Object
      /\ Top.cell \in Nat /\ Top.number \in Nat
  BY <1>2 DEF Loop
<1>4. QED
  BY <1>1, <1>3

LEMMA FreeObjectInv ==
    ASSUME CollectionsInv, FreeObject, UNCHANGED <<program, below>>
    PROVE  CollectionsInv'
<1>1. /\ ~Idle /\ Top.does \in {"delete", "drop"}
      /\ kind[Top.for] \in {"item", "list"} \cup Iterators
      /\ kind[Top.for] \in Iterators => refers[Top.for] = NoObject
      /\ kind' = [kind EXCEPT ![Top.for] = IF Top.does = "delete" THEN "free" ELSE "lost"]
      /\ head' = Forget(head, Top.for) /\ tail' = Forget(tail, Top.for)
      /\ cursor' = Forget(cursor, Top.for)
      /\ calls' = Rest
      /\ UNCHANGED <<program, below, refCount, refers, links, next, prev, stack>>
  BY DEF FreeObject
<1>2. PICK o \in Objects : o = Top.for
  BY <1>1, TopFields
<1>3. PICK what \in {"free", "lost"} : kind' = [kind EXCEPT ![Top.for] = what]
  BY <1>1
<1>4. refers' = refers /\ refCount' = refCount /\ links' = links
  BY <1>1
<1>5. kind'[o] = what /\ \A p \in Objects \ {o} : kind'[p] = kind[p] /\ cursor'[p] = cursor[p]
  BY <1>1, <1>2, <1>3, InvFacts DEF Forget, PointersTypeOK
<1>6. refCount[o] = 0
  BY <1>1, <1>2, TopIsDying
<1>7. PointersTypeOK'
  <2>1. NoLink \in Link
    BY DEF Link
  <2>2. QED
    BY <1>1, <2>1, InvFacts DEF PointersTypeOK, Forget
<1>8. OwnersOnly'
  <2>1. \A p \in Objects : kind'[p] \notin Iterators => refers[p] = NoObject
    BY <1>1, <1>2, <1>5, InvFacts DEF OwnersOnly, Iterators
  <2>2. \A p \in Objects : kind'[p] \notin HasCells => kind[p] \notin HasCells
    BY <1>1, <1>2, <1>5 DEF Iterators, HasCells
  <2>3. \A p \in Objects : Used(p)' = Used(p)
    BY <1>4 DEF Used
  <2>4. QED
    BY <1>4, <2>1, <2>2, <2>3, InvFacts DEF OwnersOnly
<1>9. GoesOn
  <2>1. \A p \in Objects : refCount'[p] <= refCount[p]
    BY <1>4, InvFacts
  <2>2. \A p \in Objects : StaysWhole(p) \/ (kind'[p] \in {"free", "lost"} /\ refCount[p] = 0)
    BY <1>4, <1>5, <1>6 DEF StaysWhole, Used
  <2>3. QED
    BY <1>4, <2>1, <2>2 DEF GoesOn
<1>10. Shifted(NoObject, NoObject)
  BY <1>4, SameReferences
<1>11. refers' \in [Holders -> Referred] /\ \A h \in Holders \ Cells : refers'[h] = refers[h]
  BY <1>4, InvFacts
<1>12. QED
  BY <1>1, <1>3, <1>7, <1>8, <1>9, <1>10, <1>11, FreeStep

LEMMA FreeCellsInv ==
    ASSUME CollectionsInv, FreeCells, UNCHANGED <<program, below>>
    PROVE  CollectionsInv'
<1>1. /\ ~Idle /\ Top.does \in {"delete", "drop"} /\ kind[Top.for] \in HasCells
      /\ NotPassed = {}
      /\ kind' = [kind EXCEPT ![Top.for] = IF Top.does = "delete" THEN "free" ELSE "lost"]
      /\ refers' = Filled(refers, Top.for, << >>)
      /\ calls' = Rest
      /\ UNCHANGED <<program, below, refCount, links, stack>> /\ UNCHANGED <<head, tail, next, prev, cursor>>
  BY DEF FreeCells, OverCells, HasCells, shape
<1>2. LoopFits(Top) /\ Top.cell \in Nat
  BY <1>1, TopFields
<1>3. PICK o \in Objects : o = Top.for
  BY <1>1, TopFields
<1>4. PICK what \in {"free", "lost"} : kind' = [kind EXCEPT ![Top.for] = what]
  BY <1>1
<1>5. kind'[o] = what /\ \A p \in Objects \ {o} : kind'[p] = kind[p]
  BY <1>3, <1>4, InvFacts
<1>6. refCount[o] = 0
  BY <1>1, <1>3, TopIsDying
<1>7. /\ refers' \in [Holders -> Referred]
      /\ HoldsIn(refers', o, << >>)
      /\ SameBut(refers, refers', o)
  <2>1. \A n \in DOMAIN << >> : n \in 1 .. MaxElements => << >>[n] \in Referred
    OBVIOUS
  <2>2. QED
    BY <1>1, <1>3, <2>1, InvFacts, FilledFacts
<1>8. /\ \A n \in 1 .. MaxElements : refers'[<<o, n>>] = Beyond
      /\ \A h \in Holders \ Cells : refers'[h] = refers[h]
      /\ \A p \in Objects \ {o} : Used(p)' = Used(p)
      /\ Used(o)' = {}
  BY <1>7 DEF HoldsIn, SameBut, Used
<1>9. \A n \in 1 .. MaxElements : refers[<<o, n>>] \in {Beyond, NoObject}
  <2> SUFFICES ASSUME NEW n \in 1 .. MaxElements, refers[<<o, n>>] # Beyond
               PROVE  refers[<<o, n>>] = NoObject
    OBVIOUS
  <2>1. n \in Used(Top.for)
    BY <1>3 DEF Used
  <2>2. ~(n >= Top.cell)
    BY <1>1, <2>1 DEF NotPassed
  <2>3. n < Top.cell
    BY <1>2, <2>2
  <2>4. QED
    BY <1>1, <1>2, <1>3, <2>1, <2>3 DEF LoopFits, PassedIsReleased
<1>10. \A h \in Holders : \/ refers'[h] = refers[h]
                          \/ refers'[h] = Beyond /\ refers[h] = NoObject /\ h \in Cells
  <2> TAKE h \in Holders
  <2>1. CASE h \notin Cells
    BY <1>8, <2>1
  <2>2. CASE h \in Cells
    <3>1. PICK p \in Objects, n \in 1 .. MaxElements : h = <<p, n>>
      BY <2>2, CellFacts
    <3>2. CASE p = o
      BY <1>8, <1>9, <2>2, <3>1, <3>2
    <3>3. CASE p # o
      BY <1>7, <3>1, <3>3 DEF SameBut
    <3>4. QED
      BY <3>2, <3>3
  <2>3. QED
    BY <2>1, <2>2
<1>11. PointersTypeOK'
  BY <1>1, InvFacts DEF PointersTypeOK
<1>12. OwnersOnly'
  <2>1. \A k \in Links \ links' : refers'[k] = NoObject
    <3> TAKE k \in Links \ links'
    <3>1. k \in Holders \ Cells
      BY CellFacts
    <3>2. QED
      BY <1>1, <1>8, <3>1, InvFacts DEF OwnersOnly
  <2>2. ASSUME NEW p \in Objects, kind'[p] \notin Iterators
        PROVE  refers'[p] = NoObject
    <3>1. kind[p] \notin Iterators
      BY <1>1, <1>3, <1>5, <2>2 DEF HasCells, Iterators
    <3>2. p \in Holders \ Cells
      BY CellFacts
    <3>3. QED
      BY <1>8, <3>1, <3>2, InvFacts DEF OwnersOnly
  <2>3. \A p \in Objects : kind'[p] \notin HasCells => Used(p)' = {}
    BY <1>5, <1>8, InvFacts DEF OwnersOnly
  <2>4. QED
    BY <2>1, <2>2, <2>3 DEF OwnersOnly
<1>13. GoesOn
  <2>1. \A p \in Objects : refCount'[p] <= refCount[p]
    BY <1>1, InvFacts
  <2>2. \A p \in Objects : StaysWhole(p) \/ (kind'[p] \in {"free", "lost"} /\ refCount[p] = 0)
    BY <1>1, <1>5, <1>6, <1>8 DEF StaysWhole
  <2>3. \A v \in Vars : refers'[v] = refers[v]
    BY <1>8, CellFacts
  <2>4. QED
    BY <1>10, <2>1, <2>2, <2>3 DEF GoesOn
<1>14. Shifted(NoObject, NoObject)
  <2>1. Beyond \notin Objects /\ NoObject \notin Objects
    BY ListsAssumption
  <2>2. QED
    BY <1>10, <2>1, SameReferences
<1>15. QED
  BY <1>1, <1>4, <1>7, <1>8, <1>11, <1>12, <1>13, <1>14, FreeStep

LEMMA FreeLinkInv ==
    ASSUME CollectionsInv, FreeLink, UNCHANGED <<program, below>>
    PROVE  CollectionsInv'
<1>1. /\ ~Idle /\ Top.does \in {"delete", "drop", "clear", "load", "remove"}
      /\ Top.link # NoLink
      /\ links' = links \ {Top.link}
      /\ next' = Forget(next, Top.link) /\ prev' = Forget(prev, Top.link)
      /\ calls' = <<[Top EXCEPT !.link = NoLink]>> \o Rest
      /\ UNCHANGED <<program, below, kind, refCount, refers, head, tail, cursor, stack>>
  BY DEF FreeLink, counts
<1>2. /\ calls = <<Top>> \o Rest /\ Top \in Loop /\ Rest \in Seq(Loop) /\ Len(Rest) \in Nat
      /\ LoopFits(Top)
      /\ \A j \in 1 .. Len(Rest) : LoopFits(Rest[j])
      /\ \A j \in 1 .. Len(Rest) - 1 : Rest[j].does = "delete"
      /\ Top.does # "delete" => Rest = << >> /\ calls = <<Top>>
      /\ Top.does # "remove" => stack = NoObject
  BY <1>1, InvFacts, TopAndRest, TopFits
<1>3. kind' = kind /\ refCount' = refCount /\ refers' = refers /\ cursor' = cursor /\ stack' = stack
  BY <1>1
<1>4. Top.link \in Links /\ refers[Top.link] = NoObject
  <2>1. Top.link \in Links
    BY <1>1, TopFields, InvFacts
  <2>2. QED
    BY <1>1, <1>2, <2>1 DEF LoopFits, PassedIsReleased
<1>5. PointersTypeOK'
  <2>1. NoLink \in Link
    BY DEF Link
  <2>2. QED
    BY <1>1, <2>1, InvFacts DEF PointersTypeOK, Forget
<1>6. OwnersOnly'
  <2>1. \A o \in Objects : Used(o)' = Used(o)
    BY <1>3 DEF Used
  <2>2. QED
    BY <1>1, <1>3, <1>4, <2>1, InvFacts DEF OwnersOnly
<1>7. CountsMatch'
  BY <1>3, InvFacts DEF CountsMatch, HoldersOf
<1>8. GoesOn
  <2>1. \A p \in Objects : refCount'[p] <= refCount[p]
    BY <1>3, InvFacts
  <2>2. \A p \in Objects : StaysWhole(p)
    BY <1>3 DEF StaysWhole, Used
  <2>3. QED
    BY <1>3, <2>1, <2>2 DEF GoesOn
<1>9. CursorsFit' /\ ArraysAreDense'
  BY <1>3, <1>8, InvFacts, ObjectsGoOn
<1>9a. Top \in Loop
  BY <1>2
<1>10. PICK c \in Loop : c = [Top EXCEPT !.link = NoLink]
  <2>1. NoLink \in Link
    BY DEF Link
  <2>2. QED
    BY <1>9a, <2>1 DEF Loop
<1>11. /\ c.does = Top.does /\ c.for = Top.for /\ c.arg = Top.arg /\ c.number = Top.number
       /\ c.link = NoLink /\ c.cell = Top.cell
  BY <1>9a, <1>10 DEF Loop
<1>12. PICK rest \in Seq(Loop), top \in Loop : rest = Rest /\ top = Top
  BY <1>2
<1> DEFINE cs == <<c>> \o rest
<1>13. /\ cs \in Seq(Loop) /\ Len(cs) = Len(rest) + 1 /\ cs[1] = c
       /\ \A j \in 1 .. Len(rest) : cs[j + 1] = rest[j]
       /\ \A o : DyingIn(cs, o) <=> Deletes(c, o) \/ DyingIn(rest, o)
       /\ \A o : HandedBy(cs, o) <=> Hands(c, o) \/ HandedBy(rest, o)
  BY OnLoops
<1>14. /\ \A o : DyingIn(calls, o) <=> Deletes(Top, o) \/ DyingIn(Rest, o)
       /\ \A o : HandedBy(calls, o) <=> Hands(Top, o) \/ HandedBy(Rest, o)
  BY <1>2, OnLoops
<1>15. calls' = cs
  BY <1>1, <1>10, <1>12
<1> HIDE DEF cs
<1>16. \A o : (Dying(o)' <=> Dying(o)) /\ (InHand(o)' <=> InHand(o))
  <2>1. \A o : (DyingIn(cs, o) <=> DyingIn(calls, o)) /\ (HandedBy(cs, o) <=> HandedBy(calls, o))
    BY <1>11, <1>12, <1>13, <1>14 DEF Deletes, Hands
  <2>2. QED
    BY <1>3, <1>15, <2>1, DyingAndInHand
<1>17. HeapTypeOK'
  BY <1>1, <1>13, <1>15, InvFacts DEF HeapTypeOK
<1>18. LiveByCount'
  <2>1. \A o \in Objects : (Live(o)' <=> Live(o)) /\ (Known(o)' <=> Known(o))
    BY <1>3, <1>16 DEF Live, Known
  <2>2. QED
    BY <1>16, <2>1, LiveAgain, InvFacts
<1>19. ParentsFit'
  <2>1. ParentsStay
    BY <1>3 DEF ParentsStay
  <2>2. QED
    BY <1>3, <1>16, <1>17, <2>1, ParentsFitAgain
<1>20. ASSUME NEW d \in Loop, LoopFits(d)
       PROVE  LoopFits(d)'
  BY <1>3, <1>8, <1>20, InvFacts, LoopGoesOn
<1>21. LoopFits(c)'
  <2>1. LoopFits(top)'
    BY <1>2, <1>12, <1>20
  <2>2. PassedIsReleased(c)' /\ SubjectFits(c)' /\ ArgumentFits(c)'
    <3>1. PassedIsReleased(top)' /\ SubjectFits(top)' /\ ArgumentFits(top)'
      BY <2>1 DEF LoopFits
    <3>2. /\ c.does = top.does /\ c.for = top.for /\ c.arg = top.arg /\ c.number = top.number
          /\ c.link = NoLink /\ c.cell = top.cell
      BY <1>11, <1>12
    <3>3. PassedIsReleased(c)'
      BY <3>1, <3>2 DEF PassedIsReleased
    <3>4. SubjectFits(c)' /\ ArgumentFits(c)'
      BY <3>1, <3>2 DEF SubjectFits, ArgumentFits
    <3>5. QED
      BY <3>3, <3>4
  <2>3. QED
    BY <2>2 DEF LoopFits
<1>22. LoopsFit'
  <2>1. ASSUME NEW j \in 1 .. Len(cs), j # 1
        PROVE  j - 1 \in 1 .. Len(rest) /\ cs[j] = rest[j - 1]
    <3>1. j - 1 \in 1 .. Len(rest) /\ (j - 1) + 1 = j
      BY <1>2, <1>12, <1>13, <2>1
    <3>2. QED
      BY <1>13, <3>1
  <2>2. InOrder(cs)
    <3> SUFFICES ASSUME NEW j \in 1 .. Len(cs) - 1
                 PROVE  cs[j].does = "delete"
      BY DEF InOrder
    <3>1. CASE j = 1
      <4>1. Rest # << >>
        BY <1>2, <1>12, <1>13, <3>1
      <4>2. QED
        BY <1>2, <1>11, <1>13, <3>1, <4>1
    <3>2. CASE j # 1
      <4>1. j \in 1 .. Len(cs) /\ j - 1 \in 1 .. Len(rest) - 1
        BY <1>2, <1>12, <1>13, <3>2
      <4>2. cs[j] = rest[j - 1]
        BY <2>1, <3>2, <4>1
      <4>3. QED
        BY <1>2, <1>12, <4>1, <4>2
    <3>3. QED
      BY <3>1, <3>2
  <2>3. ASSUME NEW j \in 1 .. Len(cs)
        PROVE  LoopFits(cs[j])'
    <3>1. CASE j = 1
      BY <1>13, <1>21, <3>1
    <3>2. CASE j # 1
      <4>0. PICK i \in 1 .. Len(rest) : cs[j] = rest[i]
        BY <2>1, <3>2
      <4>1. PICK d \in Loop : d = cs[j] /\ LoopFits(d)
        <5>1. rest[i] \in Loop /\ rest[i] = Rest[i] /\ i \in 1 .. Len(Rest)
          BY <1>12, <4>0
        <5>2. LoopFits(Rest[i])
          BY <1>2, <5>1
        <5>3. QED
          BY <4>0, <5>1, <5>2
      <4>2. LoopFits(d)'
        BY <1>20, <4>1
      <4>3. QED
        BY <4>1, <4>2
    <3>3. QED
      BY <3>1, <3>2
  <2>4. \A d \in LoopsOf(cs) : LoopFits(d)'
    BY <2>3 DEF LoopsOf
  <2>5. stack # NoObject => Len(cs) = 1 /\ cs[1].does = "remove"
    <3> SUFFICES ASSUME stack # NoObject
                 PROVE  Len(cs) = 1 /\ cs[1].does = "remove"
      OBVIOUS
    <3>1. Top.does = "remove" /\ Rest = << >>
      BY <1>2
    <3>2. QED
      BY <1>11, <1>12, <1>13, <3>1
  <2>6. QED
    BY <1>3, <1>15, <1>17, <2>2, <2>4, <2>5, LoopsFitAgain
<1>23. QED
  BY <1>5, <1>6, <1>7, <1>9, <1>17, <1>18, <1>19, <1>22 DEF CollectionsInv


-----------------------------------------------------------------------------
(* Methods that look and move cursors *)

\* What an iterator is for and where it stands, while no loop is under way.
LEMMA IterFacts ==
    ASSUME CollectionsInv, NEW i \in Objects, kind[i] \in Iterators, ~Dying(i)
    PROVE  /\ refers[i] \in Objects /\ kind[refers[i]] = ParentKind(kind[i])
           /\ refCount[refers[i]] > 0 /\ OwnCursor(i, cursor[i])
<1>1. IF refers[i] = NoObject THEN Dying(i) ELSE kind[refers[i]] = ParentKind(kind[i])
  BY DEF CollectionsInv, ParentsFit
<1>2. i \in Holders \ Cells
  BY CellFacts
<1>3. refers[i] \in Objects
  BY <1>1, <1>2, InvFacts
<1>4. refCount[refers[i]] \in Nat \ {0}
  BY <1>2, <1>3, HeldIsCounted, InvFacts
<1>5. OwnCursor(i, cursor[i])
  BY DEF CollectionsInv, CursorsFit, OwnCursor
<1>6. QED
  BY <1>1, <1>3, <1>4, <1>5

LEMMA ParentKinds ==
    /\ ParentKind("iter") = "list" /\ ParentKind("arrayIter") = "array"
    /\ ParentKind("intMapIter") = "intMap"
BY DEF ParentKind

\* What a variable holds is live.
LEMMA InVarFacts ==
    ASSUME CollectionsInv, NEW o \in Objects, InVar(o)
    PROVE  refCount[o] > 0 /\ Live(o) /\ ~Dying(o)
<1>1. PICK v \in Vars : refers[v] = o
  BY DEF InVar
<1>2. refCount[o] \in Nat \ {0}
  BY <1>1, CellFacts, HeldIsCounted, InvFacts
<1>3. QED
  BY <1>2, InvFacts DEF LiveByCount

LEMMA HeldFacts ==
    ASSUME CollectionsInv, NEW h \in Holders, refers[h] # Beyond
    PROVE  /\ refers[h] \in Object /\ Safe(refers[h])
           /\ refers[h] \in Objects => refCount[refers[h]] > 0
<1>1. refers[h] \in Object
  BY InvFacts
<1>2. refers[h] \in Objects => refCount[refers[h]] \in Nat \ {0}
  BY HeldIsCounted, InvFacts
<1>3. QED
  BY <1>1, <1>2, InvFacts DEF Safe

LEMMA Looks ==
    ASSUME CollectionsInv, Idle, UNCHANGED <<program, below, kind, refCount, refers, calls, links>>,
           UNCHANGED <<head, tail, next, prev>>,
           CursorsOwn /\ cursor' \in [Objects -> Link \cup Nat],
           stack' \in Object, stack' = stack \/ (Safe(stack) /\ Safe(stack'))
    PROVE  CollectionsInv'
<1>1. refers' = refers /\ kind' = kind
  OBVIOUS
<1>2. PointersTypeOK'
  BY InvFacts DEF PointersTypeOK
<1>3. UsedStay /\ ParentsStay
  BY <1>1, UsedSame DEF ParentsStay
<1>4. CursorsFit'
  BY <1>1, <1>3, UsedAgain
<1>5. QED
  BY <1>2, <1>4, LookStep

\* A method of an iterator that moves it to k, or leaves a holder's object on
\* the stack, or both.
LEMMA IterLooks ==
    ASSUME CollectionsInv, Idle, stack = NoObject, UNCHANGED <<program, below>>,
           UNCHANGED <<counts, shape, calls>>,
           NEW i \in Objects, NEW k, OwnCursor(i, k), k \in Link \cup Nat,
           cursor' = [cursor EXCEPT ![i] = k] \/ cursor' = cursor,
           \/ stack' = NoObject
           \/ \E h \in Holders : refers[h] # Beyond /\ stack' = refers[h]
    PROVE  CollectionsInv'
<1>1. UNCHANGED <<program, below, kind, refCount, refers, calls, links>> /\ UNCHANGED <<head, tail, next, prev>>
  BY DEF counts, shape
<1>2. CursorsOwn /\ cursor' \in [Objects -> Link \cup Nat]
  <2>1. CASE cursor' = cursor
    BY <2>1, CursorsStay
  <2>2. CASE cursor' = [cursor EXCEPT ![i] = k]
    BY <2>2, CursorMoved
  <2>3. QED
    BY <2>1, <2>2
<1>3. stack' \in Object /\ Safe(stack) /\ Safe(stack')
  BY HeldFacts, InvFacts DEF Safe
<1>4. QED
  BY <1>1, <1>2, <1>3, Looks

\* The element of a link, or null.
LEMMA ElementHeld ==
    ASSUME CollectionsInv, NEW k \in Link
    PROVE  \/ Element(k) = NoObject
           \/ \E h \in Holders : refers[h] # Beyond /\ Element(k) = refers[h]
<1>1. k # NoLink => k \in Holders /\ k \in Holders \ Cells
  BY CellFacts, InvFacts
<1>2. k # NoLink => refers[k] # Beyond
  BY <1>1, InvFacts
<1>3. QED
  BY <1>1, <1>2 DEF Element

LEMMA FetchInv ==
    ASSUME CollectionsInv, NEW v \in Vars, Fetch(v), UNCHANGED <<program, below>>
    PROVE  CollectionsInv'
<1>1. /\ Idle /\ stack = NoObject /\ stack' = refers[v] /\ cursor' = cursor
      /\ UNCHANGED <<program, below, kind, refCount, refers, calls, links>>
      /\ UNCHANGED <<head, tail, next, prev>>
  BY DEF Fetch, counts, shape
<1>2. v \in Holders \ Cells /\ v \in Holders
  BY CellFacts
<1>3. stack' \in Object /\ Safe(stack')
  BY <1>1, <1>2, HeldFacts, InvFacts
<1>4. Safe(stack)
  BY <1>1 DEF Safe
<1>5. CursorsOwn /\ cursor' \in [Objects -> Link \cup Nat]
  BY <1>1, CursorsStay
<1>6. QED
  BY <1>1, <1>3, <1>4, <1>5, Looks

LEMMA EndElementInv ==
    ASSUME CollectionsInv, NEW l \in Lists, HeadOf(l) \/ TailOf(l), UNCHANGED <<program, below>>
    PROVE  CollectionsInv'
<1>1. /\ Idle /\ stack = NoObject /\ cursor' = cursor
      /\ stack' = Element(head[l]) \/ stack' = Element(tail[l])
      /\ UNCHANGED <<program, below, kind, refCount, refers, calls, links>>
      /\ UNCHANGED <<head, tail, next, prev>>
  BY DEF HeadOf, TailOf, Method, counts, shape
<1>2. l \in Objects
  BY DEF Lists
<1>3. head[l] \in Link /\ tail[l] \in Link
  BY <1>2, InvFacts DEF PointersTypeOK
<1>4. stack' \in Object /\ Safe(stack') /\ Safe(stack)
  <2>1. \/ stack' = NoObject
        \/ \E h \in Holders : refers[h] # Beyond /\ stack' = refers[h]
    BY <1>1, <1>3, ElementHeld
  <2>2. QED
    BY <1>1, <2>1, HeldFacts, InvFacts DEF Safe
<1>5. CursorsOwn /\ cursor' \in [Objects -> Link \cup Nat]
  BY <1>1, CursorsStay
<1>6. QED
  BY <1>1, <1>4, <1>5, Looks

\* The list iterators that a program uses.
LEMMA ItersFacts ==
    ASSUME CollectionsInv, Idle, NEW i \in Iters
    PROVE  /\ i \in Objects /\ kind[i] = "iter" /\ InVar(i) /\ refers[i] \in Objects
           /\ kind[refers[i]] = "list"
           /\ cursor[i] \in Link /\ head[refers[i]] \in Link /\ tail[refers[i]] \in Link
           /\ cursor[i] # NoLink =>
                  cursor[i] \in Links /\ next[cursor[i]] \in Link /\ prev[cursor[i]] \in Link
           /\ Before(i) \in Link
           /\ \A k \in Link : OwnCursor(i, k) /\ k \in Link \cup Nat
<1>1. i \in Objects /\ kind[i] = "iter" /\ InVar(i)
  BY DEF Iters, InVar
<1>2. ~Dying(i) /\ kind[i] \in Iterators
  BY <1>1, IdleFacts DEF Iterators
<1>3. /\ refers[i] \in Objects /\ kind[refers[i]] = ParentKind(kind[i])
      /\ OwnCursor(i, cursor[i])
  BY <1>1, <1>2, IterFacts
<1>4. kind[refers[i]] = "list" /\ cursor[i] \in Link
  BY <1>1, <1>3, ParentKinds DEF OwnCursor
<1>5. head[refers[i]] \in Link /\ tail[refers[i]] \in Link
  BY <1>3, InvFacts DEF PointersTypeOK
<1>6. cursor[i] # NoLink =>
          cursor[i] \in Links /\ next[cursor[i]] \in Link /\ prev[cursor[i]] \in Link
  BY <1>4, InvFacts DEF PointersTypeOK
<1>7. QED
  BY <1>1, <1>3, <1>4, <1>5, <1>6 DEF Before, OwnCursor

LEMMA IterSeeksInv ==
    ASSUME CollectionsInv, NEW i \in Iters, UNCHANGED <<program, below>>,
           \/ SeekNext(i) \/ SeekPrev(i) \/ SeekHead(i) \/ SeekTail(i)
           \/ Current(i) \/ NextOf(i) \/ PrevOf(i)
    PROVE  CollectionsInv'
<1>1. Idle /\ stack = NoObject /\ UNCHANGED <<counts, shape, calls>>
  BY DEF SeekNext, SeekPrev, SeekHead, SeekTail, Current, NextOf, PrevOf, IterMethod, Seek
<1>2. /\ i \in Objects /\ cursor[i] \in Link /\ Before(i) \in Link
      /\ head[refers[i]] \in Link
      /\ cursor[i] # NoLink => next[cursor[i]] \in Link
      /\ \A k \in Link : OwnCursor(i, k) /\ k \in Link \cup Nat
      /\ NoLink \in Link
  BY <1>1, ItersFacts DEF Link
<1>3. PICK k \in Link : cursor' = [cursor EXCEPT ![i] = k] \/ cursor' = cursor
  BY <1>2 DEF SeekNext, SeekPrev, SeekHead, SeekTail, Current, NextOf, PrevOf, Seek
<1>4. PICK e \in Link : stack' = stack \/ stack' = Element(e)
  <2>1. CASE SeekNext(i) \/ SeekPrev(i) \/ SeekHead(i) \/ SeekTail(i)
    BY <1>2, <2>1 DEF SeekNext, SeekPrev, SeekHead, SeekTail, Seek
  <2>2. CASE Current(i) \/ PrevOf(i)
    BY <1>2, <2>2 DEF Current, PrevOf
  <2>3. CASE NextOf(i)
    BY <1>2, <2>3 DEF NextOf, Element
  <2>4. QED
    BY <2>1, <2>2, <2>3
<1>5. \/ stack' = NoObject
      \/ \E h \in Holders : refers[h] # Beyond /\ stack' = refers[h]
  BY <1>1, <1>4, ElementHeld
<1>6. QED
  BY <1>1, <1>2, <1>3, <1>5, IterLooks

-----------------------------------------------------------------------------
(* Methods that start a loop *)

LEMMA FitsStill ==
    ASSUME UNCHANGED <<kind, refers, refCount, cursor>>, NEW c \in Loop, LoopFits(c)
    PROVE  LoopFits(c)'
<1>1. PassedIsReleased(c)'
  BY DEF LoopFits, PassedIsReleased, Used
<1>2. SubjectFits(c)'
  BY DEF LoopFits, SubjectFits, NoKeySeen, KeyUnseen, Used, Size, InVar
<1>3. ArgumentFits(c)'
  BY DEF LoopFits, ArgumentFits, InVar
<1>4. QED
  BY <1>1, <1>2, <1>3 DEF LoopFits

\* A loop that has passed nothing.
LEMMA NonePassed ==
    ASSUME NEW c \in Loop, c.link = NoLink,
           c.cell = 1 \/ (c.does = "resize" /\ c.cell = c.number + 1)
    PROVE  PassedIsReleased(c)
<1>1. c.number \in Nat
  BY DEF Loop
<1>2. ASSUME NEW n \in Used(c.for), n < c.cell, c.does = "resize" => n > c.number
      PROVE  FALSE
  <2>1. n \in 1 .. MaxElements /\ n \in Nat /\ n >= 1
    BY DEF Used
  <2>2. QED
    BY <1>1, <1>2, <2>1
<1>3. QED
  BY <1>2 DEF PassedIsReleased

LEMMA Starts ==
    ASSUME CollectionsInv, Idle, UNCHANGED <<program, below, kind, refers, refCount, links, cursor>>,
           UNCHANGED <<head, tail, next, prev>>, stack' = NoObject,
           NEW c \in Loop, calls' = <<c>>, c.link = NoLink,
           c.cell = 1 \/ (c.does = "resize" /\ c.cell = c.number + 1),
           SubjectFits(c), ArgumentFits(c), c.does \notin {"delete", "clone"},
           IF c.does = "load" THEN c.arg = stack
           ELSE IF c.does = "drop" THEN c.for = stack /\ refCount[stack] = 0
           ELSE Safe(stack)
    PROVE  CollectionsInv'
<1>1. PassedIsReleased(c)
  BY NonePassed
<1>2. LoopFits(c)
  BY <1>1 DEF LoopFits
<1>3. LoopFits(c)'
  BY <1>2, FitsStill
<1>4. PointersTypeOK'
  BY InvFacts DEF PointersTypeOK
<1>5. QED
  BY <1>3, <1>4, StartStep

LEMMA DropInv ==
    ASSUME CollectionsInv, Drop, UNCHANGED <<program, below>>
    PROVE  CollectionsInv'
<1>1. /\ Idle /\ stack # NoObject /\ stack' = NoObject
      /\ UNCHANGED <<program, below, kind, refers, refCount, links, cursor>>
      /\ UNCHANGED <<head, tail, next, prev>>
      /\ calls' = IF refCount[stack] = 0 THEN <<Deletion("drop", stack)>> ELSE << >>
  BY DEF Drop, counts, shape
<1>2. stack \in Objects
  BY <1>1, InvFacts
<1>3. CASE refCount[stack] = 0
  <2>1. PICK c \in Loop : /\ c = Deletion("drop", stack) /\ c.does = "drop" /\ c.for = stack
                          /\ c.link = NoLink /\ c.cell = 1
    BY <1>2, InvFacts, DeletionIsLoop
  <2>2. SubjectFits(c) /\ ArgumentFits(c)
    BY <2>1 DEF SubjectFits, ArgumentFits
  <2>3. calls' = <<c>>
    BY <1>1, <1>3, <2>1
  <2>4. QED
    BY <1>1, <1>3, <2>1, <2>2, <2>3, Starts
<1>4. CASE refCount[stack] # 0
  <2>1. refCount[stack] \in Nat
    BY <1>2, InvFacts
  <2>2. Safe(stack) /\ Safe(stack')
    BY <1>1, <1>4, <2>1 DEF Safe
  <2>3. calls' = calls
    BY <1>1, <1>4 DEF Idle
  <2>4. CursorsOwn /\ cursor' \in [Objects -> Link \cup Nat]
    BY <1>1, CursorsStay
  <2>5. stack' \in Object
    BY <1>1, InvFacts
  <2>6. QED
    BY <1>1, <2>2, <2>3, <2>4, <2>5, Looks
<1>5. QED
  BY <1>3, <1>4

LEMMA SoughtSafe ==
    ASSUME CollectionsInv, Sought
    PROVE  Safe(stack)
<1>1. stack # NoObject => refCount[stack] \in Nat
  BY InvFacts
<1>2. QED
  BY <1>1 DEF Sought, Safe

LEMMA SurvivesFits ==
    ASSUME Survives
    PROVE  stack # NoObject => refCount[stack] = 0 \/ InVar(stack)
BY DEF Survives, InVar

LEMMA ListsFacts ==
    ASSUME CollectionsInv, NEW l \in Lists
    PROVE  /\ l \in Objects /\ kind[l] = "list" /\ InVar(l)
           /\ head[l] \in Link /\ tail[l] \in Link
           /\ \A k \in Link : k # NoLink => /\ k \in Links /\ k \in Holders \ Cells
                                           /\ next[k] \in Link /\ prev[k] \in Link
<1>1. l \in Objects /\ kind[l] = "list" /\ InVar(l)
  BY DEF Lists, InVar
<1>2. QED
  BY <1>1, InvFacts, CellFacts DEF PointersTypeOK

LEMMA ListLoopsInv ==
    ASSUME CollectionsInv, NEW l \in Lists, UNCHANGED <<program, below>>,
           Clear(l) \/ Load(l) \/ Remove(l) \/ Find(l)
    PROVE  CollectionsInv'
<1>1. /\ Idle
      /\ UNCHANGED <<program, below, kind, refers, refCount, links, cursor>>
      /\ UNCHANGED <<head, tail, next, prev>>
  BY DEF Clear, Load, Remove, Find, Method, counts, shape
<1>2. /\ l \in Objects /\ kind[l] = "list" /\ InVar(l) /\ head[l] \in Link
      /\ stack \in Object /\ NoObject \in Object /\ NoLink \in Link
      /\ MaxElements \in Nat
  BY ListsFacts, InvFacts, ListsAssumption DEF Link
<1>3. CASE Clear(l)
  <2>1. stack = NoObject /\ stack' = NoObject /\ Safe(stack)
    BY <1>3 DEF Clear, Safe
  <2>2. PICK c \in Loop : /\ c = Calls("clear", l, head[l], NoLink, NoObject)
                          /\ c.does = "clear" /\ c.for = l /\ c.link = NoLink /\ c.cell = 1
                          /\ c.number = 0
    <3>1. Calls("clear", l, head[l], NoLink, NoObject) \in Loop
      BY <1>2 DEF Calls, Loop
    <3>2. QED
      BY <3>1 DEF Calls
  <2>3. SubjectFits(c) /\ ArgumentFits(c)
    BY <1>2, <2>2 DEF SubjectFits, ArgumentFits
  <2>4. calls' = <<c>>
    BY <1>3, <2>2 DEF Clear
  <2>5. QED
    BY <1>1, <2>1, <2>2, <2>3, <2>4, Starts
<1>4. CASE Load(l)
  <2>1. stack' = NoObject /\ (stack # NoObject => refCount[stack] = 0 \/ InVar(stack))
    BY <1>4, SurvivesFits DEF Load
  <2>2. PICK c \in Loop : /\ c = Calls("load", l, head[l], NoLink, stack)
                          /\ c.does = "load" /\ c.for = l /\ c.link = NoLink /\ c.cell = 1
                          /\ c.number = 0 /\ c.arg = stack
    <3>1. Calls("load", l, head[l], NoLink, stack) \in Loop
      BY <1>2 DEF Calls, Loop
    <3>2. QED
      BY <3>1 DEF Calls
  <2>3. SubjectFits(c) /\ ArgumentFits(c)
    <3>1. c.arg # NoObject => refCount[c.arg] = 0 \/ InVar(c.arg)
      BY <2>1, <2>2
    <3>2. 0 <= MaxElements /\ kind[c.for] = "list"
      BY <1>2, <2>2
    <3>3. QED
      BY <2>2, <3>1, <3>2 DEF SubjectFits, ArgumentFits
  <2>4. calls' = <<c>>
    BY <1>4, <2>2 DEF Load
  <2>5. QED
    BY <1>1, <2>1, <2>2, <2>3, <2>4, Starts
<1>5. CASE Remove(l)
  <2>1. stack' = NoObject /\ Safe(stack)
    BY <1>5, SoughtSafe DEF Remove
  <2>2. PICK c \in Loop : /\ c = Calls("seek remove", l, head[l], NoLink, stack)
                          /\ c.does = "seek remove" /\ c.for = l /\ c.link = NoLink /\ c.cell = 1
    <3>1. Calls("seek remove", l, head[l], NoLink, stack) \in Loop
      BY <1>2 DEF Calls, Loop
    <3>2. QED
      BY <3>1 DEF Calls
  <2>3. SubjectFits(c) /\ ArgumentFits(c)
    BY <2>2 DEF SubjectFits, ArgumentFits
  <2>4. calls' = <<c>>
    BY <1>5, <2>2 DEF Remove
  <2>5. QED
    BY <1>1, <2>1, <2>2, <2>3, <2>4, Starts
<1>6. CASE Find(l)
  <2>1. stack' = NoObject /\ Safe(stack)
    BY <1>6, SoughtSafe DEF Find
  <2>2. PICK c \in Loop : /\ c = Calls("seek", l, head[l], NoLink, stack)
                          /\ c.does = "seek" /\ c.for = l /\ c.link = NoLink /\ c.cell = 1
    <3>1. Calls("seek", l, head[l], NoLink, stack) \in Loop
      BY <1>2 DEF Calls, Loop
    <3>2. QED
      BY <3>1 DEF Calls
  <2>3. SubjectFits(c) /\ ArgumentFits(c)
    BY <1>2, <2>2 DEF SubjectFits, ArgumentFits
  <2>4. calls' = <<c>>
    BY <1>6, <2>2 DEF Find
  <2>5. QED
    BY <1>1, <2>1, <2>2, <2>3, <2>4, Starts
<1>7. QED
  BY <1>3, <1>4, <1>5, <1>6

LEMMA FindNextInv ==
    ASSUME CollectionsInv, NEW i \in Iters, UNCHANGED <<program, below>>, FindNext(i)
    PROVE  CollectionsInv'
<1>1. /\ Idle /\ stack' = NoObject /\ Sought
      /\ UNCHANGED <<program, below, kind, refers, refCount, links, cursor>>
      /\ UNCHANGED <<head, tail, next, prev>>
  BY DEF FindNext, counts, shape
<1>2. PICK k \in Link : k = IF cursor[i] = NoLink THEN NoLink ELSE next[cursor[i]]
  BY <1>1, ItersFacts DEF Link
<1>3. i \in Objects /\ kind[i] = "iter" /\ InVar(i) /\ stack \in Object /\ NoLink \in Link
  BY <1>1, ItersFacts, InvFacts DEF Link
<1>4. PICK c \in Loop : /\ c = Calls("seek next", i, k, NoLink, stack)
                        /\ c.does = "seek next" /\ c.for = i /\ c.link = NoLink /\ c.cell = 1
  <2>1. Calls("seek next", i, k, NoLink, stack) \in Loop
    BY <1>3 DEF Calls, Loop
  <2>2. QED
    BY <2>1 DEF Calls
<1>5. SubjectFits(c) /\ ArgumentFits(c)
  BY <1>3, <1>4 DEF SubjectFits, ArgumentFits
<1>6. calls' = <<c>>
  BY <1>2, <1>4 DEF FindNext
<1>7. Safe(stack)
  BY <1>1, SoughtSafe
<1>8. QED
  BY <1>1, <1>4, <1>5, <1>6, <1>7, Starts

LEMMA ClearCellsInv ==
    ASSUME CollectionsInv, NEW a \in Objects, UNCHANGED <<program, below>>,
           (a \in Arrays /\ ArrayClear(a)) \/ (a \in IntMaps /\ MapClear(a))
    PROVE  CollectionsInv'
<1>1. /\ Idle /\ stack = NoObject /\ stack' = NoObject /\ Safe(stack)
      /\ UNCHANGED <<program, below, kind, refers, refCount, links, cursor>>
      /\ UNCHANGED <<head, tail, next, prev>>
      /\ calls' = <<Calls("clear", a, NoLink, NoLink, NoObject)>>
  BY DEF ArrayClear, MapClear, ArrayMethod, MapMethod, counts, shape, Safe
<1>2. NoObject \in Object /\ NoLink \in Link
  BY InvFacts DEF Link
<1>3. PICK c \in Loop : /\ c = Calls("clear", a, NoLink, NoLink, NoObject)
                        /\ c.does = "clear" /\ c.for = a /\ c.link = NoLink /\ c.cell = 1
                        /\ c.number = 0
  <2>1. Calls("clear", a, NoLink, NoLink, NoObject) \in Loop
    BY <1>2 DEF Calls, Loop
  <2>2. QED
    BY <2>1 DEF Calls
<1>4. kind[a] = "intMap" => NoKeySeen(a)
  BY DEF Arrays, MapClear
<1>5. SubjectFits(c) /\ ArgumentFits(c)
  BY <1>3, <1>4 DEF SubjectFits, ArgumentFits
<1>6. calls' = <<c>>
  BY <1>1, <1>3
<1>7. QED
  BY <1>1, <1>3, <1>5, <1>6, Starts

\* What a program may use of cells.
LEMMA ProgramFacts ==
    ASSUME CollectionsInv
    PROVE  program.cells \in 0 .. MaxElements /\ MaxElements \in Nat
BY ListsAssumption DEF CollectionsInv, HeapTypeOK

LEMMA MapLoadInv ==
    ASSUME CollectionsInv, NEW m \in IntMaps, UNCHANGED <<program, below>>, NEW n \in 0 .. program.cells,
           MapLoad(m, n)
    PROVE  CollectionsInv'
<1>1. /\ Idle /\ stack' = NoObject /\ NoKeySeen(m) /\ Survives
      /\ n = 0 => stack = NoObject
      /\ UNCHANGED <<program, below, kind, refers, refCount, links, cursor>>
      /\ UNCHANGED <<head, tail, next, prev>>
      /\ calls' = <<[Calls("load", m, NoLink, NoLink, stack) EXCEPT !.number = n]>>
  BY DEF MapLoad, MapMethod, counts, shape
<1>2. NoLink \in Link /\ stack \in Object /\ m \in Objects
  BY InvFacts DEF Link, IntMaps
<1>3. n \in Nat /\ n <= MaxElements
  BY ProgramFacts
<1>4. PICK d \in Loop : /\ d = Calls("load", m, NoLink, NoLink, stack)
                        /\ d.does = "load" /\ d.for = m /\ d.link = NoLink /\ d.cell = 1
                        /\ d.arg = stack
  <2>1. Calls("load", m, NoLink, NoLink, stack) \in Loop
    BY <1>2 DEF Calls, Loop
  <2>2. QED
    BY <2>1 DEF Calls
<1>5. PICK c \in Loop : c = [d EXCEPT !.number = n]
  BY <1>3 DEF Loop
<1>6. c.does = "load" /\ c.for = m /\ c.link = NoLink /\ c.cell = 1 /\ c.arg = stack /\ c.number = n
  BY <1>4, <1>5 DEF Loop
<1>7. SubjectFits(c) /\ ArgumentFits(c)
  <2>1. stack # NoObject => refCount[stack] = 0 \/ InVar(stack)
    BY <1>1, SurvivesFits
  <2>2. QED
    BY <1>1, <1>3, <1>6, <2>1 DEF SubjectFits, ArgumentFits
<1>8. calls' = <<c>>
  BY <1>1, <1>4, <1>5
<1>9. QED
  BY <1>1, <1>6, <1>7, <1>8, Starts

-----------------------------------------------------------------------------
(* Loops that go on or end *)

LEMMA Ends ==
    ASSUME CollectionsInv, ~Idle, Top.does \notin {"delete", "drop", "load"},
           UNCHANGED <<program, below, kind, refers, refCount, links>>,
           head' \in [Objects -> Link], tail' \in [Objects -> Link],
           next' \in [Links -> Link], prev' \in [Links -> Link],
           CursorsOwn /\ cursor' \in [Objects -> Link \cup Nat], calls' = Rest,
           stack' = IF Top.does = "clone" THEN Top.for ELSE stack
    PROVE  CollectionsInv'
<1>1. refers' = refers /\ kind' = kind
  OBVIOUS
<1>2. UsedStay /\ ParentsStay
  BY <1>1, UsedSame DEF ParentsStay
<1>3. CursorsFit'
  BY <1>1, <1>2, UsedAgain
<1>4. PointersTypeOK'
  BY DEF PointersTypeOK
<1>5. QED
  BY <1>3, <1>4, EndStep

LEMMA SeekOnInv ==
    ASSUME CollectionsInv, SeekOn, UNCHANGED <<program, below>>
    PROVE  CollectionsInv'
<1>1. /\ ~Idle /\ Top.does \in {"seek remove", "seek", "seek next"}
      /\ UNCHANGED <<program, below, kind, refers, refCount, links>>
      /\ UNCHANGED <<head, tail, next, prev, cursor, stack>>
      /\ calls' = IF Top.cur = NoLink THEN Rest ELSE <<[Top EXCEPT !.cur = next[@]]>> \o Rest
  BY DEF SeekOn, Seeks, counts, shape
<1>2. /\ head \in [Objects -> Link] /\ tail \in [Objects -> Link]
      /\ next \in [Links -> Link] /\ prev \in [Links -> Link]
  BY InvFacts DEF PointersTypeOK
<1>3. CASE Top.cur = NoLink
  <2>1. CursorsOwn /\ cursor' \in [Objects -> Link \cup Nat]
    BY <1>1, CursorsStay
  <2>2. QED
    BY <1>1, <1>2, <1>3, <2>1, Ends
<1>4. CASE Top.cur # NoLink
  <2>1. PICK k \in Link : k = next[Top.cur]
    BY <1>1, <1>2, <1>4, TopFields, InvFacts
  <2>2. calls' = <<[Top EXCEPT !.cur = k]>> \o Rest
    BY <1>1, <1>4, <2>1
  <2>3. PointersTypeOK'
    BY <1>1, InvFacts DEF PointersTypeOK
  <2>4. QED
    BY <1>1, <2>2, <2>3, SeekStep
<1>5. QED
  BY <1>3, <1>4

LEMMA FoundNextInv ==
    ASSUME CollectionsInv, FoundNext, UNCHANGED <<program, below>>
    PROVE  CollectionsInv'
<1>1. /\ ~Idle /\ Top.does = "seek next"
      /\ UNCHANGED <<program, below, kind, refers, refCount, links>>
      /\ UNCHANGED <<head, tail, next, prev, stack>>
      /\ cursor' = [cursor EXCEPT ![Top.for] = Top.cur] /\ calls' = Rest
  BY DEF FoundNext, Found, Seeks, counts, shape
<1>2. Top.for \in Objects /\ Top.cur \in Link /\ LoopFits(Top)
  BY <1>1, TopFields
<1>3. kind[Top.for] = "iter"
  BY <1>1, <1>2 DEF LoopFits, SubjectFits
<1>4. PICK i \in Objects, k \in Link : i = Top.for /\ k = Top.cur
  BY <1>2
<1>5. OwnCursor(i, k) /\ k \in Link \cup Nat /\ cursor' = [cursor EXCEPT ![i] = k]
  BY <1>1, <1>3, <1>4 DEF OwnCursor
<1>6. CursorsOwn /\ cursor' \in [Objects -> Link \cup Nat]
  BY <1>5, CursorMoved
<1>7. /\ head' \in [Objects -> Link] /\ tail' \in [Objects -> Link]
      /\ next' \in [Links -> Link] /\ prev' \in [Links -> Link]
  BY <1>1, InvFacts DEF PointersTypeOK
<1>8. QED
  BY <1>1, <1>6, <1>7, Ends

LEMMA LoopEndsInv ==
    ASSUME CollectionsInv, EndClear \/ EndRemove \/ EndClone, UNCHANGED <<program, below>>
    PROVE  CollectionsInv'
<1>1. /\ ~Idle /\ Top.does \in {"clear", "remove", "clone"} /\ calls' = Rest
      /\ UNCHANGED <<program, below, kind, refers, refCount, links>> /\ cursor' = cursor /\ prev' = prev
      /\ stack' = IF Top.does = "clone" THEN Top.for ELSE stack
  BY DEF EndClear, EndRemove, EndClone, counts, shape
<1>2. Top.for \in Objects /\ Top.link \in Link /\ NoLink \in Link
  BY <1>1, TopFields DEF Link
<1>3. Top.link # NoLink => Top.link \in Links
  BY <1>2, InvFacts
<1>4. /\ head \in [Objects -> Link] /\ tail \in [Objects -> Link]
      /\ next \in [Links -> Link] /\ prev \in [Links -> Link]
  BY InvFacts DEF PointersTypeOK
<1>5. head' \in [Objects -> Link] /\ tail' \in [Objects -> Link]
  BY <1>2, <1>4 DEF EndClear, EndRemove, EndClone, shape
<1>6. next' \in [Links -> Link]
  BY <1>2, <1>3, <1>4 DEF EndClear, EndRemove, EndClone, shape
<1>7. CursorsOwn /\ cursor' \in [Objects -> Link \cup Nat]
  BY <1>1, CursorsStay
<1>8. prev' \in [Links -> Link] /\ Top.does \notin {"delete", "drop", "load"}
  BY <1>1, <1>4
<1>9. QED
  BY <1>1, <1>5, <1>6, <1>7, <1>8, Ends

LEMMA FreeLinksFacts ==
    ASSUME CollectionsInv, NEW k \in FreeLinks
    PROVE  /\ k \in Links /\ k \notin links /\ k \in Holders /\ k \notin Cells /\ k \notin Objects
           /\ refers[k] = NoObject
<1>1. k \in Links /\ k \notin links
  BY DEF FreeLinks
<1>2. QED
  BY <1>1, CellFacts, ListsAssumption, InvFacts DEF OwnersOnly

\* A link that was free comes to hold y.
LEMMA LinkHolds ==
    ASSUME CollectionsInv, kind' = kind, cursor' = cursor,
           NEW k \in FreeLinks, links' = links \cup {k}, NEW y \in Object,
           refers' = [refers EXCEPT ![k] = y]
    PROVE  /\ CursorsFit' /\ OwnersOnly' /\ ArraysAreDense' /\ ParentsStay /\ UsedStay
           /\ refers' \in [Holders -> Referred] /\ \A h \in Holders \ Cells : refers'[h] # Beyond
           /\ links' \in SUBSET Links /\ Shifted(NoObject, y)
<1>1. /\ k \in Links /\ k \notin links /\ k \in Holders /\ k \notin Cells /\ k \notin Objects
      /\ refers[k] = NoObject
  BY FreeLinksFacts
<1>2. MayHold(k)
  BY <1>1 DEF MayHold
<1>3. \A g \in Links \ links' : refers[g] = NoObject
  BY InvFacts DEF OwnersOnly
<1>4. /\ refers' \in [Holders -> Referred] /\ \A g \in Holders \ Cells : refers'[g] # Beyond
      /\ OwnersOnly' /\ ParentsStay /\ Shifted(refers[k], y)
      /\ y = Beyond \/ refers[k] = Beyond \/ UsedStay
  BY <1>1, <1>2, <1>3, HoldsFacts
<1>5. UsedStay /\ Shifted(NoObject, y)
  BY <1>1, <1>4, ListsAssumption, InvFacts
<1>6. CursorsOwn
  BY CursorsStay
<1>7. CursorsFit' /\ ArraysAreDense'
  BY <1>4, <1>5, <1>6, UsedAgain
<1>8. links' \in SUBSET Links
  BY <1>1, InvFacts
<1>9. QED
  BY <1>4, <1>5, <1>7, <1>8

LEMMA EndLoadInv ==
    ASSUME CollectionsInv, NEW k \in Links, EndLoad(k), UNCHANGED <<program, below>>
    PROVE  CollectionsInv'
<1>1. /\ ~Idle /\ Top.does = "load" /\ k \in FreeLinks
      /\ links' = links \cup {k}
      /\ refers' = [refers EXCEPT ![k] = Top.arg]
      /\ refCount' = Kept(refCount, Top.arg)
      /\ next' = [next EXCEPT ![k] = NoLink] /\ prev' = [prev EXCEPT ![k] = NoLink]
      /\ head' = [head EXCEPT ![Top.for] = k] /\ tail' = [tail EXCEPT ![Top.for] = k]
      /\ calls' = Rest
      /\ UNCHANGED <<program, below, kind, cursor, stack>>
  BY DEF EndLoad
<1>2. PICK y \in Object : y = Top.arg
  BY <1>1, TopFields
<1>3. kind' = kind /\ cursor' = cursor /\ refers' = [refers EXCEPT ![k] = y]
  BY <1>1, <1>2
<1>4. /\ CursorsFit' /\ OwnersOnly' /\ ArraysAreDense' /\ ParentsStay
      /\ refers' \in [Holders -> Referred] /\ \A h \in Holders \ Cells : refers'[h] # Beyond
      /\ links' \in SUBSET Links /\ Shifted(NoObject, y)
  BY <1>1, <1>3, LinkHolds
<1>5. PointersTypeOK'
  <2>1. NoLink \in Link /\ k \in Link
    BY DEF Link
  <2>2. QED
    BY <1>1, <2>1, InvFacts DEF PointersTypeOK
<1>6. calls' = << >>
  BY <1>1, InvFacts, TopFits
<1>7. /\ << >> \in Seq(Loop) /\ InOrder(<< >>) /\ \A c \in LoopsOf(<< >>) : LoopFits(c)'
      /\ \A o : ~DyingIn(<< >>, o)
      /\ \A o \in Objects : HandedBy(<< >>, o) <=> Top.does = "clone" /\ Top.for = o
  BY <1>1, NoLoops DEF InOrder, LoopsOf
<1>8. refCount' = Kept(refCount, y) /\ Top.does \in {"load", "clone"}
      /\ (IF Top.does = "load" THEN y = Top.arg ELSE Safe(y))
      /\ UNCHANGED <<program, below, kind, stack>>
  BY <1>1, <1>2
<1>9. QED
  BY <1>1, <1>4, <1>5, <1>6, <1>7, <1>8, KeepStep

LEMMA CloneLinkInv ==
    ASSUME CollectionsInv, NEW k \in Links, CloneLink(k), UNCHANGED <<program, below>>
    PROVE  CollectionsInv'
<1>1. /\ ~Idle /\ Top.does = "clone" /\ Top.cur # NoLink /\ k \in FreeLinks
      /\ links' = links \cup {k}
      /\ refers' = [refers EXCEPT ![k] = refers[Top.cur]]
      /\ refCount' = Kept(refCount, refers[Top.cur])
      /\ IF Top.link = NoLink
         THEN head' = [head EXCEPT ![Top.for] = k] /\ UNCHANGED next
         ELSE next' = [next EXCEPT ![Top.link] = k] /\ UNCHANGED head
      /\ prev' = [prev EXCEPT ![k] = Top.link]
      /\ calls' = <<[Top EXCEPT !.link = k, !.cur = next[Top.cur]]>> \o Rest
      /\ UNCHANGED <<program, below, kind, tail, cursor, stack>>
  BY DEF CloneLink
<1>2. /\ Top.for \in Objects /\ Top.cur \in Links /\ Top.link \in Link /\ LoopFits(Top)
      /\ Top.link # NoLink => Top.link \in Links
  BY <1>1, TopFields, InvFacts
<1>3. Top.cur \in Holders /\ refers[Top.cur] # Beyond
  BY <1>2, CellFacts, ListsAssumption, InvFacts
<1>4. PICK y \in Object : y = refers[Top.cur] /\ Safe(y)
  BY <1>3, HeldFacts
<1>5. kind' = kind /\ cursor' = cursor /\ refers' = [refers EXCEPT ![k] = y]
  BY <1>1, <1>4
<1>6. /\ CursorsFit' /\ OwnersOnly' /\ ArraysAreDense' /\ ParentsStay /\ UsedStay
      /\ refers' \in [Holders -> Referred] /\ \A h \in Holders \ Cells : refers'[h] # Beyond
      /\ links' \in SUBSET Links /\ Shifted(NoObject, y)
  BY <1>1, <1>5, LinkHolds
<1>7. k \in Link /\ next[Top.cur] \in Link
  BY <1>2, InvFacts DEF Link, PointersTypeOK
<1>8. PointersTypeOK'
  <2>1. /\ head \in [Objects -> Link] /\ tail \in [Objects -> Link]
        /\ next \in [Links -> Link] /\ prev \in [Links -> Link]
        /\ cursor \in [Objects -> Link \cup Nat]
    BY InvFacts DEF PointersTypeOK
  <2>2. head' \in [Objects -> Link] /\ next' \in [Links -> Link]
    BY <1>1, <1>2, <1>7, <2>1
  <2>3. prev' \in [Links -> Link] /\ tail' = tail /\ cursor' = cursor
    BY <1>1, <1>2, <2>1
  <2>4. QED
    BY <2>1, <2>2, <2>3 DEF PointersTypeOK
<1>9. Top \in Loop
  BY <1>1, TopFields
<1>10. PICK c \in Loop : c = [Top EXCEPT !.link = k, !.cur = next[Top.cur]]
  BY <1>7, <1>9 DEF Loop
<1>11. c.does = "clone" /\ c.for = Top.for /\ c.cell = Top.cell
  <2>1. c.does = Top.does /\ c.for = Top.for /\ c.cell = Top.cell
    BY <1>9, <1>10 DEF Loop
  <2>2. QED
    BY <1>1, <2>1
<1>12. calls' = <<c>>
  <2>1. Rest = << >>
    BY <1>1, InvFacts, TopFits
  <2>2. calls' = <<c>> \o << >>
    BY <1>1, <1>10, <2>1
  <2>3. QED
    BY <2>2
<1>13. LoopFits(c)'
  <2>1. PassedIsReleased(c)'
    <3>1. ASSUME NEW n \in Used(c.for)', n < c.cell
          PROVE  refers'[<<c.for, n>>] = NoObject
      <4>1. n \in Used(Top.for)
        BY <1>2, <1>6, <1>11 DEF UsedStay
      <4>2. refers[<<Top.for, n>>] = NoObject
        BY <1>1, <1>2, <1>11, <3>1, <4>1 DEF LoopFits, PassedIsReleased
      <4>3. <<Top.for, n>> \in Holders /\ <<Top.for, n>> # k
        BY <1>2, <4>1, CellFacts DEF Used
      <4>4. QED
        BY <1>5, <1>11, <4>2, <4>3, InvFacts
    <3>2. QED
      BY <1>11, <3>1 DEF PassedIsReleased
  <2>2. refCount'[c.for] = 0
    <3>1. refCount[Top.for] = 0
      BY <1>1, <1>2 DEF LoopFits, ArgumentFits
    <3>2. y # Top.for
      BY <1>2, <1>4, <3>1, InvFacts DEF Safe
    <3>3. refCount'[Top.for] = refCount[Top.for]
      BY <1>1, <1>2, <1>4, <3>2, InvFacts DEF Kept
    <3>4. QED
      BY <1>11, <3>1, <3>3
  <2>3. SubjectFits(c)' /\ ArgumentFits(c)'
    BY <1>11, <2>2 DEF SubjectFits, ArgumentFits
  <2>4. QED
    BY <2>1, <2>3 DEF LoopFits
<1>14. PICK cs \in Seq(Loop) : cs = <<c>>
  BY OneLoop
<1>15. /\ InOrder(cs) /\ \A d \in LoopsOf(cs) : LoopFits(d)'
       /\ \A o : ~DyingIn(cs, o)
       /\ \A o \in Objects : HandedBy(cs, o) <=> Top.does = "clone" /\ Top.for = o
  <2>1. LoopsOf(cs) = {c} /\ InOrder(cs)
    BY <1>14, OneLoop
  <2>2. \A o : (DyingIn(cs, o) <=> Deletes(c, o)) /\ (HandedBy(cs, o) <=> Hands(c, o))
    BY <1>14, OneLoop
  <2>3. QED
    BY <1>1, <1>11, <1>13, <2>1, <2>2 DEF Deletes, Hands
<1>16. refCount' = Kept(refCount, y) /\ Top.does \in {"load", "clone"}
       /\ (IF Top.does = "load" THEN y = Top.arg ELSE Safe(y))
       /\ UNCHANGED <<program, below, kind, stack>> /\ calls' = cs
  BY <1>1, <1>4, <1>12, <1>14
<1>17. QED
  BY <1>1, <1>6, <1>8, <1>15, <1>16, KeepStep

-----------------------------------------------------------------------------
(* Methods that store, and that take links out of lists *)

LEMMA Exchanges ==
    ASSUME CollectionsInv, Idle, UNCHANGED <<program, below, kind>>, PointersTypeOK', CursorsFit',
           OwnersOnly', ArraysAreDense', ParentsStay,
           refers' \in [Holders -> Referred], \A h \in Holders \ Cells : refers'[h] # Beyond,
           links' \in SUBSET Links,
           NEW x \in Object, x = stack => x = NoObject, x \in Objects => refCount[x] > 0,
           Shifted(x, stack), refCount' = Released(Kept(refCount, stack), x),
           stack' = NoObject, calls' = AndDelete(x, << >>)
    PROVE  CollectionsInv'
<1>1. << >> \in Seq(Loop) /\ InOrder(<< >>) /\ \A c \in LoopsOf(<< >>) : LoopFits(c)'
  BY DEF InOrder, LoopsOf
<1>2. SameDeeds(calls, << >>) /\ ~HandedBy(calls, x)
  BY NoLoops DEF SameDeeds, Idle
<1>3. QED
  BY <1>1, <1>2, ExchangeStep

\* A holder gives up its object for the one on the stack.
LEMMA Replaces ==
    ASSUME CollectionsInv, Idle, UNCHANGED <<program, below, kind, links, cursor>>,
           UNCHANGED <<head, tail, next, prev>>,
           NEW h \in Holders, MayHold(h), refers[h] # Beyond,
           refers' = [refers EXCEPT ![h] = stack],
           refers[h] = stack => UNCHANGED <<refCount, calls>>,
           refers[h] # stack => /\ refCount' = Released(Kept(refCount, stack), refers[h])
                                /\ calls' = AndDelete(refers[h], << >>),
           stack' = NoObject
    PROVE  CollectionsInv'
<1>1. kind' = kind /\ cursor' = cursor
  OBVIOUS
<1>2. CursorsOwn /\ cursor' \in [Objects -> Link \cup Nat]
  BY <1>1, CursorsStay
<1>3. PICK x \in Object : x = refers[h] /\ Safe(x) /\ (x \in Objects => refCount[x] > 0)
  BY HeldFacts
<1>4. CASE x = stack
  <2>1. refers' = refers
    BY <1>3, <1>4, InvFacts
  <2>2. Safe(stack) /\ Safe(stack') /\ stack' \in Object
    BY <1>3, <1>4, InvFacts DEF Safe
  <2>3. UNCHANGED <<program, below, kind, refCount, refers, calls, links>>
    BY <1>3, <1>4, <2>1
  <2>4. QED
    BY <1>2, <2>2, <2>3, Looks
<1>5. CASE x # stack
  <2>1. \A k \in Links \ links' : refers[k] = NoObject
    BY InvFacts DEF OwnersOnly
  <2>2. stack \in Object /\ stack # Beyond
    BY InvFacts
  <2>3. /\ refers' \in [Holders -> Referred] /\ \A g \in Holders \ Cells : refers'[g] # Beyond
        /\ OwnersOnly' /\ ParentsStay /\ Shifted(refers[h], stack)
        /\ stack = Beyond \/ refers[h] = Beyond \/ UsedStay
    BY <1>1, <2>1, <2>2, HoldsFacts
  <2>4. UsedStay
    BY <2>2, <2>3
  <2>5. CursorsFit' /\ ArraysAreDense'
    BY <1>1, <1>2, <2>3, <2>4, UsedAgain
  <2>6. PointersTypeOK'
    BY <1>1, InvFacts DEF PointersTypeOK
  <2>7. links' \in SUBSET Links
    BY InvFacts
  <2>8. /\ Shifted(x, stack) /\ refCount' = Released(Kept(refCount, stack), x)
        /\ calls' = AndDelete(x, << >>)
    BY <1>3, <1>5, <2>3
  <2>9. QED
    BY <1>3, <1>5, <2>3, <2>5, <2>6, <2>7, <2>8, Exchanges
<1>6. QED
  BY <1>4, <1>5

LEMMA StoreInv ==
    ASSUME CollectionsInv, NEW v \in Vars, Store(v) \/ ClearVar(v), UNCHANGED <<program, below>>
    PROVE  CollectionsInv'
<1>1. v \in Holders /\ MayHold(v) /\ refers[v] # Beyond
  BY CellFacts, InvFacts DEF MayHold
<1>2. /\ Idle /\ stack' = NoObject /\ refers' = [refers EXCEPT ![v] = stack]
      /\ UNCHANGED <<program, below, kind, links, cursor>> /\ UNCHANGED <<head, tail, next, prev>>
  BY DEF Store, ClearVar, Release, shape
<1>3. refers[v] = stack => UNCHANGED <<refCount, calls>>
  BY DEF Store, ClearVar, Release, Released, AndDelete, Idle
<1>4. refers[v] # stack => /\ refCount' = Released(Kept(refCount, stack), refers[v])
                           /\ calls' = AndDelete(refers[v], << >>)
  BY DEF Store, ClearVar, Release, Kept
<1>5. QED
  BY <1>1, <1>2, <1>3, <1>4, Replaces

LEMMA AddInv ==
    ASSUME CollectionsInv, NEW l \in Lists, NEW k \in Links, AddHead(l, k) \/ AddTail(l, k),
           UNCHANGED <<program, below>>
    PROVE  CollectionsInv'
<1>1. /\ Idle /\ k \in FreeLinks /\ links' = links \cup {k}
      /\ refers' = [refers EXCEPT ![k] = stack]
      /\ refCount' = Kept(refCount, stack) /\ stack' = NoObject
      /\ UNCHANGED <<program, below, kind, cursor, calls>>
  BY DEF AddHead, AddTail, NewLink, Method
<1>2. l \in Objects /\ head[l] \in Link /\ tail[l] \in Link /\ k \in Link /\ NoLink \in Link
  BY ListsFacts DEF Link
<1>3. PointersTypeOK'
  <2>1. /\ head \in [Objects -> Link] /\ tail \in [Objects -> Link]
        /\ next \in [Links -> Link] /\ prev \in [Links -> Link]
        /\ cursor \in [Objects -> Link \cup Nat]
    BY InvFacts DEF PointersTypeOK
  <2>2. CASE AddHead(l, k)
    <3>1. head' \in [Objects -> Link] /\ tail' \in [Objects -> Link]
      BY <1>2, <2>1, <2>2 DEF AddHead
    <3>2. next' \in [Links -> Link] /\ prev' \in [Links -> Link]
      BY <1>2, <2>1, <2>2 DEF AddHead
    <3>3. QED
      BY <1>1, <2>1, <3>1, <3>2 DEF PointersTypeOK
  <2>3. CASE AddTail(l, k)
    <3>1. head' \in [Objects -> Link] /\ tail' \in [Objects -> Link]
      BY <1>2, <2>1, <2>3 DEF AddTail
    <3>2. next' \in [Links -> Link] /\ prev' \in [Links -> Link]
      BY <1>2, <2>1, <2>3 DEF AddTail
    <3>3. QED
      BY <1>1, <2>1, <3>1, <3>2 DEF PointersTypeOK
  <2>4. QED
    BY <2>2, <2>3
<1>4. PICK y \in Object : y = stack
  BY InvFacts
<1>5. kind' = kind /\ cursor' = cursor /\ refers' = [refers EXCEPT ![k] = y]
  BY <1>1, <1>4
<1>6. /\ CursorsFit' /\ OwnersOnly' /\ ArraysAreDense' /\ ParentsStay
      /\ refers' \in [Holders -> Referred] /\ \A h \in Holders \ Cells : refers'[h] # Beyond
      /\ links' \in SUBSET Links /\ Shifted(NoObject, y)
  BY <1>1, <1>5, LinkHolds
<1>7. /\ refCount' = Released(Kept(refCount, stack), NoObject)
      /\ calls' = AndDelete(NoObject, << >>)
      /\ NoObject \in Object /\ NoObject \notin Objects
  BY <1>1, InvFacts DEF Released, AndDelete, Idle
<1>8. Shifted(NoObject, stack)
  BY <1>4, <1>6
<1>9. QED
  BY <1>1, <1>3, <1>6, <1>7, <1>8, Exchanges

\* The loop that frees a link whose element was given up.
LEMMA RemoveLoop ==
    ASSUME NEW l \in Objects, NEW k \in Links, refers'[k] = NoObject, NoObject \in Object
    PROVE  \E c \in Loop : /\ c = Calls("remove", l, NoLink, k, NoObject) /\ c.does = "remove"
                           /\ LoopFits(c)' /\ \A o : ~Deletes(c, o) /\ ~Hands(c, o)
<1>1. Calls("remove", l, NoLink, k, NoObject) \in Loop
  BY DEF Calls, Loop, Link
<1>2. PICK c \in Loop : c = Calls("remove", l, NoLink, k, NoObject)
  BY <1>1
<1>3. c.does = "remove" /\ c.link = k /\ c.cell = 1
  BY <1>2 DEF Calls
<1>4. \A n \in Used(c.for)' : ~(n < c.cell)
  BY <1>3 DEF Used
<1>5. LoopFits(c)'
  BY <1>3, <1>4 DEF LoopFits, PassedIsReleased, SubjectFits, ArgumentFits
<1>6. QED
  BY <1>2, <1>3, <1>5 DEF Deletes, Hands

\* A link gives up its element.
LEMMA LinkGivesUp ==
    ASSUME CollectionsInv, kind' = kind, links' = links, NEW k \in Links,
           refers' = [refers EXCEPT ![k] = NoObject], CursorsOwn
    PROVE  /\ CursorsFit' /\ OwnersOnly' /\ ArraysAreDense' /\ ParentsStay
           /\ refers' \in [Holders -> Referred] /\ \A h \in Holders \ Cells : refers'[h] # Beyond
           /\ Shifted(refers[k], NoObject) /\ refers'[k] = NoObject
           /\ k \in Holders \ Vars /\ refers[k] # Beyond
<1>1. k \in Holders /\ k \notin Cells /\ k \notin Objects /\ k \notin Vars /\ refers[k] # Beyond
  BY CellFacts, ListsAssumption, InvFacts
<1>2. \A g \in Links \ links' : refers[g] = NoObject
  BY InvFacts DEF OwnersOnly
<1>3. NoObject \in Object /\ NoObject # Beyond
  BY InvFacts
<1>4. /\ refers' \in [Holders -> Referred] /\ \A g \in Holders \ Cells : refers'[g] # Beyond
      /\ OwnersOnly' /\ ParentsStay /\ Shifted(refers[k], NoObject)
      /\ NoObject = Beyond \/ refers[k] = Beyond \/ UsedStay
  BY <1>1, <1>2, <1>3, HoldsFacts
<1>5. CursorsFit' /\ ArraysAreDense'
  BY <1>1, <1>3, <1>4, UsedAgain
<1>6. refers'[k] = NoObject
  BY <1>1, InvFacts
<1>7. QED
  BY <1>1, <1>4, <1>5, <1>6

LEMMA Removes ==
    ASSUME CollectionsInv, stack = NoObject, UNCHANGED <<program, below>>,
           \A o : ~DyingIn(calls, o) /\ ~HandedBy(calls, o),
           NEW l \in Objects, NEW k \in Links, ReleaseAndFree(l, k),
           head' \in [Objects -> Link], tail' \in [Objects -> Link],
           next' \in [Links -> Link], prev' \in [Links -> Link],
           CursorsOwn /\ cursor' \in [Objects -> Link \cup Nat]
    PROVE  CollectionsInv'
<1>1. /\ refers' = [refers EXCEPT ![k] = NoObject] /\ refCount' = Released(refCount, refers[k])
      /\ calls' = AndDelete(refers[k], <<Calls("remove", l, NoLink, k, NoObject)>>)
      /\ kind' = kind /\ links' = links /\ stack' = stack
  BY DEF ReleaseAndFree, Release
<1>2. /\ CursorsFit' /\ OwnersOnly' /\ ArraysAreDense' /\ ParentsStay
      /\ refers' \in [Holders -> Referred] /\ \A h \in Holders \ Cells : refers'[h] # Beyond
      /\ Shifted(refers[k], NoObject) /\ refers'[k] = NoObject
      /\ k \in Holders \ Vars /\ refers[k] # Beyond
  BY <1>1, LinkGivesUp
<1>3. PICK x \in Object : x = refers[k] /\ (x \in Objects => refCount[x] > 0)
  BY <1>2, HeldFacts
<1>4. PICK c \in Loop : /\ c = Calls("remove", l, NoLink, k, NoObject)
                        /\ LoopFits(c)' /\ \A o : ~Deletes(c, o) /\ ~Hands(c, o)
  BY <1>2, RemoveLoop, InvFacts
<1>5. PICK rest \in Seq(Loop) : rest = <<c>>
  BY OneLoop
<1>6. /\ InOrder(rest) /\ SameDeeds(calls, rest)
      /\ \A d \in LoopsOf(rest) : LoopFits(d)'
  <2>1. /\ \A o : DyingIn(rest, o) <=> Deletes(c, o)
        /\ \A o : HandedBy(rest, o) <=> Hands(c, o)
        /\ LoopsOf(rest) = {c} /\ InOrder(rest)
    BY <1>5, OneLoop
  <2>2. QED
    BY <1>4, <2>1 DEF SameDeeds
<1>7. /\ calls' = AndDelete(x, rest) /\ Shifted(x, stack)
      /\ refCount' = Released(Kept(refCount, stack), x)
      /\ stack' = NoObject
  BY <1>1, <1>2, <1>3, <1>4, <1>5 DEF Kept
<1>8. PointersTypeOK' /\ links' \in SUBSET Links
  BY <1>1, InvFacts DEF PointersTypeOK
<1>9. UNCHANGED <<program, below, kind>> /\ (x = stack => x = NoObject)
  BY <1>1
<1>10. QED
  BY <1>2, <1>3, <1>6, <1>7, <1>8, <1>9, ExchangeStep

LEMMA Unrefs ==
    ASSUME CollectionsInv, Idle, stack = NoObject, UNCHANGED <<program, below>>,
           NEW l \in Objects, NEW k \in Links, UnrefAndFree(l, k),
           head' \in [Objects -> Link], tail' \in [Objects -> Link],
           next' \in [Links -> Link], prev' \in [Links -> Link],
           CursorsOwn /\ cursor' \in [Objects -> Link \cup Nat]
    PROVE  CollectionsInv'
<1>1. /\ refers' = [refers EXCEPT ![k] = NoObject]
      /\ refCount' = IF refers[k] # NoObject /\ refCount[refers[k]] = 0
                     THEN refCount ELSE Released(refCount, refers[k])
      /\ calls' = <<Calls("remove", l, NoLink, k, NoObject)>>
      /\ kind' = kind /\ links' = links /\ stack' = refers[k]
  BY DEF UnrefAndFree
<1>2. /\ CursorsFit' /\ OwnersOnly' /\ ArraysAreDense' /\ ParentsStay
      /\ refers' \in [Holders -> Referred] /\ \A h \in Holders \ Cells : refers'[h] # Beyond
      /\ Shifted(refers[k], NoObject) /\ refers'[k] = NoObject
      /\ k \in Holders \ Vars /\ refers[k] # Beyond
  BY <1>1, LinkGivesUp
<1>3. PICK x \in Object : x = refers[k] /\ (x \in Objects => refCount[x] > 0)
  BY <1>2, HeldFacts
<1>4. PICK c \in Loop : /\ c = Calls("remove", l, NoLink, k, NoObject) /\ c.does = "remove"
                        /\ LoopFits(c)' /\ \A o : ~Deletes(c, o) /\ ~Hands(c, o)
  BY <1>2, RemoveLoop, InvFacts
<1>5. calls' = <<c>>
  BY <1>1, <1>4
<1>6. /\ calls' \in Seq(Loop) /\ Len(calls') = 1 /\ calls'[1] = c
      /\ \A o : DyingIn(calls', o) <=> Deletes(c, o)
      /\ \A o : HandedBy(calls', o) <=> Hands(c, o)
      /\ LoopsOf(calls') = {c} /\ InOrder(calls')
  BY <1>5, OneLoop
<1>7. /\ \A o : ~DyingIn(calls', o) /\ ~HandedBy(calls', o)
      /\ \A d \in LoopsOf(calls') : LoopFits(d)'
      /\ calls' = << >> \/ (Len(calls') = 1 /\ calls'[1].does = "remove")
  BY <1>4, <1>6
<1>8. refCount' = Released(refCount, x)
  BY <1>1, <1>3, InvFacts
<1>9. PointersTypeOK' /\ links' \in SUBSET Links
  BY <1>1, InvFacts DEF PointersTypeOK
<1>10. UNCHANGED <<program, below, kind>> /\ Shifted(x, NoObject) /\ stack' = x
  BY <1>1, <1>2, <1>3
<1>11. QED
  BY <1>2, <1>3, <1>6, <1>7, <1>8, <1>9, <1>10, UnrefStep

\* Links are taken out of a list that is linked as it may be.
LEMMA UnlinkTypes ==
    ASSUME CollectionsInv, NEW l \in Objects, NEW k \in Links, Unlink(l, k)
    PROVE  /\ head' \in [Objects -> Link] /\ tail' \in [Objects -> Link]
           /\ next' \in [Links -> Link] /\ prev' \in [Links -> Link]
<1>1. /\ head \in [Objects -> Link] /\ tail \in [Objects -> Link]
      /\ next \in [Links -> Link] /\ prev \in [Links -> Link]
  BY InvFacts DEF PointersTypeOK
<1>2. next[k] \in Link /\ prev[k] \in Link
  BY <1>1
<1>3. head' \in [Objects -> Link] /\ tail' \in [Objects -> Link]
  BY <1>1, <1>2 DEF Unlink
<1>4. next' \in [Links -> Link] /\ prev' \in [Links -> Link]
  BY <1>1, <1>2 DEF Unlink
<1>5. QED
  BY <1>3, <1>4

LEMMA UnlinkEndTypes ==
    ASSUME CollectionsInv, NEW l \in Lists,
           (head[l] # NoLink /\ UnlinkHead(l)) \/ (tail[l] # NoLink /\ UnlinkTail(l))
    PROVE  /\ head' \in [Objects -> Link] /\ tail' \in [Objects -> Link]
           /\ next' \in [Links -> Link] /\ prev' \in [Links -> Link]
<1>1. /\ head \in [Objects -> Link] /\ tail \in [Objects -> Link]
      /\ next \in [Links -> Link] /\ prev \in [Links -> Link] /\ NoLink \in Link
  BY InvFacts DEF PointersTypeOK, Link
<1>2. CASE head[l] # NoLink /\ UnlinkHead(l)
  <2>1. next[head[l]] \in Link
    BY <1>2, ListsFacts
  <2>2. QED
    BY <1>1, <1>2, <2>1 DEF UnlinkHead
<1>3. CASE tail[l] # NoLink /\ UnlinkTail(l)
  <2>1. prev[tail[l]] \in Link
    BY <1>3, ListsFacts
  <2>2. QED
    BY <1>1, <1>3, <2>1 DEF UnlinkTail
<1>4. QED
  BY <1>2, <1>3

LEMMA RemoveEndInv ==
    ASSUME CollectionsInv, NEW l \in Lists, UNCHANGED <<program, below>>,
           RemoveHead(l) \/ RemoveTail(l) \/ UnrefHead(l) \/ UnrefTail(l)
    PROVE  CollectionsInv'
<1>1. Idle /\ stack = NoObject /\ cursor' = cursor
  BY DEF RemoveHead, RemoveTail, UnrefHead, UnrefTail, HasHead, HasTail, Method
<1>2. l \in Objects /\ \A o : ~DyingIn(calls, o) /\ ~HandedBy(calls, o)
  BY <1>1, ListsFacts, NoLoops DEF Idle
<1>3. CursorsOwn /\ cursor' \in [Objects -> Link \cup Nat]
  BY <1>1, CursorsStay
<1>4. CASE RemoveHead(l) \/ UnrefHead(l)
  <2>1. head[l] # NoLink /\ UnlinkHead(l)
    BY <1>4 DEF RemoveHead, UnrefHead, HasHead
  <2>2. PICK k \in Links : k = head[l]
    BY <2>1, ListsFacts
  <2>3. /\ head' \in [Objects -> Link] /\ tail' \in [Objects -> Link]
        /\ next' \in [Links -> Link] /\ prev' \in [Links -> Link]
    BY <2>1, UnlinkEndTypes
  <2>4. ReleaseAndFree(l, k) \/ UnrefAndFree(l, k)
    BY <1>4, <2>2 DEF RemoveHead, UnrefHead
  <2>5. QED
    BY <1>1, <1>2, <1>3, <2>3, <2>4, Removes, Unrefs
<1>5. CASE RemoveTail(l) \/ UnrefTail(l)
  <2>1. tail[l] # NoLink /\ UnlinkTail(l)
    BY <1>5 DEF RemoveTail, UnrefTail, HasTail
  <2>2. PICK k \in Links : k = tail[l]
    BY <2>1, ListsFacts
  <2>3. /\ head' \in [Objects -> Link] /\ tail' \in [Objects -> Link]
        /\ next' \in [Links -> Link] /\ prev' \in [Links -> Link]
    BY <2>1, UnlinkEndTypes
  <2>4. ReleaseAndFree(l, k) \/ UnrefAndFree(l, k)
    BY <1>5, <2>2 DEF RemoveTail, UnrefTail
  <2>5. QED
    BY <1>1, <1>2, <1>3, <2>3, <2>4, Removes, Unrefs
<1>6. QED
  BY <1>4, <1>5

LEMMA IterRemoveInv ==
    ASSUME CollectionsInv, NEW i \in Iters, UNCHANGED <<program, below>>, IterRemove(i) \/ IterUnref(i)
    PROVE  CollectionsInv'
<1>1. /\ Idle /\ stack = NoObject /\ cursor[i] # NoLink
      /\ Unlink(refers[i], cursor[i]) /\ cursor' = [cursor EXCEPT ![i] = next[cursor[i]]]
      /\ ReleaseAndFree(refers[i], cursor[i]) \/ UnrefAndFree(refers[i], cursor[i])
  BY DEF IterRemove, IterUnref, IterAt, IterMethod
<1>2. \A o : ~DyingIn(calls, o) /\ ~HandedBy(calls, o)
  BY <1>1, NoLoops DEF Idle
<1>3. PICK l \in Objects, k \in Links, m \in Link : l = refers[i] /\ k = cursor[i] /\ m = next[cursor[i]]
  BY <1>1, ItersFacts
<1>4. /\ head' \in [Objects -> Link] /\ tail' \in [Objects -> Link]
      /\ next' \in [Links -> Link] /\ prev' \in [Links -> Link]
  BY <1>1, <1>3, UnlinkTypes
<1>5. i \in Objects /\ OwnCursor(i, m) /\ m \in Link \cup Nat
  BY <1>1, ItersFacts
<1>6. cursor' = [cursor EXCEPT ![i] = m]
  BY <1>1, <1>3
<1>7. CursorsOwn /\ cursor' \in [Objects -> Link \cup Nat]
  BY <1>5, <1>6, CursorMoved
<1>8. ReleaseAndFree(l, k) \/ UnrefAndFree(l, k)
  BY <1>1, <1>3
<1>9. QED
  BY <1>1, <1>2, <1>4, <1>7, <1>8, Removes, Unrefs

LEMMA FoundToRemoveInv ==
    ASSUME CollectionsInv, FoundToRemove, UNCHANGED <<program, below>>
    PROVE  CollectionsInv'
<1>1. /\ ~Idle /\ Top.does = "seek remove" /\ Top.cur # NoLink /\ cursor' = cursor
      /\ Unlink(Top.for, Top.cur) /\ ReleaseAndFree(Top.for, Top.cur)
  BY DEF FoundToRemove, Found, Seeks
<1>2. Top \in Loop /\ calls = <<Top>> /\ stack = NoObject
  BY <1>1, TopFields, InvFacts, TopFits
<1>3. \A o : ~DyingIn(calls, o) /\ ~HandedBy(calls, o)
  BY <1>1, <1>2, OneLoop DEF Deletes, Hands
<1>4. PICK l \in Objects, k \in Links : l = Top.for /\ k = Top.cur
  BY <1>1, TopFields, InvFacts
<1>5. Unlink(l, k) /\ ReleaseAndFree(l, k)
  BY <1>1, <1>4
<1>6. /\ head' \in [Objects -> Link] /\ tail' \in [Objects -> Link]
      /\ next' \in [Links -> Link] /\ prev' \in [Links -> Link]
  BY <1>5, UnlinkTypes
<1>7. CursorsOwn /\ cursor' \in [Objects -> Link \cup Nat]
  BY <1>1, CursorsStay
<1>8. QED
  BY <1>2, <1>3, <1>5, <1>6, <1>7, Removes

-----------------------------------------------------------------------------
(* References that change places *)

Swapped(r, t, j, k) ==
    /\ t[j] = r[k] /\ t[k] = r[j]
    /\ \A h \in Holders : h # j /\ h # k => t[h] = r[h]

LEMMA SwappedCounts ==
    ASSUME NEW r, NEW t, NEW j \in Holders, NEW k \in Holders, Swapped(r, t, j, k), NEW o
    PROVE  Count(t, o) = Count(r, o)
<1> DEFINE f == [h \in Holders |-> IF h = j THEN k ELSE IF h = k THEN j ELSE h]
<1>1. f \in [Holders -> Holders]
  OBVIOUS
<1>2. \A h \in Holders : f[f[h]] = h /\ f[f[h]] = h
  OBVIOUS
<1>3. \A h \in Holders : t[f[h]] = r[h]
  BY DEF Swapped
<1>4. PICK g \in [Holders -> Holders] : g = f
  BY <1>1
<1>5. /\ \A h \in Holders : g[g[h]] = h /\ g[g[h]] = h
      /\ \A h \in Holders : t[g[h]] = r[h]
  BY <1>2, <1>3, <1>4
<1> HIDE DEF f
<1>6. QED
  BY <1>5, CountMoved

LEMMA SameCounts ==
    ASSUME \A o \in Objects : Count(refers', o) = Count(refers, o)
    PROVE  Shifted(NoObject, NoObject)
<1> SUFFICES ASSUME NEW o \in Objects
             PROVE  Turned(refers, refers', NoObject, NoObject, o)
  BY DEF Shifted
<1>1. Count(refers', o) = Count(refers, o) /\ Count(refers, o) \in Nat /\ o # NoObject
  BY CountType, ListsAssumption
<1>2. QED
  BY <1>1 DEF Turned

\* A method changes the places of references; the cells in use are the same.
LEMMA Rearranges ==
    ASSUME CollectionsInv, Idle, UNCHANGED <<program, below, kind, refCount, links, cursor, stack, calls>>,
           UNCHANGED <<head, tail, next, prev>>,
           ParentsStay, UsedStay, \A k \in Links \ links : refers'[k] = NoObject,
           refers' \in [Holders -> Referred], \A h \in Holders \ Cells : refers'[h] # Beyond,
           Shifted(NoObject, NoObject)
    PROVE  CollectionsInv'
<1>1. kind' = kind /\ cursor' = cursor /\ links' = links
  OBVIOUS
<1>2. CursorsOwn
  BY <1>1, CursorsStay
<1>3. CursorsFit' /\ ArraysAreDense'
  BY <1>1, <1>2, UsedAgain
<1>4. OwnersOnly'
  <2>1. \A o \in Objects : kind[o] \notin Iterators => refers'[o] = NoObject
    BY InvFacts DEF ParentsStay, OwnersOnly
  <2>2. QED
    BY <1>1, <2>1, InvFacts DEF OwnersOnly, UsedStay
<1>5. PointersTypeOK'
  BY InvFacts DEF PointersTypeOK
<1>6. /\ calls' = << >> /\ \A o \in Objects : ~Dying(o) /\ ~HandedBy(calls, o)
      /\ links' \in SUBSET Links
  BY <1>1, IdleFacts, NoLoops, InvFacts DEF Idle
<1>7. QED
  BY <1>3, <1>4, <1>5, <1>6, RearrangeStep

\* The links of a list iterator that a program uses are allocated.
LinksAt(i) ==
    cursor[i] # NoLink => /\ cursor[i] \in links
                          /\ next[cursor[i]] \in links \cup {NoLink}
                          /\ prev[cursor[i]] \in links \cup {NoLink}

LEMMA SwapLinksInv ==
    ASSUME CollectionsInv, NEW i \in Iters, LinksAt(i), UNCHANGED <<program, below>>, SwapNext(i) \/ SwapPrev(i)
    PROVE  CollectionsInv'
<1>1. /\ Idle /\ cursor[i] # NoLink
      /\ \/ next[cursor[i]] # NoLink /\ SwapElements(cursor[i], next[cursor[i]])
         \/ prev[cursor[i]] # NoLink /\ SwapElements(cursor[i], prev[cursor[i]])
  BY DEF SwapNext, SwapPrev, IterMethod
<1>2. PICK j \in links, k \in links : SwapElements(j, k)
  BY <1>1 DEF LinksAt
<1>3. /\ refers' = [refers EXCEPT ![j] = refers[k], ![k] = refers[j]]
      /\ UNCHANGED <<program, below, kind, refCount, links, cursor, stack, calls>>
      /\ UNCHANGED <<head, tail, next, prev>>
  BY <1>2 DEF SwapElements, shape
<1>4. /\ j \in Links /\ k \in Links /\ j \in Holders /\ k \in Holders
      /\ j \notin Cells /\ k \notin Cells /\ j \notin Objects /\ k \notin Objects
      /\ refers \in [Holders -> Referred] /\ Links \subseteq Holders \ Cells
      /\ \A h \in Holders \ Cells : refers[h] # Beyond
  BY CellFacts, ListsAssumption, InvFacts
<1>5. /\ refers' \in [Holders -> Referred] /\ \A h \in Holders \ Cells : refers'[h] # Beyond
      /\ \A h \in Holders : h # j /\ h # k => refers'[h] = refers[h]
  BY <1>3, <1>4
<1>6. ParentsStay
  BY <1>4, <1>5, CellFacts DEF ParentsStay
<1>7. UsedStay
  <2>1. \A h \in Cells : refers'[h] = refers[h]
    BY <1>4, <1>5 DEF Holders
  <2>2. QED
    BY <2>1, UsedSame
<1>8. \A g \in Links \ links : refers'[g] = NoObject
  <2>1. \A g \in Links \ links : g # j /\ g # k /\ refers[g] = NoObject /\ g \in Holders
    BY <1>2, <1>4, InvFacts DEF OwnersOnly
  <2>2. QED
    BY <1>5, <2>1
<1>9. Shifted(NoObject, NoObject)
  <2>1. Swapped(refers, refers', j, k)
    BY <1>3, <1>4, <1>5 DEF Swapped
  <2>2. \A o \in Objects : Count(refers', o) = Count(refers, o)
    BY <1>4, <2>1, SwappedCounts
  <2>3. QED
    BY <2>2, SameCounts
<1>10. QED
  BY <1>1, <1>3, <1>5, <1>6, <1>7, <1>8, <1>9, Rearranges

-----------------------------------------------------------------------------
(* New objects *)

LEMMA FreeFacts ==
    ASSUME CollectionsInv, NEW o \in FreeObjects
    PROVE  /\ o \in Objects /\ kind[o] = "free" /\ refCount[o] = 0 /\ refers[o] = NoObject
           /\ Used(o) = {} /\ \A h \in Holders : refers[h] # o
           /\ o \in Holders /\ o \notin Cells /\ o # stack
<1>1. o \in Objects /\ kind[o] = "free"
  BY DEF FreeObjects
<1>2. ~Live(o) /\ refCount[o] \in Nat
  BY <1>1, InvFacts DEF Live
<1>3. refCount[o] = 0 /\ ~InHand(o)
  BY <1>1, <1>2, InvFacts DEF LiveByCount
<1>4. refers[o] = NoObject /\ Used(o) = {}
  BY <1>1, InvFacts DEF OwnersOnly, Iterators, HasCells
<1>5. refCount[o] = Count(refers, o)
  BY <1>1, InvFacts DEF CountsMatch, HoldersOf, Count
<1>6. \A h \in Holders : refers[h] # o
  BY <1>3, <1>5, CountType
<1>7. o \in Holders /\ o \notin Cells
  BY <1>1, CellFacts, ListsAssumption
<1>8. QED
  BY <1>1, <1>3, <1>4, <1>6, <1>7 DEF InHand

\* What is held by iterators that are there.
LEMMA ParentHeld ==
    ASSUME CollectionsInv, NEW i \in Objects, refers[i] # NoObject
    PROVE  /\ kind[i] \in Iterators /\ refers[i] \in Objects
           /\ kind[refers[i]] = ParentKind(kind[i])
<1>1. kind[i] \in Iterators
  BY InvFacts DEF OwnersOnly
<1>2. i \in Holders \ Cells
  BY CellFacts
<1>3. refers[i] \in Objects
  BY <1>2, InvFacts
<1>4. kind[refers[i]] = ParentKind(kind[i])
  BY <1>1 DEF CollectionsInv, ParentsFit
<1>5. QED
  BY <1>1, <1>3, <1>4

\* An object that holds nothing is made.
LEMMA Makes ==
    ASSUME CollectionsInv, Idle, stack = NoObject, UNCHANGED <<program, below, refers, links>>,
           NEW o \in FreeObjects, NEW what \in {"item", "list", "array", "intMap"},
           kind' = [kind EXCEPT ![o] = what], refCount' = [refCount EXCEPT ![o] = 0],
           head' \in [Objects -> Link], tail' \in [Objects -> Link],
           next' \in [Links -> Link], prev' \in [Links -> Link],
           CursorsOwn /\ cursor' \in [Objects -> Link \cup Nat],
           \/ stack' = o /\ calls' = calls
           \/ /\ stack' = NoObject
              /\ \E c \in Loop : /\ c.does = "clone" /\ c.for = o /\ c.link = NoLink /\ c.cell = 1
                                 /\ calls' = <<c>>
    PROVE  CollectionsInv'
<1>1. /\ o \in Objects /\ kind[o] = "free" /\ refCount[o] = 0 /\ refers[o] = NoObject
      /\ Used(o) = {} /\ \A h \in Holders : refers[h] # o
  BY FreeFacts
<1>2. refers' = refers /\ refCount' = refCount /\ links' = links
  BY <1>1, InvFacts
<1>3. kind'[o] = what /\ \A p \in Objects \ {o} : kind'[p] = kind[p]
  BY <1>1, InvFacts
<1>4. what \notin Iterators /\ what \in Kinds \ {"free", "lost"}
  BY DEF Iterators, Kinds, Containers
<1>5. \A p : Used(p)' = Used(p)
  BY <1>2 DEF Used
<1>6. PointersTypeOK'
  BY DEF PointersTypeOK
<1>7. \A i \in Objects : refers[i] # NoObject => refers[i] \in Objects \ {o} /\ i # o
  BY <1>1, ParentHeld, CellFacts
<1>8. CursorsFit'
  <2>1. ASSUME NEW i \in Objects
        PROVE  /\ kind'[i] = "iter" => cursor'[i] \in Link
               /\ kind'[i] = "arrayIter" => cursor'[i] \in 1 .. MaxElements + 1
               /\ kind'[i] = "intMapIter" /\ refers[i] # NoObject =>
                      cursor'[i] \in Used(refers[i]) \cup {End}
    BY <1>3, <1>4 DEF CursorsOwn, OwnCursor, Iterators
  <2>2. QED
    BY <1>2, <1>5, <2>1 DEF CursorsFit
<1>9. ArraysAreDense'
  <2>1. Used(o) = 1 .. 0 /\ Size(o) = 0
    <3>1. 0 \in 0 .. MaxElements
      BY ListsAssumption
    <3>2. \A n \in 1 .. MaxElements : refers[<<o, n>>] # Beyond <=> n <= 0
      BY <1>1 DEF Used
    <3>3. QED
      BY <3>1, <3>2, FirstCells
  <2>2. \A a \in Objects : kind'[a] = "array" => Used(a) = 1 .. Size(a)
    BY <1>3, <2>1 DEF CollectionsInv, ArraysAreDense
  <2>3. \A a \in Objects : Size(a)' = Size(a)
    BY <1>5 DEF Size
  <2>4. QED
    BY <1>5, <2>2, <2>3 DEF ArraysAreDense
<1>10. OwnersOnly'
  <2>1. \A p \in Objects : kind'[p] \notin Iterators => refers[p] = NoObject
    BY <1>1, <1>3, InvFacts DEF OwnersOnly
  <2>2. \A p \in Objects : kind'[p] \notin HasCells => Used(p) = {}
    BY <1>1, <1>3, InvFacts DEF OwnersOnly
  <2>3. QED
    BY <1>2, <1>5, <2>1, <2>2, InvFacts DEF OwnersOnly
<1>11. \A p \in Objects : ~Dying(p) /\ ~HandedBy(calls, p)
  BY IdleFacts, NoLoops DEF Idle
<1>12. calls' \in Seq(Loop) /\ \A p \in Objects : ~Dying(p)' /\ (InHand(p)' <=> p = o)
  <2>1. CASE stack' = o /\ calls' = calls
    <3>1. calls' = << >>
      BY <2>1 DEF Idle
    <3>2. \A p : ~DyingIn(calls', p) /\ ~HandedBy(calls', p)
      BY <3>1, NoLoops
    <3>3. QED
      BY <2>1, <3>1, <3>2, DyingAndInHand
  <2>2. ASSUME stack' = NoObject, NEW c \in Loop, c.does = "clone", c.for = o, calls' = <<c>>
        PROVE  calls' \in Seq(Loop) /\ \A p \in Objects : ~Dying(p)' /\ (InHand(p)' <=> p = o)
    <3>1. /\ calls' \in Seq(Loop)
          /\ \A p : DyingIn(calls', p) <=> Deletes(c, p)
          /\ \A p : HandedBy(calls', p) <=> Hands(c, p)
      BY <2>2, OneLoop
    <3>2. \A p \in Objects : p # NoObject
      BY InvFacts
    <3>3. QED
      BY <2>2, <3>1, <3>2, DyingAndInHand DEF Deletes, Hands
  <2>3. QED
    BY <2>1, <2>2
<1>13. ParentsFit'
  <2>1. ASSUME NEW i \in Objects, kind'[i] \in Iterators
        PROVE  refers[i] # NoObject /\ kind'[refers[i]] = ParentKind(kind'[i])
    <3>1. i # o /\ kind'[i] = kind[i]
      BY <1>3, <1>4, <2>1
    <3>2. refers[i] # NoObject
      BY <1>11, <2>1, <3>1 DEF CollectionsInv, ParentsFit
    <3>3. QED
      BY <1>3, <1>7, <3>1, <3>2, ParentHeld
  <2>2. QED
    BY <1>2, <2>1 DEF ParentsFit
<1>14. CountsMatch'
  BY <1>2, InvFacts DEF CountsMatch, HoldersOf
<1>15. HeapTypeOK'
  <2>1. kind' \in [Objects -> Kinds]
    BY <1>4, InvFacts
  <2>2. stack' \in Object
    BY <1>1, InvFacts DEF Object
  <2>3. QED
    BY <1>2, <1>12, <2>1, <2>2 DEF CollectionsInv, HeapTypeOK
<1>16. LoopsFit'
  <2>1. CASE stack' = o /\ calls' = calls
    BY <2>1 DEF LoopsFit, Idle
  <2>2. ASSUME stack' = NoObject, NEW c \in Loop, c.does = "clone", c.for = o, c.link = NoLink,
               c.cell = 1, calls' = <<c>>
        PROVE  LoopsFit'
    <3>1. LoopsOf(calls') = {c} /\ InOrder(calls')
      BY <2>2, OneLoop
    <3>2. \A n \in Used(c.for)' : ~(n < c.cell)
      BY <2>2 DEF Used
    <3>3. refCount'[c.for] = 0
      BY <1>1, <1>2, <2>2
    <3>4. LoopFits(c)'
      BY <2>2, <3>2, <3>3 DEF LoopFits, PassedIsReleased, SubjectFits, ArgumentFits
    <3>5. QED
      BY <1>15, <2>2, <3>1, <3>4, LoopsFitAgain
  <2>3. QED
    BY <2>1, <2>2
<1>17. /\ refers' \in [Holders -> Referred] /\ \A h \in Holders \ Cells : refers'[h] # Beyond
       /\ links' \in SUBSET Links /\ refCount' \in [Objects -> Nat] /\ refCount'[o] = 0
       /\ \A p \in Objects \ {o} : refCount'[p] > 0 <=> refCount[p] > 0
  BY <1>1, <1>2, InvFacts
<1>18. Safe(stack) /\ stack' \in Object
  BY <1>15 DEF Safe, HeapTypeOK
<1>19. QED
  BY <1>1, <1>4, <1>6, <1>8, <1>9, <1>10, <1>11, <1>12, <1>13, <1>14, <1>16, <1>17, <1>18, MakeStep

LEMMA MakeInv ==
    ASSUME CollectionsInv, NEW o \in Objects, Make(o), UNCHANGED <<program, below>>
    PROVE  CollectionsInv'
<1>1. /\ Idle /\ stack = NoObject /\ o \in FreeObjects /\ stack' = o /\ calls' = calls
      /\ refCount' = [refCount EXCEPT ![o] = 0]
      /\ UNCHANGED <<program, below, refers, links>> /\ UNCHANGED <<next, prev, cursor>>
      /\ head' = head \/ head' = [head EXCEPT ![o] = NoLink]
      /\ tail' = tail \/ tail' = [tail EXCEPT ![o] = NoLink]
  BY DEF Make, New, NewArray, NewIntMap, shape
<1>2. PICK what \in {"item", "list", "array", "intMap"} : kind' = [kind EXCEPT ![o] = what]
  BY DEF Make, New, NewArray, NewIntMap
<1>3. /\ head' \in [Objects -> Link] /\ tail' \in [Objects -> Link]
      /\ next' \in [Links -> Link] /\ prev' \in [Links -> Link]
  BY <1>1, InvFacts DEF PointersTypeOK, Link
<1>4. CursorsOwn /\ cursor' \in [Objects -> Link \cup Nat]
  BY <1>1, CursorsStay
<1>5. QED
  BY <1>1, <1>2, <1>3, <1>4, Makes

LEMMA CloneInv ==
    ASSUME CollectionsInv, NEW l \in Lists, NEW o \in Objects, Clone(l, o), UNCHANGED <<program, below>>
    PROVE  CollectionsInv'
<1>1. /\ Idle /\ stack = NoObject /\ o \in FreeObjects /\ stack' = NoObject
      /\ kind' = [kind EXCEPT ![o] = "list"]
      /\ refCount' = [refCount EXCEPT ![o] = 0]
      /\ head' = [head EXCEPT ![o] = NoLink] /\ tail' = [tail EXCEPT ![o] = NoLink]
      /\ calls' = <<Calls("clone", o, head[l], NoLink, NoObject)>>
      /\ UNCHANGED <<program, below, refers, links>> /\ UNCHANGED <<next, prev, cursor>>
  BY DEF Clone, Method
<1>2. head[l] \in Link /\ NoLink \in Link /\ NoObject \in Object
  BY ListsFacts, InvFacts DEF Link
<1>3. PICK c \in Loop : /\ c = Calls("clone", o, head[l], NoLink, NoObject) /\ c.does = "clone"
                        /\ c.for = o /\ c.link = NoLink /\ c.cell = 1
  <2>1. Calls("clone", o, head[l], NoLink, NoObject) \in Loop
    BY <1>2 DEF Calls, Loop
  <2>2. QED
    BY <2>1 DEF Calls
<1>4. calls' = <<c>>
  BY <1>1, <1>3
<1>5. /\ head' \in [Objects -> Link] /\ tail' \in [Objects -> Link]
      /\ next' \in [Links -> Link] /\ prev' \in [Links -> Link]
  BY <1>1, <1>2, InvFacts DEF PointersTypeOK
<1>6. CursorsOwn /\ cursor' \in [Objects -> Link \cup Nat]
  BY <1>1, CursorsStay
<1>7. QED
  BY <1>1, <1>3, <1>4, <1>5, <1>6, Makes

LEMMA SplitInv ==
    ASSUME CollectionsInv, NEW i \in Iters, NEW o \in Objects, Split(i, o), UNCHANGED <<program, below>>
    PROVE  CollectionsInv'
<1>1. /\ Idle /\ stack = NoObject /\ o \in FreeObjects /\ stack' = o /\ calls' = calls
      /\ kind' = [kind EXCEPT ![o] = "list"]
      /\ refCount' = [refCount EXCEPT ![o] = 0]
      /\ cursor' = [cursor EXCEPT ![i] = NoLink]
      /\ UNCHANGED <<program, below, refers, links>> /\ UNCHANGED <<next, prev>>
  BY DEF Split, IterMethod
<1>2. NoLink \in Link /\ i \in Objects /\ OwnCursor(i, NoLink) /\ NoLink \in Link \cup Nat
  BY <1>1, ItersFacts DEF Link
<1>3. CursorsOwn /\ cursor' \in [Objects -> Link \cup Nat]
  BY <1>1, <1>2, CursorMoved
<1>4. /\ head \in [Objects -> Link] /\ tail \in [Objects -> Link]
      /\ next' \in [Links -> Link] /\ prev' \in [Links -> Link]
      /\ head[refers[i]] \in Link /\ tail[refers[i]] \in Link
  BY <1>1, ItersFacts, InvFacts DEF PointersTypeOK
<1>5. head' \in [Objects -> Link] /\ tail' \in [Objects -> Link]
  <2>1. CASE cursor[i] = NoLink
    BY <1>2, <1>4, <2>1 DEF Split
  <2>2. CASE cursor[i] # NoLink
    BY <1>2, <1>4, <2>2 DEF Split
  <2>3. QED
    BY <2>1, <2>2
<1>6. QED
  BY <1>1, <1>3, <1>4, <1>5, Makes

\* What an iterator of l may stand at.
StandsAt(what, l, k) ==
    /\ k \in Link \cup Nat
    /\ what = "iter" => k \in Link
    /\ what = "arrayIter" => k \in 1 .. MaxElements + 1
    /\ what = "intMapIter" => k \in Used(l) \cup {End}

LEMMA MakesIter ==
    ASSUME CollectionsInv, \A p \in Objects : ~Dying(p) /\ ~HandedBy(calls, p),
           UNCHANGED <<program, below, links>>, UNCHANGED <<head, tail, next, prev>>,
           Safe(stack), calls' = << >>,
           NEW o \in Objects, NEW what \in Iterators, NEW l \in Objects, NEW k,
           MakeIter(what, o, l, k), kind[l] = ParentKind(what), refCount[l] > 0,
           StandsAt(what, l, k)
    PROVE  CollectionsInv'
<1>1. /\ o \in FreeObjects /\ kind' = [kind EXCEPT ![o] = what]
      /\ refers' = [refers EXCEPT ![o] = l]
      /\ refCount' = [Kept(refCount, l) EXCEPT ![o] = 0]
      /\ cursor' = [cursor EXCEPT ![o] = k] /\ stack' = o
  BY DEF MakeIter
<1>2. /\ kind[o] = "free" /\ refCount[o] = 0 /\ refers[o] = NoObject
      /\ Used(o) = {} /\ \A h \in Holders : refers[h] # o
      /\ o \in Holders /\ o \notin Cells /\ o # stack
  BY <1>1, FreeFacts
<1>3. o # l /\ l # NoObject
  BY <1>2, InvFacts
<1>4. /\ kind'[o] = what /\ \A p \in Objects \ {o} : kind'[p] = kind[p]
      /\ refers'[o] = l /\ \A h \in Holders \ {o} : refers'[h] = refers[h]
      /\ cursor'[o] = k /\ \A p \in Objects \ {o} : cursor'[p] = cursor[p]
  BY <1>1, <1>2, InvFacts DEF PointersTypeOK
<1>5. what \in Kinds \ {"free", "lost"} /\ what \notin HasCells /\ what # "array"
  BY DEF Iterators, Kinds, Containers, HasCells
<1>6. PointersTypeOK'
  <2>1. cursor' \in [Objects -> Link \cup Nat]
    BY <1>1, InvFacts DEF PointersTypeOK, StandsAt
  <2>2. QED
    BY <2>1, InvFacts DEF PointersTypeOK
<1>7. /\ refers' \in [Holders -> Referred] /\ \A h \in Holders \ Cells : refers'[h] # Beyond
  BY <1>1, <1>2, <1>4, InvFacts DEF Referred, Object
<1>8. \A p \in Objects : Used(p)' = Used(p)
  <2>1. ASSUME NEW p \in Objects, NEW n \in 1 .. MaxElements
        PROVE  refers'[<<p, n>>] = refers[<<p, n>>]
    BY <1>2, <1>4, CellFacts
  <2>2. QED
    BY <2>1 DEF Used
<1>9. CursorsFit'
  <2>1. \A i \in Objects \ {o} : refers'[i] = refers[i]
    BY <1>4, CellFacts
  <2>2. ASSUME NEW i \in Objects, i # o
        PROVE  /\ kind'[i] = "iter" => cursor'[i] \in Link
               /\ kind'[i] = "arrayIter" => cursor'[i] \in 1 .. MaxElements + 1
               /\ kind'[i] = "intMapIter" /\ refers'[i] # NoObject =>
                      cursor'[i] \in Used(refers'[i]) \cup {End}
    <3>1. refers[i] # NoObject => refers[i] \in Objects
      BY ParentHeld
    <3>2. kind'[i] = kind[i] /\ cursor'[i] = cursor[i] /\ refers'[i] = refers[i]
      BY <1>4, <2>1, <2>2
    <3>3. QED
      BY <3>1, <3>2 DEF CollectionsInv, CursorsFit
  <2>3. /\ kind'[o] = "iter" => cursor'[o] \in Link
        /\ kind'[o] = "arrayIter" => cursor'[o] \in 1 .. MaxElements + 1
        /\ kind'[o] = "intMapIter" /\ refers'[o] # NoObject =>
               cursor'[o] \in Used(l) \cup {End}
    BY <1>4 DEF StandsAt
  <2>4. \A i \in Objects : refers'[i] # NoObject => Used(refers[i])' = Used(refers'[i])
    <3>1. ASSUME NEW i \in Objects, refers'[i] # NoObject
          PROVE  refers'[i] \in Objects
      <4>1. i \in Holders \ Cells
        BY CellFacts
      <4>2. QED
        BY <1>7, <3>1, <4>1 DEF Referred, Object
    <3>2. ASSUME NEW i \in Objects, refers'[i] \in Objects, NEW n \in 1 .. MaxElements
          PROVE  refers'[<<refers'[i], n>>] = refers[<<refers'[i], n>>]
      BY <1>2, <1>4, <3>2, CellFacts
    <3>3. QED
      BY <3>1, <3>2 DEF Used
  <2>5. QED
    BY <1>4, <2>2, <2>3, <2>4 DEF CursorsFit, End
<1>10. ArraysAreDense'
  <2>1. \A a \in Objects : kind'[a] = "array" => kind[a] = "array"
    BY <1>4, <1>5
  <2>2. \A a \in Objects : Size(a)' = Size(a)
    BY <1>8 DEF Size
  <2>3. QED
    BY <1>8, <2>1, <2>2 DEF CollectionsInv, ArraysAreDense
<1>11. OwnersOnly'
  <2>1. \A j \in Links \ links : refers'[j] = NoObject
    BY <1>4, CellFacts, ListsAssumption, InvFacts DEF OwnersOnly
  <2>2. \A p \in Objects : kind'[p] \notin Iterators => refers'[p] = NoObject
    BY <1>4, CellFacts, InvFacts DEF OwnersOnly
  <2>3. \A p \in Objects : kind'[p] \notin HasCells => Used(p) = {}
    BY <1>2, <1>4, InvFacts DEF OwnersOnly
  <2>4. QED
    BY <1>8, <2>1, <2>2, <2>3 DEF OwnersOnly
<1>12. ParentsFit'
  <2>1. ASSUME NEW i \in Objects, kind'[i] \in Iterators
        PROVE  refers'[i] # NoObject /\ kind'[refers'[i]] = ParentKind(kind'[i])
    <3>1. CASE i = o
      BY <1>3, <1>4, <3>1
    <3>2. CASE i # o
      <4>1. kind'[i] = kind[i] /\ refers'[i] = refers[i]
        BY <1>4, <3>2, CellFacts
      <4>2. refers[i] # NoObject
        BY <2>1, <4>1 DEF CollectionsInv, ParentsFit
      <4>3. refers[i] \in Objects \ {o} /\ kind[refers[i]] = ParentKind(kind[i])
        BY <1>2, <4>2, ParentHeld, CellFacts
      <4>4. QED
        BY <1>4, <4>1, <4>2, <4>3
    <3>3. QED
      BY <3>1, <3>2
  <2>2. QED
    BY <2>1 DEF ParentsFit
<1>13. Shifted(NoObject, l)
  BY <1>1, <1>2, InvFacts, ShiftedOne
<1>14. Recounted(NoObject, l)
  BY <1>1, <1>2, <1>3, InvFacts DEF Recounted, Kept
<1>15. CountsMatch'
  BY <1>13, <1>14, InvFacts, CountsAgain
<1>16. /\ refCount' \in [Objects -> Nat] /\ refCount'[o] = 0
       /\ \A p \in Objects \ {o} : refCount'[p] > 0 <=> refCount[p] > 0
  BY <1>1, <1>3, InvFacts DEF Kept
<1>17. calls' \in Seq(Loop) /\ \A p \in Objects : ~Dying(p)' /\ (InHand(p)' <=> p = o)
  <2>1. \A p : ~DyingIn(calls', p) /\ ~HandedBy(calls', p)
    BY NoLoops
  <2>2. QED
    BY <1>1, <2>1, DyingAndInHand
<1>18. stack' \in Object
  BY <1>1 DEF Object
<1>19. LoopsFit'
  BY DEF LoopsFit
<1>20. links' \in SUBSET Links
  BY InvFacts
<1>21. QED
  BY <1>1, <1>2, <1>5, <1>6, <1>7, <1>9, <1>10, <1>11, <1>12, <1>15, <1>16, <1>17, <1>18, <1>19, <1>20, MakeStep

\* The methods that make an iterator while no loop is under way.
LEMMA MakesIterIdle ==
    ASSUME CollectionsInv, Idle, Safe(stack), UNCHANGED <<program, below>>, UNCHANGED <<shape, calls>>,
           NEW o \in Objects, NEW what \in Iterators, NEW l \in Objects, NEW k,
           MakeIter(what, o, l, k), kind[l] = ParentKind(what), InVar(l),
           StandsAt(what, l, k)
    PROVE  CollectionsInv'
<1>1. \A p \in Objects : ~Dying(p) /\ ~HandedBy(calls, p)
  BY IdleFacts, NoLoops DEF Idle
<1>2. /\ UNCHANGED <<program, below, links>> /\ UNCHANGED <<head, tail, next, prev>>
      /\ calls' = << >>
  BY DEF shape, Idle
<1>3. refCount[l] > 0
  BY InVarFacts
<1>4. QED
  BY <1>1, <1>2, <1>3, MakesIter

LEMMA ListIterInv ==
    ASSUME CollectionsInv, NEW l \in Lists, NEW i \in Objects, UNCHANGED <<program, below>>,
           HeadIter(l, i) \/ TailIter(l, i)
    PROVE  CollectionsInv'
<1>1. /\ Idle /\ stack = NoObject /\ UNCHANGED <<shape, calls>>
  BY DEF HeadIter, TailIter, Method
<1>2. PICK k \in Link : MakeIter("iter", i, l, k)
  BY ListsFacts DEF HeadIter, TailIter, Link
<1>3. "iter" \in Iterators /\ StandsAt("iter", l, k)
  BY DEF Iterators, StandsAt
<1>4. Safe(stack)
  BY <1>1 DEF Safe
<1>5. l \in Objects /\ kind[l] = ParentKind("iter") /\ InVar(l)
  BY ListsFacts, ParentKinds
<1>6. QED
  BY <1>1, <1>2, <1>3, <1>4, <1>5, MakesIterIdle

LEMMA FoundIterInv ==
    ASSUME CollectionsInv, NEW i \in Objects, FoundIter(i), UNCHANGED <<program, below>>
    PROVE  CollectionsInv'
<1>1. /\ ~Idle /\ Top.does = "seek" /\ MakeIter("iter", i, Top.for, Top.cur) /\ calls' = Rest
      /\ UNCHANGED <<program, below, links>> /\ UNCHANGED <<head, tail, next, prev>>
  BY DEF FoundIter, Found, Seeks, shape
<1>2. /\ Top \in Loop /\ LoopFits(Top) /\ Top.for \in Objects /\ Top.cur \in Link
  BY <1>1, TopFields
<1>3. Rest = << >> /\ calls = <<Top>> /\ stack = NoObject
  BY <1>1, InvFacts, TopFits
<1>4. kind[Top.for] = "list" /\ InVar(Top.for)
  BY <1>1, <1>2 DEF LoopFits, SubjectFits
<1>5. refCount[Top.for] > 0
  BY <1>2, <1>4, InVarFacts
<1>6. \A p \in Objects : ~Dying(p) /\ ~HandedBy(calls, p)
  <2>1. /\ \A p : DyingIn(calls, p) <=> Deletes(Top, p)
        /\ \A p : HandedBy(calls, p) <=> Hands(Top, p)
    BY <1>2, <1>3, OneLoop
  <2>2. QED
    BY <1>1, <2>1, DyingAndInHand DEF Deletes, Hands
<1>7. "iter" \in Iterators /\ StandsAt("iter", Top.for, Top.cur) /\ Safe(stack)
  BY <1>2, <1>3 DEF Iterators, StandsAt, Safe
<1>8. kind[Top.for] = ParentKind("iter")
  BY <1>4, ParentKinds
<1>9. QED
  BY <1>1, <1>2, <1>3, <1>5, <1>6, <1>7, <1>8, MakesIter

-----------------------------------------------------------------------------
(* Arrays, maps and their iterators *)

\* The cells of a in use.
LEMMA UsedCells ==
    ASSUME CollectionsInv, NEW a \in Objects, NEW n \in Used(a)
    PROVE  /\ n \in 1 .. MaxElements /\ <<a, n>> \in Holders /\ <<a, n>> \in Cells
           /\ refers[<<a, n>>] # Beyond /\ refers[<<a, n>>] \in Object
           /\ kind[a] \in HasCells
<1>1. n \in 1 .. MaxElements /\ refers[<<a, n>>] # Beyond
  BY DEF Used
<1>2. <<a, n>> \in Holders /\ <<a, n>> \in Cells
  BY <1>1, CellFacts
<1>3. kind[a] \in HasCells
  BY InvFacts DEF OwnersOnly
<1>4. QED
  BY <1>1, <1>2, <1>3, InvFacts

\* The arrays that a program uses.
LEMMA ArraysFacts ==
    ASSUME CollectionsInv, NEW a \in Arrays
    PROVE  /\ a \in Objects /\ kind[a] = "array" /\ InVar(a) /\ refCount[a] > 0
           /\ Used(a) = 1 .. Size(a) /\ Size(a) \in 0 .. MaxElements
           /\ \A n \in Used(a) : n \in 1 .. MaxElements + 1
           /\ 1 \in 1 .. MaxElements + 1 /\ Size(a) + 1 \in 1 .. MaxElements + 1
<1>1. a \in Objects /\ kind[a] = "array" /\ InVar(a)
  BY DEF Arrays, InVar
<1>2. Used(a) = 1 .. Size(a)
  BY <1>1 DEF CollectionsInv, ArraysAreDense
<1>3. Size(a) \in 0 .. MaxElements
  BY UsedFacts
<1>4. QED
  BY <1>1, <1>2, <1>3, InVarFacts, ListsAssumption

LEMMA ArrayItersFacts ==
    ASSUME CollectionsInv, Idle, NEW i \in ArrayIters
    PROVE  /\ i \in Objects /\ kind[i] = "arrayIter" /\ InVar(i)
           /\ refers[i] \in Objects /\ kind[refers[i]] = "array" /\ refCount[refers[i]] > 0
           /\ Used(refers[i]) = 1 .. Size(refers[i])
           /\ Size(refers[i]) \in 0 .. MaxElements
           /\ cursor[i] \in 1 .. MaxElements + 1
           /\ \A k \in 1 .. MaxElements + 1 : OwnCursor(i, k) /\ k \in Link \cup Nat
<1>1. i \in Objects /\ kind[i] = "arrayIter" /\ InVar(i) /\ kind[i] \in Iterators
  BY DEF ArrayIters, InVar, Iterators
<1>2. ~Dying(i)
  BY IdleFacts
<1>3. /\ refers[i] \in Objects /\ kind[refers[i]] = "array" /\ refCount[refers[i]] > 0
      /\ OwnCursor(i, cursor[i])
  BY <1>1, <1>2, IterFacts, ParentKinds
<1>4. Used(refers[i]) = 1 .. Size(refers[i])
  BY <1>3 DEF CollectionsInv, ArraysAreDense
<1>5. Size(refers[i]) \in 0 .. MaxElements
  BY UsedFacts
<1>6. cursor[i] \in 1 .. MaxElements + 1
  BY <1>1, <1>3 DEF OwnCursor
<1>7. \A k \in 1 .. MaxElements + 1 : OwnCursor(i, k) /\ k \in Link \cup Nat
  BY <1>1 DEF OwnCursor
<1>8. QED
  BY <1>1, <1>3, <1>4, <1>5, <1>6, <1>7

LEMMA ArrayIterInv ==
    ASSUME CollectionsInv, NEW a \in Arrays, NEW i \in Objects, UNCHANGED <<program, below>>,
           ArrayHeadIter(a, i) \/ ArrayTailIter(a, i) \/ ArrayFind(a, i)
    PROVE  CollectionsInv'
<1>1. Idle /\ UNCHANGED <<shape, calls>> /\ Safe(stack)
  BY SoughtSafe DEF ArrayHeadIter, ArrayTailIter, ArrayFind, ArrayMethod, Safe
<1>2. /\ a \in Objects /\ kind[a] = ParentKind("arrayIter") /\ InVar(a)
      /\ "arrayIter" \in Iterators
  BY ArraysFacts, ParentKinds DEF Iterators
<1>3. ASSUME NEW k \in 1 .. MaxElements + 1, MakeIter("arrayIter", i, a, k)
      PROVE  CollectionsInv'
  <2>1. StandsAt("arrayIter", a, k)
    BY DEF StandsAt
  <2>2. QED
    BY <1>1, <1>2, <1>3, <2>1, MakesIterIdle
<1>4. CASE ArrayHeadIter(a, i)
  BY <1>3, <1>4, ArraysFacts DEF ArrayHeadIter
<1>5. CASE ArrayTailIter(a, i)
  BY <1>3, <1>5, ArraysFacts DEF ArrayTailIter
<1>6. CASE ArrayFind(a, i) /\ FirstOf(a, 1) # {}
  <2>1. PICK n \in FirstOf(a, 1) : MakeIter("arrayIter", i, a, n)
    BY <1>6 DEF ArrayFind
  <2>2. n \in 1 .. Size(a)
    BY <2>1 DEF FirstOf
  <2>3. n \in 1 .. MaxElements + 1
    BY <2>2, ArraysFacts
  <2>4. QED
    BY <1>3, <2>1, <2>3
<1>7. CASE ArrayFind(a, i) /\ FirstOf(a, 1) = {}
  <2>1. stack' = NoObject /\ UNCHANGED <<counts, cursor, shape, calls>>
    BY <1>7 DEF ArrayFind
  <2>2. /\ UNCHANGED <<program, below, kind, refCount, refers, calls, links>>
        /\ UNCHANGED <<head, tail, next, prev>>
    BY <2>1 DEF counts, shape
  <2>3. CursorsOwn /\ cursor' \in [Objects -> Link \cup Nat]
    BY <2>1, CursorsStay
  <2>4. stack' \in Object /\ Safe(stack)'
    BY <2>1 DEF Object, Safe
  <2>5. Safe(stack')
    BY <2>1 DEF Safe
  <2>6. QED
    BY <1>1, <2>2, <2>3, <2>4, <2>5, Looks
<1>8. QED
  BY <1>4, <1>5, <1>6, <1>7

LEMMA ArrayIterCloneInv ==
    ASSUME CollectionsInv, NEW i \in ArrayIters, NEW o \in Objects, UNCHANGED <<program, below>>,
           ArrayIterClone(i, o)
    PROVE  CollectionsInv'
<1>1. /\ Idle /\ stack = NoObject /\ UNCHANGED <<shape, calls>>
      /\ MakeIter("arrayIter", o, refers[i], cursor[i])
  BY DEF ArrayIterClone, ArrayIterMethod
<1>2. /\ i \in Objects /\ cursor[i] \in 1 .. MaxElements + 1
      /\ refers[i] \in Objects /\ kind[refers[i]] = ParentKind("arrayIter")
      /\ refCount[refers[i]] > 0
  BY <1>1, ArrayItersFacts, ParentKinds
<1>3. "arrayIter" \in Iterators /\ StandsAt("arrayIter", refers[i], cursor[i]) /\ Safe(stack)
  BY <1>1, <1>2 DEF StandsAt, Iterators, Safe
<1>4. \A p \in Objects : ~Dying(p) /\ ~HandedBy(calls, p)
  BY <1>1, IdleFacts, NoLoops DEF Idle
<1>5. /\ UNCHANGED <<program, below, links>> /\ UNCHANGED <<head, tail, next, prev>>
      /\ calls' = << >>
  BY <1>1 DEF shape, Idle
<1>6. QED
  BY <1>1, <1>2, <1>3, <1>4, <1>5, MakesIter

LEMMA GetInv ==
    ASSUME CollectionsInv, UNCHANGED <<program, below>>,
           NEW a \in Objects, NEW n, (a \in Arrays /\ Get(a, n)) \/ (a \in IntMaps /\ Grab(a, n))
    PROVE  CollectionsInv'
<1>1. /\ Idle /\ stack = NoObject /\ n \in Used(a) /\ stack' = refers[<<a, n>>]
      /\ UNCHANGED <<counts, shape, cursor, calls>>
  BY DEF Get, Grab, ArrayMethod, MapMethod
<1>2. <<a, n>> \in Holders /\ refers[<<a, n>>] # Beyond
  BY <1>1, UsedCells
<1>3. refers[<<a, n>>] \in Object /\ Safe(refers[<<a, n>>])
  BY <1>2, HeldFacts
<1>4. /\ UNCHANGED <<program, below, kind, refCount, refers, calls, links>>
      /\ UNCHANGED <<head, tail, next, prev>>
  BY <1>1 DEF counts, shape
<1>5. CursorsOwn /\ cursor' \in [Objects -> Link \cup Nat]
  BY <1>1, CursorsStay
<1>6. Safe(stack) /\ stack' \in Object /\ Safe(stack')
  BY <1>1, <1>3 DEF Safe
<1>7. QED
  BY <1>1, <1>4, <1>5, <1>6, Looks

LEMMA ArraySeeksInv ==
    ASSUME CollectionsInv, NEW i \in ArrayIters, UNCHANGED <<program, below>>,
           \/ ArraySeekNext(i) \/ ArraySeekPrev(i) \/ ArraySeekHead(i) \/ ArraySeekTail(i)
           \/ \E n \in 1 .. MaxElements + 1 : SeekTo(i, n)
    PROVE  CollectionsInv'
<1>1. PICK k : MoveTo(i, k) /\ \/ k = cursor[i] + 1 /\ AtElement(i)
                               \/ k = cursor[i] - 1 /\ cursor[i] > 1
                               \/ k = 1
                               \/ k = Size(refers[i]) + 1
                               \/ k \in 1 .. MaxElements + 1
  BY DEF ArraySeekNext, ArraySeekPrev, ArraySeekHead, ArraySeekTail, SeekTo
<1>2. /\ Idle /\ stack = NoObject /\ stack' = NoObject /\ cursor' = [cursor EXCEPT ![i] = k]
      /\ UNCHANGED <<counts, shape, calls>>
  BY <1>1 DEF MoveTo, ArrayIterMethod
<1>3. k \in 1 .. MaxElements + 1
  <2>1. /\ cursor[i] \in 1 .. MaxElements + 1 /\ Size(refers[i]) \in 0 .. MaxElements
        /\ Used(refers[i]) = 1 .. Size(refers[i]) /\ MaxElements \in Nat
    BY <1>2, ArrayItersFacts, ListsAssumption
  <2>2. QED
    BY <1>1, <2>1 DEF AtElement
<1>4. i \in Objects /\ OwnCursor(i, k) /\ k \in Link \cup Nat
  BY <1>2, <1>3, ArrayItersFacts
<1>5. QED
  BY <1>2, <1>4, IterLooks

LEMMA ArrayLooksInv ==
    ASSUME CollectionsInv, NEW i \in ArrayIters, UNCHANGED <<program, below>>,
           ArrayCurrent(i) \/ ArrayNext(i) \/ ArrayPrev(i)
    PROVE  CollectionsInv'
<1>1. Idle /\ stack = NoObject /\ UNCHANGED <<counts, shape, calls>>
  BY DEF ArrayCurrent, ArrayNext, ArrayPrev, ArrayIterMethod
<1>2. /\ i \in Objects /\ refers[i] \in Objects
      /\ cursor[i] \in 1 .. MaxElements + 1
      /\ Used(refers[i]) = 1 .. Size(refers[i]) /\ Size(refers[i]) \in 0 .. MaxElements
      /\ MaxElements \in Nat /\ cursor \in [Objects -> Link \cup Nat]
  BY <1>1, ArrayItersFacts, ListsAssumption, InvFacts DEF PointersTypeOK
<1>3. PICK n \in Used(refers[i]), k \in 1 .. MaxElements + 1 :
         /\ stack' = refers[<<refers[i], n>>]
         /\ cursor' = [cursor EXCEPT ![i] = k] \/ cursor' = cursor
  <2>1. CASE ArrayCurrent(i)
    BY <1>2, <2>1 DEF ArrayCurrent, AtElement, Here
  <2>2. CASE ArrayNext(i)
    <3>1. cursor[i] \in Used(refers[i]) /\ cursor[i] + 1 \in 1 .. MaxElements + 1
      BY <1>2, <2>2 DEF ArrayNext, AtElement
    <3>2. QED
      BY <1>2, <2>2, <3>1 DEF ArrayNext, Here
  <2>3. CASE ArrayPrev(i)
    <3>1. cursor[i] - 1 \in Used(refers[i]) /\ cursor[i] - 1 \in 1 .. MaxElements + 1
      BY <1>2, <2>3 DEF ArrayPrev
    <3>2. QED
      BY <1>2, <2>3, <3>1 DEF ArrayPrev
  <2>4. QED
    BY <2>1, <2>2, <2>3
<1>4. <<refers[i], n>> \in Holders /\ refers[<<refers[i], n>>] # Beyond
  BY <1>2, UsedCells
<1>5. OwnCursor(i, k) /\ k \in Link \cup Nat
  BY <1>1, ArrayItersFacts
<1>6. QED
  BY <1>1, <1>2, <1>3, <1>4, <1>5, IterLooks

LEMMA ArrayFindNextInv ==
    ASSUME CollectionsInv, NEW i \in ArrayIters, UNCHANGED <<program, below>>, ArrayFindNext(i)
    PROVE  CollectionsInv'
<1>1. Idle /\ Sought /\ stack' = NoObject /\ UNCHANGED <<counts, shape, calls>>
  BY DEF ArrayFindNext, ArrayIterMethod
<1>2. /\ UNCHANGED <<program, below, kind, refCount, refers, calls, links>>
      /\ UNCHANGED <<head, tail, next, prev>>
  BY <1>1 DEF counts, shape
<1>3. CursorsOwn /\ cursor' \in [Objects -> Link \cup Nat]
  <2>1. CASE FirstOf(refers[i], cursor[i]) = {}
    BY <2>1, CursorsStay DEF ArrayFindNext
  <2>2. CASE FirstOf(refers[i], cursor[i]) # {}
    <3>1. PICK n \in FirstOf(refers[i], cursor[i]) : cursor' = [cursor EXCEPT ![i] = n]
      BY <2>2 DEF ArrayFindNext
    <3>2. n \in cursor[i] .. Size(refers[i])
      BY <3>1 DEF FirstOf
    <3>3. n \in 1 .. MaxElements + 1
      BY <1>1, <3>2, ArrayItersFacts, ListsAssumption
    <3>4. i \in Objects /\ OwnCursor(i, n) /\ n \in Link \cup Nat
      BY <1>1, <3>3, ArrayItersFacts
    <3>5. QED
      BY <3>1, <3>4, CursorMoved
  <2>3. QED
    BY <2>1, <2>2
<1>4. Safe(stack)
  BY <1>1, SoughtSafe
<1>5. stack' \in Object /\ Safe(stack')
  BY <1>1 DEF Object, Safe
<1>6. QED
  BY <1>1, <1>2, <1>3, <1>4, <1>5, Looks

LEMMA IntMapsFacts ==
    ASSUME CollectionsInv, NEW m \in IntMaps
    PROVE  m \in Objects /\ kind[m] = "intMap" /\ InVar(m) /\ refCount[m] > 0
<1>1. m \in Objects /\ kind[m] = "intMap" /\ InVar(m)
  BY DEF IntMaps, InVar
<1>2. QED
  BY <1>1, InVarFacts

\* The first and the next of a map's keys.
LEMMA LeastKey ==
    ASSUME NEW K, K \subseteq 1 .. MaxElements
    PROVE  Least(K) \in K \cup {End} /\ \A k \in K : Least(K) <= k
<1>1. \E n \in K \cup {End} : \A k \in K : n <= k
  <2>1. CASE K = {}
    BY <2>1
  <2>2. CASE K # {}
    <3>1. K \in SUBSET Nat
      BY ListsAssumption
    <3>2. QED
      BY <2>2, <3>1, LeastOf
  <2>3. QED
    BY <2>1, <2>2
<1>2. QED
  BY <1>1 DEF Least

LEMMA KeysFacts ==
    ASSUME NEW m, NEW n
    PROVE  /\ First(m) \in Used(m) \cup {End} /\ After(m, n) \in Used(m) \cup {End}
           /\ n \in Used(m) \cup {End} /\ n # First(m) =>
                  Ahead(m, n) \in Used(m)
<1>1. Used(m) \subseteq 1 .. MaxElements
  BY UsedFacts
<1>2. First(m) \in Used(m) \cup {End} /\ \A k \in Used(m) : First(m) <= k
  BY <1>1, LeastKey DEF First
<1>3. After(m, n) \in Used(m) \cup {End}
  <2>1. {k \in Used(m) : k > n} \subseteq 1 .. MaxElements
    BY <1>1
  <2>2. After(m, n) \in {k \in Used(m) : k > n} \cup {End}
    BY <2>1, LeastKey DEF After
  <2>3. QED
    BY <2>2
<1>4. ASSUME n \in Used(m) \cup {End}, n # First(m)
      PROVE  Ahead(m, n) \in Used(m)
  <2> DEFINE T == {k \in Used(m) : k < n}
  <2>1. T \subseteq 1 .. MaxElements
    BY <1>1
  <2>2. T # {}
    <3>1. CASE n = End
      <4>1. First(m) \in Used(m)
        BY <1>2, <1>4, <3>1
      <4>2. First(m) < End
        BY <1>1, <4>1, ListsAssumption DEF End
      <4>3. QED
        BY <3>1, <4>1, <4>2
    <3>2. CASE n \in Used(m)
      <4>1. First(m) <= n /\ n \in 1 .. MaxElements
        BY <1>1, <1>2, <3>2
      <4>2. First(m) # End
        BY <4>1, ListsAssumption DEF End
      <4>3. First(m) \in Used(m)
        BY <1>2, <4>2
      <4>4. First(m) < n
        BY <1>1, <1>4, <4>1, <4>3
      <4>5. QED
        BY <4>3, <4>4
    <3>3. QED
      BY <1>4, <3>1, <3>2
  <2>3. \E k \in T : \A j \in T : j <= k
    BY <2>1, <2>2, GreatestOf
  <2>4. \E k \in Used(m) : k < n /\ \A j \in Used(m) : j < n => j <= k
    BY <2>3
  <2>5. QED
    BY <2>4 DEF Ahead
<1>5. QED
  BY <1>2, <1>3, <1>4

LEMMA KeyRange ==
    ASSUME NEW m, NEW k \in Used(m) \cup {End}
    PROVE  k \in Nat /\ StandsAt("intMapIter", m, k)
<1>1. k \in Nat
  BY UsedFacts, ListsAssumption DEF End
<1>2. QED
  BY <1>1 DEF StandsAt

LEMMA MapIterInv ==
    ASSUME CollectionsInv, NEW m \in IntMaps, NEW i \in Objects, UNCHANGED <<program, below>>,
           \/ MapHeadIter(m, i) \/ MapTailIter(m, i)
           \/ \E n \in 1 .. program.cells : MapFind(m, i, n)
    PROVE  CollectionsInv'
<1>1. Idle /\ stack = NoObject /\ UNCHANGED <<shape, calls>>
  BY DEF MapHeadIter, MapTailIter, MapFind, MapMethod
<1>2. PICK k \in Used(m) \cup {End} : MakeIter("intMapIter", i, m, k)
  BY KeysFacts DEF MapHeadIter, MapTailIter, MapFind
<1>3. StandsAt("intMapIter", m, k)
  BY KeyRange
<1>4. "intMapIter" \in Iterators /\ Safe(stack)
  BY <1>1 DEF Iterators, Safe
<1>5. m \in Objects /\ kind[m] = ParentKind("intMapIter") /\ InVar(m)
  BY IntMapsFacts, ParentKinds
<1>6. QED
  BY <1>1, <1>2, <1>3, <1>4, <1>5, MakesIterIdle

LEMMA IntMapItersFacts ==
    ASSUME CollectionsInv, Idle, NEW i \in IntMapIters
    PROVE  /\ i \in Objects /\ kind[i] = "intMapIter"
           /\ refers[i] \in Objects /\ kind[refers[i]] = "intMap"
           /\ cursor[i] \in Used(refers[i]) \cup {End}
           /\ \A k \in Used(refers[i]) \cup {End} : OwnCursor(i, k) /\ k \in Link \cup Nat
<1>1. i \in Objects /\ kind[i] = "intMapIter" /\ kind[i] \in Iterators
  BY DEF IntMapIters, Iterators
<1>2. ~Dying(i)
  BY IdleFacts
<1>3. /\ refers[i] \in Objects /\ kind[refers[i]] = "intMap"
      /\ OwnCursor(i, cursor[i])
  BY <1>1, <1>2, IterFacts, ParentKinds
<1>4. refers[i] # NoObject
  BY <1>3, InvFacts
<1>5. cursor[i] \in Used(refers[i]) \cup {End}
  BY <1>1, <1>3, <1>4 DEF OwnCursor
<1>6. \A k \in Used(refers[i]) \cup {End} : OwnCursor(i, k) /\ k \in Link \cup Nat
  BY <1>1, KeyRange DEF OwnCursor
<1>7. QED
  BY <1>1, <1>3, <1>5, <1>6

LEMMA MapLooksInv ==
    ASSUME CollectionsInv, NEW i \in IntMapIters, UNCHANGED <<program, below>>, OnIntMapIter(i)
    PROVE  CollectionsInv'
<1>1. Idle /\ stack = NoObject /\ UNCHANGED <<counts, shape, calls>>
  BY DEF OnIntMapIter, MapSeekNext, MapSeekPrev, MapSeekHead, MapSeekTail, MapMoveTo,
         MapCurrent, MapNext, MapPrev, MapIterMethod
<1>2. /\ i \in Objects /\ refers[i] \in Objects
      /\ cursor[i] \in Used(refers[i]) \cup {End}
      /\ cursor \in [Objects -> Link \cup Nat]
  BY <1>1, IntMapItersFacts, InvFacts DEF PointersTypeOK
<1>3. PICK k \in Used(refers[i]) \cup {End} :
         /\ cursor' = [cursor EXCEPT ![i] = k] \/ cursor' = cursor
         /\ \/ stack' = NoObject
            \/ \E n \in Used(refers[i]) : stack' = refers[<<refers[i], n>>]
  <2>1. CASE MapSeekNext(i) \/ MapSeekHead(i) \/ MapSeekTail(i)
    BY <1>1, <2>1, KeysFacts DEF MapSeekNext, MapSeekHead, MapSeekTail, MapMoveTo
  <2>2. CASE MapSeekPrev(i)
    <3>1. Ahead(refers[i], cursor[i]) \in Used(refers[i])
      BY <1>2, <2>2, KeysFacts DEF MapSeekPrev
    <3>2. QED
      BY <1>1, <2>2, <3>1 DEF MapSeekPrev, MapMoveTo
  <2>3. CASE MapCurrent(i)
    BY <1>2, <2>3 DEF MapCurrent, Here
  <2>4. CASE MapNext(i)
    <3>1. After(refers[i], cursor[i]) \in Used(refers[i]) \cup {End}
      BY KeysFacts
    <3>2. QED
      BY <1>2, <2>4, <3>1 DEF MapNext, Here
  <2>5. CASE MapPrev(i)
    <3>1. Ahead(refers[i], cursor[i]) \in Used(refers[i])
      BY <1>2, <2>5, KeysFacts DEF MapPrev
    <3>2. QED
      BY <1>2, <2>5, <3>1 DEF MapPrev
  <2>6. QED
    BY <2>1, <2>2, <2>3, <2>4, <2>5 DEF OnIntMapIter
<1>4. \/ stack' = NoObject
      \/ \E h \in Holders : refers[h] # Beyond /\ stack' = refers[h]
  BY <1>2, <1>3, UsedCells
<1>5. OwnCursor(i, k) /\ k \in Link \cup Nat
  BY <1>1, IntMapItersFacts
<1>6. QED
  BY <1>1, <1>2, <1>3, <1>4, <1>5, IterLooks

-----------------------------------------------------------------------------
(* Methods that change cells *)

\* The cells of a change.
LEMMA CellsChange ==
    ASSUME CollectionsInv, UNCHANGED <<kind, links, cursor>>,
           NEW a \in Objects, kind[a] \in HasCells,
           refers' \in [Holders -> Referred], SameBut(refers, refers', a)
    PROVE  /\ \A h \in Holders \ Cells : refers'[h] # Beyond
           /\ ParentsStay /\ OwnersOnly' /\ CursorsOwn
           /\ cursor' \in [Objects -> Link \cup Nat]
           /\ \A b \in Objects \ {a} : Used(b)' = Used(b)
<1>1. \A h \in Holders \ Cells : refers'[h] = refers[h]
  BY DEF SameBut
<1>2. \A b \in Objects \ {a} : Used(b)' = Used(b)
  BY DEF SameBut, Used
<1>3. ParentsStay
  BY <1>1, CellFacts DEF ParentsStay
<1>4. OwnersOnly'
  <2>1. \A k \in Links \ links' : refers'[k] = NoObject
    BY <1>1, CellFacts, ListsAssumption, InvFacts DEF OwnersOnly
  <2>2. \A o \in Objects : kind'[o] \notin Iterators => refers'[o] = NoObject
    BY <1>1, CellFacts, InvFacts DEF OwnersOnly
  <2>3. \A o \in Objects : kind'[o] \notin HasCells => Used(o)' = {}
    BY <1>2, InvFacts DEF OwnersOnly
  <2>4. QED
    BY <2>1, <2>2, <2>3 DEF OwnersOnly
<1>5. CursorsOwn /\ cursor' \in [Objects -> Link \cup Nat]
  BY CursorsStay
<1>6. QED
  BY <1>1, <1>2, <1>3, <1>4, <1>5, InvFacts

\* One cell of a changes.
LEMMA CellChanges ==
    ASSUME CollectionsInv, NEW a \in Objects, NEW n \in 1 .. MaxElements, NEW y \in Referred,
           refers' = [refers EXCEPT ![<<a, n>>] = y]
    PROVE  /\ refers' \in [Holders -> Referred] /\ SameBut(refers, refers', a)
           /\ refers'[<<a, n>>] = y
           /\ \A m \in 1 .. MaxElements : m # n => refers'[<<a, m>>] = refers[<<a, m>>]
           /\ Shifted(refers[<<a, n>>], y)
           /\ <<a, n>> \in Holders
<1>1. /\ <<a, n>> \in Holders /\ <<a, n>> \in Cells /\ refers \in [Holders -> Referred]
  BY CellFacts, InvFacts
<1>2. refers' \in [Holders -> Referred] /\ refers'[<<a, n>>] = y
      /\ \A h \in Holders : h # <<a, n>> => refers'[h] = refers[h]
  BY <1>1
<1>3. SameBut(refers, refers', a)
  <2>1. \A b \in Objects \ {a}, m \in 1 .. MaxElements : <<b, m>> \in Holders /\ <<b, m>> # <<a, n>>
    BY CellFacts
  <2>2. QED
    BY <1>1, <1>2, <2>1 DEF SameBut
<1>4. \A m \in 1 .. MaxElements : m # n => refers'[<<a, m>>] = refers[<<a, m>>]
  BY <1>2, CellFacts
<1>5. Shifted(refers[<<a, n>>], y)
  BY <1>1, InvFacts, ShiftedOne
<1>6. QED
  BY <1>1, <1>2, <1>3, <1>4, <1>5

\* The first m cells of an array are in use.
FirstInUse(a, m) == \A n \in 1 .. MaxElements : refers'[<<a, n>>] # Beyond <=> n <= m

LEMMA ArrayAgain ==
    ASSUME CollectionsInv, UNCHANGED <<kind, links, cursor>>,
           NEW a \in Objects, kind[a] = "array",
           refers' \in [Holders -> Referred], SameBut(refers, refers', a),
           NEW m \in 0 .. MaxElements, FirstInUse(a, m)
    PROVE  ArraysAreDense' /\ CursorsFit'
<1>1. ParentsStay /\ CursorsOwn /\ \A b \in Objects \ {a} : Used(b)' = Used(b)
  BY CellsChange DEF HasCells
<1>2. Used(a)' = 1 .. m /\ Size(a)' = m
  <2>1. Used(a)' = 1 .. m
    BY ListsAssumption DEF Used, FirstInUse
  <2>2. QED
    BY <2>1, FS_Interval, ListsAssumption DEF Size
<1>3. ArraysAreDense'
  <2>1. \A b \in Objects \ {a} : kind[b] = "array" => Used(b) = 1 .. Size(b)
    BY DEF CollectionsInv, ArraysAreDense
  <2>2. \A b \in Objects \ {a} : Size(b)' = Size(b)
    BY <1>1 DEF Size
  <2>3. QED
    BY <1>1, <1>2, <2>1, <2>2 DEF ArraysAreDense
<1>4. CursorsFit'
  <2>1. ASSUME NEW i \in Objects, kind[i] = "intMapIter", refers'[i] # NoObject
        PROVE  cursor'[i] \in Used(refers[i])' \cup {End} /\ refers'[i] = refers[i]
    <3>1. refers'[i] = refers[i]
      BY CellFacts DEF SameBut
    <3>2. refers[i] \in Objects /\ kind[refers[i]] = "intMap"
      BY <2>1, <3>1, ParentHeld, ParentKinds
    <3>3. Used(refers[i])' = Used(refers[i])
      BY <1>1, <3>1, <3>2 DEF Used, SameBut
    <3>4. QED
      BY <1>1, <2>1, <3>1, <3>3 DEF CursorsOwn, OwnCursor
  <2>2. QED
    BY <1>1, <2>1 DEF CursorsFit, CursorsOwn, OwnCursor, End
<1>5. QED
  BY <1>3, <1>4


\* The iterators of map a stand where they may.
KeysStand(a) ==
    \A i \in Objects : kind[i] = "intMapIter" /\ refers[i] = a =>
        cursor[i] = End \/ refers'[<<a, cursor[i]>>] # Beyond

LEMMA MapAgain ==
    ASSUME CollectionsInv, UNCHANGED <<kind, links, cursor>>,
           NEW a \in Objects, kind[a] = "intMap",
           refers' \in [Holders -> Referred], SameBut(refers, refers', a), KeysStand(a)
    PROVE  ArraysAreDense' /\ CursorsFit'
<1>1. ParentsStay /\ CursorsOwn /\ \A b \in Objects \ {a} : Used(b)' = Used(b)
  BY CellsChange DEF HasCells
<1>2. ArraysAreDense'
  <2>1. \A b \in Objects : kind[b] = "array" => b # a /\ Used(b) = 1 .. Size(b)
    BY DEF CollectionsInv, ArraysAreDense
  <2>2. \A b \in Objects \ {a} : Size(b)' = Size(b)
    BY <1>1 DEF Size
  <2>3. QED
    BY <1>1, <2>1, <2>2 DEF ArraysAreDense
<1>3. CursorsFit'
  <2>1. ASSUME NEW i \in Objects, kind[i] = "intMapIter", refers'[i] # NoObject
        PROVE  cursor'[i] \in Used(refers[i])' \cup {End} /\ refers'[i] = refers[i]
    <3>1. refers'[i] = refers[i]
      BY CellFacts DEF SameBut
    <3>2. refers[i] \in Objects /\ cursor[i] \in Used(refers[i]) \cup {End}
      BY <2>1, <3>1, ParentHeld DEF CollectionsInv, CursorsFit
    <3>3. CASE refers[i] = a
      <4>1. cursor[i] = End \/ (cursor[i] \in 1 .. MaxElements /\ refers'[<<a, cursor[i]>>] # Beyond)
        BY <2>1, <3>2, <3>3, UsedFacts DEF KeysStand
      <4>2. QED
        BY <3>1, <3>3, <4>1 DEF Used
    <3>4. CASE refers[i] # a
      <4>1. Used(refers[i])' = Used(refers[i])
        BY <3>1, <3>2, <3>4 DEF Used, SameBut
      <4>2. QED
        BY <3>1, <3>2, <4>1
    <3>5. QED
      BY <3>3, <3>4
  <2>2. QED
    BY <1>1, <2>1 DEF CursorsFit, CursorsOwn, OwnCursor, End
<1>4. QED
  BY <1>2, <1>3

\* A reference of a's cells to x becomes one to what is on the stack.
LEMMA CellsExchange ==
    ASSUME CollectionsInv, Idle, UNCHANGED <<program, below, kind, links, cursor>>,
           UNCHANGED <<head, tail, next, prev>>,
           NEW a \in Objects, kind[a] \in HasCells,
           refers' \in [Holders -> Referred], SameBut(refers, refers', a),
           ArraysAreDense', CursorsFit',
           NEW x \in Object, x = stack => x = NoObject, x \in Objects => refCount[x] > 0,
           Shifted(x, stack), refCount' = Released(Kept(refCount, stack), x),
           stack' = NoObject, calls' = AndDelete(x, << >>)
    PROVE  CollectionsInv'
<1>1. /\ \A h \in Holders \ Cells : refers'[h] # Beyond
      /\ ParentsStay /\ OwnersOnly'
  BY CellsChange
<1>2. PointersTypeOK' /\ links' \in SUBSET Links
  BY InvFacts DEF PointersTypeOK
<1>3. QED
  BY <1>1, <1>2, Exchanges

\* A reference of a's cells to x goes and x is left on the stack.
LEMMA CellsUnref ==
    ASSUME CollectionsInv, Idle, stack = NoObject, UNCHANGED <<program, below, kind, links, cursor, calls>>,
           UNCHANGED <<head, tail, next, prev>>,
           NEW a \in Objects, kind[a] \in HasCells,
           refers' \in [Holders -> Referred], SameBut(refers, refers', a),
           ArraysAreDense', CursorsFit',
           NEW x \in Object, x \in Objects => refCount[x] > 0,
           Shifted(x, NoObject), refCount' = Released(refCount, x), stack' = x
    PROVE  CollectionsInv'
<1>1. /\ \A h \in Holders \ Cells : refers'[h] # Beyond
      /\ ParentsStay /\ OwnersOnly'
  BY CellsChange
<1>2. PointersTypeOK' /\ links' \in SUBSET Links
  BY InvFacts DEF PointersTypeOK
<1>3. calls' = << >>
  BY DEF Idle
<1>4. /\ calls' \in Seq(Loop) /\ \A o : ~DyingIn(calls', o) /\ ~HandedBy(calls', o)
  BY <1>3, NoLoops
<1>5. InOrder(calls') /\ \A c \in LoopsOf(calls') : LoopFits(c)'
  BY <1>3 DEF InOrder, LoopsOf
<1>6. calls' = << >> \/ (Len(calls') = 1 /\ calls'[1].does = "remove")
  BY <1>3
<1>7. QED
  BY <1>1, <1>2, <1>4, <1>5, <1>6, UnrefStep

\* The references of a's cells are rearranged.
LEMMA CellsRearrange ==
    ASSUME CollectionsInv, UNCHANGED <<program, below, kind, refCount, links, cursor, stack>>,
           UNCHANGED <<head, tail, next, prev>>,
           NEW a \in Objects, kind[a] \in HasCells,
           refers' \in [Holders -> Referred], SameBut(refers, refers', a),
           ArraysAreDense', CursorsFit', Shifted(NoObject, NoObject), calls' = << >>,
           \A o \in Objects : ~Dying(o) /\ ~HandedBy(calls, o)
    PROVE  CollectionsInv'
<1>1. /\ \A h \in Holders \ Cells : refers'[h] # Beyond
      /\ ParentsStay /\ OwnersOnly'
  BY CellsChange
<1>2. PointersTypeOK' /\ links' \in SUBSET Links
  BY InvFacts DEF PointersTypeOK
<1>3. QED
  BY <1>1, <1>2, RearrangeStep

\* A cell in use may hold an object.
LEMMA CellMayHold ==
    ASSUME CollectionsInv, NEW a \in Objects, NEW n \in Used(a)
    PROVE  /\ MayHold(<<a, n>>) /\ <<a, n>> \in Holders
           /\ refers[<<a, n>>] # Beyond /\ refers[<<a, n>>] \in Object
           /\ refers[<<a, n>>] \in Objects => refCount[refers[<<a, n>>]] > 0
           /\ n \in 1 .. MaxElements /\ kind[a] \in HasCells
<1>1. /\ n \in 1 .. MaxElements /\ <<a, n>> \in Holders /\ <<a, n>> \in Cells
      /\ refers[<<a, n>>] # Beyond /\ kind[a] \in HasCells
  BY UsedCells
<1>2. MayHold(<<a, n>>)
  BY <1>1 DEF MayHold
<1>3. QED
  BY <1>1, <1>2, HeldFacts

LEMMA SetInv ==
    ASSUME CollectionsInv, NEW a \in Objects, NEW n \in Used(a), Idle, Replace(<<a, n>>),
           UNCHANGED <<kind, shape, cursor>>, UNCHANGED <<program, below>>
    PROVE  CollectionsInv'
<1>1. /\ MayHold(<<a, n>>) /\ <<a, n>> \in Holders /\ refers[<<a, n>>] # Beyond
  BY CellMayHold
<1>2. /\ stack' = NoObject /\ refers' = [refers EXCEPT ![<<a, n>>] = stack]
      /\ UNCHANGED <<program, below, kind, links, cursor>> /\ UNCHANGED <<head, tail, next, prev>>
  BY DEF Replace, shape
<1>3. refers[<<a, n>>] = stack => UNCHANGED <<refCount, calls>>
  BY DEF Replace
<1>4. refers[<<a, n>>] # stack => /\ refCount' = Released(Kept(refCount, stack), refers[<<a, n>>])
                                  /\ calls' = AndDelete(refers[<<a, n>>], << >>)
  BY DEF Replace
<1>5. QED
  BY <1>1, <1>2, <1>3, <1>4, Replaces

LEMMA SwapInv ==
    ASSUME CollectionsInv, NEW a \in Arrays, NEW m, NEW n, Swap(a, m, n), m # n,
           UNCHANGED <<program, below>>
    PROVE  CollectionsInv'
<1>1. /\ Idle /\ m \in Used(a) /\ n \in Used(a) /\ a \in Objects
      /\ UNCHANGED <<program, below, kind, refCount, links, cursor, stack, calls>>
      /\ UNCHANGED <<head, tail, next, prev>>
  BY ArraysFacts DEF Swap, ArrayMethod, shape
<1> DEFINE j == <<a, m>>
           k == <<a, n>>
<1>2. /\ j \in Holders /\ k \in Holders /\ j \in Cells /\ k \in Cells
      /\ refers[j] # Beyond /\ refers[k] # Beyond
      /\ refers[j] \in Object /\ refers[k] \in Object
  BY <1>1, UsedCells
<1>3. refers' = [refers EXCEPT ![j] = refers[k], ![k] = refers[j]] /\ j # k
  BY DEF Swap
<1>4. Swapped(refers, refers', j, k) /\ refers' \in [Holders -> Referred]
  BY <1>2, <1>3, InvFacts DEF Swapped, Referred
<1> HIDE DEF j, k
<1>5. \A o \in Objects : Count(refers', o) = Count(refers, o)
  BY <1>2, <1>4, SwappedCounts
<1>6. Shifted(NoObject, NoObject)
  BY <1>5, SameCounts
<1>7. \A h \in Holders \ Cells : refers'[h] = refers[h]
  BY <1>2, <1>4 DEF Swapped
<1>8. ParentsStay /\ \A h \in Holders \ Cells : refers'[h] # Beyond
  BY <1>7, CellFacts, InvFacts DEF ParentsStay
<1>9. \A l \in Links \ links : refers'[l] = NoObject
  BY <1>7, CellFacts, ListsAssumption, InvFacts DEF OwnersOnly
<1>10. UsedStay
  <2>1. \A h \in Cells : refers'[h] = Beyond <=> refers[h] = Beyond
    <3>1. Cells \subseteq Holders
      BY DEF Holders
    <3>2. QED
      BY <1>2, <1>4, <3>1 DEF Swapped
  <2>2. QED
    BY <2>1, UsedSame
<1>11. QED
  BY <1>1, <1>4, <1>6, <1>8, <1>9, <1>10, Rearranges

\* A key is taken out of a map.
LEMMA KeyGoes ==
    ASSUME CollectionsInv, UNCHANGED <<kind, links, cursor>>, NEW m \in IntMaps,
           NEW n \in Used(m), KeyUnseen(m, n), refers' = [refers EXCEPT ![<<m, n>>] = Beyond]
    PROVE  /\ refers' \in [Holders -> Referred] /\ SameBut(refers, refers', m)
           /\ ArraysAreDense' /\ CursorsFit'
           /\ Shifted(refers[<<m, n>>], NoObject)
<1>1. m \in Objects /\ kind[m] = "intMap" /\ n \in 1 .. MaxElements /\ Beyond \in Referred
  BY IntMapsFacts, UsedCells DEF Referred
<1>2. /\ refers' \in [Holders -> Referred] /\ SameBut(refers, refers', m)
      /\ \A j \in 1 .. MaxElements : j # n => refers'[<<m, j>>] = refers[<<m, j>>]
      /\ Shifted(refers[<<m, n>>], Beyond)
  BY <1>1, CellChanges
<1>3. KeysStand(m)
  <2>1. ASSUME NEW i \in Objects, kind[i] = "intMapIter", refers[i] = m
        PROVE  cursor[i] = End \/ refers'[<<m, cursor[i]>>] # Beyond
    <3>1. cursor[i] \in Used(m) \cup {End} /\ cursor[i] # n
      BY <1>1, <2>1, InvFacts DEF CollectionsInv, CursorsFit, KeyUnseen
    <3>2. CASE cursor[i] \in Used(m)
      BY <1>2, <3>1, <3>2, UsedFacts
    <3>3. QED
      BY <3>1, <3>2
  <2>2. QED
    BY <2>1 DEF KeysStand
<1>4. Shifted(refers[<<m, n>>], NoObject)
  BY <1>2, InvFacts, ListsAssumption DEF Shifted, Turned, Object
<1>5. QED
  BY <1>1, <1>2, <1>3, <1>4, MapAgain

LEMMA MapRemoveInv ==
    ASSUME CollectionsInv, NEW m \in IntMaps, NEW n, MapRemove(m, n), UNCHANGED <<program, below>>
    PROVE  CollectionsInv'
<1>1. /\ Idle /\ stack = NoObject /\ stack' = NoObject /\ n \in Used(m) /\ KeyUnseen(m, n)
      /\ refers' = [refers EXCEPT ![<<m, n>>] = Beyond]
      /\ refCount' = Released(refCount, refers[<<m, n>>])
      /\ calls' = AndDelete(refers[<<m, n>>], << >>)
      /\ UNCHANGED <<program, below, kind, links, cursor>> /\ UNCHANGED <<head, tail, next, prev>>
  BY DEF MapRemove, MapMethod, Erase, shape
<1>2. m \in Objects /\ kind[m] \in HasCells
  BY IntMapsFacts DEF HasCells
<1>3. /\ refers[<<m, n>>] \in Object
      /\ refers[<<m, n>>] \in Objects => refCount[refers[<<m, n>>]] > 0
  BY <1>1, <1>2, CellMayHold
<1>4. /\ refers' \in [Holders -> Referred] /\ SameBut(refers, refers', m)
      /\ ArraysAreDense' /\ CursorsFit' /\ Shifted(refers[<<m, n>>], stack)
  BY <1>1, KeyGoes
<1>5. refCount' = Released(Kept(refCount, stack), refers[<<m, n>>])
  BY <1>1 DEF Kept
<1>6. QED
  BY <1>1, <1>2, <1>3, <1>4, <1>5, CellsExchange

\* The cells with a sequence in them.
LEMMA FilledIs ==
    ASSUME CollectionsInv, NEW a \in Objects, NEW s, NEW t \in [Holders -> Referred],
           \A n \in DOMAIN s : n \in 1 .. MaxElements => s[n] \in Referred,
           SameBut(refers, t, a), HoldsIn(t, a, s)
    PROVE  Filled(refers, a, s) = t
<1> DEFINE u == Filled(refers, a, s)
<1>1. u \in [Holders -> Referred] /\ HoldsIn(u, a, s) /\ SameBut(refers, u, a)
  BY InvFacts, FilledFacts
<1> HIDE DEF u
<1>2. ASSUME NEW h \in Holders
      PROVE  u[h] = t[h]
  <2>1. CASE h \notin Cells
    BY <1>1, <2>1 DEF SameBut
  <2>2. CASE h \in Cells
    <3>1. PICK b \in Objects, n \in 1 .. MaxElements : h = <<b, n>>
      BY <2>2, CellFacts
    <3>2. CASE b = a
      BY <1>1, <3>1, <3>2 DEF HoldsIn
    <3>3. CASE b # a
      BY <1>1, <3>1, <3>3 DEF SameBut
    <3>4. QED
      BY <3>2, <3>3
  <2>3. QED
    BY <2>1, <2>2
<1>3. u = t
  BY <1>1, <1>2
<1>4. QED
  BY <1>3 DEF u

LEMMA MapSetInv ==
    ASSUME CollectionsInv, NEW m \in IntMaps, NEW n \in 1 .. program.cells, MapSet(m, n),
           UNCHANGED <<program, below>>
    PROVE  CollectionsInv'
<1>1. Idle /\ UNCHANGED <<kind, shape, cursor>> /\ UNCHANGED <<head, tail, next, prev>>
      /\ UNCHANGED links
  BY DEF MapSet, MapMethod, shape
<1>2. m \in Objects /\ kind[m] = "intMap" /\ kind[m] \in HasCells
  BY IntMapsFacts DEF HasCells
<1>3. CASE n \in Used(m)
  <2>1. Replace(<<m, n>>)
    BY <1>3 DEF MapSet
  <2>2. QED
    BY <1>1, <1>2, <1>3, <2>1, SetInv
<1>4. CASE n \notin Used(m)
  <2>1. /\ refers' = [refers EXCEPT ![<<m, n>>] = stack]
        /\ refCount' = Kept(refCount, stack) /\ calls' = calls /\ stack' = NoObject
    BY <1>4 DEF MapSet
  <2>2. n \in 1 .. MaxElements /\ stack \in Referred /\ stack # Beyond /\ NoObject \in Object
    BY ProgramFacts, InvFacts DEF Referred
  <2>3. /\ refers' \in [Holders -> Referred] /\ SameBut(refers, refers', m)
        /\ refers'[<<m, n>>] = stack
        /\ \A j \in 1 .. MaxElements : j # n => refers'[<<m, j>>] = refers[<<m, j>>]
        /\ Shifted(refers[<<m, n>>], stack)
    BY <1>2, <2>1, <2>2, CellChanges
  <2>4. refers[<<m, n>>] = Beyond
    BY <1>4, <2>2, UsedFacts
  <2>5. Shifted(NoObject, stack)
    BY <2>3, <2>4, InvFacts, ListsAssumption DEF Shifted, Turned, Object
  <2>6. KeysStand(m)
    <3>1. ASSUME NEW i \in Objects, kind[i] = "intMapIter", refers[i] = m
          PROVE  cursor[i] = End \/ refers'[<<m, cursor[i]>>] # Beyond
      <4>1. cursor[i] \in Used(m) \cup {End}
        BY <1>2, <3>1, InvFacts DEF CollectionsInv, CursorsFit
      <4>2. QED
        BY <2>2, <2>3, <4>1, UsedFacts
    <3>2. QED
      BY <3>1 DEF KeysStand
  <2>7. ArraysAreDense' /\ CursorsFit'
    BY <1>1, <1>2, <2>3, <2>6, MapAgain
  <2>8. refCount' = Released(Kept(refCount, stack), NoObject) /\ calls' = AndDelete(NoObject, << >>)
    BY <1>1, <2>1 DEF Released, AndDelete, Idle
  <2>9. NoObject \notin Objects
    BY InvFacts
  <2>10. /\ UNCHANGED <<program, below, kind, links, cursor>>
    BY <1>1
  <2>11. QED
    BY <1>1, <1>2, <2>1, <2>2, <2>3, <2>5, <2>7, <2>8, <2>9, <2>10, CellsExchange
<1>5. QED
  BY <1>3, <1>4

\* What the methods that leave an element on the stack have in common.
LEMMA UnreferredFacts ==
    ASSUME CollectionsInv, Idle, NEW a \in Objects, NEW n \in Used(a), NEW s, Unreferred(a, n, s)
    PROVE  /\ refers' = Filled(refers, a, s) /\ stack' = refers[<<a, n>>]
           /\ refCount' = Released(refCount, refers[<<a, n>>])
           /\ UNCHANGED <<kind, links, calls>> /\ UNCHANGED <<head, tail, next, prev>>
           /\ refers[<<a, n>>] \in Object
           /\ refers[<<a, n>>] \in Objects => refCount[refers[<<a, n>>]] > 0
           /\ n \in 1 .. MaxElements /\ kind[a] \in HasCells
<1>1. /\ refers[<<a, n>>] \in Object
      /\ refers[<<a, n>>] \in Objects => refCount[refers[<<a, n>>]] > 0
      /\ n \in 1 .. MaxElements /\ kind[a] \in HasCells
  BY CellMayHold
<1>2. ~(refers[<<a, n>>] # NoObject /\ refCount[refers[<<a, n>>]] = 0)
  BY <1>1 DEF Object
<1>3. QED
  BY <1>1, <1>2 DEF Unreferred, Change, shape

LEMMA MapUnrefInv ==
    ASSUME CollectionsInv, NEW m \in IntMaps, NEW n, MapUnref(m, n), UNCHANGED <<program, below>>
    PROVE  CollectionsInv'
<1> DEFINE s == [k \in Used(m) \ {n} |-> refers[<<m, k>>]]
           t == [refers EXCEPT ![<<m, n>>] = Beyond]
<1>1. /\ Idle /\ stack = NoObject /\ n \in Used(m) /\ KeyUnseen(m, n) /\ cursor' = cursor
      /\ Unreferred(m, n, s)
  BY DEF MapUnref, MapMethod
<1>2. m \in Objects /\ kind[m] \in HasCells
  BY IntMapsFacts DEF HasCells
<1>3. /\ refers' = Filled(refers, m, s) /\ stack' = refers[<<m, n>>]
      /\ refCount' = Released(refCount, refers[<<m, n>>])
      /\ UNCHANGED <<kind, links, calls>> /\ UNCHANGED <<head, tail, next, prev>>
      /\ refers[<<m, n>>] \in Object
      /\ refers[<<m, n>>] \in Objects => refCount[refers[<<m, n>>]] > 0
      /\ n \in 1 .. MaxElements
  BY <1>1, <1>2, UnreferredFacts
<1>4. Filled(refers, m, s) = t
  <2>1. Beyond \in Referred /\ refers \in [Holders -> Referred]
    BY InvFacts DEF Referred
  <2>2. t \in [Holders -> Referred]
    BY <2>1
  <2>3. \A k \in DOMAIN s : k \in 1 .. MaxElements => s[k] \in Referred
    BY <1>2, UsedCells, InvFacts DEF Referred
  <2>4. SameBut(refers, t, m)
    <3>1. \A h \in Holders : h # <<m, n>> => t[h] = refers[h]
      BY <2>1
    <3>2. \A b \in Objects \ {m}, j \in 1 .. MaxElements : <<b, j>> \in Holders /\ <<b, j>> # <<m, n>>
      BY CellFacts
    <3>3. <<m, n>> \in Cells
      BY <1>2, <1>3, CellFacts
    <3>4. QED
      BY <3>1, <3>2, <3>3 DEF SameBut
  <2>5. HoldsIn(t, m, s)
    <3>1. ASSUME NEW j \in 1 .. MaxElements
          PROVE  t[<<m, j>>] = IF j \in Used(m) \ {n} THEN refers[<<m, j>>] ELSE Beyond
      <4>1. <<m, j>> \in Holders
        BY <1>2, CellFacts
      <4>2. t[<<m, j>>] = IF j = n THEN Beyond ELSE refers[<<m, j>>]
        BY <2>1, <4>1
      <4>3. QED
        BY <4>2, UsedFacts
    <3>2. QED
      BY <3>1 DEF HoldsIn
  <2> HIDE DEF s, t
  <2>6. QED
    BY <1>2, <2>2, <2>3, <2>4, <2>5, FilledIs
<1>5. refers' = [refers EXCEPT ![<<m, n>>] = Beyond]
  BY <1>3, <1>4
<1> HIDE DEF s, t
<1>6. /\ refers' \in [Holders -> Referred] /\ SameBut(refers, refers', m)
      /\ ArraysAreDense' /\ CursorsFit' /\ Shifted(refers[<<m, n>>], NoObject)
  BY <1>1, <1>3, <1>5, KeyGoes
<1>7. QED
  BY <1>1, <1>2, <1>3, <1>6, CellsUnref

\* The elements of an array.
LEMMA ElementsFacts ==
    ASSUME CollectionsInv, NEW a \in Objects, kind[a] = "array"
    PROVE  /\ Elements(a) \in [1 .. Size(a) -> Object] /\ Elements(a) \in Seq(Object)
           /\ DOMAIN Elements(a) = 1 .. Size(a) /\ Len(Elements(a)) = Size(a)
           /\ \A n \in 1 .. Size(a) : Elements(a)[n] = refers[<<a, n>>]
           /\ Used(a) = 1 .. Size(a) /\ Size(a) \in 0 .. MaxElements
           /\ \A n \in 1 .. MaxElements : refers[<<a, n>>] # Beyond <=> n <= Size(a)
           /\ MaxElements \in Nat /\ \A n \in 1 .. Size(a) : n \in 1 .. MaxElements
<1>1. Used(a) = 1 .. Size(a) /\ Size(a) \in 0 .. MaxElements /\ MaxElements \in Nat
  BY UsedFacts, ListsAssumption DEF CollectionsInv, ArraysAreDense
<1>2. \A n \in 1 .. Size(a) : refers[<<a, n>>] \in Object
  BY <1>1, UsedCells
<1>3. Elements(a) \in [1 .. Size(a) -> Object]
  BY <1>2 DEF Elements
<1>4. Elements(a) \in Seq(Object) /\ Len(Elements(a)) = Size(a)
  BY <1>1, <1>3
<1>5. \A n \in 1 .. Size(a) : Elements(a)[n] = refers[<<a, n>>]
  BY DEF Elements
<1>6. \A n \in 1 .. MaxElements : refers[<<a, n>>] # Beyond <=> n <= Size(a)
  BY <1>1, UsedFacts
<1>7. QED
  BY <1>1, <1>3, <1>4, <1>5, <1>6

LEMMA UnrefCellInv ==
    ASSUME CollectionsInv, UNCHANGED <<program, below>>, Idle, stack = NoObject, UNCHANGED cursor,
           NEW a \in Objects, kind[a] = "array", NEW n \in Used(a),
           Unreferred(a, n, [Elements(a) EXCEPT ![n] = NoObject])
    PROVE  CollectionsInv'
<1> DEFINE s == [Elements(a) EXCEPT ![n] = NoObject]
           t == [refers EXCEPT ![<<a, n>>] = NoObject]
<1>1. /\ refers' = Filled(refers, a, s) /\ stack' = refers[<<a, n>>]
      /\ refCount' = Released(refCount, refers[<<a, n>>])
      /\ UNCHANGED <<kind, links, calls>> /\ UNCHANGED <<head, tail, next, prev>>
      /\ refers[<<a, n>>] \in Object
      /\ refers[<<a, n>>] \in Objects => refCount[refers[<<a, n>>]] > 0
      /\ n \in 1 .. MaxElements /\ kind[a] \in HasCells
  <2> HIDE DEF s
  <2>1. Unreferred(a, n, s)
    BY DEF s
  <2>2. QED
    BY <2>1, UnreferredFacts
<1>2. /\ Elements(a) \in [1 .. Size(a) -> Object]
      /\ \A j \in 1 .. Size(a) : Elements(a)[j] = refers[<<a, j>>]
      /\ Used(a) = 1 .. Size(a) /\ Size(a) \in 0 .. MaxElements
      /\ \A j \in 1 .. MaxElements : refers[<<a, j>>] # Beyond <=> j <= Size(a)
  BY ElementsFacts
<1>3. NoObject \in Object /\ NoObject \in Referred /\ refers \in [Holders -> Referred]
  BY InvFacts DEF Referred
<1>4. DOMAIN s = 1 .. Size(a) /\ \A j \in 1 .. Size(a) : s[j] = IF j = n THEN NoObject ELSE refers[<<a, j>>]
  BY <1>2
<1>5. Filled(refers, a, s) = t
  <2>1. t \in [Holders -> Referred]
    BY <1>3
  <2>2. \A k \in DOMAIN s : k \in 1 .. MaxElements => s[k] \in Referred
    BY <1>2, <1>3, <1>4 DEF Referred
  <2>3. SameBut(refers, t, a)
    <3>1. \A h \in Holders : h # <<a, n>> => t[h] = refers[h]
      BY <1>3
    <3>2. \A b \in Objects \ {a}, j \in 1 .. MaxElements : <<b, j>> \in Holders /\ <<b, j>> # <<a, n>>
      BY CellFacts
    <3>3. <<a, n>> \in Cells
      BY <1>1, CellFacts
    <3>4. QED
      BY <3>1, <3>2, <3>3 DEF SameBut
  <2>4. HoldsIn(t, a, s)
    <3>1. ASSUME NEW j \in 1 .. MaxElements
          PROVE  t[<<a, j>>] = IF j \in DOMAIN s THEN s[j] ELSE Beyond
      <4>1. <<a, j>> \in Holders
        BY CellFacts
      <4>2. t[<<a, j>>] = IF j = n THEN NoObject ELSE refers[<<a, j>>]
        BY <1>3, <4>1
      <4>3. j \in DOMAIN s <=> j <= Size(a)
        BY <1>2, <1>4
      <4>4. n \in 1 .. Size(a)
        BY <1>2
      <4>5. CASE j \in DOMAIN s
        BY <1>4, <4>2, <4>5
      <4>6. CASE j \notin DOMAIN s
        BY <1>2, <1>4, <4>2, <4>3, <4>4, <4>6
      <4>7. QED
        BY <4>5, <4>6
    <3>2. QED
      BY <3>1 DEF HoldsIn
  <2> HIDE DEF s, t
  <2>6. QED
    BY <2>1, <2>2, <2>3, <2>4, FilledIs
<1>6. refers' = [refers EXCEPT ![<<a, n>>] = NoObject]
  BY <1>1, <1>5
<1> HIDE DEF s, t
<1>7. /\ refers' \in [Holders -> Referred] /\ SameBut(refers, refers', a)
      /\ refers'[<<a, n>>] = NoObject
      /\ \A m \in 1 .. MaxElements : m # n => refers'[<<a, m>>] = refers[<<a, m>>]
      /\ Shifted(refers[<<a, n>>], NoObject)
  <2>1. n \in 1 .. MaxElements /\ NoObject \in Referred
    BY <1>1, <1>3
  <2>2. QED
    BY <1>6, <2>1, CellChanges
<1>8. FirstInUse(a, Size(a))
  <2>1. n <= Size(a) /\ NoObject # Beyond
    BY <1>2, ListsAssumption
  <2>2. QED
    BY <1>2, <1>7, <2>1 DEF FirstInUse
<1>9. ArraysAreDense' /\ CursorsFit'
  BY <1>1, <1>2, <1>7, <1>8, ArrayAgain
<1>10. QED
  BY <1>1, <1>7, <1>9, CellsUnref

\* The cells after a change.
LEMMA ChangeFacts ==
    ASSUME CollectionsInv, NEW a \in Objects, NEW s, refers' = Filled(refers, a, s),
           \A n \in DOMAIN s : n \in 1 .. MaxElements => s[n] \in Referred
    PROVE  /\ refers' \in [Holders -> Referred] /\ SameBut(refers, refers', a)
           /\ \A n \in 1 .. MaxElements :
                  /\ n \in DOMAIN s => refers'[<<a, n>>] = s[n]
                  /\ n \notin DOMAIN s => refers'[<<a, n>>] = Beyond
<1>1. /\ refers' \in [Holders -> Referred] /\ SameBut(refers, refers', a)
      /\ HoldsIn(refers', a, s)
  BY InvFacts, FilledFacts
<1>2. QED
  BY <1>1 DEF HoldsIn

\* Nothing else is in a's cells than before.
LEMMA SameObjects ==
    ASSUME NEW a \in Objects, SameBut(refers, refers', a),
           \A n \in 1 .. MaxElements :
               refers'[<<a, n>>] = refers[<<a, n>>] \/
               (refers[<<a, n>>] \notin Objects /\ refers'[<<a, n>>] \notin Objects)
    PROVE  Shifted(NoObject, NoObject)
<1>1. ASSUME NEW h \in Holders
      PROVE  refers'[h] = refers[h] \/ (refers[h] \notin Objects /\ refers'[h] \notin Objects)
  <2>1. CASE h \notin Cells
    BY <2>1 DEF SameBut
  <2>2. CASE h \in Cells
    <3>1. PICK b \in Objects, n \in 1 .. MaxElements : h = <<b, n>>
      BY <2>2, CellFacts
    <3>2. CASE b = a
      BY <3>1, <3>2
    <3>3. CASE b # a
      BY <3>1, <3>3 DEF SameBut
    <3>4. QED
      BY <3>2, <3>3
  <2>3. QED
    BY <2>1, <2>2
<1>2. QED
  BY <1>1, SameReferences

\* The loop over cells of a method has released what it gives back.
LEMMA LoopOverCells ==
    ASSUME CollectionsInv, OverCells, NotPassed = {}, Top.does \notin {"delete", "drop"}
    PROVE  /\ ~Idle /\ Top \in Loop /\ SubjectFits(Top) /\ ArgumentFits(Top)
           /\ Top.for \in Objects /\ Top.number \in Nat /\ Top.arg \in Object
           /\ Rest = << >> /\ calls = <<Top>> /\ stack = NoObject
           /\ Top.does # "remove" /\ kind[Top.for] \in HasCells
           /\ \A n \in Used(Top.for) : Top.does # "resize" \/ n > Top.number =>
                  refers[<<Top.for, n>>] = NoObject
<1>1. ~Idle /\ kind[Top.for] \in HasCells /\ Top.does \in {"clear", "resize", "load"}
  BY DEF OverCells, HasCells
<1>2. /\ Top \in Loop /\ LoopFits(Top) /\ Top.for \in Objects /\ Top.cell \in Nat
      /\ Top.number \in Nat /\ Top.arg \in Object
  BY <1>1, TopFields
<1>3. Rest = << >> /\ calls = <<Top>> /\ stack = NoObject
  BY <1>1, InvFacts, TopFits
<1>4. \A n \in Used(Top.for) : n < Top.cell
  <2>1. \A n \in Used(Top.for) : n \in Nat /\ ~(n >= Top.cell)
    BY UsedFacts DEF NotPassed
  <2>2. QED
    BY <1>2, <2>1
<1>5. \A n \in Used(Top.for) : Top.does # "resize" \/ n > Top.number =>
          refers[<<Top.for, n>>] = NoObject
  BY <1>2, <1>4 DEF LoopFits, PassedIsReleased
<1>6. QED
  BY <1>1, <1>2, <1>3, <1>5 DEF LoopFits

LEMMA EndResizeInv ==
    ASSUME CollectionsInv, EndResize, UNCHANGED <<program, below>>
    PROVE  CollectionsInv'
<1> DEFINE a == Top.for
           m == Top.number
           e == Elements(a)
           s == SubSeq(e, 1, m)
<1>1. /\ OverCells /\ NotPassed = {} /\ Top.does \in {"clear", "resize"}
      /\ refers' = Filled(refers, a, s) /\ calls' = Rest
      /\ UNCHANGED <<program, below, kind, refCount, links, cursor, stack>>
      /\ UNCHANGED <<head, tail, next, prev>>
  BY DEF EndResize, shape
<1>2. /\ ~Idle /\ Top \in Loop /\ SubjectFits(Top) /\ ArgumentFits(Top)
      /\ Top.for \in Objects /\ Top.number \in Nat
      /\ Rest = << >> /\ calls = <<Top>> /\ stack = NoObject
      /\ kind[Top.for] \in HasCells
      /\ \A n \in Used(Top.for) : Top.does # "resize" \/ n > Top.number =>
             refers[<<Top.for, n>>] = NoObject
  BY <1>1, LoopOverCells
<1>3. m \in 0 .. Size(a) /\ Size(a) \in 0 .. MaxElements /\ MaxElements \in Nat
  <2>1. Size(a) \in 0 .. MaxElements /\ MaxElements \in Nat
    BY UsedFacts, ListsAssumption
  <2>2. CASE Top.does = "clear"
    BY <1>2, <2>1, <2>2 DEF ArgumentFits
  <2>3. CASE Top.does = "resize"
    BY <1>2, <2>1, <2>3 DEF SubjectFits
  <2>4. QED
    BY <1>1, <2>1, <2>2, <2>3
<1>4. e \in [1 .. Size(a) -> Referred] /\ \A n \in 1 .. Size(a) : e[n] = refers[<<a, n>>]
  <2>1. \A n \in 1 .. Size(a) : <<a, n>> \in Holders
    BY <1>2, <1>3, CellFacts
  <2>2. QED
    BY <2>1, InvFacts DEF Elements
<1> HIDE DEF e
<1>5. DOMAIN s = 1 .. m /\ \A n \in 1 .. m : s[n] = e[n]
  <2>1. e \in Seq(Referred) /\ Len(e) = Size(a)
    BY <1>3, <1>4
  <2>2. QED
    BY <1>3, <2>1
<1> HIDE DEF s
<1> HIDE DEF a, m
<1>5a. /\ a \in Objects /\ m \in Nat /\ kind[a] \in HasCells
       /\ Top.does = "clear" => m = 0
       /\ \A n \in Used(a) : Top.does # "resize" \/ n > m => refers[<<a, n>>] = NoObject
  BY <1>2 DEF ArgumentFits, a, m
<1>5b. Top.does = "clear" /\ kind[a] = "intMap" => NoKeySeen(a)
  BY <1>2 DEF SubjectFits, a, m
<1>5c. Top.does = "resize" => kind[a] = "array"
  BY <1>2 DEF SubjectFits, a, m
<1>6. /\ refers' \in [Holders -> Referred] /\ SameBut(refers, refers', a)
      /\ \A n \in 1 .. MaxElements :
             /\ n \in DOMAIN s => refers'[<<a, n>>] = s[n]
             /\ n \notin DOMAIN s => refers'[<<a, n>>] = Beyond
  <2>1. \A n \in DOMAIN s : n \in 1 .. MaxElements => s[n] \in Referred
    BY <1>3, <1>4, <1>5
  <2>2. refers' = Filled(refers, a, s)
    BY <1>1
  <2>3. a \in Objects
    BY <1>5a
  <2>4. QED
    BY <2>1, <2>2, <2>3, ChangeFacts
<1>7. \A n \in 1 .. MaxElements :
          /\ n <= m => refers'[<<a, n>>] = refers[<<a, n>>]
          /\ n > m => refers'[<<a, n>>] = Beyond
  <2>1. ASSUME NEW n \in 1 .. MaxElements
        PROVE  /\ n <= m => refers'[<<a, n>>] = refers[<<a, n>>]
               /\ n > m => refers'[<<a, n>>] = Beyond
    <3>1. n \in DOMAIN s <=> n <= m
      BY <1>3, <1>5
    <3>2. n <= m => n \in 1 .. m /\ n \in 1 .. Size(a)
      BY <1>3
    <3>3. QED
      BY <1>3, <1>4, <1>5, <1>6, <3>1, <3>2
  <2>2. QED
    BY <2>1
<1>8. \A n \in 1 .. MaxElements : n > m => refers[<<a, n>>] \in {NoObject, Beyond}
  <2>1. Top.does # "resize" => m = 0
    BY <1>1, <1>5a
  <2>2. QED
    BY <1>5a, <2>1, UsedFacts
<1>9. Shifted(NoObject, NoObject)
  <2>1. NoObject \notin Objects /\ Beyond \notin Objects
    BY ListsAssumption
  <2>2. \A n \in 1 .. MaxElements :
            refers'[<<a, n>>] = refers[<<a, n>>] \/
            (refers[<<a, n>>] \notin Objects /\ refers'[<<a, n>>] \notin Objects)
    <3>1. ASSUME NEW n \in 1 .. MaxElements
          PROVE  refers'[<<a, n>>] = refers[<<a, n>>] \/
                 (refers[<<a, n>>] \notin Objects /\ refers'[<<a, n>>] \notin Objects)
      <4>1. n <= m \/ n > m
        BY <1>3
      <4>2. CASE n <= m
        BY <1>7, <4>2
      <4>3. CASE n > m
        <5>1. refers'[<<a, n>>] = Beyond /\ refers[<<a, n>>] \in {NoObject, Beyond}
          BY <1>7, <1>8, <4>3
        <5>2. QED
          BY <2>1, <5>1
      <4>4. QED
        BY <4>1, <4>2, <4>3
    <3>2. QED
      BY <3>1
  <2>3. QED
    BY <1>5a, <1>6, <2>2, SameObjects
<1>10. ArraysAreDense' /\ CursorsFit'
  <2>1. CASE kind[a] = "array"
    <3>1. m \in 0 .. MaxElements
      BY <1>3
    <3>2. \A n \in 1 .. MaxElements : n <= m => refers[<<a, n>>] # Beyond
      BY <1>5a, <1>3, <2>1, ElementsFacts
    <3>3. FirstInUse(a, m)
      <4>1. ASSUME NEW n \in 1 .. MaxElements
            PROVE  refers'[<<a, n>>] # Beyond <=> n <= m
        <5>1. n <= m \/ n > m
          BY <1>3
        <5>2. CASE n <= m
          BY <1>7, <3>2, <5>2
        <5>3. CASE n > m
          <6>1. refers'[<<a, n>>] = Beyond /\ ~(n <= m)
            BY <1>3, <1>7, <5>3
          <6>2. QED
            BY <6>1
        <5>4. QED
          BY <5>1, <5>2, <5>3
      <4>2. QED
        BY <4>1 DEF FirstInUse
    <3>4. UNCHANGED <<kind, links, cursor>> /\ a \in Objects
      BY <1>1, <1>5a
    <3>5. QED
      BY <1>6, <2>1, <3>1, <3>3, <3>4, ArrayAgain
  <2>2. CASE kind[a] = "intMap"
    <3>1. Top.does = "clear" /\ NoKeySeen(a)
      BY <1>1, <1>5b, <1>5c, <2>2
    <3>2. ASSUME NEW i \in Objects, kind[i] = "intMapIter", refers[i] = a
          PROVE  cursor[i] = End \/ refers'[<<a, cursor[i]>>] # Beyond
      <4>1. cursor[i] \in Used(a) \cup {End}
        BY <1>5a, <3>2, InvFacts DEF CollectionsInv, CursorsFit
      <4>2. cursor[i] \notin Used(a)
        BY <3>1, <3>2 DEF NoKeySeen, KeyUnseen
      <4>3. QED
        BY <4>1, <4>2
    <3>3. KeysStand(a)
      BY <3>2 DEF KeysStand
    <3>4. UNCHANGED <<kind, links, cursor>> /\ a \in Objects
      BY <1>1, <1>5a
    <3>5. QED
      BY <1>6, <2>2, <3>3, <3>4, MapAgain
  <2>3. QED
    BY <1>5a, <2>1, <2>2 DEF HasCells
<1>11. \A o \in Objects : ~Dying(o) /\ ~HandedBy(calls, o)
  <2>1. /\ \A o : DyingIn(calls, o) <=> Deletes(Top, o)
        /\ \A o : HandedBy(calls, o) <=> Hands(Top, o)
    BY <1>2, OneLoop
  <2>2. QED
    BY <1>1, <2>1, DyingAndInHand DEF Deletes, Hands
<1>12. calls' = << >>
  BY <1>1, <1>2
<1>13. QED
  BY <1>1, <1>5a, <1>6, <1>9, <1>10, <1>11, <1>12, CellsRearrange

LEMMA ResizeInv ==
    ASSUME CollectionsInv, NEW a \in Arrays, NEW size, Resize(a, size), UNCHANGED <<program, below>>
    PROVE  CollectionsInv'
<1>1. /\ Idle /\ stack = NoObject /\ stack' = NoObject /\ size \in 0 .. MaxElements
      /\ UNCHANGED <<program, below, kind, refCount, links, cursor, stack>>
      /\ UNCHANGED <<head, tail, next, prev>>
  BY ProgramFacts DEF Resize, ArrayMethod, shape
<1>2. /\ a \in Objects /\ kind[a] = "array" /\ InVar(a) /\ kind[a] \in HasCells
      /\ Size(a) \in 0 .. MaxElements
  BY ArraysFacts DEF HasCells
<1>3. CASE size >= Size(a)
  <2> DEFINE s == [n \in 1 .. size |-> IF n <= Size(a) THEN Elements(a)[n] ELSE NoObject]
  <2>1. refers' = Filled(refers, a, s) /\ calls' = << >>
    BY <1>1, <1>3 DEF Resize, Change, Idle
  <2>2. /\ \A n \in 1 .. Size(a) : Elements(a)[n] = refers[<<a, n>>]
        /\ \A n \in 1 .. MaxElements : refers[<<a, n>>] # Beyond <=> n <= Size(a)
        /\ \A n \in 1 .. Size(a) : refers[<<a, n>>] \in Object
    BY <1>2, ElementsFacts, UsedCells
  <2>3. /\ DOMAIN s = 1 .. size
        /\ \A n \in 1 .. size : s[n] = IF n <= Size(a) THEN refers[<<a, n>>] ELSE NoObject
    <3>1. \A n \in 1 .. size : n <= Size(a) => n \in 1 .. Size(a)
      BY <1>1, <1>2
    <3>2. QED
      BY <2>2, <3>1
  <2>4. NoObject \in Object /\ Object \subseteq Referred /\ NoObject # Beyond
        /\ NoObject \notin Objects /\ Beyond \notin Objects
    BY InvFacts, ListsAssumption DEF Referred
  <2>5. \A n \in DOMAIN s : n \in 1 .. MaxElements => s[n] \in Referred
    <3>1. ASSUME NEW n \in 1 .. size
          PROVE  s[n] \in Referred
      <4>1. CASE n <= Size(a)
        <5>1. n \in 1 .. Size(a)
          BY <1>1, <1>2, <4>1
        <5>2. QED
          BY <2>2, <2>3, <2>4, <4>1, <5>1
      <4>2. CASE ~(n <= Size(a))
        BY <2>3, <2>4, <4>2
      <4>3. QED
        BY <4>1, <4>2
    <3>2. QED
      BY <2>3, <3>1
  <2> HIDE DEF s
  <2>6. /\ refers' \in [Holders -> Referred] /\ SameBut(refers, refers', a)
        /\ \A n \in 1 .. MaxElements :
               /\ n \in DOMAIN s => refers'[<<a, n>>] = s[n]
               /\ n \notin DOMAIN s => refers'[<<a, n>>] = Beyond
    BY <1>2, <2>1, <2>5, ChangeFacts
  <2>7. ASSUME NEW n \in 1 .. MaxElements
        PROVE  /\ refers'[<<a, n>>] # Beyond <=> n <= size
               /\ refers'[<<a, n>>] = refers[<<a, n>>] \/
                  (refers[<<a, n>>] \notin Objects /\ refers'[<<a, n>>] \notin Objects)
    <3>1. n \in DOMAIN s <=> n <= size
      BY <1>1, <2>3
    <3>2. CASE n <= Size(a)
      <4>1. n <= size /\ n \in 1 .. size
        BY <1>1, <1>2, <1>3, <3>2
      <4>2. refers'[<<a, n>>] = refers[<<a, n>>]
        BY <2>3, <2>6, <3>1, <3>2, <4>1
      <4>3. QED
        BY <2>2, <3>2, <4>1, <4>2
    <3>3. CASE ~(n <= Size(a)) /\ n <= size
      <4>1. n \in 1 .. size
        BY <1>1, <3>3
      <4>2. refers'[<<a, n>>] = NoObject /\ refers[<<a, n>>] = Beyond
        BY <2>2, <2>3, <2>6, <3>1, <3>3, <4>1
      <4>3. QED
        BY <2>4, <3>3, <4>2
    <3>4. CASE ~(n <= Size(a)) /\ ~(n <= size)
      <4>1. refers'[<<a, n>>] = Beyond /\ refers[<<a, n>>] = Beyond
        BY <2>2, <2>6, <3>1, <3>4
      <4>2. QED
        BY <3>4, <4>1
    <3>5. QED
      BY <3>2, <3>3, <3>4
  <2>8. FirstInUse(a, size)
    BY <2>7 DEF FirstInUse
  <2>9. Shifted(NoObject, NoObject)
    BY <1>2, <2>6, <2>7, SameObjects
  <2>10. ArraysAreDense' /\ CursorsFit'
    BY <1>1, <1>2, <2>6, <2>8, ArrayAgain
  <2>11. \A o \in Objects : ~Dying(o) /\ ~HandedBy(calls, o)
    BY <1>1, IdleFacts, NoLoops DEF Idle
  <2>12. QED
    BY <1>1, <1>2, <2>1, <2>6, <2>9, <2>10, <2>11, CellsRearrange
<1>4. CASE ~(size >= Size(a))
  <2> DEFINE c == [Calls("resize", a, NoLink, NoLink, NoObject) EXCEPT !.cell = size + 1, !.number = size]
  <2>1. calls' = <<c>> /\ refers' = refers
    BY <1>4 DEF Resize
  <2>2. /\ size \in Nat /\ size + 1 \in Nat /\ size <= Size(a)
    BY <1>1, <1>2, <1>4
  <2>3. NoLink \in Link /\ NoObject \in Object
    BY InvFacts DEF Link
  <2>4. /\ c \in Loop /\ c.does = "resize" /\ c.for = a /\ c.link = NoLink
        /\ c.number = size /\ c.cell = c.number + 1
    BY <1>2, <2>2, <2>3 DEF Loop, Calls
  <2> HIDE DEF c
  <2>5. SubjectFits(c) /\ ArgumentFits(c)
    BY <1>2, <2>2, <2>4 DEF SubjectFits, ArgumentFits
  <2>6. Safe(stack)
    BY <1>1 DEF Safe
  <2>7. c.does \notin {"delete", "clone", "load", "drop"}
    BY <2>4
  <2>8. UNCHANGED <<program, below, kind, refers, refCount, links, cursor>>
    BY <1>1, <2>1
  <2>9. QED
    BY <1>1, <2>1, <2>4, <2>5, <2>6, <2>7, <2>8, Starts
<1>5. QED
  BY <1>3, <1>4

LEMMA EndMapLoadInv ==
    ASSUME CollectionsInv, EndMapLoad, UNCHANGED <<program, below>>
    PROVE  CollectionsInv'
<1> DEFINE a == Top.for
           k == Top.number
           y == Top.arg
           s == [n \in {k} |-> y]
           r == Filled(refers, a, << >>)
<1>1. /\ OverCells /\ NotPassed = {} /\ Top.does = "load" /\ kind[a] = "intMap"
      /\ refers' = Filled(refers, a, s) /\ calls' = Rest
      /\ refCount' = IF k = 0 THEN refCount ELSE Kept(refCount, y)
      /\ UNCHANGED <<program, below, kind, links, cursor, stack>>
      /\ UNCHANGED <<head, tail, next, prev>>
  BY DEF EndMapLoad, shape
<1>2. /\ ~Idle /\ Top \in Loop /\ SubjectFits(Top) /\ ArgumentFits(Top)
      /\ Top.for \in Objects /\ Top.number \in Nat /\ Top.arg \in Object
      /\ Rest = << >> /\ calls = <<Top>> /\ stack = NoObject
      /\ \A n \in Used(Top.for) : Top.does # "resize" \/ n > Top.number =>
             refers[<<Top.for, n>>] = NoObject
  BY <1>1, LoopOverCells
<1>3. /\ a \in Objects /\ k \in 0 .. MaxElements /\ MaxElements \in Nat /\ y \in Object
      /\ k = 0 => y = NoObject
      /\ kind[a] = "intMap" /\ NoKeySeen(a) /\ kind[a] \in HasCells
  BY <1>1, <1>2, ListsAssumption DEF ArgumentFits, SubjectFits, HasCells
<1>4. \A n \in Used(a) : refers[<<a, n>>] = NoObject
  BY <1>1, <1>2
<1>5. DOMAIN s = {k} /\ s[k] = y /\ \A n : n \in DOMAIN << >> => FALSE
  BY ListsAssumption
<1>5a. \A o \in Objects : ~DyingIn(calls, o) /\ (HandedBy(calls, o) <=> o = y)
  <2>1. /\ \A o : DyingIn(calls, o) <=> Deletes(Top, o)
        /\ \A o : HandedBy(calls, o) <=> Hands(Top, o)
    BY <1>2, OneLoop
  <2>2. QED
    BY <1>1, <2>1 DEF Deletes, Hands
<1>5b. y = Top.arg
  OBVIOUS
<1>5c. refCount' = Kept(refCount, y)
  BY <1>1, <1>3 DEF Kept
<1>5d. calls' = << >>
  BY <1>1, <1>2
<1> HIDE DEF a, k, y, s
<1>6. /\ refers' \in [Holders -> Referred] /\ SameBut(refers, refers', a)
      /\ \A n \in 1 .. MaxElements :
             /\ n \in DOMAIN s => refers'[<<a, n>>] = s[n]
             /\ n \notin DOMAIN s => refers'[<<a, n>>] = Beyond
  <2>1. \A n \in DOMAIN s : n \in 1 .. MaxElements => s[n] \in Referred
    BY <1>3, <1>5 DEF Referred
  <2>2. QED
    BY <1>1, <1>3, <2>1, ChangeFacts
<1>7. /\ r \in [Holders -> Referred] /\ SameBut(refers, r, a)
      /\ \A n \in 1 .. MaxElements : r[<<a, n>>] = Beyond
  <2>1. /\ r \in [Holders -> Referred] /\ HoldsIn(r, a, << >>) /\ SameBut(refers, r, a)
    <3>1. \A n \in DOMAIN << >> : n \in 1 .. MaxElements => << >>[n] \in Referred
      OBVIOUS
    <3>2. QED
      BY <1>3, <3>1, InvFacts, FilledFacts
  <2>2. QED
    BY <1>5, <2>1 DEF HoldsIn
<1> HIDE DEF r
<1>8. ASSUME NEW o \in Objects
      PROVE  Count(r, o) = Count(refers, o)
  <2>1. ASSUME NEW h \in Holders
        PROVE  r[h] = o <=> refers[h] = o
    <3>1. CASE h \notin Cells
      BY <1>7, <3>1 DEF SameBut
    <3>2. CASE h \in Cells
      <4>1. PICK b \in Objects, n \in 1 .. MaxElements : h = <<b, n>>
        BY <3>2, CellFacts
      <4>2. CASE b = a
        <5>1. r[h] = Beyond /\ refers[h] \in {Beyond, NoObject}
          BY <1>4, <1>7, <4>1, <4>2, UsedFacts
        <5>2. QED
          BY <5>1, ListsAssumption
      <4>3. CASE b # a
        BY <1>7, <4>1, <4>3 DEF SameBut
      <4>4. QED
        BY <4>2, <4>3
    <3>3. QED
      BY <3>1, <3>2
  <2>2. {h \in Holders : r[h] = o} = {h \in Holders : refers[h] = o}
    BY <2>1
  <2>3. QED
    BY <2>2 DEF Count
<1>9. ASSUME NEW o \in Objects
      PROVE  Count(refers', o) = Count(r, o) + (IF y = o THEN 1 ELSE 0)
  <2>1. CASE k = 0
    <3>1. ASSUME NEW h \in Holders
          PROVE  refers'[h] = r[h]
      <4>1. CASE h \notin Cells
        BY <1>6, <1>7, <4>1 DEF SameBut
      <4>2. CASE h \in Cells
        <5>1. PICK b \in Objects, n \in 1 .. MaxElements : h = <<b, n>>
          BY <4>2, CellFacts
        <5>2. n \notin DOMAIN s
          BY <1>3, <1>5, <2>1
        <5>3. QED
          BY <1>6, <1>7, <5>1, <5>2 DEF SameBut
      <4>3. QED
        BY <4>1, <4>2
    <3>2. refers' = r
      BY <1>6, <1>7, <3>1
    <3>3. y # o /\ Count(r, o) \in Nat
      BY <1>3, <2>1, InvFacts, CountType
    <3>4. QED
      BY <3>2, <3>3
  <2>2. CASE k # 0
    <3>1. k \in 1 .. MaxElements
      BY <1>3, <2>2
    <3>2. <<a, k>> \in Holders /\ <<a, k>> \in Cells
      BY <1>3, <3>1, CellFacts
    <3>3. ASSUME NEW h \in Holders
          PROVE  refers'[h] = IF h = <<a, k>> THEN y ELSE r[h]
      <4>1. CASE h \notin Cells
        BY <1>6, <1>7, <3>2, <4>1 DEF SameBut
      <4>2. CASE h \in Cells
        <5>1. PICK b \in Objects, n \in 1 .. MaxElements : h = <<b, n>>
          BY <4>2, CellFacts
        <5>2. CASE b = a /\ n = k
          BY <1>5, <1>6, <5>1, <5>2
        <5>3. CASE b = a /\ n # k
          BY <1>5, <1>6, <1>7, <5>1, <5>3
        <5>4. CASE b # a
          BY <1>6, <1>7, <5>1, <5>4 DEF SameBut
        <5>5. QED
          BY <5>2, <5>3, <5>4
      <4>3. QED
        BY <4>1, <4>2
    <3>4. refers' = [r EXCEPT ![<<a, k>>] = y]
      BY <1>6, <1>7, <3>3
    <3>5. Turned(r, refers', r[<<a, k>>], y, o)
      BY <1>7, <3>2, <3>4, CountOne
    <3>6. r[<<a, k>>] # o /\ Count(r, o) \in Nat
      BY <1>7, <3>1, ListsAssumption, CountType
    <3>7. QED
      BY <3>5, <3>6 DEF Turned
  <2>3. QED
    BY <2>1, <2>2
<1>10. Shifted(NoObject, y)
  <2>1. ASSUME NEW o \in Objects
        PROVE  Turned(refers, refers', NoObject, y, o)
    <3>1. Count(refers', o) = Count(refers, o) + (IF y = o THEN 1 ELSE 0) /\ o # NoObject
          /\ Count(refers, o) \in Nat
      BY <1>8, <1>9, InvFacts, CountType
    <3>2. QED
      BY <3>1 DEF Turned
  <2>2. QED
    BY <2>1 DEF Shifted
<1>11. ArraysAreDense' /\ CursorsFit'
  <2>1. ASSUME NEW i \in Objects, kind[i] = "intMapIter", refers[i] = a
        PROVE  cursor[i] = End \/ refers'[<<a, cursor[i]>>] # Beyond
    <3>1. cursor[i] \in Used(a) \cup {End}
      BY <1>3, <2>1, InvFacts DEF CollectionsInv, CursorsFit
    <3>2. cursor[i] \notin Used(a)
      BY <1>3, <2>1 DEF NoKeySeen, KeyUnseen
    <3>3. QED
      BY <3>1, <3>2
  <2>2. KeysStand(a)
    BY <2>1 DEF KeysStand
  <2>3. UNCHANGED <<kind, links, cursor>>
    BY <1>1
  <2>4. QED
    BY <1>3, <1>6, <2>2, <2>3, MapAgain
<1>12. /\ \A h \in Holders \ Cells : refers'[h] # Beyond
       /\ ParentsStay /\ OwnersOnly'
  <2>1. UNCHANGED <<kind, links, cursor>>
    BY <1>1
  <2>2. QED
    BY <1>3, <1>6, <2>1, CellsChange
<1>13. PointersTypeOK' /\ links' \in SUBSET Links
  BY <1>1, InvFacts DEF PointersTypeOK
<1>14. << >> \in Seq(Loop) /\ \A o : ~DyingIn(<< >>, o)
  BY NoLoops
<1>15. \A o \in Objects : HandedBy(<< >>, o) <=> Top.does = "clone" /\ Top.for = o
  BY <1>1, NoLoops
<1>16. InOrder(<< >>) /\ \A c \in LoopsOf(<< >>) : LoopFits(c)'
  BY DEF InOrder, LoopsOf
<1>17. UNCHANGED <<program, below, kind, stack>>
  BY <1>1
<1>18. QED
  BY <1>1, <1>2, <1>3, <1>5b, <1>5c, <1>5d, <1>6, <1>10, <1>11, <1>12, <1>13, <1>14, <1>15,
     <1>16, <1>17, KeepStep

-----------------------------------------------------------------------------
(* Elements that move *)

\* The n-th of z + 1 cells of a is freed: those from there to the z-th move up.
Opens(r, t, a, n, z) ==
    /\ \A j \in 1 .. MaxElements : j < n \/ j > z + 1 => t[<<a, j>>] = r[<<a, j>>]
    /\ \A j \in 1 .. MaxElements : n <= j /\ j <= z => t[<<a, j + 1>>] = r[<<a, j>>]
    /\ t[<<a, n>>] = Beyond /\ r[<<a, z + 1>>] = Beyond

LEMMA CellsOpened ==
    ASSUME NEW r \in [Holders -> Referred], NEW t \in [Holders -> Referred],
           NEW a \in Objects, SameBut(r, t, a), NEW z \in Nat, z + 1 <= MaxElements,
           NEW n \in 1 .. z + 1, Opens(r, t, a, n, z), NEW o
    PROVE  Count(t, o) = Count(r, o)
<1> DEFINE p == [j \in 1 .. MaxElements |-> IF j < n \/ j > z + 1 THEN j
                                          ELSE IF j = z + 1 THEN n ELSE j + 1]
           q == [j \in 1 .. MaxElements |-> IF j < n \/ j > z + 1 THEN j
                                          ELSE IF j = n THEN z + 1 ELSE j - 1]
<1>1. MaxElements \in Nat /\ n \in Nat /\ n <= z + 1 /\ 1 <= n
  BY ListsAssumption
<1>2. p \in [1 .. MaxElements -> 1 .. MaxElements] /\ q \in [1 .. MaxElements -> 1 .. MaxElements]
  BY <1>1
<1>3. \A j \in 1 .. MaxElements : q[p[j]] = j /\ p[q[j]] = j
  BY <1>1
<1>4. \A j \in 1 .. MaxElements : t[<<a, p[j]>>] = r[<<a, j>>]
  <2>1. ASSUME NEW j \in 1 .. MaxElements
        PROVE  t[<<a, p[j]>>] = r[<<a, j>>]
    <3>1. CASE j < n \/ j > z + 1
      BY <3>1 DEF Opens
    <3>2. CASE j = z + 1
      <4>1. p[j] = n
        BY <1>1, <3>2
      <4>2. QED
        BY <3>2, <4>1 DEF Opens
    <3>3. CASE n <= j /\ j <= z
      <4>1. p[j] = j + 1
        BY <1>1, <3>3
      <4>2. QED
        BY <3>3, <4>1 DEF Opens
    <3>4. QED
      BY <1>1, <3>1, <3>2, <3>3
  <2>2. QED
    BY <2>1
<1> HIDE DEF p, q
<1>5. Permutes(p, q) /\ MovedBy(p, r, t, a)
  BY <1>3, <1>4 DEF Permutes, MovedBy
<1>6. QED
  BY <1>2, <1>5, CellsPermuted

\* One sequence behind the other.
JoinedAs(u, v, w) ==
    /\ \A j \in 1 .. Len(u) : w[j] = u[j]
    /\ \A j \in 1 .. Len(v) : w[Len(u) + j] = v[j]

LEMMA Joined ==
    ASSUME NEW T, NEW u \in Seq(T), NEW v \in Seq(T)
    PROVE  u \o v \in Seq(T) /\ Len(u \o v) = Len(u) + Len(v) /\ JoinedAs(u, v, u \o v)
<1>1. u \o v \in Seq(T) /\ Len(u \o v) = Len(u) + Len(v)
  OBVIOUS
<1>2. \A j \in 1 .. Len(u) : (u \o v)[j] = u[j]
  OBVIOUS
<1>3. ASSUME NEW j \in 1 .. Len(v)
      PROVE  (u \o v)[Len(u) + j] = v[j]
  <2>1. Len(u) + j \in 1 .. Len(u) + Len(v) /\ ~(Len(u) + j <= Len(u)) /\ Len(u) + j - Len(u) = j
    OBVIOUS
  <2>2. QED
    BY <2>1
<1>4. QED
  BY <1>1, <1>2, <1>3 DEF JoinedAs

\* A sequence with x inserted, and one without its n-th element.
WithAt(s, n, x, w) ==
    /\ Len(w) = Len(s) + 1 /\ w[n] = x
    /\ \A j \in 1 .. n - 1 : w[j] = s[j]
    /\ \A j \in n .. Len(s) : w[j + 1] = s[j]
WithoutAt(s, n, w) ==
    /\ Len(w) = Len(s) - 1
    /\ \A j \in 1 .. n - 1 : w[j] = s[j]
    /\ \A j \in n .. Len(s) - 1 : w[j] = s[j + 1]

LEMMA InsertedAt ==
    ASSUME NEW T, NEW s \in Seq(T), NEW n \in 1 .. Len(s) + 1, NEW x \in T
    PROVE  S!InsertAt(s, n, x) \in Seq(T) /\ WithAt(s, n, x, S!InsertAt(s, n, x))
<1> DEFINE u == SubSeq(s, 1, n - 1)
           v == SubSeq(s, n, Len(s))
<1>1. /\ u \in Seq(T) /\ Len(u) = n - 1 /\ \A j \in 1 .. n - 1 : u[j] = s[j]
  OBVIOUS
<1>2. /\ v \in Seq(T) /\ Len(v) = Len(s) - n + 1 /\ \A j \in 1 .. Len(s) - n + 1 : v[j] = s[n + j - 1]
  OBVIOUS
<1> HIDE DEF u, v
<1> DEFINE w == u \o <<x>>
<1>3. /\ w \in Seq(T) /\ Len(w) = n /\ w[n] = x /\ \A j \in 1 .. n - 1 : w[j] = s[j]
  BY <1>1
<1> HIDE DEF w
<1>4. /\ w \o v \in Seq(T) /\ Len(w \o v) = Len(s) + 1
      /\ \A j \in 1 .. n : (w \o v)[j] = w[j]
      /\ \A j \in 1 .. Len(s) - n + 1 : (w \o v)[n + j] = v[j]
  <2>1. /\ w \o v \in Seq(T) /\ Len(w \o v) = Len(w) + Len(v)
        /\ JoinedAs(w, v, w \o v)
    BY <1>2, <1>3, Joined
  <2>2. Len(w) = n /\ Len(v) = Len(s) - n + 1 /\ n + (Len(s) - n + 1) = Len(s) + 1
    BY <1>2, <1>3
  <2>3. QED
    BY <2>1, <2>2 DEF JoinedAs
<1>5. S!InsertAt(s, n, x) = w \o v
  BY DEF S!InsertAt, w, u, v
<1>6. ASSUME NEW j \in n .. Len(s)
      PROVE  (w \o v)[j + 1] = s[j]
  <2>1. j - n + 1 \in 1 .. Len(s) - n + 1 /\ n + (j - n + 1) = j + 1 /\ n + (j - n + 1) - 1 = j
    OBVIOUS
  <2>2. (w \o v)[n + (j - n + 1)] = v[j - n + 1]
    BY <1>4, <2>1
  <2>3. v[j - n + 1] = s[n + (j - n + 1) - 1]
    BY <1>2, <2>1
  <2>4. QED
    BY <2>1, <2>2, <2>3
<1>7. \A j \in 1 .. n - 1 : (w \o v)[j] = s[j]
  BY <1>3, <1>4
<1>8. (w \o v)[n] = x
  BY <1>3, <1>4
<1>9. QED
  BY <1>4, <1>5, <1>6, <1>7, <1>8 DEF WithAt

LEMMA RemovedAt ==
    ASSUME NEW T, NEW s \in Seq(T), NEW n \in 1 .. Len(s)
    PROVE  S!RemoveAt(s, n) \in Seq(T) /\ WithoutAt(s, n, S!RemoveAt(s, n))
<1> DEFINE u == SubSeq(s, 1, n - 1)
           v == SubSeq(s, n + 1, Len(s))
<1>1. /\ u \in Seq(T) /\ Len(u) = n - 1 /\ \A j \in 1 .. n - 1 : u[j] = s[j]
  OBVIOUS
<1>2. /\ v \in Seq(T) /\ Len(v) = Len(s) - n /\ \A j \in 1 .. Len(s) - n : v[j] = s[n + j]
  OBVIOUS
<1> HIDE DEF u, v
<1>3. /\ u \o v \in Seq(T) /\ Len(u \o v) = Len(s) - 1
      /\ \A j \in 1 .. n - 1 : (u \o v)[j] = u[j]
      /\ \A j \in 1 .. Len(s) - n : (u \o v)[n - 1 + j] = v[j]
  <2>1. /\ u \o v \in Seq(T) /\ Len(u \o v) = Len(u) + Len(v)
        /\ JoinedAs(u, v, u \o v)
    BY <1>1, <1>2, Joined
  <2>2. Len(u) = n - 1 /\ Len(v) = Len(s) - n /\ n - 1 + (Len(s) - n) = Len(s) - 1
    BY <1>1, <1>2
  <2>3. QED
    BY <2>1, <2>2 DEF JoinedAs
<1>4. S!RemoveAt(s, n) = u \o v
  BY DEF S!RemoveAt, u, v
<1>5. ASSUME NEW j \in n .. Len(s) - 1
      PROVE  (u \o v)[j] = s[j + 1]
  <2>1. j - n + 1 \in 1 .. Len(s) - n /\ n - 1 + (j - n + 1) = j /\ n + (j - n + 1) = j + 1
    OBVIOUS
  <2>2. (u \o v)[n - 1 + (j - n + 1)] = v[j - n + 1]
    BY <1>3, <2>1
  <2>3. v[j - n + 1] = s[n + (j - n + 1)]
    BY <1>2, <2>1
  <2>4. QED
    BY <2>1, <2>2, <2>3
<1>6. QED
  BY <1>1, <1>3, <1>4, <1>5 DEF WithoutAt

\* The references of r are those of t but for the n-th cell of a, which is new.
LEMMA OpenedCounts ==
    ASSUME NEW r \in [Holders -> Referred], NEW t \in [Holders -> Referred],
           NEW a \in Objects, SameBut(r, t, a), NEW z \in Nat, z + 1 <= MaxElements,
           NEW n \in 1 .. z + 1, r[<<a, z + 1>>] = Beyond,
           \A j \in 1 .. MaxElements : j < n \/ j > z + 1 => t[<<a, j>>] = r[<<a, j>>],
           \A j \in 1 .. MaxElements : n <= j /\ j <= z => t[<<a, j + 1>>] = r[<<a, j>>],
           NEW o \in Objects
    PROVE  Count(t, o) = Count(r, o) + (IF t[<<a, n>>] = o THEN 1 ELSE 0)
<1> DEFINE u == [t EXCEPT ![<<a, n>>] = Beyond]
<1>1. n \in 1 .. MaxElements /\ z + 1 \in 1 .. MaxElements /\ MaxElements \in Nat
  BY ListsAssumption
<1>2. <<a, n>> \in Holders /\ <<a, n>> \in Cells
  BY <1>1, CellFacts
<1>3. /\ u \in [Holders -> Referred] /\ u[<<a, n>>] = Beyond
      /\ \A h \in Holders : h # <<a, n>> => u[h] = t[h]
  BY <1>2 DEF Referred
<1>4. SameBut(r, u, a)
  <2>1. \A b \in Objects \ {a}, j \in 1 .. MaxElements : <<b, j>> \in Holders /\ <<b, j>> # <<a, n>>
    BY CellFacts
  <2>2. \A h \in Holders \ Cells : h # <<a, n>>
    BY <1>2
  <2>3. QED
    BY <1>3, <2>1, <2>2 DEF SameBut
<1>5. \A j \in 1 .. MaxElements : <<a, j>> \in Holders /\ (j # n => u[<<a, j>>] = t[<<a, j>>])
  BY <1>3, CellFacts
<1>6. Opens(r, u, a, n, z)
  <2>1. ASSUME NEW j \in 1 .. MaxElements, j < n \/ j > z + 1
        PROVE  u[<<a, j>>] = r[<<a, j>>]
    BY <1>1, <1>5, <2>1
  <2>2. ASSUME NEW j \in 1 .. MaxElements, n <= j, j <= z
        PROVE  u[<<a, j + 1>>] = r[<<a, j>>]
    <3>1. j + 1 \in 1 .. MaxElements /\ j + 1 # n
      BY <1>1, <2>2
    <3>2. u[<<a, j + 1>>] = t[<<a, j + 1>>]
      BY <1>5, <3>1
    <3>3. QED
      BY <2>2, <3>2
  <2>3. QED
    BY <1>3, <2>1, <2>2 DEF Opens
<1> HIDE DEF u
<1>7. Count(u, o) = Count(r, o)
  BY <1>3, <1>4, <1>6, CellsOpened
<1>8. Turned(t, u, t[<<a, n>>], Beyond, o)
  BY <1>2, CountOne DEF u
<1>9. Count(t, o) \in Nat /\ Count(u, o) \in Nat /\ Beyond # o
  BY CountType, ListsAssumption
<1>10. QED
  BY <1>7, <1>8, <1>9 DEF Turned

LEMMA InsertElementInv ==
    ASSUME CollectionsInv, Idle, UNCHANGED <<program, below>>, NEW a \in Objects, kind[a] = "array",
           NEW n, InsertElement(a, n)
    PROVE  CollectionsInv'
<1> DEFINE z == Size(a)
           s == S!InsertAt(Elements(a), n, stack)
<1>1. /\ n \in 1 .. z + 1 /\ z < program.cells /\ refers' = Filled(refers, a, s)
      /\ refCount' = Kept(refCount, stack) /\ stack' = NoObject
      /\ UNCHANGED <<program, below, kind, links, cursor, calls>> /\ UNCHANGED <<head, tail, next, prev>>
  BY DEF InsertElement, Change, shape
<1>2. /\ Elements(a) \in Seq(Object) /\ Len(Elements(a)) = z
      /\ \A j \in 1 .. z : Elements(a)[j] = refers[<<a, j>>]
      /\ \A j \in 1 .. MaxElements : refers[<<a, j>>] # Beyond <=> j <= z
  BY ElementsFacts
<1>3. z \in Nat /\ z + 1 <= MaxElements /\ MaxElements \in Nat
  BY <1>1, ProgramFacts, UsedFacts
<1>4. stack \in Object /\ NoObject \in Object /\ Object \subseteq Referred /\ Beyond \notin Object
      /\ NoObject \notin Objects /\ refers \in [Holders -> Referred]
  BY InvFacts DEF Referred
<1>5. /\ s \in Seq(Object) /\ Len(s) = z + 1 /\ s[n] = stack
      /\ \A j \in 1 .. n - 1 : s[j] = Elements(a)[j]
      /\ \A j \in n .. z : s[j + 1] = Elements(a)[j]
  <2>1. n \in 1 .. Len(Elements(a)) + 1
    BY <1>1, <1>2
  <2>2. s \in Seq(Object) /\ WithAt(Elements(a), n, stack, s)
    BY <1>2, <1>4, <2>1, InsertedAt
  <2>3. QED
    BY <1>2, <2>2 DEF WithAt
<1> HIDE DEF s, z
<1>6. DOMAIN s = 1 .. z + 1 /\ \A j \in 1 .. z + 1 : s[j] \in Object
  BY <1>3, <1>5
<1>7. /\ refers' \in [Holders -> Referred] /\ SameBut(refers, refers', a)
      /\ \A j \in 1 .. MaxElements :
             /\ j \in DOMAIN s => refers'[<<a, j>>] = s[j]
             /\ j \notin DOMAIN s => refers'[<<a, j>>] = Beyond
  <2>1. \A j \in DOMAIN s : j \in 1 .. MaxElements => s[j] \in Referred
    BY <1>4, <1>6
  <2>2. QED
    BY <1>1, <2>1, ChangeFacts
<1>8. FirstInUse(a, z + 1)
  <2>1. ASSUME NEW j \in 1 .. MaxElements
        PROVE  refers'[<<a, j>>] # Beyond <=> j <= z + 1
    <3>1. CASE j \in 1 .. z + 1
      BY <1>4, <1>6, <1>7, <3>1
    <3>2. CASE j \notin 1 .. z + 1
      <4>1. ~(j <= z + 1)
        BY <1>3, <3>2
      <4>2. QED
        BY <1>6, <1>7, <3>2, <4>1
    <3>3. QED
      BY <3>1, <3>2
  <2>2. QED
    BY <2>1 DEF FirstInUse
<1>9. ArraysAreDense' /\ CursorsFit'
  <2>1. z + 1 \in 0 .. MaxElements /\ UNCHANGED <<kind, links, cursor>>
    BY <1>1, <1>3
  <2>2. QED
    BY <1>7, <1>8, <2>1, ArrayAgain
<1>10. \A j \in 1 .. MaxElements : j < n \/ j > z + 1 => refers'[<<a, j>>] = refers[<<a, j>>]
  <2>1. ASSUME NEW j \in 1 .. MaxElements, j < n
        PROVE  refers'[<<a, j>>] = refers[<<a, j>>]
    <3>1. j \in 1 .. n - 1 /\ j \in 1 .. z /\ j \in DOMAIN s
      BY <1>1, <1>3, <1>6, <2>1
    <3>2. QED
      BY <1>2, <1>5, <1>7, <3>1
  <2>2. ASSUME NEW j \in 1 .. MaxElements, j > z + 1
        PROVE  refers'[<<a, j>>] = refers[<<a, j>>]
    <3>1. ~(j <= z) /\ j \notin DOMAIN s
      BY <1>3, <1>6, <2>2
    <3>2. QED
      BY <1>2, <1>7, <3>1
  <2>3. QED
    BY <2>1, <2>2
<1>11. \A j \in 1 .. MaxElements : n <= j /\ j <= z => refers'[<<a, j + 1>>] = refers[<<a, j>>]
  <2>1. ASSUME NEW j \in 1 .. MaxElements, n <= j, j <= z
        PROVE  refers'[<<a, j + 1>>] = refers[<<a, j>>]
    <3>1. j \in n .. z /\ j \in 1 .. z /\ j + 1 \in DOMAIN s /\ j + 1 \in 1 .. MaxElements
      BY <1>1, <1>3, <1>6, <2>1
    <3>2. QED
      BY <1>2, <1>5, <1>7, <3>1
  <2>2. QED
    BY <2>1
<1>12. refers[<<a, z + 1>>] = Beyond /\ refers'[<<a, n>>] = stack
  <2>1. z + 1 \in 1 .. MaxElements /\ ~(z + 1 <= z) /\ n \in 1 .. MaxElements /\ n \in DOMAIN s
    BY <1>1, <1>3, <1>6
  <2>2. QED
    BY <1>2, <1>5, <1>7, <2>1
<1>13. Shifted(NoObject, stack)
  <2>1. ASSUME NEW o \in Objects
        PROVE  Turned(refers, refers', NoObject, stack, o)
    <3>1. Count(refers', o) = Count(refers, o) + (IF refers'[<<a, n>>] = o THEN 1 ELSE 0)
      BY <1>1, <1>3, <1>4, <1>7, <1>10, <1>11, <1>12, OpenedCounts
    <3>2. o # NoObject /\ Count(refers, o) \in Nat
      BY <1>4, CountType
    <3>3. QED
      BY <1>12, <3>1, <3>2 DEF Turned
  <2>2. QED
    BY <2>1 DEF Shifted
<1>14. refCount' = Released(Kept(refCount, stack), NoObject) /\ calls' = AndDelete(NoObject, << >>)
  BY <1>1 DEF Released, AndDelete, Idle
<1>15. UNCHANGED <<program, below, kind, links, cursor>> /\ UNCHANGED <<head, tail, next, prev>>
       /\ stack' = NoObject /\ kind[a] \in HasCells
  BY <1>1 DEF HasCells
<1>16. QED
  BY <1>4, <1>7, <1>9, <1>13, <1>14, <1>15, CellsExchange

\* An element is taken out of an array.
LEMMA ElementGoes ==
    ASSUME CollectionsInv, UNCHANGED <<kind, links, cursor>>, NEW a \in Objects,
           kind[a] = "array", NEW n \in Used(a),
           refers' = Filled(refers, a, S!RemoveAt(Elements(a), n))
    PROVE  /\ refers' \in [Holders -> Referred] /\ SameBut(refers, refers', a)
           /\ ArraysAreDense' /\ CursorsFit'
           /\ Shifted(refers[<<a, n>>], NoObject)
<1> DEFINE s == S!RemoveAt(Elements(a), n)
           z == Size(a) - 1
<1>1. /\ Elements(a) \in Seq(Object) /\ Len(Elements(a)) = z + 1
      /\ \A j \in 1 .. z + 1 : Elements(a)[j] = refers[<<a, j>>]
      /\ \A j \in 1 .. MaxElements : refers[<<a, j>>] # Beyond <=> j <= z + 1
      /\ n \in 1 .. z + 1 /\ z \in Nat /\ z + 1 <= MaxElements /\ MaxElements \in Nat
  <2>1. /\ Elements(a) \in Seq(Object) /\ Len(Elements(a)) = Size(a)
        /\ \A j \in 1 .. Size(a) : Elements(a)[j] = refers[<<a, j>>]
        /\ \A j \in 1 .. MaxElements : refers[<<a, j>>] # Beyond <=> j <= Size(a)
    BY ElementsFacts
  <2>2. n \in 1 .. Size(a) /\ Size(a) \in 0 .. MaxElements /\ MaxElements \in Nat
    BY ElementsFacts
  <2>3. z + 1 = Size(a) /\ z \in Nat /\ z + 1 <= MaxElements
    BY <2>2
  <2> HIDE DEF z
  <2>4. QED
    BY <2>1, <2>2, <2>3
<1>2. Object \subseteq Referred /\ Beyond \notin Object /\ NoObject \notin Objects
      /\ refers \in [Holders -> Referred]
  BY InvFacts DEF Referred
<1> HIDE DEF z
<1>3. /\ s \in Seq(Object) /\ Len(s) = z
      /\ \A j \in 1 .. n - 1 : s[j] = Elements(a)[j]
      /\ \A j \in n .. z : s[j] = Elements(a)[j + 1]
  <2>1. n \in 1 .. Len(Elements(a))
    BY <1>1
  <2>2. s \in Seq(Object) /\ WithoutAt(Elements(a), n, s)
    BY <1>1, <2>1, RemovedAt
  <2>3. Len(Elements(a)) - 1 = z
    BY <1>1
  <2> HIDE DEF s
  <2>4. QED
    BY <2>2, <2>3 DEF WithoutAt
<1>4. refers' = Filled(refers, a, s)
  OBVIOUS
<1> HIDE DEF s
<1>5. DOMAIN s = 1 .. z /\ \A j \in 1 .. z : s[j] \in Object
  BY <1>1, <1>3
<1>6. /\ refers' \in [Holders -> Referred] /\ SameBut(refers, refers', a)
      /\ \A j \in 1 .. MaxElements :
             /\ j \in DOMAIN s => refers'[<<a, j>>] = s[j]
             /\ j \notin DOMAIN s => refers'[<<a, j>>] = Beyond
  <2>1. \A j \in DOMAIN s : j \in 1 .. MaxElements => s[j] \in Referred
    BY <1>2, <1>5
  <2>2. QED
    BY <1>4, <2>1, ChangeFacts
<1>7. FirstInUse(a, z)
  <2>1. ASSUME NEW j \in 1 .. MaxElements
        PROVE  refers'[<<a, j>>] # Beyond <=> j <= z
    <3>1. CASE j \in 1 .. z
      BY <1>2, <1>5, <1>6, <3>1
    <3>2. CASE j \notin 1 .. z
      <4>1. ~(j <= z)
        BY <1>1, <3>2
      <4>2. QED
        BY <1>5, <1>6, <3>2, <4>1
    <3>3. QED
      BY <3>1, <3>2
  <2>2. QED
    BY <2>1 DEF FirstInUse
<1>8. ArraysAreDense' /\ CursorsFit'
  <2>1. z \in 0 .. MaxElements
    BY <1>1
  <2>2. QED
    BY <1>6, <1>7, <2>1, ArrayAgain
<1>9. \A j \in 1 .. MaxElements : j < n \/ j > z + 1 => refers[<<a, j>>] = refers'[<<a, j>>]
  <2>1. ASSUME NEW j \in 1 .. MaxElements, j < n
        PROVE  refers[<<a, j>>] = refers'[<<a, j>>]
    <3>1. j \in 1 .. n - 1 /\ j \in 1 .. z + 1 /\ j \in DOMAIN s
      BY <1>1, <1>5, <2>1
    <3>2. QED
      BY <1>1, <1>3, <1>6, <3>1
  <2>2. ASSUME NEW j \in 1 .. MaxElements, j > z + 1
        PROVE  refers[<<a, j>>] = refers'[<<a, j>>]
    <3>1. ~(j <= z + 1) /\ j \notin DOMAIN s
      BY <1>1, <1>5, <2>2
    <3>2. QED
      BY <1>1, <1>6, <3>1
  <2>3. QED
    BY <2>1, <2>2
<1>10. \A j \in 1 .. MaxElements : n <= j /\ j <= z => refers[<<a, j + 1>>] = refers'[<<a, j>>]
  <2>1. ASSUME NEW j \in 1 .. MaxElements, n <= j, j <= z
        PROVE  refers[<<a, j + 1>>] = refers'[<<a, j>>]
    <3>1. j \in n .. z /\ j \in DOMAIN s /\ j + 1 \in 1 .. z + 1
      BY <1>1, <1>5, <2>1
    <3>2. QED
      BY <1>1, <1>3, <1>6, <3>1
  <2>2. QED
    BY <2>1
<1>11. refers'[<<a, z + 1>>] = Beyond
  <2>1. z + 1 \in 1 .. MaxElements /\ z + 1 \notin DOMAIN s
    BY <1>1, <1>5
  <2>2. QED
    BY <1>6, <2>1
<1>12. SameBut(refers', refers, a)
  BY <1>6 DEF SameBut
<1>13. ASSUME NEW o \in Objects
       PROVE  Turned(refers, refers', refers[<<a, n>>], NoObject, o)
  <2>0. /\ refers \in [Holders -> Referred] /\ refers' \in [Holders -> Referred]
        /\ a \in Objects /\ z \in Nat /\ z + 1 <= MaxElements /\ n \in 1 .. z + 1
    BY <1>1, <1>2, <1>6, ListsAssumption
  <2>1. Count(refers, o) = Count(refers', o) + (IF refers[<<a, n>>] = o THEN 1 ELSE 0)
    BY <2>0, <1>9, <1>10, <1>11, <1>12, OpenedCounts
  <2>2. o # NoObject /\ Count(refers, o) \in Nat /\ Count(refers', o) \in Nat
    BY <1>2, CountType
  <2>3. QED
    BY <2>1, <2>2 DEF Turned
<1>14. Shifted(refers[<<a, n>>], NoObject)
  BY <1>13 DEF Shifted
<1>15. QED
  BY <1>6, <1>8, <1>14

LEMMA RemoveElementInv ==
    ASSUME CollectionsInv, NEW a \in Arrays, NEW n, RemoveElement(a, n), UNCHANGED <<program, below>>
    PROVE  CollectionsInv'
<1>1. /\ Idle /\ stack = NoObject /\ n \in Used(a) /\ cursor' = cursor
      /\ Unreferred(a, n, S!RemoveAt(Elements(a), n))
  BY DEF RemoveElement, ArrayMethod
<1>2. a \in Objects /\ kind[a] = "array" /\ kind[a] \in HasCells
  BY ArraysFacts DEF HasCells
<1>3. /\ refers' = Filled(refers, a, S!RemoveAt(Elements(a), n)) /\ stack' = refers[<<a, n>>]
      /\ refCount' = Released(refCount, refers[<<a, n>>])
      /\ UNCHANGED <<kind, links, calls>> /\ UNCHANGED <<head, tail, next, prev>>
      /\ refers[<<a, n>>] \in Object
      /\ refers[<<a, n>>] \in Objects => refCount[refers[<<a, n>>]] > 0
  BY <1>1, <1>2, UnreferredFacts
<1>4. /\ refers' \in [Holders -> Referred] /\ SameBut(refers, refers', a)
      /\ ArraysAreDense' /\ CursorsFit' /\ Shifted(refers[<<a, n>>], NoObject)
  BY <1>1, <1>2, <1>3, ElementGoes
<1>5. QED
  BY <1>1, <1>2, <1>3, <1>4, CellsUnref

LEMMA ArrayIterRemoveInv ==
    ASSUME CollectionsInv, NEW i \in ArrayIters, ArrayIterRemove(i), UNCHANGED <<program, below>>
    PROVE  CollectionsInv'
<1> DEFINE a == refers[i]
           n == cursor[i]
<1>1. /\ Idle /\ stack = NoObject /\ stack' = NoObject /\ n \in Used(a)
      /\ refers' = Filled(refers, a, S!RemoveAt(Elements(a), n))
      /\ refCount' = Released(refCount, refers[<<a, n>>])
      /\ calls' = AndDelete(refers[<<a, n>>], << >>)
      /\ UNCHANGED <<program, below, kind, links, cursor>> /\ UNCHANGED <<head, tail, next, prev>>
  BY DEF ArrayIterRemove, ArrayIterMethod, AtElement, Here, Change, shape
<1>2. a \in Objects /\ kind[a] = "array" /\ kind[a] \in HasCells
  BY <1>1, ArrayItersFacts DEF HasCells
<1> HIDE DEF a, n
<1>3. /\ refers[<<a, n>>] \in Object
      /\ refers[<<a, n>>] \in Objects => refCount[refers[<<a, n>>]] > 0
  BY <1>1, <1>2, CellMayHold
<1>4. /\ refers' \in [Holders -> Referred] /\ SameBut(refers, refers', a)
      /\ ArraysAreDense' /\ CursorsFit' /\ Shifted(refers[<<a, n>>], NoObject)
  BY <1>1, <1>2, ElementGoes
<1>5. refCount' = Released(Kept(refCount, stack), refers[<<a, n>>]) /\ Shifted(refers[<<a, n>>], stack)
  BY <1>1, <1>4 DEF Kept
<1>6. QED
  BY <1>1, <1>2, <1>3, <1>4, <1>5, CellsExchange

LEMMA ReverseInv ==
    ASSUME CollectionsInv, NEW a \in Arrays, ReverseElements(a), UNCHANGED <<program, below>>
    PROVE  CollectionsInv'
<1> DEFINE s == S!Reverse(Elements(a))
           z == Size(a)
           p == [j \in 1 .. MaxElements |-> IF j <= z THEN z + 1 - j ELSE j]
<1>1. /\ Idle /\ refers' = Filled(refers, a, s) /\ calls' = << >>
      /\ UNCHANGED <<program, below, kind, refCount, links, cursor, stack>>
      /\ UNCHANGED <<head, tail, next, prev>>
  BY DEF ReverseElements, ArrayMethod, Change, shape, Idle
<1>2. /\ a \in Objects /\ kind[a] = "array" /\ kind[a] \in HasCells
  BY ArraysFacts DEF HasCells
<1>3. /\ Elements(a) \in Seq(Object) /\ Len(Elements(a)) = z
      /\ \A j \in 1 .. z : Elements(a)[j] = refers[<<a, j>>]
      /\ \A j \in 1 .. MaxElements : refers[<<a, j>>] # Beyond <=> j <= z
      /\ z \in 0 .. MaxElements /\ MaxElements \in Nat
  BY <1>2, ElementsFacts
<1>4. Object \subseteq Referred /\ Beyond \notin Object /\ refers \in [Holders -> Referred]
  BY InvFacts DEF Referred
<1>5. DOMAIN s = 1 .. z /\ \A j \in 1 .. z : s[j] = Elements(a)[z - j + 1]
  BY <1>3 DEF S!Reverse
<1> HIDE DEF s
<1>6. \A j \in 1 .. z : s[j] = refers[<<a, z + 1 - j>>] /\ s[j] \in Object
  <2>1. ASSUME NEW j \in 1 .. z
        PROVE  s[j] = refers[<<a, z + 1 - j>>] /\ s[j] \in Object
    <3>1. z - j + 1 \in 1 .. z /\ z - j + 1 = z + 1 - j
      BY <1>3
    <3>2. s[j] = Elements(a)[z - j + 1] /\ Elements(a)[z - j + 1] \in Object
      BY <1>3, <1>5, <3>1
    <3>3. QED
      BY <1>3, <3>1, <3>2
  <2> HIDE DEF z
  <2>2. QED
    BY <2>1
<1> HIDE DEF z
<1>7. /\ refers' \in [Holders -> Referred] /\ SameBut(refers, refers', a)
      /\ \A j \in 1 .. MaxElements :
             /\ j \in DOMAIN s => refers'[<<a, j>>] = s[j]
             /\ j \notin DOMAIN s => refers'[<<a, j>>] = Beyond
  <2>1. \A j \in DOMAIN s : j \in 1 .. MaxElements => s[j] \in Referred
    BY <1>4, <1>5, <1>6
  <2>2. QED
    BY <1>1, <1>2, <2>1, ChangeFacts
<1>8. FirstInUse(a, z)
  <2>1. ASSUME NEW j \in 1 .. MaxElements
        PROVE  refers'[<<a, j>>] # Beyond <=> j <= z
    <3>1. j \in DOMAIN s <=> j <= z
      BY <1>3, <1>5
    <3>2. CASE j \in DOMAIN s
      BY <1>4, <1>5, <1>6, <1>7, <3>1, <3>2
    <3>3. CASE j \notin DOMAIN s
      BY <1>7, <3>1, <3>3
    <3>4. QED
      BY <3>2, <3>3
  <2>2. QED
    BY <2>1 DEF FirstInUse
<1>9. ArraysAreDense' /\ CursorsFit'
  <2>1. UNCHANGED <<kind, links, cursor>>
    BY <1>1
  <2>2. QED
    BY <1>2, <1>3, <1>7, <1>8, <2>1, ArrayAgain
<1>10. p \in [1 .. MaxElements -> 1 .. MaxElements] /\ Permutes(p, p)
  BY <1>3 DEF Permutes
<1>11. MovedBy(p, refers, refers', a)
  <2>1. ASSUME NEW j \in 1 .. MaxElements
        PROVE  refers'[<<a, p[j]>>] = refers[<<a, j>>]
    <3>1. CASE j <= z
      <4>1. p[j] = z + 1 - j /\ p[j] \in 1 .. z /\ p[j] \in 1 .. MaxElements /\ z + 1 - p[j] = j
        BY <1>3, <3>1
      <4>2. refers'[<<a, p[j]>>] = s[p[j]]
        BY <1>5, <1>7, <4>1
      <4>3. s[p[j]] = refers[<<a, z + 1 - p[j]>>]
        BY <1>6, <4>1
      <4>4. QED
        BY <4>1, <4>2, <4>3
    <3>2. CASE ~(j <= z)
      <4>1. p[j] = j /\ j \notin DOMAIN s
        BY <1>3, <1>5, <3>2
      <4>2. QED
        BY <1>3, <1>7, <3>2, <4>1
    <3>3. QED
      BY <3>1, <3>2
  <2>2. QED
    BY <2>1 DEF MovedBy
<1> HIDE DEF p
<1>12. \A o \in Objects : Count(refers', o) = Count(refers, o)
  BY <1>2, <1>4, <1>7, <1>10, <1>11, CellsPermuted
<1>13. Shifted(NoObject, NoObject)
  BY <1>12, SameCounts
<1>14. \A o \in Objects : ~Dying(o) /\ ~HandedBy(calls, o)
  BY <1>1, IdleFacts, NoLoops DEF Idle
<1>15. QED
  BY <1>1, <1>2, <1>7, <1>9, <1>13, <1>14, CellsRearrange

-----------------------------------------------------------------------------
(* Containers made of the elements of an array *)

\* A copy of a's elements is made.
LEMMA MakesOf ==
    ASSUME CollectionsInv, Idle, stack = NoObject, UNCHANGED <<program, below, calls, cursor>>,
           NEW a \in Arrays, NEW o \in FreeObjects, NEW what \in {"list", "array"},
           kind' = [kind EXCEPT ![o] = what], stack' = o,
           refCount' = [KeptAll(Elements(a)) EXCEPT ![o] = 0],
           PointersTypeOK', OwnersOnly', ArraysAreDense', links' \in SUBSET Links,
           refers' \in [Holders -> Referred], \A h \in Holders \ Cells : refers'[h] # Beyond,
           \A p \in Objects : refers'[p] = refers[p],
           \A p \in Objects \ {o} : Used(p)' = Used(p),
           NEW f \in [1 .. Size(a) -> Holders], Fills(refers, refers', f, Size(a), Elements(a))
    PROVE  CollectionsInv'
<1> DEFINE m == Size(a)
           s == Elements(a)
<1>1. /\ o \in Objects /\ kind[o] = "free" /\ refCount[o] = 0 /\ refers[o] = NoObject
      /\ Used(o) = {} /\ \A h \in Holders : refers[h] # o
  BY FreeFacts
<1>2. /\ a \in Objects /\ a # o /\ m \in Nat
      /\ \A i \in 1 .. m : s[i] = refers[<<a, i>>] /\ i \in Used(a)
      /\ DOMAIN s = 1 .. m
  BY <1>1, ArraysFacts DEF Elements
<1>3. f \in [1 .. m -> Holders] /\ Fills(refers, refers', f, m, s) /\ refCount' = [KeptAll(s) EXCEPT ![o] = 0]
  OBVIOUS
<1> HIDE DEF m, s
<1> DEFINE got(p) == Cardinality({i \in 1 .. m : s[i] = p})
<1>4. \A i \in 1 .. m : <<a, i>> \in Holders /\ s[i] # Beyond /\ s[i] # o
  BY <1>1, <1>2, UsedCells
<1>5. \A p \in Objects : got(p) \in Nat
  <2>1. IsFiniteSet(1 .. m)
    BY <1>2, FS_Interval
  <2>2. \A p : IsFiniteSet({i \in 1 .. m : s[i] = p})
    BY <2>1, FS_Subset
  <2>3. QED
    BY <2>2, FS_CardinalityType
<1>6. \A p \in Objects : (\A i \in 1 .. m : s[i] # p) => got(p) = 0
  <2> SUFFICES ASSUME NEW p \in Objects, \A i \in 1 .. m : s[i] # p PROVE got(p) = 0
    OBVIOUS
  <2>1. {i \in 1 .. m : s[i] = p} = {}
    OBVIOUS
  <2>2. QED
    BY <2>1, FS_EmptySet
<1>7. \A p \in Objects : Count(refers', p) = Count(refers, p) + got(p)
  <2> SUFFICES ASSUME NEW p \in Objects
               PROVE  Count(refers', p) = Count(refers, p) + got(p)
    OBVIOUS
  <2>1. Gains(refers, refers', m, s, p)
    BY <1>2, <1>3, CountAdded
  <2>2. QED
    BY <2>1 DEF Gains
<1>8. \A p \in Objects : refCount'[p] = IF p = o THEN 0 ELSE refCount[p] + got(p)
  <2>1. KeptAll(s) = [p \in Objects |-> refCount[p] + got(p)]
    BY <1>2 DEF KeptAll
  <2>2. QED
    BY <1>1, <1>3, <2>1
<1>9. \A p \in Objects : Count(refers, p) \in Nat /\ refCount[p] = Count(refers, p)
  BY CountType, InvFacts DEF CountsMatch, HoldersOf, Count
<1>20. \A p \in Objects \ {o} : refCount'[p] > 0 <=> refCount[p] > 0
  <2> SUFFICES ASSUME NEW p \in Objects \ {o} PROVE refCount'[p] > 0 <=> refCount[p] > 0
    OBVIOUS
  <2>1. CASE \E i \in 1 .. m : s[i] = p
    <3>1. PICK i \in 1 .. m : s[i] = p
      BY <2>1
    <3>2. <<a, i>> \in Holders /\ refers[<<a, i>>] = p /\ p # Beyond
      BY <1>2, <1>4, <3>1
    <3>3. refCount[p] > 0
      BY <3>2, HeldFacts
    <3>4. refCount'[p] = refCount[p] + got(p) /\ got(p) \in Nat /\ refCount[p] \in Nat
      BY <1>5, <1>8, InvFacts
    <3> HIDE DEF got
    <3>5. QED
      BY <3>3, <3>4
  <2>2. CASE \A i \in 1 .. m : s[i] # p
    <3>1. got(p) = 0 /\ refCount'[p] = refCount[p] + got(p) /\ refCount[p] \in Nat
      BY <1>6, <1>8, <2>2, InvFacts
    <3> HIDE DEF got
    <3>2. QED
      BY <3>1
  <2>3. QED
    BY <2>1, <2>2
<1> HIDE DEF got
<1>21. refCount' \in [Objects -> Nat] /\ refCount'[o] = 0
  <2>1. \A p \in Objects : refCount'[p] \in Nat
    BY <1>5, <1>8, InvFacts
  <2>2. refCount' = [p \in Objects |-> refCount'[p]]
    BY <1>3 DEF KeptAll
  <2>3. QED
    BY <1>1, <1>8, <2>1, <2>2
<1>22. CountsMatch'
  <2>1. \A p \in Objects : refCount'[p] = Count(refers', p)
    <3>1. got(o) = 0 /\ refCount[o] = 0
      BY <1>1, <1>4, <1>6
    <3>2. QED
      BY <1>1, <1>7, <1>8, <1>9, <3>1
  <2>2. QED
    BY <2>1 DEF CountsMatch, HoldersOf, Count
<1>10. kind'[o] = what /\ \A p \in Objects \ {o} : kind'[p] = kind[p]
  BY <1>1, InvFacts
<1>11. what \notin Iterators /\ what \in Kinds \ {"free", "lost"}
  BY DEF Iterators, Kinds, Containers
<1>12. \A i \in Objects : refers[i] # NoObject => refers[i] \in Objects \ {o} /\ i # o
  BY <1>1, ParentHeld, CellFacts
<1>13. CursorsFit'
  <2>1. ASSUME NEW i \in Objects
        PROVE  /\ kind'[i] = "iter" => cursor[i] \in Link
               /\ kind'[i] = "arrayIter" => cursor[i] \in 1 .. MaxElements + 1
               /\ kind'[i] = "intMapIter" /\ refers[i] # NoObject =>
                      cursor[i] \in Used(refers[i]) \cup {End}
    BY <1>10, <1>11 DEF CollectionsInv, CursorsFit, Iterators
  <2>2. ASSUME NEW i \in Objects, refers[i] # NoObject
        PROVE  Used(refers[i])' = Used(refers[i])
    <3>1. refers[i] \in Objects \ {o} /\ refers'[i] = refers[i]
      BY <1>12, <2>2
    <3>2. \A p \in Objects \ {o} : Used(p)' = Used(p)
      OBVIOUS
    <3>3. {n \in 1 .. MaxElements : refers'[<<refers[i], n>>] # Beyond} = Used(refers[i])
      BY <3>1, <3>2 DEF Used
    <3>4. QED
      BY <3>1, <3>3 DEF Used
  <2>3. QED
    BY <2>1, <2>2 DEF CursorsFit
<1>14. \A p \in Objects : ~Dying(p) /\ ~HandedBy(calls, p)
  BY IdleFacts, NoLoops DEF Idle
<1>15. calls' \in Seq(Loop) /\ \A p \in Objects : ~Dying(p)' /\ (InHand(p)' <=> p = o)
  <2>1. calls' = << >> /\ stack' = o
    BY DEF Idle
  <2>2. \A p : ~DyingIn(calls', p) /\ ~HandedBy(calls', p)
    BY <2>1, NoLoops
  <2>3. QED
    BY <2>1, <2>2, DyingAndInHand
<1>16. ParentsFit'
  <2>1. ASSUME NEW i \in Objects, kind'[i] \in Iterators
        PROVE  refers[i] # NoObject /\ kind'[refers[i]] = ParentKind(kind'[i])
    <3>1. i # o /\ kind'[i] = kind[i]
      BY <1>10, <1>11, <2>1
    <3>2. refers[i] # NoObject
      BY <1>14, <2>1, <3>1 DEF CollectionsInv, ParentsFit
    <3>3. QED
      BY <1>10, <1>12, <3>1, <3>2, ParentHeld
  <2>2. QED
    BY <2>1 DEF ParentsFit
<1>17. LoopsFit'
  BY DEF LoopsFit, Idle
<1>18. Safe(stack) /\ stack' \in Object
  BY <1>1 DEF Safe, Object
<1>19. QED
  BY <1>1, <1>20, <1>21, <1>22, <1>10, <1>11, <1>13, <1>14, <1>15, <1>16, <1>17, <1>18, MakeStep

LEMMA ArrayCloneInv ==
    ASSUME CollectionsInv, NEW a \in Arrays, NEW o \in Objects, ArrayClone(a, o), UNCHANGED <<program, below>>
    PROVE  CollectionsInv'
<1> DEFINE m == Size(a)
           s == Elements(a)
<1>1. /\ Idle /\ stack = NoObject /\ o \in FreeObjects /\ stack' = o
      /\ kind' = [kind EXCEPT ![o] = "array"]
      /\ refCount' = [KeptAll(Elements(a)) EXCEPT ![o] = 0] /\ refers' = Filled(refers, o, s)
      /\ UNCHANGED <<program, below, calls, cursor>> /\ UNCHANGED <<head, tail, links, next, prev>>
  BY DEF ArrayClone, ArrayMethod, Change, shape
<1>2. /\ o \in Objects /\ kind[o] = "free" /\ refers[o] = NoObject /\ Used(o) = {}
      /\ \A h \in Holders : refers[h] # o
  BY <1>1, FreeFacts
<1>3. /\ a \in Objects /\ m \in 0 .. MaxElements
      /\ s \in Seq(Object) /\ Len(s) = m
      /\ \A j \in 1 .. m : s[j] = refers[<<a, j>>]
  BY ElementsFacts, ArraysFacts, UsedFacts
<1> HIDE DEF m, s
<1>4. DOMAIN s = 1 .. m /\ \A j \in 1 .. m : s[j] \in Object /\ j \in 1 .. MaxElements
  BY <1>3, ListsAssumption
<1>5. Object \subseteq Referred /\ Beyond \notin Object /\ refers \in [Holders -> Referred]
  BY InvFacts DEF Referred
<1>6. /\ refers' \in [Holders -> Referred] /\ SameBut(refers, refers', o)
      /\ HoldsIn(refers', o, s)
  BY <1>1, <1>2, <1>4, <1>5, FilledFacts
<1>7. \A n \in 1 .. MaxElements : refers'[<<o, n>>] # Beyond <=> n <= m
  <2> SUFFICES ASSUME NEW n \in 1 .. MaxElements
               PROVE  refers'[<<o, n>>] # Beyond <=> n <= m
    OBVIOUS
  <2>1. CASE n \in 1 .. m
    BY <1>4, <1>5, <1>6, <2>1 DEF HoldsIn
  <2>2. CASE n \notin 1 .. m
    <3>1. ~(n <= m)
      BY <1>3, <2>2
    <3>2. QED
      BY <1>4, <1>6, <2>2, <3>1 DEF HoldsIn
  <2>3. QED
    BY <2>1, <2>2
<1>8. /\ \A h \in Holders \ Cells : refers'[h] = refers[h] /\ refers'[h] # Beyond
      /\ \A p \in Objects : p \in Holders \ Cells
      /\ \A k \in Links : k \in Holders \ Cells
  BY <1>6, CellFacts, InvFacts DEF SameBut, CollectionsInv, HeapTypeOK
<1>9. \A p \in Objects \ {o} : Used(p)' = Used(p)
  BY <1>6 DEF SameBut, Used
<1>10. Used(o)' = 1 .. m /\ Size(o)' = m
  <2>1. Used(o)' = 1 .. m
    BY <1>3, <1>7, ListsAssumption DEF Used
  <2>2. Cardinality(1 .. m) = m
    BY <1>3, FS_Interval
  <2>3. Size(o)' = Cardinality(Used(o)')
    BY DEF Size
  <2>4. QED
    BY <2>1, <2>2, <2>3
<1>11. kind'[o] = "array" /\ \A p \in Objects \ {o} : kind'[p] = kind[p]
  BY <1>1, <1>2, InvFacts
<1>12. ArraysAreDense'
  <2>1. ASSUME NEW p \in Objects, kind'[p] = "array" PROVE Used(p)' = 1 .. Size(p)'
    <3>1. CASE p = o
      BY <1>10, <3>1
    <3>2. CASE p # o
      <4>1. Used(p) = 1 .. Size(p)
        BY <1>11, <2>1, <3>2 DEF CollectionsInv, ArraysAreDense
      <4>2. QED
        BY <1>9, <3>2, <4>1 DEF Size
    <3>3. QED
      BY <3>1, <3>2
  <2>2. QED
    BY <2>1 DEF ArraysAreDense
<1>13. OwnersOnly'
  <2>1. \A p \in Objects : kind'[p] \notin Iterators => refers'[p] = NoObject
    BY <1>2, <1>8, <1>11, InvFacts DEF OwnersOnly
  <2>2. \A p \in Objects : kind'[p] \notin HasCells => Used(p)' = {}
    BY <1>9, <1>11, InvFacts DEF OwnersOnly, HasCells
  <2>3. \A k \in Links \ links' : refers'[k] = NoObject
    BY <1>1, <1>8, InvFacts DEF OwnersOnly
  <2>4. QED
    BY <2>1, <2>2, <2>3 DEF OwnersOnly
<1>14. PointersTypeOK' /\ links' \in SUBSET Links
  BY <1>1, InvFacts DEF PointersTypeOK
<1> DEFINE f == [i \in 1 .. m |-> <<o, i>>]
<1>15. f \in [1 .. m -> Holders] /\ \A i \in 1 .. m : f[i] = <<o, i>>
  BY <1>2, <1>4, CellFacts
<1> HIDE DEF f
<1>16. Fills(refers, refers', f, m, s)
  <2>1. \A i, j \in 1 .. m : f[i] = f[j] => i = j
    BY <1>15
  <2>2. ASSUME NEW i \in 1 .. m PROVE refers[f[i]] \notin Objects /\ refers'[f[i]] = s[i]
    <3>1. refers[<<o, i>>] = Beyond
      BY <1>2, <1>4 DEF Used
    <3>2. QED
      BY <1>4, <1>6, <1>15, <3>1, ListsAssumption DEF HoldsIn
  <2>3. ASSUME NEW h \in Holders, \A i \in 1 .. m : f[i] # h PROVE refers'[h] = refers[h]
    <3>1. CASE h \notin Cells
      BY <1>8, <3>1
    <3>2. ASSUME NEW b \in Objects, NEW n \in 1 .. MaxElements, h = <<b, n>>
          PROVE  refers'[h] = refers[h]
      <4>1. CASE b # o
        BY <1>6, <3>2, <4>1 DEF SameBut
      <4>2. CASE b = o
        <5>1. n \notin 1 .. m
          BY <1>15, <2>3, <3>2, <4>2
        <5>2. refers'[h] = Beyond
          BY <1>4, <1>6, <3>2, <4>2, <5>1 DEF HoldsIn
        <5>3. refers[h] = Beyond
          BY <1>2, <3>2, <4>2 DEF Used
        <5>4. QED
          BY <5>2, <5>3
      <4>3. QED
        BY <4>1, <4>2
    <3>3. QED
      BY <3>1, <3>2, CellFacts
  <2>4. QED
    BY <2>1, <2>2, <2>3 DEF Fills
<1>17. "array" \in {"list", "array"} /\ \A p \in Objects : refers'[p] = refers[p]
  BY <1>8
<1>18. f \in [1 .. Size(a) -> Holders] /\ Fills(refers, refers', f, Size(a), Elements(a))
  BY <1>15, <1>16 DEF m, s
<1>19. \A h \in Holders \ Cells : refers'[h] # Beyond
  BY <1>8
<1>20. QED
  BY <1>1, <1>6, <1>9, <1>12, <1>13, <1>14, <1>17, <1>18, <1>19, MakesOf

\* The links ks of a new list, one for each element of a.
LEMMA NewLinksFacts ==
    ASSUME CollectionsInv, NEW m \in Nat, NEW ks \in NewLinks(m)
    PROVE  /\ \A i \in 1 .. m : ks[i] \in Links /\ ks[i] \notin links
           /\ \A i, j \in 1 .. m : ks[i] = ks[j] => i = j
           /\ DOMAIN ks = 1 .. m /\ ks \in [1 .. m -> Links]
<1>1. ks \in [1 .. m -> FreeLinks] /\ \A i, j \in 1 .. m : ks[i] = ks[j] => i = j
  BY DEF NewLinks
<1>2. FreeLinks \subseteq Links \ links
  BY DEF FreeLinks
<1>3. QED
  BY <1>1, <1>2

\* What toList does, with names for its parts.
ListMade(a, o, ks, m, s) ==
    /\ refers' = [h \in Holders |-> IF h \in {ks[n] : n \in 1 .. m}
                                    THEN s[CHOOSE n \in 1 .. m : ks[n] = h] ELSE refers[h]]
    /\ \A k \in Links : next'[k] \in Link /\ prev'[k] \in Link
    /\ next' = [k \in Links |-> next'[k]] /\ prev' = [k \in Links |-> prev'[k]]
    /\ \E p, q \in Link : head' = [head EXCEPT ![o] = p] /\ tail' = [tail EXCEPT ![o] = q]
    /\ links' = links \cup {ks[n] : n \in 1 .. m}

LEMMA ToListFacts ==
    ASSUME CollectionsInv, NEW a \in Arrays, NEW o \in Objects, NEW ks \in NewLinks(Size(a)),
           ToList(a, o, ks)
    PROVE  ListMade(a, o, ks, Size(a), Elements(a))
<1> DEFINE m == Size(a)
           s == Elements(a)
           made == {ks[n] : n \in 1 .. m}
           At(n) == IF n \in 1 .. m THEN ks[n] ELSE NoLink
           Nth(k) == CHOOSE n \in 1 .. m : ks[n] = k
<1>1. /\ links' = links \cup made
      /\ refers' = [h \in Holders |-> IF h \in made THEN s[Nth(h)] ELSE refers[h]]
      /\ next' = [k \in Links |-> IF k \in made THEN At(Nth(k) + 1) ELSE next[k]]
      /\ prev' = [k \in Links |-> IF k \in made THEN At(Nth(k) - 1) ELSE prev[k]]
      /\ head' = [head EXCEPT ![o] = At(1)] /\ tail' = [tail EXCEPT ![o] = At(m)]
  BY DEF ToList
<1>2. m \in Nat
  BY ArraysFacts
<1>3. \A n : At(n) \in Link
  BY <1>2, NewLinksFacts DEF Link
<1>4. next \in [Links -> Link] /\ prev \in [Links -> Link]
  BY InvFacts DEF PointersTypeOK
<1> HIDE DEF At
<1>5. \A k \in Links : next'[k] \in Link /\ prev'[k] \in Link
  BY <1>1, <1>3, <1>4
<1>6. next' = [k \in Links |-> next'[k]] /\ prev' = [k \in Links |-> prev'[k]]
  BY <1>1
<1>7. QED
  BY <1>1, <1>3, <1>5, <1>6 DEF ListMade

LEMMA ToListInv ==
    ASSUME CollectionsInv, NEW a \in Arrays, NEW o \in Objects, NEW ks \in NewLinks(Size(a)),
           ToList(a, o, ks), UNCHANGED <<program, below>>
    PROVE  CollectionsInv'
<1> DEFINE m == Size(a)
           s == Elements(a)
<1>1. /\ Idle /\ stack = NoObject /\ o \in FreeObjects /\ stack' = o
      /\ kind' = [kind EXCEPT ![o] = "list"]
      /\ refCount' = [KeptAll(s) EXCEPT ![o] = 0]
      /\ UNCHANGED <<program, below, calls, cursor>>
  BY DEF ToList, ArrayMethod
<1>2. ListMade(a, o, ks, m, s)
  BY ToListFacts
<1>3. /\ m \in Nat
      /\ \A i \in 1 .. m : ks[i] \in Links /\ ks[i] \notin links
      /\ \A i, j \in 1 .. m : ks[i] = ks[j] => i = j
      /\ ks \in [1 .. m -> Links]
  <2>1. m \in Nat
    BY ArraysFacts
  <2>2. QED
    BY <2>1, NewLinksFacts
<1>4. \A i \in 1 .. m : s[i] \in Object
  BY ArraysFacts, ElementsFacts
<1>5. /\ o \in Objects /\ kind[o] = "free" /\ refers[o] = NoObject /\ Used(o) = {}
      /\ \A h \in Holders : refers[h] # o
  BY <1>1, FreeFacts
<1> HIDE DEF m, s
<1>6. /\ \A i \in 1 .. m : refers'[ks[i]] = s[i]
      /\ \A h \in Holders : (\A i \in 1 .. m : ks[i] # h) => refers'[h] = refers[h]
  <2>1. refers' = [h \in Holders |-> IF h \in {ks[n] : n \in 1 .. m}
                                     THEN s[CHOOSE n \in 1 .. m : ks[n] = h] ELSE refers[h]]
    BY <1>2 DEF ListMade
  <2>2. ASSUME NEW i \in 1 .. m PROVE refers'[ks[i]] = s[i]
    <3>1. ks[i] \in Holders /\ ks[i] \in {ks[n] : n \in 1 .. m}
      BY <1>3, CellFacts
    <3>2. (CHOOSE n \in 1 .. m : ks[n] = ks[i]) = i
      BY <1>3
    <3>3. QED
      BY <2>1, <3>1, <3>2
  <2>3. ASSUME NEW h \in Holders, \A i \in 1 .. m : ks[i] # h PROVE refers'[h] = refers[h]
    BY <2>1, <2>3
  <2>4. QED
    BY <2>2, <2>3
<1>7. /\ \A p \in Objects : refers'[p] = refers[p]
      /\ \A h \in Cells : refers'[h] = refers[h]
      /\ \A v \in Vars : refers'[v] = refers[v]
  BY <1>3, <1>6, CellFacts, ListsAssumption
<1>8. \A h \in Holders : refers'[h] = refers[h] \/ (h \in Links /\ refers'[h] \in Object)
  BY <1>3, <1>4, <1>6
<1>9. refers' \in [Holders -> Referred] /\ \A h \in Holders \ Cells : refers'[h] # Beyond
  <2>1. \A h \in Holders : refers'[h] \in Referred
    BY <1>8, InvFacts DEF Referred
  <2>2. refers' = [h \in Holders |-> refers'[h]]
    BY <1>2 DEF ListMade
  <2>3. \A h \in Holders \ Cells : refers'[h] # Beyond
    BY <1>8, InvFacts DEF CollectionsInv, HeapTypeOK
  <2>4. QED
    BY <2>1, <2>2, <2>3
<1>10. \A p \in Objects : Used(p)' = Used(p) /\ Size(p)' = Size(p)
  <2>1. \A p \in Objects : Used(p)' = Used(p)
    BY <1>7, CellFacts DEF Used
  <2>2. QED
    BY <2>1 DEF Size
<1>11. kind'[o] = "list" /\ \A p \in Objects \ {o} : kind'[p] = kind[p]
  BY <1>1, <1>5, InvFacts
<1>12. ArraysAreDense'
  <2>1. \A p \in Objects : kind'[p] = "array" => kind[p] = "array"
    BY <1>11
  <2>2. QED
    BY <1>10, <2>1 DEF CollectionsInv, ArraysAreDense
<1>13. OwnersOnly'
  <2>1. \A p \in Objects : kind'[p] \notin Iterators => refers'[p] = NoObject
    BY <1>5, <1>7, <1>11, InvFacts DEF OwnersOnly
  <2>2. \A p \in Objects : kind'[p] \notin HasCells => Used(p)' = {}
    BY <1>5, <1>10, <1>11, InvFacts DEF OwnersOnly
  <2>3. \A k \in Links \ links' : refers'[k] = NoObject
    <3>1. links' = links \cup {ks[n] : n \in 1 .. m}
      BY <1>2 DEF ListMade
    <3>2. \A k \in Links \ links' : k \in Holders /\ \A i \in 1 .. m : ks[i] # k
      BY <3>1, CellFacts
    <3>3. QED
      BY <1>6, <3>1, <3>2, InvFacts DEF OwnersOnly
  <2>4. QED
    BY <2>1, <2>2, <2>3 DEF OwnersOnly
<1>14. links' \in SUBSET Links
  BY <1>2, <1>3, InvFacts DEF ListMade
<1>15. PointersTypeOK'
  <2>1. \A k \in Links : next'[k] \in Link /\ prev'[k] \in Link
    BY <1>2 DEF ListMade
  <2>2. next' = [k \in Links |-> next'[k]] /\ prev' = [k \in Links |-> prev'[k]]
    BY <1>2 DEF ListMade
  <2>3. PICK p, q \in Link : head' = [head EXCEPT ![o] = p] /\ tail' = [tail EXCEPT ![o] = q]
    BY <1>2 DEF ListMade
  <2>4. head' \in [Objects -> Link] /\ tail' \in [Objects -> Link]
    BY <2>3, InvFacts DEF PointersTypeOK
  <2>5. next' \in [Links -> Link] /\ prev' \in [Links -> Link]
    BY <2>1, <2>2
  <2>6. cursor' \in [Objects -> Link \cup Nat]
    BY <1>1, InvFacts DEF PointersTypeOK
  <2>7. QED
    BY <2>4, <2>5, <2>6 DEF PointersTypeOK
<1>16. ks \in [1 .. m -> Holders] /\ Fills(refers, refers', ks, m, s)
  <2>1. \A i \in 1 .. m : refers[ks[i]] \notin Objects /\ refers'[ks[i]] = s[i]
    BY <1>3, <1>6, InvFacts DEF OwnersOnly
  <2>2. QED
    BY <1>3, <1>6, <2>1, CellFacts DEF Fills
<1>17. /\ ks \in [1 .. Size(a) -> Holders] /\ Fills(refers, refers', ks, Size(a), Elements(a))
       /\ refCount' = [KeptAll(Elements(a)) EXCEPT ![o] = 0]
  BY <1>1, <1>16 DEF m, s
<1>18. "list" \in {"list", "array"} /\ \A p \in Objects \ {o} : Used(p)' = Used(p)
  BY <1>10
<1>19. /\ Idle /\ stack = NoObject /\ UNCHANGED <<program, below, calls, cursor>> /\ o \in FreeObjects
       /\ kind' = [kind EXCEPT ![o] = "list"] /\ stack' = o
       /\ \A p \in Objects : refers'[p] = refers[p]
  BY <1>1, <1>7
<1>20. QED
  BY <1>9, <1>12, <1>13, <1>14, <1>15, <1>17, <1>18, <1>19, MakesOf

=============================================================================
