------------------------- MODULE VocabulariesProofs -------------------------
(***************************************************************************)
(* What TLAPS proves about Vocabularies, for any number of words, names    *)
(* and vocabularies, of programs that do not alias a word into a           *)
(* vocabulary with newer ones: forgetting a word takes away exactly what   *)
(* is newer, in the vocabularies, in the search order and in the list of   *)
(* loaded files.                                                           *)
(***************************************************************************)
EXTENDS Vocabularies, SequenceTheorems, WellFoundedInduction, TLAPS

Ops == [at : Nat, voc : Vocs \cup {NoVoc}]

\* The units of which an operation has at least so many.
Size(o) == IF ops[o].voc = NoVoc THEN 0 ELSE 4

\* Newer operations lie behind older ones.
OpsInOrder ==
    /\ \A o, p \in DOMAIN ops : o < p => ops[o].at + Size(o) <= ops[p].at
    /\ \A o \in DOMAIN ops : ops[o].at + Size(o) <= dp

\* Newer symbols are for newer operations, and only for those there are.
SymbolsInOrder ==
    \A v \in Vocs : \A i \in 1..Len(entries[v]) :
        /\ entries[v][i].kind # "op" => entries[v][i].op = 0
        /\ entries[v][i].kind = "op" => /\ entries[v][i].op \in 1..Len(ops)
                                        /\ \A j \in 1..i : entries[v][j].op <= entries[v][i].op

\* An operation has a symbol in a vocabulary that is not newer.
OpsHaveSymbols ==
    \A o \in DOMAIN ops : \E v \in live : \E i \in 1..Len(entries[v]) :
        /\ entries[v][i].kind = "op" /\ entries[v][i].op = o
        /\ limit[v] <= ops[o].at

\* A vocabulary with a name begins one cell behind its name, one without
\* lies before everything.
NamesBeforeVocabularies ==
    /\ VocabularyWordsWork
    /\ \A o \in DOMAIN ops : ops[o].voc # NoVoc => limit[ops[o].voc] = ops[o].at + Cell
    /\ \A v \in {Forth, Root} : v \in live /\ limit[v] = 0
    /\ \A v \in Vocs : v \notin live => entries[v] = <<>> /\ limit[v] = 0

\* A file begins behind what it was loaded upon, and where its first operation
\* does if that is at its start.
FileInOrder(i) ==
    /\ loaded[i].start <= dp
    /\ \A j \in 1..i : loaded[j].start <= loaded[i].start
    /\ loaded[i].first <= NewOp
    /\ \A o \in 1..Len(ops) : o < loaded[i].first => ops[o].at <= loaded[i].start
    /\ loaded[i].atStart => /\ loaded[i].first \in 1..Len(ops)
                            /\ ops[loaded[i].first].at = loaded[i].start

FilesInOrder == \A i \in 1..Len(loaded) : FileInOrder(i)

IInv ==
    /\ VocTypeOK
    /\ OpsInOrder
    /\ SymbolsInOrder
    /\ OpsHaveSymbols
    /\ NamesBeforeVocabularies
    /\ SearchOrderIsLive
    /\ FilesInOrder

-----------------------------------------------------------------------------
(* Symbols *)

LEMMA SmallestExists ==
  ASSUME NEW T \in SUBSET Nat, T # {}
  PROVE  \E x \in T : \A y \in T : x <= y
<1> DEFINE R == OpToRel(<, Nat)
<1>1. IsWellFoundedOn(R, Nat)
  BY NatLessThanWellFounded
<1>2. PICK x \in T : \A y \in T : ~ (<<y, x>> \in R)
  <2> HIDE DEF R
  <2>1. QED
    BY <1>1, WFMin
<1>3. \A y \in T : ~(y < x)
  BY <1>2 DEF OpToRel
<1>4. QED
  BY <1>3

LEMMA OpTypes ==
  ASSUME VocTypeOK
  PROVE  /\ Len(ops) \in Nat /\ DOMAIN ops = 1..Len(ops)
         /\ \A o \in 1..Len(ops) : ops[o] \in Ops
<1>1. ops \in Seq(Ops)
  BY DEF VocTypeOK, Ops
<1>2. QED
  BY <1>1

LEMMA SymbolTypes ==
  ASSUME VocTypeOK, NEW v \in Vocs
  PROVE  /\ entries[v] \in Seq(Entries) /\ Len(entries[v]) \in Nat
         /\ DOMAIN entries[v] = 1..Len(entries[v])
         /\ \A i \in 1..Len(entries[v]) : entries[v][i] \in Entries
<1>1. entries[v] \in Seq(Entries)
  BY DEF VocTypeOK
<1>2. QED
  BY <1>1

LEMMA FileTypes ==
  ASSUME VocTypeOK
  PROVE  /\ Len(loaded) \in Nat /\ DOMAIN loaded = 1..Len(loaded)
         /\ \A i \in 1..Len(loaded) : loaded[i].start \in Nat /\ loaded[i].first \in Nat
<1>1. loaded \in Seq(Files)
  BY DEF VocTypeOK
<1>2. Len(loaded) \in Nat /\ DOMAIN loaded = 1..Len(loaded) /\ \A i \in 1..Len(loaded) : loaded[i] \in Files
  BY <1>1
<1>3. QED
  BY <1>2 DEF Files

\* There is nothing to change at a place a sequence does not have.
LEMMA ExceptOutside ==
  ASSUME NEW S, NEW s \in Seq(S), NEW k, k \notin DOMAIN s, NEW e
  PROVE  [s EXCEPT ![k] = e] = s
<1>1. s = [i \in DOMAIN s |-> s[i]]
  OBVIOUS
<1>2. [s EXCEPT ![k] = e] = [i \in DOMAIN s |-> s[i]]
  <2>1. \A i \in DOMAIN s : i # k
    OBVIOUS
  <2>2. QED
    BY <2>1
<1>3. QED
  BY <1>1, <1>2

\* The newest symbol of a name is one of the symbols.
LEMMA NewestIsSymbol ==
  ASSUME VocTypeOK, NEW v \in Vocs, NEW n, Newest(v, n) # 0
  PROVE  Newest(v, n) \in 1..Len(entries[v])
<1> DEFINE found == {i \in 1..Len(entries[v]) : entries[v][i].name = n /\ ~entries[v][i].smudged}
           behind == {Len(entries[v]) - i : i \in found}
<1>1. Len(entries[v]) \in Nat
  BY SymbolTypes
<1>2. found # {}
  BY DEF Newest
<1>3. behind \in SUBSET Nat /\ behind # {}
  <2>1. \A i \in found : Len(entries[v]) - i \in Nat
    BY <1>1
  <2>2. QED
    BY <1>2, <2>1
<1>4. PICK b \in behind : \A c \in behind : b <= c
  BY <1>3, SmallestExists
<1>5. \E i \in found : \A j \in found : j <= i
  <2>1. PICK i \in found : b = Len(entries[v]) - i
    BY <1>4
  <2>2. ASSUME NEW j \in found
        PROVE  j <= i
    <3>1. Len(entries[v]) - j \in behind
      OBVIOUS
    <3>2. b <= Len(entries[v]) - j
      BY <1>4, <3>1
    <3>3. QED
      BY <1>1, <2>1, <3>2
  <2>3. QED
    BY <2>2
<1>6. Newest(v, n) = CHOOSE i \in found : \A j \in found : j <= i
  BY <1>2 DEF Newest
<1>7. QED
  BY <1>5, <1>6

\* What is found is a symbol of a vocabulary that is live.
LEMMA FoundIsLive ==
  ASSUME IInv, NEW n, NEW i \in 0..Len(order), FoundAt(n, i)
  PROVE  \E v \in live : \E k \in 1..Len(entries[v]) : SymbolAt(n, i) = entries[v][k]
<1>1. Place(i) \in live
  BY DEF IInv, VocTypeOK, SearchOrderIsLive, NamesBeforeVocabularies, Place
<1>2. Newest(Place(i), n) \in 1..Len(entries[Place(i)])
  BY <1>1, NewestIsSymbol DEF IInv, VocTypeOK, FoundAt
<1>3. QED
  BY <1>1, <1>2 DEF SymbolAt

\* The symbols that Vocabulary::ForgetOp leaves are the oldest ones.
LEMMA CutIsPrefix ==
  ASSUME NEW es \in Seq(Entries), NEW f \in Nat
  PROVE  \E k \in 0..Len(es) :
            /\ Cut(es, f) = SubSeq(es, 1, k)
            /\ \A i \in 1..k : i \notin Forgotten(es, f)
            /\ k < Len(es) => k + 1 \in Forgotten(es, f)
<1>1. Len(es) \in Nat /\ DOMAIN es = 1..Len(es)
  OBVIOUS
<1>2. CASE Forgotten(es, f) = {}
  <2>1. Cut(es, f) = SubSeq(es, 1, Len(es))
    BY <1>2, SubSeqFull DEF Cut
  <2>2. /\ Len(es) \in 0..Len(es) /\ ~(Len(es) < Len(es))
        /\ \A i \in 1..Len(es) : i \notin Forgotten(es, f)
    BY <1>1, <1>2
  <2>3. QED
    BY <2>1, <2>2, Zenon
<1>3. CASE Forgotten(es, f) # {}
  <2>1. Forgotten(es, f) \in SUBSET (1..Len(es))
    BY <1>1 DEF Forgotten
  <2>2. \E i \in Forgotten(es, f) : \A j \in Forgotten(es, f) : i <= j
    <3>1. Forgotten(es, f) \in SUBSET Nat
      BY <2>1
    <3>2. QED
      BY <1>3, <3>1, SmallestExists
  <2> DEFINE last == CHOOSE i \in Forgotten(es, f) : \A j \in Forgotten(es, f) : i <= j
  <2>3. last \in Forgotten(es, f) /\ \A j \in Forgotten(es, f) : last <= j
    BY <2>2
  <2>4. Cut(es, f) = SubSeq(es, 1, last - 1)
    BY <1>3 DEF Cut
  <2>5. last - 1 \in 0..Len(es) /\ last - 1 + 1 = last
    BY <1>1, <2>1, <2>3
  <2>6. \A i \in 1..(last - 1) : i \notin Forgotten(es, f)
    BY <2>1, <2>3
  <2> HIDE DEF last
  <2>7. QED
    BY <2>3, <2>4, <2>5, <2>6
<1>4. QED
  BY <1>2, <1>3

\* In a vocabulary whose symbols are in order, exactly the older ones stay.
LEMMA CutIsExact ==
  ASSUME NEW es \in Seq(Entries), NEW f \in Nat,
         \A i \in 1..Len(es) : es[i].kind = "op" => \A j \in 1..i : es[j].op <= es[i].op
  PROVE  /\ Cut(es, f) \in Seq(Entries) /\ Len(Cut(es, f)) \in 0..Len(es)
         /\ \A i \in 1..Len(Cut(es, f)) :
                Cut(es, f)[i] = es[i] /\ (es[i].kind = "op" => es[i].op < f)
         /\ \A i \in 1..Len(es) :
                es[i].kind = "op" /\ es[i].op < f => i \in 1..Len(Cut(es, f))
<1>1. PICK k \in 0..Len(es) :
            /\ Cut(es, f) = SubSeq(es, 1, k)
            /\ \A i \in 1..k : i \notin Forgotten(es, f)
            /\ k < Len(es) => k + 1 \in Forgotten(es, f)
  BY CutIsPrefix
<1>2. Len(es) \in Nat /\ DOMAIN es = 1..Len(es) /\ \A i \in 1..Len(es) : es[i] \in Entries
  OBVIOUS
<1>3. /\ SubSeq(es, 1, k) \in Seq(Entries) /\ Len(SubSeq(es, 1, k)) = k
      /\ \A i \in 1..k : SubSeq(es, 1, k)[i] = es[i]
  BY <1>2, SubSeqProperties
<1>4. ASSUME NEW i \in 1..k, es[i].kind = "op"
      PROVE  es[i].op < f
  <2>1. SUFFICES ASSUME es[i].op >= f PROVE FALSE
    BY <1>2 DEF Entries
  <2>2. IsForgotten(es[i], f) /\ i \in DOMAIN es
    BY <1>2, <1>4, <2>1 DEF IsForgotten
  <2>3. PICK j \in (i + 1)..Len(es) : IsOlder(es[j], f)
    BY <1>1, <2>2 DEF Forgotten
  <2>4. es[i].op <= es[j].op /\ es[j].op < f
    BY <1>2, <2>3 DEF IsOlder
  <2>5. QED
    BY <1>2, <2>1, <2>4 DEF Entries
<1>5. ASSUME NEW i \in 1..Len(es), es[i].kind = "op", es[i].op < f
      PROVE  i \in 1..k
  <2>1. SUFFICES ASSUME k < i PROVE FALSE
    BY <1>2
  <2>2. k + 1 \in 1..i /\ es[k + 1].op >= f
    BY <1>1, <1>2, <2>1 DEF Forgotten, IsForgotten
  <2>3. es[k + 1].op <= es[i].op
    BY <1>5, <2>2
  <2>4. QED
    BY <1>2, <1>5, <2>2, <2>3 DEF Entries
<1>6. QED
  BY <1>1, <1>2, <1>3, <1>4, <1>5

-----------------------------------------------------------------------------
(* Steps *)

LEMMA InitIInv == Init => IInv
<1> SUFFICES ASSUME Init PROVE IInv
  OBVIOUS
<1>1. PICK n \in Names :
        entries = [v \in Vocs |-> IF v = Forth
                                  THEN <<[name |-> n, kind |-> "op", op |-> 1, smudged |-> FALSE]>>
                                  ELSE <<>>]
  BY DEF Init
<1>2. <<[name |-> n, kind |-> "op", op |-> 1, smudged |-> FALSE]>> \in Seq(Entries)
  BY DEF Entries
<1>3. VocTypeOK
  <2>1. entries \in [Vocs -> Seq(Entries)]
    BY <1>1, <1>2
  <2>2. /\ ops \in Seq([at : Nat, voc : Vocs \cup {NoVoc}]) /\ Len(ops) \in Nat
        /\ order \in Seq(Vocs) /\ loaded \in Seq(Files)
    BY VocabulariesAssumption DEF Init
  <2>3. dp \in Nat /\ limit \in [Vocs -> Nat] /\ live \subseteq Vocs /\ defs \in Vocs
        /\ compiling \in 0..Len(ops)
    BY <2>2, VocabulariesAssumption DEF Init, Cell
  <2>4. QED
    BY <2>1, <2>2, <2>3 DEF VocTypeOK
<1>4. Len(ops) = 1 /\ DOMAIN ops = 1..1 /\ ops[1] = [at |-> 0, voc |-> NoVoc]
  BY DEF Init
<1>5. OpsInOrder
  BY <1>4 DEF Init, OpsInOrder, Size, Cell
<1>6. /\ Len(entries[Forth]) = 1 /\ entries[Forth][1].kind = "op" /\ entries[Forth][1].op = 1
      /\ \A v \in Vocs : v # Forth => Len(entries[v]) = 0
  BY <1>1, VocabulariesAssumption
<1>7. SymbolsInOrder
  BY <1>4, <1>6 DEF SymbolsInOrder
<1>8. OpsHaveSymbols
  BY <1>4, <1>6, VocabulariesAssumption DEF Init, OpsHaveSymbols
<1>9. NamesBeforeVocabularies
  BY <1>1, <1>4, VocabulariesAssumption DEF Init, NamesBeforeVocabularies, VocabularyWordsWork
<1>10. SearchOrderIsLive /\ FilesInOrder
  BY DEF Init, SearchOrderIsLive, FilesInOrder
<1>11. QED
  BY <1>3, <1>5, <1>7, <1>8, <1>9, <1>10 DEF IInv

\* The words for the search order select from the vocabularies that are live.
LEMMA OrderKeeps ==
  ASSUME IInv, UNCHANGED Unordered, order' \in Seq(live), defs' \in live
  PROVE  IInv'
<1>1. VocTypeOK'
  <2>1. order' \in Seq(Vocs)
    BY DEF IInv, VocTypeOK
  <2>2. QED
    BY <2>1 DEF IInv, VocTypeOK, Unordered
<1>2. SearchOrderIsLive'
  BY DEF SearchOrderIsLive, Unordered
<1>3. OpsInOrder' /\ SymbolsInOrder' /\ OpsHaveSymbols' /\ FilesInOrder'
  BY DEF IInv, Unordered, OpsInOrder, Size, SymbolsInOrder, OpsHaveSymbols, FilesInOrder, FileInOrder, NewOp, Interpreting
<1>4. NamesBeforeVocabularies'
  BY DEF IInv, Unordered, NamesBeforeVocabularies, VocabularyWordsWork
<1>5. QED
  BY <1>1, <1>2, <1>3, <1>4 DEF IInv

\* What AddSymbol does to the symbols.
LEMMA AddedSymbol ==
  ASSUME VocTypeOK, NEW n \in Names, NEW kind \in {"op", "constant"}, NEW op \in Nat,
         NEW isSmudged \in BOOLEAN, AddSymbol(n, kind, op, isSmudged)
  PROVE  /\ entries' \in [Vocs -> Seq(Entries)]
         /\ \A v \in Vocs : v # defs => entries'[v] = entries[v]
         /\ Len(entries'[defs]) = Len(entries[defs]) + 1
         /\ \A i \in 1..Len(entries[defs]) : entries'[defs][i] = entries[defs][i]
         /\ entries'[defs][Len(entries[defs]) + 1].kind = kind
         /\ entries'[defs][Len(entries[defs]) + 1].op = op
<1> DEFINE e == [name |-> n, kind |-> kind, op |-> op, smudged |-> isSmudged]
<1>1. defs \in Vocs /\ entries \in [Vocs -> Seq(Entries)] /\ e \in Entries
  BY DEF VocTypeOK, Entries
<1>2. entries' = [entries EXCEPT ![defs] = Append(@, e)]
  BY DEF AddSymbol
<1>3. e.kind = kind /\ e.op = op
  OBVIOUS
<1> HIDE DEF e
<1>4. /\ Append(entries[defs], e) \in Seq(Entries)
      /\ Len(Append(entries[defs], e)) = Len(entries[defs]) + 1
      /\ \A i \in 1..Len(entries[defs]) : Append(entries[defs], e)[i] = entries[defs][i]
      /\ Append(entries[defs], e)[Len(entries[defs]) + 1] = e
  <2>1. entries[defs] \in Seq(Entries)
    BY <1>1
  <2>2. QED
    BY <1>1, <2>1
<1>5. /\ entries'[defs] = Append(entries[defs], e)
      /\ \A v \in Vocs : v # defs => entries'[v] = entries[v]
      /\ entries' \in [Vocs -> Seq(Entries)]
  BY <1>1, <1>2, <1>4
<1>6. QED
  BY <1>3, <1>4, <1>5

\* A symbol for an operation that no symbol in its vocabulary is newer than.
LEMMA AddSymbolKeeps ==
  ASSUME IInv, NEW n \in Names, NEW kind \in {"op", "constant"}, NEW op \in Nat,
         AddSymbol(n, kind, op, FALSE),
         kind # "op" => op = 0,
         kind = "op" => /\ op \in 1..Len(ops)
                        /\ \A i \in 1..Len(entries[defs]) : entries[defs][i].op <= op,
         UNCHANGED <<ops, dp, limit, live, order, defs, compiling, loaded>>
  PROVE  IInv'
<1>1. /\ entries' \in [Vocs -> Seq(Entries)]
      /\ \A v \in Vocs : v # defs => entries'[v] = entries[v]
      /\ Len(entries'[defs]) = Len(entries[defs]) + 1
      /\ \A i \in 1..Len(entries[defs]) : entries'[defs][i] = entries[defs][i]
      /\ entries'[defs][Len(entries[defs]) + 1].kind = kind
      /\ entries'[defs][Len(entries[defs]) + 1].op = op
  BY AddedSymbol DEF IInv
<1>2. defs \in live /\ defs \in Vocs /\ Len(entries[defs]) \in Nat
  <2>1. defs \in Vocs /\ VocTypeOK
    BY DEF IInv, VocTypeOK
  <2>2. QED
    BY <2>1, SymbolTypes DEF IInv, SearchOrderIsLive
<1>3. VocTypeOK'
  BY <1>1 DEF IInv, VocTypeOK
<1>4. SymbolsInOrder'
  <2>1. ASSUME NEW v \in Vocs, NEW i \in 1..Len(entries'[v]), entries'[v][i].kind = "op"
        PROVE  /\ entries'[v][i].op \in 1..Len(ops)
               /\ \A j \in 1..i : entries'[v][j].op <= entries'[v][i].op
    <3>1. CASE v # defs
      BY <1>1, <2>1, <3>1 DEF IInv, SymbolsInOrder
    <3>2. CASE v = defs /\ i \in 1..Len(entries[defs])
      <4>1. \A j \in 1..i : j \in 1..Len(entries[defs])
        BY <1>2, <3>2
      <4>2. QED
        BY <1>1, <1>2, <2>1, <3>2, <4>1 DEF IInv, SymbolsInOrder
    <3>3. CASE v = defs /\ i = Len(entries[defs]) + 1
      <4>1. \A j \in 1..i : j = i \/ j \in 1..Len(entries[defs])
        BY <1>2, <3>3
      <4>2. entries'[v][i].op \in 1..Len(ops)
        BY <1>1, <2>1, <3>3
      <4>3. \A j \in 1..i : entries'[v][j].op <= entries'[v][i].op
        BY <1>1, <1>2, <2>1, <3>3, <4>1, <4>2
      <4>4. QED
        BY <4>2, <4>3
    <3>4. QED
      BY <1>1, <1>2, <3>1, <3>2, <3>3
  <2>2. ASSUME NEW v \in Vocs, NEW i \in 1..Len(entries'[v]), entries'[v][i].kind # "op"
        PROVE  entries'[v][i].op = 0
    <3>1. CASE v # defs \/ i \in 1..Len(entries[defs])
      BY <1>1, <1>2, <2>2, <3>1 DEF IInv, SymbolsInOrder
    <3>2. CASE v = defs /\ i = Len(entries[defs]) + 1
      BY <1>1, <2>2, <3>2
    <3>3. QED
      BY <1>1, <1>2, <3>1, <3>2
  <2>3. QED
    BY <2>1, <2>2 DEF SymbolsInOrder
<1>5. OpsHaveSymbols'
  <2>1. ASSUME NEW o \in DOMAIN ops
        PROVE  \E v \in live : \E i \in 1..Len(entries'[v]) :
                  entries'[v][i].kind = "op" /\ entries'[v][i].op = o /\ limit[v] <= ops[o].at
    <3>1. PICK v \in live : \E i \in 1..Len(entries[v]) :
                  entries[v][i].kind = "op" /\ entries[v][i].op = o /\ limit[v] <= ops[o].at
      BY DEF IInv, OpsHaveSymbols
    <3>2. v \in Vocs
      BY DEF IInv, VocTypeOK
    <3>3. CASE v = defs
      <4>1. PICK i \in 1..Len(entries[defs]) :
              entries[defs][i].kind = "op" /\ entries[defs][i].op = o /\ limit[defs] <= ops[o].at
        BY <3>1, <3>3
      <4>2. i \in 1..Len(entries'[defs]) /\ entries'[defs][i] = entries[defs][i]
        BY <1>1, <1>2
      <4>3. QED
        BY <1>2, <4>1, <4>2
    <3>4. CASE v # defs
      BY <1>1, <3>1, <3>2, <3>4
    <3>5. QED
      BY <3>3, <3>4
  <2>2. QED
    BY <2>1 DEF OpsHaveSymbols
<1>6. NamesBeforeVocabularies'
  BY <1>1, <1>2 DEF IInv, NamesBeforeVocabularies, VocabularyWordsWork
<1>7. OpsInOrder' /\ SearchOrderIsLive' /\ FilesInOrder'
  BY DEF IInv, OpsInOrder, Size, SearchOrderIsLive, FilesInOrder, FileInOrder, NewOp, Interpreting
<1>8. QED
  BY <1>3, <1>4, <1>5, <1>6, <1>7 DEF IInv

\* Unsmudging touches neither what a symbol stands for nor where it is.
LEMMA UnSmudged ==
  ASSUME VocTypeOK, UnSmudgeNewestSymbol
  PROVE  /\ entries' \in [Vocs -> Seq(Entries)]
         /\ \A v \in Vocs : /\ Len(entries'[v]) = Len(entries[v])
                            /\ \A i \in 1..Len(entries[v]) : /\ entries'[v][i].kind = entries[v][i].kind
                                                             /\ entries'[v][i].op = entries[v][i].op
<1> DEFINE k == Len(entries[defs])
           e == [entries[defs][k] EXCEPT !.smudged = FALSE]
           es == [entries[defs] EXCEPT ![k] = e]
<1>1. /\ defs \in Vocs /\ entries \in [Vocs -> Seq(Entries)]
      /\ entries[defs] \in Seq(Entries) /\ k \in Nat
  <2>1. defs \in Vocs /\ entries \in [Vocs -> Seq(Entries)]
    BY DEF VocTypeOK
  <2>2. entries[defs] \in Seq(Entries)
    BY <2>1
  <2>3. QED
    BY <2>1, <2>2
<1>2. entries' = [entries EXCEPT ![defs] = es]
  BY DEF UnSmudgeNewestSymbol
<1>3. /\ es \in Seq(Entries) /\ Len(es) = k
      /\ \A i \in 1..k : es[i].kind = entries[defs][i].kind /\ es[i].op = entries[defs][i].op
  <2>1. CASE k = 0
    <3>1. DOMAIN entries[defs] = {}
      BY <1>1, <2>1
    <3>2. k \notin DOMAIN entries[defs] /\ k = Len(entries[defs])
      BY <3>1
    <3> HIDE DEF e, k
    <3>3. es = entries[defs]
      BY <1>1, <3>2, ExceptOutside
    <3>4. QED
      BY <1>1, <2>1, <3>2, <3>3
  <2>2. CASE k # 0
    <3>1. k \in 1..Len(entries[defs])
      BY <1>1, <2>2
    <3>2. entries[defs][k] \in Entries
      BY <1>1, <3>1
    <3>3. e \in Entries /\ e.kind = entries[defs][k].kind /\ e.op = entries[defs][k].op
      BY <3>2 DEF Entries
    <3> HIDE DEF e
    <3>4. es \in Seq(Entries) /\ Len(es) = k /\ \A i \in 1..k : es[i] = IF i = k THEN e ELSE entries[defs][i]
      BY <1>1, <3>1, <3>3, ExceptSeq
    <3>5. QED
      BY <3>3, <3>4
  <2>3. QED
    BY <2>1, <2>2
<1>4. /\ entries'[defs] = es
      /\ \A v \in Vocs : v # defs => entries'[v] = entries[v]
      /\ entries' \in [Vocs -> Seq(Entries)]
  <2> HIDE DEF es
  <2>1. QED
    BY <1>1, <1>2, <1>3
<1>5. QED
  BY <1>3, <1>4

\* ; and recursive.
LEMMA UnSmudgeKeeps ==
  ASSUME IInv, ~Interpreting, UnSmudgeNewestSymbol, compiling' \in {0, compiling},
         dp' \in Nat, dp' >= dp,
         UNCHANGED <<ops, limit, live, order, defs, loaded>>
  PROVE  IInv'
<1>1. /\ entries' \in [Vocs -> Seq(Entries)]
      /\ \A v \in Vocs : /\ Len(entries'[v]) = Len(entries[v])
                         /\ \A i \in 1..Len(entries[v]) : /\ entries'[v][i].kind = entries[v][i].kind
                                                          /\ entries'[v][i].op = entries[v][i].op
  BY UnSmudged DEF IInv
<1>2. VocTypeOK'
  <2>1. Len(ops) \in Nat
    BY OpTypes DEF IInv
  <2>2. QED
    BY <1>1, <2>1 DEF IInv, VocTypeOK
<1>3. OpsInOrder'
  <2>1. DOMAIN ops = 1..Len(ops) /\ dp \in Nat /\ \A o \in DOMAIN ops : ops[o].at \in Nat
    BY OpTypes DEF IInv, Ops, VocTypeOK
  <2>2. QED
    BY <2>1 DEF IInv, OpsInOrder, Size
<1>4. SymbolsInOrder'
  <2>1. ASSUME NEW v \in Vocs, NEW i \in 1..Len(entries[v])
        PROVE  \A j \in 1..i : j \in 1..Len(entries[v])
    BY SymbolTypes DEF IInv
  <2>2. QED
    BY <1>1, <2>1 DEF IInv, SymbolsInOrder
<1>5. OpsHaveSymbols'
  <2>1. ASSUME NEW o \in DOMAIN ops
        PROVE  \E v \in live : \E i \in 1..Len(entries'[v]) :
                  entries'[v][i].kind = "op" /\ entries'[v][i].op = o /\ limit[v] <= ops[o].at
    <3>1. PICK v \in live : \E i \in 1..Len(entries[v]) :
                  entries[v][i].kind = "op" /\ entries[v][i].op = o /\ limit[v] <= ops[o].at
      BY DEF IInv, OpsHaveSymbols
    <3>2. v \in Vocs
      BY DEF IInv, VocTypeOK
    <3>3. QED
      BY <1>1, <3>1, <3>2
  <2>2. QED
    BY <2>1 DEF OpsHaveSymbols
<1>6. NamesBeforeVocabularies'
  <2>1. ASSUME NEW v \in Vocs, v \notin live
        PROVE  entries'[v] = <<>>
    <3>1. Len(entries[v]) = 0
      BY <2>1 DEF IInv, NamesBeforeVocabularies
    <3>2. Len(entries'[v]) = 0 /\ entries'[v] \in Seq(Entries)
      BY <1>1, <3>1
    <3>3. QED
      BY <3>2
  <2>2. QED
    BY <2>1 DEF IInv, NamesBeforeVocabularies, VocabularyWordsWork
<1>7. SearchOrderIsLive'
  BY DEF IInv, SearchOrderIsLive
<1>8. FilesInOrder'
  <2>1. ASSUME NEW i \in 1..Len(loaded)
        PROVE  FileInOrder(i)'
    <3>1. FileInOrder(i) /\ loaded[i].start \in Nat /\ dp \in Nat
      BY FileTypes DEF IInv, VocTypeOK, FilesInOrder
    <3>2. loaded[i].start <= dp'
      BY <3>1 DEF FileInOrder
    <3>3. QED
      BY <3>1, <3>2 DEF FileInOrder, NewOp
  <2>2. QED
    BY <2>1 DEF FilesInOrder
<1>9. QED
  BY <1>2, <1>3, <1>4, <1>5, <1>6, <1>7, <1>8 DEF IInv

LEMMA ErrorResetKeeps == ASSUME IInv, ErrorReset PROVE IInv'
<1>1. dp' \in Nat /\ dp' >= dp
  BY VocabulariesAssumption DEF IInv, VocTypeOK, ErrorReset, Cell
<1>2. Len(ops) \in Nat /\ DOMAIN ops = 1..Len(ops) /\ \A o \in DOMAIN ops : ops[o].at \in Nat
  BY OpTypes DEF IInv, Ops
<1>3. order' \in Seq(Vocs) /\ \A i \in DOMAIN order' : order'[i] = Forth
  BY VocabulariesAssumption DEF ErrorReset
<1>4. VocTypeOK'
  BY <1>1, <1>2, <1>3 DEF IInv, VocTypeOK, ErrorReset
<1>5. OpsInOrder'
  BY <1>1, <1>2 DEF IInv, VocTypeOK, OpsInOrder, Size, ErrorReset
<1>6. SymbolsInOrder' /\ OpsHaveSymbols' /\ NamesBeforeVocabularies'
  BY DEF IInv, ErrorReset, SymbolsInOrder, OpsHaveSymbols, NamesBeforeVocabularies, VocabularyWordsWork
<1>7. SearchOrderIsLive'
  BY <1>3 DEF IInv, NamesBeforeVocabularies, SearchOrderIsLive, ErrorReset
<1>8. FilesInOrder'
  <2>1. ASSUME NEW i \in 1..Len(loaded)
        PROVE  FileInOrder(i)'
    <3>1. FileInOrder(i) /\ loaded[i].start \in Nat /\ dp \in Nat
      BY FileTypes DEF IInv, VocTypeOK, FilesInOrder
    <3>2. loaded[i].start <= dp'
      BY <1>1, <3>1 DEF FileInOrder
    <3>3. QED
      BY <3>1, <3>2 DEF FileInOrder, NewOp, ErrorReset
  <2>2. QED
    BY <2>1 DEF FilesInOrder, ErrorReset
<1>9. QED
  BY <1>4, <1>5, <1>6, <1>7, <1>8 DEF IInv

\* Data takes room, and nothing else changes.
LEMMA AllotKeeps == ASSUME IInv, NEW units \in Allotted, Allot(units) PROVE IInv'
<1>1. dp \in Nat /\ dp' \in Nat /\ dp' >= dp
  BY VocabulariesAssumption DEF IInv, VocTypeOK, Allot
<1>2. UNCHANGED <<ops, entries, limit, live, order, defs, compiling, loaded>>
  BY DEF Allot
<1>3. VocTypeOK'
  BY <1>1, <1>2 DEF IInv, VocTypeOK
<1>4. OpsInOrder'
  <2>1. DOMAIN ops = 1..Len(ops) /\ \A o \in DOMAIN ops : ops[o].at \in Nat
    BY OpTypes DEF IInv, Ops
  <2>2. QED
    BY <1>1, <1>2, <2>1 DEF IInv, OpsInOrder, Size
<1>5. SymbolsInOrder' /\ OpsHaveSymbols' /\ NamesBeforeVocabularies' /\ SearchOrderIsLive'
  BY <1>2 DEF IInv, SymbolsInOrder, OpsHaveSymbols, NamesBeforeVocabularies, VocabularyWordsWork,
     SearchOrderIsLive
<1>6. FilesInOrder'
  <2>1. ASSUME NEW i \in 1..Len(loaded)
        PROVE  FileInOrder(i)'
    <3>1. FileInOrder(i) /\ loaded[i].start \in Nat
      BY FileTypes DEF IInv, FilesInOrder
    <3>2. loaded[i].start <= dp'
      BY <1>1, <3>1 DEF FileInOrder
    <3>3. QED
      BY <1>2, <3>1, <3>2 DEF FileInOrder, NewOp
  <2>2. QED
    BY <1>2, <2>1 DEF FilesInOrder
<1>7. QED
  BY <1>3, <1>4, <1>5, <1>6 DEF IInv

LEMMA WordlistKeeps == ASSUME IInv, NEW v \in Vocs, Wordlist(v) PROVE IInv'
<1>1. VocTypeOK'
  BY DEF IInv, VocTypeOK, Wordlist, NewVocabulary
<1>2. limit' = limit
  BY DEF IInv, VocTypeOK, NamesBeforeVocabularies, Wordlist, NewVocabulary
<1>3. OpsInOrder' /\ SymbolsInOrder' /\ OpsHaveSymbols' /\ SearchOrderIsLive' /\ FilesInOrder'
  BY <1>2 DEF IInv, Wordlist, NewVocabulary, OpsInOrder, Size, SymbolsInOrder, OpsHaveSymbols,
     SearchOrderIsLive, FilesInOrder, FileInOrder, NewOp, Interpreting
<1>4. NamesBeforeVocabularies'
  BY <1>2 DEF IInv, Wordlist, NewVocabulary, NamesBeforeVocabularies, VocabularyWordsWork
<1>5. QED
  BY <1>1, <1>3, <1>4 DEF IInv

\* What the number of an operation says about where it is.
LEMMA OpFacts ==
  ASSUME IInv
  PROVE  /\ Len(ops) \in Nat /\ DOMAIN ops = 1..Len(ops) /\ dp \in Nat
         /\ \A o \in 1..Len(ops) : /\ ops[o].at \in Nat /\ ops[o].voc \in Vocs \cup {NoVoc}
                                   /\ Size(o) \in {0, 4} /\ ops[o].at + Size(o) <= dp
                                   /\ ops[o].voc # NoVoc => Size(o) = 4
         /\ \A o, p \in 1..Len(ops) : o < p => ops[o].at + Size(o) <= ops[p].at
<1>1. DOMAIN ops = 1..Len(ops) /\ Len(ops) \in Nat /\ dp \in Nat
  BY OpTypes DEF IInv, VocTypeOK
<1>2. \A o \in 1..Len(ops) : ops[o].at \in Nat /\ ops[o].voc \in Vocs \cup {NoVoc}
  BY OpTypes DEF IInv, Ops
<1>3. QED
  BY <1>1, <1>2 DEF IInv, OpsInOrder, Size

\* Where the next operation begins.
LEMMA AlignFacts == ASSUME IInv PROVE AlignDP \in Nat /\ AlignDP >= dp
<1>1. dp \in Nat
  BY DEF IInv, VocTypeOK
<1>2. dp % 2 \in Nat
  BY <1>1
<1>3. QED
  BY <1>1, <1>2 DEF AlignDP, Cell

LEMMA LoadKeeps == ASSUME IInv, Load PROVE IInv'
<1> DEFINE file == [start |-> dp, first |-> NewOp, atStart |-> FALSE]
<1>1. Len(ops) \in Nat /\ Len(loaded) \in Nat /\ loaded \in Seq(Files) /\ dp \in Nat
  BY OpTypes DEF IInv, VocTypeOK
<1>2. file \in Files
  BY <1>1 DEF Files, NewOp
<1>3. /\ loaded' \in Seq(Files) /\ Len(loaded') = Len(loaded) + 1
      /\ \A i \in 1..Len(loaded) : loaded'[i] = loaded[i]
      /\ loaded'[Len(loaded) + 1] = file
  <2> HIDE DEF file
  <2>1. loaded' = Append(loaded, file)
    BY DEF Load, file
  <2>2. QED
    BY <1>1, <1>2, <2>1
<1>4. VocTypeOK'
  BY <1>3 DEF IInv, VocTypeOK, Load
<1>5. OpsInOrder' /\ SymbolsInOrder' /\ OpsHaveSymbols' /\ SearchOrderIsLive' /\ NamesBeforeVocabularies'
  BY DEF IInv, Load, OpsInOrder, Size, SymbolsInOrder, OpsHaveSymbols, SearchOrderIsLive,
     NamesBeforeVocabularies, VocabularyWordsWork
<1>6. FilesInOrder'
  <2>1. \A i \in 1..Len(loaded) : FileInOrder(i) /\ loaded[i].start \in Nat
    BY FileTypes DEF IInv, FilesInOrder
  <2>2. NewOp' = NewOp /\ NewOp \in Nat /\ dp' = dp /\ ops' = ops
    BY <1>1 DEF Load, NewOp
  <2>3. ASSUME NEW i \in 1..Len(loaded)
        PROVE  FileInOrder(i)'
    <3>1. \A j \in 1..i : loaded'[j] = loaded[j]
      BY <1>1, <1>3
    <3>2. QED
      BY <2>1, <2>2, <3>1 DEF FileInOrder
  <2>4. ASSUME NEW i \in Nat, i = Len(loaded) + 1
        PROVE  FileInOrder(i)'
    <3>1. file.start = dp /\ file.first = NewOp /\ ~file.atStart
      OBVIOUS
    <3>2. \A j \in 1..i : j \in 1..Len(loaded) \/ j = i
      BY <1>1, <2>4
    <3> HIDE DEF file
    <3>3. \A j \in 1..i : loaded'[j].start <= dp
      BY <1>1, <1>3, <2>1, <2>4, <3>1, <3>2 DEF FileInOrder
    <3>4. loaded'[i].start = dp /\ dp <= dp
      BY <1>1, <1>3, <2>4, <3>1
    <3>5. ~loaded'[i].atStart /\ loaded'[i].first = NewOp
      BY <1>3, <2>4, <3>1
    <3>6. \A o \in 1..Len(ops) : ops[o].at <= dp
      <4>1. \A o \in 1..Len(ops) : ops[o].at \in Nat /\ Size(o) \in {0, 4} /\ ops[o].at + Size(o) <= dp
        BY OpFacts
      <4>2. QED
        BY <1>1, <4>1
    <3>7. QED
      BY <2>2, <3>3, <3>4, <3>5, <3>6 DEF FileInOrder
  <2>5. \A i \in 1..Len(loaded') : i \in 1..Len(loaded) \/ (i \in Nat /\ i = Len(loaded) + 1)
    BY <1>1, <1>3
  <2>6. \A i \in 1..Len(loaded') : FileInOrder(i)'
    BY <2>3, <2>4, <2>5
  <2>7. QED
    BY <2>6 DEF FilesInOrder
<1>7. QED
  BY <1>4, <1>5, <1>6 DEF IInv

\* A vocabulary is not newer than the dictionary.
LEMMA LimitFacts ==
  ASSUME IInv
  PROVE  \A v \in Vocs : /\ limit[v] \in Nat /\ limit[v] <= dp
                         /\ limit[v] # 0 => \E o \in 1..Len(ops) : ops[o].voc = v /\ limit[v] = ops[o].at + Cell
<1> SUFFICES ASSUME NEW v \in Vocs
             PROVE  /\ limit[v] \in Nat /\ limit[v] <= dp
                    /\ limit[v] # 0 => \E o \in 1..Len(ops) : ops[o].voc = v /\ limit[v] = ops[o].at + Cell
  OBVIOUS
<1>1. limit[v] \in Nat /\ dp \in Nat
  BY DEF IInv, VocTypeOK
<1>2. CASE limit[v] = 0
  BY <1>1, <1>2
<1>3. CASE limit[v] # 0
  <2>1. v \in live
    BY <1>3 DEF IInv, NamesBeforeVocabularies
  <2>2. PICK o \in 1..Len(ops) : ops[o].voc = v
    BY <1>3, <2>1, OpFacts DEF IInv, NamesBeforeVocabularies, VocabularyWordsWork
  <2>3. limit[v] = ops[o].at + Cell
    BY <2>2, OpFacts, VocabulariesAssumption DEF IInv, NamesBeforeVocabularies
  <2>4. ops[o].at + 4 <= dp
    BY <2>2, OpFacts, VocabulariesAssumption
  <2>5. QED
    BY <1>1, <2>2, <2>3, <2>4, OpFacts DEF Cell
<1>4. QED
  BY <1>2, <1>3

\* What AddOp does to the operations and the loaded files.
LEMMA AddedOp ==
  ASSUME IInv, NEW voc \in Vocs \cup {NoVoc}, AddOp(voc)
  PROVE  /\ ops' \in Seq(Ops) /\ Len(ops') = Len(ops) + 1 /\ DOMAIN ops' = 1..(Len(ops) + 1)
         /\ \A o \in 1..Len(ops) : ops'[o] = ops[o]
         /\ ops'[Len(ops) + 1].at = AlignDP /\ ops'[Len(ops) + 1].voc = voc
         /\ loaded' \in Seq(Files) /\ Len(loaded') = Len(loaded)
         /\ \A i \in 1..Len(loaded) : /\ loaded'[i].start = loaded[i].start
                                      /\ loaded'[i].first = loaded[i].first
                                      /\ loaded'[i].atStart <=> loaded[i].atStart \/ IsFirstOf(loaded[i], NewOp)
<1> DEFINE op == [at |-> AlignDP, voc |-> voc]
           File(i) == [loaded[i] EXCEPT !.atStart = @ \/ IsFirstOf(loaded[i], NewOp)]
<1>1. ops \in Seq(Ops) /\ op \in Ops /\ ops' = Append(ops, op) /\ op.at = AlignDP /\ op.voc = voc
  BY AlignFacts DEF IInv, VocTypeOK, AddOp, Ops
<1>2. /\ ops' \in Seq(Ops) /\ Len(ops') = Len(ops) + 1 /\ DOMAIN ops' = 1..(Len(ops) + 1)
      /\ \A o \in 1..Len(ops) : ops'[o] = ops[o]
      /\ ops'[Len(ops) + 1] = op
  <2> HIDE DEF op
  <2>1. QED
    BY <1>1
<1>3. /\ loaded \in Seq(Files) /\ Len(loaded) \in Nat /\ DOMAIN loaded = 1..Len(loaded)
      /\ \A i \in 1..Len(loaded) : loaded[i] \in Files
  <2>1. loaded \in Seq(Files)
    BY DEF IInv, VocTypeOK
  <2>2. QED
    BY <2>1
<1>4. \A i \in 1..Len(loaded) : File(i) \in Files
  BY <1>3 DEF Files, IsFirstOf
<1>5. loaded' = [i \in 1..Len(loaded) |-> File(i)]
  BY <1>3 DEF AddOp
<1>6. \A i \in 1..Len(loaded) :
        /\ File(i).start = loaded[i].start /\ File(i).first = loaded[i].first
        /\ File(i).atStart <=> loaded[i].atStart \/ IsFirstOf(loaded[i], NewOp)
  BY <1>3 DEF Files, IsFirstOf
<1> HIDE DEF File
<1>7. loaded' \in Seq(Files) /\ Len(loaded') = Len(loaded) /\ \A i \in 1..Len(loaded) : loaded'[i] = File(i)
  BY <1>3, <1>4, <1>5
<1>8. QED
  BY <1>1, <1>2, <1>6, <1>7

\* A new word, perhaps the name of a new vocabulary.
LEMMA NewWordKeeps ==
  ASSUME IInv, Interpreting, NEW n \in Names, NEW isSmudged \in BOOLEAN, NEW voc \in Vocs \cup {NoVoc},
         NEW cells \in Nat, StartOpDefinition(n, isSmudged, voc, cells),
         voc = NoVoc => UNCHANGED <<limit, live>>,
         voc # NoVoc => cells = 2 /\ NewVocabulary(voc, AlignDP + Cell),
         compiling' \in {0, NewOp}, UNCHANGED <<order, defs>>
  PROVE  IInv'
<1>0. PICK new \in Nat : new = Len(ops) + 1
  BY OpFacts
<1>at. PICK at \in Nat : at = AlignDP /\ at >= dp /\ dp' = at + 2 * cells
  BY AlignFacts DEF StartOpDefinition, Cell
<1>1. /\ ops' \in Seq(Ops) /\ Len(ops') = new /\ DOMAIN ops' = 1..new
      /\ \A o \in 1..Len(ops) : ops'[o] = ops[o]
      /\ ops'[new].at = at /\ ops'[new].voc = voc
      /\ loaded' \in Seq(Files) /\ Len(loaded') = Len(loaded)
      /\ \A i \in 1..Len(loaded) : /\ loaded'[i].start = loaded[i].start
                                   /\ loaded'[i].first = loaded[i].first
                                   /\ loaded'[i].atStart <=> loaded[i].atStart \/ IsFirstOf(loaded[i], NewOp)
  BY <1>0, <1>at, AddedOp DEF StartOpDefinition
<1>2. /\ Len(ops) \in Nat /\ DOMAIN ops = 1..Len(ops) /\ dp \in Nat
      /\ \A o \in 1..Len(ops) : /\ ops[o].at \in Nat /\ Size(o) \in {0, 4} /\ ops[o].at + Size(o) <= dp
  BY OpFacts
<1>3. VocTypeOK /\ defs \in live /\ defs \in Vocs /\ Len(entries[defs]) \in Nat
  <2>1. VocTypeOK /\ defs \in live /\ defs \in Vocs
    BY DEF IInv, VocTypeOK, SearchOrderIsLive
  <2>2. QED
    BY <2>1, SymbolTypes
<1>4. /\ entries' \in [Vocs -> Seq(Entries)]
      /\ \A v \in Vocs : v # defs => entries'[v] = entries[v]
      /\ Len(entries'[defs]) = Len(entries[defs]) + 1
      /\ \A i \in 1..Len(entries[defs]) : entries'[defs][i] = entries[defs][i]
      /\ entries'[defs][Len(entries[defs]) + 1].kind = "op"
      /\ entries'[defs][Len(entries[defs]) + 1].op = new
  <2>1. NewOp \in Nat /\ NewOp = new /\ AddSymbol(n, "op", NewOp, isSmudged)
    BY <1>0, <1>2 DEF StartOpDefinition, NewOp
  <2>2. QED
    BY <1>3, <2>1, AddedSymbol
<1>5. /\ dp' \in Nat /\ dp' >= at /\ (voc # NoVoc => dp' = at + 4)
      /\ live \subseteq live' /\ live' \subseteq Vocs /\ limit' \in [Vocs -> Nat]
      /\ \A v \in Vocs : v # voc => limit'[v] = limit[v] /\ (v \in live' <=> v \in live)
      /\ voc # NoVoc => voc \notin live /\ voc \in live' /\ limit'[voc] = at + 2
  <2>1. CASE voc = NoVoc
    BY <1>0, <1>at, <1>2, <1>3, <2>1, VocabulariesAssumption DEF VocTypeOK
  <2>2. CASE voc # NoVoc
    <3>1. /\ dp' = at + 4 /\ voc \notin live /\ live' = live \cup {voc}
          /\ limit' = [limit EXCEPT ![voc] = at + 2] /\ voc \in Vocs
      BY <1>at, <2>2 DEF NewVocabulary, Cell
    <3>2. limit \in [Vocs -> Nat] /\ live \subseteq Vocs
      BY <1>3 DEF VocTypeOK
    <3>3. QED
      BY <1>0, <1>at, <1>2, <2>2, <3>1, <3>2
  <2>3. QED
    BY <2>1, <2>2
<1>6. VocTypeOK'
  <2>1. compiling' \in 0..Len(ops')
    BY <1>0, <1>1, <1>2 DEF NewOp
  <2>2. QED
    BY <1>0, <1>1, <1>3, <1>4, <1>5, <2>1 DEF VocTypeOK, Ops
<1>7. OpsInOrder'
  <2>1. \A o \in 1..Len(ops) : Size(o)' = Size(o)
    BY <1>0, <1>1 DEF Size
  <2>2. Size(new)' \in Nat /\ at + Size(new)' <= dp'
    <3>1. Size(new)' = IF voc = NoVoc THEN 0 ELSE 4
      BY <1>0, <1>1 DEF Size
    <3>2. QED
      BY <1>0, <1>2, <1>5, <3>1
  <2>3. \A o \in 1..new : o \in 1..Len(ops) \/ o = new
    BY <1>0, <1>2
  <2>4. \A o, p \in 1..Len(ops) : o < p => ops[o].at + Size(o) <= ops[p].at
    BY OpFacts
  <2>5. ASSUME NEW o \in 1..Len(ops)
        PROVE  ops[o].at + Size(o) <= at /\ ops[o].at + Size(o) <= dp'
    <3>1. ops[o].at + Size(o) \in Nat /\ ops[o].at + Size(o) <= dp
      BY <1>2
    <3>2. QED
      BY <1>at, <1>2, <1>5, <3>1
  <2>6. \A o \in 1..new : ops'[o].at + Size(o)' <= dp'
    <3>1. \A o \in 1..Len(ops) : ops'[o].at + Size(o)' <= dp'
      BY <1>0, <1>1, <2>1, <2>5
    <3>2. ops'[new].at + Size(new)' <= dp'
      BY <1>0, <1>1, <2>2
    <3>3. QED
      BY <2>3, <3>1, <3>2
  <2>7. \A o, p \in 1..new : o < p => ops'[o].at + Size(o)' <= ops'[p].at
    <3>1. ASSUME NEW o \in 1..new, NEW p \in 1..new, o < p
          PROVE  o \in 1..Len(ops) /\ (p \in 1..Len(ops) \/ p = new)
      BY <1>0, <1>2, <3>1
    <3>2. QED
      BY <1>0, <1>1, <1>2, <2>1, <2>4, <2>5, <3>1
  <2>8. QED
    BY <1>0, <1>1, <2>6, <2>7 DEF OpsInOrder
<1>8. SymbolsInOrder'
  <2>1. ASSUME NEW v \in Vocs, NEW i \in 1..Len(entries'[v]), entries'[v][i].kind = "op"
        PROVE  /\ entries'[v][i].op \in 1..new
               /\ \A j \in 1..i : entries'[v][j].op <= entries'[v][i].op
    <3>1. CASE v # defs
      BY <1>0, <1>2, <1>4, <2>1, <3>1 DEF IInv, SymbolsInOrder
    <3>2. CASE v = defs /\ i \in 1..Len(entries[defs])
      <4>1. \A j \in 1..i : j \in 1..Len(entries[defs])
        BY <1>3, <3>2
      <4>2. entries[defs][i].op \in 1..Len(ops) /\ \A j \in 1..i : entries[defs][j].op <= entries[defs][i].op
        BY <1>3, <1>4, <2>1, <3>2 DEF IInv, SymbolsInOrder
      <4>3. entries'[defs][i].op \in 1..new
        BY <1>0, <1>2, <1>4, <3>2, <4>2
      <4>4. \A j \in 1..i : entries'[defs][j].op <= entries'[defs][i].op
        BY <1>4, <3>2, <4>1, <4>2
      <4>5. QED
        BY <3>2, <4>3, <4>4
    <3>3. CASE v = defs /\ i = Len(entries[defs]) + 1
      <4>1. \A j \in 1..i : j = i \/ j \in 1..Len(entries[defs])
        BY <1>3, <3>3
      <4>2. \A j \in 1..Len(entries[defs]) : entries[defs][j].op <= new
        <5>1. \A j \in 1..Len(entries[defs]) : entries[defs][j].op = 0 \/ entries[defs][j].op \in 1..Len(ops)
          BY <1>3 DEF IInv, SymbolsInOrder
        <5>2. \A x \in 0..Len(ops) : x <= new
          BY <1>0, <1>2
        <5>3. 0 \in 0..Len(ops) /\ \A x \in 1..Len(ops) : x \in 0..Len(ops)
          BY <1>2
        <5>4. QED
          BY <5>1, <5>2, <5>3
      <4>3. new <= new /\ new \in 1..new
        BY <1>0, <1>2
      <4>4. QED
        BY <1>3, <1>4, <3>3, <4>1, <4>2, <4>3
    <3>4. QED
      BY <1>3, <1>4, <3>1, <3>2, <3>3
  <2>2. ASSUME NEW v \in Vocs, NEW i \in 1..Len(entries'[v]), entries'[v][i].kind # "op"
        PROVE  entries'[v][i].op = 0
    <3>1. CASE v # defs \/ i \in 1..Len(entries[defs])
      BY <1>3, <1>4, <2>2, <3>1 DEF IInv, SymbolsInOrder
    <3>2. CASE v = defs /\ i = Len(entries[defs]) + 1
      BY <1>4, <2>2, <3>2
    <3>3. QED
      BY <1>3, <1>4, <3>1, <3>2
  <2>3. QED
    BY <1>0, <1>1, <2>1, <2>2 DEF SymbolsInOrder
<1>9. OpsHaveSymbols'
  <2>1. ASSUME NEW o \in 1..Len(ops)
        PROVE  \E v \in live' : \E i \in 1..Len(entries'[v]) :
                  entries'[v][i].kind = "op" /\ entries'[v][i].op = o /\ limit'[v] <= ops'[o].at
    <3>1. PICK v \in live : \E i \in 1..Len(entries[v]) :
                  entries[v][i].kind = "op" /\ entries[v][i].op = o /\ limit[v] <= ops[o].at
      BY <1>0, <1>2 DEF IInv, OpsHaveSymbols
    <3>2. v \in Vocs /\ v \in live' /\ limit'[v] = limit[v]
      BY <1>3, <1>5 DEF VocTypeOK
    <3>3. PICK i \in 1..Len(entries[v]) :
                  entries[v][i].kind = "op" /\ entries[v][i].op = o /\ limit[v] <= ops[o].at
      BY <3>1
    <3>4. i \in 1..Len(entries'[v]) /\ entries'[v][i] = entries[v][i]
      <4>1. CASE v = defs
        BY <1>3, <1>4, <4>1
      <4>2. CASE v # defs
        BY <1>4, <3>2, <4>2
      <4>3. QED
        BY <4>1, <4>2
    <3>5. QED
      BY <1>0, <1>1, <3>2, <3>3, <3>4
  <2>2. \E v \in live' : \E i \in 1..Len(entries'[v]) :
                  entries'[v][i].kind = "op" /\ entries'[v][i].op = new /\ limit'[v] <= ops'[new].at
    <3>1. limit'[defs] <= at
      BY <1>at, <1>2, <1>3, <1>5, LimitFacts
    <3>2. defs \in live' /\ Len(entries[defs]) + 1 \in 1..Len(entries'[defs])
      BY <1>3, <1>4, <1>5
    <3>3. QED
      BY <1>0, <1>1, <1>4, <3>1, <3>2
  <2>3. \A o \in 1..new : o \in 1..Len(ops) \/ o = new
    BY <1>0, <1>2
  <2>4. ASSUME NEW o \in 1..new
        PROVE  \E v \in live' : \E i \in 1..Len(entries'[v]) :
                  entries'[v][i].kind = "op" /\ entries'[v][i].op = o /\ limit'[v] <= ops'[o].at
    <3>1. CASE o \in 1..Len(ops)
      BY <2>1, <3>1, Zenon
    <3>2. CASE o = new
      BY <2>2, <3>2, Zenon
    <3>3. QED
      BY <2>3, <3>1, <3>2, Zenon
  <2>5. DOMAIN ops' = 1..new
    BY <1>1
  <2>6. QED
    BY <2>4, <2>5 DEF OpsHaveSymbols
<1>10. NamesBeforeVocabularies'
  <2>1. \A v \in Vocs : (\E o \in 1..Len(ops) : ops[o].voc = v) <=> (v \in live /\ limit[v] # 0)
    BY <1>0, <1>2 DEF IInv, NamesBeforeVocabularies, VocabularyWordsWork
  <2>2. \A o \in 1..new : o \in 1..Len(ops) \/ o = new
    BY <1>0, <1>2
  <2>3. new \in 1..new /\ \A o \in 1..Len(ops) : o \in 1..new
    BY <1>0, <1>2
  <2>4. VocabularyWordsWork'
    <3>1. ASSUME NEW v \in Vocs
          PROVE  (\E o \in 1..new : ops'[o].voc = v) <=> (v \in live' /\ limit'[v] # 0)
      <4>1. CASE v = voc
        <5>1. v \in live' /\ limit'[v] # 0
          BY <1>0, <1>2, <1>5, <4>1, VocabulariesAssumption
        <5>2. QED
          BY <1>0, <1>1, <2>3, <4>1, <5>1
      <4>2. CASE v # voc
        <5>1. (\E o \in 1..new : ops'[o].voc = v) <=> (\E o \in 1..Len(ops) : ops[o].voc = v)
          BY <1>0, <1>1, <2>2, <2>3, <4>2
        <5>2. QED
          BY <1>5, <2>1, <4>2, <5>1
      <4>3. QED
        BY <4>1, <4>2
    <3>2. QED
      BY <1>0, <1>1, <3>1 DEF VocabularyWordsWork
  <2>5. \A o \in 1..new : ops'[o].voc # NoVoc => limit'[ops'[o].voc] = ops'[o].at + Cell
    <3>1. ASSUME NEW o \in 1..Len(ops), ops[o].voc # NoVoc
          PROVE  limit'[ops[o].voc] = ops[o].at + Cell
      <4>1. ops[o].voc \in Vocs
        BY <3>1, OpFacts
      <4>2. ops[o].voc \in live /\ limit[ops[o].voc] = ops[o].at + Cell
        BY <1>0, <1>2, <2>1, <3>1, <4>1 DEF IInv, NamesBeforeVocabularies
      <4>3. QED
        BY <1>5, <4>1, <4>2
    <3>2. QED
      BY <1>0, <1>1, <1>5, <2>2, <3>1 DEF Cell
  <2>6. \A v \in {Forth, Root} : v \in live' /\ limit'[v] = 0
    BY <1>5, VocabulariesAssumption DEF IInv, NamesBeforeVocabularies
  <2>7. \A v \in Vocs : v \notin live' => entries'[v] = <<>> /\ limit'[v] = 0
    BY <1>3, <1>4, <1>5 DEF IInv, NamesBeforeVocabularies
  <2>8. QED
    BY <1>0, <1>1, <2>4, <2>5, <2>6, <2>7 DEF NamesBeforeVocabularies
<1>11. SearchOrderIsLive'
  BY <1>5 DEF IInv, SearchOrderIsLive
<1>12. FilesInOrder'
  <2>1. ASSUME NEW i \in 1..Len(loaded)
        PROVE  FileInOrder(i)'
    <3>1. FileInOrder(i) /\ loaded[i].start \in Nat /\ \A j \in 1..i : j \in 1..Len(loaded)
      BY <1>3, FileTypes DEF IInv, FilesInOrder
    <3>2. loaded'[i].start <= dp' /\ \A j \in 1..i : loaded'[j].start <= loaded'[i].start
      BY <1>0, <1>at, <1>1, <1>2, <1>5, <3>1 DEF FileInOrder
    <3>3. loaded[i].first \in Nat /\ loaded[i].first <= new /\ NewOp' = new + 1
      BY <1>0, <1>1, <1>3, <3>1, FileTypes DEF FileInOrder, NewOp
    <3>4. \A o \in 1..new : o < loaded[i].first => ops'[o].at <= loaded[i].start
      BY <1>0, <1>1, <1>2, <3>1, <3>3 DEF FileInOrder
    <3>5. loaded'[i].atStart => loaded[i].first \in 1..new /\ ops'[loaded[i].first].at = loaded[i].start
      <4>1. CASE loaded[i].atStart
        BY <1>0, <1>1, <1>2, <3>1, <4>1 DEF FileInOrder
      <4>2. CASE IsFirstOf(loaded[i], NewOp)
        BY <1>0, <1>at, <1>1, <1>2, <4>2 DEF IsFirstOf, NewOp
      <4>3. QED
        BY <1>1, <4>1, <4>2
    <3>6. QED
      BY <1>0, <1>1, <3>2, <3>3, <3>4, <3>5 DEF FileInOrder
  <2>2. QED
    BY <1>0, <1>1, <2>1 DEF FilesInOrder
<1>13. QED
  BY <1>6, <1>7, <1>8, <1>9, <1>10, <1>11, <1>12 DEF IInv

-----------------------------------------------------------------------------
(* Forgetting *)

\* Which vocabularies are left, and which of their symbols.
LEMMA Propagated ==
  ASSUME IInv, NEW f \in 2..Len(ops), ForgetPropagate(ops[f].at, f)
  PROVE  /\ entries' \in [Vocs -> Seq(Entries)] /\ limit' \in [Vocs -> Nat]
         /\ live' = {v \in live : limit[v] <= ops[f].at}
         /\ \A v \in Vocs : v \notin live' => entries'[v] = <<>> /\ limit'[v] = 0
         /\ \A v \in live' :
                /\ limit'[v] = limit[v] /\ Len(entries'[v]) \in 0..Len(entries[v])
                /\ \A i \in 1..Len(entries'[v]) :
                      entries'[v][i] = entries[v][i] /\ (entries[v][i].kind = "op" => entries[v][i].op < f)
                /\ \A i \in 1..Len(entries[v]) :
                      entries[v][i].kind = "op" /\ entries[v][i].op < f => i \in 1..Len(entries'[v])
<1>1. /\ live' = {v \in live : limit[v] <= ops[f].at} /\ live' \subseteq Vocs
      /\ entries' = [v \in Vocs |-> IF v \in live' THEN Cut(entries[v], f) ELSE <<>>]
      /\ limit' = [v \in Vocs |-> IF v \in live' THEN limit[v] ELSE 0]
      /\ limit \in [Vocs -> Nat]
  BY DEF ForgetPropagate, IInv, VocTypeOK
<1>2. f \in Nat
  BY OpFacts
<1>3. ASSUME NEW v \in Vocs
      PROVE  /\ Cut(entries[v], f) \in Seq(Entries) /\ Len(Cut(entries[v], f)) \in 0..Len(entries[v])
             /\ \A i \in 1..Len(Cut(entries[v], f)) :
                   /\ Cut(entries[v], f)[i] = entries[v][i]
                   /\ entries[v][i].kind = "op" => entries[v][i].op < f
             /\ \A i \in 1..Len(entries[v]) :
                   entries[v][i].kind = "op" /\ entries[v][i].op < f => i \in 1..Len(Cut(entries[v], f))
  <2>1. entries[v] \in Seq(Entries)
    BY SymbolTypes DEF IInv
  <2>2. \A i \in 1..Len(entries[v]) : entries[v][i].kind = "op" =>
            \A j \in 1..i : entries[v][j].op <= entries[v][i].op
    BY DEF IInv, SymbolsInOrder
  <2>3. QED
    BY <1>2, <2>1, <2>2, CutIsExact
<1>4. \A v \in live' : entries'[v] = Cut(entries[v], f) /\ limit'[v] = limit[v]
  BY <1>1
<1>5. \A v \in Vocs : v \notin live' => entries'[v] = <<>> /\ limit'[v] = 0
  BY <1>1
<1>6. entries' \in [Vocs -> Seq(Entries)] /\ limit' \in [Vocs -> Nat]
  <2>1. <<>> \in Seq(Entries)
    OBVIOUS
  <2>2. QED
    BY <1>1, <1>3, <2>1
<1>7. QED
  BY <1>1, <1>3, <1>4, <1>5, <1>6

\* Only files that begin before the forgotten operation stay.
LEMMA FilesLeft ==
  ASSUME IInv, NEW f \in 2..Len(ops), OnForget(ops[f].at)
  PROVE  /\ loaded' \in Seq(Files) /\ Len(loaded') \in 0..Len(loaded)
         /\ \A i \in 1..Len(loaded') : /\ loaded'[i] = loaded[i] /\ loaded[i].start < ops[f].at
                                       /\ loaded[i].first <= f
                                       /\ loaded[i].atStart => loaded[i].first \in 1..(f - 1)
<1>1. PICK k \in 0..Len(loaded) :
        /\ k > 0 => loaded[k].start < ops[f].at
        /\ loaded' = SubSeq(loaded, 1, k)
  BY DEF OnForget
<1>2. /\ Len(loaded) \in Nat /\ loaded \in Seq(Files) /\ Len(ops) \in Nat /\ dp \in Nat
      /\ ops[f].at \in Nat /\ ops[f].at <= dp
      /\ \A i \in 1..Len(loaded) : loaded[i].start \in Nat /\ loaded[i].first \in Nat
  <2>1. ops[f].at \in Nat /\ Size(f) \in {0, 4} /\ ops[f].at + Size(f) <= dp /\ dp \in Nat
    BY OpFacts
  <2>2. ops[f].at <= dp
    BY <2>1
  <2>3. QED
    BY <2>1, <2>2, OpFacts, FileTypes DEF IInv, VocTypeOK
<1>3. loaded' \in Seq(Files) /\ Len(loaded') = k /\ \A i \in 1..k : loaded'[i] = loaded[i]
  BY <1>1, <1>2, SubSeqProperties
<1>4. ASSUME NEW i \in 1..k
      PROVE  /\ loaded[i].start < ops[f].at /\ loaded[i].first <= f
             /\ loaded[i].atStart => loaded[i].first \in 1..(f - 1)
  <2>1. k \in 1..Len(loaded) /\ i \in 1..Len(loaded)
    BY <1>2
  <2>2. FileInOrder(k) /\ FileInOrder(i)
    BY <2>1 DEF IInv, FilesInOrder
  <2>3. loaded[i].start < ops[f].at
    BY <1>1, <1>2, <2>1, <2>2 DEF FileInOrder
  <2>4. f \in 1..Len(ops) /\ f \in Nat
    BY <1>2
  <2>5. ~(f < loaded[i].first)
    BY <1>2, <2>1, <2>2, <2>3, <2>4 DEF FileInOrder
  <2>6. loaded[i].first <= f
    BY <1>2, <2>1, <2>4, <2>5
  <2>7. ASSUME loaded[i].atStart PROVE loaded[i].first \in 1..(f - 1)
    <3>1. loaded[i].first \in 1..Len(ops) /\ ops[loaded[i].first].at = loaded[i].start
      BY <2>2, <2>7 DEF FileInOrder
    <3>2. loaded[i].first # f
      BY <1>2, <2>1, <2>3, <3>1
    <3>3. QED
      BY <1>2, <2>4, <2>6, <3>1, <3>2
  <2>8. QED
    BY <2>3, <2>6, <2>7
<1>5. QED
  BY <1>2, <1>3, <1>4

\* A vocabulary with a name is left exactly if its name is.
LEMMA NamedIsLeft ==
  ASSUME IInv, NEW f \in 2..Len(ops), NEW o \in 1..Len(ops), ops[o].voc # NoVoc
  PROVE  limit[ops[o].voc] <= ops[f].at <=> o < f
<1>1. limit[ops[o].voc] = ops[o].at + Cell
  BY OpFacts DEF IInv, NamesBeforeVocabularies
<1>2. /\ f \in 1..Len(ops) /\ f \in Nat /\ o \in Nat /\ ops[o].at \in Nat /\ ops[f].at \in Nat
      /\ Size(o) = 4 /\ Size(f) \in {0, 4}
  BY OpFacts
<1>3. CASE o < f
  <2>1. ops[o].at + Size(o) <= ops[f].at
    BY <1>2, <1>3, OpFacts
  <2>2. QED
    BY <1>1, <1>2, <1>3, <2>1 DEF Cell
<1>4. CASE o = f
  BY <1>1, <1>2, <1>4 DEF Cell
<1>5. CASE f < o
  <2>1. ops[f].at + Size(f) <= ops[o].at
    BY <1>2, <1>5, OpFacts
  <2>2. QED
    BY <1>1, <1>2, <1>5, <2>1 DEF Cell
<1>6. QED
  BY <1>2, <1>3, <1>4, <1>5

LEMMA ForgetOpKeeps ==
  ASSUME IInv, Interpreting, NEW f \in 2..Len(ops), ForgetOp(f),
         order' = <<Forth>>, defs' = Forth, UNCHANGED compiling
  PROVE  IInv'
<1>1. /\ Len(ops) \in Nat /\ f \in Nat /\ f \in 1..Len(ops) /\ f - 1 \in 0..Len(ops)
      /\ DOMAIN ops = 1..Len(ops) /\ dp \in Nat /\ ops \in Seq(Ops)
      /\ \A o \in 1..(f - 1) : o \in 1..Len(ops) /\ o < f
      /\ \A o \in 1..Len(ops) : o < f => o \in 1..(f - 1)
  BY OpFacts DEF IInv, VocTypeOK, Ops
<1>2. ops' = SubSeq(ops, 1, f - 1) /\ dp' = ops[f].at /\ OnForget(ops[f].at) /\ ForgetPropagate(ops[f].at, f)
  BY <1>1 DEF ForgetOp
<1>3. /\ ops' \in Seq(Ops) /\ Len(ops') = f - 1 /\ DOMAIN ops' = 1..(f - 1)
      /\ \A o \in 1..(f - 1) : ops'[o] = ops[o]
  <2>1. ops' \in Seq(Ops) /\ Len(ops') = f - 1 /\ \A o \in 1..(f - 1) : ops'[o] = ops[o]
    BY <1>1, <1>2, SubSeqProperties
  <2>2. QED
    BY <2>1
<1>4. /\ entries' \in [Vocs -> Seq(Entries)] /\ limit' \in [Vocs -> Nat]
      /\ live' = {v \in live : limit[v] <= ops[f].at}
      /\ \A v \in Vocs : v \notin live' => entries'[v] = <<>> /\ limit'[v] = 0
      /\ \A v \in live' :
            /\ limit'[v] = limit[v] /\ Len(entries'[v]) \in 0..Len(entries[v])
            /\ \A i \in 1..Len(entries'[v]) :
                  entries'[v][i] = entries[v][i] /\ (entries[v][i].kind = "op" => entries[v][i].op < f)
            /\ \A i \in 1..Len(entries[v]) :
                  entries[v][i].kind = "op" /\ entries[v][i].op < f => i \in 1..Len(entries'[v])
  BY <1>2, Propagated
<1>5. /\ loaded' \in Seq(Files) /\ Len(loaded') \in 0..Len(loaded)
      /\ \A i \in 1..Len(loaded') : /\ loaded'[i] = loaded[i] /\ loaded[i].start < ops[f].at
                                    /\ loaded[i].first <= f
                                    /\ loaded[i].atStart => loaded[i].first \in 1..(f - 1)
  BY <1>2, FilesLeft
<1>6. /\ compiling' = 0 /\ live \subseteq Vocs /\ live' \subseteq Vocs
      /\ \A v \in {Forth, Root} : v \in Vocs /\ v \in live' /\ limit'[v] = 0
  <2>1. ops[f].at \in Nat
    BY <1>1, OpFacts
  <2>2. compiling' = 0 /\ live \subseteq Vocs /\ live' \subseteq Vocs
    BY <1>4 DEF IInv, VocTypeOK, Interpreting
  <2>3. \A v \in {Forth, Root} : v \in Vocs /\ v \in live /\ limit[v] = 0
    BY VocabulariesAssumption DEF IInv, NamesBeforeVocabularies
  <2>4. QED
    BY <1>4, <2>1, <2>2, <2>3
<1>7. VocTypeOK'
  <2>1. dp' \in Nat
    BY <1>1, <1>2, OpFacts
  <2>2. order' \in Seq(Vocs) /\ defs' \in Vocs
    BY <1>6
  <2>3. compiling' \in 0..Len(ops')
    BY <1>1, <1>3, <1>6
  <2>4. QED
    BY <1>3, <1>4, <1>5, <1>6, <2>1, <2>2, <2>3 DEF VocTypeOK, Ops
<1>8. OpsInOrder'
  <2>1. \A o \in 1..(f - 1) : Size(o)' = Size(o)
    BY <1>3 DEF Size
  <2>2. QED
    BY <1>1, <1>2, <1>3, <2>1, OpFacts DEF OpsInOrder
<1>9. SymbolsInOrder'
  <2>1. ASSUME NEW v \in Vocs, NEW i \in 1..Len(entries'[v])
        PROVE  /\ entries'[v][i].kind # "op" => entries'[v][i].op = 0
               /\ entries'[v][i].kind = "op" => /\ entries'[v][i].op \in 1..(f - 1)
                                                /\ \A j \in 1..i : entries'[v][j].op <= entries'[v][i].op
    <3>1. v \in live'
      <4>1. SUFFICES ASSUME v \notin live' PROVE FALSE
        OBVIOUS
      <4>2. Len(entries'[v]) = 0
        BY <1>4, <4>1
      <4>3. QED
        BY <2>1, <4>2
    <3>2. Len(entries[v]) \in Nat
      BY SymbolTypes DEF IInv
    <3>3. i \in 1..Len(entries[v]) /\ \A j \in 1..i : j \in 1..Len(entries'[v])
      BY <1>4, <3>1, <3>2
    <3>4. /\ entries[v][i].kind # "op" => entries[v][i].op = 0
          /\ entries[v][i].kind = "op" => /\ entries[v][i].op \in 1..Len(ops)
                                          /\ \A j \in 1..i : entries[v][j].op <= entries[v][i].op
      BY <3>3 DEF IInv, SymbolsInOrder
    <3>5. /\ entries'[v][i] = entries[v][i] /\ (entries[v][i].kind = "op" => entries[v][i].op < f)
          /\ \A j \in 1..i : entries'[v][j] = entries[v][j]
      BY <1>4, <3>1, <3>3
    <3>6. QED
      BY <1>1, <3>4, <3>5
  <2>2. QED
    BY <1>3, <2>1 DEF SymbolsInOrder
<1>10. OpsHaveSymbols'
  <2>1. ASSUME NEW o \in 1..(f - 1)
        PROVE  \E v \in live' : \E i \in 1..Len(entries'[v]) :
                  entries'[v][i].kind = "op" /\ entries'[v][i].op = o /\ limit'[v] <= ops'[o].at
    <3>1. PICK v \in live : \E i \in 1..Len(entries[v]) :
                  entries[v][i].kind = "op" /\ entries[v][i].op = o /\ limit[v] <= ops[o].at
      BY <1>1 DEF IInv, OpsHaveSymbols
    <3>2. PICK i \in 1..Len(entries[v]) :
                  entries[v][i].kind = "op" /\ entries[v][i].op = o /\ limit[v] <= ops[o].at
      BY <3>1
    <3>3. limit[v] <= ops[f].at
      <4>1. o \in 1..Len(ops) /\ o < f
        BY <1>1
      <4>2. ops[o].at + Size(o) <= ops[f].at /\ Size(o) \in {0, 4}
        BY <1>1, <4>1, OpFacts
      <4>3. ops[o].at \in Nat /\ ops[f].at \in Nat /\ limit[v] \in Nat
        BY <1>1, <1>6, <4>1, OpFacts, LimitFacts
      <4>4. QED
        BY <3>2, <4>2, <4>3
    <3>4. v \in live' /\ i \in 1..Len(entries'[v])
      BY <1>1, <1>4, <3>2, <3>3
    <3>5. QED
      BY <1>3, <1>4, <3>2, <3>4
  <2>2. QED
    BY <1>3, <2>1 DEF OpsHaveSymbols
<1>11. NamesBeforeVocabularies'
  <2>1. \A v \in Vocs : (\E o \in 1..Len(ops) : ops[o].voc = v) <=> (v \in live /\ limit[v] # 0)
    BY <1>1 DEF IInv, NamesBeforeVocabularies, VocabularyWordsWork
  <2>2. ASSUME NEW v \in Vocs
        PROVE  (\E o \in 1..(f - 1) : ops'[o].voc = v) <=> (v \in live' /\ limit'[v] # 0)
    <3>1. ASSUME NEW o \in 1..(f - 1), ops'[o].voc = v
          PROVE  v \in live' /\ limit'[v] # 0
      <4>1. o \in 1..Len(ops) /\ o < f /\ ops[o].voc = v /\ ops[o].voc # NoVoc
        BY <1>1, <1>3, <3>1, VocabulariesAssumption
      <4>2. v \in live /\ limit[v] # 0
        BY <2>1, <4>1
      <4>3. limit[v] <= ops[f].at
        BY <4>1, NamedIsLeft
      <4>4. QED
        BY <1>4, <4>2, <4>3
    <3>2. ASSUME v \in live', limit'[v] # 0
          PROVE  \E o \in 1..(f - 1) : ops'[o].voc = v
      <4>1. v \in live /\ limit[v] # 0 /\ limit[v] <= ops[f].at
        BY <1>4, <3>2
      <4>2. PICK o \in 1..Len(ops) : ops[o].voc = v
        BY <2>1, <4>1
      <4>3. o < f
        BY <4>1, <4>2, NamedIsLeft, VocabulariesAssumption
      <4>4. QED
        BY <1>1, <1>3, <4>2, <4>3
    <3>3. QED
      BY <3>1, <3>2
  <2>3. ASSUME NEW o \in 1..(f - 1), ops'[o].voc # NoVoc
        PROVE  limit'[ops'[o].voc] = ops'[o].at + Cell
    <3>1. o \in 1..Len(ops) /\ ops'[o] = ops[o] /\ ops[o].voc \in Vocs
      BY <1>1, <1>3, <2>3, OpFacts
    <3>2. limit[ops[o].voc] = ops[o].at + Cell
      BY <1>1, <2>3, <3>1 DEF IInv, NamesBeforeVocabularies
    <3>3. ops[o].voc \in live'
      BY <2>2, <3>1
    <3>4. QED
      BY <1>4, <3>1, <3>2, <3>3
  <2>4. VocabularyWordsWork'
    BY <1>3, <2>2 DEF VocabularyWordsWork
  <2>5. QED
    BY <1>3, <1>4, <1>6, <2>3, <2>4 DEF NamesBeforeVocabularies
<1>12. SearchOrderIsLive'
  <2>1. \A i \in DOMAIN order' : order'[i] = Forth
    OBVIOUS
  <2>2. QED
    BY <1>6, <2>1 DEF SearchOrderIsLive
<1>13. FilesInOrder'
  <2>1. ASSUME NEW i \in 1..Len(loaded')
        PROVE  FileInOrder(i)'
    <3>1. Len(loaded) \in Nat /\ i \in 1..Len(loaded) /\ \A j \in 1..i : j \in 1..Len(loaded')
      BY <1>5, FileTypes DEF IInv
    <3>2. FileInOrder(i) /\ loaded[i].start \in Nat /\ ops[f].at \in Nat
      BY <1>1, <3>1, FileTypes, OpFacts DEF IInv, FilesInOrder
    <3>3. loaded'[i].start <= dp' /\ \A j \in 1..i : loaded'[j].start <= loaded'[i].start
      <4>1. loaded'[i] = loaded[i] /\ \A j \in 1..i : loaded'[j] = loaded[j]
        BY <1>5, <3>1
      <4>2. loaded[i].start <= ops[f].at
        BY <1>5, <3>2
      <4>3. QED
        BY <1>2, <3>2, <4>1, <4>2 DEF FileInOrder
    <3>4. loaded'[i].first <= f /\ NewOp' = f
      BY <1>1, <1>3, <1>5 DEF NewOp
    <3>5. loaded'[i].atStart => /\ loaded'[i].first \in 1..(f - 1)
                                /\ ops'[loaded'[i].first].at = loaded'[i].start
      BY <1>3, <1>5, <3>2 DEF FileInOrder
    <3>6. \A o \in 1..(f - 1) : o < loaded'[i].first => ops'[o].at <= loaded'[i].start
      BY <1>1, <1>3, <1>5, <3>2 DEF FileInOrder
    <3>7. QED
      BY <1>3, <3>3, <3>4, <3>5, <3>6 DEF FileInOrder
  <2>2. QED
    BY <2>1 DEF FilesInOrder
<1>14. QED
  BY <1>7, <1>8, <1>9, <1>10, <1>11, <1>12, <1>13 DEF IInv

LEMMA ForgetSymbolKeeps == ASSUME IInv, NEW n \in Names, ForgetSymbol(n) PROVE IInv'
<1>1. /\ Interpreting /\ order' = <<Forth>> /\ defs' = Forth /\ compiling' = compiling
      /\ Forth \in live /\ Forth \in Vocs
  BY VocabulariesAssumption DEF ForgetSymbol, IInv, NamesBeforeVocabularies
<1>2. PICK i \in 0..Len(order) :
        /\ FoundAt(n, i)
        /\ IF SymbolAt(n, i).kind = "op" /\ SymbolAt(n, i).op > 1
           THEN ForgetOp(SymbolAt(n, i).op)
           ELSE UNCHANGED <<ops, dp, entries, limit, live, loaded>>
  BY DEF ForgetSymbol
<1>3. CASE SymbolAt(n, i).kind = "op" /\ SymbolAt(n, i).op > 1
  <2>1. \E v \in live : \E k \in 1..Len(entries[v]) : SymbolAt(n, i) = entries[v][k]
    BY <1>2, FoundIsLive
  <2>2. SymbolAt(n, i).op \in 1..Len(ops)
    BY <1>3, <2>1 DEF IInv, VocTypeOK, SymbolsInOrder
  <2>3. SymbolAt(n, i).op \in 2..Len(ops)
    BY <1>3, <2>2, OpFacts
  <2>4. QED
    BY <1>1, <1>2, <1>3, <2>3, ForgetOpKeeps
<1>4. CASE ~(SymbolAt(n, i).kind = "op" /\ SymbolAt(n, i).op > 1)
  <2>1. UNCHANGED Unordered
    BY <1>1, <1>2, <1>4 DEF Unordered
  <2>2. order' \in Seq(live) /\ defs' \in live
    BY <1>1
  <2>3. QED
    BY <2>1, <2>2, OrderKeeps
<1>5. QED
  BY <1>3, <1>4

-----------------------------------------------------------------------------
(* Every step *)

LEMMA AliasKeeps ==
  ASSUME IInv, AnyAlias = FALSE, NEW n \in Names, NEW old \in Names, Alias(n, old)
  PROVE  IInv'
<1>1. PICK i \in 0..Len(order) :
        /\ FoundAt(old, i)
        /\ IsNewestOf(SymbolAt(old, i))
        /\ AddSymbol(n, SymbolAt(old, i).kind, SymbolAt(old, i).op, FALSE)
  BY DEF Alias
<1>2. PICK v \in live : \E k \in 1..Len(entries[v]) : SymbolAt(old, i) = entries[v][k]
  BY <1>1, FoundIsLive
<1>3. PICK k \in 1..Len(entries[v]) : SymbolAt(old, i) = entries[v][k]
  BY <1>2
<1>4. v \in Vocs /\ entries[v][k] \in Entries
  <2>1. v \in Vocs /\ VocTypeOK
    BY DEF IInv, VocTypeOK
  <2>2. QED
    BY <2>1, SymbolTypes
<1>5. /\ entries[v][k].kind \in {"op", "constant"} /\ entries[v][k].op \in Nat
      /\ entries[v][k].kind # "op" => entries[v][k].op = 0
      /\ entries[v][k].kind = "op" => entries[v][k].op \in 1..Len(ops)
  BY <1>4 DEF IInv, SymbolsInOrder, Entries
<1>6. entries[v][k].kind = "op" => \A j \in 1..Len(entries[defs]) : entries[defs][j].op <= entries[v][k].op
  <2>1. DOMAIN entries[defs] = 1..Len(entries[defs])
    BY SymbolTypes DEF IInv, VocTypeOK
  <2>2. QED
    BY <1>1, <1>3, <2>1 DEF IsNewestOf
<1>7. /\ AddSymbol(n, entries[v][k].kind, entries[v][k].op, FALSE)
      /\ UNCHANGED <<ops, dp, limit, live, order, defs, compiling, loaded>>
  BY <1>1, <1>3 DEF Alias
<1>8. QED
  BY <1>5, <1>6, <1>7, AddSymbolKeeps

LEMMA ConstantKeeps == ASSUME IInv, NEW n \in Names, Constant(n) PROVE IInv'
<1>1. /\ AddSymbol(n, "constant", 0, FALSE)
      /\ UNCHANGED <<ops, dp, limit, live, order, defs, compiling, loaded>>
  BY DEF Constant
<1>2. QED
  BY <1>1, AddSymbolKeeps

LEMMA DefiningKeeps ==
  ASSUME IInv, NEW n \in Names, Define(n) \/ Colon(n) \/ \E v \in Vocs : VocabularyWord(n, v)
  PROVE  IInv'
<1>1. dp \in Nat /\ VocTypeOK
  BY DEF IInv, VocTypeOK
<1>2. CASE Define(n)
  <2>1. /\ Interpreting /\ StartOpDefinition(n, FALSE, NoVoc, 1)
        /\ UNCHANGED <<limit, live, order, defs>> /\ compiling' \in {0, NewOp}
    BY <1>2 DEF Define, Interpreting
  <2>2. QED
    BY <2>1, NewWordKeeps
<1>3. CASE Colon(n)
  <2>1. /\ Interpreting /\ StartOpDefinition(n, TRUE, NoVoc, 0)
        /\ UNCHANGED <<limit, live, order, defs>> /\ compiling' \in {0, NewOp}
    BY <1>3 DEF Colon
  <2>2. QED
    BY <2>1, NewWordKeeps
<1>4. CASE \E v \in Vocs : VocabularyWord(n, v)
  <2>1. PICK v \in Vocs : VocabularyWord(n, v)
    BY <1>4
  <2>2. /\ Interpreting /\ StartOpDefinition(n, FALSE, v, 2) /\ NewVocabulary(v, AlignDP + Cell)
        /\ UNCHANGED <<order, defs>> /\ compiling' \in {0, NewOp}
    BY <2>1 DEF VocabularyWord, Interpreting
  <2>3. v # NoVoc
    BY VocabulariesAssumption
  <2>4. QED
    BY <2>2, <2>3, NewWordKeeps
<1>5. QED
  BY <1>2, <1>3, <1>4

LEMMA DefinitionEndKeeps == ASSUME IInv, Recursive \/ Semi PROVE IInv'
<1>1. dp \in Nat
  BY DEF IInv, VocTypeOK
<1>2. /\ ~Interpreting /\ UnSmudgeNewestSymbol /\ compiling' \in {0, compiling}
      /\ dp' \in Nat /\ dp' >= dp /\ UNCHANGED <<ops, limit, live, order, defs, loaded>>
  BY <1>1 DEF Recursive, Semi, Cell
<1>3. QED
  BY <1>2, UnSmudgeKeeps

\* The vocabularies from which the words for the search order choose.
LEMMA OrderFacts ==
  ASSUME IInv
  PROVE  /\ order \in Seq(live) /\ Len(order) \in Nat /\ defs \in live /\ Top \in live
         /\ Forth \in live /\ \A v \in live : SetTop(v) => order' \in Seq(live)
<1>1. /\ order \in Seq(Vocs) /\ defs \in live /\ Forth \in live /\ Root \in live
      /\ \A i \in DOMAIN order : order[i] \in live
  BY VocabulariesAssumption DEF IInv, VocTypeOK, SearchOrderIsLive, NamesBeforeVocabularies
<1>2. order \in Seq(live) /\ Len(order) \in Nat
  BY <1>1
<1>3. order # <<>> => Len(order) \in 1..Len(order)
  BY <1>2
<1>4. Top \in live
  BY <1>1, <1>2, <1>3 DEF Top
<1>5. ASSUME NEW v \in live, SetTop(v)
      PROVE  order' \in Seq(live)
  <2>1. CASE order = <<>>
    BY <1>5, <2>1 DEF SetTop
  <2>2. CASE order # <<>>
    <3>1. order' = [order EXCEPT ![Len(order)] = v]
      BY <1>5, <2>2 DEF SetTop
    <3>2. QED
      BY <1>2, <1>3, <2>2, <3>1, ExceptSeq
  <2>3. QED
    BY <2>1, <2>2
<1>6. QED
  BY <1>1, <1>2, <1>4, <1>5

LEMMA SetOrderKeeps ==
  ASSUME IInv, NEW k \in 1..(MaxDepth - 1), NEW s \in [1..k -> Vocs], SetOrder(s)
  PROVE  IInv'
<1>1. s \in Seq(Vocs) /\ Len(s) = k /\ k \in Nat
  BY VocabulariesAssumption
<1>2. PICK j \in 0..Len(s) : (\A i \in 1..j : s[i] \in live) /\ order' = SubSeq(s, 1, j)
  BY DEF SetOrder
<1>3. /\ SubSeq(s, 1, j) \in Seq(Vocs) /\ Len(SubSeq(s, 1, j)) = j
      /\ \A i \in 1..j : SubSeq(s, 1, j)[i] = s[i]
  BY <1>1, <1>2, SubSeqProperties
<1>4. order' \in Seq(live)
  <2>1. order' \in Seq(Vocs) /\ Len(order') = j /\ \A i \in 1..j : order'[i] \in live
    BY <1>2, <1>3
  <2>2. QED
    BY <2>1
<1>5. UNCHANGED <<Unordered, defs>> /\ defs \in live
  BY OrderFacts DEF SetOrder
<1>6. QED
  BY <1>4, <1>5, OrderKeeps

LEMMA SearchOrderKeeps ==
  ASSUME IInv, (\E n \in Names : DoVocab(n)) \/ (\E v \in Vocs : SetCurrent(v))
               \/ ForthVocab \/ Also \/ Previous \/ Only \/ Definitions
  PROVE  IInv'
<1>1. UNCHANGED Unordered
  BY DEF DoVocab, SetCurrent, ForthVocab, Also, Previous, Only, Definitions
<1>2. order' \in Seq(live) /\ defs' \in live
  <2>1. CASE \E n \in Names : DoVocab(n)
    <3>1. PICK n \in Names, i \in 0..Len(order) :
            /\ SymbolAt(n, i).op \in DOMAIN ops
            /\ ops[SymbolAt(n, i).op].voc # NoVoc
            /\ SetTop(ops[SymbolAt(n, i).op].voc)
      BY <2>1 DEF DoVocab
    <3>2. ops[SymbolAt(n, i).op].voc \in Vocs
      BY <3>1, OpFacts
    <3>3. ops[SymbolAt(n, i).op].voc \in live
      BY <3>1, <3>2 DEF IInv, NamesBeforeVocabularies, VocabularyWordsWork
    <3>4. QED
      BY <2>1, <3>1, <3>3, OrderFacts DEF DoVocab
  <2>2. CASE \E v \in Vocs : SetCurrent(v)
    BY <2>2, OrderFacts DEF SetCurrent
  <2>3. CASE ForthVocab
    BY <2>3, OrderFacts DEF ForthVocab
  <2>4. CASE Also
    BY <2>4, OrderFacts DEF Also
  <2>5. CASE Previous
    <3>1. order' = SubSeq(order, 1, Len(order) - 1) /\ order # <<>> /\ defs' = defs
      BY <2>5 DEF Previous
    <3>2. QED
      BY <3>1, OrderFacts
  <2>6. CASE Only
    BY <2>6, OrderFacts DEF Only
  <2>7. CASE Definitions
    BY <2>7, OrderFacts DEF Definitions
  <2>8. QED
    BY <2>1, <2>2, <2>3, <2>4, <2>5, <2>6, <2>7
<1>3. QED
  BY <1>1, <1>2, OrderKeeps

LEMMA StutterKeeps == ASSUME IInv, UNCHANGED vars PROVE IInv'
<1>1. UNCHANGED Unordered /\ order' = order /\ defs' = defs
  BY DEF vars, Unordered
<1>2. QED
  BY <1>1, OrderFacts, OrderKeeps

LEMMA NextKeeps == ASSUME IInv, AnyAlias = FALSE, [Next]_vars PROVE IInv'
<1>1. CASE \E n \in Names : \/ Define(n) \/ Colon(n)
                             \/ \E v \in Vocs : VocabularyWord(n, v)
  BY <1>1, DefiningKeeps
<1>2. CASE \E n \in Names : Constant(n) \/ ForgetSymbol(n) \/ \E old \in Names : Alias(n, old)
  BY <1>2, ConstantKeeps, ForgetSymbolKeeps, AliasKeeps
<1>3. CASE (\E n \in Names : DoVocab(n)) \/ (\E v \in Vocs : SetCurrent(v))
           \/ ForthVocab \/ Also \/ Previous \/ Only \/ Definitions
  BY <1>3, SearchOrderKeeps
<1>4. CASE \E v \in Vocs : Wordlist(v)
  BY <1>4, WordlistKeeps
<1>5. CASE \E k \in 1..(MaxDepth - 1) : \E s \in [1..k -> Vocs] : SetOrder(s)
  BY <1>5, SetOrderKeeps
<1>6. CASE Recursive \/ Semi \/ ErrorReset \/ Load
  BY <1>6, DefinitionEndKeeps, ErrorResetKeeps, LoadKeeps
<1>7. CASE \E units \in Allotted : Allot(units)
  BY <1>7, AllotKeeps
<1>8. CASE UNCHANGED vars
  BY <1>8, StutterKeeps
<1>9. QED
  BY <1>1, <1>2, <1>3, <1>4, <1>5, <1>6, <1>7, <1>8 DEF Next

LEMMA InvariantHolds == ASSUME AnyAlias = FALSE PROVE Spec => []IInv
<1>1. IInv /\ [Next]_vars => IInv'
  BY NextKeeps
<1>2. QED
  BY <1>1, InitIInv, PTL DEF Spec

-----------------------------------------------------------------------------

\* The tables keep their types.
THEOREM VocabulariesTypeCorrect == ASSUME AnyAlias = FALSE PROVE Spec => []VocTypeOK
<1>1. IInv => VocTypeOK
  BY DEF IInv
<1>2. QED
  BY <1>1, InvariantHolds, PTL

\* No symbol has the number of an operation that was forgotten
\* (Vocabulary::ForgetOp).
THEOREM ForgetForgets == ASSUME AnyAlias = FALSE PROVE Spec => []ForgottenOpsAreGone
<1>1. ASSUME IInv PROVE ForgottenOpsAreGone
  <2>1. ASSUME NEW v \in live, NEW i \in DOMAIN entries[v], entries[v][i].kind = "op"
        PROVE  entries[v][i].op <= Len(ops)
    <3>1. v \in Vocs /\ VocTypeOK
      BY <1>1 DEF IInv, VocTypeOK
    <3>2. i \in 1..Len(entries[v])
      BY <3>1, SymbolTypes
    <3>3. entries[v][i].op \in 1..Len(ops)
      BY <1>1, <2>1, <3>1, <3>2 DEF IInv, SymbolsInOrder
    <3>4. QED
      BY <3>3
  <2>2. QED
    BY <2>1 DEF ForgottenOpsAreGone
<1>2. QED
  BY <1>1, InvariantHolds, PTL

\* Forgetting leaves every older operation a symbol (OuterInterpreter::ForgetOp).
THEOREM ForgetKeepsOlder == ASSUME AnyAlias = FALSE PROVE Spec => []OlderWordsStay
<1>1. ASSUME IInv PROVE OlderWordsStay
  <2>1. ASSUME NEW o \in DOMAIN ops
        PROVE  \E v \in live : \E i \in DOMAIN entries[v] :
                  entries[v][i].kind = "op" /\ entries[v][i].op = o
    <3>1. PICK v \in live : \E i \in 1..Len(entries[v]) :
                  entries[v][i].kind = "op" /\ entries[v][i].op = o
      BY <1>1 DEF IInv, OpsHaveSymbols
    <3>2. v \in Vocs /\ VocTypeOK
      BY <1>1 DEF IInv, VocTypeOK
    <3>3. DOMAIN entries[v] = 1..Len(entries[v])
      BY <3>2, SymbolTypes
    <3>4. QED
      BY <3>1, <3>3
  <2>2. QED
    BY <2>1 DEF OlderWordsStay
<1>2. QED
  BY <1>1, InvariantHolds, PTL

\* The search order has only vocabularies that were not deleted
\* (OuterInterpreter::ForgetSymbol).
THEOREM SearchesLiveVocabularies == ASSUME AnyAlias = FALSE PROVE Spec => []SearchOrderIsLive
<1>1. IInv => SearchOrderIsLive
  BY DEF IInv
<1>2. QED
  BY <1>1, InvariantHolds, PTL

\* The name of a vocabulary and the vocabulary go together (vocabularyOp,
\* Forgettable::ForgetPropagate).
THEOREM NamesNameVocabularies == ASSUME AnyAlias = FALSE PROVE Spec => []VocabularyWordsWork
<1>1. IInv => VocabularyWordsWork
  BY DEF IInv, NamesBeforeVocabularies
<1>2. QED
  BY <1>1, InvariantHolds, PTL

\* The words a file was loaded upon are there as long as it counts as loaded,
\* and so is its own first word if it begins where the file does
\* (Shell::OnForget).
THEOREM LoadedFilesHaveWords == ASSUME AnyAlias = FALSE PROVE Spec => []LoadedFilesAreDefined
<1>1. ASSUME IInv PROVE LoadedFilesAreDefined
  <2>1. ASSUME NEW i \in DOMAIN loaded
        PROVE  /\ loaded[i].first <= Len(ops) + 1
               /\ loaded[i].atStart => loaded[i].first <= Len(ops)
    <3>1. i \in 1..Len(loaded)
      BY <1>1, FileTypes DEF IInv
    <3>2. loaded[i].first <= NewOp /\ (loaded[i].atStart => loaded[i].first \in 1..Len(ops))
      BY <1>1, <3>1 DEF IInv, FilesInOrder, FileInOrder
    <3>3. QED
      BY <3>2 DEF NewOp
  <2>2. QED
    BY <2>1 DEF LoadedFilesAreDefined
<1>2. QED
  BY <1>1, InvariantHolds, PTL

=============================================================================
