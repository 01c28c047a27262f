---------------------------- MODULE Vocabularies ----------------------------
(***************************************************************************)
(* The dictionary of one interpreter: the table of operations, the         *)
(* vocabularies that name them, the search order, and forgetting, which    *)
(* cuts all of them back to where an operation was defined                 *)
(* (ForthLib/Vocabulary.cpp, VocabularyStack.cpp, Forgettable.cpp,         *)
(* OuterInterpreter.cpp, Shell.cpp and the words in ForthOps.cpp).         *)
(*                                                                         *)
(* Operations are numbered from 1, the built-in ones are all 0.  Code and  *)
(* data are left out but for the room they take: an opcode takes a cell of *)
(* two units, and begins at an even address; data may take a single one.   *)
(***************************************************************************)
EXTENDS Naturals, Sequences, FiniteSets

CONSTANTS
    Vocs,         \* the Vocabulary objects there may be
    Forth,        \* OuterInterpreter::mpForthVocab
    Root,         \* OuterInterpreter::mpRootVocab
    NoVoc,        \* no vocabulary
    Names,        \* what words may be called
    MaxOps,       \* operations there may be
    MaxSymbols,   \* symbols there may be in all vocabularies
    MaxDepth,     \* VocabularyStack::mMaxDepth
    MaxLoaded,    \* files that may be loaded
    Bodies,       \* cells that may have been compiled when an error ends a definition
    Allotted,     \* units that data may take at once
    MaxData,      \* how far data may reach
    AnyAlias      \* are older words aliased, too?

ASSUME VocabulariesAssumption ==
    /\ {Forth, Root} \subseteq Vocs /\ Forth # Root
    /\ NoVoc \notin Vocs
    /\ MaxOps \in Nat /\ MaxSymbols \in Nat /\ MaxLoaded \in Nat
    /\ MaxDepth \in Nat \ {0, 1}
    /\ Bodies \subseteq Nat /\ Allotted \subseteq Nat /\ MaxData \in Nat
    /\ AnyAlias \in BOOLEAN

VARIABLES
    ops,          \* CoreState::ops, numOps: where an operation begins, and
                  \* the vocabulary it selects if it is a vocabulary's name
    dp,           \* Dictionary::pCurrent
    entries,      \* the symbols of a Vocabulary, the oldest first
    limit,        \* Forgettable::mpOpAddress of a Vocabulary
    live,         \* the vocabularies that were not deleted
    order,        \* VocabularyStack::mStack, the top last
    defs,         \* OuterInterpreter::mpDefinitionVocab
    compiling,    \* the operation whose definition is open, or 0
    loaded        \* Shell::mLoadedFiles

vars == <<ops, dp, entries, limit, live, order, defs, compiling, loaded>>

\* The operation of a symbol is 0 when it is a constant.
Entries == [name : Names, kind : {"op", "constant"}, op : Nat, smudged : BOOLEAN]

\* Of a file: where the dictionary was when it was opened, the number of its
\* first operation, and whether that has been defined right there (the last
\* two as history).
Files == [start : Nat, first : Nat, atStart : BOOLEAN]

VocTypeOK ==
    /\ ops \in Seq([at : Nat, voc : Vocs \cup {NoVoc}])
    /\ dp \in Nat
    /\ entries \in [Vocs -> Seq(Entries)]
    /\ limit \in [Vocs -> Nat]
    /\ live \subseteq Vocs
    /\ order \in Seq(Vocs)
    /\ defs \in Vocs
    /\ compiling \in 0..Len(ops)
    /\ loaded \in Seq(Files)

Cell == 2
AlignDP == dp + (dp % Cell)

\* The built-in words, and a first one from the start-up scripts.
Init ==
    /\ \E n \in Names :
        entries = [v \in Vocs |-> IF v = Forth
                                  THEN <<[name |-> n, kind |-> "op", op |-> 1, smudged |-> FALSE]>>
                                  ELSE <<>>]
    /\ ops = <<[at |-> 0, voc |-> NoVoc]>>
    /\ dp = Cell
    /\ limit = [v \in Vocs |-> 0]
    /\ live = {Forth, Root}
    /\ order = <<Forth>>
    /\ defs = Forth
    /\ compiling = 0
    /\ loaded = <<>>

Interpreting == compiling = 0

-----------------------------------------------------------------------------
(* Finding *)

\* The symbol with name n that is found in v, 0 if there is none: the newest,
\* and not one whose name is smudged.
Newest(v, n) ==
    LET found == {i \in 1..Len(entries[v]) : entries[v][i].name = n /\ ~entries[v][i].smudged}
    IN  IF found = {} THEN 0 ELSE CHOOSE i \in found : \A j \in found : j <= i

\* The vocabularies that are searched: the stack from its top, then the root.
Place(i) == IF i = 0 THEN Root ELSE order[i]

\* VocabularyStack::FindSymbol finds n at the place i ...
FoundAt(n, i) ==
    /\ Newest(Place(i), n) # 0
    /\ \A j \in (i + 1)..Len(order) : Newest(Place(j), n) = 0

\* ... and this is the symbol.
SymbolAt(n, i) == entries[Place(i)][Newest(Place(i), n)]

-----------------------------------------------------------------------------
(* Defining *)

Symbols == {s \in Vocs \X (1..MaxSymbols) : s[2] \in DOMAIN entries[s[1]]}

AddSymbol(n, kind, op, isSmudged) ==
    /\ Cardinality(Symbols) < MaxSymbols
    /\ entries' = [entries EXCEPT ![defs] =
                    Append(@, [name |-> n, kind |-> kind, op |-> op, smudged |-> isSmudged])]

NewOp == Len(ops) + 1

\* The operation op is defined where the file began.
IsFirstOf(file, op) == file.first = op /\ file.start = AlignDP

AddOp(voc) ==
    /\ NewOp <= MaxOps
    /\ ops' = Append(ops, [at |-> AlignDP, voc |-> voc])
    /\ loaded' = [i \in DOMAIN loaded |->
                    [loaded[i] EXCEPT !.atStart = @ \/ IsFirstOf(loaded[i], NewOp)]]

\* A word begins at the next even address, and takes so many cells at once.
StartOpDefinition(n, isSmudged, voc, cells) ==
    /\ AddOp(voc)
    /\ AddSymbol(n, "op", NewOp, isSmudged)
    /\ dp' = AlignDP + Cell * cells

\* create, variable and the other words that make a word at once.
Define(n) ==
    /\ Interpreting
    /\ StartOpDefinition(n, FALSE, NoVoc, 1)
    /\ UNCHANGED <<limit, live, order, defs, compiling>>

Colon(n) ==
    /\ Interpreting
    /\ StartOpDefinition(n, TRUE, NoVoc, 0)
    /\ compiling' = NewOp
    /\ UNCHANGED <<limit, live, order, defs>>

UnSmudgeNewestSymbol ==
    entries' = [entries EXCEPT ![defs][Len(entries[defs])].smudged = FALSE]

Recursive ==
    /\ ~Interpreting
    /\ UnSmudgeNewestSymbol
    /\ UNCHANGED <<ops, dp, limit, live, order, defs, compiling, loaded>>

Semi ==
    /\ ~Interpreting
    /\ dp' = dp + Cell
    /\ compiling' = 0
    /\ UnSmudgeNewestSymbol
    /\ UNCHANGED <<ops, limit, live, order, defs, loaded>>

\* Shell::ErrorReset, perhaps in the middle of a definition.  What it defined
\* stays, smudged, and so does the definitions vocabulary.
ErrorReset ==
    /\ order' = <<Forth>>
    /\ compiling' = 0
    /\ IF Interpreting THEN UNCHANGED dp ELSE \E cells \in Bodies : dp' = dp + Cell * cells
    /\ UNCHANGED <<ops, entries, limit, live, defs, loaded>>

\* A constant that fits into a symbol needs no operation.
Constant(n) ==
    /\ Interpreting
    /\ AddSymbol(n, "constant", 0, FALSE)
    /\ UNCHANGED <<ops, dp, limit, live, order, defs, compiling, loaded>>

\* No word in the definitions vocabulary is newer than the symbol.
IsNewestOf(e) ==
    e.kind = "constant" \/ \A i \in DOMAIN entries[defs] : entries[defs][i].op <= e.op

\* alias copies the value of the symbol.
Alias(n, old) ==
    /\ Interpreting
    /\ \E i \in 0..Len(order) :
        /\ FoundAt(old, i)
        /\ AnyAlias \/ IsNewestOf(SymbolAt(old, i))
        /\ AddSymbol(n, SymbolAt(old, i).kind, SymbolAt(old, i).op, FALSE)
    /\ UNCHANGED <<ops, dp, limit, live, order, defs, compiling, loaded>>

\* new Vocabulary
NewVocabulary(v, address) ==
    /\ v \notin live
    /\ live' = live \cup {v}
    /\ limit' = [limit EXCEPT ![v] = address]

\* Mutation: the vocabulary is made before the word that names it.
VocabularyWordEarly(n, v) ==
    /\ Interpreting
    /\ StartOpDefinition(n, FALSE, v, 2)
    /\ NewVocabulary(v, AlignDP)
    /\ UNCHANGED <<order, defs, compiling>>

\* vocabulary compiles OP_DO_VOCAB, makes the vocabulary with the address it
\* has then come to, and compiles the pointer to it.
VocabularyWord(n, v) ==
    /\ Interpreting
    /\ StartOpDefinition(n, FALSE, v, 2)
    /\ NewVocabulary(v, AlignDP + Cell)
    /\ UNCHANGED <<order, defs, compiling>>

\* allot, and the words that put data into the dictionary or align it.
Allot(units) ==
    /\ Interpreting
    /\ dp + units <= MaxData
    /\ dp' = dp + units
    /\ UNCHANGED <<ops, entries, limit, live, order, defs, compiling, loaded>>

\* wordlist: never forgotten.
Wordlist(v) ==
    /\ Interpreting
    /\ NewVocabulary(v, 0)
    /\ UNCHANGED <<ops, dp, entries, order, defs, compiling, loaded>>

-----------------------------------------------------------------------------
(* The search order *)

Top == IF order = <<>> THEN Root ELSE order[Len(order)]

SetTop(v) ==
    order' = IF order = <<>> THEN <<v>> ELSE [order EXCEPT ![Len(order)] = v]

Unordered == <<ops, dp, entries, limit, live, compiling, loaded>>

\* The word n is a vocabulary's name, or forth.
DoVocab(n) ==
    /\ Interpreting
    /\ \E i \in 0..Len(order) :
        /\ FoundAt(n, i)
        /\ SymbolAt(n, i).op \in DOMAIN ops
        /\ ops[SymbolAt(n, i).op].voc # NoVoc
        /\ SetTop(ops[SymbolAt(n, i).op].voc)
    /\ UNCHANGED <<Unordered, defs>>

ForthVocab == Interpreting /\ SetTop(Forth) /\ UNCHANGED <<Unordered, defs>>

\* VocabularyStack::DupTop
Also ==
    /\ Interpreting
    /\ Len(order) < MaxDepth - 1
    /\ order' = Append(order, Top)
    /\ UNCHANGED <<Unordered, defs>>

Previous ==
    /\ Interpreting
    /\ order # <<>>
    /\ order' = SubSeq(order, 1, Len(order) - 1)
    /\ UNCHANGED <<Unordered, defs>>

Only == Interpreting /\ order' = <<>> /\ UNCHANGED <<Unordered, defs>>

\* set-order comes as far as the first wordlist that is no more.
SetOrder(s) ==
    /\ Interpreting
    /\ \E k \in 0..Len(s) :
        /\ \A i \in 1..k : s[i] \in live
        /\ k < Len(s) => s[k + 1] \notin live
        /\ order' = SubSeq(s, 1, k)
    /\ UNCHANGED <<Unordered, defs>>

Definitions == Interpreting /\ defs' = Top /\ UNCHANGED <<Unordered, order>>

SetCurrent(v) == Interpreting /\ v \in live /\ defs' = v /\ UNCHANGED <<Unordered, order>>

-----------------------------------------------------------------------------
(* Forgetting *)

\* A file is opened (Shell::PushInputFile).
Load ==
    /\ Interpreting
    /\ Len(loaded) < MaxLoaded
    /\ loaded' = Append(loaded, [start |-> dp, first |-> NewOp, atStart |-> FALSE])
    /\ UNCHANGED <<ops, dp, entries, limit, live, order, defs, compiling>>

\* Mutation: a file that begins with what is forgotten stays.
OnForgetAfter(newDP) ==
    \E k \in 0..Len(loaded) :
        /\ k > 0 => loaded[k].start <= newDP
        /\ \A i \in (k + 1)..Len(loaded) : loaded[i].start > newDP
        /\ loaded' = SubSeq(loaded, 1, k)

\* Shell::OnForget drops the files at the end that begin at newDP or behind.
OnForget(newDP) ==
    \E k \in 0..Len(loaded) :
        /\ k > 0 => loaded[k].start < newDP
        /\ \A i \in (k + 1)..Len(loaded) : loaded[i].start >= newDP
        /\ loaded' = SubSeq(loaded, 1, k)

\* Mutation: of two operations with the same number the one is older.
IsForgottenAfter(e, f) == e.kind = "op" /\ e.op > f

\* A symbol that goes with the operation f, and one at which the search for
\* them ends.
IsForgotten(e, f) == e.kind = "op" /\ e.op >= f
IsOlder(e, f) == e.kind = "op" /\ e.op < f

\* The places in es at which Vocabulary::ForgetOp, coming from the newest,
\* finds a symbol that goes.
Forgotten(es, f) ==
    {i \in DOMAIN es : IsForgotten(es[i], f) /\ \A j \in (i + 1)..Len(es) : ~IsOlder(es[j], f)}

\* Mutation: the symbol after the last one that goes is gone as well.
CutFurther(es, f) ==
    IF Forgotten(es, f) = {} THEN es
    ELSE LET last == CHOOSE i \in Forgotten(es, f) : \A j \in Forgotten(es, f) : i <= j
         IN  SubSeq(es, 1, IF last > 1 THEN last - 2 ELSE 0)

\* Everything goes that is newer than the last of these, constants too.
Cut(es, f) ==
    IF Forgotten(es, f) = {} THEN es
    ELSE LET last == CHOOSE i \in Forgotten(es, f) : \A j \in Forgotten(es, f) : i <= j
         IN  SubSeq(es, 1, last - 1)

\* Forgettable::ForgetPropagate deletes vocabularies and cuts the others.
ForgetPropagate(newDP, f) ==
    /\ live' = {v \in live : limit[v] <= newDP}
    /\ entries' = [v \in Vocs |-> IF v \in live' THEN Cut(entries[v], f) ELSE <<>>]
    /\ limit' = [v \in Vocs |-> IF v \in live' THEN limit[v] ELSE 0]

\* OuterInterpreter::ForgetOp; there may be no such operation.
ForgetOp(f) ==
    IF f <= Len(ops)
    THEN /\ ops' = SubSeq(ops, 1, f - 1)
         /\ dp' = ops[f].at
         /\ OnForget(ops[f].at)
         /\ ForgetPropagate(ops[f].at, f)
    ELSE /\ ForgetPropagate(dp, f)
         /\ UNCHANGED <<ops, dp, loaded>>

\* Mutation: the search order is reset only if there was nothing to forget.
ForgetSymbolOnly(n) ==
    /\ Interpreting
    /\ \E i \in 0..Len(order) :
        /\ FoundAt(n, i)
        /\ IF SymbolAt(n, i).kind = "op" /\ SymbolAt(n, i).op > 1
           THEN ForgetOp(SymbolAt(n, i).op) /\ UNCHANGED <<order, defs>>
           ELSE /\ UNCHANGED <<ops, dp, entries, limit, live, loaded>>
                /\ order' = <<Forth>> /\ defs' = Forth
    /\ UNCHANGED compiling

\* OuterInterpreter::ForgetSymbol.  The first operation that is not built in
\* cannot be forgotten.
ForgetSymbol(n) ==
    /\ Interpreting
    /\ \E i \in 0..Len(order) :
        /\ FoundAt(n, i)
        /\ IF SymbolAt(n, i).kind = "op" /\ SymbolAt(n, i).op > 1
           THEN ForgetOp(SymbolAt(n, i).op)
           ELSE UNCHANGED <<ops, dp, entries, limit, live, loaded>>
    /\ order' = <<Forth>>
    /\ defs' = Forth
    /\ UNCHANGED compiling

-----------------------------------------------------------------------------

Next ==
    \/ \E n \in Names :
        \/ Define(n) \/ Colon(n) \/ Constant(n) \/ DoVocab(n) \/ ForgetSymbol(n)
        \/ \E old \in Names : Alias(n, old)
        \/ \E v \in Vocs : VocabularyWord(n, v)
    \/ \E v \in Vocs : Wordlist(v) \/ SetCurrent(v)
    \/ \E k \in 1..(MaxDepth - 1) : \E s \in [1..k -> Vocs] : SetOrder(s)
    \/ Recursive \/ Semi \/ ErrorReset
    \/ ForthVocab \/ Also \/ Previous \/ Only \/ Definitions
    \/ Load
    \/ \E units \in Allotted : Allot(units)

Spec == Init /\ [][Next]_vars

-----------------------------------------------------------------------------
(* Properties *)

\* What was forgotten cannot be found any more: no symbol has the number of
\* an operation that is gone, and that the next word defined would get
\* (Vocabulary::ForgetOp).
ForgottenOpsAreGone ==
    \A v \in live : \A i \in DOMAIN entries[v] :
        entries[v][i].kind = "op" => entries[v][i].op <= Len(ops)

\* What is older than the forgotten word stays: every operation that is left
\* has a symbol in a vocabulary that is left (OuterInterpreter::ForgetOp,
\* Forgettable::ForgetPropagate).
OlderWordsStay ==
    \A o \in DOMAIN ops : \E v \in live : \E i \in DOMAIN entries[v] :
        entries[v][i].kind = "op" /\ entries[v][i].op = o

\* Neither the search order nor the definitions vocabulary is ever a
\* vocabulary that was deleted (OuterInterpreter::ForgetSymbol).
SearchOrderIsLive ==
    /\ defs \in live
    /\ \A i \in DOMAIN order : order[i] \in live

\* A vocabulary goes exactly when the word that names it does, so that no
\* such word holds the pointer to a deleted one (vocabularyOp,
\* Forgettable::ForgetPropagate).
VocabularyWordsWork ==
    \A v \in Vocs :
        (\E o \in DOMAIN ops : ops[o].voc = v) <=> (v \in live /\ limit[v] # 0)

\* A file counts as loaded only as long as every word is there that it was
\* loaded upon, and its own first word, if that begins where the file did: no
\* data before it, no unit skipped to align it (Shell::OnForget).
LoadedFilesAreDefined ==
    \A i \in DOMAIN loaded :
        /\ loaded[i].first <= Len(ops) + 1
        /\ loaded[i].atStart => loaded[i].first <= Len(ops)

=============================================================================
