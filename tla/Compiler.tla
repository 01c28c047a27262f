------------------------------ MODULE Compiler ------------------------------
(***************************************************************************)
(* What happens between ":" and ";": the words of a definition, one after  *)
(* the other, are compiled into opcodes by OpcodeCompiler, which joins an  *)
(* opcode with the one before it where it can (the peephole), and by the   *)
(* control words, which keep the branches they owe on the control stack    *)
(* and, for break and continue, on a second stack of continuations.        *)
(* Then the definition is run: the inner interpreter goes through the      *)
(* opcodes while a reader of the source goes through the words, both are   *)
(* given the same outcome at every test, and they must do the same things  *)
(* in the same order.                                                      *)
(*                                                                         *)
(* Data is abstracted to the outcomes of tests.  An opcode is a record:    *)
(* its type, the words it performs, and where it branches to.              *)
(*                                                                         *)
(* Any word may be preceded by lines with #if, #ifdef, #else and #endif,   *)
(* by which the shell leaves out lines of the text, or by [if], [else] and *)
(* [endif], which leave out words.  The former keep a marker on the        *)
(* control stack too, the latter keep nothing.                             *)
(***************************************************************************)
EXTENDS Integers, Sequences, FiniteSets, FiniteSetsExt, SequencesExt

CONSTANTS
  Families,     \* what definitions are made of: records [words, length], the
                \* words they may use and a bound on how many
  MixedChains,  \* may a chain of andif and orif end without an else?
  ListsOfIf,    \* may several of and ofif clauses with an ofif share a body?
  OpsBeforeContinue, \* may a continue: come straight behind a word that does something?
  MaxSections   \* bound: sections of conditional compilation in one another

ASSUME CompilerAssumption ==
  /\ \A f \in Families : f.length \in Nat
  /\ MixedChains \in BOOLEAN /\ ListsOfIf \in BOOLEAN /\ OpsBeforeContinue \in BOOLEAN
  /\ MaxSections \in Nat

VARIABLES
  family,   \* the one of Families this definition is from
  words,    \* the words so far, without those that conditional compilation leaves out
  sections, \* history: the sections of conditional compilation that are open
  dict,     \* [code, peep]: the dictionary from the start of the definition
            \* on, and the addresses in mPeephole that are valid
  ctl,      \* the control stack, top last
  cont,     \* [stack, dest, count]: mContinuations, mContinueDestination, mContinueCount
  shell,    \* [skipping, depth]: SHELL_FLAG_SKIP_SECTION and mPoundIfDepth;
            \* [bracket, nested]: what the loop in [if] or [else] looks for
  run       \* where the interpreter and the reader are, or Idle

compilerVars == <<family, words, sections, dict, ctl, cont, shell, run>>

(* ----------------------------- the words ------------------------------ *)

Literals == {"lit", "int", "long"}   \* kOpConstant, OP_INT_VAL, OP_LONG_VAL
Varops   == {"vop", "ref"}           \* a store or fetch prefix, and OP_REF
Plain    == Literals \cup Varops \cup {"op", "cc", "var", "sref", "leave"}
Tests    == {"if", "elif", "andif", "orif"}
Closers  == {"endif", "until", "again", "repeat", "endcase", "loop", "loopn"}
Openers  == {"if", "ahead", "begin", "case", "do", "qdo"}
Loops    == {"begin", "case", "do", "qdo"}
Breaks    == {"break", "breakIf", "breakIfNot"}
Continues == {"continue", "continueIf", "continueIfNot"}
\* conditional compilation; an #if with the value it finds, an #ifdef or #ifndef
\* with whether it holds; [ifdef] and [ifundef] are an [if] then
PoundIfs == {"#if true", "#if false", "#ifdef true", "#ifdef false"}
BracketIfs == {"[if] true", "[if] false"}
PoundWords == PoundIfs \cup {"#else", "#endif"}
BracketWords == BracketIfs \cup {"[else]", "[endif]"}
Ifs == PoundIfs \cup BracketIfs
\* the words between an opener and its closer, and the closer
Middles == {"elif", "andif", "orif", "else", "while", "of", "ofif", "endof"} \cup Closers

(* --------------------- opcodes and the peephole ----------------------- *)

Opcode(type, ops) == [type |-> type, ops |-> ops, to |-> 0]
Branch(type, to) == [type |-> type, ops |-> <<>>, to |-> to]
Abort == Opcode("abort", <<>>)
Data  == Opcode("data", <<>>)

\* the longwords of immediate data behind an opcode
DataCells(c) ==
  CASE c.type \in {"native", "numop"} /\ c.ops[1] = "long" -> 2
    [] c.type \in {"native", "numop"} /\ c.ops[1] = "int"  -> 1
    [] c.type = "numop" /\ c.ops[1] = "lit" -> 1
    [] OTHER -> 0
WithData(c) == <<c>> \o [i \in 1..DataCells(c) |-> Data]

DP(d) == Len(d.code) + 1
ClearPeephole(d) == [d EXCEPT !.peep = <<>>]
Previous(d) == d.code[Last(d.peep)]     \* GetPreviousOpcode, when there is one
UncompileLast(d) == [code |-> SubSeq(d.code, 1, Last(d.peep) - 1), peep |-> Front(d.peep)]

CombinesRef(d, c) == c.type = "native" /\ Previous(d).type = "localref"
CombinesLiteral(d, c) ==
  /\ c.type \in {"native", "cc"}
  /\ Previous(d).type \in {"lit", "native"} /\ Previous(d).ops[1] \in Literals
\* Mutation: an opcode is joined whatever data follows it.
CombinesBranchWithData(d, c) ==
  /\ c.type \in {"branchZ", "branchNZ"}
  /\ Previous(d).type = "native"

CombinesBranch(d, c) ==
  /\ c.type \in {"branchZ", "branchNZ"}
  /\ Previous(d).type = "native"
  /\ DP(d) - Last(d.peep) = 1            \* only opcodes without immediate data
CombinesVarop(d, c) ==
  c.type = "var" /\ Previous(d).type = "native" /\ Previous(d).ops[1] \in Varops

Joined(d, c) ==
  LET both == Previous(d).ops \o c.ops IN
  CASE CombinesRef(d, c)     -> Opcode("refop", both)
    [] CombinesLiteral(d, c) -> Opcode("numop", both)
    [] CombinesBranch(d, c)  ->
         [type |-> IF c.type = "branchZ" THEN "opZ" ELSE "opNZ", ops |-> both, to |-> c.to]
    [] CombinesVarop(d, c)   ->
         Opcode(IF Previous(d).ops[1] = "ref" THEN "localref" ELSE "varvar", both)

CompileOpcode(d, c) ==
  IF d.peep # <<>> /\ (CombinesRef(d, c) \/ CombinesLiteral(d, c)
                       \/ CombinesBranch(d, c) \/ CombinesVarop(d, c))
  THEN [code |-> UncompileLast(d).code \o WithData(Joined(d, c)),
        peep |-> IF CombinesRef(d, c) THEN d.peep ELSE <<>>]
  ELSE [code |-> d.code \o WithData(c), peep |-> Append(d.peep, DP(d))]

CompileDummy(d) == ClearPeephole(CompileOpcode(ClearPeephole(d), Abort))

\* a branch that is not (or no longer) a conditional branch is left alone
Patched(c, type, to) ==
  CASE type = "branch" -> Branch("branch", to)
    [] c.type \in {"branchZ", "branchNZ"} -> Branch(type, to)
    [] c.type \in {"opZ", "opNZ"} ->
         [c EXCEPT !.type = IF type = "branchZ" THEN "opZ" ELSE "opNZ", !.to = to]
    [] OTHER -> c

\* fixes is a set of records [at, cell]
Patch(d, fixes) ==
  [d EXCEPT !.code = [a \in DOMAIN d.code |->
     IF \E x \in fixes : x.at = a THEN (CHOOSE x \in fixes : x.at = a).cell ELSE d.code[a]]]

Compiled(w) ==
  CASE w = "lit"  -> Opcode("lit", <<w>>)
    [] w = "cc"   -> Opcode("cc", <<w>>)
    [] w = "var"  -> Opcode("var", <<w>>)
    [] w = "sref" -> Opcode("localref", <<w>>)
    [] OTHER      -> Opcode("native", <<w>>)

\* ProcessConstant clears the peephole before it compiles a literal
CompileWord(d, w) == CompileOpcode(IF w \in Literals THEN ClearPeephole(d) ELSE d, Compiled(w))

(* ------------------- the control stack, continuations ----------------- *)

Entry(tag, addr, op) == [tag |-> tag, addr |-> addr, op |-> op]
Peek(k) == IF Len(ctl) > k THEN ctl[Len(ctl) - k] ELSE Entry("nothing", 0, 0)
Dropped(n) == SubSeq(ctl, 1, Len(ctl) - n)

StartLoop(c) ==
  [stack |-> Append(c.stack, [kind |-> "saved", addr |-> c.dest, type |-> "", op |-> c.count]),
   dest |-> 0, count |-> 0]
AddBranch(c, kind, addr, type) ==
  [c EXCEPT !.stack = Append(@, [kind |-> kind, addr |-> addr, type |-> type, op |-> 0]),
            !.count = @ + 1]

Pending(c) == {c.stack[i] : i \in (Len(c.stack) - c.count + 1)..Len(c.stack)}
\* what EndLoopContinuations reports as bad syntax
CanEndLoop(c, tag) ==
  /\ Len(c.stack) > c.count
  /\ \A p \in Pending(c) :
       IF p.kind = "break" THEN tag # "do" ELSE tag # "case" /\ c.dest # 0
\* Mutation: the outer loop's continue: is forgotten.
EndLoopForgets(c) ==
  LET saved == c.stack[Len(c.stack) - c.count] IN
  [stack |-> SubSeq(c.stack, 1, Len(c.stack) - c.count - 1),
   dest |-> 0, count |-> saved.op]

EndLoop(c) ==
  LET saved == c.stack[Len(c.stack) - c.count] IN
  [stack |-> SubSeq(c.stack, 1, Len(c.stack) - c.count - 1),
   dest |-> saved.addr, count |-> saved.op]
LoopFixes(c, d) ==
  {[at |-> p.addr, cell |-> Branch(p.type, IF p.kind = "break" THEN DP(d) ELSE c.dest)] :
     p \in Pending(c)}
EndOfLoop(d, c) == ClearPeephole(Patch(d, LoopFixes(c, d)))

(* --------------- chains of if, andif, orif, while, ]if ---------------- *)

ChainTags == {"if", "while", "elif"}
\* the entry the chain on top of the control stack starts with
ChainStart ==
  LET s == {k \in DOMAIN ctl : ctl[k].tag \notin {"andif", "orif"}} IN
  IF s = {} THEN 0 ELSE Max(s)
ChainOK == ChainStart > 0 /\ ctl[ChainStart].tag \in ChainTags

\* Walking down the chain, an andif moves trueIP, and an orif falseIP, behind
\* the test before it: entry k sees the move of the lowest entry above it.
MovedBy(tag, k, ip) ==
  LET s == {j \in k+1..Len(ctl) : ctl[j].tag = tag} IN
  IF s = {} THEN ip ELSE ctl[Min(s) - 1].addr + 1
ChainFix(k, trueIP, falseIP) ==
  LET followedByOr == k < Len(ctl) /\ ctl[k + 1].tag = "orif"
      addr == ctl[k].addr IN
  [at |-> addr, cell |-> IF followedByOr THEN Patched(dict.code[addr], "branchNZ", trueIP)
                                         ELSE Patched(dict.code[addr], "branchZ", falseIP)]
\* Mutation: a false test before an orif goes to the else.
ElseFixesFar ==
  {ChainFix(k, MovedBy("andif", k, Peek(0).addr + 1), DP(dict) + 1) : k \in ChainStart..Len(ctl)}

ElseFixes ==
  {ChainFix(k, MovedBy("andif", k, Peek(0).addr + 1), MovedBy("orif", k, DP(dict) + 1)) :
     k \in ChainStart..Len(ctl)}
\* endif moves neither of the two
EndifFixes == {ChainFix(k, Peek(0).addr + 1, DP(dict)) : k \in ChainStart..Len(ctl)}

(* -------------------------- the control words ------------------------- *)

\* Whether the text here is in, as its reader sees it.
Applies == \A i \in DOMAIN sections : sections[i].applies

Read(w) ==
  /\ words' = IF Applies THEN Append(words, w) ELSE words
  /\ UNCHANGED <<family, sections, shell, run>>

PlainWord(w) ==
  /\ w \in Plain
  /\ dict' = CompileWord(dict, w)
  /\ Read(w) /\ UNCHANGED <<ctl, cont>>

\* if, ]if, andif, orif and ahead
Test(w) ==
  /\ w \in Tests \cup {"ahead"}
  /\ LET d == CompileOpcode(dict, Branch(IF w = "ahead" THEN "branch" ELSE "branchZ", 0)) IN
       /\ dict' = ClearPeephole(d)
       /\ ctl' = Append(ctl, Entry(w, DP(d) - 1, 0))
  /\ Read(w) /\ UNCHANGED cont

AcceptsElse == \/ Peek(0).tag = "else"
               \/ /\ ChainOK
                  /\ ctl[ChainStart].tag = "elif" =>
                       ChainStart > 1 /\ ctl[ChainStart - 1].tag = "else"
Else(w) ==
  /\ w = "else" /\ AcceptsElse
  /\ IF Peek(0).tag = "else"
     THEN /\ dict' = CompileDummy(Patch(dict, {[at |-> Peek(0).addr,
                                                cell |-> Branch("branch", DP(dict) + 1)]}))
          /\ ctl' = Append(Dropped(1), Entry("else", DP(dict), 1))
     ELSE LET below == SubSeq(ctl, 1, ChainStart - 1)
              count == IF ctl[ChainStart].tag = "elif" THEN Last(below).op + 1 ELSE 1 IN
          /\ dict' = CompileDummy(Patch(dict, ElseFixes))
          /\ ctl' = Append(below, Entry("else", DP(dict), count))
  /\ Read(w) /\ UNCHANGED cont

\* Mutation: only the last else is fixed.
ElseBranchesLast(k) == {[at |-> ctl[k].addr, cell |-> Branch("branch", DP(dict))]}

\* the bodies before the else whose entry is ctl[k] branch to the endif
ElseBranches(k) ==
  {[at |-> ctl[j].addr, cell |-> Branch("branch", DP(dict))] : j \in (k - ctl[k].op + 1)..k}
ElsesOK(k) == k > 0 /\ ctl[k].tag = "else" /\ ctl[k].op <= k
              /\ \A j \in (k - ctl[k].op + 1)..k : ctl[j].tag = "else"
AcceptsEndif == \/ Peek(0).tag = "ahead"
                \/ Peek(0).tag = "else" /\ ElsesOK(Len(ctl))
                \/ ChainOK /\ (ctl[ChainStart].tag = "elif" => ElsesOK(ChainStart - 1))
Endif(w) ==
  /\ w = "endif" /\ AcceptsEndif
  /\ LET k == CASE Peek(0).tag = "else" -> Len(ctl)
                [] Peek(0).tag = "ahead" -> 0
                [] ctl[ChainStart].tag = "elif" -> ChainStart - 1
                [] OTHER -> 0
         elses == IF k = 0 THEN {} ELSE ElseBranches(k)
         chain == CASE Peek(0).tag = "else" -> {}
                    [] Peek(0).tag = "ahead" ->
                         {[at |-> Peek(0).addr, cell |-> Branch("branch", DP(dict))]}
                    [] OTHER -> EndifFixes
         left == CASE k > 0 -> k - ctl[k].op
                   [] Peek(0).tag = "ahead" -> Len(ctl) - 1
                   [] OTHER -> ChainStart - 1 IN
       /\ dict' = ClearPeephole(Patch(dict, chain \cup elses))
       /\ ctl' = SubSeq(ctl, 1, left)
  /\ Read(w) /\ UNCHANGED cont

\* Mutation: the opcode before begin may be joined with the one behind it.
BeginOpen(w) ==
  /\ w = "begin"
  /\ ctl' = Append(ctl, Entry("begin", DP(dict), 0))
  /\ cont' = StartLoop(cont)
  /\ Read(w) /\ UNCHANGED dict

Begin(w) ==
  /\ w = "begin"
  /\ ctl' = Append(ctl, Entry("begin", DP(dict), 0))
  /\ cont' = StartLoop(cont)
  /\ dict' = ClearPeephole(dict)
  /\ Read(w)

While(w) ==
  /\ w = "while" /\ Peek(0).tag = "begin"
  /\ LET d == CompileOpcode(dict, Branch("branchZ", 0)) IN
       /\ dict' = ClearPeephole(d)
       /\ ctl' = Dropped(1) \o <<Entry("while", DP(d) - 1, 0), Peek(0)>>
  /\ Read(w) /\ UNCHANGED cont

AcceptsUntil == Peek(0).tag = "begin" /\ CanEndLoop(cont, "begin")
Until(w) ==
  /\ w = "until" /\ AcceptsUntil
  /\ LET d == CompileOpcode(dict, Branch("branchZ", 0))
         at == DP(d) - 1 IN
       dict' = EndOfLoop(Patch(d, {[at |-> at, cell |-> Patched(d.code[at], "branchZ", Peek(0).addr)]}),
                         cont)
  /\ ctl' = Dropped(1) /\ cont' = EndLoop(cont)
  /\ Read(w)

Again(w) ==
  /\ w = "again" /\ AcceptsUntil
  /\ dict' = EndOfLoop(CompileOpcode(dict, Branch("branch", Peek(0).addr)), cont)
  /\ ctl' = Dropped(1) /\ cont' = EndLoop(cont)
  /\ Read(w)

AcceptsRepeat == AcceptsUntil /\ Peek(1).tag \in {"while", "if"}
Repeat(w) ==
  /\ w = "repeat" /\ AcceptsRepeat
  /\ LET at == Peek(1).addr
         d == Patch(dict, {[at |-> at, cell |-> Patched(dict.code[at], "branchZ", DP(dict) + 1)]}) IN
       dict' = EndOfLoop(CompileOpcode(d, Branch("branch", Peek(0).addr)), cont)
  /\ ctl' = Dropped(2) /\ cont' = EndLoop(cont)
  /\ Read(w)

\* an entry's op is the _do or _?do that loop will put at its address
Do(w) ==
  /\ w \in {"do", "qdo"}
  /\ ctl' = Append(ctl, Entry("do", DP(dict), w))
  /\ LET d == CompileDummy(dict) IN dict' = [d EXCEPT !.code = Append(@, Data)]
  /\ cont' = StartLoop(cont)
  /\ Read(w)

AcceptsLoop == Peek(0).tag = "do" /\ CanEndLoop(cont, "do")
Loop(w) ==
  /\ w \in {"loop", "loopn"} /\ AcceptsLoop
  /\ LET d == CompileOpcode(dict, Compiled(w))
         at == Peek(0).addr IN
       dict' = EndOfLoop(Patch(d, {[at |-> at, cell |-> Compiled(Peek(0).op)],
                                   [at |-> at + 1, cell |-> Branch("branch", DP(d))]}), cont)
  /\ ctl' = Dropped(1) /\ cont' = EndLoop(cont)
  /\ Read(w)

\* Mutation: case leaves the continuations of the loop around it in place.
CaseUnsaved(w) ==
  /\ w = "case"
  /\ ctl' = Append(ctl, Entry("case", 0, 0))
  /\ dict' = ClearPeephole(dict)
  /\ Read(w) /\ UNCHANGED cont

Case(w) ==
  /\ w = "case"
  /\ ctl' = Append(ctl, Entry("case", 0, 0))
  /\ cont' = StartLoop(cont)
  /\ dict' = ClearPeephole(dict)
  /\ Read(w)

\* a literal just compiled (GetLastConstant) is taken back and put into the case branch
LastConstant(d) == d.peep # <<>> /\ Previous(d).type \in {"lit", "native"}
                   /\ Previous(d).ops[1] \in {"lit", "int"}
Of(w) ==
  /\ w = "of"
  /\ LET ex == LastConstant(dict)
         d == IF ex THEN UncompileLast(dict) ELSE dict IN
       /\ ctl' = Append(ctl, IF ex THEN Entry("ofEx", DP(d), Previous(dict).ops[1])
                                   ELSE Entry("of", DP(d), 0))
       /\ dict' = CompileDummy(d)
  /\ Read(w) /\ UNCHANGED cont

OfIf(w) ==
  /\ w = "ofif"
  /\ ctl' = Append(ctl, Entry("ofif", DP(dict), 0))
  /\ dict' = ClearPeephole(CompileOpcode(CompileDummy(dict), Compiled("drop")))
  /\ Read(w) /\ UNCHANGED cont

OfTags == {"of", "ofEx", "ofif"}
CaseEntry == LET s == {k \in DOMAIN ctl : ctl[k].tag \notin OfTags} IN IF s = {} THEN 0 ELSE Max(s)
AcceptsEndof == CaseEntry > 0 /\ ctl[CaseEntry].tag = "case"
OfFix(k, here) ==
  LET e == ctl[k]
      last == k = Len(ctl)
      to == IF last THEN here ELSE Peek(0).addr + 1
      type == CASE e.tag = "ofif" -> IF last THEN "branchZ" ELSE "branchNZ"
                [] OTHER -> IF last THEN "caseF" ELSE "caseT" IN
  [at |-> e.addr, cell |-> [Branch(type, to) EXCEPT !.ops = IF e.tag = "ofEx" THEN <<e.op>> ELSE <<>>]]
Endof(w) ==
  /\ w = "endof" /\ AcceptsEndof
  /\ LET d == CompileDummy(dict) IN
       dict' = Patch(d, {OfFix(k, DP(d)) : k \in CaseEntry+1..Len(ctl)})
  /\ ctl' = Append(SubSeq(ctl, 1, CaseEntry), Entry("case", DP(dict), 0))
  /\ Read(w) /\ UNCHANGED cont

CaseBase == LET s == {k \in DOMAIN ctl : ctl[k].tag = "case" /\ ctl[k].addr = 0} IN
            IF s = {} THEN 0 ELSE Max(s)
AcceptsEndcase == /\ Peek(0).tag = "case" /\ CaseBase > 0 /\ CanEndLoop(cont, "case")
                  /\ \A k \in CaseBase..Len(ctl) : ctl[k].tag = "case"
Endcase(w) ==
  /\ w = "endcase" /\ AcceptsEndcase
  /\ LET d == CompileOpcode(dict, Compiled("drop")) IN
       dict' = EndOfLoop(Patch(d, {[at |-> ctl[k].addr, cell |-> Branch("branch", DP(d))] :
                                     k \in CaseBase+1..Len(ctl)}), cont)
  /\ ctl' = SubSeq(ctl, 1, CaseBase - 1) /\ cont' = EndLoop(cont)
  /\ Read(w)

\* continue: leaves the peephole as it is: the opcode before it may be joined
\* with the one behind it, and the destination then is no opcode's (which is
\* why OpsBeforeContinue is a parameter)
ContinueHere(w) ==
  /\ w = "continue:"
  /\ cont' = [cont EXCEPT !.dest = DP(dict)]
  /\ Read(w) /\ UNCHANGED <<dict, ctl>>

BranchOf(w) == CASE w \in {"break", "continue"} -> "branch"
                 [] w \in {"breakIf", "continueIf"} -> "branchNZ"
                 [] OTHER -> "branchZ"
Leaves(w) ==
  /\ w \in Breaks \cup Continues
  /\ cont' = AddBranch(cont, IF w \in Breaks THEN "break" ELSE "continue", DP(dict), BranchOf(w))
  /\ dict' = CompileDummy(dict)
  /\ Read(w) /\ UNCHANGED ctl

(* ---------------------- conditional compilation ----------------------- *)

SectionsAfter(w) ==
  CASE w \in Ifs ->
         Append(sections, [pound |-> w \in PoundIfs, from |-> Len(words), else |-> FALSE,
                           applies |-> w \in {"#if true", "#ifdef true", "[if] true"}])
    [] w \in {"#else", "[else]"} ->
         Append(Front(sections), [Last(sections) EXCEPT !.applies = ~@, !.else = TRUE])
    [] w \in {"#endif", "[endif]"} -> Front(sections)
ReadDirective(w) ==
  /\ sections' = SectionsAfter(w)
  /\ UNCHANGED <<family, words, dict, cont, run>>

SkipsLines == shell.skipping
SkipsWords == shell.bracket # "none"
Skipping == SkipsLines \/ SkipsWords
Skip == shell' = [shell EXCEPT !.skipping = TRUE, !.depth = 0]
Mark == ctl' = Append(ctl, Entry("#if", 0, 0))

\* the rest of the line has been interpreted, and compiling goes on
PoundIf(w) ==
  /\ w \in {"#if true", "#if false"} /\ ~Skipping
  /\ Mark
  /\ IF w = "#if false" THEN Skip ELSE UNCHANGED shell
  /\ ReadDirective(w)

\* no marker is left when the condition holds
PoundIfdef(w) ==
  /\ w \in {"#ifdef true", "#ifdef false"} /\ ~Skipping
  /\ IF w = "#ifdef false" THEN Mark /\ Skip ELSE UNCHANGED <<ctl, shell>>
  /\ ReadDirective(w)

PoundElse(w) ==
  /\ w = "#else" /\ ~Skipping /\ Peek(0).tag = "#if"
  /\ shell' = [shell EXCEPT !.skipping = TRUE]
  /\ ReadDirective(w) /\ UNCHANGED ctl

PoundEndif(w) ==
  /\ w = "#endif" /\ ~Skipping /\ Peek(0).tag = "#if"
  /\ ctl' = Dropped(1)
  /\ ReadDirective(w) /\ UNCHANGED shell

\* Mutation: sections in a skipped section are not counted.
SkipLineUncounted(w) ==
  /\ w \in PoundWords \cup BracketWords /\ SkipsLines
  /\ w = "#endif" => Peek(0).tag = "#if"
  /\ shell' = [shell EXCEPT !.skipping = @ /\ w \notin {"#else", "#endif"}]
  /\ IF w = "#endif" THEN ctl' = Dropped(1) ELSE UNCHANGED ctl
  /\ ReadDirective(w)

\* ProcessLine while skipping: only the first word of a line is looked at.
SkipLine(w) ==
  /\ w \in PoundWords \cup BracketWords /\ SkipsLines
  /\ w = "#endif" /\ shell.depth = 0 => Peek(0).tag = "#if"
  /\ shell' = CASE w \in PoundIfs -> [shell EXCEPT !.depth = @ + 1]
                 [] w \in {"#else", "#endif"} /\ shell.depth = 0 ->
                      [shell EXCEPT !.skipping = FALSE]
                 [] w = "#endif" /\ shell.depth > 0 -> [shell EXCEPT !.depth = @ - 1]
                 [] OTHER -> shell
  /\ IF w = "#endif" /\ shell.depth = 0 THEN ctl' = Dropped(1) ELSE UNCHANGED ctl
  /\ ReadDirective(w)

BracketIf(w) ==
  /\ w \in BracketIfs /\ ~Skipping
  /\ shell' = IF w = "[if] false" THEN [shell EXCEPT !.bracket = "[else]", !.nested = 0]
                                  ELSE shell
  /\ ReadDirective(w) /\ UNCHANGED ctl

BracketElse(w) ==
  /\ w = "[else]" /\ ~Skipping
  /\ shell' = [shell EXCEPT !.bracket = "[endif]", !.nested = 0]
  /\ ReadDirective(w) /\ UNCHANGED ctl

BracketEndif(w) ==
  /\ w = "[endif]" /\ ~Skipping
  /\ ReadDirective(w) /\ UNCHANGED <<ctl, shell>>

\* the loops in [if] and [else], which read on themselves
SkipText(w) ==
  /\ w \in PoundWords \cup BracketWords /\ SkipsWords
  /\ shell' = CASE w \in BracketIfs -> [shell EXCEPT !.nested = @ + 1]
                 [] w \in {"[endif]", shell.bracket} /\ shell.nested = 0 ->
                      [shell EXCEPT !.bracket = "none"]
                 [] w = "[endif]" /\ shell.nested > 0 -> [shell EXCEPT !.nested = @ - 1]
                 [] OTHER -> shell
  /\ ReadDirective(w) /\ UNCHANGED ctl

(* ------------------ the source, as its reader sees it ----------------- *)

Count(S, a, b) == Cardinality({i \in a..b : words[i] \in S})
Open(a, b) == Count(Openers, a, b) - Count(Closers, a, b)
\* the word that opened the structure word i belongs to, and all its words
Owner(i) == LET s == {j \in 1..i-1 : Open(j, i - 1) = 1 /\ words[j] \in Openers} IN
            IF s = {} THEN 0 ELSE Max(s)
EndOf(o) == Min({k \in o..Len(words) : Open(o, k) = 0})
Parts(o) == {k \in o..Len(words) : k = o \/ (words[k] \in Middles /\ Owner(k) = o)}
Before(S, i) == IF \E k \in S : k < i THEN Max({k \in S : k < i}) ELSE 0
After(S, i)  == Min({k \in S : k > i})

\* a chain: its if or ]if, and the andif and orif up to the else or endif
GroupOf(i) == IF words[i] = "if" THEN i ELSE Owner(i)
ChainOf(i) ==
  LET g == GroupOf(i)
      first == Max({k \in Parts(g) : k <= i /\ words[k] \in {"if", "elif"}})
      next == {k \in Parts(g) : k > first /\ words[k] \notin {"andif", "orif"}} IN
  {k \in Parts(g) : k >= first /\ \A n \in next : k < n}
\* the value so far decides up to the next connective that can change it
ReadOn(i, connective, otherwise) ==
  LET s == {k \in ChainOf(i) : k > i /\ words[k] = connective} IN
  IF s = {} THEN otherwise ELSE Before(ChainOf(i), Min(s)) + 1
WhenTrue(i)  == ReadOn(i, "andif", Max(ChainOf(i)) + 1)
WhenFalse(i) == ReadOn(i, "orif", After(Parts(GroupOf(i)), Max(ChainOf(i))) + 1)

LoopAround(i) == LET s == {j \in 1..i-1 : words[j] \in Loops
                                          /\ \A k \in j..i-1 : Open(j, k) > 0} IN
                 IF s = {} THEN 0 ELSE Max(s)
DoAround(i) == LET s == {j \in 1..i-1 : words[j] \in {"do", "qdo"}
                                        /\ \A k \in j..i-1 : Open(j, k) > 0} IN
               IF s = {} THEN 0 ELSE Max(s)
Spot(l) == CHOOSE k \in l..Len(words) : words[k] = "continue:" /\ LoopAround(k) = l
Clauses(i) ==    \* the of and ofif that share word i's case body
  LET p == {k \in Parts(Owner(i)) : words[k] \in {"case", "endof"} /\ k < i} IN
  {k \in Parts(Owner(i)) : k > Max(p) /\ words[k] \in {"of", "ofif"}
                           /\ ~\E e \in Parts(Owner(i)) : words[e] = "endof" /\ Max(p) < e /\ e < k}

\* what a word does, in order: the last may decide where to go on
Doings(w) ==
  CASE w \in Plain \cup {"do", "qdo", "loop", "loopn"} -> <<w>>
    [] w \in Tests \cup {"while", "until", "breakIf", "breakIfNot", "continueIf", "continueIfNot"} -> <<"test">>
    [] w = "of"      -> <<"match">>
    [] w = "ofif"    -> <<"test", "drop">>
    [] w = "endcase" -> <<"drop">>
    [] OTHER         -> <<>>

\* where the reader goes on after word i, whose last decision was b
Onward(i, b) ==
  LET w == words[i]
      o == Owner(i)
      leave == IF w \in Breaks THEN EndOf(LoopAround(i)) + 1 ELSE Spot(LoopAround(i)) + 1 IN
  CASE w = "leave" -> EndOf(DoAround(i)) + 1
    [] w \in Tests -> IF b THEN WhenTrue(i) ELSE WhenFalse(i)
    [] w = "else"  -> LET next == After(Parts(o), i) IN
                      IF words[next] = "else" THEN next + 1 ELSE EndOf(o) + 1
    [] w = "ahead" -> EndOf(i) + 1
    [] w = "while" -> IF b THEN i + 1 ELSE EndOf(o) + 1
    [] w \in {"repeat", "again"} -> o + 1
    [] w = "until" -> IF b THEN i + 1 ELSE o + 1
    [] w = "qdo"   -> IF b THEN i + 1 ELSE EndOf(i) + 1
    [] w \in {"loop", "loopn"} -> IF b THEN o + 1 ELSE i + 1
    [] w \in {"of", "ofif"} -> CASE b -> Max(Clauses(i)) + 1
                                 [] ~b /\ i # Max(Clauses(i)) -> i + 1
                                 [] OTHER -> After({k \in Parts(o) : words[k] = "endof"}, i) + 1
    [] w = "endof" -> EndOf(o) + 1
    [] w \in {"break", "continue"} -> leave
    [] w \in {"breakIf", "continueIf"} -> IF b THEN leave ELSE i + 1
    [] w \in {"breakIfNot", "continueIfNot"} -> IF b THEN i + 1 ELSE leave
    [] OTHER -> i + 1

(* ----------------------- which words may come next -------------------- *)

\* Structured programs: what the next word may be, by the words alone.
Last1(o) == Max(Parts(o))
Has(l, S) == \E k \in l..Len(words) : words[k] \in S /\ LoopAround(k) = l
AtStatement == words = <<>> \/ words[Len(words)] \notin Plain
\* the structure that is open here was opened before the innermost #if
Closed(o) ==
  LET within == {i \in DOMAIN sections : sections[i].pound} IN
  within # {} /\ o <= sections[Max(within)].from
FitsDirective(w) ==
  CASE w \in Ifs -> Len(sections) < MaxSections
    [] w \in {"#else", "#endif"} ->
         /\ Closed(Owner(Len(words) + 1)) /\ sections # <<>> /\ Last(sections).pound
         /\ w = "#else" => ~Last(sections).else
    [] w \in {"[else]", "[endif]"} ->
         sections # <<>> /\ ~Last(sections).pound /\ (w = "[else]" => ~Last(sections).else)
\* the connectives and closers go by the structure they belong to
FitsMiddle(w) ==
  LET o == Owner(Len(words) + 1)
      part == IF o = 0 THEN "" ELSE words[Last1(o)]
      opener == IF o = 0 THEN "" ELSE words[o]
      elses == {k \in Parts(o) : words[k] = "else"}
      chain == {words[k] : k \in ChainOf(Last1(o))}
      endsLoop == Has(o, Continues) => Has(o, {"continue:"}) IN
  CASE w = "elif" -> opener = "if" /\ part = "else" /\ Cardinality(elses) = 1
    [] w \in {"andif", "orif"} -> opener = "if" /\ part # "else"
    [] w = "else" -> opener = "if" /\ (part = "else" =>
                        Cardinality(elses) = 1 /\ ~\E k \in Parts(o) : words[k] = "elif")
    [] w = "endif" -> opener \in {"if", "ahead"} /\ (opener = "if" /\ part # "else" =>
                        (MixedChains \/ ~{"andif", "orif"} \subseteq chain))
    [] w = "while" -> opener = "begin" /\ part = "begin"
    [] w \in {"until", "again"} -> opener = "begin" /\ part = "begin" /\ endsLoop
    [] w = "repeat" -> opener = "begin" /\ part = "while" /\ endsLoop
    [] w \in {"loop", "loopn"} -> opener \in {"do", "qdo"} /\ endsLoop
    [] w \in {"of", "ofif"} -> opener = "case" /\ (part \in {"of", "ofif"} =>
                        ListsOfIf \/ (part = "of" /\ w = "of"))
    [] w = "endof" -> opener = "case" /\ part \in {"of", "ofif"}
    [] w = "endcase" -> opener = "case" /\ part \in {"case", "endof"}
FitsWord(w) ==
  LET n == Len(words) + 1
      around == LoopAround(n) IN
  CASE w \in Middles -> ~Closed(Owner(n)) /\ FitsMiddle(w)
    [] w = "leave" -> DoAround(n) > 0
    [] w \in (Plain \ {"leave"}) \cup Openers -> TRUE
    [] w = "continue:" -> around > 0 /\ words[around] # "case"
                          /\ ~Has(around, {"continue:"}) /\ (OpsBeforeContinue \/ AtStatement)
    [] w \in Continues -> around > 0 /\ words[around] # "case"
    [] w \in Breaks -> around > 0 /\ words[around] \in {"begin", "case"}
    [] w = ";" -> Owner(n) = 0 /\ sections = <<>>
Fits(w) == IF w \in PoundWords \cup BracketWords THEN FitsDirective(w)
           ELSE IF Applies THEN FitsWord(w) ELSE w # ";"

\* What is neither skipped nor refused by CheckSyntaxError, by
\* EndLoopContinuations, by the directives or by ";".
AcceptsDirective(w) ==
  w \in {"#else", "#endif"} => \/ SkipsWords
                               \/ SkipsLines /\ (w = "#else" \/ shell.depth > 0)
                               \/ Peek(0).tag = "#if"
AcceptsWord(w) ==
  CASE w = "else" -> AcceptsElse
    [] w = "endif" -> AcceptsEndif
    [] w = "while" -> Peek(0).tag = "begin"
    [] w \in {"until", "again"} -> AcceptsUntil
    [] w = "repeat" -> AcceptsRepeat
    [] w \in {"loop", "loopn"} -> AcceptsLoop
    [] w = "endof" -> AcceptsEndof
    [] w = "endcase" -> AcceptsEndcase
    [] w = ";" -> Peek(0).tag = "colon" /\ cont.count = 0
    [] OTHER -> TRUE
Accepts(w) == IF w \in PoundWords \cup BracketWords THEN AcceptsDirective(w)
              ELSE IF Skipping THEN ~Applies ELSE AcceptsWord(w)

(* ------------------------- running a definition ----------------------- *)

Idle == [ip |-> 0, k |-> 0, rp |-> <<>>, at |-> 0, n |-> 0]

Deciding == {"test", "match", "qdo", "loop", "loopn"}
\* what an opcode does, in order
CellDoings(c) ==
  CASE c.type \in {"branchZ", "branchNZ", "opZ", "opNZ"} -> Append(c.ops, "test")
    [] c.type \in {"caseT", "caseF"} -> Append(c.ops, "match")
    [] c.type = "branch" -> <<>>
    [] c.type \in {"abort", "data"} -> <<c.type>>
    [] OTHER -> c.ops
NextCell(ip) == ip + 1 + DataCells(dict.code[ip])

\* the interpreter behind its k-th doing, decided by b; kept is the return stack
Advance(r, b) ==
  LET c == dict.code[r.ip]
      doing == CellDoings(c)[r.k]
      jumps == CASE c.type \in {"branchZ", "opZ", "caseF"} -> ~b
                 [] OTHER -> b
      enters == doing = "do" \/ (doing = "qdo" /\ b)
      goes == enters \/ doing \in {"test", "match", "loop", "loopn", "leave"}
      To(ip, rp) == [r EXCEPT !.ip = ip, !.k = 1, !.rp = rp] IN
  CASE doing \in {"test", "match"} -> To(IF jumps THEN c.to ELSE NextCell(r.ip), r.rp)
    [] enters -> To(r.ip + 2, Append(r.rp, r.ip + 2))
    [] doing \in {"loop", "loopn"} ->
         IF b THEN To(Last(r.rp), r.rp) ELSE To(NextCell(r.ip), Front(r.rp))
    [] doing = "leave" -> To(Last(r.rp) - 1, Front(r.rp))
    [] ~goes /\ r.k < Len(CellDoings(c)) -> [r EXCEPT !.k = @ + 1]
    [] OTHER -> To(NextCell(r.ip), r.rp)

\* the reader behind its n-th doing
Turn(r, b) ==
  IF Doings(words[r.at])[r.n] = "test" /\ words[r.at] = "ofif" /\ b
  THEN [r EXCEPT !.n = 2]
  ELSE [r EXCEPT !.n = 1, !.at = Onward(r.at, IF r.n = 2 THEN TRUE ELSE b)]

\* both go on until they are about to do something
CodeAt(r) == r.ip \in DOMAIN dict.code
Quiet(r) ==
  LET jump(q) == IF CodeAt(q) /\ dict.code[q.ip].type = "branch"
                 THEN [q EXCEPT !.ip = dict.code[q.ip].to] ELSE q
      skip(q) == IF q.at \in DOMAIN words /\ Doings(words[q.at]) = <<>>
                 THEN [q EXCEPT !.at = Onward(q.at, TRUE)] ELSE q
      settled[i \in 0..Len(dict.code) + Len(words)] ==
        IF i = 0 THEN r ELSE skip(jump(settled[i - 1])) IN
  settled[Len(dict.code) + Len(words)]

\* what is done next; a loop that does nothing is "forever"
CodeDoes(r) == CASE ~CodeAt(r) -> "nowhere"
                 [] CodeAt(r) /\ dict.code[r.ip].type = "branch" -> "forever"
                 [] OTHER -> CellDoings(dict.code[r.ip])[r.k]
TextDoes(r) == CASE r.at \notin DOMAIN words -> "exit"
                 [] r.at \in DOMAIN words /\ Doings(words[r.at]) = <<>> -> "forever"
                 [] OTHER -> Doings(words[r.at])[r.n]

(* ------------------------------ the system ---------------------------- *)

Fresh ==
  /\ words = <<>> /\ sections = <<>> /\ run = Idle
  /\ shell = [skipping |-> FALSE, depth |-> 0, bracket |-> "none", nested |-> 0]
  /\ dict = [code |-> <<>>, peep |-> <<>>]
  /\ ctl = <<Entry("colon", 0, 0)>>
  /\ cont = [stack |-> <<>>, dest |-> 0, count |-> 0]
CompilerInit == family \in Families /\ Fresh

StartOver ==
  /\ words' = <<>> /\ sections' = <<>> /\ run' = Idle
  /\ shell' = [skipping |-> FALSE, depth |-> 0, bracket |-> "none", nested |-> 0]
  /\ dict' = [code |-> <<>>, peep |-> <<>>]
  /\ ctl' = <<Entry("colon", 0, 0)>>
  /\ cont' = [stack |-> <<>>, dest |-> 0, count |-> 0]
  /\ UNCHANGED family

Compiling == run = Idle
\* room is left to close what is open
Room(w) == Len(words) + 1 + Open(1, Len(words)) + (IF w \in Openers THEN 1 ELSE 0)
             - (IF w \in Closers THEN 1 ELSE 0) <= family.length
Interpret(w) ==
  \/ PlainWord(w) \/ Test(w) \/ Else(w) \/ Endif(w)
  \/ Begin(w) \/ While(w) \/ Until(w) \/ Again(w) \/ Repeat(w)
  \/ Do(w) \/ Loop(w)
  \/ Case(w) \/ Of(w) \/ OfIf(w) \/ Endof(w) \/ Endcase(w)
  \/ ContinueHere(w) \/ Leaves(w)

NextWord ==
  /\ Compiling
  /\ \E w \in family.words :
       /\ Fits(w) /\ Room(w)
       /\ \/ PoundIf(w) \/ PoundIfdef(w) \/ PoundElse(w) \/ PoundEndif(w) \/ SkipLine(w)
          \/ BracketIf(w) \/ BracketElse(w) \/ BracketEndif(w) \/ SkipText(w)
          \/ ~Skipping /\ Interpret(w)

\* an error empties the control stack, the continuations and the peephole,
\* and the next definition starts afresh
SyntaxError ==
  /\ Compiling
  /\ \E w \in family.words \cup {";"} : ~Fits(w) /\ ~Accepts(w)
  /\ StartOver

Semi ==
  /\ Compiling /\ Fits(";") /\ Accepts(";")
  /\ LET d == CompileOpcode(ClearPeephole(dict), Compiled("exit")) IN
       dict' = ClearPeephole(d)
  /\ ctl' = Dropped(1)
  /\ run' = [Idle EXCEPT !.ip = 1, !.k = 1, !.at = 1, !.n = 1]
  /\ UNCHANGED <<family, words, sections, cont, shell>>

RunNext ==
  /\ ~Compiling
  /\ LET r == Quiet(run) IN
     /\ CodeDoes(r) = TextDoes(r) /\ CodeDoes(r) \notin {"exit", "forever"}
     /\ \E b \in BOOLEAN :
          /\ CodeDoes(r) \notin Deciding => b
          /\ run' = Turn(Advance(r, b), b)
  /\ UNCHANGED <<family, words, sections, dict, ctl, cont, shell>>

Exit ==
  /\ ~Compiling /\ TextDoes(Quiet(run)) \in {"exit", "forever"}
  /\ StartOver

CompilerNext == NextWord \/ SyntaxError \/ Semi \/ RunNext \/ Exit
CompilerSpec == CompilerInit /\ [][CompilerNext]_compilerVars

(* ----------------------------- properties ----------------------------- *)

\* The interpreter does what the words say, in their order, whatever the
\* tests turn out to be: neither the peephole nor the patching of branches
\* changes what a definition does (CompileOpcode, elseOp to endcaseOp,
\* EndLoopContinuations against the actions in ForthInner.cpp).
RunsAsWritten == ~Compiling => CodeDoes(Quiet(run)) = TextDoes(Quiet(run))

\* No structured definition is refused and no word is skipped that applies:
\* every word that may come next by the words before it passes the checks of
\* the control stack and of the continuations (CheckSyntaxError,
\* EndLoopContinuations, semiOp, ProcessLine, PoundElse, PoundEndif).
AcceptsStructured == Compiling => \A w \in family.words \cup {";"} : Fits(w) => Accepts(w)

\* When a definition is done no branch is left to be fixed, and every branch
\* leads to the start of an opcode, also where no run goes.
Starts == {a \in DOMAIN dict.code : dict.code[a].type # "data"}
NothingUnresolved ==
  ~Compiling => \A a \in DOMAIN dict.code :
    /\ dict.code[a].type # "abort"
    /\ dict.code[a].type \in {"branch", "branchZ", "branchNZ", "opZ", "opNZ", "caseT", "caseF"}
         => dict.code[a].to \in Starts

\* The two stacks that the control words keep apart stay in step: there is a
\* saved continuation for every begin, do and case on the control stack, and
\* mContinueCount counts the branches above the last of them.
OpenLoops == {k \in DOMAIN ctl : ctl[k].tag \in {"begin", "do"}
                                  \/ (ctl[k].tag = "case" /\ ctl[k].addr = 0)}
Saved == {i \in DOMAIN cont.stack : cont.stack[i].kind = "saved"}
ContinuationsMatchLoops ==
  /\ Cardinality(Saved) = Cardinality(OpenLoops)
  /\ \A p \in Pending(cont) : p.kind # "saved"
  /\ cont.count = Len(cont.stack) - (IF Saved = {} THEN 0 ELSE Max(Saved))

=============================================================================
