----------------------------- MODULE MCCompiler -----------------------------
EXTENDS Compiler

Family(ws, n) == [words |-> ws, length |-> n]

\* Families of words that belong together, so that short definitions nest
\* them: the peephole, chains of tests, begin loops, do loops, case, and all
\* of the control words in one another, and conditional compilation among them.
MCFamilies ==
  {Family({"lit", "int", "op", "cc", "vop", "ref", "var", "sref", "if", "endif"}, 4),
   Family({"op", "if", "elif", "andif", "orif", "else", "endif"}, 8),
   Family({"op", "lit", "begin", "while", "repeat", "until", "again",
           "break", "breakIf", "continueIf", "continue:"}, 6),
   Family({"lit", "do", "qdo", "loop", "loopn", "leave", "continue",
           "continueIfNot", "continue:"}, 6),
   Family({"lit", "long", "case", "of", "ofif", "endof", "endcase", "breakIfNot"}, 7),
   Family({"op", "begin", "until", "case", "of", "endof", "endcase", "do", "loop",
           "break", "if", "ahead", "endif"}, 6),
   Family({"op", "lit", "if", "else", "endif", "begin", "until", "#if true", "#if false",
           "#ifdef false", "#else", "#endif", "[if] true", "[if] false", "[else]", "[endif]"}, 4)}

\* A continue: behind a word that the peephole joins with the test of until:
\* with OpsBeforeContinue, RunsAsWritten does not hold of this family.
MCContinue == {Family({"op", "begin", "until", "continueIf", "continue:"}, 6)}

\* An #ifdef of a symbol that is defined.
MCDefined == {Family({"op", "#ifdef true", "#ifdef false", "#else", "#endif"}, 3)}
=============================================================================
