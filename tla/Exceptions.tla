----------------------------- MODULE Exceptions -----------------------------
(***************************************************************************)
(* try[ ... ]catch[ ... ]finally[ ... ]try and throw on one core: the      *)
(* return stack, the chain of exception frames on it, the frame pointer of *)
(* the words' local variables and the IP (ForthOps.cpp, Engine.cpp,        *)
(* ForthInner.cpp).                                                        *)
(*                                                                         *)
(* A word is at most one try block with something before and after it; a   *)
(* place in its code is the section that the IP is in.  Every section may  *)
(* call any word and throw any number.  The parameter stack is left out,   *)
(* and so are exceptions that cross a nested interpreter (evaluate).       *)
(***************************************************************************)
EXTENDS Integers, Sequences

CONSTANTS
    Words,         \* the words of the program
    NoWord,        \* where the IP is when it is in no word
    Locals,        \* the words that have local variables
    Trying,        \* the words that have a try block
    Finals,        \* the words whose try block has a finally section
    Numbers,       \* the numbers of exceptions, 0 being none
    FrameCells,    \* sizeof(ForthExceptionFrame) in cells
    MaxCells,      \* bound: the size of the return stack
    Careful        \* TRUE: no exception leaves a finally section, and 0 is
                   \* thrown nowhere but in a body

ASSUME ExceptionsAssumption ==
    /\ NoWord \notin Words
    /\ Finals \subseteq Trying /\ Trying \subseteq Words
    /\ Locals \subseteq Words
    /\ Numbers \subseteq Nat \ {0}
    /\ FrameCells \in Nat \ {0}
    /\ MaxCells \in Nat
    /\ Careful \in BOOLEAN

VARIABLES
    ip,            \* CoreState::IP
    rstack,        \* the return stack, RP at its end
    fp,            \* CoreState::FP: the cell that holds the caller's FP, or 0
    frames,        \* the frames that pExceptionFrame leads to, the first last
    activations    \* history: the words being executed, as the program text
                   \* says it: what each is doing and the exception it is in

vars == <<ip, rstack, fp, frames, activations>>

\* "cleanup" is the end of a body or handler, just before _doFinally.
Sections == {"start", "body", "handler", "cleanup", "finally", "end"}

At(word, section) == [word |-> word, section |-> section]
Console == At(NoWord, "console")
Lost == At(NoWord, "lost")
Places == [word : Words, section : Sections] \cup {Console, Lost}

\* The cells of the return stack: return addresses, saved frame pointers and
\* what exception frames are made of.
Address(place) == [kind |-> "address", place |-> place, fp |-> 0]
Link(link) == [kind |-> "link", place |-> Lost, fp |-> link]
FrameCell == [kind |-> "frame", place |-> Lost, fp |-> 0]

States == {"try", "except", "finally"}

ExceptionsTypeOK ==
    /\ ip \in Places
    /\ rstack \in Seq([kind : {"address", "link", "frame"}, place : Places,
                       fp : Nat])
    /\ fp \in 0 .. Len(rstack)
    /\ frames \in Seq([word : Words, number : Numbers \cup {0},
                       state : States, fp : Nat])
    /\ activations \in Seq([word : Words, section : Sections,
                            pending : Numbers \cup {0}, fp : Nat])

Init ==
    /\ ip = Console
    /\ rstack = <<>>
    /\ fp = 0
    /\ frames = <<>>
    /\ activations = <<>>

Top(s) == s[Len(s)]
Drop(s, n) == SubSeq(s, 1, Len(s) - n)
OnTop(s, e) == [s EXCEPT ![Len(s)] = e]

-----------------------------------------------------------------------------
(* What the program text says *)

\* The newest activation moves to another section.
Moved(a, section) == OnTop(a, [Top(a) EXCEPT !.section = section])

\* Exception n is raised in the newest activation of a: the try block that
\* was entered last and has not come to its finally section takes it, in its
\* handler, or, if that is where it comes from, past it.
Unwound(a, n) ==
    LET Takes(i) == a[i].section \in {"body", "handler"}
        taker == CHOOSE i \in DOMAIN a :
                    Takes(i) /\ \A j \in i + 1 .. Len(a) : ~Takes(j)
    IN  IF \E i \in DOMAIN a : Takes(i)
        THEN OnTop(SubSeq(a, 1, taker),
                   [a[taker] EXCEPT
                       !.section = IF @ = "body" THEN "handler" ELSE "cleanup",
                       !.pending = n])
        ELSE <<>>

-----------------------------------------------------------------------------
(* RaiseException *)

\* Fiber::Reset, after the shell has reported an error.
Reset ==
    /\ ip' = Console
    /\ rstack' = <<>>
    /\ fp' = 0
    /\ frames' = <<>>

\* Mutation: an exception in a handler goes to the handler.
RaiseInHandler(n, fs) ==
    LET frame == Top(fs) IN
    IF fs = <<>>
    THEN Reset
    ELSE /\ frames' = OnTop(fs, [frame EXCEPT !.number = n, !.state = "except"])
         /\ ip' = At(frame.word, "handler")

\* Engine::RaiseException with pExceptionFrame leading to the frames fs.  The
\* return stack and FP stay as they are.  In a finally section that was
\* entered with an exception SetError and RaiseException call each other
\* without end.
Raise(n, fs) ==
    LET frame == Top(fs)
        To(state, section) ==
            /\ frames' = OnTop(fs, [frame EXCEPT !.number = n, !.state = state])
            /\ ip' = At(frame.word, section)
    IN  CASE fs = <<>> -> Reset
          [] fs # <<>> /\ frame.number = 0 -> To("except", "handler")
          [] fs # <<>> /\ frame.number # 0 ->
                IF frame.state # "finally"
                THEN To(frame.state, "cleanup")
                ELSE ip' = Lost /\ frames' = fs

\* The IP is in the code of a word.
Running == ip.section \in Sections \ {"cleanup"}

\* In a careful program somebody takes the exception on its way out of the
\* try blocks that are open, before it comes to a finally section.
MayThrow ==
    (Careful /\ frames # <<>>) =>
        \/ Top(frames).state = "try"
        \/ \A i \in DOMAIN frames : frames[i].state # "finally"

\* throw
Throw(n) ==
    /\ Running
    /\ MayThrow
    /\ Raise(n, frames)
    /\ frames # <<>> => UNCHANGED <<rstack, fp>>
    /\ activations' = Unwound(activations, n)

\* throw of 0, which is no exception
ThrowNone ==
    /\ Running
    /\ frames # <<>>
    /\ Careful => Top(frames).state = "try"
    /\ frames' = OnTop(frames, [Top(frames) EXCEPT !.number = 0])
    /\ UNCHANGED <<ip, rstack, fp, activations>>

\* Any op that calls Engine::SetError.  It raises the exception too, but it
\* has set the core state, so the inner interpreter ends and the shell resets
\* the fiber.
SetError ==
    /\ Running
    /\ ~(frames # <<>> /\ Top(frames).number # 0 /\ Top(frames).state = "finally")
    /\ Reset
    /\ activations' = <<>>

-----------------------------------------------------------------------------
(* Calling and returning *)

\* A word is called, by another or from the console, and allocates its locals.
Call(word) ==
    /\ Running \/ ip = Console
    /\ Len(rstack) + 2 <= MaxCells
    /\ ip' = At(word, "start")
    /\ IF word \in Locals
       THEN /\ rstack' = rstack \o <<Address(ip), Link(fp)>>
            /\ fp' = Len(rstack')
       ELSE /\ rstack' = Append(rstack, Address(ip))
            /\ UNCHANGED fp
    /\ activations' = Append(activations, [word |-> word, section |-> "start",
                                           pending |-> 0, fp |-> fp'])
    /\ UNCHANGED frames

\* What is on top of stack is popped into the IP, whatever it is; an empty
\* stack is an error.
PopAddress(stack, newFP) ==
    IF stack = <<>>
    THEN Reset
    ELSE /\ ip' = Top(stack).place
         /\ rstack' = Drop(stack, 1)
         /\ fp' = newFP
         /\ UNCHANGED frames

\* _exit, or _exitL in a word with locals, which resets RP to FP first
Return ==
    /\ ip.section \in {"start", "end"}
    /\ IF ip.word \in Locals
       THEN PopAddress(SubSeq(rstack, 1, fp - 1), rstack[fp].fp)
       ELSE PopAddress(rstack, fp)
    /\ activations' = Drop(activations, 1)

-----------------------------------------------------------------------------
(* The ops that try[, ]catch[, ]finally[ and ]try compile *)

\* _doTry
DoTry ==
    /\ ip.section = "start" /\ ip.word \in Trying
    /\ Len(rstack) + FrameCells <= MaxCells
    /\ rstack' = rstack \o [i \in 1 .. FrameCells |-> FrameCell]
    /\ frames' = Append(frames, [word |-> ip.word, number |-> 0,
                                 state |-> "try", fp |-> fp])
    /\ ip' = [ip EXCEPT !.section = "body"]
    /\ activations' = Moved(activations, "body")
    /\ UNCHANGED fp

\* The branch over the handler.
EndBody ==
    /\ ip.section = "body"
    /\ ip' = [ip EXCEPT !.section = "cleanup"]
    /\ activations' = Moved(activations, "cleanup")
    /\ UNCHANGED <<rstack, fp, frames>>

\* Mutation: no throw of 0 is compiled at the end of the handler.
EndHandlerPending ==
    /\ ip.section = "handler"
    /\ ip' = [ip EXCEPT !.section = "cleanup"]
    /\ activations' = OnTop(activations, [Top(activations) EXCEPT
                               !.section = "cleanup", !.pending = 0])
    /\ UNCHANGED <<rstack, fp, frames>>

\* The throw of 0 at the end of a handler.
EndHandler ==
    /\ ip.section = "handler"
    /\ frames' = OnTop(frames, [Top(frames) EXCEPT !.number = 0])
    /\ ip' = [ip EXCEPT !.section = "cleanup"]
    /\ activations' = OnTop(activations, [Top(activations) EXCEPT
                               !.section = "cleanup", !.pending = 0])
    /\ UNCHANGED <<rstack, fp>>

\* _doFinally
DoFinally ==
    /\ ip.section = "cleanup" /\ ip.word \in Finals
    /\ frames' = OnTop(frames, [Top(frames) EXCEPT !.state = "finally"])
    /\ ip' = [ip EXCEPT !.section = "finally"]
    /\ activations' = Moved(activations, "finally")
    /\ UNCHANGED <<rstack, fp>>

\* Mutation: FP is not restored.
UnwindWithoutFP(frame) ==
    /\ rstack' = Drop(rstack, FrameCells)
    /\ UNCHANGED fp

\* _doEndtry pops as many cells as a frame has, whatever they are.
Unwind(frame) ==
    /\ fp' = frame.fp
    /\ rstack' = Drop(rstack, FrameCells)

\* _doEndtry: the frame is unlinked and its exception, if it has one, raised
\* again.
DoEndtry ==
    /\ \/ ip.section = "finally"
       \/ ip.section = "cleanup" /\ ip.word \notin Finals
    /\ LET frame == Top(frames)
           rest == Drop(frames, 1)
           ended == Moved(activations, "end")
       IN  /\ IF frame.number = 0
              THEN /\ ip' = [ip EXCEPT !.section = "end"]
                   /\ frames' = rest
              ELSE Raise(frame.number, rest)
           /\ ~(frame.number # 0 /\ rest = <<>>) => Unwind(frame)
           /\ activations' = IF Top(activations).pending = 0 THEN ended
                             ELSE Unwound(ended, Top(activations).pending)

Next ==
    \/ \E word \in Words : Call(word)
    \/ Return
    \/ DoTry \/ EndBody \/ EndHandler \/ DoFinally \/ DoEndtry
    \/ \E n \in Numbers : Throw(n)
    \/ ThrowNone \/ SetError

Spec == Init /\ [][Next]_vars

-----------------------------------------------------------------------------
(* Properties *)

\* Execution is where the text of the words says it is: words return to the
\* ones that called them, an exception comes to the innermost handler, its
\* handler runs once and a finally section once, and an exception that was
\* not handled goes on to the next handler.
ControlIsStructured ==
    ip = IF activations = <<>> THEN Console
         ELSE At(Top(activations).word, Top(activations).section)

InTry(a) == a.section \in {"body", "handler", "cleanup", "finally"}

\* The frame is that of the activation's try block: it knows the exception the
\* block is in and how far the block has come.
IsFrameOf(frame, a) ==
    /\ frame.word = a.word
    /\ frame.number = a.pending
    /\ frame.fp = a.fp
    /\ a.section = "finally" <=> frame.state = "finally"
    /\ a.section = "handler" => frame.state = "except"
    /\ a.section = "body" => frame.state = "try"

\* The frames fs are those of the try blocks that are open in a, in their order:
\* the activation of frame i is open[i].
AreFramesOf(fs, a, open) ==
    /\ \A i, j \in DOMAIN fs : i < j => open[i] < open[j]
    /\ \A k \in DOMAIN a : InTry(a[k]) <=> \E i \in DOMAIN fs : open[i] = k
    /\ \A i \in DOMAIN fs : IsFrameOf(fs[i], a[open[i]])

\* The chain of frames is that of the try blocks that are open, and each knows
\* the exception its block is in and how far the block has come.
FramesAreOpenTries ==
    \E open \in [DOMAIN frames -> DOMAIN activations] :
        AreFramesOf(frames, activations, open)

\* A word uses its own locals before, in the body of and after its try block.
LocalsAreOwn ==
    ip.section \in {"start", "body", "end"} =>
        fp = Top(activations).fp

=============================================================================
