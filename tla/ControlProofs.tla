-------------------------- MODULE ControlProofs --------------------------
(***************************************************************************)
(* Proofs about the two ways control structures are kept, at run time and  *)
(* when they are compiled.                                                 *)
(*                                                                         *)
(* Exceptions: in words that have locals wherever they have a try block,   *)
(* and that no exception leaves a finally section of, execution is where   *)
(* the program text says, the chain of frames is that of the open try      *)
(* blocks, and a word finds its own locals after any exception.            *)
(*                                                                         *)
(* Compiler: whatever definitions are made of, every branch that is open   *)
(* is owed by an entry of the control stack or by a continuation, so that  *)
(* none is open behind ";"; the continuations are those of the open loops; *)
(* and the shell skips what is left out and nothing else.                  *)
(***************************************************************************)
EXTENDS Exceptions, Compiler, FiniteSetTheorems, TLAPS

-----------------------------------------------------------------------------
(* Exceptions *)

\* The words the theorems are about.  RaiseException resets neither RP nor FP:
\* a word without locals would return through what the frame left there.
Disciplined == Careful /\ Trying \subseteq Locals

Activation == [word : Words, section : Sections, pending : Numbers \cup {0},
               fp : Nat]
Frame == [word : Words, number : Numbers \cup {0}, state : States, fp : Nat]
Cell == [kind : {"address", "link", "frame"}, place : Places, fp : Nat]

\* Where activation i of a is, the console below all of them.
PlaceOf(a, i) == IF i = 0 THEN Console ELSE At(a[i].word, a[i].section)

\* The sections in which FP is the word's own.
Settled == {"start", "body", "end"}

-----------------------------------------------------------------------------
(* The inductive invariant *)

\* What holds of the activations alone: only the newest can be on its way out
\* of a section, and only words with locals come beyond their start.
ActivationsFit(a) ==
    \A i \in DOMAIN a :
        /\ a[i].section = "cleanup" => i = Len(a)
        /\ a[i].section = "start" => a[i].pending = 0
        /\ a[i].section # "start" => a[i].word \in Locals

\* The exception of a frame, beyond what the text says of it.
KnowsException(frame, a) ==
    /\ a.section = "handler" => frame.number # 0
    /\ frame.state = "try" => frame.number = 0

\* An exception that is on its way out of try block i meets no finally section.
EscapesSafely(fs, a, open) ==
    \A i \in DOMAIN fs :
        fs[i].number # 0 /\ a[open[i]].section \in {"cleanup", "finally"} =>
            \A k \in 1 .. i - 1 : fs[k].state # "finally"

FramesFit(fs, a, open) ==
    /\ open \in [DOMAIN fs -> DOMAIN a]
    /\ AreFramesOf(fs, a, open)
    /\ \A i \in DOMAIN fs : KnowsException(fs[i], a[open[i]])
    /\ EscapesSafely(fs, a, open)

\* The cells that an activation needs above its return address.
Extent(a) ==
    IF a.word \in Locals THEN 1 + (IF InTry(a) THEN FrameCells ELSE 0) ELSE 0

\* The FP that an activation gives back, b being the cell of its return
\* address.
CallerFP(rs, a, b) == IF a.word \in Locals THEN rs[b + 1].fp ELSE a.fp

\* What the return stack holds for an activation that was called from a place:
\* its cells are those from b to the one before next.
CellsFit(rs, a, place, b, next) ==
    /\ rs[b] = Address(place)
    /\ CallerFP(rs, a, b) < b
    /\ IF a.word \in Locals
       THEN a.fp = b + 1 /\ next > b + Extent(a)
       ELSE next = b + 1

StackFits(rs, a, base) ==
    /\ base \in [1 .. Len(a) + 1 -> Nat \ {0}]
    /\ base[Len(a) + 1] = Len(rs) + 1
    /\ \A i, j \in 1 .. Len(a) + 1 : i < j => base[i] < base[j]
    /\ \A i \in 1 .. Len(a) :
            CellsFit(rs, a[i], PlaceOf(a, i - 1), base[i], base[i + 1])
    /\ \A i \in 1 .. Len(a) - 1 :
            a[i].section \in Settled =>
                CallerFP(rs, a[i + 1], base[i + 1]) = a[i].fp

ExceptionsInv ==
    /\ ExceptionsTypeOK
    /\ ActivationsFit(activations)
    /\ \E open : FramesFit(frames, activations, open)
    /\ \E base : StackFits(rstack, activations, base)
    /\ ControlIsStructured
    /\ LocalsAreOwn

-----------------------------------------------------------------------------
(* Sequences *)

\* What Drop leaves.
LEMMA DropFacts ==
    ASSUME NEW S, NEW s \in Seq(S), NEW n \in Nat, n <= Len(s)
    PROVE  /\ Drop(s, n) \in Seq(S)
           /\ Len(Drop(s, n)) = Len(s) - n
           /\ \A i \in 1 .. Len(s) - n : Drop(s, n)[i] = s[i]
<1>1. Len(s) - n \in 0 .. Len(s)  OBVIOUS
<1>2. QED  BY <1>1 DEF Drop

\* A sequence with another on top of it.
LEMMA ConcatFacts ==
    ASSUME NEW S, NEW s \in Seq(S), NEW t \in Seq(S)
    PROVE  /\ s \o t \in Seq(S)
           /\ Len(s \o t) = Len(s) + Len(t)
           /\ \A i \in 1 .. Len(s) : (s \o t)[i] = s[i]
OBVIOUS

-----------------------------------------------------------------------------
(* Frames and activations *)

\* Two sequences have the same elements below place n.
SameBelow(s, t, n) == \A i \in 1 .. Len(s) : i < n => t[i] = s[i]

\* No block outside the one of frame m is in its finally section.
NoFinally(fs, m) == \A i \in 1 .. m - 1 : fs[i].state # "finally"

\* One way to keep the frames: the activations that have them stay as they are.
LEMMA FramesStay ==
    ASSUME NEW fs \in Seq(Frame), NEW a \in Seq(Activation), NEW open,
           FramesFit(fs, a, open), NEW b \in Seq(Activation),
           \A k \in DOMAIN a : InTry(a[k]) => k \in DOMAIN b /\ b[k] = a[k],
           \A k \in DOMAIN b : InTry(b[k]) => k \in DOMAIN a /\ b[k] = a[k]
    PROVE  FramesFit(fs, b, open)
<1>1. /\ open \in [DOMAIN fs -> DOMAIN a]
      /\ \A i \in DOMAIN fs : InTry(a[open[i]])
  BY DEF FramesFit, AreFramesOf
<1>2. \A i \in DOMAIN fs : open[i] \in DOMAIN b /\ b[open[i]] = a[open[i]]
  BY <1>1
<1>3. open \in [DOMAIN fs -> DOMAIN b]
  BY <1>1, <1>2
<1>4. AreFramesOf(fs, b, open)
  <2>1. AreFramesOf(fs, a, open)
    BY DEF FramesFit
  <2>2. \A k \in DOMAIN b : InTry(b[k]) <=> \E i \in DOMAIN fs : open[i] = k
    BY <1>1, <1>2, <2>1 DEF AreFramesOf
  <2>3. \A i \in DOMAIN fs : IsFrameOf(fs[i], b[open[i]])
    BY <1>2, <2>1 DEF AreFramesOf
  <2>4. QED
    BY <2>1, <2>2, <2>3 DEF AreFramesOf
<1>5. EscapesSafely(fs, b, open)
  BY <1>2 DEF FramesFit, EscapesSafely
<1>6. QED
  BY <1>2, <1>3, <1>4, <1>5 DEF FramesFit

\* The other way: frame m and its activation k change, and what is above them
\* goes.
LEMMA FramesCut ==
    ASSUME NEW fs \in Seq(Frame), NEW a \in Seq(Activation), NEW open,
           FramesFit(fs, a, open), NEW m \in DOMAIN fs,
           NEW gs \in Seq(Frame), Len(gs) = m, SameBelow(fs, gs, m),
           NEW b \in Seq(Activation), Len(b) = open[m], SameBelow(a, b, open[m]),
           InTry(b[open[m]]), IsFrameOf(gs[m], b[open[m]]),
           KnowsException(gs[m], b[open[m]]),
           gs[m].number # 0 /\ b[open[m]].section \in {"cleanup", "finally"} =>
               NoFinally(fs, m)
    PROVE  \E new : FramesFit(gs, b, new)
<1> DEFINE new == [i \in 1 .. m |-> open[i]]
           k == open[m]
<1>1. /\ open \in [DOMAIN fs -> DOMAIN a]
      /\ \A i, j \in DOMAIN fs : i < j => open[i] < open[j]
      /\ \A l \in DOMAIN a : InTry(a[l]) <=> \E i \in DOMAIN fs : open[i] = l
      /\ \A i \in DOMAIN fs : IsFrameOf(fs[i], a[open[i]])
      /\ \A i \in DOMAIN fs : KnowsException(fs[i], a[open[i]])
  BY DEF FramesFit, AreFramesOf
<1>2. /\ m \in Nat \ {0} /\ m <= Len(fs) /\ DOMAIN fs = 1 .. Len(fs) /\ Len(fs) \in Nat
      /\ DOMAIN gs = 1 .. m /\ DOMAIN a = 1 .. Len(a) /\ DOMAIN b = 1 .. k
      /\ k \in 1 .. Len(a) /\ Len(a) \in Nat
  BY <1>1
<1>2a. /\ \A i \in 1 .. m - 1 : gs[i] = fs[i]
       /\ \A i \in 1 .. k - 1 : b[i] = a[i]
  <2>1. \A i \in 1 .. m - 1 : i \in 1 .. Len(fs) /\ i < m
    BY <1>2
  <2>2. \A i \in 1 .. k - 1 : i \in 1 .. Len(a) /\ i < k
    BY <1>2
  <2>3. QED
    BY <2>1, <2>2 DEF SameBelow
<1>3. \A i \in 1 .. m : new[i] = open[i] /\ open[i] \in 1 .. k
  <2> TAKE i \in 1 .. m
  <2>1. open[i] \in 1 .. Len(a) /\ open[m] \in 1 .. Len(a)
    BY <1>1, <1>2
  <2>2. i = m \/ open[i] < open[m]
    <3>1. i \in DOMAIN fs /\ (i = m \/ i < m)
      BY <1>2
    <3>2. QED
      BY <1>1, <3>1
  <2>3. open[i] \in 1 .. open[m]
    BY <1>2, <2>1, <2>2
  <2>4. QED
    BY <2>3
<1>4. \A i \in 1 .. m - 1 : open[i] \in 1 .. k - 1 /\ b[open[i]] = a[open[i]]
  <2> TAKE i \in 1 .. m - 1
  <2>1. open[i] < open[m]
    <3>1. i \in DOMAIN fs /\ i < m
      BY <1>2
    <3>2. QED
      BY <1>1, <3>1
  <2>2. open[i] \in 1 .. Len(a) /\ open[m] \in 1 .. Len(a)
    BY <1>1, <1>2
  <2>3. open[i] \in 1 .. open[m] - 1
    BY <1>2, <2>1, <2>2
  <2>4. QED
    BY <1>2a, <2>3
<1>5. new \in [DOMAIN gs -> DOMAIN b]
  BY <1>2, <1>3
<1>6. \A l \in DOMAIN b : InTry(b[l]) <=> \E i \in DOMAIN gs : new[i] = l
  <2> TAKE l \in DOMAIN b
  <2>1. CASE l = k
    BY <1>2, <1>3, <2>1
  <2>2. CASE l # k
    <3>1. l \in 1 .. k - 1 /\ b[l] = a[l] /\ l \in DOMAIN a
      BY <1>2, <1>2a, <2>2
    <3>2. ASSUME NEW i \in DOMAIN fs, open[i] = l
          PROVE  i \in DOMAIN gs
      <4>1. ~(m < i)
        BY <1>1, <1>2, <3>1, <3>2
      <4>2. QED
        BY <1>2, <4>1
    <3>3. QED
      BY <1>1, <1>2, <1>3, <3>1, <3>2
  <2>3. QED
    BY <2>1, <2>2
<1>7. \A i \in DOMAIN gs : IsFrameOf(gs[i], b[new[i]]) /\ KnowsException(gs[i], b[new[i]])
  <2> TAKE i \in DOMAIN gs
  <2>1. CASE i = m
    BY <1>2, <1>3, <2>1
  <2>2. CASE i # m
    <3>1. i \in 1 .. m - 1 /\ gs[i] = fs[i] /\ b[new[i]] = a[open[i]] /\ i \in DOMAIN fs
      BY <1>2, <1>2a, <1>3, <1>4, <2>2
    <3>2. QED
      BY <1>1, <3>1
  <2>3. QED
    BY <2>1, <2>2
<1>8. \A i, j \in DOMAIN gs : i < j => new[i] < new[j]
  BY <1>1, <1>2, <1>3
<1>9. EscapesSafely(gs, b, new)
  <2> SUFFICES ASSUME NEW i \in DOMAIN gs, gs[i].number # 0,
                      b[new[i]].section \in {"cleanup", "finally"},
                      NEW l \in 1 .. i - 1
               PROVE  gs[l].state # "finally"
    BY DEF EscapesSafely
  <2>1. l \in 1 .. m - 1 /\ gs[l] = fs[l]
    BY <1>2, <1>2a
  <2>2. CASE i = m
    BY <1>2, <1>3, <2>1, <2>2 DEF NoFinally
  <2>3. CASE i # m
    <3>1. i \in 1 .. m - 1 /\ gs[i] = fs[i] /\ b[new[i]] = a[open[i]] /\ i \in DOMAIN fs
      BY <1>2, <1>2a, <1>3, <1>4, <2>3
    <3>2. EscapesSafely(fs, a, open)
      BY DEF FramesFit
    <3>3. QED
      BY <2>1, <3>1, <3>2 DEF EscapesSafely
  <2>4. QED
    BY <2>2, <2>3
<1>10. FramesFit(gs, b, new)
  BY <1>5, <1>6, <1>7, <1>8, <1>9 DEF FramesFit, AreFramesOf
<1>11. QED
  BY <1>10

\* The try block that takes an exception is the newest that can.
LEMMA UnwoundTo ==
    ASSUME NEW a \in Seq(Activation), NEW n \in Numbers, NEW k \in DOMAIN a,
           a[k].section \in {"body", "handler"},
           \A j \in DOMAIN a : j > k => a[j].section \notin {"body", "handler"}
    PROVE  /\ Unwound(a, n) \in Seq(Activation) /\ Len(Unwound(a, n)) = k
           /\ SameBelow(a, Unwound(a, n), k)
           /\ Unwound(a, n)[k].word = a[k].word
           /\ Unwound(a, n)[k].fp = a[k].fp
           /\ Unwound(a, n)[k].pending = n
           /\ Unwound(a, n)[k].section =
                  IF a[k].section = "body" THEN "handler" ELSE "cleanup"
<1> DEFINE Takes(i) == a[i].section \in {"body", "handler"}
           Newest(i) == Takes(i) /\ \A j \in i + 1 .. Len(a) : ~Takes(j)
           new == [a[k] EXCEPT
                      !.section = IF @ = "body" THEN "handler" ELSE "cleanup",
                      !.pending = n]
<1>1. k \in 1 .. Len(a) /\ Len(a) \in Nat /\ DOMAIN a = 1 .. Len(a)
  OBVIOUS
<1>2. Newest(k)
  BY <1>1
<1>3. ASSUME NEW i \in DOMAIN a, Newest(i)
      PROVE  i = k
  <2>1. ~(i > k)
    BY <1>3
  <2>2. ~(i < k)
    <3>1. i < k => k \in i + 1 .. Len(a)
      BY <1>1
    <3>2. QED
      BY <1>2, <1>3, <3>1
  <2>3. QED
    BY <1>1, <2>1, <2>2
<1> HIDE DEF Newest
<1>4. (CHOOSE i \in DOMAIN a : Newest(i)) = k
  BY <1>2, <1>3
<1> USE DEF Newest
<1>5. Unwound(a, n) = OnTop(SubSeq(a, 1, k), new)
  BY <1>2, <1>4 DEF Unwound
<1>6. a[k] \in Activation
  BY <1>1
<1>7. new \in Activation
  BY <1>6 DEF Activation, Sections
<1>8. /\ SubSeq(a, 1, k) \in Seq(Activation) /\ Len(SubSeq(a, 1, k)) = k
      /\ \A i \in 1 .. k : SubSeq(a, 1, k)[i] = a[i]
      /\ SubSeq(a, 1, k) # <<>>
  BY <1>1
<1> DEFINE sub == SubSeq(a, 1, k)
<1>9a. sub \in Seq(Activation) /\ sub # <<>> /\ Len(sub) = k
  BY <1>8
<1> HIDE DEF new, sub
<1>9. /\ OnTop(sub, new) \in Seq(Activation) /\ Len(OnTop(sub, new)) = Len(sub)
      /\ OnTop(sub, new)[Len(sub)] = new
      /\ \A i \in 1 .. Len(sub) - 1 : OnTop(sub, new)[i] = sub[i]
  BY <1>7, <1>9a DEF OnTop
<1>10. \A i \in 1 .. k - 1 : sub[i] = a[i]
  BY <1>1, <1>8 DEF sub
<1>11. Len(sub) = k /\ Unwound(a, n) = OnTop(sub, new)
  BY <1>5, <1>8 DEF sub
<1>12. /\ new.word = a[k].word /\ new.fp = a[k].fp /\ new.pending = n
       /\ new.section = IF a[k].section = "body" THEN "handler" ELSE "cleanup"
  BY <1>6 DEF new, Activation
<1>13. SameBelow(a, Unwound(a, n), k)
  <2>1. \A i \in 1 .. Len(a) : i < k => i \in 1 .. k - 1
    BY <1>1
  <2>2. QED
    BY <1>9, <1>10, <1>11, <2>1 DEF SameBelow
<1>14. QED
  BY <1>9, <1>11, <1>12, <1>13

\* Where no try block is open, an exception ends everything.
LEMMA UnwoundNone ==
    ASSUME NEW a, NEW n,
           \A j \in DOMAIN a : a[j].section \notin {"body", "handler"}
    PROVE  Unwound(a, n) = <<>>
BY DEF Unwound

-----------------------------------------------------------------------------
(* Cells and activations *)

\* Activation i finds in ss what it had in rs.
KeepsCells(rs, ss, a, base, i) ==
    /\ CellsFit(ss, a[i], PlaceOf(a, i - 1), base[i], base[i + 1])
    /\ CallerFP(ss, a[i], base[i]) = CallerFP(rs, a[i], base[i])

\* What is above the cells of an activation does not matter to it.
LEMMA CellsStay ==
    ASSUME NEW a \in Activation, NEW b \in Nat, NEW next \in Nat,
           NEW rs, NEW ss, NEW place, CellsFit(rs, a, place, b, next),
           \A i \in Nat : b <= i /\ i < next => ss[i] = rs[i]
    PROVE  /\ CellsFit(ss, a, place, b, next)
           /\ CallerFP(ss, a, b) = CallerFP(rs, a, b)
           /\ a.word \in Locals => b + 1 < next
<1>1. Extent(a) \in Nat /\ (a.word \in Locals => Extent(a) > 0)
  BY ExceptionsAssumption DEF Extent
<1>2. a.word \in Locals => b + 1 < next
  BY <1>1 DEF CellsFit
<1>3. ss[b] = rs[b] /\ (a.word \in Locals => ss[b + 1] = rs[b + 1])
  BY <1>2 DEF CellsFit
<1>4. QED
  BY <1>2, <1>3 DEF CellsFit, CallerFP

\* The base of an activation, and of what comes above it.
LEMMA Bases ==
    ASSUME NEW rs \in Seq(Cell), NEW a \in Seq(Activation), NEW base,
           StackFits(rs, a, base), NEW i \in 1 .. Len(a)
    PROVE  /\ base[i] \in Nat \ {0} /\ base[i + 1] \in Nat
           /\ base[i] < base[i + 1] /\ base[i + 1] <= Len(rs) + 1
<1> DEFINE n == Len(a)
<1>1. n \in Nat /\ i \in 1 .. n + 1 /\ i + 1 \in 1 .. n + 1 /\ n + 1 \in 1 .. n + 1
  OBVIOUS
<1>2. /\ base \in [1 .. n + 1 -> Nat \ {0}]
      /\ base[n + 1] = Len(rs) + 1
      /\ \A k, j \in 1 .. n + 1 : k < j => base[k] < base[j]
  BY DEF StackFits
<1>3. i + 1 = n + 1 \/ i + 1 < n + 1
  BY <1>1
<1>4. base[i + 1] = base[n + 1] \/ base[i + 1] < base[n + 1]
  BY <1>1, <1>2, <1>3
<1>5. base[i] < base[i + 1]
  BY <1>1, <1>2
<1>6. Len(rs) \in Nat
  OBVIOUS
<1> HIDE DEF n
<1>7. base[i] \in Nat \ {0} /\ base[i + 1] \in Nat \ {0}
  BY <1>1, <1>2
<1>8. QED
  BY <1>2, <1>4, <1>5, <1>6, <1>7

\* An activation that stays keeps its cells when those above it change.
LEMMA CellsBelow ==
    ASSUME NEW rs \in Seq(Cell), NEW a \in Seq(Activation), NEW base,
           StackFits(rs, a, base), NEW ss,
           NEW i \in 1 .. Len(a),
           SameBelow(rs, ss, base[i + 1])
    PROVE  KeepsCells(rs, ss, a, base, i)
<1>1. CellsFit(rs, a[i], PlaceOf(a, i - 1), base[i], base[i + 1])
  BY DEF StackFits
<1>2. /\ base[i] \in Nat \ {0} /\ base[i + 1] \in Nat
      /\ base[i + 1] <= Len(rs) + 1 /\ a[i] \in Activation
  BY Bases
<1>3. \A k \in Nat : base[i] <= k /\ k < base[i + 1] => ss[k] = rs[k]
  <2>1. \A k \in Nat : base[i] <= k /\ k < base[i + 1] => k \in 1 .. Len(rs)
    BY <1>2
  <2>2. QED
    BY <2>1 DEF SameBelow
<1> DEFINE act == a[i]
           place == PlaceOf(a, i - 1)
           lo == base[i]
           hi == base[i + 1]
<1>4. /\ act \in Activation /\ lo \in Nat /\ hi \in Nat
      /\ CellsFit(rs, act, place, lo, hi)
      /\ \A k \in Nat : lo <= k /\ k < hi => ss[k] = rs[k]
  BY <1>1, <1>2, <1>3
<1> HIDE DEF act, place, lo, hi
<1>5. CellsFit(ss, act, place, lo, hi) /\ CallerFP(ss, act, lo) = CallerFP(rs, act, lo)
  BY <1>4, CellsStay
<1>6. QED
  BY <1>5 DEF act, place, lo, hi, KeepsCells

\* A word is called.
LEMMA StackPush ==
    ASSUME NEW rs \in Seq(Cell), NEW a \in Seq(Activation), NEW base,
           StackFits(rs, a, base),
           NEW top \in Activation, top.section = "start",
           NEW f \in Nat, f <= Len(rs),
           a # <<>> /\ Top(a).section \in Settled => f = Top(a).fp,
           NEW ss \in Seq(Cell),
           SameBelow(rs, ss, Len(rs) + 1),
           Len(ss) = Len(rs) + 1 + Extent(top),
           ss[Len(rs) + 1] = Address(PlaceOf(a, Len(a))),
           top.word \in Locals => ss[Len(rs) + 2] = Link(f) /\ top.fp = Len(rs) + 2,
           top.word \notin Locals => top.fp = f
    PROVE  \E new : StackFits(ss, Append(a, top), new)
<1> DEFINE n == Len(a)
           b == Append(a, top)
           new == [i \in 1 .. n + 2 |-> IF i = n + 2 THEN Len(ss) + 1 ELSE base[i]]
<1>1. /\ n \in Nat /\ Len(rs) \in Nat /\ Len(ss) \in Nat
      /\ \A i \in 1 .. n : a[i] \in Activation
      /\ b \in Seq(Activation) /\ Len(b) = n + 1
      /\ \A i \in 1 .. n : b[i] = a[i]
      /\ b[n + 1] = top
  OBVIOUS
<1>2. /\ base \in [1 .. n + 1 -> Nat \ {0}]
      /\ base[n + 1] = Len(rs) + 1
      /\ \A i, j \in 1 .. n + 1 : i < j => base[i] < base[j]
  BY <1>1 DEF StackFits
<1>3. /\ \A i \in 1 .. n + 1 : new[i] = base[i]
      /\ new[n + 2] = Len(ss) + 1
  BY <1>1
<1>4. new \in [1 .. n + 2 -> Nat \ {0}]
  BY <1>1, <1>2
<1>5. Extent(top) = IF top.word \in Locals THEN 1 ELSE 0
  BY DEF Extent, InTry
<1>6. \A i, j \in 1 .. n + 2 : i < j => new[i] < new[j]
  <2> TAKE i, j \in 1 .. n + 2
  <2>1. CASE j = n + 2 /\ i # n + 2
    <3>1. i \in 1 .. n + 1 /\ (i = n + 1 \/ i < n + 1)
      BY <1>1, <2>1
    <3>2. base[i] <= base[n + 1] /\ base[i] \in Nat /\ n + 1 \in 1 .. n + 1
      BY <1>1, <1>2, <3>1
    <3>3. QED
      BY <1>1, <1>2, <1>3, <1>5, <2>1, <3>1, <3>2
  <2>2. CASE j # n + 2
    BY <1>1, <1>2, <1>3, <2>2
  <2>3. QED
    BY <1>1, <2>1, <2>2
<1> HIDE DEF new, b
<1>7. ASSUME NEW i \in 1 .. n
      PROVE  /\ CellsFit(ss, b[i], PlaceOf(b, i - 1), new[i], new[i + 1])
             /\ CallerFP(ss, b[i], new[i]) = CallerFP(rs, a[i], base[i])
  <2>1. base[i + 1] <= Len(rs) + 1 /\ i \in 1 .. n + 1 /\ i + 1 \in 1 .. n + 1
    BY <1>1, <1>7, Bases
  <2>2. KeepsCells(rs, ss, a, base, i)
    <3>1. SameBelow(rs, ss, base[i + 1])
      BY <1>7, <2>1, Bases DEF SameBelow
    <3>2. QED
      BY <3>1, CellsBelow
  <2>3. PlaceOf(b, i - 1) = PlaceOf(a, i - 1)
    <3>1. i - 1 = 0 \/ i - 1 \in 1 .. n
      BY <1>1, <1>7
    <3>2. QED
      BY <1>1, <3>1 DEF PlaceOf
  <2>4. b[i] = a[i] /\ new[i] = base[i] /\ new[i + 1] = base[i + 1]
    BY <1>1, <1>3, <1>7, <2>1
  <2>5. QED
    BY <2>2, <2>3, <2>4 DEF KeepsCells
<1>8. /\ CellsFit(ss, b[n + 1], PlaceOf(b, n + 1 - 1), new[n + 1], new[n + 1 + 1])
      /\ CallerFP(ss, b[n + 1], new[n + 1]) = f
  <2>1. n + 1 \in 1 .. n + 1 /\ n + 1 - 1 = n /\ n + 1 + 1 = n + 2
    BY <1>1
  <2>2. new[n + 1] = Len(rs) + 1 /\ new[n + 2] = Len(rs) + 2 + Extent(top)
    BY <1>1, <1>2, <1>3, <1>5, <2>1
  <2>3. PlaceOf(b, n) = PlaceOf(a, n)
    <3>1. n = 0 \/ n \in 1 .. n
      BY <1>1
    <3>2. QED
      BY <1>1, <3>1 DEF PlaceOf
  <2>4. CallerFP(ss, top, Len(rs) + 1) = f
    <3>1. Len(rs) + 1 + 1 = Len(rs) + 2
      BY <1>1
    <3>2. QED
      BY <3>1 DEF CallerFP, Link
  <2>5. CellsFit(ss, top, PlaceOf(a, n), Len(rs) + 1, Len(rs) + 2 + Extent(top))
    BY <1>1, <1>5, <2>4 DEF CellsFit
  <2>6. QED
    BY <1>1, <2>1, <2>2, <2>3, <2>4, <2>5
<1>9. ASSUME NEW i \in 1 .. n, b[i].section \in Settled
      PROVE  CallerFP(ss, b[i + 1], new[i + 1]) = b[i].fp
  <2>1. CASE i = n
    BY <1>1, <1>8, <1>9, <2>1 DEF Top
  <2>2. CASE i # n
    <3>1. i \in 1 .. n - 1 /\ i + 1 \in 1 .. n
      BY <1>1, <1>9, <2>2
    <3>2. CallerFP(rs, a[i + 1], base[i + 1]) = a[i].fp
      BY <1>1, <1>9, <3>1 DEF StackFits
    <3>3. QED
      BY <1>1, <1>7, <3>1, <3>2
  <2>3. QED
    BY <2>1, <2>2
<1>10. StackFits(ss, b, new)
  <2>1. n + 1 + 1 = n + 2 /\ n + 1 - 1 = n
    BY <1>1
  <2>2. \A i \in 1 .. n + 1 : i \in 1 .. n \/ i = n + 1
    BY <1>1
  <2>3. ASSUME NEW i \in 1 .. n + 1
        PROVE  CellsFit(ss, b[i], PlaceOf(b, i - 1), new[i], new[i + 1])
    <3>1. CASE i \in 1 .. n
      BY <1>7, <3>1
    <3>2. CASE i = n + 1
      BY <1>8, <3>2
    <3>3. QED
      BY <2>2, <3>1, <3>2
  <2>4. QED
    BY <1>1, <1>3, <1>4, <1>6, <1>9, <2>1, <2>3 DEF StackFits
<1>11. QED
  BY <1>10 DEF b

\* The newest activation returns.
LEMMA StackPop ==
    ASSUME NEW rs \in Seq(Cell), NEW a \in Seq(Activation), NEW base,
           StackFits(rs, a, base), Len(a) > 0,
           NEW b \in Seq(Activation), Len(b) = Len(a) - 1,
           \A i \in 1 .. Len(b) : b[i] = a[i],
           NEW ss \in Seq(Cell), Len(ss) = base[Len(a)] - 1,
           SameBelow(rs, ss, base[Len(a)])
    PROVE  \E new : StackFits(ss, b, new)
<1> DEFINE n == Len(a)
           new == [i \in 1 .. n |-> base[i]]
<1>1. n \in Nat \ {0} /\ Len(b) + 1 = n /\ Len(ss) \in Nat
  OBVIOUS
<1>2. /\ base \in [1 .. n + 1 -> Nat \ {0}]
      /\ \A i, j \in 1 .. n + 1 : i < j => base[i] < base[j]
  BY DEF StackFits
<1> HIDE DEF n
<1>3. \A i \in 1 .. n : new[i] = base[i] /\ i \in 1 .. n + 1
  BY <1>1
<1>4. /\ new \in [1 .. n -> Nat \ {0}]
      /\ \A i, j \in 1 .. n : i < j => new[i] < new[j]
  BY <1>2, <1>3
<1>5. new[n] = Len(ss) + 1
  <2>1. base[n] \in Nat \ {0}
    BY <1>1, <1>2
  <2>2. QED
    BY <1>1, <1>3, <2>1 DEF n
<1> HIDE DEF new
<1>6. ASSUME NEW i \in 1 .. Len(b)
      PROVE  /\ CellsFit(ss, b[i], PlaceOf(b, i - 1), new[i], new[i + 1])
             /\ CallerFP(ss, b[i], new[i]) = CallerFP(rs, a[i], base[i])
  <2>1. i \in 1 .. n /\ i + 1 \in 1 .. n /\ i \in 1 .. Len(a)
    BY <1>1, <1>6 DEF n
  <2>2. SameBelow(rs, ss, base[i + 1])
    <3>1. base[i + 1] <= base[n] /\ base[i + 1] \in Nat /\ base[n] \in Nat
      <4>1. /\ n \in 1 .. n + 1 /\ i + 1 \in 1 .. n + 1
            /\ i + 1 = n \/ i + 1 < n
        BY <1>1, <2>1
      <4>2. base[i + 1] \in Nat \ {0} /\ base[n] \in Nat \ {0}
        BY <1>2, <4>1
      <4>3. base[i + 1] = base[n] \/ base[i + 1] < base[n]
        BY <1>2, <4>1
      <4>4. QED
        BY <4>2, <4>3
    <3>2. Len(rs) \in Nat /\ base[n] = Len(ss) + 1
      <4>1. n \in 1 .. n
        BY <1>1
      <4>2. QED
        BY <1>3, <1>5, <4>1
    <3>3. QED
      BY <1>1, <3>1, <3>2 DEF SameBelow
  <2>3. KeepsCells(rs, ss, a, base, i)
    <3>1. i \in 1 .. Len(a)
      BY <2>1
    <3>2. QED
      BY <2>2, <3>1, CellsBelow
  <2>4. PlaceOf(b, i - 1) = PlaceOf(a, i - 1)
    <3>1. i - 1 = 0 \/ i - 1 \in 1 .. Len(b)
      BY <1>1, <1>6
    <3>2. QED
      BY <3>1 DEF PlaceOf
  <2>5. QED
    BY <1>3, <1>6, <2>1, <2>3, <2>4 DEF KeepsCells
<1>7. ASSUME NEW i \in 1 .. Len(b) - 1, b[i].section \in Settled
      PROVE  CallerFP(ss, b[i + 1], new[i + 1]) = b[i].fp
  <2>1. i \in 1 .. Len(b) /\ i + 1 \in 1 .. Len(b) /\ i \in 1 .. Len(a) - 1
    BY <1>1, <1>7 DEF n
  <2>2. CallerFP(rs, a[i + 1], base[i + 1]) = a[i].fp
    BY <1>7, <2>1 DEF StackFits
  <2>3. QED
    BY <1>6, <2>1, <2>2
<1>8. StackFits(ss, b, new)
  BY <1>1, <1>4, <1>5, <1>6, <1>7 DEF StackFits
<1>9. QED
  BY <1>8

\* An activation of a word with locals comes to another section and is the
\* newest: those above it are gone, and their cells may be.
LEMMA StackCut ==
    ASSUME NEW rs \in Seq(Cell), NEW a \in Seq(Activation), NEW base,
           StackFits(rs, a, base), NEW n \in 1 .. Len(a),
           NEW b \in Seq(Activation), Len(b) = n,
           \A i \in 1 .. n - 1 : b[i] = a[i],
           b[n].word = a[n].word, b[n].fp = a[n].fp, a[n].word \in Locals,
           NEW ss \in Seq(Cell), Len(ss) >= base[n] + Extent(b[n]),
           SameBelow(rs, ss, base[n] + 2)
    PROVE  \E new : StackFits(ss, b, new)
<1> DEFINE new == [i \in 1 .. n + 1 |-> IF i = n + 1 THEN Len(ss) + 1 ELSE base[i]]
<1>1. n \in Nat \ {0} /\ n <= Len(a) /\ Len(a) \in Nat /\ Len(ss) \in Nat /\ Len(rs) \in Nat
  OBVIOUS
<1>2. /\ base \in [1 .. Len(a) + 1 -> Nat \ {0}]
      /\ \A i, j \in 1 .. Len(a) + 1 : i < j => base[i] < base[j]
  BY DEF StackFits
<1>3. \A i \in 1 .. n : /\ new[i] = base[i] /\ i \in 1 .. Len(a) /\ i \in 1 .. Len(a) + 1
                        /\ base[i] \in Nat \ {0} /\ base[i] <= base[n]
  <2> TAKE i \in 1 .. n
  <2>1. new[i] = base[i] /\ i \in 1 .. Len(a) /\ i \in 1 .. Len(a) + 1
    BY <1>1
  <2>2. i = n \/ i < n
    BY <1>1
  <2>3. n \in 1 .. Len(a) + 1 /\ n \in 1 .. n
    BY <1>1
  <2>4. base[i] \in Nat \ {0} /\ base[n] \in Nat \ {0}
    BY <1>2, <2>1, <2>3
  <2>5. base[i] = base[n] \/ base[i] < base[n]
    BY <1>2, <2>1, <2>2, <2>3
  <2>6. QED
    BY <2>1, <2>4, <2>5
<1>4. new[n + 1] = Len(ss) + 1
  BY <1>1
<1>5. Extent(b[n]) \in Nat /\ Extent(b[n]) > 0
  BY ExceptionsAssumption DEF Extent
<1>6. n \in 1 .. n
  BY <1>1
<1>7. new \in [1 .. n + 1 -> Nat \ {0}]
  <2>1. \A i \in 1 .. n + 1 : i = n + 1 \/ i \in 1 .. n
    BY <1>1
  <2>2. Len(ss) + 1 \in Nat \ {0}
    BY <1>1
  <2>3. \A i \in 1 .. n : base[i] \in Nat \ {0}
    BY <1>3
  <2>4. QED
    BY <2>1, <2>2, <2>3
<1> HIDE DEF new
<1>8. \A i, j \in 1 .. n + 1 : i < j => new[i] < new[j]
  <2> TAKE i, j \in 1 .. n + 1
  <2>1. CASE j = n + 1 /\ i # n + 1
    <3>1. i \in 1 .. n
      BY <1>1, <2>1
    <3>2. base[i] \in Nat /\ base[n] \in Nat /\ base[i] <= base[n]
      BY <1>3, <1>6, <3>1
    <3>3. base[i] < Len(ss) + 1
      BY <1>1, <1>5, <3>2
    <3>4. QED
      BY <1>3, <1>4, <2>1, <3>1, <3>3
  <2>2. CASE j # n + 1 /\ i < j
    <3>1. i \in 1 .. n /\ j \in 1 .. n
      BY <1>1, <2>2
    <3>2. QED
      BY <1>2, <1>3, <2>2, <3>1
  <2>3. QED
    BY <1>1, <2>1, <2>2
<1>9. ASSUME NEW i \in 1 .. n - 1
      PROVE  /\ CellsFit(ss, b[i], PlaceOf(b, i - 1), new[i], new[i + 1])
             /\ CallerFP(ss, b[i], new[i]) = CallerFP(rs, a[i], base[i])
  <2>1. i \in 1 .. n /\ i + 1 \in 1 .. n /\ i \in 1 .. Len(a)
    BY <1>1, <1>9
  <2>2. SameBelow(rs, ss, base[i + 1])
    <3>1. base[i + 1] \in Nat /\ base[n] \in Nat /\ base[i + 1] <= base[n]
      BY <1>3, <1>6, <2>1
    <3>2. QED
      BY <3>1 DEF SameBelow
  <2>3. KeepsCells(rs, ss, a, base, i)
    <3>1. i \in 1 .. Len(a)
      BY <2>1
    <3>2. QED
      BY <2>2, <3>1, CellsBelow
  <2>4. PlaceOf(b, i - 1) = PlaceOf(a, i - 1)
    <3>1. i - 1 = 0 \/ i - 1 \in 1 .. n - 1
      BY <1>1, <1>9
    <3>2. QED
      BY <3>1 DEF PlaceOf
  <2>5. QED
    BY <1>3, <1>9, <2>1, <2>3, <2>4 DEF KeepsCells
<1>10. /\ CellsFit(ss, b[n], PlaceOf(b, n - 1), new[n], new[n + 1])
       /\ CallerFP(ss, b[n], new[n]) = CallerFP(rs, a[n], base[n])
  <2>1. CellsFit(rs, a[n], PlaceOf(a, n - 1), base[n], base[n + 1])
    BY DEF StackFits
  <2>2. base[n] \in Nat \ {0} /\ base[n + 1] \in Nat /\ base[n + 1] <= Len(rs) + 1
    BY Bases
  <2>3. base[n] + 1 < base[n + 1]
    <3>1. Extent(a[n]) \in Nat /\ Extent(a[n]) > 0
      BY ExceptionsAssumption DEF Extent
    <3>2. base[n + 1] > base[n] + Extent(a[n])
      BY <2>1 DEF CellsFit
    <3>3. QED
      BY <2>2, <3>1, <3>2
  <2>4. base[n] \in 1 .. Len(rs) /\ base[n] + 1 \in 1 .. Len(rs)
    BY <1>1, <2>2, <2>3
  <2>5. ss[base[n]] = rs[base[n]] /\ ss[base[n] + 1] = rs[base[n] + 1]
    <3>1. base[n] < base[n] + 2 /\ base[n] + 1 < base[n] + 2
      BY <2>2
    <3>2. QED
      BY <2>4, <3>1 DEF SameBelow
  <2>6. PlaceOf(b, n - 1) = PlaceOf(a, n - 1)
    <3>1. n - 1 = 0 \/ n - 1 \in 1 .. n - 1
      BY <1>1
    <3>2. QED
      BY <3>1 DEF PlaceOf
  <2>7. new[n] = base[n] /\ new[n + 1] = Len(ss) + 1
    BY <1>3, <1>4, <1>6
  <2>8. CallerFP(ss, b[n], base[n]) = CallerFP(rs, a[n], base[n])
    BY <2>5 DEF CallerFP
  <2>9. Len(ss) + 1 > base[n] + Extent(b[n])
    BY <1>1, <1>5, <2>2
  <2>10. CellsFit(ss, b[n], PlaceOf(b, n - 1), base[n], Len(ss) + 1)
    BY <2>1, <2>5, <2>6, <2>8, <2>9 DEF CellsFit
  <2>11. QED
    BY <2>7, <2>8, <2>10
<1>11. ASSUME NEW i \in 1 .. n - 1, b[i].section \in Settled
       PROVE  CallerFP(ss, b[i + 1], new[i + 1]) = b[i].fp
  <2>1. (i + 1 = n \/ i + 1 \in 1 .. n - 1) /\ i \in 1 .. Len(a) - 1
    BY <1>1, <1>11
  <2>2. CallerFP(rs, a[i + 1], base[i + 1]) = a[i].fp
    BY <1>11, <2>1 DEF StackFits
  <2>3. QED
    BY <1>9, <1>10, <1>11, <2>1, <2>2
<1>12. StackFits(ss, b, new)
  <2>1. \A i \in 1 .. n : i \in 1 .. n - 1 \/ i = n
    BY <1>1
  <2>2. \A i \in 1 .. n : CellsFit(ss, b[i], PlaceOf(b, i - 1), new[i], new[i + 1])
    BY <1>9, <1>10, <2>1
  <2>3. QED
    BY <1>4, <1>7, <1>8, <1>11, <2>2 DEF StackFits
<1>13. QED
  BY <1>12

\* The newest activation comes to another section.
LEMMA StackMove ==
    ASSUME NEW rs \in Seq(Cell), NEW a \in Seq(Activation), NEW base,
           StackFits(rs, a, base), Len(a) > 0,
           NEW top \in Activation, top.word = Top(a).word, top.fp = Top(a).fp,
           top.word \in Locals,
           NEW ss \in Seq(Cell),
           Len(ss) + Extent(Top(a)) >= Len(rs) + Extent(top),
           SameBelow(rs, ss, Len(rs) + 2 - Extent(Top(a)))
    PROVE  \E new : StackFits(ss, OnTop(a, top), new)
<1> DEFINE n == Len(a)
           b == OnTop(a, top)
<1>1. n \in 1 .. Len(a) /\ a[n] = Top(a) /\ a[n] \in Activation
  BY DEF Top
<1>2. /\ b \in Seq(Activation) /\ Len(b) = n /\ b[n] = top
      /\ \A i \in 1 .. n - 1 : b[i] = a[i]
  BY DEF OnTop
<1>3. CellsFit(rs, a[n], PlaceOf(a, n - 1), base[n], base[n + 1])
  BY <1>1 DEF StackFits
<1>4. base[n] \in Nat \ {0} /\ base[n + 1] = Len(rs) + 1
  BY <1>1, Bases DEF StackFits
<1>5. Extent(a[n]) \in Nat /\ Extent(top) \in Nat
  BY ExceptionsAssumption DEF Extent
<1>6. base[n + 1] > base[n] + Extent(a[n])
  BY <1>1, <1>3 DEF CellsFit
<1>7. Len(ss) >= base[n] + Extent(b[n])
  <2>1. Len(rs) \in Nat /\ Len(ss) \in Nat
    OBVIOUS
  <2>2. QED
    BY <1>1, <1>2, <1>4, <1>5, <1>6, <2>1
<1>8. SameBelow(rs, ss, base[n] + 2)
  <2> SUFFICES ASSUME NEW i \in 1 .. Len(rs), i < base[n] + 2
               PROVE  ss[i] = rs[i]
    BY DEF SameBelow
  <2>1. Len(rs) \in Nat
    OBVIOUS
  <2>2. i < Len(rs) + 2 - Extent(a[n])
    BY <1>4, <1>5, <1>6, <2>1
  <2>3. QED
    BY <1>1, <2>2 DEF SameBelow
<1>9. b[n].word = a[n].word /\ b[n].fp = a[n].fp /\ a[n].word \in Locals
  BY <1>1, <1>2
<1> HIDE DEF n, b
<1>10. \E new : StackFits(ss, b, new)
  BY <1>1, <1>2, <1>7, <1>8, <1>9, StackCut
<1>11. QED
  BY <1>10 DEF b

-----------------------------------------------------------------------------
(* The newest frame *)

\* A try block that execution is in has the newest frame.
LEMMA NewestFrame ==
    ASSUME NEW fs \in Seq(Frame), NEW a \in Seq(Activation), NEW open,
           FramesFit(fs, a, open), Len(a) > 0, InTry(a[Len(a)])
    PROVE  /\ Len(fs) > 0 /\ Len(fs) \in DOMAIN fs /\ fs[Len(fs)] \in Frame
           /\ open[Len(fs)] = Len(a)
           /\ IsFrameOf(fs[Len(fs)], a[Len(a)])
           /\ KnowsException(fs[Len(fs)], a[Len(a)])
<1> DEFINE m == Len(fs)
<1>1. /\ open \in [DOMAIN fs -> DOMAIN a]
      /\ \A i, j \in DOMAIN fs : i < j => open[i] < open[j]
      /\ \A l \in DOMAIN a : InTry(a[l]) <=> \E i \in DOMAIN fs : open[i] = l
  BY DEF FramesFit, AreFramesOf
<1>2. Len(a) \in DOMAIN a
  OBVIOUS
<1>3. PICK i \in DOMAIN fs : open[i] = Len(a)
  BY <1>1, <1>2
<1>4. m \in DOMAIN fs /\ m > 0 /\ (i = m \/ i < m)
  BY <1>3
<1>5. open[m] \in DOMAIN a
  BY <1>1, <1>4
<1>6. ~(i < m)
  BY <1>1, <1>3, <1>4, <1>5
<1>7. open[m] = Len(a)
  BY <1>3, <1>4, <1>6
<1>8. IsFrameOf(fs[m], a[open[m]]) /\ KnowsException(fs[m], a[open[m]])
  BY <1>4 DEF FramesFit, AreFramesOf
<1>9. QED
  BY <1>4, <1>7, <1>8

\* No activation above that of the newest frame is in a try block.
LEMMA AboveNewest ==
    ASSUME NEW fs \in Seq(Frame), NEW a \in Seq(Activation), NEW open,
           FramesFit(fs, a, open), Len(fs) > 0
    PROVE  /\ open[Len(fs)] \in DOMAIN a /\ InTry(a[open[Len(fs)]])
           /\ \A j \in DOMAIN a : j > open[Len(fs)] => ~InTry(a[j])
           /\ Len(fs) \in DOMAIN fs /\ fs[Len(fs)] \in Frame
           /\ IsFrameOf(fs[Len(fs)], a[open[Len(fs)]])
           /\ KnowsException(fs[Len(fs)], a[open[Len(fs)]])
<1> DEFINE m == Len(fs)
<1>1. /\ open \in [DOMAIN fs -> DOMAIN a]
      /\ \A i, j \in DOMAIN fs : i < j => open[i] < open[j]
      /\ \A l \in DOMAIN a : InTry(a[l]) <=> \E i \in DOMAIN fs : open[i] = l
  BY DEF FramesFit, AreFramesOf
<1>2. m \in DOMAIN fs
  OBVIOUS
<1>3. \A i \in DOMAIN fs : i = m \/ i < m
  OBVIOUS
<1>4. open[m] \in DOMAIN a /\ InTry(a[open[m]])
  BY <1>1, <1>2
<1>5. ASSUME NEW j \in DOMAIN a, j > open[m], InTry(a[j])
      PROVE  FALSE
  <2>1. PICK i \in DOMAIN fs : open[i] = j
    BY <1>1, <1>5
  <2>2. open[i] <= open[m]
    BY <1>1, <1>2, <1>3, <1>4
  <2>3. QED
    BY <1>4, <1>5, <2>1, <2>2
<1>6. IsFrameOf(fs[m], a[open[m]]) /\ KnowsException(fs[m], a[open[m]]) /\ fs[m] \in Frame
  BY <1>2 DEF FramesFit, AreFramesOf
<1>7. QED
  BY <1>2, <1>4, <1>5, <1>6

\* A try block begins.
LEMMA FramesPush ==
    ASSUME NEW fs \in Seq(Frame), NEW a \in Seq(Activation), NEW open,
           FramesFit(fs, a, open), Len(a) > 0, ~InTry(a[Len(a)]),
           NEW top \in Activation, InTry(top),
           NEW frame \in Frame, IsFrameOf(frame, top), KnowsException(frame, top),
           frame.number = 0
    PROVE  \E new : FramesFit(Append(fs, frame), OnTop(a, top), new)
<1> DEFINE n == Len(a)
           m == Len(fs)
           b == OnTop(a, top)
           gs == Append(fs, frame)
           new == [i \in 1 .. m + 1 |-> IF i = m + 1 THEN n ELSE open[i]]
<1>1. /\ n \in Nat \ {0} /\ m \in Nat /\ DOMAIN a = 1 .. n /\ DOMAIN fs = 1 .. m
      /\ b \in Seq(Activation) /\ DOMAIN b = 1 .. n /\ b[n] = top
      /\ \A i \in 1 .. n - 1 : b[i] = a[i]
      /\ gs \in Seq(Frame) /\ DOMAIN gs = 1 .. m + 1 /\ gs[m + 1] = frame
      /\ \A i \in 1 .. m : gs[i] = fs[i]
  BY DEF OnTop
<1>2. /\ open \in [1 .. m -> 1 .. n]
      /\ \A i, j \in 1 .. m : i < j => open[i] < open[j]
      /\ \A l \in 1 .. n : InTry(a[l]) <=> \E i \in 1 .. m : open[i] = l
      /\ \A i \in 1 .. m : IsFrameOf(fs[i], a[open[i]]) /\ KnowsException(fs[i], a[open[i]])
  BY <1>1 DEF FramesFit, AreFramesOf
<1>3. ~InTry(a[n])
  OBVIOUS
<1> HIDE DEF n, b, gs
<1>4. \A i \in 1 .. m : open[i] \in 1 .. n - 1 /\ b[open[i]] = a[open[i]]
  <2> TAKE i \in 1 .. m
  <2>1. open[i] \in 1 .. n /\ open[i] # n
    BY <1>1, <1>2, <1>3
  <2>2. open[i] \in 1 .. n - 1
    BY <1>1, <2>1
  <2>3. QED
    BY <1>1, <2>2
<1> HIDE DEF m
<1>5. new[m + 1] = n /\ \A i \in 1 .. m : new[i] = open[i] /\ i # m + 1
  BY <1>1
<1>6. \A i \in 1 .. m + 1 : i \in 1 .. m \/ i = m + 1
  BY <1>1
<1>7. new \in [1 .. m + 1 -> 1 .. n]
  <2>1. n \in 1 .. n
    BY <1>1
  <2>2. QED
    BY <1>2, <1>6, <2>1
<1> HIDE DEF new
<1>8. \A i, j \in 1 .. m + 1 : i < j => new[i] < new[j]
  <2> TAKE i, j \in 1 .. m + 1
  <2>1. CASE i \in 1 .. m /\ j \in 1 .. m
    BY <1>2, <1>5, <2>1
  <2>2. CASE i \in 1 .. m /\ j = m + 1
    <3>1. open[i] \in 1 .. n - 1
      BY <1>4, <2>2
    <3>2. QED
      BY <1>1, <1>5, <2>2, <3>1
  <2>3. CASE i = m + 1
    BY <1>1, <2>3
  <2>4. QED
    BY <1>6, <2>1, <2>2, <2>3
<1>9. \A l \in 1 .. n : InTry(b[l]) <=> \E i \in 1 .. m + 1 : new[i] = l
  <2> TAKE l \in 1 .. n
  <2>1. CASE l = n
    <3>1. m + 1 \in 1 .. m + 1
      BY <1>1
    <3>2. QED
      BY <1>1, <1>5, <2>1, <3>1
  <2>2. CASE l # n
    <3>1. b[l] = a[l]
      <4>1. l \in 1 .. n - 1
        BY <1>1, <2>2
      <4>2. QED
        BY <1>1, <4>1
    <3>2. \A i \in 1 .. m : i \in 1 .. m + 1
      BY <1>1
    <3>3. QED
      BY <1>2, <1>5, <1>6, <2>2, <3>1, <3>2
  <2>3. QED
    BY <2>1, <2>2
<1>10. \A i \in 1 .. m + 1 : IsFrameOf(gs[i], b[new[i]]) /\ KnowsException(gs[i], b[new[i]])
  <2>1. \A i \in 1 .. m : IsFrameOf(gs[i], b[new[i]]) /\ KnowsException(gs[i], b[new[i]])
    BY <1>1, <1>2, <1>4, <1>5
  <2>2. IsFrameOf(gs[m + 1], b[new[m + 1]]) /\ KnowsException(gs[m + 1], b[new[m + 1]])
    BY <1>1, <1>5
  <2>3. QED
    BY <1>6, <2>1, <2>2
<1>11. EscapesSafely(gs, b, new)
  <2> SUFFICES ASSUME NEW i \in DOMAIN gs, gs[i].number # 0,
                      b[new[i]].section \in {"cleanup", "finally"},
                      NEW l \in 1 .. i - 1
               PROVE  gs[l].state # "finally"
    BY DEF EscapesSafely
  <2>1. i \in 1 .. m
    BY <1>1, <1>6
  <2>2. l \in 1 .. m /\ gs[l] = fs[l] /\ gs[i] = fs[i] /\ b[new[i]] = a[open[i]]
    BY <1>1, <1>4, <1>5, <2>1
  <2>3. EscapesSafely(fs, a, open)
    BY DEF FramesFit
  <2>4. QED
    BY <1>1, <2>1, <2>2, <2>3 DEF EscapesSafely
<1>12. FramesFit(gs, b, new)
  BY <1>1, <1>7, <1>8, <1>9, <1>10, <1>11 DEF FramesFit, AreFramesOf
<1>13. QED
  BY <1>12 DEF gs, b

\* A try block ends.
LEMMA FramesPop ==
    ASSUME NEW fs \in Seq(Frame), NEW a \in Seq(Activation), NEW open,
           FramesFit(fs, a, open), Len(a) > 0, InTry(a[Len(a)]),
           NEW top \in Activation, ~InTry(top)
    PROVE  FramesFit(Drop(fs, 1), OnTop(a, top), [i \in 1 .. Len(fs) - 1 |-> open[i]])
<1> DEFINE n == Len(a)
           m == Len(fs)
           b == OnTop(a, top)
           gs == Drop(fs, 1)
           new == [i \in 1 .. m - 1 |-> open[i]]
<1>1. /\ Len(fs) > 0 /\ open[m] = n
  BY NewestFrame
<1>2. /\ n \in Nat \ {0} /\ m \in Nat \ {0} /\ DOMAIN a = 1 .. n /\ DOMAIN fs = 1 .. m
      /\ b \in Seq(Activation) /\ DOMAIN b = 1 .. n /\ b[n] = top
      /\ \A i \in 1 .. n - 1 : b[i] = a[i]
  BY <1>1 DEF OnTop
<1>3. /\ gs \in Seq(Frame) /\ DOMAIN gs = 1 .. m - 1
      /\ \A i \in 1 .. m - 1 : gs[i] = fs[i]
  BY <1>1 DEF Drop
<1>4. /\ open \in [1 .. m -> 1 .. n]
      /\ \A i, j \in 1 .. m : i < j => open[i] < open[j]
      /\ \A l \in 1 .. n : InTry(a[l]) <=> \E i \in 1 .. m : open[i] = l
      /\ \A i \in 1 .. m : IsFrameOf(fs[i], a[open[i]]) /\ KnowsException(fs[i], a[open[i]])
  BY <1>2 DEF FramesFit, AreFramesOf
<1> HIDE DEF n, b, gs
<1>5. \A i \in 1 .. m - 1 : /\ i \in 1 .. m /\ new[i] = open[i]
                            /\ open[i] \in 1 .. n - 1 /\ b[open[i]] = a[open[i]]
  <2> TAKE i \in 1 .. m - 1
  <2>1. i \in 1 .. m /\ m \in 1 .. m /\ i < m
    BY <1>2
  <2>2. open[i] \in 1 .. n /\ open[i] < n
    BY <1>1, <1>4, <2>1
  <2>3. open[i] \in 1 .. n - 1
    BY <1>2, <2>2
  <2>4. QED
    BY <1>2, <2>1, <2>3
<1> HIDE DEF m
<1>6. new \in [1 .. m - 1 -> 1 .. n]
  <2>1. \A i \in 1 .. m - 1 : open[i] \in 1 .. n
    BY <1>4, <1>5
  <2>2. QED
    BY <2>1
<1> HIDE DEF new
<1>7. \A i, j \in 1 .. m - 1 : i < j => new[i] < new[j]
  BY <1>4, <1>5
<1>8. \A l \in 1 .. n : InTry(b[l]) <=> \E i \in 1 .. m - 1 : new[i] = l
  <2> TAKE l \in 1 .. n
  <2>1. CASE l = n
    <3>1. \A i \in 1 .. m - 1 : new[i] # n
      BY <1>2, <1>5
    <3>2. QED
      BY <1>2, <2>1, <3>1
  <2>2. CASE l # n
    <3>1. b[l] = a[l]
      <4>1. l \in 1 .. n - 1
        BY <1>2, <2>2
      <4>2. QED
        BY <1>2, <4>1
    <3>2. \A i \in 1 .. m : i \in 1 .. m - 1 \/ i = m
      BY <1>2
    <3>3. QED
      BY <1>1, <1>4, <1>5, <2>2, <3>1, <3>2
  <2>3. QED
    BY <2>1, <2>2
<1>9. \A i \in 1 .. m - 1 : IsFrameOf(gs[i], b[new[i]]) /\ KnowsException(gs[i], b[new[i]])
  BY <1>3, <1>4, <1>5
<1>10. EscapesSafely(gs, b, new)
  <2> SUFFICES ASSUME NEW i \in DOMAIN gs, gs[i].number # 0,
                      b[new[i]].section \in {"cleanup", "finally"},
                      NEW l \in 1 .. i - 1
               PROVE  gs[l].state # "finally"
    BY DEF EscapesSafely
  <2>1. i \in 1 .. m - 1 /\ l \in 1 .. m - 1
    BY <1>2, <1>3
  <2>2. gs[l] = fs[l] /\ gs[i] = fs[i] /\ b[new[i]] = a[open[i]] /\ i \in DOMAIN fs
    BY <1>2, <1>3, <1>5, <2>1
  <2>3. EscapesSafely(fs, a, open)
    BY DEF FramesFit
  <2>4. QED
    BY <2>2, <2>3 DEF EscapesSafely
<1>11. FramesFit(gs, b, new)
  BY <1>2, <1>3, <1>6, <1>7, <1>8, <1>9, <1>10 DEF FramesFit, AreFramesOf
<1>12. QED
  BY <1>11 DEF gs, b, new, m

\* The frames fs after an exception n.
Raised(fs, n) == OnTop(fs, [Top(fs) EXCEPT !.number = n, !.state = "except"])

\* Activation k of a takes the exception n, and so does the newest frame of fs.
TakenBy(fs, a, k, n) ==
    /\ k \in 1 .. Len(a)
    /\ Unwound(a, n) \in Seq(Activation) /\ Len(Unwound(a, n)) = k
    /\ SameBelow(a, Unwound(a, n), k)
    /\ Unwound(a, n)[k].word = a[k].word /\ Unwound(a, n)[k].fp = a[k].fp
    /\ a[k].word \in Locals
    /\ InTry(a[k]) /\ InTry(Unwound(a, n)[k])
    /\ Unwound(a, n)[k].section = IF Top(fs).number = 0 THEN "handler" ELSE "cleanup"
    /\ Top(fs).word = a[k].word
    /\ Top(fs).state # "finally"
    /\ Top(fs).number # 0 => Top(fs).state = "except"
    /\ ActivationsFit(Unwound(a, n))
    /\ Raised(fs, n) \in Seq(Frame)
    /\ \E new : FramesFit(Raised(fs, n), Unwound(a, n), new)

\* An exception is taken by the block of the newest frame.
LEMMA RaisedFrames ==
    ASSUME NEW fs \in Seq(Frame), NEW a \in Seq(Activation), NEW open,
           FramesFit(fs, a, open), ActivationsFit(a), Len(fs) > 0, NEW n \in Numbers,
           a[open[Len(fs)]].section \in {"body", "handler"},
           a[open[Len(fs)]].section = "handler" => NoFinally(fs, Len(fs))
    PROVE  TakenBy(fs, a, open[Len(fs)], n)
<1> DEFINE m == Len(fs)
           k == open[m]
           b == Unwound(a, n)
           frame == [Top(fs) EXCEPT !.number = n, !.state = "except"]
           gs == Raised(fs, n)
<1>1. /\ m \in DOMAIN fs /\ fs[m] \in Frame /\ Top(fs) = fs[m]
      /\ k \in DOMAIN a /\ InTry(a[k])
      /\ \A j \in DOMAIN a : j > k => ~InTry(a[j])
      /\ IsFrameOf(fs[m], a[k]) /\ KnowsException(fs[m], a[k])
  BY AboveNewest DEF Top
<1>2. \A j \in DOMAIN a : j > k => a[j].section \notin {"body", "handler"}
  BY <1>1 DEF InTry
<1>3. /\ b \in Seq(Activation) /\ Len(b) = k /\ SameBelow(a, b, k)
      /\ b[k].word = a[k].word /\ b[k].fp = a[k].fp /\ b[k].pending = n
      /\ b[k].section = IF a[k].section = "body" THEN "handler" ELSE "cleanup"
  <2> HIDE DEF k
  <2>1. a[k].section \in {"body", "handler"}
    BY DEF k
  <2>2. QED
    BY <1>1, <1>2, <2>1, UnwoundTo
<1>4. k \in 1 .. Len(a) /\ a[k] \in Activation /\ DOMAIN a = 1 .. Len(a) /\ Len(a) \in Nat
  BY <1>1
<1>5. n # 0 /\ n \in Nat
  BY ExceptionsAssumption
<1>7. InTry(b[k])
  BY <1>3 DEF InTry
<1>8. a[k].word \in Locals
  BY <1>4 DEF ActivationsFit
<1>11. /\ b[k].section = IF Top(fs).number = 0 THEN "handler" ELSE "cleanup"
       /\ Top(fs).word = a[k].word
       /\ Top(fs).state # "finally"
       /\ Top(fs).number # 0 => Top(fs).state = "except"
  <2>1. CASE a[k].section = "body"
    <3>1. Top(fs).number = 0 /\ Top(fs).state = "try" /\ Top(fs).word = a[k].word
      BY <1>1, <2>1 DEF IsFrameOf, KnowsException
    <3>2. QED
      BY <1>3, <2>1, <3>1
  <2>2. CASE a[k].section = "handler"
    <3>1. Top(fs).number # 0 /\ Top(fs).state = "except" /\ Top(fs).word = a[k].word
      BY <1>1, <2>2 DEF IsFrameOf, KnowsException
    <3>2. QED
      BY <1>3, <2>2, <3>1
  <2>3. QED
    BY <2>1, <2>2
<1>12. ActivationsFit(b)
  <2>1. DOMAIN b = 1 .. k /\ k \in Nat
    BY <1>3, <1>4
  <2>2. \A i \in 1 .. k - 1 : i \in DOMAIN a /\ a[i].section # "cleanup"
    BY <1>4 DEF ActivationsFit
  <2>3. \A i \in 1 .. k : i = k \/ i \in 1 .. k - 1
    BY <2>1
  <2>4. \A i \in 1 .. k - 1 : /\ b[i].section # "cleanup"
                              /\ b[i].section = "start" => b[i].pending = 0
                              /\ b[i].section # "start" => b[i].word \in Locals
    BY <1>3, <1>4, <2>2 DEF ActivationsFit, SameBelow
  <2>5. b[k].section # "start" /\ b[k].word \in Locals
    BY <1>3, <1>8
  <2>6. QED
    BY <1>3, <2>1, <2>3, <2>4, <2>5 DEF ActivationsFit
<1>13. /\ frame \in Frame /\ frame.number = n /\ frame.state = "except"
       /\ frame.word = fs[m].word /\ frame.fp = fs[m].fp
  BY <1>1 DEF Frame, States
<1>14. /\ gs \in Seq(Frame) /\ Len(gs) = m /\ gs[m] = frame
       /\ SameBelow(fs, gs, m)
  <2>1. gs = OnTop(fs, frame)
    BY DEF Raised
  <2> HIDE DEF frame
  <2>2. QED
    BY <1>13, <2>1 DEF OnTop, SameBelow
<1>15. IsFrameOf(frame, b[k])
  BY <1>1, <1>3, <1>13 DEF IsFrameOf
<1>16. KnowsException(frame, b[k])
  BY <1>5, <1>13 DEF KnowsException
<1>17. frame.number # 0 /\ b[k].section \in {"cleanup", "finally"} =>
           NoFinally(fs, m)
  BY <1>3
<1> HIDE DEF k, b, frame, gs, m
<1>18. FramesFit(fs, a, open)
  OBVIOUS
<1>19. \E new : FramesFit(gs, b, new)
  <2>1. /\ Len(b) = open[m] /\ SameBelow(a, b, open[m]) /\ InTry(b[open[m]])
        /\ IsFrameOf(gs[m], b[open[m]]) /\ KnowsException(gs[m], b[open[m]])
        /\ gs[m].number # 0 /\ b[open[m]].section \in {"cleanup", "finally"} =>
               NoFinally(fs, m)
    BY <1>3, <1>7, <1>14, <1>15, <1>16, <1>17 DEF k
  <2>2. QED
    BY <1>1, <1>3, <1>14, <1>18, <2>1, FramesCut
<1>20. QED
  BY <1>1, <1>3, <1>4, <1>7, <1>8, <1>11, <1>12, <1>14, <1>19
     DEF k, b, gs, m, TakenBy

-----------------------------------------------------------------------------
(* The steps *)

\* The types of the variables, and what the IP says of the newest activation.
LEMMA TypeFacts ==
    ASSUME ExceptionsInv
    PROVE  /\ rstack \in Seq(Cell) /\ frames \in Seq(Frame)
           /\ activations \in Seq(Activation)
           /\ fp \in Nat /\ fp <= Len(rstack) /\ Len(rstack) \in Nat
           /\ ip = PlaceOf(activations, Len(activations))
           /\ ip.section \in Sections =>
                  /\ Len(activations) > 0 /\ activations # <<>>
                  /\ Top(activations) = activations[Len(activations)]
                  /\ Top(activations) \in Activation
                  /\ ip = At(Top(activations).word, Top(activations).section)
                  /\ ip.word = Top(activations).word
                  /\ ip.section = Top(activations).section
           /\ ip.section \notin Sections => activations = <<>> /\ ip = Console
<1>1. /\ rstack \in Seq(Cell) /\ frames \in Seq(Frame)
      /\ activations \in Seq(Activation) /\ fp \in 0 .. Len(rstack)
  BY DEF ExceptionsInv, ExceptionsTypeOK, Cell, Frame, Activation
<1>2. ip = IF activations = <<>> THEN Console
           ELSE At(Top(activations).word, Top(activations).section)
  BY DEF ExceptionsInv, ControlIsStructured
<1>3. CASE activations = <<>>
  <2>1. ip = Console /\ ip.section = "console" /\ Len(activations) = 0
    BY <1>2, <1>3 DEF Console, At
  <2>2. QED
    BY <1>1, <1>3, <2>1 DEF PlaceOf, Sections
<1>4. CASE activations # <<>>
  <2>1. /\ Len(activations) > 0 /\ Top(activations) = activations[Len(activations)]
        /\ Top(activations) \in Activation
    BY <1>1, <1>4 DEF Top
  <2>2. ip = At(Top(activations).word, Top(activations).section)
    BY <1>2, <1>4
  <2>3. ip.section = Top(activations).section /\ ip.word = Top(activations).word
    BY <2>2 DEF At
  <2>4. ip.section \in Sections
    BY <2>1, <2>3 DEF Activation
  <2>5. ip = PlaceOf(activations, Len(activations))
    BY <2>1, <2>2 DEF PlaceOf
  <2>6. QED
    BY <1>1, <1>4, <2>1, <2>2, <2>3, <2>4, <2>5
<1>5. QED
  BY <1>3, <1>4

\* How the invariant is shown of a next state.
LEMMA InvOfNext ==
    ASSUME rstack' \in Seq(Cell), frames' \in Seq(Frame), activations' \in Seq(Activation),
           fp' \in Nat, fp' <= Len(rstack'),
           ip'.section \in Settled => fp' = Top(activations').fp,
           ip' = PlaceOf(activations', Len(activations')),
           ActivationsFit(activations'),
           \E open : FramesFit(frames', activations', open),
           \E base : StackFits(rstack', activations', base)
    PROVE  ExceptionsInv'
<1>1. \/ activations' = <<>> /\ ip' = Console
      \/ /\ activations' # <<>> /\ Top(activations') \in Activation
         /\ ip' = At(Top(activations').word, Top(activations').section)
  BY DEF Top, PlaceOf
<1>2. ip' \in Places
  BY <1>1 DEF Places, At, Activation
<1>3. fp' \in 0 .. Len(rstack')
  OBVIOUS
<1>4. ExceptionsTypeOK'
  BY <1>2, <1>3 DEF ExceptionsTypeOK, Cell, Frame, Activation
<1>5. ControlIsStructured'
  BY <1>1 DEF ControlIsStructured
<1>6. LocalsAreOwn'
  BY DEF LocalsAreOwn, Settled
<1>7. QED
  BY <1>4, <1>5, <1>6 DEF ExceptionsInv

\* The same where the newest activation is known.
LEMMA InvOfTop ==
    ASSUME rstack' \in Seq(Cell), frames' \in Seq(Frame), activations' \in Seq(Activation),
           fp' \in Nat, fp' <= Len(rstack'), Len(activations') > 0,
           ip'.section \in Settled => fp' = Top(activations').fp,
           ip' = At(Top(activations').word, Top(activations').section),
           ActivationsFit(activations'),
           \E open : FramesFit(frames', activations', open),
           \E base : StackFits(rstack', activations', base)
    PROVE  ExceptionsInv'
<1>1. ip' = PlaceOf(activations', Len(activations'))
  BY DEF Top, PlaceOf
<1>2. QED
  BY <1>1, InvOfNext

\* At the console everything is empty.
LEMMA InvOfConsole == Init => ExceptionsInv
<1> SUFFICES ASSUME Init
             PROVE  ExceptionsInv
  OBVIOUS
<1> USE DEF Init
<1>1. ExceptionsTypeOK
  BY DEF ExceptionsTypeOK, Places
<1>2. ActivationsFit(activations)
  BY DEF ActivationsFit
<1>3. FramesFit(frames, activations, <<>>)
  BY DEF FramesFit, AreFramesOf, EscapesSafely
<1>4. StackFits(rstack, activations, [i \in {1} |-> 1])
  <2>1. Len(activations) = 0 /\ Len(rstack) = 0
    OBVIOUS
  <2>2. QED
    BY <2>1 DEF StackFits
<1>5. ControlIsStructured
  BY DEF ControlIsStructured
<1>6. LocalsAreOwn
  BY DEF LocalsAreOwn, Console, At
<1>7. QED
  BY <1>1, <1>2, <1>3, <1>4, <1>5, <1>6 DEF ExceptionsInv

\* Fiber::Reset leads there.
LEMMA ResetKeeps ==
    ASSUME Reset, activations' = <<>>
    PROVE  ExceptionsInv'
<1>1. Init'
  BY DEF Reset, Init
<1>2. QED
  BY <1>1, InvOfConsole, PTL

\* A word is called.
LEMMA CallKeeps ==
    ASSUME ExceptionsInv, NEW word \in Words, Call(word)
    PROVE  ExceptionsInv'
<1> DEFINE top == [word |-> word, section |-> "start", pending |-> 0, fp |-> fp']
           n == Len(activations)
           size == Len(rstack)
<1>1. /\ rstack \in Seq(Cell) /\ frames \in Seq(Frame)
      /\ activations \in Seq(Activation)
      /\ fp \in Nat /\ fp <= size /\ size \in Nat /\ n \in Nat
      /\ ip = PlaceOf(activations, n)
  BY TypeFacts
<1>2. ip \in Places
  BY DEF ExceptionsInv, ExceptionsTypeOK
<1>3. Address(ip) \in Cell /\ Link(fp) \in Cell
  BY <1>1, <1>2 DEF Address, Link, Cell, Places
<1>4. /\ ip' = At(word, "start") /\ frames' = frames
      /\ activations' = Append(activations, top)
  BY DEF Call
<1>5. Extent(top) = IF word \in Locals THEN 1 ELSE 0
  BY DEF Extent, InTry
<1>6. /\ rstack' \in Seq(Cell) /\ Len(rstack') = size + 1 + Extent(top)
      /\ SameBelow(rstack, rstack', size + 1)
      /\ rstack'[size + 1] = Address(ip)
      /\ word \in Locals => rstack'[size + 2] = Link(fp) /\ fp' = size + 2
      /\ word \notin Locals => fp' = fp
  <2>1. CASE word \in Locals
    <3>1. rstack' = rstack \o <<Address(ip), Link(fp)>> /\ fp' = Len(rstack')
      BY <2>1 DEF Call
    <3>2. /\ rstack' \in Seq(Cell) /\ Len(rstack') = size + 2
          /\ \A i \in 1 .. size : rstack'[i] = rstack[i]
          /\ rstack'[size + 1] = Address(ip) /\ rstack'[size + 2] = Link(fp)
      BY <1>1, <1>3, <3>1
    <3>3. size + 1 + Extent(top) = size + 2
      BY <1>1, <1>5, <2>1
    <3>4. QED
      BY <2>1, <3>1, <3>2, <3>3 DEF SameBelow
  <2>2. CASE word \notin Locals
    <3>1. rstack' = Append(rstack, Address(ip)) /\ fp' = fp
      BY <2>2 DEF Call
    <3>2. /\ rstack' \in Seq(Cell) /\ Len(rstack') = size + 1
          /\ \A i \in 1 .. size : rstack'[i] = rstack[i]
          /\ rstack'[size + 1] = Address(ip)
      BY <1>1, <1>3, <3>1
    <3>3. size + 1 + Extent(top) = size + 1
      BY <1>1, <1>5, <2>2
    <3>4. QED
      BY <2>2, <3>1, <3>2, <3>3 DEF SameBelow
  <2>3. QED
    BY <2>1, <2>2
<1>7. fp' \in Nat /\ fp' <= Len(rstack')
  BY <1>1, <1>5, <1>6
<1>8. top \in Activation
  BY <1>7 DEF Activation, Sections
<1>9. top.word = word /\ top.section = "start" /\ top.pending = 0 /\ top.fp = fp'
  OBVIOUS
<1> HIDE DEF top
<1>10. /\ activations' \in Seq(Activation) /\ Len(activations') = n + 1
       /\ activations'[n + 1] = top /\ Top(activations') = top
       /\ \A i \in 1 .. n : activations'[i] = activations[i]
  BY <1>1, <1>4, <1>8 DEF Top
<1>11. ActivationsFit(activations')
  <2>1. ip.section # "cleanup"
    BY DEF Call, Running, Console, At
  <2>2. \A i \in 1 .. n : activations[i].section = "cleanup" => i = n
    BY <1>1 DEF ExceptionsInv, ActivationsFit
  <2>3. n > 0 => activations[n].section # "cleanup"
    BY <1>1, <2>1 DEF PlaceOf, At
  <2>4. \A i \in 1 .. n : activations'[i].section # "cleanup"
    BY <1>1, <1>10, <2>2, <2>3
  <2>5. \A i \in 1 .. n + 1 : i \in 1 .. n \/ i = n + 1
    BY <1>1
  <2>6. \A i \in 1 .. n :
            /\ activations'[i].section = "start" => activations'[i].pending = 0
            /\ activations'[i].section # "start" => activations'[i].word \in Locals
    BY <1>1, <1>10 DEF ExceptionsInv, ActivationsFit
  <2>7. DOMAIN activations' = 1 .. n + 1
    BY <1>1, <1>10
  <2>8. QED
    BY <1>9, <1>10, <2>4, <2>5, <2>6, <2>7 DEF ActivationsFit
<1>12. \E open : FramesFit(frames', activations', open)
  <2>1. PICK open : FramesFit(frames, activations, open)
    BY DEF ExceptionsInv
  <2>2. ~InTry(top)
    BY <1>9 DEF InTry
  <2>3. /\ DOMAIN activations = 1 .. n /\ DOMAIN activations' = 1 .. n + 1
        /\ \A i \in 1 .. n : i \in 1 .. n + 1
        /\ \A i \in 1 .. n + 1 : i \in 1 .. n \/ i = n + 1
    BY <1>1, <1>10
  <2>4. /\ \A k \in DOMAIN activations : InTry(activations[k]) =>
                k \in DOMAIN activations' /\ activations'[k] = activations[k]
        /\ \A k \in DOMAIN activations' : InTry(activations'[k]) =>
                k \in DOMAIN activations /\ activations'[k] = activations[k]
    BY <1>10, <2>2, <2>3
  <2>5. FramesFit(frames, activations', open)
    BY <1>1, <1>10, <2>1, <2>4, FramesStay
  <2>6. QED
    BY <1>4, <2>5
<1>13. \E base : StackFits(rstack', activations', base)
  <2>1. PICK base : StackFits(rstack, activations, base)
    BY DEF ExceptionsInv
  <2>2. activations # <<>> /\ Top(activations).section \in Settled =>
            fp = Top(activations).fp
    <3>1. activations # <<>> => ip.section = Top(activations).section
      BY DEF ExceptionsInv, ControlIsStructured, At
    <3>2. QED
      BY <3>1 DEF ExceptionsInv, LocalsAreOwn, Settled
  <2>3. rstack'[size + 1] = Address(PlaceOf(activations, n))
    BY <1>1, <1>6
  <2>4. /\ top.word \in Locals => rstack'[size + 2] = Link(fp) /\ top.fp = size + 2
        /\ top.word \notin Locals => top.fp = fp
    BY <1>6, <1>9
  <2>5. \E base1 : StackFits(rstack', Append(activations, top), base1)
    BY <1>1, <1>6, <1>8, <1>9, <2>1, <2>2, <2>3, <2>4, StackPush
  <2>6. QED
    BY <1>4, <2>5
<1>14. ip'.section \in Settled => fp' = Top(activations').fp
  BY <1>9, <1>10
<1>15. ip' = At(Top(activations').word, Top(activations').section)
  BY <1>4, <1>9, <1>10
<1>16. QED
  BY <1>1, <1>4, <1>6, <1>7, <1>10, <1>11, <1>12, <1>13, <1>14, <1>15, InvOfTop

\* What the newest activation finds on the return stack when it returns.
LEMMA ReturnCells ==
    ASSUME NEW rs \in Seq(Cell), NEW a \in Seq(Activation), NEW base,
           StackFits(rs, a, base), Len(a) > 0
    PROVE  LET n == Len(a) IN
           /\ base[n] \in Nat \ {0} /\ base[n] <= Len(rs)
           /\ base[n] + Extent(a[n]) <= Len(rs)
           /\ rs[base[n]] = Address(PlaceOf(a, n - 1))
           /\ CallerFP(rs, a[n], base[n]) \in Nat
           /\ CallerFP(rs, a[n], base[n]) < base[n]
           /\ a[n].word \in Locals => a[n].fp = base[n] + 1
           /\ a[n].word \notin Locals => base[n] = Len(rs)
           /\ n > 1 /\ a[n - 1].section \in Settled =>
                  CallerFP(rs, a[n], base[n]) = a[n - 1].fp
<1> DEFINE n == Len(a)
<1>1. n \in 1 .. Len(a) /\ n \in Nat /\ a[n] \in Activation /\ Len(rs) \in Nat
  OBVIOUS
<1>2. base[n] \in Nat \ {0} /\ base[n + 1] = Len(rs) + 1
  BY <1>1, Bases DEF StackFits
<1>3. CellsFit(rs, a[n], PlaceOf(a, n - 1), base[n], base[n + 1])
  BY <1>1 DEF StackFits
<1>4. Extent(a[n]) \in Nat /\ (a[n].word \in Locals => Extent(a[n]) > 0)
      /\ (a[n].word \notin Locals => Extent(a[n]) = 0)
  BY ExceptionsAssumption DEF Extent
<1>5. base[n] <= Len(rs) /\ base[n] + Extent(a[n]) <= Len(rs)
  BY <1>1, <1>2, <1>3, <1>4 DEF CellsFit
<1>6. CallerFP(rs, a[n], base[n]) \in Nat
  <2>1. CASE a[n].word \in Locals
    <3>1. base[n] + 1 \in 1 .. Len(rs)
      BY <1>1, <1>2, <1>4, <1>5, <2>1
    <3>2. rs[base[n] + 1] \in Cell
      BY <3>1
    <3>3. QED
      BY <2>1, <3>2 DEF CallerFP, Cell
  <2>2. CASE a[n].word \notin Locals
    BY <1>1, <2>2 DEF CallerFP, Activation
  <2>3. QED
    BY <2>1, <2>2
<1>7. n > 1 /\ a[n - 1].section \in Settled => CallerFP(rs, a[n], base[n]) = a[n - 1].fp
  <2>1. n > 1 => n - 1 \in 1 .. Len(a) - 1 /\ n - 1 + 1 = n
    BY <1>1
  <2>2. QED
    BY <2>1 DEF StackFits
<1>8. a[n].word \notin Locals => base[n] = Len(rs)
  BY <1>1, <1>2, <1>3 DEF CellsFit
<1>9. QED
  BY <1>2, <1>3, <1>5, <1>6, <1>7, <1>8 DEF CellsFit

\* A word returns.
LEMMA ReturnKeeps ==
    ASSUME ExceptionsInv, Return
    PROVE  ExceptionsInv'
<1> DEFINE n == Len(activations)
           top == activations[n]
           b == Drop(activations, 1)
<1>1. /\ rstack \in Seq(Cell) /\ frames \in Seq(Frame)
      /\ activations \in Seq(Activation)
      /\ fp \in Nat /\ fp <= Len(rstack) /\ Len(rstack) \in Nat
  BY TypeFacts
<1>2. ip.section \in {"start", "end"} /\ ip.section \in Sections
  BY DEF Return, Sections
<1>3. /\ n \in Nat \ {0} /\ top \in Activation /\ Top(activations) = top
      /\ ip.word = top.word /\ ip.section = top.section
  BY <1>1, <1>2, TypeFacts
<1>3a. n \in Nat /\ n > 0 /\ 1 <= n
  BY <1>3
<1>4. fp = top.fp
  BY <1>2, <1>3 DEF ExceptionsInv, LocalsAreOwn
<1>5. PICK base : StackFits(rstack, activations, base)
  BY DEF ExceptionsInv
<1> DEFINE cell == base[n]
           caller == CallerFP(rstack, top, cell)
<1>6. /\ cell \in Nat \ {0} /\ cell <= Len(rstack)
      /\ cell + Extent(top) <= Len(rstack)
      /\ rstack[cell] = Address(PlaceOf(activations, n - 1))
      /\ caller \in Nat /\ caller < cell
      /\ top.word \in Locals => fp = cell + 1
      /\ top.word \notin Locals => cell = Len(rstack)
      /\ n > 1 /\ activations[n - 1].section \in Settled =>
             caller = activations[n - 1].fp
  BY <1>1, <1>3, <1>4, <1>5, ReturnCells
<1> HIDE DEF cell
<1>7. /\ b \in Seq(Activation) /\ Len(b) = n - 1
      /\ \A i \in 1 .. n - 1 : b[i] = activations[i]
  <2>1. 1 \in Nat /\ 1 <= Len(activations)
    BY <1>3a
  <2>2. QED
    BY <1>1, <2>1, DropFacts
<1>8. /\ ip' = PlaceOf(activations, n - 1) /\ frames' = frames /\ fp' = caller
      /\ rstack' \in Seq(Cell) /\ Len(rstack') = cell - 1
      /\ \A i \in 1 .. cell - 1 : rstack'[i] = rstack[i]
  <2> DEFINE stack == SubSeq(rstack, 1, cell)
  <2>1. /\ stack \in Seq(Cell) /\ Len(stack) = cell /\ stack # <<>>
        /\ \A i \in 1 .. cell : stack[i] = rstack[i]
    <3>1. cell \in 0 .. Len(rstack) /\ cell > 0
      BY <1>1, <1>6
    <3>2. /\ stack \in Seq(Cell) /\ Len(stack) = cell
          /\ \A i \in 1 .. cell : stack[i] = rstack[i]
      BY <1>1, <3>1
    <3>3. QED
      BY <3>1, <3>2
  <2>2. PopAddress(stack, caller)
    <3>1. CASE top.word \in Locals
      <4>1. PopAddress(SubSeq(rstack, 1, fp - 1), rstack[fp].fp)
        BY <1>3, <3>1 DEF Return
      <4>2. fp - 1 = cell /\ rstack[fp].fp = caller
        BY <1>6, <3>1 DEF CallerFP
      <4>3. QED
        BY <4>1, <4>2
    <3>2. CASE top.word \notin Locals
      <4>1. PopAddress(rstack, fp)
        BY <1>3, <3>2 DEF Return
      <4>2. stack = rstack
        BY <1>1, <1>6, <2>1, <3>2
      <4>3. caller = fp
        BY <1>4, <3>2 DEF CallerFP
      <4>4. QED
        BY <4>1, <4>2, <4>3
    <3>3. QED
      BY <3>1, <3>2
  <2>3. /\ ip' = Top(stack).place /\ rstack' = Drop(stack, 1)
        /\ fp' = caller /\ frames' = frames
    BY <2>1, <2>2 DEF PopAddress
  <2> HIDE DEF stack
  <2>4. Top(stack) = rstack[cell] /\ Top(stack).place = PlaceOf(activations, n - 1)
    <3>1. cell \in 1 .. cell
      BY <1>6
    <3>2. QED
      BY <1>6, <2>1, <3>1 DEF Top, Address
  <2>5. /\ Drop(stack, 1) \in Seq(Cell) /\ Len(Drop(stack, 1)) = cell - 1
        /\ \A i \in 1 .. cell - 1 : Drop(stack, 1)[i] = stack[i]
    BY <1>6, <2>1 DEF Drop
  <2>6. QED
    BY <1>6, <2>1, <2>3, <2>4, <2>5
<1>9. activations' = b
  BY DEF Return
<1> HIDE DEF b, caller
<1>10. PlaceOf(b, n - 1) = PlaceOf(activations, n - 1)
  <2>1. n - 1 = 0 \/ n - 1 \in 1 .. n - 1
    <3> HIDE DEF n
    <3>1. QED
      BY <1>3a
  <2>2. QED
    BY <1>7, <2>1 DEF PlaceOf
<1>11. ActivationsFit(b)
  <2>1. \A i \in 1 .. n - 1 : i \in DOMAIN activations /\ i # n
    BY <1>1, <1>3
  <2>2. \A i \in 1 .. n - 1 :
            /\ b[i].section # "cleanup"
            /\ b[i].section = "start" => b[i].pending = 0
            /\ b[i].section # "start" => b[i].word \in Locals
    BY <1>7, <2>1 DEF ExceptionsInv, ActivationsFit
  <2>3. DOMAIN b = 1 .. n - 1
    BY <1>7
  <2>4. QED
    BY <2>2, <2>3 DEF ActivationsFit
<1>12. \E open : FramesFit(frames', b, open)
  <2>1. PICK open : FramesFit(frames, activations, open)
    BY DEF ExceptionsInv
  <2>2. ~InTry(top)
    BY <1>2, <1>3 DEF InTry
  <2>3. /\ DOMAIN activations = 1 .. n /\ DOMAIN b = 1 .. n - 1
        /\ \A i \in 1 .. n : i \in 1 .. n - 1 \/ i = n
        /\ \A i \in 1 .. n - 1 : i \in 1 .. n
    BY <1>1, <1>3, <1>7
  <2>4. /\ \A k \in DOMAIN activations : InTry(activations[k]) =>
                k \in DOMAIN b /\ b[k] = activations[k]
        /\ \A k \in DOMAIN b : InTry(b[k]) =>
                k \in DOMAIN activations /\ b[k] = activations[k]
    BY <1>7, <2>2, <2>3
  <2>5. FramesFit(frames, b, open)
    BY <1>1, <1>7, <2>1, <2>4, FramesStay
  <2>6. QED
    BY <1>8, <2>5
<1>13. \E base1 : StackFits(rstack', b, base1)
  <2>1. /\ Len(activations) > 0 /\ Len(b) = Len(activations) - 1
        /\ Len(rstack') = base[Len(activations)] - 1
        /\ \A i \in 1 .. Len(b) : b[i] = activations[i]
    BY <1>3, <1>7, <1>8 DEF cell
  <2>2. SameBelow(rstack, rstack', base[Len(activations)])
    <3>1. \A i \in 1 .. Len(rstack) : i < cell => i \in 1 .. cell - 1
      BY <1>1, <1>6
    <3>2. SameBelow(rstack, rstack', cell)
      BY <1>8, <3>1 DEF SameBelow
    <3>3. QED
      BY <3>2 DEF cell
  <2>3. QED
    BY <1>1, <1>5, <1>7, <1>8, <2>1, <2>2, StackPop
<1>14. fp' \in Nat /\ fp' <= Len(rstack')
  BY <1>6, <1>8
<1>15. ip'.section \in Settled => fp' = Top(b).fp
  <2>1. CASE n = 1
    <3>1. ip' = Console
      BY <1>8, <2>1 DEF PlaceOf
    <3>2. QED
      BY <3>1 DEF Console, At, Settled
  <2>2. CASE n # 1
    <3>1. /\ n > 1 /\ n - 1 # 0 /\ n - 1 \in 1 .. n - 1
      <4> HIDE DEF n
      <4>1. QED
        BY <1>3a, <2>2
    <3>2. ip'.section = activations[n - 1].section
      BY <1>8, <3>1 DEF PlaceOf, At
    <3>3. Top(b) = activations[n - 1]
      BY <1>7, <3>1 DEF Top
    <3>4. QED
      BY <1>6, <1>8, <3>1, <3>2, <3>3
  <2>3. QED
    BY <2>1, <2>2
<1>16. ip' = PlaceOf(b, Len(b))
  BY <1>7, <1>8, <1>10
<1>17. QED
  BY <1>1, <1>7, <1>8, <1>9, <1>11, <1>12, <1>13, <1>14, <1>15, <1>16, InvOfNext

\* The newest activation comes to a section other than its start.
LEMMA TopFits ==
    ASSUME NEW a \in Seq(Activation), ActivationsFit(a), Len(a) > 0,
           NEW top \in Activation, top.word \in Locals, top.section # "start"
    PROVE  /\ OnTop(a, top) \in Seq(Activation) /\ Len(OnTop(a, top)) = Len(a)
           /\ Top(OnTop(a, top)) = top /\ OnTop(a, top)[Len(a)] = top
           /\ SameBelow(a, OnTop(a, top), Len(a))
           /\ ActivationsFit(OnTop(a, top))
<1> DEFINE n == Len(a)
           b == OnTop(a, top)
<1>1. /\ b \in Seq(Activation) /\ DOMAIN b = 1 .. n /\ Len(b) = n
      /\ b[n] = top /\ n \in Nat
      /\ \A i \in 1 .. n - 1 : b[i] = a[i] /\ i \in DOMAIN a /\ i # n
  BY DEF OnTop
<1>2. \A i \in 1 .. n : i \in 1 .. n - 1 \/ i = n
  OBVIOUS
<1> HIDE DEF b
<1>3. \A i \in 1 .. n - 1 : /\ b[i].section # "cleanup"
                            /\ b[i].section = "start" => b[i].pending = 0
                            /\ b[i].section # "start" => b[i].word \in Locals
  BY <1>1 DEF ActivationsFit
<1>4. ActivationsFit(b)
  <2>1. ASSUME NEW i \in 1 .. n
        PROVE  /\ b[i].section = "cleanup" => i = n
               /\ b[i].section = "start" => b[i].pending = 0
               /\ b[i].section # "start" => b[i].word \in Locals
    BY <1>1, <1>2, <1>3
  <2>2. QED
    BY <1>1, <2>1 DEF ActivationsFit
<1>5. Top(b) = top
  BY <1>1 DEF Top
<1>6. SameBelow(a, b, n)
  <2>1. \A i \in 1 .. Len(a) : i < n => i \in 1 .. n - 1
    OBVIOUS
  <2>2. QED
    BY <1>1, <2>1 DEF SameBelow
<1>7. QED
  BY <1>1, <1>4, <1>5, <1>6 DEF b

\* The try block that execution is in.
LEMMA CurrentTry ==
    ASSUME ExceptionsInv, ip.section \in {"body", "handler", "cleanup", "finally"}
    PROVE  /\ Len(activations) > 0 /\ Top(activations) \in Activation
           /\ Top(activations) = activations[Len(activations)]
           /\ InTry(Top(activations)) /\ Top(activations).word \in Locals
           /\ ip.word = Top(activations).word /\ ip.section = Top(activations).section
           /\ Len(frames) > 0 /\ Top(frames) \in Frame
           /\ Top(frames) = frames[Len(frames)]
           /\ IsFrameOf(Top(frames), Top(activations))
           /\ KnowsException(Top(frames), Top(activations))
           /\ Top(frames).number # 0 /\ ip.section \in {"cleanup", "finally"} =>
                  NoFinally(frames, Len(frames))
<1>1. ip.section \in Sections
  BY DEF Sections
<1>2. /\ Len(activations) > 0 /\ Top(activations) \in Activation
      /\ Top(activations) = activations[Len(activations)]
      /\ ip.word = Top(activations).word /\ ip.section = Top(activations).section
      /\ activations \in Seq(Activation) /\ frames \in Seq(Frame)
  BY <1>1, TypeFacts
<1>3. InTry(activations[Len(activations)])
  BY <1>2 DEF InTry
<1>4. Top(activations).word \in Locals
  <2>1. Len(activations) \in DOMAIN activations
    BY <1>2
  <2>2. QED
    BY <1>2, <2>1 DEF ExceptionsInv, ActivationsFit
<1>5. PICK open : FramesFit(frames, activations, open)
  BY DEF ExceptionsInv
<1>6. /\ Len(frames) > 0 /\ Len(frames) \in DOMAIN frames /\ frames[Len(frames)] \in Frame
      /\ open[Len(frames)] = Len(activations)
      /\ IsFrameOf(frames[Len(frames)], activations[Len(activations)])
      /\ KnowsException(frames[Len(frames)], activations[Len(activations)])
  BY <1>2, <1>3, <1>5, NewestFrame
<1>7. Top(frames) = frames[Len(frames)]
  BY DEF Top
<1>8. Top(frames).number # 0 /\ ip.section \in {"cleanup", "finally"} =>
          NoFinally(frames, Len(frames))
  <2>1. EscapesSafely(frames, activations, open)
    BY <1>5 DEF FramesFit
  <2>2. QED
    BY <1>2, <1>6, <1>7, <2>1 DEF EscapesSafely, NoFinally
<1>9. QED
  BY <1>2, <1>3, <1>4, <1>6, <1>7, <1>8

\* The block comes to another of its sections.
LEMMA SectionKeeps ==
    ASSUME ExceptionsInv, ip.section \in {"body", "handler", "cleanup", "finally"},
           NEW act \in Activation, act.word = Top(activations).word,
           act.fp = Top(activations).fp,
           act.section \in {"handler", "cleanup", "finally"},
           NEW frame \in Frame, IsFrameOf(frame, act), KnowsException(frame, act),
           frame.number # 0 => NoFinally(frames, Len(frames)),
           activations' = OnTop(activations, act), frames' = OnTop(frames, frame),
           ip' = At(act.word, act.section), rstack' = rstack, fp' = fp
    PROVE  ExceptionsInv'
<1> DEFINE n == Len(activations)
           m == Len(frames)
<1>1. /\ rstack \in Seq(Cell) /\ frames \in Seq(Frame)
      /\ activations \in Seq(Activation) /\ ActivationsFit(activations)
      /\ fp \in Nat /\ fp <= Len(rstack) /\ Len(rstack) \in Nat
  BY TypeFacts DEF ExceptionsInv
<1>2. /\ n > 0 /\ Top(activations) = activations[n]
      /\ InTry(Top(activations)) /\ Top(activations).word \in Locals
      /\ m > 0 /\ Top(frames) \in Frame
  BY CurrentTry
<1>3. InTry(act) /\ act.section # "start" /\ act.section \notin Settled
  BY DEF InTry, Settled
<1>4. /\ activations' \in Seq(Activation) /\ Len(activations') = n
      /\ Top(activations') = act /\ activations'[n] = act
      /\ SameBelow(activations, activations', n)
      /\ ActivationsFit(activations')
  BY <1>1, <1>2, <1>3, TopFits
<1>5. /\ frames' \in Seq(Frame) /\ Len(frames') = m /\ frames'[m] = frame
      /\ SameBelow(frames, frames', m)
  BY <1>1, <1>2 DEF OnTop, SameBelow
<1>6. \E open : FramesFit(frames', activations', open)
  <2>1. PICK open : FramesFit(frames, activations, open)
    BY DEF ExceptionsInv
  <2>2. open[m] = n /\ m \in DOMAIN frames
    BY <1>1, <1>2, <2>1, NewestFrame
  <2>3. /\ Len(activations') = open[m] /\ SameBelow(activations, activations', open[m])
        /\ InTry(activations'[open[m]]) /\ IsFrameOf(frames'[m], activations'[open[m]])
        /\ KnowsException(frames'[m], activations'[open[m]])
        /\ frames'[m].number # 0
           /\ activations'[open[m]].section \in {"cleanup", "finally"} =>
               NoFinally(frames, m)
    BY <1>3, <1>4, <1>5, <2>2
  <2> HIDE DEF m, n
  <2>4. QED
    BY <1>1, <1>4, <1>5, <2>1, <2>2, <2>3, FramesCut
<1>7. \E base : StackFits(rstack', activations', base)
  <2>1. PICK base : StackFits(rstack, activations, base)
    BY DEF ExceptionsInv
  <2>2. Extent(act) = Extent(Top(activations)) /\ Extent(act) \in Nat
    BY <1>2, <1>3, ExceptionsAssumption DEF Extent
  <2>3. Len(rstack) + Extent(Top(activations)) >= Len(rstack) + Extent(act)
    BY <1>1, <2>2
  <2>4. SameBelow(rstack, rstack, Len(rstack) + 2 - Extent(Top(activations)))
    BY DEF SameBelow
  <2>5. \E base1 : StackFits(rstack, OnTop(activations, act), base1)
    BY <1>1, <1>2, <2>1, <2>3, <2>4, StackMove
  <2>6. QED
    BY <2>5
<1>8. ip'.section \notin Settled
  BY <1>3 DEF At
<1>9. QED
  BY <1>1, <1>2, <1>4, <1>5, <1>6, <1>7, <1>8, InvOfTop

\* The body or handler ends.
LEMMA EndBodyKeeps ==
    ASSUME ExceptionsInv, EndBody
    PROVE  ExceptionsInv'
<1> DEFINE top == Top(activations)
           act == [top EXCEPT !.section = "cleanup"]
           frame == Top(frames)
<1>1. ip.section \in {"body", "handler", "cleanup", "finally"}
  BY DEF EndBody
<1>2. /\ top \in Activation /\ ip.word = top.word /\ ip.section = top.section
      /\ Len(frames) > 0 /\ frame \in Frame /\ frame = frames[Len(frames)]
      /\ IsFrameOf(frame, top) /\ KnowsException(frame, top)
  BY <1>1, CurrentTry
<1>3. /\ act \in Activation /\ act.word = top.word /\ act.fp = top.fp
      /\ act.section = "cleanup" /\ act.pending = top.pending
  BY <1>2 DEF Activation, Sections
<1>4. frame.state = "try" /\ frame.number = 0 /\ IsFrameOf(frame, act)
      /\ KnowsException(frame, act)
  BY <1>2, <1>3 DEF IsFrameOf, KnowsException, EndBody
<1>5. frames = OnTop(frames, frame)
  BY <1>2, TypeFacts DEF OnTop
<1>6. activations' = OnTop(activations, act)
  BY DEF EndBody, Moved
<1>7. ip' = At(act.word, act.section)
  <2>1. ip = At(top.word, top.section)
    BY <1>1, TypeFacts DEF Sections
  <2>2. QED
    BY <1>3, <2>1 DEF EndBody, At
<1>8. frames' = OnTop(frames, frame) /\ rstack' = rstack /\ fp' = fp
  BY <1>5 DEF EndBody
<1> HIDE DEF act, frame, top
<1>9. QED
  BY <1>1, <1>2, <1>3, <1>4, <1>6, <1>7, <1>8, SectionKeeps DEF top

LEMMA EndHandlerKeeps ==
    ASSUME ExceptionsInv, EndHandler
    PROVE  ExceptionsInv'
<1> DEFINE top == Top(activations)
           act == [top EXCEPT !.section = "cleanup", !.pending = 0]
           frame == [Top(frames) EXCEPT !.number = 0]
<1>1. ip.section \in {"body", "handler", "cleanup", "finally"}
  BY DEF EndHandler
<1>2. /\ top \in Activation /\ ip.word = top.word /\ ip.section = top.section
      /\ Top(frames) \in Frame
      /\ IsFrameOf(Top(frames), top)
  BY <1>1, CurrentTry
<1>3. /\ act \in Activation /\ act.word = top.word /\ act.fp = top.fp
      /\ act.section = "cleanup" /\ act.pending = 0
  BY <1>2 DEF Activation, Sections
<1>4. /\ frame \in Frame /\ frame.number = 0 /\ frame.word = Top(frames).word
      /\ frame.fp = Top(frames).fp /\ frame.state = Top(frames).state
  BY <1>2 DEF Frame
<1>5. Top(frames).state = "except"
  BY <1>2 DEF IsFrameOf, EndHandler
<1>6. IsFrameOf(frame, act) /\ KnowsException(frame, act)
  BY <1>2, <1>3, <1>4, <1>5 DEF IsFrameOf, KnowsException
<1>7. activations' = OnTop(activations, act)
  BY DEF EndHandler
<1>8. ip' = At(act.word, act.section)
  <2>1. ip = At(top.word, top.section)
    BY <1>1, TypeFacts DEF Sections
  <2>2. QED
    BY <1>3, <2>1 DEF EndHandler, At
<1>9. frames' = OnTop(frames, frame) /\ rstack' = rstack /\ fp' = fp
  BY DEF EndHandler
<1> HIDE DEF act, frame, top
<1>10. QED
  BY <1>1, <1>2, <1>3, <1>4, <1>6, <1>7, <1>8, <1>9, SectionKeeps DEF top

\* The finally section begins.
LEMMA DoFinallyKeeps ==
    ASSUME ExceptionsInv, DoFinally
    PROVE  ExceptionsInv'
<1> DEFINE top == Top(activations)
           act == [top EXCEPT !.section = "finally"]
           frame == [Top(frames) EXCEPT !.state = "finally"]
<1>1. ip.section \in {"body", "handler", "cleanup", "finally"}
  BY DEF DoFinally
<1>2. /\ top \in Activation /\ ip.word = top.word /\ ip.section = top.section
      /\ Top(frames) \in Frame
      /\ IsFrameOf(Top(frames), top)
      /\ Top(frames).number # 0 => NoFinally(frames, Len(frames))
  BY <1>1, CurrentTry DEF DoFinally
<1>3. /\ act \in Activation /\ act.word = top.word /\ act.fp = top.fp
      /\ act.section = "finally" /\ act.pending = top.pending
  BY <1>2 DEF Activation, Sections
<1>4. /\ frame \in Frame /\ frame.number = Top(frames).number
      /\ frame.word = Top(frames).word
      /\ frame.fp = Top(frames).fp /\ frame.state = "finally"
  BY <1>2 DEF Frame, States
<1>5. IsFrameOf(frame, act) /\ KnowsException(frame, act)
  BY <1>2, <1>3, <1>4 DEF IsFrameOf, KnowsException
<1>6. activations' = OnTop(activations, act)
  BY DEF DoFinally, Moved
<1>7. ip' = At(act.word, act.section)
  <2>1. ip = At(top.word, top.section)
    BY <1>1, TypeFacts DEF Sections
  <2>2. QED
    BY <1>3, <2>1 DEF DoFinally, At
<1>8. frames' = OnTop(frames, frame) /\ rstack' = rstack /\ fp' = fp
  BY DEF DoFinally
<1> HIDE DEF act, frame, top
<1>9. QED
  BY <1>1, <1>2, <1>3, <1>4, <1>5, <1>6, <1>7, <1>8, SectionKeeps DEF top

\* A try block begins.
LEMMA DoTryKeeps ==
    ASSUME Disciplined, ExceptionsInv, DoTry
    PROVE  ExceptionsInv'
<1> DEFINE n == Len(activations)
           top == Top(activations)
           act == [top EXCEPT !.section = "body"]
           frame == [word |-> ip.word, number |-> 0, state |-> "try", fp |-> fp]
           size == Len(rstack)
           room == [i \in 1 .. FrameCells |-> FrameCell]
<1>1. ip.section = "start" /\ ip.section \in Sections /\ ip.word \in Trying
  BY DEF DoTry, Sections
<1>2. /\ rstack \in Seq(Cell) /\ frames \in Seq(Frame)
      /\ activations \in Seq(Activation) /\ ActivationsFit(activations)
      /\ fp \in Nat /\ fp <= size /\ size \in Nat
  BY TypeFacts DEF ExceptionsInv
<1>3. /\ n > 0 /\ top = activations[n] /\ top \in Activation
      /\ ip.word = top.word /\ ip.section = top.section
      /\ ip = At(top.word, top.section)
  BY <1>1, TypeFacts
<1>4. top.word \in Locals /\ ip.word \in Words
  BY <1>1, <1>3, ExceptionsAssumption DEF Disciplined
<1>5. fp = top.fp
  BY <1>1 DEF ExceptionsInv, LocalsAreOwn
<1>6. top.pending = 0
  <2>1. n \in DOMAIN activations
    BY <1>2, <1>3
  <2>2. QED
    BY <1>1, <1>2, <1>3, <2>1 DEF ActivationsFit
<1>7. /\ act \in Activation /\ act.word = top.word /\ act.fp = top.fp
      /\ act.section = "body" /\ act.pending = 0
  BY <1>3, <1>6 DEF Activation, Sections
<1>8. /\ frame \in Frame /\ frame.number = 0 /\ frame.state = "try"
      /\ frame.word = top.word /\ frame.fp = fp
  BY <1>2, <1>3, <1>4 DEF Frame, States
<1>9. IsFrameOf(frame, act) /\ KnowsException(frame, act)
  BY <1>5, <1>7, <1>8 DEF IsFrameOf, KnowsException
<1>10. InTry(act) /\ ~InTry(top)
  BY <1>1, <1>3, <1>7 DEF InTry
<1>11. /\ activations' = OnTop(activations, act) /\ frames' = Append(frames, frame)
       /\ rstack' = rstack \o room /\ fp' = fp
       /\ ip' = At(act.word, act.section)
  BY <1>3, <1>7 DEF DoTry, Moved, At
<1>12. FrameCells \in Nat \ {0}
  BY ExceptionsAssumption
<1>13. room \in Seq(Cell) /\ Len(room) = FrameCells
  <2>1. FrameCell \in Cell
    BY DEF FrameCell, Cell, Places
  <2>2. QED
    BY <1>12, <2>1
<1> HIDE DEF act, frame, room, top
<1>14. /\ rstack' \in Seq(Cell) /\ Len(rstack') = size + FrameCells
       /\ \A i \in 1 .. size : rstack'[i] = rstack[i]
  <2>1. /\ rstack \o room \in Seq(Cell) /\ Len(rstack \o room) = size + Len(room)
        /\ \A i \in 1 .. size : (rstack \o room)[i] = rstack[i]
    BY <1>2, <1>13, ConcatFacts
  <2>2. QED
    BY <1>11, <1>13, <2>1
<1>15. /\ activations' \in Seq(Activation) /\ Len(activations') = n
       /\ Top(activations') = act
       /\ ActivationsFit(activations')
  BY <1>2, <1>3, <1>4, <1>7, <1>11, TopFits
<1>16. \E open : FramesFit(frames', activations', open)
  <2>1. PICK open : FramesFit(frames, activations, open)
    BY DEF ExceptionsInv
  <2>2. ~InTry(activations[Len(activations)])
    BY <1>3, <1>10
  <2>3. QED
    BY <1>2, <1>3, <1>7, <1>8, <1>9, <1>10, <1>11, <2>1, <2>2, FramesPush
<1>17. \E base : StackFits(rstack', activations', base)
  <2>1. PICK base : StackFits(rstack, activations, base)
    BY DEF ExceptionsInv
  <2>2. Extent(top) = 1 /\ Extent(act) = 1 + FrameCells
    BY <1>4, <1>7, <1>10 DEF Extent
  <2>3. Len(rstack') + Extent(top) >= size + Extent(act)
    BY <1>2, <1>12, <1>14, <2>2
  <2>4. SameBelow(rstack, rstack', size + 2 - Extent(top))
    BY <1>14 DEF SameBelow
  <2>5. \E base1 : StackFits(rstack', OnTop(activations, act), base1)
    BY <1>2, <1>3, <1>4, <1>7, <1>14, <2>1, <2>3, <2>4, StackMove DEF top
  <2>6. QED
    BY <1>11, <2>5
<1>18. fp' \in Nat /\ fp' <= Len(rstack')
  BY <1>2, <1>11, <1>12, <1>14
<1>19. fp' = Top(activations').fp
  BY <1>5, <1>7, <1>11, <1>15
<1>20. frames' \in Seq(Frame)
  BY <1>2, <1>8, <1>11
<1>21. ip' = At(Top(activations').word, Top(activations').section)
  BY <1>11, <1>15
<1>22. QED
  BY <1>3, <1>14, <1>15, <1>16, <1>17, <1>18, <1>19, <1>20, <1>21, InvOfTop

\* What RaiseException does when a block takes the exception.
LEMMA RaiseTaken ==
    ASSUME NEW fs \in Seq(Frame), Len(fs) > 0, NEW a, NEW k, NEW n \in Numbers,
           TakenBy(fs, a, k, n), Raise(n, fs)
    PROVE  /\ frames' = Raised(fs, n)
           /\ ip' = At(Unwound(a, n)[k].word, Unwound(a, n)[k].section)
<1>1. /\ Unwound(a, n)[k].word = Top(fs).word
      /\ Unwound(a, n)[k].section = IF Top(fs).number = 0 THEN "handler" ELSE "cleanup"
      /\ Top(fs).state # "finally"
      /\ Top(fs).number # 0 => Top(fs).state = "except"
  BY DEF TakenBy
<1>2. fs # <<>>
  OBVIOUS
<1>3. CASE Top(fs).number = 0
  <2>1. /\ frames' = OnTop(fs, [Top(fs) EXCEPT !.number = n, !.state = "except"])
        /\ ip' = At(Top(fs).word, "handler")
    BY <1>2, <1>3 DEF Raise
  <2>2. QED
    BY <1>1, <1>3, <2>1 DEF Raised
<1>4. CASE Top(fs).number # 0
  <2>1. /\ frames' = OnTop(fs, [Top(fs) EXCEPT !.number = n, !.state = Top(fs).state])
        /\ ip' = At(Top(fs).word, "cleanup")
    BY <1>1, <1>2, <1>4 DEF Raise
  <2>2. QED
    BY <1>1, <1>4, <2>1 DEF Raised
<1>5. QED
  BY <1>3, <1>4

\* The return stack reaches beyond the try block of activation k.
Reaches(ss, k) ==
    \A base : StackFits(rstack, activations, base) =>
        /\ Len(ss) >= base[k] + Extent(activations[k])
        /\ SameBelow(rstack, ss, base[k] + 2)

\* The block of activation k takes an exception.
LEMMA TakenKeeps ==
    ASSUME ExceptionsInv, NEW fs, NEW a \in Seq(Activation), NEW k, NEW n \in Numbers,
           TakenBy(fs, a, k, n), k <= Len(activations),
           \A i \in 1 .. k : a[i] = activations[i],
           activations' = Unwound(a, n), frames' = Raised(fs, n),
           ip' = At(Unwound(a, n)[k].word, Unwound(a, n)[k].section),
           rstack' \in Seq(Cell), fp' \in Nat, fp' <= Len(rstack'),
           Reaches(rstack', k)
    PROVE  ExceptionsInv'
<1> DEFINE b == Unwound(a, n)
<1>1. /\ k \in 1 .. Len(a) /\ b \in Seq(Activation) /\ Len(b) = k
      /\ SameBelow(a, b, k)
      /\ b[k].word = a[k].word /\ b[k].fp = a[k].fp /\ a[k].word \in Locals
      /\ InTry(a[k]) /\ InTry(b[k])
      /\ b[k].section = IF Top(fs).number = 0 THEN "handler" ELSE "cleanup"
      /\ ActivationsFit(b)
      /\ Raised(fs, n) \in Seq(Frame)
      /\ \E new : FramesFit(Raised(fs, n), b, new)
  BY DEF TakenBy
<1>2. k \in Nat \ {0} /\ k \in 1 .. k /\ k \in 1 .. Len(activations)
  BY <1>1, TypeFacts
<1>3. a[k] = activations[k]
  BY <1>2
<1>4. PICK base : StackFits(rstack, activations, base)
  BY DEF ExceptionsInv
<1>5. Len(rstack') >= base[k] + Extent(b[k]) /\ SameBelow(rstack, rstack', base[k] + 2)
  <2>1. Extent(b[k]) = Extent(activations[k])
    BY <1>1, <1>3 DEF Extent
  <2>2. QED
    BY <1>4, <2>1 DEF Reaches
<1>6. \A i \in 1 .. k - 1 : b[i] = activations[i]
  <2>1. \A i \in 1 .. k - 1 : i \in 1 .. Len(a) /\ i < k /\ i \in 1 .. k
    BY <1>1
  <2>2. QED
    BY <1>1, <2>1 DEF SameBelow
<1> HIDE DEF b
<1>7. \E base1 : StackFits(rstack', b, base1)
  <2>1. rstack \in Seq(Cell) /\ activations \in Seq(Activation)
    BY TypeFacts
  <2>2. QED
    BY <1>1, <1>2, <1>3, <1>4, <1>5, <1>6, <2>1, StackCut
<1>8. Top(b) = b[k] /\ Len(b) > 0
  BY <1>1, <1>2 DEF Top
<1>9. ip' = At(Top(b).word, Top(b).section) /\ ip'.section \notin Settled
  BY <1>1, <1>8 DEF b, At, Settled
<1>10. activations' = b
  BY DEF b
<1>11. QED
  BY <1>1, <1>7, <1>8, <1>9, <1>10, InvOfTop

\* throw
LEMMA ThrowKeeps ==
    ASSUME Disciplined, ExceptionsInv, NEW n \in Numbers, Throw(n)
    PROVE  ExceptionsInv'
<1>1. /\ rstack \in Seq(Cell) /\ frames \in Seq(Frame)
      /\ activations \in Seq(Activation) /\ ActivationsFit(activations)
      /\ fp \in Nat /\ fp <= Len(rstack) /\ Len(rstack) \in Nat
  BY TypeFacts DEF ExceptionsInv
<1>2. PICK open : FramesFit(frames, activations, open)
  BY DEF ExceptionsInv
<1>3. CASE frames = <<>>
  <2>1. Reset
    BY <1>3 DEF Throw, Raise
  <2>2. \A j \in DOMAIN activations : ~InTry(activations[j])
    BY <1>2, <1>3 DEF FramesFit, AreFramesOf
  <2>3. Unwound(activations, n) = <<>>
    <3>1. \A j \in DOMAIN activations : activations[j].section \notin {"body", "handler"}
      BY <2>2 DEF InTry
    <3>2. QED
      BY <3>1, UnwoundNone
  <2>4. QED
    BY <2>1, <2>3, ResetKeeps DEF Throw
<1>4. CASE frames # <<>>
  <2> DEFINE m == Len(frames)
             k == open[m]
  <2>1. m > 0 /\ m \in Nat /\ m \in DOMAIN frames
    BY <1>1, <1>4
  <2>2. /\ k \in DOMAIN activations /\ InTry(activations[k])
        /\ IsFrameOf(frames[m], activations[k])
        /\ KnowsException(frames[m], activations[k])
    BY <1>1, <1>2, <2>1, AboveNewest
  <2>3. \/ frames[m].state = "try"
        \/ \A i \in DOMAIN frames : frames[i].state # "finally"
    BY <1>4 DEF Throw, MayThrow, Disciplined, Top
  <2>4. frames[m].state # "finally" /\ activations[k].section # "finally"
    BY <2>1, <2>2, <2>3 DEF IsFrameOf
  <2>5. activations[k].section # "cleanup"
    <3>1. SUFFICES ASSUME activations[k].section = "cleanup"
                   PROVE  FALSE
      OBVIOUS
    <3>2. k = Len(activations) /\ k > 0
      BY <1>1, <2>2, <3>1 DEF ActivationsFit
    <3>3. activations # <<>> /\ Top(activations) = activations[k]
      BY <1>1, <3>2 DEF Top
    <3>4. ip.section = "cleanup"
      BY <3>1, <3>3 DEF ExceptionsInv, ControlIsStructured, At
    <3>5. QED
      BY <3>4 DEF Throw, Running
  <2>6. activations[k].section \in {"body", "handler"}
    BY <2>2, <2>4, <2>5 DEF InTry
  <2>7. activations[k].section = "handler" => NoFinally(frames, m)
    <3>1. activations[k].section = "handler" => frames[m].state # "try"
      BY <2>2 DEF IsFrameOf
    <3>2. \A i \in 1 .. m - 1 : i \in DOMAIN frames
      BY <1>1, <2>1
    <3>3. QED
      BY <2>3, <3>1, <3>2 DEF NoFinally
  <2>8. TakenBy(frames, activations, k, n)
    BY <1>1, <1>2, <2>1, <2>6, <2>7, RaisedFrames
  <2>9. Raise(n, frames) /\ rstack' = rstack /\ fp' = fp
        /\ activations' = Unwound(activations, n)
    BY <1>4 DEF Throw
  <2>10. /\ frames' = Raised(frames, n)
         /\ ip' = At(Unwound(activations, n)[k].word, Unwound(activations, n)[k].section)
    BY <1>1, <2>1, <2>8, <2>9, RaiseTaken
  <2> HIDE DEF k
  <2>11. Reaches(rstack, k)
    <3> SUFFICES ASSUME NEW base, StackFits(rstack, activations, base)
                 PROVE  /\ Len(rstack) >= base[k] + Extent(activations[k])
                        /\ SameBelow(rstack, rstack, base[k] + 2)
      BY DEF Reaches
    <3>1. k \in 1 .. Len(activations)
      BY <1>1, <2>2
    <3>2. base[k] \in Nat /\ base[k + 1] \in Nat /\ base[k + 1] <= Len(rstack) + 1
      BY <1>1, <3>1, Bases
    <3>3. CellsFit(rstack, activations[k], PlaceOf(activations, k - 1), base[k], base[k + 1])
      BY <3>1 DEF StackFits
    <3>4. activations[k].word \in Locals
      BY <2>8 DEF TakenBy
    <3>5. base[k + 1] > base[k] + Extent(activations[k])
      BY <3>3, <3>4 DEF CellsFit
    <3>6. Extent(activations[k]) \in Nat
      BY ExceptionsAssumption DEF Extent
    <3>7. QED
      BY <1>1, <3>2, <3>5, <3>6 DEF SameBelow
  <2>12. k <= Len(activations)
    BY <1>1, <2>2
  <2>13. QED
    BY <1>1, <2>8, <2>9, <2>10, <2>11, <2>12, TakenKeeps
<1>5. QED
  BY <1>3, <1>4

\* throw of 0 changes nothing in a body.
LEMMA ThrowNoneKeeps ==
    ASSUME Disciplined, ExceptionsInv, ThrowNone
    PROVE  ExceptionsInv'
<1>1. frames \in Seq(Frame) /\ activations \in Seq(Activation)
  BY TypeFacts
<1>2. frames # <<>> /\ Top(frames).state = "try" /\ Top(frames) = frames[Len(frames)]
  BY DEF ThrowNone, Disciplined, Top
<1>3. Len(frames) > 0 /\ Top(frames) \in Frame
  BY <1>1, <1>2
<1>4. Top(frames).number = 0
  <2>1. PICK open : FramesFit(frames, activations, open)
    BY DEF ExceptionsInv
  <2>2. KnowsException(frames[Len(frames)], activations[open[Len(frames)]])
    BY <1>1, <1>3, <2>1, AboveNewest
  <2>3. QED
    BY <1>2, <2>2 DEF KnowsException
<1>5. [Top(frames) EXCEPT !.number = 0] = Top(frames)
  BY <1>3, <1>4 DEF Frame
<1>6. OnTop(frames, Top(frames)) = frames
  BY <1>1, <1>2, <1>3 DEF OnTop
<1>7. UNCHANGED vars
  BY <1>5, <1>6 DEF ThrowNone, vars
<1>8. QED
  BY <1>7 DEF vars, ExceptionsInv, ExceptionsTypeOK, ControlIsStructured, LocalsAreOwn

\* The end of a try block, without an exception that is left.
LEMMA EndtryKeeps ==
    ASSUME ExceptionsInv, DoEndtry, Top(frames).number = 0
    PROVE  ExceptionsInv'
<1> DEFINE n == Len(activations)
           top == Top(activations)
           act == [top EXCEPT !.section = "end"]
           size == Len(rstack)
<1>1. ip.section \in {"body", "handler", "cleanup", "finally"} /\ ip.section \in Sections
  BY DEF DoEndtry, Sections
<1>2. /\ rstack \in Seq(Cell) /\ frames \in Seq(Frame)
      /\ activations \in Seq(Activation) /\ ActivationsFit(activations)
      /\ fp \in Nat /\ fp <= size /\ size \in Nat
      /\ ip = At(top.word, top.section)
  BY <1>1, TypeFacts DEF ExceptionsInv
<1>3. /\ n > 0 /\ top = activations[n] /\ top \in Activation
      /\ InTry(top) /\ top.word \in Locals
      /\ Len(frames) > 0 /\ Top(frames) \in Frame
      /\ IsFrameOf(Top(frames), top)
  BY <1>1, CurrentTry
<1>4. top.pending = 0 /\ Top(frames).fp = top.fp
  BY <1>3 DEF IsFrameOf
<1>5. /\ act \in Activation /\ act.word = top.word /\ act.fp = top.fp
      /\ act.section = "end"
  BY <1>3 DEF Activation, Sections
<1>6. ~InTry(act) /\ act.section # "start"
  BY <1>5 DEF InTry
<1>7. /\ activations' = OnTop(activations, act) /\ frames' = Drop(frames, 1)
      /\ ip' = At(act.word, act.section)
      /\ rstack' = Drop(rstack, FrameCells) /\ fp' = top.fp
  <2>1. /\ activations' = Moved(activations, "end") /\ frames' = Drop(frames, 1)
        /\ ip' = [ip EXCEPT !.section = "end"]
        /\ Unwind(Top(frames))
    BY <1>4 DEF DoEndtry
  <2>2. [ip EXCEPT !.section = "end"] = At(act.word, act.section)
    BY <1>2, <1>5 DEF At
  <2>3. QED
    BY <1>4, <2>1, <2>2 DEF Moved, Unwind
<1>8. FrameCells \in Nat \ {0}
  BY ExceptionsAssumption
<1>9. Extent(top) = 1 + FrameCells /\ Extent(act) = 1
  BY <1>3, <1>5, <1>6 DEF Extent
<1>10. PICK base : StackFits(rstack, activations, base)
  BY DEF ExceptionsInv
<1>11. /\ base[n] \in Nat \ {0} /\ base[n] + Extent(top) <= size
       /\ top.fp = base[n] + 1
  BY <1>2, <1>3, <1>10, ReturnCells
<1> HIDE DEF act, top
<1>12. FrameCells <= size /\ FrameCells \in Nat
  BY <1>2, <1>8, <1>9, <1>11
<1>13. /\ rstack' \in Seq(Cell) /\ Len(rstack') = size - FrameCells
       /\ \A i \in 1 .. size - FrameCells : rstack'[i] = rstack[i]
  BY <1>2, <1>7, <1>12, DropFacts
<1>14. /\ activations' \in Seq(Activation) /\ Len(activations') = n
       /\ Top(activations') = act
       /\ ActivationsFit(activations')
  BY <1>2, <1>3, <1>5, <1>6, <1>7, TopFits
<1>15. \E open : FramesFit(frames', activations', open)
  <2>1. PICK open : FramesFit(frames, activations, open)
    BY DEF ExceptionsInv
  <2>2. InTry(activations[Len(activations)])
    BY <1>3
  <2>3. FramesFit(Drop(frames, 1), OnTop(activations, act),
                  [i \in 1 .. Len(frames) - 1 |-> open[i]])
    BY <1>2, <1>3, <1>5, <1>6, <2>1, <2>2, FramesPop
  <2>4. QED
    BY <1>7, <2>3
<1>16. \E base1 : StackFits(rstack', activations', base1)
  <2>1. Len(rstack') + Extent(top) >= size + Extent(act)
    BY <1>2, <1>8, <1>9, <1>13
  <2>2. SameBelow(rstack, rstack', size + 2 - Extent(top))
    <3>1. \A i \in 1 .. size : i < size + 2 - Extent(top) => i \in 1 .. size - FrameCells
      BY <1>2, <1>8, <1>9
    <3>2. QED
      BY <1>13, <3>1 DEF SameBelow
  <2>3. \E base1 : StackFits(rstack', OnTop(activations, act), base1)
    BY <1>2, <1>3, <1>5, <1>10, <1>13, <2>1, <2>2, StackMove DEF top
  <2>4. QED
    BY <1>7, <2>3
<1>17. fp' \in Nat /\ fp' <= Len(rstack')
  BY <1>2, <1>7, <1>8, <1>9, <1>11, <1>13
<1>18. fp' = Top(activations').fp
  BY <1>5, <1>7, <1>14
<1>19. frames' \in Seq(Frame)
  <2>1. 1 \in Nat /\ 1 <= Len(frames)
    BY <1>2, <1>3
  <2>2. QED
    BY <1>2, <1>7, <2>1, DropFacts
<1>20. ip' = At(Top(activations').word, Top(activations').section)
  BY <1>7, <1>14
<1>21. QED
  BY <1>3, <1>13, <1>14, <1>15, <1>16, <1>17, <1>18, <1>19, <1>20, InvOfTop

\* The end of a try block whose exception goes on to the next one.
LEMMA RethrowKeeps ==
    ASSUME ExceptionsInv, DoEndtry, Top(frames).number # 0
    PROVE  ExceptionsInv'
<1> DEFINE n == Len(activations)
           top == Top(activations)
           act == [top EXCEPT !.section = "end"]
           ended == OnTop(activations, act)
           rest == Drop(frames, 1)
           number == Top(frames).number
           size == Len(rstack)
<1>1. /\ ip.section \in {"body", "handler", "cleanup", "finally"}
      /\ ip.section \in {"cleanup", "finally"} /\ ip.section \in Sections
  BY DEF DoEndtry, Sections
<1>2. /\ rstack \in Seq(Cell) /\ frames \in Seq(Frame)
      /\ activations \in Seq(Activation) /\ ActivationsFit(activations)
      /\ fp \in Nat /\ fp <= size /\ size \in Nat
  BY <1>1, TypeFacts DEF ExceptionsInv
<1>3. /\ n > 0 /\ top = activations[n] /\ top \in Activation
      /\ InTry(top) /\ top.word \in Locals
      /\ Len(frames) > 0 /\ Top(frames) \in Frame
      /\ IsFrameOf(Top(frames), top)
      /\ NoFinally(frames, Len(frames))
  BY <1>1, CurrentTry
<1>4. top.pending = number /\ number \in Numbers /\ Top(frames).fp = top.fp
  BY <1>3 DEF IsFrameOf, Frame
<1>5. /\ act \in Activation /\ act.word = top.word /\ act.fp = top.fp
      /\ act.section = "end"
  BY <1>3 DEF Activation, Sections
<1>6. ~InTry(act) /\ act.section # "start"
  BY <1>5 DEF InTry
<1>7. /\ activations' = Unwound(ended, number)
      /\ Raise(number, rest)
      /\ rest # <<>> => Unwind(Top(frames))
  BY <1>4 DEF DoEndtry, Moved
<1> HIDE DEF act, top
<1>8. /\ ended \in Seq(Activation) /\ Len(ended) = n /\ ActivationsFit(ended)
      /\ ended[n] = act /\ SameBelow(activations, ended, n)
  BY <1>2, <1>3, <1>5, <1>6, TopFits
<1>9. /\ rest \in Seq(Frame) /\ Len(rest) = Len(frames) - 1
      /\ \A i \in 1 .. Len(frames) - 1 : rest[i] = frames[i]
  <2>1. 1 \in Nat /\ 1 <= Len(frames)
    BY <1>2, <1>3
  <2>2. QED
    BY <1>2, <2>1, DropFacts
<1>10. PICK open : FramesFit(rest, ended, open)
  <2>1. PICK old : FramesFit(frames, activations, old)
    BY DEF ExceptionsInv
  <2>2. InTry(activations[Len(activations)])
    BY <1>3
  <2>3. FramesFit(rest, ended, [i \in 1 .. Len(frames) - 1 |-> old[i]])
    BY <1>2, <1>3, <1>5, <1>6, <2>1, <2>2, FramesPop
  <2>4. QED
    BY <2>3
<1> HIDE DEF ended, rest, number
<1>11. CASE rest = <<>>
  <2>1. Reset
    BY <1>7, <1>11 DEF Raise
  <2>2. \A j \in DOMAIN ended : ~InTry(ended[j])
    BY <1>10, <1>11 DEF FramesFit, AreFramesOf
  <2>3. Unwound(ended, number) = <<>>
    <3>1. \A j \in DOMAIN ended : ended[j].section \notin {"body", "handler"}
      BY <2>2 DEF InTry
    <3>2. QED
      BY <3>1, UnwoundNone
  <2>4. QED
    BY <1>7, <2>1, <2>3, ResetKeeps
<1>12. CASE rest # <<>>
  <2> DEFINE m == Len(rest)
             k == open[m]
  <2>1. m > 0 /\ m \in Nat /\ m \in DOMAIN rest /\ m \in 1 .. Len(frames) - 1
    BY <1>9, <1>12
  <2>2. /\ k \in DOMAIN ended /\ InTry(ended[k])
        /\ IsFrameOf(rest[m], ended[k])
    BY <1>9, <1>10, <1>8, <2>1, AboveNewest
  <2>3. NoFinally(rest, m) /\ rest[m].state # "finally"
    <3>1. \A i \in 1 .. m : i \in 1 .. Len(frames) - 1
      BY <1>9
    <3>2. \A i \in 1 .. m - 1 : i \in 1 .. m
      BY <2>1
    <3>3. QED
      BY <1>3, <1>9, <2>1, <3>1, <3>2 DEF NoFinally
  <2>4. ended[k].section # "finally"
    BY <2>2, <2>3 DEF IsFrameOf
  <2>5. k # n
    BY <1>6, <1>8, <2>2
  <2>6. ended[k].section # "cleanup"
    BY <1>8, <2>2, <2>5 DEF ActivationsFit
  <2>7. ended[k].section \in {"body", "handler"}
    BY <2>2, <2>4, <2>6 DEF InTry
  <2>8. TakenBy(rest, ended, k, number)
    BY <1>4, <1>8, <1>9, <1>10, <2>1, <2>3, <2>7, RaisedFrames
  <2>9. rstack' = Drop(rstack, FrameCells) /\ fp' = top.fp
    BY <1>4, <1>7, <1>12 DEF Unwind
  <2>10. /\ frames' = Raised(rest, number)
         /\ ip' = At(Unwound(ended, number)[k].word, Unwound(ended, number)[k].section)
    BY <1>4, <1>7, <1>9, <2>1, <2>8, RaiseTaken
  <2> HIDE DEF k
  <2>11. k \in 1 .. n - 1 /\ n \in Nat /\ k \in Nat
    <3>1. k \in 1 .. n
      BY <1>8, <2>2
    <3>2. QED
      BY <1>2, <2>5, <3>1
  <2>12. \A i \in 1 .. k : ended[i] = activations[i]
    <3>1. \A i \in 1 .. k : i \in 1 .. Len(activations) /\ i < n
      BY <2>11
    <3>2. QED
      BY <1>8, <3>1 DEF SameBelow
  <2>13. FrameCells \in Nat \ {0} /\ Extent(top) = 1 + FrameCells
    BY <1>3, ExceptionsAssumption DEF Extent
  <2>14. /\ FrameCells <= size /\ FrameCells \in Nat
         /\ fp' \in Nat /\ fp' <= size - FrameCells
    <3>1. PICK base : StackFits(rstack, activations, base)
      BY DEF ExceptionsInv
    <3>2. /\ base[n] \in Nat \ {0} /\ base[n] + Extent(top) <= size
          /\ top.fp = base[n] + 1
      BY <1>2, <1>3, <3>1, ReturnCells
    <3>3. QED
      BY <1>2, <2>9, <2>13, <3>2
  <2>15. /\ rstack' \in Seq(Cell) /\ Len(rstack') = size - FrameCells
         /\ \A i \in 1 .. size - FrameCells : rstack'[i] = rstack[i]
    BY <1>2, <2>9, <2>14, DropFacts
  <2>16. Reaches(rstack', k)
    <3> SUFFICES ASSUME NEW base, StackFits(rstack, activations, base)
                 PROVE  /\ Len(rstack') >= base[k] + Extent(activations[k])
                        /\ SameBelow(rstack, rstack', base[k] + 2)
      BY DEF Reaches
    <3>1. k \in 1 .. Len(activations)
      BY <2>11
    <3>2. base[k] \in Nat \ {0} /\ base[k + 1] \in Nat
      BY <1>2, <3>1, Bases
    <3>3. CellsFit(rstack, activations[k], PlaceOf(activations, k - 1), base[k], base[k + 1])
      BY <3>1 DEF StackFits
    <3>4. ended[k].word \in Locals /\ activations[k] = ended[k]
      <4>1. k \in 1 .. k
        BY <2>11
      <4>2. QED
        BY <2>8, <2>12, <4>1 DEF TakenBy
    <3>5. base[k + 1] > base[k] + Extent(activations[k])
      BY <3>3, <3>4 DEF CellsFit
    <3>6. Extent(activations[k]) \in Nat /\ Extent(activations[k]) > 0
      BY <3>4, ExceptionsAssumption DEF Extent
    <3>7. base[n] \in Nat \ {0} /\ base[n] + Extent(top) <= size
      BY <1>2, <1>3, ReturnCells
    <3>8. base[k + 1] <= base[n]
      <4>1. k + 1 = n \/ k + 1 < n
        BY <2>11
      <4>2. k + 1 \in 1 .. Len(activations) + 1 /\ n \in 1 .. Len(activations) + 1
        BY <2>11
      <4>3. base[k + 1] = base[n] \/ base[k + 1] < base[n]
        BY <4>1, <4>2 DEF StackFits
      <4>4. QED
        BY <3>2, <3>7, <4>3
    <3>9. base[k] + Extent(activations[k]) + 2 <= size - FrameCells
      BY <1>2, <2>13, <3>2, <3>5, <3>6, <3>7, <3>8
    <3>10. \A i \in 1 .. size : i < base[k] + 2 => i \in 1 .. size - FrameCells
      BY <1>2, <2>13, <3>2, <3>6, <3>9
    <3>11. QED
      BY <1>2, <2>13, <2>15, <3>2, <3>6, <3>9, <3>10 DEF SameBelow
  <2>17. k <= Len(activations) /\ fp' <= Len(rstack')
    BY <2>11, <2>14, <2>15
  <2>18. QED
    BY <1>4, <1>7, <1>8, <2>8, <2>10, <2>12, <2>14, <2>15, <2>16, <2>17, TakenKeeps
<1>13. QED
  BY <1>11, <1>12

-----------------------------------------------------------------------------
(* The theorems *)

LEMMA ExceptionsInvStep ==
    ASSUME Disciplined, ExceptionsInv, [Next]_vars
    PROVE  ExceptionsInv'
<1>1. CASE \E word \in Words : Call(word)
  BY <1>1, CallKeeps
<1>2. CASE Return
  BY <1>2, ReturnKeeps
<1>3. CASE DoTry
  BY <1>3, DoTryKeeps
<1>4. CASE EndBody
  BY <1>4, EndBodyKeeps
<1>5. CASE EndHandler
  BY <1>5, EndHandlerKeeps
<1>6. CASE DoFinally
  BY <1>6, DoFinallyKeeps
<1>7. CASE DoEndtry
  BY <1>7, EndtryKeeps, RethrowKeeps
<1>8. CASE \E n \in Numbers : Throw(n)
  BY <1>8, ThrowKeeps
<1>9. CASE ThrowNone
  BY <1>9, ThrowNoneKeeps
<1>10. CASE SetError
  BY <1>10, ResetKeeps DEF SetError
<1>11. CASE UNCHANGED vars
  BY <1>11 DEF vars, ExceptionsInv, ExceptionsTypeOK, ControlIsStructured, LocalsAreOwn
<1>12. QED
  BY <1>1, <1>2, <1>3, <1>4, <1>5, <1>6, <1>7, <1>8, <1>9, <1>10, <1>11 DEF Next

\* The inductive invariant holds in every state.
LEMMA ExceptionsInvariant == ASSUME Disciplined PROVE Spec => []ExceptionsInv
<1>1. Init => ExceptionsInv
  BY InvOfConsole
<1>2. ExceptionsInv /\ [Next]_vars => ExceptionsInv'
  BY ExceptionsInvStep
<1>3. QED
  BY <1>1, <1>2, PTL DEF Spec

\* The variables keep their types; FP never points above the return stack.
THEOREM ExceptionsTypeCorrect == ASSUME Disciplined PROVE Spec => []ExceptionsTypeOK
<1>1. ExceptionsInv => ExceptionsTypeOK
  BY DEF ExceptionsInv
<1>2. QED
  BY <1>1, ExceptionsInvariant, PTL

\* However calls, throws, handlers and finally sections follow each other, the
\* IP is where the text of the words says: _exit finds the caller's address
\* though no exception resets RP, and RaiseException and _doEndtry come to the
\* handler or finally section whose turn it is.
THEOREM StructuredControl == ASSUME Disciplined PROVE Spec => []ControlIsStructured
<1>1. ExceptionsInv => ControlIsStructured
  BY DEF ExceptionsInv
<1>2. QED
  BY <1>1, ExceptionsInvariant, PTL

\* pExceptionFrame leads to the frames of the try blocks that are open, newest
\* first, each with the number and the state that its block has come to.
THEOREM FramesOfOpenTries == ASSUME Disciplined PROVE Spec => []FramesAreOpenTries
<1>1. ExceptionsInv => FramesAreOpenTries
  BY DEF ExceptionsInv, FramesFit, FramesAreOpenTries
<1>2. QED
  BY <1>1, ExceptionsInvariant, PTL

\* Before, in the body of and after its try block a word finds its own locals,
\* whatever exceptions its callees have let out.
THEOREM OwnLocals == ASSUME Disciplined PROVE Spec => []LocalsAreOwn
<1>1. ExceptionsInv => LocalsAreOwn
  BY DEF ExceptionsInv
<1>2. QED
  BY <1>1, ExceptionsInvariant, PTL

-----------------------------------------------------------------------------
(* Compiler *)

(* ------------------------ types of the compiler ----------------------- *)

SimpleTypes == {"native", "lit", "cc", "var", "localref", "refop", "numop", "varvar"}
Conditional == {"branchZ", "branchNZ", "opZ", "opNZ"}
Branching   == Conditional \cup {"branch", "caseT", "caseF"}
OpcodeTypes == SimpleTypes \cup Branching \cup {"abort", "data"}
Doable == Plain \cup {"do", "qdo", "loop", "loopn", "drop", "exit"}
Opcodes == [type : OpcodeTypes, ops : Seq(Doable), to : Nat]
Dictionaries == [code : Seq(Opcodes), peep : Seq(Nat)]

(* ----------------------- the compiler's dictionary --------------------- *)

\* Lengths and addresses of a dictionary are numbers.
LEMMA DictionaryTypes ==
  ASSUME NEW d \in Dictionaries
  PROVE  /\ d.code \in Seq(Opcodes) /\ d.peep \in Seq(Nat)
         /\ Len(d.code) \in Nat /\ DP(d) \in Nat \ {0}
         /\ DOMAIN d.code = 1..Len(d.code)
         /\ d = [code |-> d.code, peep |-> d.peep]
         /\ d.peep # <<>> => Len(d.peep) >= 1 /\ Last(d.peep) \in Nat
  BY DEF Dictionaries, DP, Last

\* The code of one dictionary is that of another up to p, where x stands,
\* followed by data.
Placed(d, e, p, x) ==
  /\ e.code \in Seq(Opcodes)
  /\ p \in 1..DP(d)
  /\ Len(e.code) \in p..p+2
  /\ \A a \in 1..p-1 : e.code[a] = d.code[a]
  /\ e.code[p] = x
  /\ \A a \in p+1..Len(e.code) : e.code[a] = Data

LEMMA DataType == Data \in Opcodes /\ Abort \in Opcodes
  BY DEF Data, Abort, Opcode, Opcodes, OpcodeTypes

LEMMA WithDataShape ==
  ASSUME NEW c \in Opcodes
  PROVE  /\ WithData(c) \in Seq(Opcodes)
         /\ Len(WithData(c)) \in 1..3
         /\ WithData(c)[1] = c
         /\ \A i \in 2..Len(WithData(c)) : WithData(c)[i] = Data
         /\ (c.type \notin {"native", "numop"} => WithData(c) = <<c>>)
<1> DEFINE n == DataCells(c)
<1> DEFINE s == [i \in 1..n |-> Data]
<1>1. n \in 0..2 /\ (c.type \notin {"native", "numop"} => n = 0)
  BY DEF DataCells
<1>2. s \in Seq(Opcodes) /\ Len(s) = n
  BY <1>1, DataType
<1>3. <<c>> \in Seq(Opcodes) /\ Len(<<c>>) = 1
  OBVIOUS
<1>4. WithData(c) = <<c>> \o s
  BY DEF WithData
<1>5. \A i \in 1..n : s[i] = Data
  OBVIOUS
<1> HIDE DEF n, s
<1>6. n = 0 => <<c>> \o s = <<c>>
  BY <1>2
<1>7. /\ <<c>> \o s \in Seq(Opcodes) /\ Len(<<c>> \o s) = 1 + n
      /\ (<<c>> \o s)[1] = c
  BY <1>1, <1>2, <1>3
<1>8. \A i \in 2..1+n : (<<c>> \o s)[i] = Data
  <2>1. TAKE i \in 2..1+n
  <2>2. (<<c>> \o s)[i] = s[i - 1] /\ i - 1 \in 1..n
    BY <1>1, <1>2, <1>3
  <2>3. QED BY <2>2, <1>5
<1>9. QED
  BY <1>1, <1>4, <1>6, <1>7, <1>8

\* One code is another one with an opcode and its data behind it.
Appended(t, s, c) ==
  /\ t \in Seq(Opcodes)
  /\ Len(t) \in Len(s)+1..Len(s)+3
  /\ \A a \in 1..Len(s) : t[a] = s[a]
  /\ t[Len(s) + 1] = c
  /\ \A a \in Len(s)+2..Len(t) : t[a] = Data

LEMMA AppendedShape ==
  ASSUME NEW s \in Seq(Opcodes), NEW c \in Opcodes
  PROVE  Appended(s \o WithData(c), s, c)
<1>1. PICK w \in Seq(Opcodes) : w = WithData(c)
  BY WithDataShape
<1>2. Len(w) \in 1..3 /\ w[1] = c /\ \A i \in 2..Len(w) : w[i] = Data
  BY <1>1, WithDataShape
<1>3. s \o w \in Seq(Opcodes) /\ Len(s \o w) = Len(s) + Len(w)
  OBVIOUS
<1>4. \A a \in 1..Len(s) : (s \o w)[a] = s[a]
  OBVIOUS
<1>5. \A a \in 1..Len(w) : (s \o w)[Len(s) + a] = w[a]
  OBVIOUS
<1>6. \A a \in Len(s)+2..Len(s \o w) : (s \o w)[a] = Data
  <2>1. TAKE a \in Len(s)+2..Len(s \o w)
  <2>2. a - Len(s) \in 2..Len(w) /\ a = Len(s) + (a - Len(s))
    BY <1>3
  <2>3. QED BY <2>2, <1>2, <1>5
<1>7. (s \o w)[Len(s) + 1] = c
  BY <1>2, <1>5
<1>8. Len(s \o w) \in Len(s)+1..Len(s)+3
  BY <1>2, <1>3
<1>9. Appended(s \o w, s, c)
  BY <1>3, <1>4, <1>6, <1>7, <1>8 DEF Appended
<1>10. QED BY <1>1, <1>9

(* the joined opcode *)
Joins(d, c) == d.peep # <<>> /\ (CombinesRef(d, c) \/ CombinesLiteral(d, c)
                                 \/ CombinesBranch(d, c) \/ CombinesVarop(d, c))

LEMMA JoinedType ==
  ASSUME NEW d \in Dictionaries, NEW c \in Opcodes, Joins(d, c), Previous(d) \in Opcodes
  PROVE  /\ Joined(d, c) \in Opcodes
         /\ c.type \in SimpleTypes => Joined(d, c).type \in SimpleTypes
         /\ c.type \in {"branchZ", "branchNZ"} =>
              Joined(d, c).type \in {"opZ", "opNZ"} /\ Joined(d, c).to = c.to
         /\ c.type \in SimpleTypes \cup {"branchZ", "branchNZ"}
<1>1. PICK q \in Opcodes : q = Previous(d)
  OBVIOUS
<1> DEFINE both == q.ops \o c.ops
<1>2. both \in Seq(Doable) /\ c.to \in Nat
  BY DEF Opcodes
<1>3. c.type \in {"native", "cc", "var"} \/ (c.type \in {"branchZ", "branchNZ"} /\ CombinesBranch(d, c))
  BY DEF Joins, CombinesRef, CombinesLiteral, CombinesBranch, CombinesVarop
<1>4. CASE c.type \in {"native", "cc", "var"}
  <2>1. ~CombinesBranch(d, c)
    BY <1>4 DEF CombinesBranch
  <2>2. Joined(d, c) \in {Opcode("refop", both), Opcode("numop", both), Opcode("localref", both), Opcode("varvar", both)}
    BY <1>1, <2>1 DEF Joined, Joins
  <2> HIDE DEF both
  <2>3. QED
    BY <1>2, <1>4, <2>2 DEF Opcode, Opcodes, SimpleTypes, OpcodeTypes
<1>5. CASE c.type \in {"branchZ", "branchNZ"}
  <2>1. ~CombinesRef(d, c) /\ ~CombinesLiteral(d, c) /\ CombinesBranch(d, c) /\ ~CombinesVarop(d, c)
    BY <1>3, <1>5 DEF CombinesRef, CombinesLiteral, CombinesVarop
  <2>2. Joined(d, c) = [type |-> IF c.type = "branchZ" THEN "opZ" ELSE "opNZ",
                        ops |-> Previous(d).ops \o c.ops, to |-> c.to]
    <3>1. PICK x : x = [type |-> IF c.type = "branchZ" THEN "opZ" ELSE "opNZ",
                        ops |-> Previous(d).ops \o c.ops, to |-> c.to]
      OBVIOUS
    <3>2. Joined(d, c) = x
      BY <2>1, <3>1 DEF Joined
    <3>3. QED BY <3>1, <3>2
  <2>2a. Joined(d, c) = [type |-> IF c.type = "branchZ" THEN "opZ" ELSE "opNZ", ops |-> both, to |-> c.to]
    BY <1>1, <2>2
  <2> HIDE DEF both
  <2>3. QED
    BY <1>2, <1>5, <2>2a DEF Opcodes, SimpleTypes, OpcodeTypes, Branching, Conditional
<1>6. QED BY <1>3, <1>4, <1>5

\* What CompileOpcode does: it appends, or joins in the place of the last opcode.
LEMMA CompileShape ==
  ASSUME NEW d \in Dictionaries, NEW c \in Opcodes,
         d.peep # <<>> => Last(d.peep) \in DOMAIN d.code
  PROVE  LET e == CompileOpcode(d, c) IN
         /\ e \in Dictionaries
         /\ ~Joins(d, c) => Placed(d, e, DP(d), c) /\ e.peep = Append(d.peep, DP(d))
         /\ Joins(d, c) => /\ Placed(d, e, Last(d.peep), Joined(d, c))
                           /\ e.peep \in {d.peep, <<>>}
                           /\ c.type \in {"branchZ", "branchNZ"} => e.peep = <<>>
         /\ c.type \in {"branch", "branchZ", "branchNZ", "abort"} =>
              Len(e.code) = IF Joins(d, c) THEN Last(d.peep) ELSE DP(d)
<1>1. CASE ~Joins(d, c)
  <2>1. CompileOpcode(d, c) = [code |-> d.code \o WithData(c), peep |-> Append(d.peep, DP(d))]
    BY <1>1 DEF CompileOpcode, Joins
  <2>2. d.code \in Seq(Opcodes) /\ d.peep \in Seq(Nat) /\ DP(d) \in Nat /\ DP(d) = Len(d.code) + 1 /\ Len(d.code) \in Nat
    BY DictionaryTypes DEF DP
  <2>3. PICK s : s = d.code \o WithData(c)
    OBVIOUS
  <2>4. Appended(s, d.code, c)
    BY <2>2, <2>3, AppendedShape
  <2>5. Append(d.peep, DP(d)) \in Seq(Nat)
    BY <2>2
  <2>6. PICK e : e = CompileOpcode(d, c)
    OBVIOUS
  <2>7. e.code = s /\ e.peep = Append(d.peep, DP(d)) /\ e \in Dictionaries
    <3>1. PICK q \in Seq(Nat) : q = Append(d.peep, DP(d))
      BY <2>5
    <3>2. e = [code |-> s, peep |-> q]
      BY <2>1, <2>3, <2>6, <3>1
    <3>3. QED BY <2>4, <3>1, <3>2 DEF Dictionaries, Appended
  <2>8. Placed(d, e, DP(d), c)
    BY <2>2, <2>4, <2>7 DEF Placed, Appended
  <2>9. c.type \in {"branch", "branchZ", "branchNZ", "abort"} => Len(s) = DP(d)
    <3>1. c.type \in {"branch", "branchZ", "branchNZ", "abort"} => s = d.code \o <<c>>
      BY <2>3, WithDataShape
    <3>2. QED BY <2>2, <3>1
  <2>10. QED BY <1>1, <2>6, <2>7, <2>8, <2>9
<1>2. CASE Joins(d, c)
  <2>1. PICK p : p = Last(d.peep)
    OBVIOUS
  <2>2. p \in 1..Len(d.code) /\ DP(d) = Len(d.code) + 1 /\ d.code \in Seq(Opcodes) /\ Previous(d) \in Opcodes
    BY <1>2, <2>1, DictionaryTypes DEF Joins, Previous, DP
  <2>3. PICK x \in Opcodes : x = Joined(d, c)
    BY <1>2, <2>2, JoinedType
  <2>4. PICK r : r = SubSeq(d.code, 1, p - 1)
    OBVIOUS
  <2>5. r \in Seq(Opcodes) /\ Len(r) = p - 1 /\ \A a \in 1..p-1 : r[a] = d.code[a]
    BY <2>2, <2>4
  <2>6. PICK s : s = r \o WithData(x)
    OBVIOUS
  <2>7. Appended(s, r, x)
    BY <2>5, <2>6, AppendedShape
  <2>8. CompileOpcode(d, c) = [code |-> s, peep |-> IF CombinesRef(d, c) THEN d.peep ELSE <<>>]
    BY <1>2, <2>1, <2>3, <2>4, <2>6 DEF CompileOpcode, Joins, UncompileLast
  <2>9. PICK e : e = CompileOpcode(d, c)
    OBVIOUS
  <2>10. e.code = s /\ e.peep \in {d.peep, <<>>} /\ (c.type \in {"branchZ", "branchNZ"} => e.peep = <<>>)
    BY <2>8, <2>9 DEF CombinesRef
  <2>11. e \in Dictionaries
    BY <2>7, <2>8, <2>9, DictionaryTypes DEF Dictionaries, Appended
  <2>12. Placed(d, e, p, x)
    BY <2>2, <2>5, <2>7, <2>10 DEF Placed, Appended
  <2>13. c.type \in {"branch", "branchZ", "branchNZ", "abort"} => Len(s) = p
    <3>1. c.type \in {"branch", "branchZ", "branchNZ", "abort"} => x.type \notin {"native", "numop"}
      BY <1>2, <2>2, <2>3, JoinedType DEF SimpleTypes
    <3>2. x.type \notin {"native", "numop"} => s = r \o <<x>>
      BY <2>6, WithDataShape
    <3>3. QED BY <2>2, <2>5, <3>1, <3>2
  <2>14. QED BY <1>2, <2>1, <2>3, <2>9, <2>10, <2>11, <2>12, <2>13
<1>3. QED BY <1>1, <1>2

(* ------------------------- labels and branches ------------------------ *)

\* A place a branch may lead to: an opcode, or where the next one will be,
\* which then must not be joined with the one before it.
LabelIn(l, d) == \/ l \in DOMAIN d.code /\ d.code[l].type # "data"
                 \/ l = DP(d) /\ d.peep = <<>>
\* An opcode that the peephole cannot take back.
Below(a, d) == a \in DOMAIN d.code /\ (d.peep # <<>> => a < Last(d.peep))
\* Where branches lead; a continue may lead to what has been joined with the
\* opcode before it, if continue: may come straight behind an opcode.
Target(l, d) == LabelIn(l, d) \/ (OpsBeforeContinue /\ l # 0)
SettledIn(c, d) == c.type # "abort" /\ (c.type \in Branching => Target(c.to, d))
\* The last valid address of the peephole is that of the last opcode, which
\* is none that branches.
PeepIn(d) == d.peep # <<>> =>
  /\ Last(d.peep) \in DOMAIN d.code
  /\ d.code[Last(d.peep)].type \in SimpleTypes
  /\ \A a \in DOMAIN d.code : a > Last(d.peep) => d.code[a].type = "data"

KeepsLabels(d, e) == \A l \in Nat : LabelIn(l, d) => LabelIn(l, e)
KeepsBelow(d, e) == \A a \in Nat : Below(a, d) =>
                      Below(a, e) /\ (e.code[a] = d.code[a] \/ SettledIn(e.code[a], e))
AddsSettled(d, e, U) ==
  \A a \in DOMAIN e.code : \/ a \in DOMAIN d.code /\ e.code[a] = d.code[a]
                           \/ SettledIn(e.code[a], e)
                           \/ a \in U
\* A dictionary after some steps of the compiler that leave open at most U.
Leads(d, e, U) == KeepsLabels(d, e) /\ KeepsBelow(d, e) /\ AddsSettled(d, e, U)

LEMMA SettledKept ==
  ASSUME NEW d, NEW e, NEW c, c.to \in Nat, KeepsLabels(d, e), SettledIn(c, d)
  PROVE  SettledIn(c, e)
  BY DEF KeepsLabels, SettledIn, Target

LEMMA CodeTypes ==
  ASSUME NEW d \in Dictionaries, NEW a \in DOMAIN d.code
  PROVE  a \in Nat /\ d.code[a] \in Opcodes /\ d.code[a].to \in Nat /\ d.code[a].type \in OpcodeTypes
<1>1. a \in 1..Len(d.code) /\ d.code \in Seq(Opcodes) /\ Len(d.code) \in Nat
  BY DictionaryTypes
<1>2. a \in Nat /\ d.code[a] \in Opcodes
  BY <1>1
<1>3. QED BY <1>2 DEF Opcodes

\* Steps of the compiler one after the other.
LEMMA LeadsOn ==
  ASSUME NEW d \in Dictionaries, NEW e \in Dictionaries, NEW f \in Dictionaries,
         NEW U, NEW V, Leads(d, e, U), Leads(e, f, V)
  PROVE  Leads(d, f, U \cup V)
<1>1. KeepsLabels(d, f)
  BY DEF Leads, KeepsLabels
<1>2. KeepsBelow(d, f)
  <2>1. SUFFICES ASSUME NEW a \in Nat, Below(a, d)
                 PROVE  Below(a, f) /\ (f.code[a] = d.code[a] \/ SettledIn(f.code[a], f))
    BY DEF KeepsBelow
  <2>2. Below(a, e) /\ (e.code[a] = d.code[a] \/ SettledIn(e.code[a], e))
    BY <2>1 DEF Leads, KeepsBelow
  <2>3. Below(a, f) /\ (f.code[a] = e.code[a] \/ SettledIn(f.code[a], f))
    BY <2>2 DEF Leads, KeepsBelow
  <2>4. a \in DOMAIN e.code
    BY <2>2 DEF Below
  <2>5. e.code[a].to \in Nat
    BY <2>4, CodeTypes
  <2>6. SettledIn(e.code[a], e) => SettledIn(e.code[a], f)
    BY <2>5, SettledKept DEF Leads
  <2>7. QED BY <2>2, <2>3, <2>6
<1>3. AddsSettled(d, f, U \cup V)
  <2>1. SUFFICES ASSUME NEW a \in DOMAIN f.code
                 PROVE  \/ a \in DOMAIN d.code /\ f.code[a] = d.code[a]
                        \/ SettledIn(f.code[a], f) \/ a \in U \cup V
    BY DEF AddsSettled
  <2>2. \/ a \in DOMAIN e.code /\ f.code[a] = e.code[a]
        \/ SettledIn(f.code[a], f) \/ a \in V
    BY DEF Leads, AddsSettled
  <2>3. ASSUME a \in DOMAIN e.code, f.code[a] = e.code[a]
        PROVE  \/ a \in DOMAIN d.code /\ f.code[a] = d.code[a]
               \/ SettledIn(f.code[a], f) \/ a \in U
    <3>1. \/ a \in DOMAIN d.code /\ e.code[a] = d.code[a]
          \/ SettledIn(e.code[a], e) \/ a \in U
      BY <2>3 DEF Leads, AddsSettled
    <3>2. e.code[a].to \in Nat
      BY <2>3, CodeTypes
    <3>3. SettledIn(e.code[a], e) => SettledIn(e.code[a], f)
      BY <3>2, SettledKept DEF Leads
    <3>4. QED BY <2>3, <3>1, <3>3
  <2>4. QED BY <2>2, <2>3
<1>4. QED BY <1>1, <1>2, <1>3 DEF Leads

\* An opcode put behind the others, or in the place of the last one.
LEMMA PlacedLeads ==
  ASSUME NEW d \in Dictionaries, NEW e \in Dictionaries, NEW p, NEW x \in Opcodes,
         Placed(d, e, p, x), x.type # "data",
         p = DP(d) \/ (d.peep # <<>> /\ p = Last(d.peep) /\ PeepIn(d)),
         e.peep # <<>> => Last(e.peep) = p
  PROVE  Leads(d, e, {p}) /\ p \in DOMAIN e.code /\ e.code[p] = x
<1>1. /\ Len(d.code) \in Nat /\ DP(d) = Len(d.code) + 1 /\ DOMAIN d.code = 1..Len(d.code)
      /\ Len(e.code) \in Nat /\ DOMAIN e.code = 1..Len(e.code)
  BY DictionaryTypes DEF DP
<1>2. /\ p \in 1..DP(d) /\ Len(e.code) \in p..p+2
      /\ \A a \in 1..p-1 : e.code[a] = d.code[a]
      /\ e.code[p] = x
      /\ \A a \in p+1..Len(e.code) : e.code[a] = Data
  BY DEF Placed
<1>3. p \in DOMAIN e.code /\ p \in Nat
  BY <1>1, <1>2
<1>4. KeepsLabels(d, e)
  <2>1. SUFFICES ASSUME NEW l \in Nat, LabelIn(l, d) PROVE LabelIn(l, e)
    BY DEF KeepsLabels
  <2>2. l \in 1..p
    <3>1. CASE p = DP(d)
      BY <1>1, <2>1, <3>1 DEF LabelIn
    <3>2. CASE d.peep # <<>> /\ p = Last(d.peep) /\ PeepIn(d)
      <4>1. l \in DOMAIN d.code /\ d.code[l].type # "data"
        BY <2>1, <3>2 DEF LabelIn
      <4>2. ~(l > p)
        BY <3>2, <4>1 DEF PeepIn
      <4>3. QED BY <1>1, <1>3, <4>1, <4>2
    <3>3. QED BY <3>1, <3>2
  <2>3. CASE l = p
    BY <1>2, <1>3, <2>3 DEF LabelIn
  <2>4. CASE l < p
    <3>1. l \in 1..p-1 /\ l \in DOMAIN d.code /\ l \in DOMAIN e.code /\ l # DP(d)
      BY <1>1, <1>2, <2>2, <2>4
    <3>2. d.code[l].type # "data"
      BY <2>1, <3>1 DEF LabelIn
    <3>3. QED BY <1>2, <3>1, <3>2 DEF LabelIn
  <2>5. QED BY <1>3, <2>2, <2>3, <2>4
<1>5. \A a \in Nat : Below(a, d) => a \in 1..p-1
  <2>1. SUFFICES ASSUME NEW a \in Nat, Below(a, d) PROVE a \in 1..p-1
    OBVIOUS
  <2>2. CASE p = DP(d)
    BY <1>1, <2>1, <2>2 DEF Below
  <2>3. CASE d.peep # <<>> /\ p = Last(d.peep) /\ PeepIn(d)
    BY <1>1, <1>3, <2>1, <2>3 DEF Below
  <2>4. QED BY <2>2, <2>3
<1>6. KeepsBelow(d, e)
  <2>1. SUFFICES ASSUME NEW a \in Nat, Below(a, d)
                 PROVE  Below(a, e) /\ e.code[a] = d.code[a]
    BY DEF KeepsBelow
  <2>2. a \in 1..p-1
    BY <1>5, <2>1
  <2>3. a \in DOMAIN e.code /\ a < p
    BY <1>1, <1>2, <2>2
  <2>4. QED BY <1>2, <2>2, <2>3 DEF Below
<1>7. AddsSettled(d, e, {p})
  <2>1. SUFFICES ASSUME NEW a \in DOMAIN e.code, a # p
                 PROVE  (a \in DOMAIN d.code /\ e.code[a] = d.code[a]) \/ SettledIn(e.code[a], e)
    BY DEF AddsSettled
  <2>2. CASE a \in 1..p-1
    BY <1>1, <1>2, <2>2
  <2>3. CASE a \in p+1..Len(e.code)
    <3>1. e.code[a] = Data
      BY <1>2, <2>3
    <3>2. QED BY <3>1 DEF SettledIn, Data, Opcode, Branching, Conditional, Target
  <2>4. QED BY <1>1, <1>2, <2>1, <2>2, <2>3
<1>8. QED BY <1>2, <1>3, <1>4, <1>6, <1>7 DEF Leads

\* What is settled in the end need not be named.
LEMMA LeadsSettled ==
  ASSUME NEW d, NEW e, NEW U, Leads(d, e, U), \A a \in U : SettledIn(e.code[a], e)
  PROVE  Leads(d, e, {})
  BY DEF Leads, AddsSettled

(* ---------------------- what the compiler's steps do ------------------- *)

LEMMA OpcodeFields ==
  ASSUME NEW c \in Opcodes
  PROVE  c.type \in OpcodeTypes /\ c.ops \in Seq(Doable) /\ c.to \in Nat
  BY DEF Opcodes

LEMMA BranchType ==
  ASSUME NEW type \in Branching, NEW to \in Nat
  PROVE  /\ Branch(type, to) \in Opcodes
         /\ Branch(type, to).type = type /\ Branch(type, to).to = to
  BY DEF Branch, Opcodes, OpcodeTypes

LEMMA Singleton ==
  ASSUME NEW S, NEW x \in S
  PROVE  <<x>> \in Seq(S)
  OBVIOUS

LEMMA CompiledType ==
  ASSUME NEW w \in Doable
  PROVE  Compiled(w) \in Opcodes /\ Compiled(w).type \in SimpleTypes
<1>1. Compiled(w) \in {Opcode("lit", <<w>>), Opcode("cc", <<w>>), Opcode("var", <<w>>),
                       Opcode("localref", <<w>>), Opcode("native", <<w>>)}
  BY DEF Compiled
<1>2. PICK s \in Seq(Doable) : s = <<w>>
  BY Singleton
<1>3. Compiled(w) \in {Opcode("lit", s), Opcode("cc", s), Opcode("var", s),
                       Opcode("localref", s), Opcode("native", s)}
  BY <1>1, <1>2
<1>4. QED BY <1>3 DEF Opcode, Opcodes, OpcodeTypes, SimpleTypes

\* A dictionary like another, but with an empty peephole.
LEMMA ClearShape ==
  ASSUME NEW d \in Dictionaries
  PROVE  /\ ClearPeephole(d) \in Dictionaries
         /\ ClearPeephole(d).code = d.code /\ ClearPeephole(d).peep = <<>>
         /\ DP(ClearPeephole(d)) = DP(d)
         /\ PeepIn(ClearPeephole(d))
<1>1. ClearPeephole(d) = [code |-> d.code, peep |-> <<>>]
  BY DictionaryTypes DEF ClearPeephole
<1>2. QED BY <1>1, DictionaryTypes DEF Dictionaries, DP, PeepIn

LEMMA ClearLeads ==
  ASSUME NEW d \in Dictionaries
  PROVE  Leads(d, ClearPeephole(d), {})
<1>1. PICK e \in Dictionaries : e = ClearPeephole(d)
  BY ClearShape
<1>2. e.code = d.code /\ e.peep = <<>> /\ DP(e) = DP(d)
  BY <1>1, ClearShape
<1>3. KeepsLabels(d, e)
  BY <1>2 DEF KeepsLabels, LabelIn
<1>4. KeepsBelow(d, e)
  BY <1>2 DEF KeepsBelow, Below
<1>5. AddsSettled(d, e, {})
  BY <1>2 DEF AddsSettled
<1>6. QED BY <1>1, <1>3, <1>4, <1>5 DEF Leads

\* An opcode that is none that branches: joined or not, it may be joined with the next.
LEMMA CompileSimple ==
  ASSUME NEW d \in Dictionaries, PeepIn(d), NEW c \in Opcodes, c.type \in SimpleTypes
  PROVE  /\ CompileOpcode(d, c) \in Dictionaries
         /\ PeepIn(CompileOpcode(d, c))
         /\ Leads(d, CompileOpcode(d, c), {})
<1>1. PICK e : e = CompileOpcode(d, c)
  OBVIOUS
<1>2. d.peep # <<>> => Last(d.peep) \in DOMAIN d.code
  BY DEF PeepIn
<1>3. e \in Dictionaries
  BY <1>1, <1>2, CompileShape
<1>4. PICK p \in Nat, x \in Opcodes :
        /\ Placed(d, e, p, x) /\ x.type \in SimpleTypes
        /\ p = DP(d) \/ (d.peep # <<>> /\ p = Last(d.peep))
        /\ e.peep # <<>> => Last(e.peep) = p
  <2>1. CASE ~Joins(d, c)
    <3>1. Placed(d, e, DP(d), c) /\ e.peep = Append(d.peep, DP(d))
      BY <1>1, <1>2, <2>1, CompileShape
    <3>2. d.peep \in Seq(Nat) /\ DP(d) \in Nat
      BY DictionaryTypes
    <3>3. Last(e.peep) = DP(d)
      BY <3>1, <3>2 DEF Last
    <3>4. QED BY <3>1, <3>2, <3>3
  <2>2. CASE Joins(d, c)
    <3>1. Placed(d, e, Last(d.peep), Joined(d, c)) /\ e.peep \in {d.peep, <<>>}
      BY <1>1, <1>2, <2>2, CompileShape
    <3>2. d.peep # <<>> /\ Last(d.peep) \in Nat
      BY <2>2, DictionaryTypes DEF Joins
    <3>3. Previous(d) \in Opcodes
      BY <1>2, <3>2, CodeTypes DEF Previous
    <3>4. Joined(d, c) \in Opcodes /\ Joined(d, c).type \in SimpleTypes
      BY <2>2, <3>3, JoinedType
    <3>5. QED BY <3>1, <3>2, <3>4
  <2>3. QED BY <2>1, <2>2
<1>5. x.type # "data" /\ x.type # "abort" /\ x.type \notin Branching
  BY <1>4 DEF SimpleTypes, Branching, Conditional
<1>6. Leads(d, e, {p}) /\ p \in DOMAIN e.code /\ e.code[p] = x
  BY <1>3, <1>4, <1>5, PlacedLeads
<1>7. SettledIn(e.code[p], e)
  BY <1>5, <1>6 DEF SettledIn, Target
<1>8. Leads(d, e, {})
  BY <1>6, <1>7, LeadsSettled
<1>9. PeepIn(e)
  <2>1. SUFFICES ASSUME e.peep # <<>>
                 PROVE  \A a \in DOMAIN e.code : a > p => e.code[a].type = "data"
    BY <1>4, <1>6 DEF PeepIn
  <2>2. TAKE a \in DOMAIN e.code
  <2>3. HAVE a > p
  <2>4. a \in p+1..Len(e.code)
    BY <1>3, <2>3, DictionaryTypes
  <2>5. e.code[a] = Data
    BY <1>4, <2>4 DEF Placed
  <2>6. QED BY <2>5 DEF Data, Opcode
<1>10. QED BY <1>1, <1>3, <1>8, <1>9

\* A conditional branch that is still to be fixed: it is the last opcode.
OpenTest(e) == /\ DP(e) - 1 \in DOMAIN e.code
               /\ e.code[DP(e) - 1].type \in {"branchZ", "opZ"}
LEMMA CompileTest ==
  ASSUME NEW d \in Dictionaries, PeepIn(d), NEW c, c = Branch("branchZ", 0)
  PROVE  /\ CompileOpcode(d, c) \in Dictionaries
         /\ OpenTest(CompileOpcode(d, c))
         /\ Leads(d, CompileOpcode(d, c), {DP(CompileOpcode(d, c)) - 1})
<1>1. PICK e : e = CompileOpcode(d, c)
  OBVIOUS
<1>2. d.peep # <<>> => Last(d.peep) \in DOMAIN d.code
  BY DEF PeepIn
<1>3. c \in Opcodes /\ c.type = "branchZ"
  BY BranchType DEF Branching, Conditional
<1>4. e \in Dictionaries
  BY <1>1, <1>2, <1>3, CompileShape
<1>5. PICK p \in Nat, x \in Opcodes :
        /\ Placed(d, e, p, x) /\ x.type \in {"branchZ", "opZ"}
        /\ p = DP(d) \/ (d.peep # <<>> /\ p = Last(d.peep))
        /\ e.peep # <<>> => Last(e.peep) = p
        /\ Len(e.code) = p
  <2>1. CASE ~Joins(d, c)
    <3>1. Placed(d, e, DP(d), c) /\ e.peep = Append(d.peep, DP(d)) /\ Len(e.code) = DP(d)
      BY <1>1, <1>2, <1>3, <2>1, CompileShape
    <3>2. d.peep \in Seq(Nat) /\ DP(d) \in Nat
      BY DictionaryTypes
    <3>3. Last(e.peep) = DP(d)
      BY <3>1, <3>2 DEF Last
    <3>4. QED BY <1>3, <3>1, <3>2, <3>3
  <2>2. CASE Joins(d, c)
    <3>1. Placed(d, e, Last(d.peep), Joined(d, c)) /\ e.peep = <<>> /\ Len(e.code) = Last(d.peep)
      BY <1>1, <1>2, <1>3, <2>2, CompileShape
    <3>2. d.peep # <<>> /\ Last(d.peep) \in Nat
      BY <2>2, DictionaryTypes DEF Joins
    <3>3. Previous(d) \in Opcodes
      BY <1>2, <3>2, CodeTypes DEF Previous
    <3>4. Joined(d, c) \in Opcodes /\ CombinesBranch(d, c)
      BY <1>3, <2>2, <3>3, JoinedType DEF Joins, CombinesRef, CombinesLiteral, CombinesVarop
    <3>5. ~CombinesRef(d, c) /\ ~CombinesLiteral(d, c) /\ ~CombinesVarop(d, c)
      BY <1>3 DEF CombinesRef, CombinesLiteral, CombinesVarop
    <3>6. Joined(d, c).type = "opZ"
      BY <1>3, <3>4, <3>5 DEF Joined
    <3>7. QED BY <3>1, <3>2, <3>4, <3>6
  <2>3. QED BY <2>1, <2>2
<1>6. Leads(d, e, {p}) /\ p \in DOMAIN e.code /\ e.code[p] = x
  BY <1>4, <1>5, PlacedLeads
<1>7. DP(e) - 1 = p
  BY <1>5 DEF DP
<1>8. QED BY <1>1, <1>4, <1>5, <1>6, <1>7 DEF OpenTest

\* A branch is appended as it is.
LEMMA CompileJump ==
  ASSUME NEW d \in Dictionaries, NEW c \in Opcodes, c.type = "branch"
  PROVE  CompileOpcode(d, c) = [code |-> Append(d.code, c), peep |-> Append(d.peep, DP(d))]
<1>1. ~Joins(d, c)
  BY DEF Joins, CombinesRef, CombinesLiteral, CombinesBranch, CombinesVarop
<1>2. WithData(c) = <<c>>
  BY WithDataShape
<1>3. d.code \o <<c>> = Append(d.code, c)
  BY DictionaryTypes
<1>4. QED BY <1>1, <1>2, <1>3 DEF CompileOpcode, Joins

LEMMA DummyShape ==
  ASSUME NEW d \in Dictionaries
  PROVE  /\ CompileDummy(d) = [code |-> Append(d.code, Abort), peep |-> <<>>]
         /\ CompileDummy(d) \in Dictionaries
         /\ PeepIn(CompileDummy(d))
         /\ DP(CompileDummy(d)) = DP(d) + 1
<1>1. PICK q \in Dictionaries : q = ClearPeephole(d)
  BY ClearShape
<1>2. q.code = d.code /\ q.peep = <<>>
  BY <1>1, ClearShape
<1>3. Abort \in Opcodes /\ Abort.type = "abort"
  BY DataType DEF Abort, Opcode
<1>4. WithData(Abort) = <<Abort>>
  BY <1>3, WithDataShape
<1>5. q.code \o <<Abort>> = Append(d.code, Abort) /\ Append(d.code, Abort) \in Seq(Opcodes)
      /\ Len(Append(d.code, Abort)) = Len(d.code) + 1
  BY <1>2, <1>3, DictionaryTypes
<1>6. CompileOpcode(q, Abort) = [code |-> Append(d.code, Abort), peep |-> Append(q.peep, DP(q))]
  BY <1>2, <1>4, <1>5 DEF CompileOpcode
<1>7. CompileDummy(d) = [code |-> Append(d.code, Abort), peep |-> <<>>]
  <2>1. PICK e : e = CompileOpcode(q, Abort)
    OBVIOUS
  <2>2. CompileDummy(d) = [e EXCEPT !.peep = <<>>]
    BY <1>1, <2>1 DEF CompileDummy, ClearPeephole
  <2>3. PICK x, y : x = Append(d.code, Abort) /\ y = Append(q.peep, DP(q))
    OBVIOUS
  <2>4. e = [code |-> x, peep |-> y]
    BY <1>6, <2>1, <2>3
  <2>5. [e EXCEPT !.peep = <<>>] = [code |-> x, peep |-> <<>>]
    BY <2>4
  <2>6. QED BY <2>2, <2>3, <2>5
<1>8. QED BY <1>5, <1>7, DictionaryTypes DEF Dictionaries, PeepIn, DP

LEMMA AppendOne ==
  ASSUME NEW s \in Seq(Opcodes), NEW x \in Opcodes, NEW t, t = Append(s, x)
  PROVE  /\ t \in Seq(Opcodes) /\ Len(t) = Len(s) + 1 /\ t[Len(s) + 1] = x
         /\ \A a \in 1..Len(s) : t[a] = s[a]
  OBVIOUS

\* An opcode appended with no data behind it.
LEMMA AppendPlaced ==
  ASSUME NEW d \in Dictionaries, NEW x \in Opcodes, NEW e, e.code = Append(d.code, x)
  PROVE  Placed(d, e, DP(d), x)
<1>1. /\ d.code \in Seq(Opcodes) /\ Len(d.code) \in Nat /\ DP(d) = Len(d.code) + 1
  BY DictionaryTypes DEF DP
<1>2. PICK t : t = Append(d.code, x)
  OBVIOUS
<1>3. /\ t \in Seq(Opcodes) /\ Len(t) = Len(d.code) + 1 /\ t[Len(d.code) + 1] = x
      /\ \A a \in 1..Len(d.code) : t[a] = d.code[a]
  BY <1>1, <1>2, AppendOne
<1>4. e.code = t
  BY <1>2
<1>5. QED BY <1>1, <1>3, <1>4 DEF Placed

LEMMA AbortType == Abort \in Opcodes /\ Abort.type = "abort"
  BY DataType DEF Abort, Opcode

LEMMA DummyLeads ==
  ASSUME NEW d \in Dictionaries, NEW e, e = CompileDummy(d)
  PROVE  /\ Leads(d, e, {DP(d)}) /\ DP(d) \in DOMAIN e.code /\ e.code[DP(d)] = Abort
         /\ e \in Dictionaries /\ e.peep = <<>> /\ DP(e) = DP(d) + 1
<1>1. e.code = Append(d.code, Abort) /\ e.peep = <<>> /\ e \in Dictionaries /\ DP(e) = DP(d) + 1
  BY DummyShape
<1>2. Placed(d, e, DP(d), Abort)
  BY <1>1, AbortType, AppendPlaced
<1>3. QED BY <1>1, <1>2, AbortType, PlacedLeads

\* The two cells that do keeps for loop.
LEMMA DoLeads ==
  ASSUME NEW d \in Dictionaries, NEW f, f = CompileDummy(d),
         NEW e, e = [f EXCEPT !.code = Append(@, Data)]
  PROVE  /\ Leads(d, e, {DP(d)}) /\ e \in Dictionaries /\ e.peep = <<>>
<1>1. f.code = Append(d.code, Abort) /\ f.peep = <<>> /\ f \in Dictionaries
  BY DummyShape
<1>2. e = [code |-> Append(f.code, Data), peep |-> f.peep]
  <2>1. PICK t : t = Append(f.code, Data)
    OBVIOUS
  <2>2. f = [code |-> f.code, peep |-> f.peep]
    BY <1>1, DictionaryTypes
  <2>3. [f EXCEPT !.code = Append(@, Data)] = [f EXCEPT !.code = t]
    BY <2>1, <2>2
  <2>4. [f EXCEPT !.code = t] = [code |-> t, peep |-> f.peep]
    BY <2>2
  <2>5. QED BY <2>1, <2>3, <2>4
<1>3. Placed(d, f, DP(d), Abort)
  BY <1>1, AbortType, AppendPlaced
<1>4. e.code = Append(f.code, Data) /\ e.peep = <<>>
  BY <1>1, <1>2
<1>5. PICK t : t = Append(f.code, Data)
  OBVIOUS
<1>6. /\ t \in Seq(Opcodes) /\ Len(t) = Len(f.code) + 1 /\ t[Len(f.code) + 1] = Data
      /\ \A a \in 1..Len(f.code) : t[a] = f.code[a]
  BY <1>1, <1>5, DataType, DictionaryTypes, AppendOne
<1>7. e \in Dictionaries
  BY <1>1, <1>2, <1>5, <1>6, DictionaryTypes DEF Dictionaries
<1>8. Len(f.code) = DP(d) /\ DP(d) \in Nat \ {0}
  <2>1. Len(f.code) = Len(d.code) + 1
    BY <1>1, AbortType, DictionaryTypes, AppendOne
  <2>2. QED BY <2>1, DictionaryTypes DEF DP
<1>9. Placed(d, e, DP(d), Abort)
  <2>1. e.code = t /\ Len(t) = DP(d) + 1 /\ t[DP(d) + 1] = Data
        /\ \A a \in 1..DP(d) : t[a] = f.code[a]
    BY <1>4, <1>5, <1>6, <1>8
  <2>2. f.code[DP(d)] = Abort /\ \A a \in 1..DP(d)-1 : f.code[a] = d.code[a]
    BY <1>3 DEF Placed
  <2>3. \A a \in 1..DP(d)-1 : e.code[a] = d.code[a]
    BY <1>8, <2>1, <2>2
  <2>4. e.code[DP(d)] = Abort /\ Len(e.code) \in DP(d)..DP(d)+2
    BY <1>8, <2>1, <2>2
  <2>5. \A a \in DP(d)+1..Len(e.code) : e.code[a] = Data
    BY <1>8, <2>1
  <2>6. e.code \in Seq(Opcodes) /\ DP(d) \in 1..DP(d)
    <3>1. t \in Seq(Opcodes)
      BY <1>6
    <3>2. e.code = t
      BY <2>1
    <3>3. DP(d) \in 1..DP(d)
      BY <1>8
    <3>4. QED BY <3>1, <3>2, <3>3
  <2>7. QED BY <2>3, <2>4, <2>5, <2>6 DEF Placed
<1>10. QED BY <1>4, <1>7, <1>9, AbortType, PlacedLeads

\* of takes the last opcode back, a literal, and keeps its place.
LEMMA UncompileLeads ==
  ASSUME NEW d \in Dictionaries, d.peep # <<>>, PeepIn(d),
         NEW f, f = UncompileLast(d), NEW e, e = CompileDummy(f)
  PROVE  /\ Leads(d, e, {DP(f)}) /\ e \in Dictionaries /\ e.peep = <<>>
         /\ DP(e) = DP(f) + 1 /\ f \in Dictionaries /\ DP(f) \in DOMAIN d.code
<1>1. PICK p : p = Last(d.peep)
  OBVIOUS
<1>2. p \in 1..Len(d.code) /\ d.code \in Seq(Opcodes) /\ d.peep \in Seq(Nat) /\ Len(d.peep) >= 1
      /\ DP(d) = Len(d.code) + 1 /\ Len(d.code) \in Nat
  BY <1>1, DictionaryTypes DEF PeepIn, DP
<1>3. PICK r : r = SubSeq(d.code, 1, p - 1)
  OBVIOUS
<1>4. r \in Seq(Opcodes) /\ Len(r) = p - 1 /\ \A a \in 1..p-1 : r[a] = d.code[a]
  BY <1>2, <1>3
<1>5. Front(d.peep) \in Seq(Nat)
  BY <1>2 DEF Front
<1>6. f = [code |-> r, peep |-> Front(d.peep)]
  BY <1>1, <1>3 DEF UncompileLast
<1>7. f \in Dictionaries /\ f.code = r /\ DP(f) = p
  BY <1>2, <1>4, <1>5, <1>6 DEF Dictionaries, DP
<1>8. e.code = Append(r, Abort) /\ e.peep = <<>> /\ e \in Dictionaries /\ DP(e) = p + 1
  BY <1>7, DummyShape
<1>9. Placed(f, e, p, Abort)
  BY <1>7, <1>8, AbortType, AppendPlaced
<1>10. Placed(d, e, p, Abort)
  <2>1. /\ e.code \in Seq(Opcodes) /\ p \in 1..DP(f) /\ Len(e.code) \in p..p+2
        /\ e.code[p] = Abort
        /\ \A a \in p+1..Len(e.code) : e.code[a] = Data
    BY <1>9 DEF Placed
  <2>2. \A a \in 1..p-1 : e.code[a] = d.code[a]
    BY <1>4, <1>7, <1>9 DEF Placed
  <2>3. p \in 1..DP(d)
    BY <1>2
  <2>4. QED BY <2>1, <2>2, <2>3 DEF Placed
<1>11. Leads(d, e, {p})
  BY <1>1, <1>8, <1>10, AbortType, PlacedLeads
<1>12. QED BY <1>2, <1>7, <1>8, <1>11

\* An unconditional branch, to a label or still to be fixed.
LEMMA JumpOpen ==
  ASSUME NEW d \in Dictionaries, NEW to \in Nat, NEW c, c = Branch("branch", to),
         NEW e, e = CompileOpcode(d, c)
  PROVE  /\ Leads(d, e, {DP(d)}) /\ e \in Dictionaries
         /\ e = [code |-> Append(d.code, c), peep |-> Append(d.peep, DP(d))]
         /\ DP(e) = DP(d) + 1 /\ e.code[DP(d)] = c
<1>1. c \in Opcodes /\ c.type = "branch" /\ c.to = to
  BY BranchType DEF Branching
<1>3. e = [code |-> Append(d.code, c), peep |-> Append(d.peep, DP(d))]
  BY <1>1, CompileJump
<1>4. d.peep \in Seq(Nat) /\ DP(d) \in Nat /\ d.code \in Seq(Opcodes) /\ DP(d) = Len(d.code) + 1
  BY DictionaryTypes DEF DP
<1>5. Last(Append(d.peep, DP(d))) = DP(d) /\ Append(d.peep, DP(d)) \in Seq(Nat)
  BY <1>4 DEF Last
<1>6. Append(d.code, c) \in Seq(Opcodes) /\ Len(Append(d.code, c)) = DP(d)
  BY <1>1, <1>4, AppendOne
<1>7. e \in Dictionaries /\ Last(e.peep) = DP(d) /\ e.code = Append(d.code, c) /\ DP(e) = DP(d) + 1
  <2>1. PICK t, q : t = Append(d.code, c) /\ q = Append(d.peep, DP(d))
    OBVIOUS
  <2>2. t \in Seq(Opcodes) /\ Len(t) = DP(d) /\ q \in Seq(Nat) /\ Last(q) = DP(d)
    BY <1>5, <1>6, <2>1
  <2>3. e = [code |-> t, peep |-> q]
    BY <1>3, <2>1
  <2>4. e \in Dictionaries
    BY <2>2, <2>3 DEF Dictionaries
  <2>5. e.code = t /\ e.peep = q
    BY <2>3
  <2>6. DP(e) = DP(d) + 1
    BY <2>2, <2>5 DEF DP
  <2>7. QED BY <2>1, <2>2, <2>4, <2>5, <2>6
<1>8. Placed(d, e, DP(d), c)
  BY <1>1, <1>7, AppendPlaced
<1>9. Leads(d, e, {DP(d)}) /\ e.code[DP(d)] = c
  BY <1>1, <1>7, <1>8, PlacedLeads
<1>10. QED BY <1>3, <1>7, <1>9

LEMMA JumpLeads ==
  ASSUME NEW d \in Dictionaries, NEW to \in Nat, LabelIn(to, d),
         NEW e, e = CompileOpcode(d, Branch("branch", to))
  PROVE  /\ Leads(d, e, {}) /\ e \in Dictionaries
         /\ e = [code |-> Append(d.code, Branch("branch", to)), peep |-> Append(d.peep, DP(d))]
         /\ DP(e) = DP(d) + 1
<1>1. PICK c : c = Branch("branch", to)
  OBVIOUS
<1>2. c.type = "branch" /\ c.to = to
  BY <1>1, BranchType DEF Branching
<1>3. /\ Leads(d, e, {DP(d)}) /\ e \in Dictionaries
      /\ e = [code |-> Append(d.code, c), peep |-> Append(d.peep, DP(d))]
      /\ DP(e) = DP(d) + 1 /\ e.code[DP(d)] = c
  BY <1>1, JumpOpen
<1>4. LabelIn(to, e)
  BY <1>3 DEF Leads, KeepsLabels
<1>5. SettledIn(c, e)
  BY <1>2, <1>4 DEF SettledIn, Target
<1>6. Leads(d, e, {})
  BY <1>3, <1>5, LeadsSettled
<1>7. QED BY <1>1, <1>3, <1>6

(* --------------------------- fixing branches -------------------------- *)

\* Every fix of an opcode that is there settles it.
FixOK(x, d) == x.at \in DOMAIN d.code =>
                 x.cell \in Opcodes /\ x.cell.type # "data" /\ SettledIn(x.cell, ClearPeephole(d))
FixesOK(fixes, d) == \A x \in fixes : FixOK(x, d)

LEMMA PatchShape ==
  ASSUME NEW d \in Dictionaries, NEW fixes, NEW e, e = Patch(d, fixes)
  PROVE  /\ e.peep = d.peep /\ DOMAIN e.code = DOMAIN d.code
         /\ \A a \in DOMAIN d.code : \/ e.code[a] = d.code[a] /\ ~\E x \in fixes : x.at = a
                                     \/ \E x \in fixes : x.at = a /\ e.code[a] = x.cell
<1>1. PICK s : s = [a \in DOMAIN d.code |->
         IF \E x \in fixes : x.at = a THEN (CHOOSE x \in fixes : x.at = a).cell ELSE d.code[a]]
  OBVIOUS
<1>2. e = [code |-> s, peep |-> d.peep]
  <2>1. e = [d EXCEPT !.code = s]
    BY <1>1 DEF Patch
  <2>2. QED BY <2>1, DictionaryTypes
<1>3. e.code = s /\ e.peep = d.peep /\ DOMAIN s = DOMAIN d.code
  BY <1>1, <1>2
<1>4. ASSUME NEW a \in DOMAIN d.code
      PROVE  \/ s[a] = d.code[a] /\ ~\E x \in fixes : x.at = a
             \/ \E x \in fixes : x.at = a /\ s[a] = x.cell
  <2>1. CASE \E x \in fixes : x.at = a
    <3>1. s[a] = (CHOOSE x \in fixes : x.at = a).cell
      BY <1>1, <2>1
    <3>2. (CHOOSE x \in fixes : x.at = a) \in fixes /\ (CHOOSE x \in fixes : x.at = a).at = a
      BY <2>1
    <3>3. QED BY <3>1, <3>2
  <2>2. CASE ~\E x \in fixes : x.at = a
    BY <1>1, <2>2
  <2>3. QED BY <2>1, <2>2
<1>5. QED BY <1>3, <1>4

LEMMA PatchTyped ==
  ASSUME NEW d \in Dictionaries, NEW fixes, FixesOK(fixes, d), NEW e, e = Patch(d, fixes)
  PROVE  e \in Dictionaries /\ Len(e.code) = Len(d.code) /\ DP(e) = DP(d)
<1>1. /\ e.peep = d.peep /\ DOMAIN e.code = DOMAIN d.code
      /\ \A a \in DOMAIN d.code : e.code[a] = d.code[a] \/ \E x \in fixes : x.at = a /\ e.code[a] = x.cell
  BY PatchShape
<1>2. \A a \in DOMAIN d.code : e.code[a] \in Opcodes
  BY <1>1, CodeTypes DEF FixesOK, FixOK
<1>3. PICK s : s = [a \in DOMAIN d.code |->
         IF \E x \in fixes : x.at = a THEN (CHOOSE x \in fixes : x.at = a).cell ELSE d.code[a]]
  OBVIOUS
<1>4. e = [code |-> s, peep |-> d.peep]
  <2>1. e = [d EXCEPT !.code = s]
    BY <1>3 DEF Patch
  <2>2. QED BY <2>1, DictionaryTypes
<1>5. PICK n \in Nat : n = Len(d.code) /\ DOMAIN d.code = 1..n
  BY DictionaryTypes
<1>6. \A a \in 1..n : s[a] \in Opcodes
  BY <1>2, <1>4, <1>5
<1>7. s \in [1..n -> Opcodes]
  BY <1>3, <1>5, <1>6
<1>8. s \in Seq(Opcodes) /\ Len(s) = n
  BY <1>7
<1>9. QED BY <1>4, <1>5, <1>8, DictionaryTypes DEF Dictionaries, DP

\* Fixing branches, after which the peephole is always cleared.
LEMMA PatchLeads ==
  ASSUME NEW d \in Dictionaries, NEW fixes, FixesOK(fixes, d),
         NEW e, e = ClearPeephole(Patch(d, fixes))
  PROVE  /\ Leads(d, e, {}) /\ e \in Dictionaries /\ e.peep = <<>> /\ DP(e) = DP(d)
         /\ DOMAIN e.code = DOMAIN d.code
         /\ \A x \in fixes : x.at \in DOMAIN d.code => SettledIn(e.code[x.at], e)
<1>1. PICK f : f = Patch(d, fixes)
  OBVIOUS
<1>2. f \in Dictionaries /\ DP(f) = DP(d) /\ f.peep = d.peep /\ DOMAIN f.code = DOMAIN d.code
      /\ \A a \in DOMAIN d.code : \/ f.code[a] = d.code[a] /\ ~\E x \in fixes : x.at = a
                                  \/ \E x \in fixes : x.at = a /\ f.code[a] = x.cell
  BY <1>1, PatchTyped, PatchShape
<1>3. e \in Dictionaries /\ e.code = f.code /\ e.peep = <<>> /\ DP(e) = DP(f)
  BY <1>1, <1>2, ClearShape
<1>4. PICK g \in Dictionaries : g = ClearPeephole(d)
  BY ClearShape
<1>5. g.code = d.code /\ g.peep = <<>> /\ DP(g) = DP(d)
  BY <1>4, ClearShape
<1>6. \A x \in fixes : x.at \in DOMAIN d.code =>
         x.cell \in Opcodes /\ x.cell.type # "data" /\ SettledIn(x.cell, g)
  BY <1>4 DEF FixesOK, FixOK
<1>7. \A l \in Nat : LabelIn(l, g) => LabelIn(l, e)
  BY <1>2, <1>3, <1>5, <1>6 DEF LabelIn
<1>8. \A x \in fixes : x.at \in DOMAIN d.code => SettledIn(x.cell, e)
  <2>1. SUFFICES ASSUME NEW x \in fixes, x.at \in DOMAIN d.code PROVE SettledIn(x.cell, e)
    OBVIOUS
  <2>2. x.cell \in Opcodes /\ SettledIn(x.cell, g)
    BY <1>6, <2>1
  <2>3. x.cell.to \in Nat
    BY <2>2, OpcodeFields
  <2>4. QED BY <1>7, <2>2, <2>3 DEF SettledIn, Target
<1>9. \A a \in DOMAIN d.code : e.code[a] = d.code[a] \/ SettledIn(e.code[a], e)
  BY <1>2, <1>3, <1>8
<1>10. KeepsLabels(d, e)
  BY <1>5, <1>7 DEF KeepsLabels, LabelIn
<1>11. KeepsBelow(d, e)
  BY <1>2, <1>3, <1>9 DEF KeepsBelow, Below
<1>12. AddsSettled(d, e, {})
  BY <1>2, <1>3, <1>9 DEF AddsSettled
<1>13. \A x \in fixes : x.at \in DOMAIN d.code => SettledIn(e.code[x.at], e)
  BY <1>2, <1>3, <1>8
<1>14. QED BY <1>2, <1>3, <1>10, <1>11, <1>12, <1>13 DEF Leads

(* --------------------- continuations and their counts ------------------ *)

Continuations == [kind : {"saved", "break", "continue"}, addr : Nat,
                  type : {"", "branch", "branchZ", "branchNZ"}, op : Nat]
Conts == [stack : Seq(Continuations), dest : Nat, count : Nat]
SavedAt(s) == {i \in 1..Len(s) : s[i].kind = "saved"}

\* n is how many branches lie above the last saved continuation among the
\* first top of the stack.
Above(stack, top, n) ==
  /\ n \in 0..top
  /\ n < top => stack[top - n].kind = "saved"
  /\ \A i \in top - n + 1..top : stack[i].kind # "saved"
\* Every count that is or was mContinueCount counts the branches of its loop.
CountGood(s, i) == IF s[i].kind = "saved" THEN Above(s, i - 1, s[i].op) ELSE s[i].type # ""
CountsGood(s) == \A i \in 1..Len(s) : CountGood(s, i)
ContGood(c) == /\ c \in Conts
               /\ Above(c.stack, Len(c.stack), c.count)
               /\ CountsGood(c.stack)

\* One stack is another one with something on top.
Topped(t, s, x) == /\ t \in Seq(Continuations) /\ Len(t) = Len(s) + 1 /\ t[Len(s) + 1] = x
                   /\ \A i \in 1..Len(s) : t[i] = s[i]
LEMMA ToppedStack ==
  ASSUME NEW s \in Seq(Continuations), NEW x \in Continuations
  PROVE  Topped(Append(s, x), s, x)
  BY DEF Topped

\* What is above does not depend on what is put on top.
LEMMA AboveKept ==
  ASSUME NEW n \in Nat, NEW s, NEW t, \A i \in 1..n : t[i] = s[i],
         NEW top \in 0..n, NEW k, Above(s, top, k)
  PROVE  Above(t, top, k)
<1>1. k \in 0..top /\ top \in Nat
  BY DEF Above
<1>2. k < top => t[top - k].kind = "saved"
  <2>1. k < top => top - k \in 1..n
    BY <1>1
  <2>2. QED BY <2>1 DEF Above
<1>3. ASSUME NEW i \in top - k + 1..top PROVE t[i].kind # "saved"
  <2>1. i \in 1..n
    BY <1>1
  <2>2. QED BY <2>1 DEF Above
<1>4. QED BY <1>1, <1>2, <1>3 DEF Above

LEMMA CountKept ==
  ASSUME NEW n \in Nat, NEW s, NEW t, \A i \in 1..n : t[i] = s[i],
         NEW i \in 1..n, CountGood(s, i)
  PROVE  CountGood(t, i)
<1>1. i - 1 \in 0..n /\ t[i] = s[i]
  OBVIOUS
<1>2. s[i].kind = "saved" => Above(s, i - 1, s[i].op)
  BY DEF CountGood
<1>3. s[i].kind = "saved" => Above(t, i - 1, s[i].op)
  BY <1>1, <1>2, AboveKept
<1>4. QED BY <1>1, <1>3 DEF CountGood

LEMMA SavedFinite ==
  ASSUME NEW s, Len(s) \in Nat
  PROVE  IsFiniteSet(SavedAt(s)) /\ Cardinality(SavedAt(s)) \in Nat
<1>1. PICK n \in Nat : n = Len(s)
  OBVIOUS
<1>2. IsFiniteSet(1..n) /\ SavedAt(s) \in SUBSET (1..n)
  BY <1>1, FS_Interval DEF SavedAt
<1>3. IsFiniteSet(SavedAt(s))
  BY <1>2, FS_Subset
<1>4. QED BY <1>3, FS_CardinalityType

LEMMA ContFields ==
  ASSUME NEW c \in Conts
  PROVE  /\ c.stack \in Seq(Continuations) /\ c.dest \in Nat /\ c.count \in Nat
         /\ c = [stack |-> c.stack, dest |-> c.dest, count |-> c.count]
  BY DEF Conts

SavedEntry(c) == [kind |-> "saved", addr |-> c.dest, type |-> "", op |-> c.count]
BranchEntry(kind, addr, type) == [kind |-> kind, addr |-> addr, type |-> type, op |-> 0]

LEMMA SavedOnTop ==
  ASSUME NEW s \in Seq(Continuations), NEW x \in Continuations, NEW t, Topped(t, s, x)
  PROVE  Cardinality(SavedAt(t)) =
           IF x.kind = "saved" THEN Cardinality(SavedAt(s)) + 1 ELSE Cardinality(SavedAt(s))
<1>1. PICK n \in Nat : n = Len(s)
  OBVIOUS
<1>2. Len(t) = n + 1 /\ t[n + 1] = x /\ \A i \in 1..n : t[i] = s[i]
  BY <1>1 DEF Topped
<1>3. SavedAt(t) = IF x.kind = "saved" THEN SavedAt(s) \cup {n + 1} ELSE SavedAt(s)
  BY <1>1, <1>2 DEF SavedAt
<1>4. n + 1 \notin SavedAt(s) /\ IsFiniteSet(SavedAt(s))
  BY <1>1, SavedFinite DEF SavedAt
<1>5. QED BY <1>3, <1>4, FS_AddElement

LEMMA StartLoopGood ==
  ASSUME NEW c, ContGood(c), NEW e, e = StartLoop(c)
  PROVE  /\ ContGood(e) /\ e.dest = 0 /\ SavedEntry(c) \in Continuations
         /\ Topped(e.stack, c.stack, SavedEntry(c))
         /\ Cardinality(SavedAt(e.stack)) = Cardinality(SavedAt(c.stack)) + 1
<1>1. PICK s \in Seq(Continuations) : s = c.stack
  BY ContFields DEF ContGood
<1>2. PICK x \in Continuations : x = SavedEntry(c) /\ x.kind = "saved" /\ x.op = c.count
  <2>1. PICK dest \in Nat, count \in Nat : dest = c.dest /\ count = c.count
    BY ContFields DEF ContGood
  <2>2. PICK x : x = [kind |-> "saved", addr |-> dest, type |-> "", op |-> count]
    OBVIOUS
  <2>3. x \in Continuations /\ x.kind = "saved" /\ x.op = count
    BY <2>2 DEF Continuations
  <2>4. x = SavedEntry(c)
    BY <2>1, <2>2 DEF SavedEntry
  <2>5. QED BY <2>1, <2>3, <2>4
<1>3. PICK t : t = Append(s, x)
  OBVIOUS
<1>4. Topped(t, s, x)
  BY <1>3, ToppedStack
<1>5. e = [stack |-> t, dest |-> 0, count |-> 0]
  BY <1>1, <1>2, <1>3 DEF StartLoop, SavedEntry
<1>6. t \in Seq(Continuations)
  BY <1>4 DEF Topped
<1>7. e \in Conts /\ e.stack = t /\ e.dest = 0 /\ e.count = 0
  BY <1>5, <1>6 DEF Conts
<1>8. PICK n \in Nat : n = Len(s)
  OBVIOUS
<1>9. Len(t) = n + 1 /\ t[n + 1] = x /\ \A i \in 1..n : t[i] = s[i]
  BY <1>4, <1>8 DEF Topped
<1>10. Above(t, Len(t), 0)
  BY <1>2, <1>8, <1>9 DEF Above
<1>11. ASSUME NEW i \in 1..Len(t) PROVE CountGood(t, i)
  <2>1. CASE i \in 1..n
    <3>1. CountGood(s, i)
      BY <1>1, <1>8, <2>1 DEF ContGood, CountsGood
    <3>2. QED BY <1>8, <1>9, <2>1, <3>1, CountKept
  <2>2. CASE i = n + 1
    <3>1. Above(s, n, c.count) /\ n \in 0..n
      BY <1>1, <1>8 DEF ContGood
    <3>2. Above(t, n, c.count)
      BY <1>8, <1>9, <3>1, AboveKept
    <3>3. t[i] = x /\ i - 1 = n
      BY <1>8, <1>9, <2>2
    <3>4. QED BY <1>2, <3>2, <3>3 DEF CountGood
  <2>3. QED BY <1>8, <1>9, <2>1, <2>2
<1>12. ContGood(e)
  BY <1>7, <1>10, <1>11 DEF ContGood, CountsGood
<1>13. Cardinality(SavedAt(t)) = Cardinality(SavedAt(s)) + 1
  BY <1>2, <1>4, SavedOnTop
<1>14. QED BY <1>1, <1>2, <1>4, <1>7, <1>12, <1>13

\* One more branch is open, y.
BranchAdded(e, c, y) == /\ ContGood(e) /\ e.dest = c.dest /\ y \in Continuations
                        /\ Topped(e.stack, c.stack, y)
                        /\ Cardinality(SavedAt(e.stack)) = Cardinality(SavedAt(c.stack))
LEMMA AddBranchGood ==
  ASSUME NEW c, ContGood(c), NEW kind \in {"break", "continue"}, NEW addr \in Nat,
         NEW type \in {"branch", "branchZ", "branchNZ"}, NEW e, e = AddBranch(c, kind, addr, type),
         NEW y, y = BranchEntry(kind, addr, type)
  PROVE  BranchAdded(e, c, y)
<1>1. PICK s \in Seq(Continuations), dest \in Nat, count \in Nat :
        s = c.stack /\ dest = c.dest /\ count = c.count
  BY ContFields DEF ContGood
<1>2. PICK x \in Continuations : x = BranchEntry(kind, addr, type) /\ x.kind # "saved" /\ x.type # ""
  <2>1. PICK x : x = [kind |-> kind, addr |-> addr, type |-> type, op |-> 0]
    OBVIOUS
  <2>2. x \in Continuations /\ x.kind = kind /\ x.type = type
    BY <2>1 DEF Continuations
  <2>3. x = BranchEntry(kind, addr, type)
    BY <2>1 DEF BranchEntry
  <2>4. QED BY <2>2, <2>3
<1>3. PICK t : t = Append(s, x)
  OBVIOUS
<1>4. Topped(t, s, x)
  BY <1>3, ToppedStack
<1>5. e = [stack |-> t, dest |-> dest, count |-> count + 1]
  <2>1. c = [stack |-> s, dest |-> dest, count |-> count]
    BY <1>1, ContFields DEF ContGood
  <2>2. e = [c EXCEPT !.stack = t, !.count = count + 1]
    BY <1>2, <1>3, <2>1 DEF AddBranch, BranchEntry
  <2>3. QED BY <2>1, <2>2
<1>6. t \in Seq(Continuations)
  BY <1>4 DEF Topped
<1>7. e \in Conts /\ e.stack = t /\ e.dest = dest /\ e.count = count + 1
  BY <1>5, <1>6 DEF Conts
<1>8. PICK n \in Nat : n = Len(s)
  OBVIOUS
<1>9. Len(t) = n + 1 /\ t[n + 1] = x /\ \A i \in 1..n : t[i] = s[i]
  BY <1>4, <1>8 DEF Topped
<1>10. Above(t, n + 1, count + 1)
  <2>1. Above(s, n, count) /\ n \in 0..n
    BY <1>1, <1>8 DEF ContGood
  <2>2. Above(t, n, count)
    BY <1>8, <1>9, <2>1, AboveKept
  <2>3. count + 1 \in 0..n + 1 /\ (n + 1) - (count + 1) = n - count
    BY <1>1, <1>8, <2>1 DEF Above
  <2>4. count + 1 < n + 1 => t[(n + 1) - (count + 1)].kind = "saved"
    BY <1>1, <1>8, <2>2, <2>3 DEF Above
  <2>5. ASSUME NEW i \in (n + 1) - (count + 1) + 1..n + 1 PROVE t[i].kind # "saved"
    <3>1. i \in n - count + 1..n \/ i = n + 1
      BY ONLY count \in Nat, n \in Nat, i \in (n + 1) - (count + 1) + 1..n + 1
    <3>2. i \in n - count + 1..n => t[i].kind # "saved"
      BY <2>2 DEF Above
    <3>3. QED BY <1>2, <1>9, <3>1, <3>2
  <2>6. QED BY <2>3, <2>4, <2>5 DEF Above
<1>11. ASSUME NEW i \in 1..Len(t) PROVE CountGood(t, i)
  <2>1. CASE i \in 1..n
    <3>1. CountGood(s, i)
      BY <1>1, <1>8, <2>1 DEF ContGood, CountsGood
    <3>2. QED BY <1>8, <1>9, <2>1, <3>1, CountKept
  <2>2. CASE i = n + 1
    BY <1>2, <1>9, <2>2 DEF CountGood
  <2>3. QED BY <1>8, <1>9, <2>1, <2>2
<1>12. ContGood(e)
  BY <1>7, <1>9, <1>10, <1>11 DEF ContGood, CountsGood
<1>13. Cardinality(SavedAt(t)) = Cardinality(SavedAt(s))
  BY <1>2, <1>4, SavedOnTop
<1>14. QED BY <1>1, <1>2, <1>4, <1>7, <1>12, <1>13 DEF BranchAdded

\* At the end of a loop, its branches and the continuation saved under them go.
LEMMA EndLoopGood ==
  ASSUME NEW c, ContGood(c), Len(c.stack) > c.count, NEW e, e = EndLoop(c),
         NEW m, m = Len(c.stack) - c.count
  PROVE  /\ ContGood(e) /\ m \in SavedAt(c.stack) /\ e.dest = c.stack[m].addr
         /\ Len(e.stack) = m - 1 /\ \A i \in 1..m-1 : e.stack[i] = c.stack[i]
         /\ \A i \in m+1..Len(c.stack) : c.stack[i].kind # "saved"
         /\ Cardinality(SavedAt(c.stack)) = Cardinality(SavedAt(e.stack)) + 1
<1>1. PICK s \in Seq(Continuations), count \in Nat : s = c.stack /\ count = c.count
  BY ContFields DEF ContGood
<1>2. PICK n \in Nat : n = Len(s)
  OBVIOUS
<1>3. Above(s, n, count) /\ n > count /\ m = n - count
  BY <1>1, <1>2 DEF ContGood
<1>4. m \in 1..n /\ s[m].kind = "saved" /\ \A i \in m+1..n : s[i].kind # "saved"
  BY <1>1, <1>2, <1>3 DEF Above
<1>5. PICK t : t = SubSeq(s, 1, m - 1)
  OBVIOUS
<1>6. t \in Seq(Continuations) /\ Len(t) = m - 1 /\ \A i \in 1..m-1 : t[i] = s[i]
  BY <1>2, <1>4, <1>5
<1>7. PICK x \in Continuations : x = s[m]
  BY <1>2, <1>4
<1>8. e = [stack |-> t, dest |-> x.addr, count |-> x.op]
  BY <1>1, <1>2, <1>3, <1>5, <1>7 DEF EndLoop
<1>9. x.addr \in Nat /\ x.op \in Nat
  BY DEF Continuations
<1>10. e \in Conts /\ e.stack = t /\ e.dest = x.addr /\ e.count = x.op
  BY <1>6, <1>8, <1>9 DEF Conts
<1>11. PICK k \in Nat : k = m - 1
  BY <1>4
<1>12. \A i \in 1..k : t[i] = s[i]
  BY <1>6, <1>11
<1>13. Above(t, k, x.op)
  <2>1. CountGood(s, m)
    BY <1>1, <1>2, <1>4 DEF ContGood, CountsGood
  <2>2. Above(s, k, x.op)
    BY <1>4, <1>7, <1>11, <2>1 DEF CountGood
  <2>3. k \in 0..k
    BY <1>11
  <2>4. QED BY <1>11, <1>12, <2>2, <2>3, AboveKept
<1>14. ASSUME NEW i \in 1..k PROVE CountGood(t, i)
  <2>1. i \in 1..n
    BY <1>2, <1>4, <1>11
  <2>2. CountGood(s, i)
    BY <1>1, <1>2, <2>1 DEF ContGood, CountsGood
  <2>3. QED BY <1>11, <1>12, <2>2, CountKept
<1>15. ContGood(e)
  BY <1>6, <1>10, <1>11, <1>13, <1>14 DEF ContGood, CountsGood
<1>16. SavedAt(s) = SavedAt(t) \cup {m} /\ m \notin SavedAt(t)
  <2>1. \A i \in 1..n : s[i].kind = "saved" => i = m \/ i \in 1..k
    BY <1>2, <1>4, <1>11
  <2>2. m \in 1..n /\ m \notin 1..k /\ \A i \in 1..k : i \in 1..n
    BY <1>2, <1>4, <1>11
  <2>3. Len(t) = k
    BY <1>6, <1>11
  <2>4. QED BY <1>2, <1>4, <1>12, <2>1, <2>2, <2>3 DEF SavedAt
<1>17. IsFiniteSet(SavedAt(t))
  BY <1>6, SavedFinite
<1>18. Cardinality(SavedAt(s)) = Cardinality(SavedAt(t)) + 1
  <2>1. Cardinality(SavedAt(t) \cup {m}) = Cardinality(SavedAt(t)) + 1
    BY <1>16, <1>17, FS_AddElement
  <2>2. QED BY <1>16, <2>1
<1>19. QED BY <1>1, <1>2, <1>4, <1>6, <1>7, <1>10, <1>15, <1>16, <1>18

(* ---------------------------- control stack ---------------------------- *)

Chained == ChainTags \cup {"andif", "orif"}
Tags == Chained \cup OfTags \cup {"colon", "#if", "begin", "do", "case", "ahead", "else"}
Entries == [tag : Tags, addr : Nat, op : Nat \cup Doable]
EntryGood(x) == /\ x.tag = "else" => x.op \in Nat
                /\ x.tag \in {"do", "ofEx"} => x.op \in Doable
ControlGood(k) == /\ k \in Seq(Entries)
                  /\ \A i \in 1..Len(k) : EntryGood(k[i]) /\ (k[i].tag = "colon" => i = 1)
IsLoop(x) == x.tag \in {"begin", "do"} \/ (x.tag = "case" /\ x.addr = 0)
LoopsIn(k) == {i \in 1..Len(k) : IsLoop(k[i])}

\* One control stack is another one with an entry on top, or the lower part of it.
Pushed(e, k, x) == Len(e) = Len(k) + 1 /\ e[Len(k) + 1] = x /\ \A i \in 1..Len(k) : e[i] = k[i]
Cut(e, k, n) == Len(e) = n /\ n \in 0..Len(k) /\ \A i \in 1..n : e[i] = k[i]

LEMMA LoopsFinite ==
  ASSUME NEW k, Len(k) \in Nat
  PROVE  IsFiniteSet(LoopsIn(k)) /\ Cardinality(LoopsIn(k)) \in Nat
<1>1. PICK n \in Nat : n = Len(k)
  OBVIOUS
<1>2. IsFiniteSet(1..n) /\ LoopsIn(k) \in SUBSET (1..n)
  BY <1>1, FS_Interval DEF LoopsIn
<1>3. IsFiniteSet(LoopsIn(k))
  BY <1>2, FS_Subset
<1>4. QED BY <1>3, FS_CardinalityType

LEMMA EntryTyped ==
  ASSUME NEW tag \in Tags, NEW addr \in Nat, NEW op \in Nat \cup Doable
  PROVE  /\ Entry(tag, addr, op) \in Entries
         /\ Entry(tag, addr, op).tag = tag /\ Entry(tag, addr, op).addr = addr
         /\ Entry(tag, addr, op).op = op
  BY DEF Entry, Entries

LEMMA ControlPush ==
  ASSUME NEW k, ControlGood(k), NEW x \in Entries, EntryGood(x), x.tag # "colon",
         NEW e, e = Append(k, x)
  PROVE  /\ ControlGood(e) /\ Pushed(e, k, x)
         /\ Cardinality(LoopsIn(e)) =
              IF IsLoop(x) THEN Cardinality(LoopsIn(k)) + 1 ELSE Cardinality(LoopsIn(k))
<1>1. k \in Seq(Entries) /\ \A i \in 1..Len(k) : EntryGood(k[i]) /\ (k[i].tag = "colon" => i = 1)
  BY DEF ControlGood
<1>2. PICK n \in Nat : n = Len(k)
  BY <1>1
<1>3. e \in Seq(Entries) /\ Len(e) = n + 1 /\ e[n + 1] = x /\ \A i \in 1..n : e[i] = k[i]
  BY <1>1, <1>2
<1>4. ControlGood(e)
  BY <1>1, <1>2, <1>3 DEF ControlGood
<1>5. LoopsIn(e) = IF IsLoop(x) THEN LoopsIn(k) \cup {n + 1} ELSE LoopsIn(k)
  BY <1>2, <1>3 DEF LoopsIn
<1>6. n + 1 \notin LoopsIn(k) /\ IsFiniteSet(LoopsIn(k))
  BY <1>2, LoopsFinite DEF LoopsIn
<1>7. Cardinality(LoopsIn(e)) =
        IF IsLoop(x) THEN Cardinality(LoopsIn(k)) + 1 ELSE Cardinality(LoopsIn(k))
  BY <1>5, <1>6, FS_AddElement
<1>8. QED BY <1>2, <1>3, <1>4, <1>7 DEF Pushed

LEMMA ControlCut ==
  ASSUME NEW k, ControlGood(k), NEW n \in 0..Len(k), NEW e, e = SubSeq(k, 1, n)
  PROVE  ControlGood(e) /\ Cut(e, k, n)
<1>1. k \in Seq(Entries) /\ \A i \in 1..Len(k) : EntryGood(k[i]) /\ (k[i].tag = "colon" => i = 1)
  BY DEF ControlGood
<1>2. e \in Seq(Entries) /\ Len(e) = n /\ \A i \in 1..n : e[i] = k[i]
  BY <1>1
<1>3. \A i \in 1..n : i \in 1..Len(k)
  BY <1>1
<1>4. QED BY <1>1, <1>2, <1>3 DEF ControlGood, Cut

LEMMA LoopsCut ==
  ASSUME NEW k, Len(k) \in Nat, NEW n, NEW e, Cut(e, k, n),
         \A i \in n+1..Len(k) : ~IsLoop(k[i])
  PROVE  Cardinality(LoopsIn(e)) = Cardinality(LoopsIn(k))
<1>1. Len(e) = n /\ n \in 0..Len(k) /\ \A i \in 1..n : e[i] = k[i]
  BY DEF Cut
<1>2. LoopsIn(e) = LoopsIn(k)
  BY <1>1 DEF LoopsIn
<1>3. QED BY <1>2

LEMMA LoopsCutOne ==
  ASSUME NEW k, Len(k) \in Nat, NEW n, NEW e, Cut(e, k, n),
         NEW m \in n+1..Len(k), IsLoop(k[m]),
         \A i \in n+1..Len(k) : i # m => ~IsLoop(k[i])
  PROVE  Cardinality(LoopsIn(k)) = Cardinality(LoopsIn(e)) + 1
<1>1. Len(e) = n /\ n \in 0..Len(k) /\ \A i \in 1..n : e[i] = k[i]
  BY DEF Cut
<1>2. LoopsIn(k) = LoopsIn(e) \cup {m} /\ m \notin LoopsIn(e)
  BY <1>1 DEF LoopsIn
<1>3. IsFiniteSet(LoopsIn(e))
  BY <1>1, LoopsFinite
<1>4. Cardinality(LoopsIn(e) \cup {m}) = Cardinality(LoopsIn(e)) + 1
  BY <1>2, <1>3, FS_AddElement
<1>5. QED BY <1>2, <1>4

(* ----------------------- greatest and least entry ---------------------- *)

LEMMA LeastNumber ==
  ASSUME NEW S \in SUBSET Nat, S # {}
  PROVE  \E m \in S : \A k \in S : m <= k
<1>1. PICK m \in S : \A k \in S : <<k, m>> \notin OpToRel(<, Nat)
  BY NatLessThanWellFounded, WFMin
<1>2. ASSUME NEW k \in S PROVE ~(k < m)
  BY <1>1 DEF OpToRel
<1>3. QED BY <1>2

LEMMA GreatestIs ==
  ASSUME NEW n \in Nat, NEW S \in SUBSET (0..n), S # {}
  PROVE  Max(S) \in S /\ \A k \in S : k <= Max(S)
<1> DEFINE T == {n - k : k \in S}
<1>1. T \in SUBSET Nat /\ T # {}
  OBVIOUS
<1>2. PICK m \in T : \A k \in T : m <= k
  BY <1>1, LeastNumber
<1>3. PICK x \in S : m = n - x
  OBVIOUS
<1>4. \A y \in S : x >= y
  <2>1. TAKE y \in S
  <2>2. n - y \in T
    OBVIOUS
  <2>3. m <= n - y
    BY <1>2, <2>2
  <2>4. QED BY <1>3, <2>3
<1> HIDE DEF T
<1>5. Max(S) \in S /\ \A y \in S : Max(S) >= y
  BY <1>4 DEF Max
<1>6. QED BY <1>5

LEMMA LeastIs ==
  ASSUME NEW S \in SUBSET Nat, S # {}
  PROVE  Min(S) \in S /\ \A k \in S : Min(S) <= k
  BY LeastNumber DEF Min

(* ----------------- what is still owed, and to which opcodes ------------ *)

\* An unresolved opcode is owed by an entry of the control stack or by a
\* continuation that is still open.
OwedBy(a, x) == x.addr = a /\ x.tag \notin {"colon", "#if", "begin"}
OwedTo(a, y) == y.addr = a /\ y.kind # "saved"
Owed(a, k, s) == \/ \E i \in 1..Len(k) : OwedBy(a, k[i])
                 \/ \E i \in 1..Len(s) : OwedTo(a, s[i])
CodeIn(d, k, s) == \A a \in DOMAIN d.code : SettledIn(d.code[a], d) \/ Owed(a, k, s)

\* The addresses an entry will be used for.
ChainEntryIn(x, d) == /\ LabelIn(x.addr, d) /\ LabelIn(x.addr + 1, d) /\ Below(x.addr, d)
                      /\ d.code[x.addr].type \in Conditional \/ SettledIn(d.code[x.addr], d)
EntryIn(x, d) == /\ x.tag \in Chained => ChainEntryIn(x, d)
                 /\ x.tag \in OfTags => LabelIn(x.addr + 1, d)
                 /\ x.tag = "else" => Below(x.addr, d)
                 /\ x.tag = "begin" => LabelIn(x.addr, d)
EntriesIn(d, k) == \A i \in 1..Len(k) : EntryIn(k[i], d)
DestIn(d, dest) == dest # 0 => Target(dest, d)
ContIn(d, c) == /\ DestIn(d, c.dest)
                /\ \A i \in 1..Len(c.stack) : c.stack[i].kind = "saved" => DestIn(d, c.stack[i].addr)

LEMMA EntryKept ==
  ASSUME NEW d \in Dictionaries, NEW e \in Dictionaries, NEW U, Leads(d, e, U),
         NEW x \in Entries, EntryIn(x, d)
  PROVE  EntryIn(x, e)
<1>1. x.addr \in Nat /\ x.addr + 1 \in Nat
  BY DEF Entries
<1>2. LabelIn(x.addr, d) => LabelIn(x.addr, e)
  BY <1>1 DEF Leads, KeepsLabels
<1>3. LabelIn(x.addr + 1, d) => LabelIn(x.addr + 1, e)
  BY <1>1 DEF Leads, KeepsLabels
<1>4. Below(x.addr, d) =>
         Below(x.addr, e) /\ (e.code[x.addr] = d.code[x.addr] \/ SettledIn(e.code[x.addr], e))
  BY <1>1 DEF Leads, KeepsBelow
<1>5. Below(x.addr, d) /\ SettledIn(d.code[x.addr], d) => SettledIn(d.code[x.addr], e)
  <2>1. Below(x.addr, d) => d.code[x.addr].to \in Nat
    BY CodeTypes DEF Below
  <2>2. QED BY <2>1, SettledKept DEF Leads
<1>6. ChainEntryIn(x, d) => ChainEntryIn(x, e)
  BY <1>2, <1>3, <1>4, <1>5 DEF ChainEntryIn
<1>7. QED BY <1>2, <1>3, <1>4, <1>6 DEF EntryIn

LEMMA DestKept ==
  ASSUME NEW d, NEW e, NEW U, Leads(d, e, U), NEW dest \in Nat, DestIn(d, dest)
  PROVE  DestIn(e, dest)
  BY DEF Leads, KeepsLabels, DestIn, Target

\* What was settled or owed still is, if only what has been settled is owed no more.
LEMMA CodeKept ==
  ASSUME NEW d \in Dictionaries, NEW e \in Dictionaries, NEW U, Leads(d, e, U),
         NEW k, NEW s, CodeIn(d, k, s), NEW k2, NEW s2,
         \A a \in DOMAIN e.code : Owed(a, k, s) => Owed(a, k2, s2) \/ SettledIn(e.code[a], e),
         \A a \in U : Owed(a, k2, s2)
  PROVE  CodeIn(e, k2, s2)
<1>1. SUFFICES ASSUME NEW a \in DOMAIN e.code
               PROVE  SettledIn(e.code[a], e) \/ Owed(a, k2, s2)
  BY DEF CodeIn
<1>2. \/ a \in DOMAIN d.code /\ e.code[a] = d.code[a]
      \/ SettledIn(e.code[a], e) \/ a \in U
  BY DEF Leads, AddsSettled
<1>3. CASE a \in DOMAIN d.code /\ e.code[a] = d.code[a]
  <2>1. SettledIn(d.code[a], d) \/ Owed(a, k, s)
    BY <1>3 DEF CodeIn
  <2>2. d.code[a].to \in Nat
    BY <1>3, CodeTypes
  <2>3. SettledIn(d.code[a], d) => SettledIn(d.code[a], e)
    BY <2>2, SettledKept DEF Leads
  <2>4. QED BY <1>3, <2>1, <2>3
<1>4. QED BY <1>2, <1>3

LEMMA OwedPushed ==
  ASSUME NEW a, NEW k, Len(k) \in Nat, NEW s, NEW k2, NEW x, Pushed(k2, k, x)
  PROVE  Owed(a, k2, s) <=> Owed(a, k, s) \/ OwedBy(a, x)
<1>1. PICK n \in Nat : n = Len(k)
  OBVIOUS
<1>2. Len(k2) = n + 1 /\ k2[n + 1] = x /\ \A i \in 1..n : k2[i] = k[i]
  BY <1>1 DEF Pushed
<1>3. (\E i \in 1..Len(k2) : OwedBy(a, k2[i])) <=> OwedBy(a, x) \/ \E i \in 1..n : OwedBy(a, k[i])
  BY <1>2
<1>4. QED BY <1>1, <1>3 DEF Owed

LEMMA OwedTopped ==
  ASSUME NEW a, NEW k, NEW s \in Seq(Continuations), NEW s2, NEW y, Topped(s2, s, y)
  PROVE  Owed(a, k, s2) <=> Owed(a, k, s) \/ OwedTo(a, y)
<1>1. PICK n \in Nat : n = Len(s)
  OBVIOUS
<1>2. Len(s2) = n + 1 /\ s2[n + 1] = y /\ \A i \in 1..n : s2[i] = s[i]
  BY <1>1 DEF Topped
<1>3. (\E i \in 1..Len(s2) : OwedTo(a, s2[i])) <=> OwedTo(a, y) \/ \E i \in 1..n : OwedTo(a, s[i])
  BY <1>2
<1>4. QED BY <1>1, <1>3 DEF Owed

(* ------------------------- the end of a loop --------------------------- *)

\* Break leads behind the loop, continue to the destination.
LEMMA LoopFixesOK ==
  ASSUME NEW d \in Dictionaries, NEW c, ContGood(c), NEW tag, CanEndLoop(c, tag), DestIn(d, c.dest)
  PROVE  /\ FixesOK(LoopFixes(c, d), d)
         /\ \A i \in Len(c.stack) - c.count + 1..Len(c.stack) :
              \E x \in LoopFixes(c, d) : x.at = c.stack[i].addr
<1>1. PICK s \in Seq(Continuations), dest \in Nat, count \in Nat :
        s = c.stack /\ dest = c.dest /\ count = c.count
  BY ContFields DEF ContGood
<1>2. PICK n \in Nat : n = Len(s)
  OBVIOUS
<1>3. Above(s, n, count) /\ CountsGood(s)
  BY <1>1, <1>2 DEF ContGood
<1>4. Pending(c) = {s[i] : i \in n - count + 1..n}
  BY <1>1, <1>2 DEF Pending
<1>5. ASSUME NEW p \in Pending(c)
      PROVE  /\ p \in Continuations /\ p.kind # "saved" /\ p.type \in {"branch", "branchZ", "branchNZ"}
             /\ p.kind = "break" \/ dest # 0
  <2>1. PICK i \in n - count + 1..n : p = s[i]
    BY <1>4
  <2>2. i \in 1..n
    BY <1>3 DEF Above
  <2>3. p \in Continuations /\ p.kind # "saved"
    BY <1>2, <1>3, <2>1, <2>2 DEF Above
  <2>4. p.type # ""
    BY <1>2, <1>3, <2>1, <2>2, <2>3 DEF CountsGood, CountGood
  <2>5. p.kind = "break" \/ dest # 0
    BY <1>1 DEF CanEndLoop
  <2>6. QED BY <2>3, <2>4, <2>5 DEF Continuations
<1>6. PICK g \in Dictionaries : g = ClearPeephole(d)
  BY ClearShape
<1>7. LabelIn(DP(d), g) /\ (dest # 0 => Target(dest, g)) /\ DP(d) \in Nat
  <2>1. g.peep = <<>> /\ DP(g) = DP(d)
    BY <1>6, ClearShape
  <2>2. KeepsLabels(d, g)
    BY <1>6, ClearLeads DEF Leads
  <2>3. QED BY <1>1, <2>1, <2>2, DictionaryTypes DEF LabelIn, DestIn, KeepsLabels, Target
<1>8. ASSUME NEW x \in LoopFixes(c, d) PROVE FixOK(x, d)
  <2>1. PICK p \in Pending(c) :
          x = [at |-> p.addr, cell |-> Branch(p.type, IF p.kind = "break" THEN DP(d) ELSE c.dest)]
    BY DEF LoopFixes
  <2>2. PICK to : to = IF p.kind = "break" THEN DP(d) ELSE c.dest
    OBVIOUS
  <2>3. to \in Nat /\ Target(to, g)
    BY <1>1, <1>5, <1>7, <2>2 DEF Target
  <2>4. p.type \in Branching /\ p.type # "data" /\ p.type # "abort"
    BY <1>5 DEF Branching, Conditional
  <2>5. PICK y \in Opcodes : y = Branch(p.type, to) /\ y.type = p.type /\ y.to = to
    BY <2>3, <2>4, BranchType
  <2>6. SettledIn(y, g)
    BY <2>3, <2>4, <2>5 DEF SettledIn, Target
  <2>7. x.cell = y
    BY <2>1, <2>2, <2>5
  <2>8. QED BY <1>6, <2>4, <2>5, <2>6, <2>7 DEF FixOK
<1>9. ASSUME NEW i \in n - count + 1..n
      PROVE  \E x \in LoopFixes(c, d) : x.at = s[i].addr
  <2>1. PICK p \in Pending(c) : p = s[i]
    BY <1>4
  <2>2. PICK x \in LoopFixes(c, d) :
          x = [at |-> p.addr, cell |-> Branch(p.type, IF p.kind = "break" THEN DP(d) ELSE c.dest)]
    BY DEF LoopFixes
  <2>3. x.at = p.addr
    BY <2>2
  <2>4. QED BY <2>1, <2>3
<1>10. QED BY <1>1, <1>2, <1>8, <1>9 DEF FixesOK

LEMMA EndOfLoopLeads ==
  ASSUME NEW d \in Dictionaries, NEW c, ContGood(c), NEW tag, CanEndLoop(c, tag),
         DestIn(d, c.dest), NEW e, e = EndOfLoop(d, c)
  PROVE  /\ Leads(d, e, {}) /\ e \in Dictionaries /\ e.peep = <<>> /\ DP(e) = DP(d)
         /\ DOMAIN e.code = DOMAIN d.code
         /\ \A i \in Len(c.stack) - c.count + 1..Len(c.stack) :
              c.stack[i].addr \in DOMAIN e.code => SettledIn(e.code[c.stack[i].addr], e)
<1>1. PICK fixes : fixes = LoopFixes(c, d)
  OBVIOUS
<1>2. FixesOK(fixes, d)
  BY <1>1, LoopFixesOK
<1>3. e = ClearPeephole(Patch(d, fixes))
  BY <1>1 DEF EndOfLoop
<1>4. /\ Leads(d, e, {}) /\ e \in Dictionaries /\ e.peep = <<>> /\ DP(e) = DP(d)
      /\ DOMAIN e.code = DOMAIN d.code
      /\ \A x \in fixes : x.at \in DOMAIN d.code => SettledIn(e.code[x.at], e)
  BY <1>2, <1>3, PatchLeads
<1>5. \A i \in Len(c.stack) - c.count + 1..Len(c.stack) :
        \E x \in fixes : x.at = c.stack[i].addr
  BY <1>1, LoopFixesOK
<1>6. QED BY <1>4, <1>5

\* The end of a loop may as well find the peephole empty.
LEMMA EndOfLoopClear ==
  ASSUME NEW d \in Dictionaries, NEW c
  PROVE  EndOfLoop(d, c) = EndOfLoop(ClearPeephole(d), c)
<1>1. PICK g \in Dictionaries : g = ClearPeephole(d)
  BY ClearShape
<1>2. g = [code |-> d.code, peep |-> <<>>] /\ DP(g) = DP(d)
  BY <1>1, ClearShape, DictionaryTypes
<1>3. LoopFixes(c, g) = LoopFixes(c, d)
  BY <1>2 DEF LoopFixes
<1>4. PICK fixes : fixes = LoopFixes(c, d)
  OBVIOUS
<1>5. PICK t : t = [a \in DOMAIN d.code |->
        IF \E x \in fixes : x.at = a THEN (CHOOSE x \in fixes : x.at = a).cell ELSE d.code[a]]
  OBVIOUS
<1>6. g.code = d.code
  BY <1>2
<1>7. Patch(d, fixes) = [d EXCEPT !.code = t] /\ Patch(g, fixes) = [g EXCEPT !.code = t]
  BY <1>5, <1>6 DEF Patch
<1>8. [d EXCEPT !.code = t] = [code |-> t, peep |-> d.peep]
      /\ [g EXCEPT !.code = t] = [code |-> t, peep |-> <<>>]
  BY <1>2, DictionaryTypes
<1>9. ClearPeephole(Patch(d, fixes)) = [code |-> t, peep |-> <<>>]
      /\ ClearPeephole(Patch(g, fixes)) = [code |-> t, peep |-> <<>>]
  BY <1>7, <1>8 DEF ClearPeephole
<1>10. QED BY <1>1, <1>3, <1>4, <1>9 DEF EndOfLoop

(* --------------------- the invariant, step by step --------------------- *)

\* What the dictionary, the control stack and the continuations are together.
Good(d, k, c) ==
  /\ d \in Dictionaries /\ PeepIn(d)
  /\ ControlGood(k) /\ ContGood(c)
  /\ Cardinality(SavedAt(c.stack)) = Cardinality(LoopsIn(k))
  /\ CodeIn(d, k, c.stack) /\ EntriesIn(d, k) /\ ContIn(d, c)

\* The entries above the n-th are for opcodes that have been settled.
DropsSettled(k, n, e) == \A i \in n+1..Len(k) : \A a \in DOMAIN e.code :
                           OwedBy(a, k[i]) => SettledIn(e.code[a], e)

LEMMA GoodParts ==
  ASSUME NEW d, NEW k, NEW c, Good(d, k, c)
  PROVE  /\ d \in Dictionaries /\ PeepIn(d) /\ ControlGood(k) /\ k \in Seq(Entries) /\ Len(k) \in Nat
         /\ ContGood(c) /\ c \in Conts /\ c.stack \in Seq(Continuations) /\ Len(c.stack) \in Nat
         /\ c.dest \in Nat /\ c.count \in Nat
         /\ CodeIn(d, k, c.stack) /\ EntriesIn(d, k) /\ ContIn(d, c)
<1>1. d \in Dictionaries /\ PeepIn(d) /\ ControlGood(k) /\ ContGood(c)
      /\ CodeIn(d, k, c.stack) /\ EntriesIn(d, k) /\ ContIn(d, c)
  BY DEF Good
<1>2. k \in Seq(Entries) /\ c \in Conts
  BY <1>1 DEF ControlGood, ContGood
<1>3. c.stack \in Seq(Continuations) /\ c.dest \in Nat /\ c.count \in Nat
  BY <1>2, ContFields
<1>4. Len(k) \in Nat /\ Len(c.stack) \in Nat
  BY <1>2, <1>3
<1>5. QED BY <1>1, <1>2, <1>3, <1>4

LEMMA EntriesKept ==
  ASSUME NEW d \in Dictionaries, NEW e \in Dictionaries, NEW U, Leads(d, e, U),
         NEW k \in Seq(Entries), EntriesIn(d, k)
  PROVE  EntriesIn(e, k)
<1>1. ASSUME NEW i \in 1..Len(k) PROVE EntryIn(k[i], e)
  <2>1. k[i] \in Entries /\ EntryIn(k[i], d)
    BY DEF EntriesIn
  <2>2. QED BY <2>1, EntryKept
<1>2. QED BY <1>1 DEF EntriesIn

LEMMA EntriesCut ==
  ASSUME NEW d, NEW k \in Seq(Entries), EntriesIn(d, k), NEW n, NEW k2, Cut(k2, k, n)
  PROVE  EntriesIn(d, k2)
<1>1. ASSUME NEW i \in 1..Len(k2) PROVE k2[i] = k[i] /\ i \in 1..Len(k)
  BY DEF Cut
<1>2. QED BY <1>1 DEF EntriesIn

LEMMA EntriesPushed ==
  ASSUME NEW d, NEW k, Len(k) \in Nat, EntriesIn(d, k), NEW x, EntryIn(x, d), NEW k2, Pushed(k2, k, x)
  PROVE  EntriesIn(d, k2)
<1>1. PICK n \in Nat : n = Len(k)
  OBVIOUS
<1>2. Len(k2) = n + 1 /\ k2[n + 1] = x /\ \A i \in 1..n : k2[i] = k[i]
  BY <1>1 DEF Pushed
<1>3. \A i \in 1..n : EntryIn(k[i], d)
  BY <1>1 DEF EntriesIn
<1>4. QED BY <1>2, <1>3 DEF EntriesIn

LEMMA ContKept ==
  ASSUME NEW d, NEW e, NEW U, Leads(d, e, U), NEW c \in Conts, ContIn(d, c)
  PROVE  ContIn(e, c)
<1>1. c.dest \in Nat /\ c.stack \in Seq(Continuations)
  BY ContFields
<1>2. DestIn(e, c.dest)
  BY <1>1, DestKept DEF ContIn
<1>3. ASSUME NEW i \in 1..Len(c.stack), c.stack[i].kind = "saved"
      PROVE  DestIn(e, c.stack[i].addr)
  <2>1. PICK s \in Seq(Continuations) : s = c.stack
    BY <1>1
  <2>2. s[i] \in Continuations
    BY <2>1
  <2>3. s[i].addr \in Nat
    BY <2>2 DEF Continuations
  <2>4. DestIn(d, s[i].addr)
    BY <1>3, <2>1 DEF ContIn
  <2>5. DestIn(e, s[i].addr)
    BY <2>3, <2>4, DestKept
  <2>6. QED BY <2>1, <2>5
<1>4. QED BY <1>2, <1>3 DEF ContIn

LEMMA OwedCut ==
  ASSUME NEW k, Len(k) \in Nat, NEW n, NEW k2, Cut(k2, k, n), NEW e, DropsSettled(k, n, e), NEW s
  PROVE  \A a \in DOMAIN e.code : Owed(a, k, s) => Owed(a, k2, s) \/ SettledIn(e.code[a], e)
<1>1. SUFFICES ASSUME NEW a \in DOMAIN e.code, Owed(a, k, s)
               PROVE  Owed(a, k2, s) \/ SettledIn(e.code[a], e)
  OBVIOUS
<1>2. CASE \E i \in 1..Len(s) : OwedTo(a, s[i])
  BY <1>2 DEF Owed
<1>3. ASSUME NEW i \in 1..Len(k), OwedBy(a, k[i])
      PROVE  Owed(a, k2, s) \/ SettledIn(e.code[a], e)
  <2>1. Len(k2) = n /\ n \in 0..Len(k) /\ \A j \in 1..n : k2[j] = k[j]
    BY DEF Cut
  <2>2. CASE i \in 1..n
    BY <1>3, <2>1, <2>2 DEF Owed
  <2>3. CASE i \in n+1..Len(k)
    BY <1>3, <2>3 DEF DropsSettled
  <2>4. QED BY <2>1, <2>2, <2>3
<1>4. QED BY <1>1, <1>2, <1>3 DEF Owed

\* A step that leaves the two stacks as they are.
LEMMA GoodSame ==
  ASSUME NEW d, NEW k, NEW c, Good(d, k, c), NEW e \in Dictionaries, PeepIn(e), Leads(d, e, {})
  PROVE  Good(e, k, c)
<1>1. CodeIn(e, k, c.stack)
  BY GoodParts, CodeKept
<1>2. EntriesIn(e, k) /\ ContIn(e, c)
  BY GoodParts, EntriesKept, ContKept
<1>3. QED BY <1>1, <1>2 DEF Good

\* One that cuts the control stack, down to what was settled, and puts an entry on top.
LEMMA GoodCutPush ==
  ASSUME NEW d, NEW k, NEW c, Good(d, k, c), NEW e \in Dictionaries, PeepIn(e),
         NEW U, Leads(d, e, U), NEW n \in 0..Len(k), DropsSettled(k, n, e),
         \A i \in n+1..Len(k) : ~IsLoop(k[i]),
         NEW x \in Entries, EntryGood(x), x.tag # "colon", ~IsLoop(x), EntryIn(x, e),
         \A a \in U : OwedBy(a, x),
         NEW k2, k2 = Append(SubSeq(k, 1, n), x)
  PROVE  Good(e, k2, c)
<1>1. PICK k1 : k1 = SubSeq(k, 1, n)
  OBVIOUS
<1>2. ControlGood(k1) /\ Cut(k1, k, n) /\ k1 \in Seq(Entries) /\ Len(k1) \in Nat
  <2>1. ControlGood(k1) /\ Cut(k1, k, n)
    BY <1>1, GoodParts, ControlCut
  <2>2. QED BY <2>1 DEF ControlGood
<1>3. ControlGood(k2) /\ Pushed(k2, k1, x) /\ Cardinality(LoopsIn(k2)) = Cardinality(LoopsIn(k1))
  BY <1>1, <1>2, ControlPush
<1>4. Cardinality(LoopsIn(k1)) = Cardinality(LoopsIn(k))
  BY <1>2, GoodParts, LoopsCut
<1>5. EntriesIn(e, k2)
  <2>1. EntriesIn(e, k)
    BY GoodParts, EntriesKept
  <2>2. EntriesIn(e, k1)
    BY <1>2, <2>1, GoodParts, EntriesCut
  <2>3. QED BY <1>2, <1>3, <2>2, EntriesPushed
<1>6. ContIn(e, c)
  BY GoodParts, ContKept
<1>7. CodeIn(e, k2, c.stack)
  <2>1. \A a \in DOMAIN e.code : Owed(a, k, c.stack) => Owed(a, k1, c.stack) \/ SettledIn(e.code[a], e)
    BY <1>2, GoodParts, OwedCut
  <2>2. \A a : Owed(a, k2, c.stack) <=> Owed(a, k1, c.stack) \/ OwedBy(a, x)
    BY <1>2, <1>3, OwedPushed
  <2>3. \A a \in DOMAIN e.code : Owed(a, k, c.stack) => Owed(a, k2, c.stack) \/ SettledIn(e.code[a], e)
    BY <2>1, <2>2
  <2>4. \A a \in U : Owed(a, k2, c.stack)
    BY <2>2
  <2>5. QED BY <2>3, <2>4, GoodParts, CodeKept
<1>8. QED BY <1>3, <1>4, <1>5, <1>6, <1>7 DEF Good

LEMMA GoodCut ==
  ASSUME NEW d, NEW k, NEW c, Good(d, k, c), NEW e \in Dictionaries, PeepIn(e),
         Leads(d, e, {}), NEW n \in 0..Len(k), DropsSettled(k, n, e),
         \A i \in n+1..Len(k) : ~IsLoop(k[i]),
         NEW k1, k1 = SubSeq(k, 1, n)
  PROVE  Good(e, k1, c)
<1>2. ControlGood(k1) /\ Cut(k1, k, n)
  BY GoodParts, ControlCut
<1>4. Cardinality(LoopsIn(k1)) = Cardinality(LoopsIn(k))
  BY <1>2, GoodParts, LoopsCut
<1>5. EntriesIn(e, k1)
  <2>1. EntriesIn(e, k)
    BY GoodParts, EntriesKept
  <2>2. QED BY <1>2, <2>1, GoodParts, EntriesCut
<1>6. ContIn(e, c)
  BY GoodParts, ContKept
<1>7. CodeIn(e, k1, c.stack)
  <2>1. \A a \in DOMAIN e.code : Owed(a, k, c.stack) => Owed(a, k1, c.stack) \/ SettledIn(e.code[a], e)
    BY <1>2, GoodParts, OwedCut
  <2>2. QED BY <2>1, GoodParts, CodeKept
<1>8. QED BY <1>2, <1>4, <1>5, <1>6, <1>7 DEF Good

LEMMA GoodPush ==
  ASSUME NEW d, NEW k, NEW c, Good(d, k, c), NEW e \in Dictionaries, PeepIn(e),
         NEW U, Leads(d, e, U),
         NEW x \in Entries, EntryGood(x), x.tag # "colon", ~IsLoop(x), EntryIn(x, e),
         \A a \in U : OwedBy(a, x),
         NEW k2, k2 = Append(k, x)
  PROVE  Good(e, k2, c)
<1>1. PICK n \in Nat : n = Len(k)
  BY GoodParts
<1>2. SubSeq(k, 1, n) = k /\ n \in 0..Len(k) /\ n+1..Len(k) = {}
  BY <1>1, GoodParts
<1>3. DropsSettled(k, n, e) /\ \A i \in n+1..Len(k) : ~IsLoop(k[i])
  BY <1>2 DEF DropsSettled
<1>4. k2 = Append(SubSeq(k, 1, n), x)
  BY <1>2
<1>5. QED BY <1>2, <1>3, <1>4, GoodCutPush

\* The beginning of a loop.
LEMMA GoodStart ==
  ASSUME NEW d, NEW k, NEW c, Good(d, k, c), NEW e \in Dictionaries, PeepIn(e),
         NEW U, Leads(d, e, U),
         NEW x \in Entries, EntryGood(x), x.tag # "colon", IsLoop(x), EntryIn(x, e),
         \A a \in U : OwedBy(a, x),
         NEW k2, k2 = Append(k, x), NEW c2, c2 = StartLoop(c)
  PROVE  Good(e, k2, c2)
<1>1. ControlGood(k2) /\ Pushed(k2, k, x) /\ Cardinality(LoopsIn(k2)) = Cardinality(LoopsIn(k)) + 1
  BY GoodParts, ControlPush
<1>2. PICK y : y = SavedEntry(c)
  OBVIOUS
<1>3. /\ ContGood(c2) /\ c2.dest = 0 /\ y \in Continuations /\ Topped(c2.stack, c.stack, y)
      /\ Cardinality(SavedAt(c2.stack)) = Cardinality(SavedAt(c.stack)) + 1
  BY <1>2, GoodParts, StartLoopGood
<1>4. EntriesIn(e, k2)
  <2>1. EntriesIn(e, k)
    BY GoodParts, EntriesKept
  <2>2. QED BY <1>1, <2>1, GoodParts, EntriesPushed
<1>5. ContIn(e, c2)
  <2>1. ContIn(e, c)
    BY GoodParts, ContKept
  <2>2. PICK n \in Nat : n = Len(c.stack)
    BY GoodParts
  <2>3. Len(c2.stack) = n + 1 /\ c2.stack[n + 1] = y /\ \A i \in 1..n : c2.stack[i] = c.stack[i]
    BY <1>3, <2>2 DEF Topped
  <2>4. y.addr = c.dest /\ DestIn(e, c.dest)
    BY <1>2, <2>1 DEF SavedEntry, ContIn
  <2>5. \A i \in 1..n : c.stack[i].kind = "saved" => DestIn(e, c.stack[i].addr)
    BY <2>1, <2>2 DEF ContIn
  <2>6. \A i \in 1..n+1 : c2.stack[i].kind = "saved" => DestIn(e, c2.stack[i].addr)
    BY <2>3, <2>4, <2>5
  <2>7. DestIn(e, c2.dest)
    BY <1>3 DEF DestIn, Target
  <2>8. QED BY <2>3, <2>6, <2>7 DEF ContIn
<1>6. CodeIn(e, k2, c2.stack)
  <2>1. \A a : Owed(a, k2, c.stack) <=> Owed(a, k, c.stack) \/ OwedBy(a, x)
    BY <1>1, GoodParts, OwedPushed
  <2>2. \A a : Owed(a, k2, c2.stack) <=> Owed(a, k2, c.stack) \/ OwedTo(a, y)
    BY <1>3, GoodParts, OwedTopped
  <2>3. \A a \in DOMAIN e.code : Owed(a, k, c.stack) => Owed(a, k2, c2.stack)
    BY <2>1, <2>2
  <2>4. \A a \in U : Owed(a, k2, c2.stack)
    BY <2>1, <2>2
  <2>5. QED BY <2>3, <2>4, GoodParts, CodeKept
<1>7. QED BY <1>1, <1>3, <1>4, <1>5, <1>6 DEF Good

\* A branch out of a loop or to its continue:.
LEMMA GoodBranch ==
  ASSUME NEW d, NEW k, NEW c, Good(d, k, c), NEW e \in Dictionaries, PeepIn(e),
         NEW kind \in {"break", "continue"}, NEW addr \in Nat,
         NEW type \in {"branch", "branchZ", "branchNZ"}, Leads(d, e, {addr}),
         NEW c2, c2 = AddBranch(c, kind, addr, type)
  PROVE  Good(e, k, c2)
<1>1. PICK y : y = BranchEntry(kind, addr, type)
  OBVIOUS
<1>2. /\ ContGood(c2) /\ c2.dest = c.dest /\ y \in Continuations /\ Topped(c2.stack, c.stack, y)
      /\ Cardinality(SavedAt(c2.stack)) = Cardinality(SavedAt(c.stack))
  <2>1. ContGood(c)
    BY GoodParts
  <2>2. BranchAdded(c2, c, y)
    BY <1>1, <2>1, AddBranchGood
  <2>3. QED BY <2>2 DEF BranchAdded
<1>3. y.kind # "saved" /\ y.addr = addr
  BY <1>1 DEF BranchEntry
<1>4. EntriesIn(e, k)
  BY GoodParts, EntriesKept
<1>5. ContIn(e, c2)
  <2>1. ContIn(e, c)
    BY GoodParts, ContKept
  <2>2. PICK n \in Nat : n = Len(c.stack)
    BY GoodParts
  <2>3. Len(c2.stack) = n + 1 /\ c2.stack[n + 1] = y /\ \A i \in 1..n : c2.stack[i] = c.stack[i]
    BY <1>2, <2>2 DEF Topped
  <2>4. \A i \in 1..n : c.stack[i].kind = "saved" => DestIn(e, c.stack[i].addr)
    BY <2>1, <2>2 DEF ContIn
  <2>5. \A i \in 1..n+1 : c2.stack[i].kind = "saved" => DestIn(e, c2.stack[i].addr)
    BY <1>3, <2>3, <2>4
  <2>6. QED BY <1>2, <2>1, <2>3, <2>5 DEF ContIn
<1>6. CodeIn(e, k, c2.stack)
  <2>1. \A a : Owed(a, k, c2.stack) <=> Owed(a, k, c.stack) \/ OwedTo(a, y)
    BY <1>2, GoodParts, OwedTopped
  <2>2. OwedTo(addr, y)
    BY <1>3 DEF OwedTo
  <2>3. QED BY <2>1, <2>2, GoodParts, CodeKept
<1>7. QED BY <1>2, <1>4, <1>5, <1>6, GoodParts DEF Good

\* The end of a loop.
LEMMA GoodEnd ==
  ASSUME NEW d, NEW k, NEW c, Good(d, k, c), NEW e \in Dictionaries, PeepIn(e), Leads(d, e, {}),
         NEW n \in 0..Len(k), DropsSettled(k, n, e),
         NEW m \in n+1..Len(k), IsLoop(k[m]), \A i \in n+1..Len(k) : i # m => ~IsLoop(k[i]),
         Len(c.stack) > c.count,
         \A i \in Len(c.stack) - c.count + 1..Len(c.stack) :
           c.stack[i].addr \in DOMAIN e.code => SettledIn(e.code[c.stack[i].addr], e),
         NEW k2, k2 = SubSeq(k, 1, n), NEW c2, c2 = EndLoop(c)
  PROVE  Good(e, k2, c2)
<1>1. ControlGood(k2) /\ Cut(k2, k, n)
  BY GoodParts, ControlCut
<1>2. Cardinality(LoopsIn(k)) = Cardinality(LoopsIn(k2)) + 1 /\ Cardinality(LoopsIn(k2)) \in Nat
  <2>1. Len(k2) \in Nat
    BY <1>1 DEF ControlGood
  <2>2. QED BY <1>1, <2>1, GoodParts, LoopsCutOne, LoopsFinite
<1>3. PICK l : l = Len(c.stack) - c.count
  OBVIOUS
<1>4. PICK s \in Seq(Continuations) : s = c.stack
  BY GoodParts
<1>5. PICK t : t = c2.stack
  OBVIOUS
<1>6. /\ ContGood(c2) /\ l \in SavedAt(s) /\ c2.dest = s[l].addr
      /\ Len(t) = l - 1 /\ \A i \in 1..l-1 : t[i] = s[i]
      /\ Cardinality(SavedAt(s)) = Cardinality(SavedAt(t)) + 1
  BY <1>3, <1>4, <1>5, GoodParts, EndLoopGood
<1>7. l \in 1..Len(s) /\ s[l].kind = "saved"
  BY <1>6 DEF SavedAt
<1>8. Cardinality(SavedAt(t)) = Cardinality(LoopsIn(k2))
  <2>1. t \in Seq(Continuations)
    BY <1>5, <1>6, ContFields DEF ContGood
  <2>2. Cardinality(SavedAt(t)) \in Nat
    BY <2>1, SavedFinite
  <2>3. Cardinality(SavedAt(s)) = Cardinality(LoopsIn(k))
    BY <1>4 DEF Good
  <2>4. QED BY <1>2, <1>6, <2>2, <2>3
<1>9. EntriesIn(e, k2)
  <2>1. EntriesIn(e, k)
    BY GoodParts, EntriesKept
  <2>2. QED BY <1>1, <2>1, GoodParts, EntriesCut
<1>10. ContIn(e, c2)
  <2>1. ContIn(e, c)
    BY GoodParts, ContKept
  <2>2. \A i \in 1..Len(s) : s[i].kind = "saved" => DestIn(e, s[i].addr)
    BY <1>4, <2>1 DEF ContIn
  <2>3. DestIn(e, c2.dest)
    BY <1>6, <1>7, <2>2
  <2>4. \A i \in 1..Len(t) : t[i].kind = "saved" => DestIn(e, t[i].addr)
    <3>1. TAKE i \in 1..Len(t)
    <3>2. i \in 1..Len(s) /\ t[i] = s[i]
      BY <1>6, <1>7
    <3>3. QED BY <2>2, <3>2
  <2>5. QED BY <1>5, <2>3, <2>4 DEF ContIn
<1>11. CodeIn(e, k2, t)
  <2>1. \A a \in DOMAIN e.code : Owed(a, k, s) => Owed(a, k2, s) \/ SettledIn(e.code[a], e)
    BY <1>1, GoodParts, OwedCut
  <2>2. ASSUME NEW a \in DOMAIN e.code, NEW i \in 1..Len(s), OwedTo(a, s[i])
        PROVE  Owed(a, k2, t) \/ SettledIn(e.code[a], e)
    <3>1. s[i].addr = a /\ s[i].kind # "saved"
      BY <2>2 DEF OwedTo
    <3>2. CASE i \in 1..l-1
      BY <1>6, <2>2, <3>2 DEF Owed
    <3>3. CASE i = l
      BY <1>7, <3>1, <3>3
    <3>4. CASE i \in l+1..Len(s)
      BY <1>3, <1>4, <3>1, <3>4
    <3>5. QED BY <1>7, <3>2, <3>3, <3>4
  <2>3. ASSUME NEW a \in DOMAIN e.code, Owed(a, k2, s)
        PROVE  Owed(a, k2, t) \/ SettledIn(e.code[a], e)
    <3>1. CASE \E i \in 1..Len(k2) : OwedBy(a, k2[i])
      BY <3>1 DEF Owed
    <3>2. QED BY <2>2, <2>3, <3>1 DEF Owed
  <2>4. \A a \in DOMAIN e.code : Owed(a, k, s) => Owed(a, k2, t) \/ SettledIn(e.code[a], e)
    BY <2>1, <2>3
  <2>5. QED BY <1>4, <2>4, GoodParts, CodeKept
<1>12. QED BY <1>1, <1>5, <1>6, <1>8, <1>9, <1>10, <1>11 DEF Good

(* ------------------- fixing, and then compiling on -------------------- *)

PatchedCode(s, fixes) ==
  [a \in DOMAIN s |-> IF \E x \in fixes : x.at = a THEN (CHOOSE x \in fixes : x.at = a).cell ELSE s[a]]
CellsIn(fixes, n) == \A x \in fixes : x.at \in 1..n /\ x.cell \in Opcodes

LEMMA PatchedCodeType ==
  ASSUME NEW n \in Nat, NEW s \in Seq(Opcodes), Len(s) = n, NEW fixes, CellsIn(fixes, n),
         NEW t, t = PatchedCode(s, fixes)
  PROVE  /\ t \in Seq(Opcodes) /\ Len(t) = n
         /\ \A a \in 1..n : \/ \E x \in fixes : x.at = a
                            \/ t[a] = s[a]
<1>1. DOMAIN s = 1..n
  OBVIOUS
<1>2. t = [a \in 1..n |-> IF \E x \in fixes : x.at = a
                          THEN (CHOOSE x \in fixes : x.at = a).cell ELSE s[a]]
  BY <1>1 DEF PatchedCode
<1>3. ASSUME NEW a \in 1..n
      PROVE  t[a] \in Opcodes /\ (t[a] = s[a] \/ \E x \in fixes : x.at = a)
  <2>1. CASE \E x \in fixes : x.at = a
    <3>1. PICK y : y = CHOOSE x \in fixes : x.at = a
      OBVIOUS
    <3>2. y \in fixes
      BY <2>1, <3>1
    <3>3. t[a] = y.cell
      BY <1>2, <2>1, <3>1
    <3>4. QED BY <2>1, <3>2, <3>3 DEF CellsIn
  <2>2. CASE ~\E x \in fixes : x.at = a
    <3>1. t[a] = s[a]
      BY <1>2, <2>2
    <3>2. s[a] \in Opcodes
      OBVIOUS
    <3>3. QED BY <3>1, <3>2
  <2>3. QED BY <2>1, <2>2
<1>4. t \in [1..n -> Opcodes]
  BY <1>2, <1>3
<1>5. t \in Seq(Opcodes) /\ Len(t) = n
  BY <1>4
<1>6. QED BY <1>3, <1>5

LEMMA PatchIs ==
  ASSUME NEW d \in Dictionaries, NEW fixes
  PROVE  Patch(d, fixes) = [code |-> PatchedCode(d.code, fixes), peep |-> d.peep]
<1>1. PICK s : s = PatchedCode(d.code, fixes)
  OBVIOUS
<1>2. Patch(d, fixes) = [d EXCEPT !.code = s]
  BY <1>1 DEF Patch, PatchedCode
<1>3. d = [code |-> d.code, peep |-> d.peep]
  BY DictionaryTypes
<1>4. [d EXCEPT !.code = s] = [code |-> s, peep |-> d.peep]
  BY <1>3
<1>5. QED BY <1>1, <1>2, <1>4

LEMMA PatchedAppend ==
  ASSUME NEW n \in Nat, NEW s \in Seq(Opcodes), Len(s) = n, NEW fixes, CellsIn(fixes, n),
         NEW c \in Opcodes
  PROVE  PatchedCode(Append(s, c), fixes) = Append(PatchedCode(s, fixes), c)
<1>1. PICK s2 : s2 = Append(s, c)
  OBVIOUS
<1>2. s2 \in Seq(Opcodes) /\ Len(s2) = n + 1 /\ s2[n + 1] = c /\ \A a \in 1..n : s2[a] = s[a]
  BY <1>1
<1>3. PICK t : t = PatchedCode(s, fixes)
  OBVIOUS
<1>4. t \in Seq(Opcodes) /\ Len(t) = n
  BY <1>3, PatchedCodeType
<1>5. PICK t2 : t2 = Append(t, c)
  OBVIOUS
<1>6. t2 \in Seq(Opcodes) /\ Len(t2) = n + 1 /\ t2[n + 1] = c /\ \A a \in 1..n : t2[a] = t[a]
  BY <1>4, <1>5
<1>7. PICK r : r = PatchedCode(s2, fixes)
  OBVIOUS
<1>8. CellsIn(fixes, n + 1)
  BY DEF CellsIn
<1>9. r \in Seq(Opcodes) /\ Len(r) = n + 1
  BY <1>2, <1>7, <1>8, PatchedCodeType
<1>10. ASSUME NEW a \in 1..n + 1 PROVE r[a] = t2[a]
  <2>1. r[a] = IF \E x \in fixes : x.at = a THEN (CHOOSE x \in fixes : x.at = a).cell ELSE s2[a]
    BY <1>2, <1>7 DEF PatchedCode
  <2>2. CASE a \in 1..n
    <3>1. t[a] = IF \E x \in fixes : x.at = a THEN (CHOOSE x \in fixes : x.at = a).cell ELSE s[a]
      BY <1>3, <2>2 DEF PatchedCode
    <3>2. s2[a] = s[a] /\ t2[a] = t[a]
      BY <1>2, <1>6, <2>2
    <3>3. QED BY <2>1, <3>1, <3>2
  <2>3. CASE a = n + 1
    <3>1. ~\E x \in fixes : x.at = a
      BY <2>3 DEF CellsIn
    <3>2. QED BY <1>2, <1>6, <2>1, <2>3, <3>1
  <2>4. QED BY <2>2, <2>3
<1>11. r = t2
  BY <1>6, <1>9, <1>10
<1>12. QED BY <1>1, <1>3, <1>5, <1>7, <1>11

\* What is fixed before a dummy is compiled might as well be fixed after it.
LEMMA PatchDummy ==
  ASSUME NEW d \in Dictionaries, NEW fixes, CellsIn(fixes, Len(d.code))
  PROVE  CompileDummy(Patch(d, fixes)) = ClearPeephole(Patch(CompileDummy(d), fixes))
<1>1. PICK n \in Nat, s \in Seq(Opcodes), p \in Seq(Nat) : n = Len(s) /\ d = [code |-> s, peep |-> p]
  BY DictionaryTypes
<1>2. s = d.code /\ p = d.peep
  BY <1>1
<1>3. PICK t : t = PatchedCode(s, fixes)
  OBVIOUS
<1>4. t \in Seq(Opcodes) /\ Len(t) = n
  BY <1>1, <1>2, <1>3, PatchedCodeType
<1>5. PICK f : f = Patch(d, fixes)
  OBVIOUS
<1>6. f = [code |-> t, peep |-> p]
  BY <1>2, <1>3, <1>5, PatchIs
<1>7. f \in Dictionaries /\ f.code = t
  BY <1>4, <1>6 DEF Dictionaries
<1>8. CompileDummy(f) = [code |-> Append(t, Abort), peep |-> <<>>]
  BY <1>7, DummyShape
<1>9. PICK e \in Dictionaries : e = CompileDummy(d)
  BY DummyShape
<1>10. e = [code |-> Append(s, Abort), peep |-> <<>>]
  BY <1>2, <1>9, DummyShape
<1>11. PICK u : u = Append(s, Abort)
  OBVIOUS
<1>12. e.code = u /\ e.peep = <<>>
  BY <1>10, <1>11
<1>13. PICK v : v = PatchedCode(u, fixes)
  OBVIOUS
<1>14. v = Append(t, Abort)
  BY <1>1, <1>2, <1>3, <1>11, <1>13, PatchedAppend, AbortType
<1>15. Patch(e, fixes) = [code |-> v, peep |-> <<>>]
  BY <1>12, <1>13, PatchIs
<1>16. ClearPeephole(Patch(e, fixes)) = [code |-> v, peep |-> <<>>]
  BY <1>15 DEF ClearPeephole
<1>17. QED BY <1>5, <1>8, <1>9, <1>14, <1>16

\* ... and before a branch.
LEMMA PatchJump ==
  ASSUME NEW d \in Dictionaries, NEW fixes, CellsIn(fixes, Len(d.code)), NEW to \in Nat
  PROVE  CompileOpcode(Patch(d, fixes), Branch("branch", to)) = Patch(CompileOpcode(d, Branch("branch", to)), fixes)
<1>1. PICK n \in Nat, s \in Seq(Opcodes), p \in Seq(Nat) : n = Len(s) /\ d = [code |-> s, peep |-> p]
  BY DictionaryTypes
<1>2. s = d.code /\ p = d.peep
  BY <1>1
<1>3. PICK t : t = PatchedCode(s, fixes)
  OBVIOUS
<1>4. t \in Seq(Opcodes) /\ Len(t) = n
  BY <1>1, <1>2, <1>3, PatchedCodeType
<1>5. PICK f : f = Patch(d, fixes)
  OBVIOUS
<1>6. f = [code |-> t, peep |-> p]
  BY <1>2, <1>3, <1>5, PatchIs
<1>7. f \in Dictionaries /\ f.code = t /\ f.peep = p /\ DP(f) = n + 1 /\ DP(d) = n + 1
  BY <1>1, <1>2, <1>4, <1>6 DEF Dictionaries, DP
<1>8. PICK c \in Opcodes : c = Branch("branch", to) /\ c.type = "branch"
  BY BranchType DEF Branching
<1>9. PICK q : q = Append(p, n + 1)
  OBVIOUS
<1>10. q \in Seq(Nat)
  BY <1>9
<1>11. CompileOpcode(f, c) = [code |-> Append(t, c), peep |-> q]
  BY <1>7, <1>8, <1>9, CompileJump
<1>12. PICK u : u = Append(s, c)
  OBVIOUS
<1>13. CompileOpcode(d, c) = [code |-> u, peep |-> q]
  BY <1>2, <1>7, <1>8, <1>9, <1>12, CompileJump
<1>14. PICK e : e = CompileOpcode(d, c)
  OBVIOUS
<1>15. u \in Seq(Opcodes) /\ e \in Dictionaries /\ e.code = u /\ e.peep = q
  <2>1. u \in Seq(Opcodes)
    BY <1>12
  <2>2. e = [code |-> u, peep |-> q]
    BY <1>13, <1>14
  <2>3. QED BY <1>10, <2>1, <2>2 DEF Dictionaries
<1>16. PatchedCode(u, fixes) = Append(t, c)
  BY <1>1, <1>2, <1>3, <1>12, PatchedAppend
<1>17. Patch(e, fixes) = [code |-> Append(t, c), peep |-> q]
  BY <1>15, <1>16, PatchIs
<1>18. QED BY <1>5, <1>8, <1>11, <1>14, <1>17

\* A test that is still open, or is no longer, is fixed to lead to a label.
LEMMA PatchedOK ==
  ASSUME NEW d \in Dictionaries, NEW e \in Dictionaries, NEW U, Leads(d, e, U),
         NEW c \in Opcodes, c.type \in Conditional \/ (SettledIn(c, d) /\ c.type # "data"),
         NEW type \in {"branchZ", "branchNZ"},
         NEW to \in Nat, LabelIn(to, ClearPeephole(e)),
         NEW x, x = Patched(c, type, to)
  PROVE  x \in Opcodes /\ x.type # "data" /\ SettledIn(x, ClearPeephole(e))
<1>1. PICK g \in Dictionaries : g = ClearPeephole(e)
  BY ClearShape
<1>2. CASE c.type \in {"branchZ", "branchNZ"}
  <2>1. x = Branch(type, to)
    BY <1>2 DEF Patched
  <2>2. x \in Opcodes /\ x.type = type /\ x.to = to
    BY <2>1, BranchType DEF Branching, Conditional
  <2>3. QED BY <2>2 DEF SettledIn, Target
<1>3. CASE c.type \in {"opZ", "opNZ"}
  <2>1. PICK y : y = IF type = "branchZ" THEN "opZ" ELSE "opNZ"
    OBVIOUS
  <2>2. x = [c EXCEPT !.type = y, !.to = to]
    BY <1>3, <2>1 DEF Patched
  <2>2a. c = [type |-> c.type, ops |-> c.ops, to |-> c.to] /\ c.ops \in Seq(Doable)
    BY DEF Opcodes
  <2>2b. PICK old, ops, there : old = c.type /\ ops = c.ops /\ there = c.to
    OBVIOUS
  <2>3. c = [type |-> old, ops |-> ops, to |-> there] /\ ops \in Seq(Doable)
    BY <2>2a, <2>2b
  <2>4. x = [type |-> y, ops |-> ops, to |-> to]
    BY <2>2, <2>3
  <2>5. x \in Opcodes /\ x.type \in {"opZ", "opNZ"} /\ x.to = to
    BY <2>1, <2>3, <2>4 DEF Opcodes, OpcodeTypes, Branching, Conditional
  <2>6. QED BY <2>5 DEF SettledIn, Target
<1>4. CASE c.type \notin Conditional
  <2>1. x = c
    BY <1>4 DEF Patched, Conditional
  <2>2. SettledIn(c, d) /\ c.type # "data"
    BY <1>4
  <2>3. c.to \in Nat
    BY OpcodeFields
  <2>4. SettledIn(c, e)
    BY <2>2, <2>3, SettledKept DEF Leads
  <2>5. SettledIn(c, g)
    BY <1>1, <2>3, <2>4, ClearLeads, SettledKept DEF Leads
  <2>6. QED BY <1>1, <2>1, <2>2, <2>5
<1>5. QED BY <1>2, <1>3, <1>4 DEF Conditional

(* -------------------------- the control words ------------------------- *)

LEMMA PeekIs ==
  ASSUME NEW n \in Nat, ctl \in Seq(Entries), Peek(n).tag # "nothing"
  PROVE  Len(ctl) > n /\ Len(ctl) - n \in 1..Len(ctl) /\ Peek(n) = ctl[Len(ctl) - n] /\ Peek(n) \in Entries
  BY DEF Peek, Entry

LEMMA PlainWordGood ==
  ASSUME Good(dict, ctl, cont), NEW w, PlainWord(w)
  PROVE  Good(dict', ctl', cont')
<1>1. dict \in Dictionaries /\ PeepIn(dict)
  BY GoodParts
<1>2. PICK d \in Dictionaries : d = IF w \in Literals THEN ClearPeephole(dict) ELSE dict
  BY <1>1, ClearShape
<1>3. PeepIn(d) /\ Leads(dict, d, {})
  <2>1. CASE w \in Literals
    BY <1>1, <1>2, <2>1, ClearShape, ClearLeads
  <2>2. CASE w \notin Literals
    <3>1. d = dict
      BY <1>2, <2>2
    <3>2. QED BY <1>1, <3>1 DEF Leads, KeepsLabels, KeepsBelow, AddsSettled
  <2>3. QED BY <2>1, <2>2
<1>4. PICK c \in Opcodes : c = Compiled(w) /\ c.type \in SimpleTypes
  <2>1. w \in Doable
    BY DEF Doable, PlainWord
  <2>2. QED BY <2>1, CompiledType
<1>5. dict' = CompileOpcode(d, c) /\ ctl' = ctl /\ cont' = cont
  BY <1>2, <1>4 DEF PlainWord, CompileWord
<1>6. dict' \in Dictionaries /\ PeepIn(dict') /\ Leads(d, dict', {})
  BY <1>3, <1>4, <1>5, CompileSimple
<1>7. Leads(dict, dict', {})
  <2>1. Leads(dict, dict', {} \cup {})
    BY <1>1, <1>3, <1>6, LeadsOn
  <2>2. QED BY <2>1
<1>8. QED BY <1>1, <1>5, <1>6, <1>7, GoodSame

\* A test whose branch is left open, behind which the peephole is cleared.
LEMMA OpenTestLeads ==
  ASSUME NEW d \in Dictionaries, PeepIn(d), NEW f, f = CompileOpcode(d, Branch("branchZ", 0)),
         NEW e, e = ClearPeephole(f)
  PROVE  /\ Leads(d, e, {DP(f) - 1}) /\ e \in Dictionaries /\ e.peep = <<>> /\ PeepIn(e)
         /\ DP(f) - 1 \in DOMAIN e.code /\ e.code[DP(f) - 1].type \in {"branchZ", "opZ"}
         /\ DP(e) = DP(f) /\ DP(f) \in Nat
<1>1. f \in Dictionaries /\ OpenTest(f) /\ Leads(d, f, {DP(f) - 1})
  BY CompileTest
<1>2. e \in Dictionaries /\ e.peep = <<>> /\ e.code = f.code /\ PeepIn(e) /\ DP(e) = DP(f) /\ Leads(f, e, {})
  BY <1>1, ClearShape, ClearLeads
<1>3. Leads(d, e, {DP(f) - 1} \cup {})
  BY <1>1, <1>2, LeadsOn
<1>4. {DP(f) - 1} \cup {} = {DP(f) - 1}
  OBVIOUS
<1>5. Leads(d, e, {DP(f) - 1})
  BY <1>3, <1>4
<1>6. QED BY <1>1, <1>2, <1>5, DictionaryTypes DEF OpenTest

LEMMA OpenEntry ==
  ASSUME NEW e \in Dictionaries, e.peep = <<>>, NEW a \in DOMAIN e.code, a = DP(e) - 1,
         e.code[a].type \in {"branchZ", "opZ"}, NEW tag \in Chained,
         NEW x, x = Entry(tag, a, 0)
  PROVE  /\ x \in Entries /\ EntryGood(x) /\ x.tag = tag /\ ~IsLoop(x) /\ EntryIn(x, e)
         /\ x.tag # "colon" /\ OwedBy(a, x)
<1>1. a \in Nat /\ DP(e) \in Nat
  BY CodeTypes, DictionaryTypes
<1>2. x \in Entries /\ x.tag = tag /\ x.addr = a /\ x.op = 0
  BY <1>1, EntryTyped DEF Tags
<1>3. x.tag \in {"if", "while", "elif", "andif", "orif"}
  BY <1>2 DEF Chained, ChainTags
<1>4. EntryGood(x) /\ ~IsLoop(x) /\ x.tag # "colon" /\ OwedBy(a, x)
  BY <1>2, <1>3 DEF EntryGood, IsLoop, OwedBy
<1>5. a + 1 = DP(e)
  BY <1>1
<1>6. ChainEntryIn(x, e)
  BY <1>2, <1>5 DEF ChainEntryIn, LabelIn, Below, Conditional
<1>7. EntryIn(x, e)
  BY <1>3, <1>6 DEF EntryIn, OfTags
<1>8. QED BY <1>2, <1>4, <1>7

LEMMA TestGood ==
  ASSUME Good(dict, ctl, cont), NEW w, Test(w)
  PROVE  Good(dict', ctl', cont') /\ dict'.peep = <<>>
<1>1. dict \in Dictionaries /\ PeepIn(dict)
  BY GoodParts
<1>2. CASE w = "ahead"
  <2>1. PICK c : c = Branch("branch", 0)
    OBVIOUS
  <2>2. PICK d : d = CompileOpcode(dict, c)
    OBVIOUS
  <2>3. /\ Leads(dict, d, {DP(dict)}) /\ d \in Dictionaries /\ DP(d) = DP(dict) + 1 /\ DP(dict) \in Nat
    BY <1>1, <2>1, <2>2, JumpOpen, DictionaryTypes
  <2>4. dict' = ClearPeephole(d) /\ ctl' = Append(ctl, Entry("ahead", DP(d) - 1, 0)) /\ cont' = cont
    BY <1>2, <2>1, <2>2 DEF Test
  <2>5. dict' \in Dictionaries /\ dict'.peep = <<>> /\ PeepIn(dict') /\ Leads(d, dict', {})
    BY <2>3, <2>4, ClearShape, ClearLeads
  <2>6. Leads(dict, dict', {DP(dict)} \cup {})
    BY <1>1, <2>3, <2>5, LeadsOn
  <2>7. DP(d) - 1 = DP(dict) /\ {DP(dict)} \cup {} = {DP(dict)}
    BY <2>3
  <2>8. PICK x : x = Entry("ahead", DP(dict), 0)
    OBVIOUS
  <2>9. x \in Entries /\ x.tag = "ahead" /\ x.addr = DP(dict)
    <3>1. "ahead" \in Tags /\ DP(dict) \in Nat /\ 0 \in Nat \cup Doable
      BY <2>3 DEF Tags
    <3>2. QED BY <2>8, <3>1, EntryTyped
  <2>10. EntryGood(x) /\ ~IsLoop(x) /\ EntryIn(x, dict') /\ x.tag # "colon" /\ OwedBy(DP(dict), x)
    BY <2>9 DEF EntryGood, IsLoop, EntryIn, OwedBy, Chained, ChainTags, OfTags
  <2>11. PICK U : U = {DP(dict)}
    OBVIOUS
  <2>11a. \A a \in U : OwedBy(a, x)
    BY <2>10, <2>11
  <2>12. Leads(dict, dict', U)
    BY <2>6, <2>7, <2>11
  <2>13. ctl' = Append(ctl, x)
    BY <2>4, <2>7, <2>8
  <2>14. Good(dict', ctl', cont)
    BY <2>5, <2>9, <2>10, <2>11a, <2>12, <2>13, GoodPush
  <2>15. QED BY <2>4, <2>5, <2>14
<1>3. CASE w \in Tests
  <2>1. PICK d : d = CompileOpcode(dict, Branch("branchZ", 0))
    OBVIOUS
  <2>2. w # "ahead" /\ w \in Chained
    BY <1>3 DEF Tests, Chained, ChainTags
  <2>3. dict' = ClearPeephole(d) /\ ctl' = Append(ctl, Entry(w, DP(d) - 1, 0)) /\ cont' = cont
    BY <2>1, <2>2 DEF Test
  <2>4. PICK e : e = dict'
    OBVIOUS
  <2>5. PICK a : a = DP(d) - 1
    OBVIOUS
  <2>6. /\ Leads(dict, e, {a}) /\ e \in Dictionaries /\ e.peep = <<>> /\ PeepIn(e)
        /\ a \in DOMAIN e.code /\ e.code[a].type \in {"branchZ", "opZ"} /\ a = DP(e) - 1
    BY <1>1, <2>1, <2>3, <2>4, <2>5, OpenTestLeads
  <2>7. PICK x : x = Entry(w, a, 0)
    OBVIOUS
  <2>8. /\ x \in Entries /\ EntryGood(x) /\ ~IsLoop(x) /\ EntryIn(x, e)
        /\ x.tag # "colon" /\ OwedBy(a, x)
    BY <2>2, <2>6, <2>7, OpenEntry
  <2>9. Good(e, ctl', cont)
    <3>1. PICK U : U = {a}
      OBVIOUS
    <3>2. Leads(dict, e, U) /\ \A b \in U : OwedBy(b, x)
      BY <2>6, <2>8, <3>1
    <3>3. ctl' = Append(ctl, x)
      BY <2>3, <2>5, <2>7
    <3>4. QED BY <2>6, <2>8, <3>2, <3>3, GoodPush
  <2>10. QED BY <2>3, <2>4, <2>6, <2>9
<1>4. QED BY <1>2, <1>3 DEF Test

LEMMA GoodPushOne ==
  ASSUME NEW d, NEW k, NEW c, Good(d, k, c), NEW e \in Dictionaries, PeepIn(e),
         NEW b, Leads(d, e, {b}),
         NEW x \in Entries, EntryGood(x), x.tag # "colon", ~IsLoop(x), EntryIn(x, e), OwedBy(b, x),
         NEW k2, k2 = Append(k, x)
  PROVE  Good(e, k2, c)
<1>1. PICK U : U = {b}
  OBVIOUS
<1>2. Leads(d, e, U) /\ \A a \in U : OwedBy(a, x)
  BY <1>1
<1>3. QED BY <1>2, GoodPush

LEMMA EmptyPeep ==
  ASSUME NEW e, e.peep = <<>>
  PROVE  PeepIn(e)
  BY DEF PeepIn

LEMMA BeginGood ==
  ASSUME Good(dict, ctl, cont), NEW w, Begin(w)
  PROVE  Good(dict', ctl', cont') /\ dict'.peep = <<>>
<1>1. dict \in Dictionaries /\ DP(dict) \in Nat
  BY GoodParts, DictionaryTypes
<1>2. PICK e : e = dict'
  OBVIOUS
<1>3. e \in Dictionaries /\ e.peep = <<>> /\ DP(e) = DP(dict) /\ PeepIn(e) /\ Leads(dict, e, {})
  BY <1>1, <1>2, ClearShape, ClearLeads DEF Begin
<1>4. PICK x : x = Entry("begin", DP(dict), 0)
  OBVIOUS
<1>5. x \in Entries /\ x.tag = "begin" /\ x.addr = DP(dict)
  <2>1. "begin" \in Tags /\ 0 \in Nat \cup Doable
    BY DEF Tags
  <2>2. QED BY <1>1, <1>4, <2>1, EntryTyped
<1>6. LabelIn(x.addr, e)
  BY <1>3, <1>5 DEF LabelIn
<1>7. EntryGood(x) /\ x.tag # "colon" /\ IsLoop(x) /\ EntryIn(x, e)
  BY <1>5, <1>6 DEF EntryGood, IsLoop, EntryIn, Chained, ChainTags, OfTags
<1>8. ctl' = Append(ctl, x) /\ cont' = StartLoop(cont)
  BY <1>4 DEF Begin
<1>9. Good(e, ctl', cont')
  <2>1. PICK U : U = {}
    OBVIOUS
  <2>2. Leads(dict, e, U) /\ \A a \in U : OwedBy(a, x)
    BY <1>3, <2>1
  <2>3. QED BY <1>3, <1>5, <1>7, <1>8, <2>2, GoodStart
<1>10. QED BY <1>2, <1>3, <1>9

LEMMA CaseGood ==
  ASSUME Good(dict, ctl, cont), NEW w, Case(w)
  PROVE  Good(dict', ctl', cont') /\ dict'.peep = <<>>
<1>1. dict \in Dictionaries
  BY GoodParts
<1>2. PICK e : e = dict'
  OBVIOUS
<1>3. e \in Dictionaries /\ e.peep = <<>> /\ PeepIn(e) /\ Leads(dict, e, {})
  BY <1>1, <1>2, ClearShape, ClearLeads DEF Case
<1>4. PICK x : x = Entry("case", 0, 0)
  OBVIOUS
<1>5. x \in Entries /\ x.tag = "case" /\ x.addr = 0
  <2>1. "case" \in Tags /\ 0 \in Nat \cup Doable /\ 0 \in Nat
    BY DEF Tags
  <2>2. QED BY <1>4, <2>1, EntryTyped
<1>7. EntryGood(x) /\ x.tag # "colon" /\ IsLoop(x) /\ EntryIn(x, e)
  BY <1>5 DEF EntryGood, IsLoop, EntryIn, Chained, ChainTags, OfTags
<1>8. ctl' = Append(ctl, x) /\ cont' = StartLoop(cont)
  BY <1>4 DEF Case
<1>9. Good(e, ctl', cont')
  <2>1. PICK U : U = {}
    OBVIOUS
  <2>2. Leads(dict, e, U) /\ \A a \in U : OwedBy(a, x)
    BY <1>3, <2>1
  <2>3. QED BY <1>3, <1>5, <1>7, <1>8, <2>2, GoodStart
<1>10. QED BY <1>2, <1>3, <1>9

LEMMA DoGood ==
  ASSUME Good(dict, ctl, cont), NEW w, Do(w)
  PROVE  Good(dict', ctl', cont') /\ dict'.peep = <<>>
<1>1. dict \in Dictionaries /\ DP(dict) \in Nat
  BY GoodParts, DictionaryTypes
<1>2. PICK f : f = CompileDummy(dict)
  OBVIOUS
<1>3. PICK e : e = [f EXCEPT !.code = Append(@, Data)]
  OBVIOUS
<1>4. dict' = e
  BY <1>2, <1>3 DEF Do
<1>5. Leads(dict, e, {DP(dict)}) /\ e \in Dictionaries /\ e.peep = <<>> /\ PeepIn(e)
  BY <1>1, <1>2, <1>3, DoLeads, EmptyPeep
<1>6. PICK x : x = Entry("do", DP(dict), w)
  OBVIOUS
<1>7. x \in Entries /\ x.tag = "do" /\ x.addr = DP(dict) /\ x.op \in Doable
  <2>1. "do" \in Tags /\ w \in Doable /\ w \in Nat \cup Doable
    BY DEF Tags, Do, Doable
  <2>2. QED BY <1>1, <1>6, <2>1, EntryTyped
<1>8. EntryGood(x) /\ x.tag # "colon" /\ IsLoop(x) /\ EntryIn(x, e) /\ OwedBy(DP(dict), x)
  BY <1>7 DEF EntryGood, IsLoop, EntryIn, OwedBy, Chained, ChainTags, OfTags
<1>9. ctl' = Append(ctl, x) /\ cont' = StartLoop(cont)
  BY <1>6 DEF Do
<1>10. Good(e, ctl', cont')
  <2>1. PICK U : U = {DP(dict)}
    OBVIOUS
  <2>2. Leads(dict, e, U) /\ \A a \in U : OwedBy(a, x)
    BY <1>5, <1>8, <2>1
  <2>3. QED BY <1>5, <1>7, <1>8, <1>9, <2>2, GoodStart
<1>11. QED BY <1>4, <1>5, <1>10

LEMMA OfGood ==
  ASSUME Good(dict, ctl, cont), NEW w, Of(w)
  PROVE  Good(dict', ctl', cont') /\ dict'.peep = <<>>
<1>1. dict \in Dictionaries /\ PeepIn(dict)
  BY GoodParts
<1>2. PICK f : f = IF LastConstant(dict) THEN UncompileLast(dict) ELSE dict
  OBVIOUS
<1>3. PICK e : e = CompileDummy(f)
  OBVIOUS
<1>4. PICK x : x = IF LastConstant(dict) THEN Entry("ofEx", DP(f), Previous(dict).ops[1])
                                         ELSE Entry("of", DP(f), 0)
  OBVIOUS
<1>5. dict' = e /\ ctl' = Append(ctl, x) /\ cont' = cont
  BY <1>2, <1>3, <1>4 DEF Of
<1>6. /\ Leads(dict, e, {DP(f)}) /\ e \in Dictionaries /\ e.peep = <<>> /\ DP(e) = DP(f) + 1
      /\ f \in Dictionaries
  <2>1. CASE LastConstant(dict)
    <3>1. dict.peep # <<>> /\ f = UncompileLast(dict)
      BY <1>2, <2>1 DEF LastConstant
    <3>2. QED BY <1>1, <1>3, <3>1, UncompileLeads
  <2>2. CASE ~LastConstant(dict)
    <3>1. f = dict
      BY <1>2, <2>2
    <3>2. QED BY <1>1, <1>3, <3>1, DummyLeads
  <2>3. QED BY <2>1, <2>2
<1>7. DP(f) \in Nat
  BY <1>6, DictionaryTypes
<1>8. x \in Entries /\ x.addr = DP(f) /\ (x.tag = "of" \/ (x.tag = "ofEx" /\ x.op \in Doable))
  <2>0. "of" \in Tags /\ "ofEx" \in Tags /\ 0 \in Nat \cup Doable
    BY DEF Tags, OfTags
  <2>1. CASE LastConstant(dict)
    <3>1. PICK op \in Doable : op = Previous(dict).ops[1] /\ op \in Nat \cup Doable
      BY <2>1 DEF LastConstant, Doable, Plain, Literals
    <3>2. x = Entry("ofEx", DP(f), op)
      BY <1>4, <2>1, <3>1
    <3>3. QED BY <1>7, <2>0, <3>1, <3>2, EntryTyped
  <2>2. CASE ~LastConstant(dict)
    <3>1. x = Entry("of", DP(f), 0)
      BY <1>4, <2>2
    <3>2. QED BY <1>7, <2>0, <3>1, EntryTyped
  <2>3. QED BY <2>1, <2>2
<1>9. LabelIn(x.addr + 1, e)
  BY <1>6, <1>8 DEF LabelIn
<1>10. EntryGood(x) /\ x.tag # "colon" /\ ~IsLoop(x) /\ EntryIn(x, e) /\ OwedBy(DP(f), x)
  BY <1>8, <1>9 DEF EntryGood, IsLoop, EntryIn, OwedBy, Chained, ChainTags, OfTags
<1>11. PeepIn(e)
  BY <1>6, EmptyPeep
<1>12. Good(e, ctl', cont)
  BY <1>5, <1>6, <1>8, <1>10, <1>11, GoodPushOne
<1>13. QED BY <1>5, <1>6, <1>12

LEMMA OfIfGood ==
  ASSUME Good(dict, ctl, cont), NEW w, OfIf(w)
  PROVE  Good(dict', ctl', cont') /\ dict'.peep = <<>>
<1>1. dict \in Dictionaries /\ PeepIn(dict) /\ DP(dict) \in Nat
  BY GoodParts, DictionaryTypes
<1>2. PICK f : f = CompileDummy(dict)
  OBVIOUS
<1>3. /\ Leads(dict, f, {DP(dict)}) /\ f \in Dictionaries /\ f.peep = <<>> /\ DP(f) = DP(dict) + 1
      /\ PeepIn(f)
  BY <1>1, <1>2, DummyLeads, EmptyPeep
<1>4. PICK c \in Opcodes : c = Compiled("drop") /\ c.type \in SimpleTypes
  <2>1. "drop" \in Doable
    BY DEF Doable
  <2>2. QED BY <2>1, CompiledType
<1>5. PICK g : g = CompileOpcode(f, c)
  OBVIOUS
<1>6. g \in Dictionaries /\ Leads(f, g, {})
  BY <1>3, <1>4, <1>5, CompileSimple
<1>7. PICK e : e = ClearPeephole(g)
  OBVIOUS
<1>8. e \in Dictionaries /\ e.peep = <<>> /\ PeepIn(e) /\ Leads(g, e, {})
  BY <1>6, <1>7, ClearShape, ClearLeads
<1>9. Leads(f, e, {})
  <2>1. Leads(f, e, {} \cup {})
    BY <1>3, <1>6, <1>8, LeadsOn
  <2>2. QED BY <2>1
<1>10. Leads(dict, e, {DP(dict)})
  <2>1. Leads(dict, e, {DP(dict)} \cup {})
    BY <1>1, <1>3, <1>8, <1>9, LeadsOn
  <2>2. {DP(dict)} \cup {} = {DP(dict)}
    OBVIOUS
  <2>3. QED BY <2>1, <2>2
<1>11. LabelIn(DP(dict) + 1, e)
  <2>1. LabelIn(DP(dict) + 1, f)
    BY <1>3 DEF LabelIn
  <2>2. QED BY <1>1, <1>9, <2>1 DEF Leads, KeepsLabels
<1>12. PICK x : x = Entry("ofif", DP(dict), 0)
  OBVIOUS
<1>13. x \in Entries /\ x.tag = "ofif" /\ x.addr = DP(dict)
  <2>1. "ofif" \in Tags /\ 0 \in Nat \cup Doable
    BY DEF Tags, OfTags
  <2>2. QED BY <1>1, <1>12, <2>1, EntryTyped
<1>14. EntryGood(x) /\ x.tag # "colon" /\ ~IsLoop(x) /\ EntryIn(x, e) /\ OwedBy(DP(dict), x)
  BY <1>11, <1>13 DEF EntryGood, IsLoop, EntryIn, OwedBy, Chained, ChainTags, OfTags
<1>15. dict' = e /\ ctl' = Append(ctl, x) /\ cont' = cont
  BY <1>2, <1>4, <1>5, <1>7, <1>12 DEF OfIf
<1>16. Good(e, ctl', cont)
  BY <1>8, <1>10, <1>13, <1>14, <1>15, GoodPushOne
<1>17. QED BY <1>8, <1>15, <1>16

LEMMA LeavesGood ==
  ASSUME Good(dict, ctl, cont), NEW w, Leaves(w)
  PROVE  Good(dict', ctl', cont') /\ dict'.peep = <<>>
<1>1. dict \in Dictionaries /\ DP(dict) \in Nat
  BY GoodParts, DictionaryTypes
<1>2. PICK e : e = CompileDummy(dict)
  OBVIOUS
<1>3. Leads(dict, e, {DP(dict)}) /\ e \in Dictionaries /\ e.peep = <<>> /\ PeepIn(e)
  BY <1>1, <1>2, DummyLeads, EmptyPeep
<1>4. PICK kind : kind = IF w \in Breaks THEN "break" ELSE "continue"
  OBVIOUS
<1>5. PICK type : type = BranchOf(w)
  OBVIOUS
<1>6. kind \in {"break", "continue"} /\ type \in {"branch", "branchZ", "branchNZ"}
  BY <1>4, <1>5 DEF BranchOf
<1>7. dict' = e /\ ctl' = ctl /\ cont' = AddBranch(cont, kind, DP(dict), type)
  BY <1>2, <1>4, <1>5 DEF Leaves
<1>8. PICK a \in Nat : a = DP(dict)
  BY <1>1
<1>9. PICK c2 : c2 = cont'
  OBVIOUS
<1>10. Good(e, ctl, c2)
  <2>1. c2 = AddBranch(cont, kind, a, type) /\ Leads(dict, e, {a})
    BY <1>3, <1>7, <1>8, <1>9
  <2>2. QED BY <1>3, <1>6, <2>1, GoodBranch
<1>11. QED BY <1>3, <1>7, <1>9, <1>10

LEMMA ContinueHereGood ==
  ASSUME Good(dict, ctl, cont), NEW w, ContinueHere(w), OpsBeforeContinue \/ dict.peep = <<>>
  PROVE  Good(dict', ctl', cont') /\ dict' = dict
<1>1. /\ dict \in Dictionaries /\ DP(dict) \in Nat /\ cont \in Conts /\ ContGood(cont) /\ ContIn(dict, cont)
  BY GoodParts, DictionaryTypes
<1>2. PICK s, count, dest : s = cont.stack /\ count = cont.count /\ dest = cont.dest
  OBVIOUS
<1>3. s \in Seq(Continuations) /\ count \in Nat /\ cont = [stack |-> s, dest |-> dest, count |-> count]
  BY <1>1, <1>2, ContFields
<1>4. PICK a \in Nat : a = DP(dict)
  BY <1>1
<1>5. PICK c2 : c2 = cont'
  OBVIOUS
<1>6. c2 = [stack |-> s, dest |-> a, count |-> count] /\ dict' = dict /\ ctl' = ctl
  <2>1. c2 = [cont EXCEPT !.dest = a] /\ dict' = dict /\ ctl' = ctl
    BY <1>4, <1>5 DEF ContinueHere
  <2>2. QED BY <1>3, <2>1
<1>7. c2 \in Conts /\ c2.stack = s /\ c2.count = count /\ c2.dest = a
  BY <1>3, <1>6 DEF Conts
<1>8. ContGood(c2)
  BY <1>1, <1>2, <1>7 DEF ContGood
<1>9. ContIn(dict, c2)
  <2>1. ASSUME dict.peep = <<>> PROVE DestIn(dict, a)
    <3>1. LabelIn(a, dict)
      BY <1>4, <2>1 DEF LabelIn
    <3>2. QED BY <3>1 DEF Target, DestIn
  <2>2. ASSUME OpsBeforeContinue PROVE DestIn(dict, a)
    <3>1. a # 0
      BY <1>1, <1>4, DictionaryTypes
    <3>2. QED BY <2>2, <3>1 DEF Target, DestIn
  <2>3. DestIn(dict, a)
    BY <2>1, <2>2
  <2>4. QED BY <1>1, <1>2, <1>7, <2>3 DEF ContIn
<1>10. Good(dict, ctl, c2)
  BY <1>2, <1>7, <1>8, <1>9 DEF Good
<1>11. QED BY <1>5, <1>6, <1>10

\* begin's entry goes above that of while.
LEMMA WhileGood ==
  ASSUME Good(dict, ctl, cont), NEW w, While(w)
  PROVE  Good(dict', ctl', cont') /\ dict'.peep = <<>>
<1>1. /\ dict \in Dictionaries /\ PeepIn(dict) /\ ControlGood(ctl) /\ EntriesIn(dict, ctl)
      /\ CodeIn(dict, ctl, cont.stack) /\ ContIn(dict, cont) /\ ContGood(cont)
      /\ cont \in Conts /\ ctl \in Seq(Entries)
  BY GoodParts
<1>2. PICK b \in Entries : b = Peek(0) /\ b.tag = "begin" /\ Len(ctl) > 0 /\ b = ctl[Len(ctl)]
  BY <1>1, PeekIs DEF While
<1>3. PICK f : f = CompileOpcode(dict, Branch("branchZ", 0))
  OBVIOUS
<1>4. PICK e : e = ClearPeephole(f)
  OBVIOUS
<1>5. PICK a : a = DP(f) - 1
  OBVIOUS
<1>6. /\ Leads(dict, e, {a}) /\ e \in Dictionaries /\ e.peep = <<>> /\ PeepIn(e)
      /\ a \in DOMAIN e.code /\ e.code[a].type \in {"branchZ", "opZ"} /\ a = DP(e) - 1
  BY <1>1, <1>3, <1>4, <1>5, OpenTestLeads
<1>7. PICK x : x = Entry("while", a, 0)
  OBVIOUS
<1>8. x \in Entries /\ EntryGood(x) /\ ~IsLoop(x) /\ EntryIn(x, e) /\ x.tag # "colon" /\ OwedBy(a, x)
  <2>1. "while" \in Chained
    BY DEF Chained, ChainTags
  <2>2. QED BY <1>6, <1>7, <2>1, OpenEntry
<1>9. PICK n \in Nat : n = Len(ctl) - 1 /\ Len(ctl) = n + 1
  BY <1>1, <1>2
<1>10. PICK k1 : k1 = SubSeq(ctl, 1, n)
  OBVIOUS
<1>11. PICK k2 : k2 = Append(k1, x)
  OBVIOUS
<1>12. PICK k3 : k3 = Append(k2, b)
  OBVIOUS
<1>13. ControlGood(k1) /\ Cut(k1, ctl, n) /\ k1 \in Seq(Entries) /\ Len(k1) \in Nat
  <2>1. n \in 0..Len(ctl)
    BY <1>9
  <2>2. ControlGood(k1) /\ Cut(k1, ctl, n)
    BY <1>1, <1>10, <2>1, ControlCut
  <2>3. QED BY <2>2 DEF ControlGood
<1>14. ControlGood(k2) /\ Pushed(k2, k1, x) /\ Cardinality(LoopsIn(k2)) = Cardinality(LoopsIn(k1))
       /\ k2 \in Seq(Entries) /\ Len(k2) \in Nat
  <2>1. ControlGood(k2) /\ Pushed(k2, k1, x) /\ Cardinality(LoopsIn(k2)) = Cardinality(LoopsIn(k1))
    BY <1>8, <1>11, <1>13, ControlPush
  <2>2. QED BY <2>1 DEF ControlGood
<1>15. IsLoop(b) /\ EntryGood(b) /\ b.tag # "colon"
  BY <1>2 DEF IsLoop, EntryGood
<1>16. ControlGood(k3) /\ Pushed(k3, k2, b) /\ Cardinality(LoopsIn(k3)) = Cardinality(LoopsIn(k2)) + 1
  BY <1>12, <1>14, <1>15, ControlPush
<1>17. Cardinality(LoopsIn(ctl)) = Cardinality(LoopsIn(k1)) + 1
  <2>1. n+1 \in n+1..Len(ctl) /\ IsLoop(ctl[n+1]) /\ \A i \in n+1..Len(ctl) : i # n+1 => ~IsLoop(ctl[i])
    BY <1>2, <1>9, <1>15
  <2>2. QED BY <1>9, <1>13, <2>1, LoopsCutOne
<1>18. Cardinality(SavedAt(cont.stack)) = Cardinality(LoopsIn(k3))
  BY <1>14, <1>16, <1>17 DEF Good
<1>19. EntriesIn(e, k3)
  <2>1. EntriesIn(e, ctl)
    BY <1>1, <1>6, EntriesKept
  <2>2. EntriesIn(e, k1)
    BY <1>1, <1>13, <2>1, EntriesCut
  <2>3. EntriesIn(e, k2)
    BY <1>8, <1>13, <1>14, <2>2, EntriesPushed
  <2>4. Len(ctl) \in 1..Len(ctl)
    BY <1>9
  <2>5. EntryIn(b, e)
    BY <1>2, <2>1, <2>4 DEF EntriesIn
  <2>6. QED BY <1>14, <1>16, <2>3, <2>5, EntriesPushed
<1>20. ContIn(e, cont)
  BY <1>1, <1>6, ContKept
<1>21. CodeIn(e, k3, cont.stack)
  <2>1. PICK s : s = cont.stack
    OBVIOUS
  <2>2. DropsSettled(ctl, n, e)
    <3>1. \A i \in n+1..Len(ctl) : ctl[i] = b
      BY <1>2, <1>9
    <3>2. QED BY <1>2, <3>1 DEF DropsSettled, OwedBy
  <2>3. \A y \in DOMAIN e.code : Owed(y, ctl, s) => Owed(y, k1, s) \/ SettledIn(e.code[y], e)
    BY <1>9, <1>13, <2>2, OwedCut
  <2>4. \A y : Owed(y, k2, s) <=> Owed(y, k1, s) \/ OwedBy(y, x)
    BY <1>13, <1>14, OwedPushed
  <2>5. \A y : Owed(y, k3, s) <=> Owed(y, k2, s) \/ OwedBy(y, b)
    BY <1>14, <1>16, OwedPushed
  <2>6. \A y \in DOMAIN e.code : Owed(y, ctl, s) => Owed(y, k3, s) \/ SettledIn(e.code[y], e)
    BY <2>3, <2>4, <2>5
  <2>7. \A y \in {a} : Owed(y, k3, s)
    BY <1>8, <2>4, <2>5
  <2>8. CodeIn(dict, ctl, s)
    BY <1>1, <2>1
  <2>9. CodeIn(e, k3, s)
    BY <1>1, <1>6, <2>6, <2>7, <2>8, CodeKept
  <2>10. QED BY <2>1, <2>9
<1>22. Good(e, k3, cont)
  BY <1>1, <1>6, <1>16, <1>18, <1>19, <1>20, <1>21 DEF Good
<1>23. dict' = e /\ ctl' = k3 /\ cont' = cont
  <2>1. dict' = e /\ ctl' = k1 \o <<x, b>> /\ cont' = cont
    BY <1>2, <1>3, <1>4, <1>5, <1>7, <1>9, <1>10 DEF While, Dropped
  <2>2. k1 \o <<x, b>> = Append(Append(k1, x), b)
    BY <1>13
  <2>3. QED BY <1>11, <1>12, <2>1, <2>2
<1>24. QED BY <1>6, <1>22, <1>23

\* The entries above the n-th are for opcodes that are fixed.
FixesAbove(k, n, fixes) ==
  \A i \in n+1..Len(k) : \/ k[i].tag \in {"colon", "#if", "begin"} \/ k[i].addr = 0
                         \/ \E x \in fixes : x.at = k[i].addr

LEMMA FixesDrop ==
  ASSUME NEW k, NEW n, NEW fixes, FixesAbove(k, n, fixes), NEW d,
         NEW e \in Dictionaries, DOMAIN e.code = DOMAIN d.code,
         \A x \in fixes : x.at \in DOMAIN d.code => SettledIn(e.code[x.at], e)
  PROVE  DropsSettled(k, n, e)
<1>1. SUFFICES ASSUME NEW i \in n+1..Len(k), NEW a \in DOMAIN e.code, OwedBy(a, k[i])
               PROVE  SettledIn(e.code[a], e)
  BY DEF DropsSettled
<1>2. PICK x \in fixes : x.at = a
  <2>1. a # 0
    BY <1>1, DictionaryTypes
  <2>2. QED BY <1>1, <2>1 DEF FixesAbove, OwedBy
<1>3. QED BY <1>1, <1>2

\* Branches are fixed and the entries for them dropped.
LEMMA GoodFix ==
  ASSUME NEW d, NEW k, NEW c, Good(d, k, c), NEW fixes, FixesOK(fixes, d),
         NEW e, e = ClearPeephole(Patch(d, fixes)),
         NEW n \in 0..Len(k), FixesAbove(k, n, fixes), \A i \in n+1..Len(k) : ~IsLoop(k[i]),
         NEW k2, k2 = SubSeq(k, 1, n)
  PROVE  Good(e, k2, c) /\ e.peep = <<>>
<1>1. /\ Leads(d, e, {}) /\ e \in Dictionaries /\ e.peep = <<>> /\ DOMAIN e.code = DOMAIN d.code
      /\ \A x \in fixes : x.at \in DOMAIN d.code => SettledIn(e.code[x.at], e)
  BY GoodParts, PatchLeads
<1>2. DropsSettled(k, n, e)
  BY <1>1, FixesDrop
<1>3. QED BY <1>1, <1>2, EmptyPeep, GoodCut

\* The m-th entry is the only loop above the n-th.
ClosesOne(k, n, m) == /\ n \in 0..Len(k) /\ m \in n+1..Len(k) /\ IsLoop(k[m])
                      /\ \A i \in n+1..Len(k) : i # m => ~IsLoop(k[i])
FixesAll(U, d, fixes) == \A a \in U : a \in DOMAIN d.code /\ \E x \in fixes : x.at = a

\* A loop ends: branches are fixed in d, where the compiler has got to from b,
\* and then those of the continuations.
LEMMA GoodClose ==
  ASSUME NEW b, NEW k, NEW c, Good(b, k, c), NEW d \in Dictionaries,
         NEW U, Leads(b, d, U), NEW fixes, FixesOK(fixes, d), FixesAll(U, d, fixes),
         NEW e, e = EndOfLoop(Patch(d, fixes), c),
         NEW tag, CanEndLoop(c, tag),
         NEW n, FixesAbove(k, n, fixes), NEW m, ClosesOne(k, n, m),
         NEW k2, k2 = SubSeq(k, 1, n), NEW c2, c2 = EndLoop(c)
  PROVE  Good(e, k2, c2) /\ e.peep = <<>>
<1>1. b \in Dictionaries /\ ContGood(c) /\ ContIn(b, c) /\ c \in Conts /\ c.dest \in Nat
  BY GoodParts
<1>2. PICK p : p = Patch(d, fixes)
  OBVIOUS
<1>3. PICK f : f = ClearPeephole(p)
  OBVIOUS
<1>4. p \in Dictionaries
  BY <1>2, PatchTyped
<1>5. /\ Leads(d, f, {}) /\ f \in Dictionaries /\ DOMAIN f.code = DOMAIN d.code
      /\ \A x \in fixes : x.at \in DOMAIN d.code => SettledIn(f.code[x.at], f)
  BY <1>2, <1>3, PatchLeads
<1>6. e = EndOfLoop(f, c)
  BY <1>2, <1>3, <1>4, EndOfLoopClear
<1>7. Leads(b, f, {})
  <2>1. Leads(b, f, U \cup {})
    BY <1>1, <1>5, LeadsOn
  <2>2. U \cup {} = U
    OBVIOUS
  <2>3. \A a \in U : SettledIn(f.code[a], f)
    BY <1>5 DEF FixesAll
  <2>4. QED BY <2>1, <2>2, <2>3, LeadsSettled
<1>8. DestIn(f, c.dest)
  <2>1. DestIn(b, c.dest)
    BY <1>1 DEF ContIn
  <2>2. QED BY <1>1, <1>7, <2>1, DestKept
<1>9. /\ Leads(f, e, {}) /\ e \in Dictionaries /\ e.peep = <<>> /\ DOMAIN e.code = DOMAIN f.code
      /\ \A i \in Len(c.stack) - c.count + 1..Len(c.stack) :
           c.stack[i].addr \in DOMAIN e.code => SettledIn(e.code[c.stack[i].addr], e)
  BY <1>1, <1>5, <1>6, <1>8, EndOfLoopLeads
<1>10. Leads(b, e, {})
  <2>1. Leads(b, e, {} \cup {})
    BY <1>1, <1>5, <1>7, <1>9, LeadsOn
  <2>2. QED BY <2>1
<1>11. DropsSettled(k, n, e)
  <2>1. DropsSettled(k, n, f)
    BY <1>5, FixesDrop
  <2>2. SUFFICES ASSUME NEW i \in n+1..Len(k), NEW a \in DOMAIN e.code, OwedBy(a, k[i])
                 PROVE  SettledIn(e.code[a], e)
    BY DEF DropsSettled
  <2>3. SettledIn(f.code[a], f) /\ a \in DOMAIN f.code
    BY <1>9, <2>1, <2>2 DEF DropsSettled
  <2>4. e.code[a] = f.code[a] \/ SettledIn(e.code[a], e)
    BY <1>9 DEF Leads, AddsSettled
  <2>5. f.code[a].to \in Nat
    BY <1>5, <2>3, CodeTypes
  <2>6. SettledIn(f.code[a], e)
    BY <1>9, <2>3, <2>5, SettledKept DEF Leads
  <2>7. QED BY <2>4, <2>6
<1>12. Len(c.stack) > c.count
  BY DEF CanEndLoop
<1>13. PeepIn(e)
  BY <1>9, EmptyPeep
<1>14. Good(e, k2, c2)
  BY <1>9, <1>10, <1>11, <1>12, <1>13, GoodEnd DEF ClosesOne
<1>15. QED BY <1>9, <1>14

LEMMA LeadsSame ==
  ASSUME NEW d, NEW U
  PROVE  Leads(d, d, U)
  BY DEF Leads, KeepsLabels, KeepsBelow, AddsSettled

LEMMA LabelClear ==
  ASSUME NEW d \in Dictionaries, NEW l \in Nat, LabelIn(l, d)
  PROVE  LabelIn(l, ClearPeephole(d))
  BY ClearLeads DEF Leads, KeepsLabels

LEMMA HereLabel ==
  ASSUME NEW d \in Dictionaries
  PROVE  LabelIn(DP(d), ClearPeephole(d)) /\ DP(d) \in Nat
  BY ClearShape, DictionaryTypes DEF LabelIn

\* A branch to a label is right in any place.
LEMMA BranchFixOK ==
  ASSUME NEW d \in Dictionaries, NEW at, NEW to \in Nat, LabelIn(to, ClearPeephole(d)),
         NEW x, x = [at |-> at, cell |-> Branch("branch", to)]
  PROVE  FixOK(x, d) /\ x.at = at /\ x.cell \in Opcodes
<1>1. PICK c \in Opcodes : c = Branch("branch", to) /\ c.type = "branch" /\ c.to = to
  BY BranchType DEF Branching
<1>2. x.at = at /\ x.cell = c
  BY <1>1
<1>3. QED BY <1>1, <1>2 DEF FixOK, SettledIn, Target

LEMMA TopBegin ==
  ASSUME Good(dict, ctl, cont), Peek(0).tag = "begin"
  PROVE  /\ Len(ctl) \in Nat /\ Len(ctl) > 0 /\ ctl[Len(ctl)] = Peek(0)
         /\ Peek(0).addr \in Nat /\ LabelIn(Peek(0).addr, dict) /\ IsLoop(Peek(0))
<1>1. ctl \in Seq(Entries) /\ Len(ctl) \in Nat /\ EntriesIn(dict, ctl)
  BY GoodParts
<1>2. PICK x \in Entries : x = Peek(0) /\ x = ctl[Len(ctl)] /\ Len(ctl) > 0 /\ Len(ctl) \in 1..Len(ctl)
  BY <1>1, PeekIs
<1>3. EntryIn(x, dict) /\ x.tag = "begin"
  BY <1>1, <1>2 DEF EntriesIn
<1>4. LabelIn(x.addr, dict) /\ IsLoop(x) /\ x.addr \in Nat
  BY <1>3 DEF EntryIn, IsLoop, Entries
<1>5. QED BY <1>1, <1>2, <1>4

LEMMA UntilGood ==
  ASSUME Good(dict, ctl, cont), NEW w, Until(w)
  PROVE  Good(dict', ctl', cont') /\ dict'.peep = <<>>
<1>1. dict \in Dictionaries /\ PeepIn(dict) /\ ctl \in Seq(Entries)
  BY GoodParts
<1>2. PICK b : b = Peek(0) /\ b.tag = "begin" /\ CanEndLoop(cont, "begin")
  BY DEF Until, AcceptsUntil
<1>3. /\ Len(ctl) \in Nat /\ Len(ctl) > 0 /\ ctl[Len(ctl)] = b
      /\ b.addr \in Nat /\ LabelIn(b.addr, dict) /\ IsLoop(b)
  BY <1>2, TopBegin
<1>4. PICK d : d = CompileOpcode(dict, Branch("branchZ", 0))
  OBVIOUS
<1>5. PICK at : at = DP(d) - 1
  OBVIOUS
<1>6. /\ d \in Dictionaries /\ Leads(dict, d, {at})
      /\ at \in DOMAIN d.code /\ d.code[at].type \in {"branchZ", "opZ"}
  BY <1>1, <1>4, <1>5, CompileTest DEF OpenTest
<1>7. PICK cell : cell = Patched(d.code[at], "branchZ", b.addr)
  OBVIOUS
<1>8. PICK fixes : fixes = {[at |-> at, cell |-> cell]}
  OBVIOUS
<1>9. FixesOK(fixes, d)
  <2>1. LabelIn(b.addr, d)
    BY <1>3, <1>6 DEF Leads, KeepsLabels
  <2>2. LabelIn(b.addr, ClearPeephole(d))
    BY <1>3, <1>6, <2>1, LabelClear
  <2>3. PICK c \in Opcodes : c = d.code[at] /\ c.type \in Conditional
    BY <1>6, CodeTypes DEF Conditional
  <2>4. Leads(d, d, {})
    BY LeadsSame
  <2>5. cell \in Opcodes /\ cell.type # "data" /\ SettledIn(cell, ClearPeephole(d))
    BY <1>3, <1>6, <1>7, <2>2, <2>3, <2>4, PatchedOK
  <2>6. QED BY <1>8, <2>5 DEF FixesOK, FixOK
<1>10. PICK n \in Nat : n = Len(ctl) - 1 /\ Len(ctl) = n + 1
  BY <1>3
<1>11. dict' = EndOfLoop(Patch(d, fixes), cont) /\ ctl' = SubSeq(ctl, 1, n) /\ cont' = EndLoop(cont)
  BY <1>2, <1>4, <1>5, <1>7, <1>8, <1>10 DEF Until, Dropped
<1>12. n \in 0..Len(ctl) /\ n + 1 \in n+1..Len(ctl) /\ \A i \in n+1..Len(ctl) : i = n + 1
  BY <1>10
<1>13. FixesAbove(ctl, n, fixes) /\ ClosesOne(ctl, n, n + 1)
  BY <1>2, <1>3, <1>10, <1>12 DEF FixesAbove, ClosesOne
<1>14. PICK U : U = {at}
  OBVIOUS
<1>15. Leads(dict, d, U) /\ FixesAll(U, d, fixes)
  BY <1>6, <1>8, <1>14 DEF FixesAll
<1>16. PICK e, k2, c2 : e = dict' /\ k2 = ctl' /\ c2 = cont'
  OBVIOUS
<1>17. Good(e, k2, c2) /\ e.peep = <<>>
  BY <1>2, <1>6, <1>9, <1>11, <1>12, <1>13, <1>15, <1>16, GoodClose
<1>18. QED BY <1>16, <1>17

LEMMA PatchNone ==
  ASSUME NEW d \in Dictionaries
  PROVE  Patch(d, {}) = d
<1>1. PICK s \in Seq(Opcodes), p \in Seq(Nat) : d = [code |-> s, peep |-> p]
  BY DictionaryTypes
<1>2. PICK t : t = PatchedCode(s, {})
  OBVIOUS
<1>3. CellsIn({}, Len(s))
  BY DEF CellsIn
<1>4. t \in Seq(Opcodes) /\ Len(t) = Len(s) /\ \A a \in 1..Len(s) : t[a] = s[a]
  <2>0. PICK none : none = {}
    OBVIOUS
  <2>1. PICK n \in Nat : n = Len(s)
    OBVIOUS
  <2>2. CellsIn(none, n) /\ t = PatchedCode(s, none)
    BY <1>2, <1>3, <2>0, <2>1
  <2>3. /\ t \in Seq(Opcodes) /\ Len(t) = n
        /\ \A a \in 1..n : (\E x \in none : x.at = a) \/ t[a] = s[a]
    BY <2>1, <2>2, PatchedCodeType
  <2>4. QED BY <2>0, <2>1, <2>3
<1>5. t = s
  BY <1>4
<1>6. Patch(d, {}) = [code |-> PatchedCode(d.code, {}), peep |-> d.peep]
  BY PatchIs
<1>7. QED BY <1>1, <1>2, <1>5, <1>6

LEMMA AgainGood ==
  ASSUME Good(dict, ctl, cont), NEW w, Again(w)
  PROVE  Good(dict', ctl', cont') /\ dict'.peep = <<>>
<1>1. dict \in Dictionaries /\ PeepIn(dict) /\ ctl \in Seq(Entries)
  BY GoodParts
<1>2. PICK b : b = Peek(0) /\ b.tag = "begin" /\ CanEndLoop(cont, "begin")
  BY DEF Again, AcceptsUntil
<1>3. /\ Len(ctl) \in Nat /\ Len(ctl) > 0 /\ ctl[Len(ctl)] = b
      /\ b.addr \in Nat /\ LabelIn(b.addr, dict) /\ IsLoop(b)
  BY <1>2, TopBegin
<1>4. PICK d : d = CompileOpcode(dict, Branch("branch", b.addr))
  OBVIOUS
<1>5. d \in Dictionaries /\ Leads(dict, d, {})
  BY <1>1, <1>3, <1>4, JumpLeads
<1>6. PICK fixes : fixes = {}
  OBVIOUS
<1>7. FixesOK(fixes, d) /\ Patch(d, fixes) = d
  BY <1>5, <1>6, PatchNone DEF FixesOK
<1>8. PICK n \in Nat : n = Len(ctl) - 1 /\ Len(ctl) = n + 1
  BY <1>3
<1>9. dict' = EndOfLoop(Patch(d, fixes), cont) /\ ctl' = SubSeq(ctl, 1, n) /\ cont' = EndLoop(cont)
  BY <1>2, <1>4, <1>7, <1>8 DEF Again, Dropped
<1>10. n \in 0..Len(ctl) /\ n + 1 \in n+1..Len(ctl) /\ \A i \in n+1..Len(ctl) : i = n + 1
  BY <1>8
<1>11. FixesAbove(ctl, n, fixes) /\ ClosesOne(ctl, n, n + 1)
  BY <1>2, <1>3, <1>8, <1>10 DEF FixesAbove, ClosesOne
<1>12. PICK U : U = {}
  OBVIOUS
<1>13. Leads(dict, d, U) /\ FixesAll(U, d, fixes)
  BY <1>5, <1>12 DEF FixesAll
<1>14. PICK e, k2, c2 : e = dict' /\ k2 = ctl' /\ c2 = cont'
  OBVIOUS
<1>15. Good(e, k2, c2) /\ e.peep = <<>>
  BY <1>2, <1>5, <1>7, <1>9, <1>10, <1>11, <1>13, <1>14, GoodClose
<1>16. QED BY <1>14, <1>15

\* A chain's entry, when its test is fixed in what the compiler has got to.
LEMMA ChainFixOK ==
  ASSUME NEW d \in Dictionaries, NEW e \in Dictionaries, NEW U, Leads(d, e, U),
         NEW y \in Entries, ChainEntryIn(y, d), NEW type \in {"branchZ", "branchNZ"},
         NEW to \in Nat, LabelIn(to, ClearPeephole(e)),
         NEW x, x = [at |-> y.addr, cell |-> Patched(d.code[y.addr], type, to)]
  PROVE  FixOK(x, e) /\ x.at = y.addr /\ x.at \in 1..Len(d.code) /\ x.cell \in Opcodes
<1>1. y.addr \in DOMAIN d.code /\ LabelIn(y.addr, d)
      /\ (d.code[y.addr].type \in Conditional \/ SettledIn(d.code[y.addr], d))
  BY DEF ChainEntryIn, Below
<1>2. d.code[y.addr].type # "data" /\ d.code[y.addr] \in Opcodes /\ y.addr \in 1..Len(d.code)
  <2>1. DOMAIN d.code = 1..Len(d.code) /\ DP(d) = Len(d.code) + 1 /\ Len(d.code) \in Nat
    BY DictionaryTypes DEF DP
  <2>2. d.code[y.addr].type # "data"
    BY <1>1, <2>1 DEF LabelIn
  <2>3. QED BY <1>1, <2>1, <2>2, CodeTypes
<1>3. PICK c \in Opcodes : c = d.code[y.addr]
  BY <1>2
<1>4. PICK cell : cell = Patched(c, type, to)
  OBVIOUS
<1>5. cell \in Opcodes /\ cell.type # "data" /\ SettledIn(cell, ClearPeephole(e))
  BY <1>1, <1>2, <1>3, <1>4, PatchedOK
<1>6. x.at = y.addr /\ x.cell = cell
  BY <1>3, <1>4
<1>7. QED BY <1>2, <1>5, <1>6 DEF FixOK

LEMMA RepeatGood ==
  ASSUME Good(dict, ctl, cont), NEW w, Repeat(w)
  PROVE  Good(dict', ctl', cont') /\ dict'.peep = <<>>
<1>1. dict \in Dictionaries /\ PeepIn(dict) /\ ctl \in Seq(Entries) /\ EntriesIn(dict, ctl)
  BY GoodParts
<1>2. PICK b : b = Peek(0) /\ b.tag = "begin" /\ CanEndLoop(cont, "begin")
  BY DEF Repeat, AcceptsRepeat, AcceptsUntil
<1>3. /\ Len(ctl) \in Nat /\ Len(ctl) > 0 /\ ctl[Len(ctl)] = b
      /\ b.addr \in Nat /\ LabelIn(b.addr, dict) /\ IsLoop(b)
  BY <1>2, TopBegin
<1>4. PICK y \in Entries : /\ y = Peek(1) /\ y.tag \in {"while", "if"} /\ Len(ctl) > 1
                           /\ Len(ctl) - 1 \in 1..Len(ctl) /\ y = ctl[Len(ctl) - 1]
  BY <1>1, PeekIs DEF Repeat, AcceptsRepeat
<1>5. ChainEntryIn(y, dict) /\ ~IsLoop(y)
  <2>1. EntryIn(y, dict)
    BY <1>1, <1>4 DEF EntriesIn
  <2>2. QED BY <1>4, <2>1 DEF EntryIn, Chained, ChainTags, IsLoop
<1>6. PICK d : d = CompileOpcode(dict, Branch("branch", b.addr))
  OBVIOUS
<1>7. d \in Dictionaries /\ Leads(dict, d, {}) /\ DP(d) = DP(dict) + 1
  BY <1>1, <1>3, <1>6, JumpLeads
<1>8. PICK x : x = [at |-> y.addr, cell |-> Patched(dict.code[y.addr], "branchZ", DP(dict) + 1)]
  OBVIOUS
<1>9. FixOK(x, d) /\ x.at = y.addr /\ x.at \in 1..Len(dict.code) /\ x.cell \in Opcodes
  <2>1. LabelIn(DP(dict) + 1, ClearPeephole(d)) /\ DP(dict) + 1 \in Nat
    BY <1>7, HereLabel
  <2>2. QED BY <1>1, <1>5, <1>7, <1>8, <2>1, ChainFixOK
<1>10. PICK fixes : fixes = {x}
  OBVIOUS
<1>11. FixesOK(fixes, d) /\ CellsIn(fixes, Len(dict.code))
  BY <1>9, <1>10 DEF FixesOK, CellsIn
<1>12. CompileOpcode(Patch(dict, fixes), Branch("branch", b.addr)) = Patch(d, fixes)
  BY <1>1, <1>3, <1>6, <1>11, PatchJump
<1>13. PICK n \in Nat : n = Len(ctl) - 2 /\ Len(ctl) = n + 2
  BY <1>4
<1>14. dict' = EndOfLoop(Patch(d, fixes), cont) /\ ctl' = SubSeq(ctl, 1, n) /\ cont' = EndLoop(cont)
  <2>1. fixes = {[at |-> Peek(1).addr, cell |-> Patched(dict.code[Peek(1).addr], "branchZ", DP(dict) + 1)]}
    BY <1>4, <1>8, <1>10
  <2>2. dict' = EndOfLoop(CompileOpcode(Patch(dict, fixes), Branch("branch", b.addr)), cont)
    BY <1>2, <2>1 DEF Repeat
  <2>3. QED BY <1>12, <1>13, <2>2 DEF Repeat, Dropped
<1>15. n \in 0..Len(ctl) /\ n + 2 \in n+1..Len(ctl) /\ \A i \in n+1..Len(ctl) : i = n + 1 \/ i = n + 2
  BY <1>13
<1>16. FixesAbove(ctl, n, fixes) /\ ClosesOne(ctl, n, n + 2)
  <2>1. ctl[n+1] = y /\ ctl[n+2] = b
    BY <1>3, <1>4, <1>13
  <2>2. x \in fixes
    BY <1>10
  <2>3. QED BY <1>2, <1>3, <1>5, <1>9, <1>15, <2>1, <2>2 DEF FixesAbove, ClosesOne
<1>17. PICK U : U = {}
  OBVIOUS
<1>18. Leads(dict, d, U) /\ FixesAll(U, d, fixes)
  BY <1>7, <1>17 DEF FixesAll
<1>19. PICK e, k2, c2 : e = dict' /\ k2 = ctl' /\ c2 = cont'
  OBVIOUS
<1>20. Good(e, k2, c2) /\ e.peep = <<>>
  BY <1>2, <1>7, <1>11, <1>14, <1>15, <1>16, <1>18, <1>19, GoodClose
<1>21. QED BY <1>19, <1>20

LEMMA LoopGood ==
  ASSUME Good(dict, ctl, cont), NEW w, Loop(w)
  PROVE  Good(dict', ctl', cont') /\ dict'.peep = <<>>
<1>1. dict \in Dictionaries /\ PeepIn(dict) /\ ctl \in Seq(Entries) /\ ControlGood(ctl)
  BY GoodParts
<1>2. PICK b \in Entries : /\ b = Peek(0) /\ b.tag = "do" /\ CanEndLoop(cont, "do")
                           /\ Len(ctl) > 0 /\ b = ctl[Len(ctl)] /\ Len(ctl) \in 1..Len(ctl) /\ Len(ctl) \in Nat
  <2>1. Peek(0).tag = "do" /\ CanEndLoop(cont, "do")
    BY DEF Loop, AcceptsLoop
  <2>2. QED BY <1>1, <2>1, PeekIs
<1>3. IsLoop(b) /\ b.op \in Doable /\ b.addr \in Nat
  <2>1. EntryGood(b)
    BY <1>1, <1>2 DEF ControlGood
  <2>2. QED BY <1>2, <2>1 DEF EntryGood, IsLoop, Entries
<1>4. w \in Doable
  BY DEF Loop, Doable
<1>5. PICK d : d = CompileOpcode(dict, Compiled(w))
  OBVIOUS
<1>6. d \in Dictionaries /\ Leads(dict, d, {})
  <2>1. Compiled(w) \in Opcodes /\ Compiled(w).type \in SimpleTypes
    BY <1>4, CompiledType
  <2>2. QED BY <1>1, <1>5, <2>1, CompileSimple
<1>7. PICK x : x = [at |-> b.addr, cell |-> Compiled(b.op)]
  OBVIOUS
<1>8. PICK y : y = [at |-> b.addr + 1, cell |-> Branch("branch", DP(d))]
  OBVIOUS
<1>9. FixOK(x, d) /\ x.at = b.addr
  <2>1. PICK c \in Opcodes : c = Compiled(b.op) /\ c.type \in SimpleTypes
    BY <1>3, CompiledType
  <2>2. x.at = b.addr /\ x.cell = c
    BY <1>7, <2>1
  <2>3. c.type # "data" /\ SettledIn(c, ClearPeephole(d))
    BY <2>1 DEF SettledIn, SimpleTypes, Branching, Conditional, Target
  <2>4. QED BY <2>2, <2>3 DEF FixOK
<1>10. FixOK(y, d)
  BY <1>6, <1>8, HereLabel, BranchFixOK
<1>11. PICK fixes : fixes = {x, y}
  OBVIOUS
<1>12. FixesOK(fixes, d)
  BY <1>9, <1>10, <1>11 DEF FixesOK
<1>13. PICK n \in Nat : n = Len(ctl) - 1 /\ Len(ctl) = n + 1
  BY <1>2
<1>14. dict' = EndOfLoop(Patch(d, fixes), cont) /\ ctl' = SubSeq(ctl, 1, n) /\ cont' = EndLoop(cont)
  BY <1>2, <1>5, <1>7, <1>8, <1>11, <1>13 DEF Loop, Dropped
<1>15. n \in 0..Len(ctl) /\ n + 1 \in n+1..Len(ctl) /\ \A i \in n+1..Len(ctl) : i = n + 1
  BY <1>13
<1>16. FixesAbove(ctl, n, fixes) /\ ClosesOne(ctl, n, n + 1)
  <2>1. ctl[n+1] = b /\ x \in fixes
    BY <1>2, <1>11, <1>13
  <2>2. QED BY <1>3, <1>9, <1>15, <2>1 DEF FixesAbove, ClosesOne
<1>17. PICK U : U = {}
  OBVIOUS
<1>18. Leads(dict, d, U) /\ FixesAll(U, d, fixes)
  BY <1>6, <1>17 DEF FixesAll
<1>19. PICK e, k2, c2 : e = dict' /\ k2 = ctl' /\ c2 = cont'
  OBVIOUS
<1>20. Good(e, k2, c2) /\ e.peep = <<>>
  BY <1>2, <1>6, <1>12, <1>14, <1>15, <1>16, <1>18, <1>19, GoodClose
<1>21. QED BY <1>19, <1>20

\* No loop is above the n-th entry.
NoLoops(k, n) == n \in 0..Len(k) /\ \A i \in n+1..Len(k) : ~IsLoop(k[i])

LEMMA CaseBaseIs ==
  ASSUME ctl \in Seq(Entries), CaseBase > 0
  PROVE  /\ CaseBase \in 1..Len(ctl) /\ ctl[CaseBase].tag = "case" /\ ctl[CaseBase].addr = 0
         /\ \A k \in CaseBase+1..Len(ctl) : ~(ctl[k].tag = "case" /\ ctl[k].addr = 0)
<1>1. PICK n \in Nat : n = Len(ctl) /\ DOMAIN ctl = 1..n
  OBVIOUS
<1>2. PICK S : S = {k \in DOMAIN ctl : ctl[k].tag = "case" /\ ctl[k].addr = 0}
  OBVIOUS
<1>3. CaseBase = IF S = {} THEN 0 ELSE Max(S)
  BY <1>2 DEF CaseBase
<1>4. S # {} /\ CaseBase = Max(S)
  BY <1>3
<1>5. S \in SUBSET (0..n)
  BY <1>1, <1>2
<1>6. PICK m : m = Max(S)
  OBVIOUS
<1>7. m \in S /\ \A k \in S : k <= m
  BY <1>1, <1>4, <1>5, <1>6, GreatestIs
<1>8. m \in 1..n /\ ctl[m].tag = "case" /\ ctl[m].addr = 0
  BY <1>1, <1>2, <1>7
<1>9. ASSUME NEW k \in m+1..n PROVE ~(ctl[k].tag = "case" /\ ctl[k].addr = 0)
  <2>1. k \in 1..n /\ ~(k <= m)
    BY <1>8
  <2>2. QED BY <1>1, <1>2, <1>7, <2>1
<1>10. QED BY <1>1, <1>4, <1>6, <1>8, <1>9

LEMMA CaseEntryIs ==
  ASSUME ctl \in Seq(Entries), CaseEntry > 0
  PROVE  /\ CaseEntry \in 1..Len(ctl)
         /\ \A k \in CaseEntry+1..Len(ctl) : ctl[k].tag \in OfTags
<1>1. PICK n \in Nat : n = Len(ctl) /\ DOMAIN ctl = 1..n
  OBVIOUS
<1>2. PICK S : S = {k \in DOMAIN ctl : ctl[k].tag \notin OfTags}
  OBVIOUS
<1>3. CaseEntry = IF S = {} THEN 0 ELSE Max(S)
  BY <1>2 DEF CaseEntry
<1>4. S # {} /\ CaseEntry = Max(S)
  BY <1>3
<1>5. S \in SUBSET (0..n)
  BY <1>1, <1>2
<1>6. PICK m : m = Max(S)
  OBVIOUS
<1>7. m \in S /\ \A k \in S : k <= m
  BY <1>1, <1>4, <1>5, <1>6, GreatestIs
<1>8. m \in 1..n
  BY <1>1, <1>2, <1>7
<1>9. ASSUME NEW k \in m+1..n PROVE ctl[k].tag \in OfTags
  <2>1. k \in 1..n /\ ~(k <= m)
    BY <1>8
  <2>2. QED BY <1>1, <1>2, <1>7, <2>1
<1>10. QED BY <1>1, <1>4, <1>6, <1>8, <1>9

LEMMA ChainStartIs ==
  ASSUME ctl \in Seq(Entries), ChainOK
  PROVE  /\ ChainStart \in 1..Len(ctl) /\ ctl[ChainStart].tag \in ChainTags
         /\ \A k \in ChainStart..Len(ctl) : ctl[k].tag \in Chained
         /\ NoLoops(ctl, ChainStart - 1)
<1>1. PICK n \in Nat : n = Len(ctl) /\ DOMAIN ctl = 1..n
  OBVIOUS
<1>2. PICK S : S = {k \in DOMAIN ctl : ctl[k].tag \notin {"andif", "orif"}}
  OBVIOUS
<1>3. ChainStart = IF S = {} THEN 0 ELSE Max(S)
  BY <1>2 DEF ChainStart
<1>4. S # {} /\ ChainStart = Max(S)
  BY <1>3 DEF ChainOK
<1>5. S \in SUBSET (0..n)
  BY <1>1, <1>2
<1>6. PICK m : m = Max(S)
  OBVIOUS
<1>7. m \in S /\ \A k \in S : k <= m
  BY <1>1, <1>4, <1>5, <1>6, GreatestIs
<1>8. m \in 1..n
  BY <1>1, <1>2, <1>7
<1>9. ctl[m].tag \in ChainTags
  BY <1>4, <1>6 DEF ChainOK
<1>10. ASSUME NEW k \in m..n PROVE ctl[k].tag \in Chained
  <2>1. CASE k = m
    BY <1>9, <2>1 DEF Chained
  <2>2. CASE k > m
    <3>1. k \in 1..n /\ ~(k <= m)
      BY <1>8, <2>2
    <3>2. k \notin S
      BY <1>7, <3>1
    <3>3. QED BY <1>1, <1>2, <3>1, <3>2 DEF Chained
  <2>3. QED BY <1>8, <2>1, <2>2
<1>11. NoLoops(ctl, m - 1)
  <2>1. \A k \in m..n : ~IsLoop(ctl[k])
    BY <1>10 DEF Chained, ChainTags, IsLoop
  <2>2. m - 1 \in 0..n /\ (m - 1) + 1 = m
    BY <1>8
  <2>3. QED BY <1>1, <2>1, <2>2 DEF NoLoops
<1>12. QED BY <1>1, <1>4, <1>6, <1>8, <1>9, <1>10, <1>11

LEMMA EndcaseGood ==
  ASSUME Good(dict, ctl, cont), NEW w, Endcase(w)
  PROVE  Good(dict', ctl', cont') /\ dict'.peep = <<>>
<1>1. dict \in Dictionaries /\ PeepIn(dict) /\ ctl \in Seq(Entries) /\ ControlGood(ctl)
  BY GoodParts
<1>2. PICK m : m = CaseBase
  OBVIOUS
<1>3. /\ m > 0 /\ CanEndLoop(cont, "case") /\ \A k \in m..Len(ctl) : ctl[k].tag = "case"
  BY <1>2 DEF Endcase, AcceptsEndcase
<1>4. /\ m \in 1..Len(ctl) /\ ctl[m].tag = "case" /\ ctl[m].addr = 0
      /\ \A k \in m+1..Len(ctl) : ~(ctl[k].tag = "case" /\ ctl[k].addr = 0)
  BY <1>1, <1>2, <1>3, CaseBaseIs
<1>5. PICK d : d = CompileOpcode(dict, Compiled("drop"))
  OBVIOUS
<1>6. d \in Dictionaries /\ Leads(dict, d, {})
  <2>0. "drop" \in Doable
    BY DEF Doable
  <2>1. Compiled("drop") \in Opcodes /\ Compiled("drop").type \in SimpleTypes
    BY <2>0, CompiledType
  <2>2. QED BY <1>1, <1>5, <2>1, CompileSimple
<1>7. PICK fixes : fixes = {[at |-> ctl[k].addr, cell |-> Branch("branch", DP(d))] : k \in m+1..Len(ctl)}
  OBVIOUS
<1>8. ASSUME NEW x \in fixes PROVE FixOK(x, d)
  <2>1. PICK k \in m+1..Len(ctl) : x = [at |-> ctl[k].addr, cell |-> Branch("branch", DP(d))]
    BY <1>7
  <2>2. QED BY <1>6, <2>1, HereLabel, BranchFixOK
<1>9. FixesOK(fixes, d)
  BY <1>8 DEF FixesOK
<1>10. PICK n \in Nat : n = m - 1 /\ m = n + 1 /\ n \in 0..Len(ctl)
  BY <1>1, <1>4
<1>11. FixesAbove(ctl, n, fixes)
  <2>1. ASSUME NEW i \in n+1..Len(ctl), i # m PROVE \E x \in fixes : x.at = ctl[i].addr
    <3>1. i \in m+1..Len(ctl)
      BY <1>4, <1>10, <2>1
    <3>2. PICK x : x = [at |-> ctl[i].addr, cell |-> Branch("branch", DP(d))]
      OBVIOUS
    <3>3. x \in fixes /\ x.at = ctl[i].addr
      BY <1>7, <3>1, <3>2
    <3>4. QED BY <3>3
  <2>2. QED BY <1>4, <2>1 DEF FixesAbove
<1>12. ClosesOne(ctl, n, m)
  <2>1. ASSUME NEW i \in n+1..Len(ctl), i # m PROVE ~IsLoop(ctl[i])
    <3>1. i \in m+1..Len(ctl) /\ i \in m..Len(ctl)
      BY <1>4, <1>10, <2>1
    <3>2. QED BY <1>3, <1>4, <3>1 DEF IsLoop
  <2>2. IsLoop(ctl[m])
    BY <1>4 DEF IsLoop
  <2>3. QED BY <1>4, <1>10, <2>1, <2>2 DEF ClosesOne
<1>13. dict' = EndOfLoop(Patch(d, fixes), cont) /\ ctl' = SubSeq(ctl, 1, n) /\ cont' = EndLoop(cont)
  BY <1>2, <1>5, <1>7, <1>10 DEF Endcase
<1>14. PICK U : U = {}
  OBVIOUS
<1>15. Leads(dict, d, U) /\ FixesAll(U, d, fixes)
  BY <1>6, <1>14 DEF FixesAll
<1>16. PICK e, k2, c2 : e = dict' /\ k2 = ctl' /\ c2 = cont'
  OBVIOUS
<1>17. Good(e, k2, c2) /\ e.peep = <<>>
  BY <1>3, <1>6, <1>9, <1>11, <1>12, <1>13, <1>15, <1>16, GoodClose
<1>18. QED BY <1>16, <1>17

\* Branches are fixed behind a new dummy, whose entry takes the place of theirs.
LEMMA FixDummyGood ==
  ASSUME Good(dict, ctl, cont), NEW d, d = CompileDummy(dict), NEW fixes, FixesOK(fixes, d),
         NEW e, e = ClearPeephole(Patch(d, fixes)),
         NEW n, NoLoops(ctl, n), FixesAbove(ctl, n, fixes),
         NEW x, x \in Entries, x.addr = DP(dict), x.tag \in {"else", "case"}, EntryGood(x),
         NEW k2, k2 = Append(SubSeq(ctl, 1, n), x)
  PROVE  Good(e, k2, cont) /\ e.peep = <<>>
<1>1. dict \in Dictionaries /\ DP(dict) \in Nat \ {0}
  BY GoodParts, DictionaryTypes
<1>2. PICK a \in Nat : a = DP(dict) /\ a # 0
  BY <1>1
<1>3. Leads(dict, d, {a}) /\ d \in Dictionaries /\ a \in DOMAIN d.code
  BY <1>1, <1>2, DummyLeads
<1>4. /\ Leads(d, e, {}) /\ e \in Dictionaries /\ e.peep = <<>> /\ DOMAIN e.code = DOMAIN d.code
      /\ \A y \in fixes : y.at \in DOMAIN d.code => SettledIn(e.code[y.at], e)
  BY <1>3, PatchLeads
<1>5. PICK U : U = {a}
  OBVIOUS
<1>6. Leads(dict, e, U)
  <2>1. Leads(dict, e, {a} \cup {})
    BY <1>1, <1>3, <1>4, LeadsOn
  <2>2. {a} \cup {} = U
    BY <1>5
  <2>3. QED BY <2>1, <2>2
<1>7. DropsSettled(ctl, n, e)
  BY <1>4, FixesDrop
<1>8. EntryIn(x, e)
  <2>1. Below(a, e)
    BY <1>3, <1>4 DEF Below
  <2>2. QED BY <1>2, <2>1 DEF EntryIn, Chained, ChainTags, OfTags
<1>9. x.tag # "colon" /\ ~IsLoop(x) /\ \A b \in U : OwedBy(b, x)
  BY <1>2, <1>5 DEF IsLoop, OwedBy
<1>10. PeepIn(e)
  BY <1>4, EmptyPeep
<1>11. Good(e, k2, cont)
  BY <1>4, <1>6, <1>7, <1>8, <1>9, <1>10, GoodCutPush DEF NoLoops
<1>12. QED BY <1>4, <1>11

LEMMA OfFixOK ==
  ASSUME Good(dict, ctl, cont), NEW e \in Dictionaries, NEW U, Leads(dict, e, U), e.peep = <<>>,
         NEW k \in 1..Len(ctl), ctl[k].tag \in OfTags, ctl[Len(ctl)].tag \in OfTags,
         NEW x, x = OfFix(k, DP(e))
  PROVE  FixOK(x, e) /\ x.at = ctl[k].addr
<1>1. dict \in Dictionaries /\ ctl \in Seq(Entries) /\ EntriesIn(dict, ctl) /\ ControlGood(ctl) /\ Len(ctl) \in Nat
  BY GoodParts
<1>2. PICK y \in Entries : y = ctl[k] /\ y.tag \in OfTags
  BY <1>1
<1>3. PICK z \in Entries : z = ctl[Len(ctl)] /\ z.tag \in OfTags
  BY <1>1
<1>4. Peek(0) = z
  BY <1>1, <1>3 DEF Peek
<1>5. PICK to \in Nat : to = (IF k = Len(ctl) THEN DP(e) ELSE z.addr + 1) /\ LabelIn(to, ClearPeephole(e))
  <2>1. CASE k = Len(ctl)
    BY <2>1, HereLabel
  <2>2. CASE k # Len(ctl)
    <3>1. EntryIn(z, dict) /\ z.addr + 1 \in Nat
      BY <1>1, <1>3 DEF EntriesIn, Entries
    <3>2. LabelIn(z.addr + 1, dict)
      BY <1>3, <3>1 DEF EntryIn
    <3>3. LabelIn(z.addr + 1, e)
      BY <3>1, <3>2 DEF Leads, KeepsLabels
    <3>4. LabelIn(z.addr + 1, ClearPeephole(e))
      BY <3>1, <3>3, LabelClear
    <3>5. QED BY <2>2, <3>1, <3>4
  <2>3. QED BY <2>1, <2>2
<1>6. PICK type : type = (CASE y.tag = "ofif" -> IF k = Len(ctl) THEN "branchZ" ELSE "branchNZ"
                            [] OTHER -> IF k = Len(ctl) THEN "caseF" ELSE "caseT")
  OBVIOUS
<1>7. type \in {"branchZ", "branchNZ", "caseF", "caseT"}
  BY <1>6
<1>8. PICK ops : ops = IF y.tag = "ofEx" THEN <<y.op>> ELSE <<>>
  OBVIOUS
<1>9. ops \in Seq(Doable)
  <2>1. CASE y.tag = "ofEx"
    <3>1. EntryGood(y)
      BY <1>1, <1>2 DEF ControlGood
    <3>2. y.op \in Doable
      BY <2>1, <3>1 DEF EntryGood
    <3>3. <<y.op>> \in Seq(Doable)
      BY <3>2, Singleton
    <3>4. QED BY <1>8, <2>1, <3>3
  <2>2. CASE y.tag # "ofEx"
    BY <1>8, <2>2
  <2>3. QED BY <2>1, <2>2
<1>10. PICK c : c = [type |-> type, ops |-> ops, to |-> to]
  OBVIOUS
<1>11. c \in Opcodes /\ c.type = type /\ c.to = to
  BY <1>7, <1>9, <1>10 DEF Opcodes, OpcodeTypes, Branching, Conditional
<1>12. x = [at |-> y.addr, cell |-> c]
  <2>1. x = [at |-> y.addr, cell |-> [Branch(type, to) EXCEPT !.ops = ops]]
    BY <1>2, <1>4, <1>5, <1>6, <1>8 DEF OfFix
  <2>2. [Branch(type, to) EXCEPT !.ops = ops] = c
    BY <1>10 DEF Branch
  <2>3. QED BY <2>1, <2>2
<1>13. SettledIn(c, ClearPeephole(e)) /\ c.type # "data"
  BY <1>5, <1>7, <1>11 DEF SettledIn, Target
<1>14. QED BY <1>2, <1>11, <1>12, <1>13 DEF FixOK

LEMMA EndofGood ==
  ASSUME Good(dict, ctl, cont), NEW w, Endof(w)
  PROVE  Good(dict', ctl', cont') /\ dict'.peep = <<>>
<1>1. dict \in Dictionaries /\ ctl \in Seq(Entries) /\ Len(ctl) \in Nat /\ DP(dict) \in Nat
  BY GoodParts, DictionaryTypes
<1>2. PICK n : n = CaseEntry
  OBVIOUS
<1>3. n \in 1..Len(ctl) /\ \A k \in n+1..Len(ctl) : ctl[k].tag \in OfTags
  BY <1>1, <1>2, CaseEntryIs DEF Endof, AcceptsEndof
<1>4. PICK d : d = CompileDummy(dict)
  OBVIOUS
<1>5. Leads(dict, d, {DP(dict)}) /\ d \in Dictionaries /\ d.peep = <<>>
  BY <1>1, <1>4, DummyLeads
<1>6. PICK fixes : fixes = {OfFix(k, DP(d)) : k \in n+1..Len(ctl)}
  OBVIOUS
<1>7. ASSUME NEW k \in n+1..Len(ctl), NEW x, x = OfFix(k, DP(d))
      PROVE  FixOK(x, d) /\ x.at = ctl[k].addr
  <2>1. k \in 1..Len(ctl) /\ Len(ctl) \in n+1..Len(ctl)
    BY <1>1, <1>3
  <2>2. ctl[k].tag \in OfTags /\ ctl[Len(ctl)].tag \in OfTags
    BY <1>3, <2>1
  <2>3. QED BY <1>5, <1>7, <2>1, <2>2, OfFixOK
<1>8. FixesOK(fixes, d)
  BY <1>6, <1>7 DEF FixesOK
<1>9. FixesAbove(ctl, n, fixes)
  <2>1. ASSUME NEW i \in n+1..Len(ctl) PROVE \E x \in fixes : x.at = ctl[i].addr
    <3>1. PICK x : x = OfFix(i, DP(d))
      OBVIOUS
    <3>2. x \in fixes /\ x.at = ctl[i].addr
      BY <1>6, <1>7, <3>1
    <3>3. QED BY <3>2
  <2>2. QED BY <2>1 DEF FixesAbove
<1>10. NoLoops(ctl, n)
  <2>1. \A i \in n+1..Len(ctl) : ~IsLoop(ctl[i])
    BY <1>3 DEF OfTags, IsLoop
  <2>2. QED BY <1>1, <1>3, <2>1 DEF NoLoops
<1>11. PICK x : x = Entry("case", DP(dict), 0)
  OBVIOUS
<1>12. x \in Entries /\ x.addr = DP(dict) /\ x.tag = "case"
  <2>1. "case" \in Tags /\ 0 \in Nat \cup Doable
    BY DEF Tags
  <2>2. QED BY <1>1, <1>11, <2>1, EntryTyped
<1>13. EntryGood(x) /\ x.tag \in {"else", "case"}
  BY <1>12 DEF EntryGood
<1>14. PICK e : e = ClearPeephole(Patch(d, fixes))
  OBVIOUS
<1>15. dict' = e
  <2>1. dict' = Patch(d, fixes)
    BY <1>2, <1>4, <1>6 DEF Endof
  <2>2. PICK t : t = PatchedCode(d.code, fixes)
    OBVIOUS
  <2>3. Patch(d, fixes) = [code |-> t, peep |-> <<>>]
    BY <1>5, <2>2, PatchIs
  <2>4. e = [code |-> t, peep |-> <<>>]
    BY <1>14, <2>3 DEF ClearPeephole
  <2>5. QED BY <2>1, <2>3, <2>4
<1>16. ctl' = Append(SubSeq(ctl, 1, n), x) /\ cont' = cont
  BY <1>2, <1>11 DEF Endof
<1>17. PICK k2 : k2 = ctl'
  OBVIOUS
<1>18. Good(e, k2, cont) /\ e.peep = <<>>
  BY <1>4, <1>8, <1>9, <1>10, <1>12, <1>13, <1>14, <1>16, <1>17, FixDummyGood
<1>19. QED BY <1>15, <1>16, <1>17, <1>18

\* l will be a label once the peephole is cleared.
Label(l, e) == l \in Nat /\ LabelIn(l, ClearPeephole(e))

LEMMA ChainEntries ==
  ASSUME Good(dict, ctl, cont), ChainOK, NEW k \in ChainStart..Len(ctl)
  PROVE  k \in 1..Len(ctl) /\ ctl[k] \in Entries /\ ChainEntryIn(ctl[k], dict)
<1>1. ctl \in Seq(Entries) /\ EntriesIn(dict, ctl) /\ Len(ctl) \in Nat
  BY GoodParts
<1>2. k \in 1..Len(ctl) /\ ctl[k].tag \in Chained
  BY <1>1, ChainStartIs
<1>3. EntryIn(ctl[k], dict)
  BY <1>1, <1>2 DEF EntriesIn
<1>4. QED BY <1>1, <1>2, <1>3 DEF EntryIn

LEMMA ChainLabel ==
  ASSUME Good(dict, ctl, cont), ChainOK, NEW k \in ChainStart..Len(ctl),
         NEW e \in Dictionaries, NEW U, Leads(dict, e, U)
  PROVE  Label(ctl[k].addr + 1, e)
<1>1. PICK x \in Entries : x = ctl[k] /\ ChainEntryIn(x, dict)
  BY ChainEntries
<1>2. x.addr + 1 \in Nat /\ LabelIn(x.addr + 1, dict)
  BY <1>1 DEF ChainEntryIn, Entries
<1>3. LabelIn(x.addr + 1, e)
  BY <1>2 DEF Leads, KeepsLabels
<1>4. QED BY <1>1, <1>2, <1>3, LabelClear DEF Label

LEMMA MovedLabel ==
  ASSUME Good(dict, ctl, cont), ChainOK, NEW k \in ChainStart..Len(ctl),
         NEW e \in Dictionaries, NEW U, Leads(dict, e, U), NEW tag, NEW to, Label(to, e)
  PROVE  Label(MovedBy(tag, k, to), e)
<1>1. PICK S : S = {j \in k+1..Len(ctl) : ctl[j].tag = tag}
  OBVIOUS
<1>2. MovedBy(tag, k, to) = IF S = {} THEN to ELSE ctl[Min(S) - 1].addr + 1
  BY <1>1 DEF MovedBy
<1>3. CASE S = {}
  BY <1>2, <1>3
<1>4. CASE S # {}
  <2>1. ctl \in Seq(Entries) /\ Len(ctl) \in Nat /\ ChainStart \in 1..Len(ctl)
    BY GoodParts, ChainStartIs
  <2>2. S \in SUBSET Nat
    BY <1>1, <2>1
  <2>3. PICK m : m = Min(S)
    OBVIOUS
  <2>4. m \in S
    BY <1>4, <2>2, <2>3, LeastIs
  <2>5. m \in k+1..Len(ctl)
    BY <1>1, <2>4
  <2>6. m - 1 \in ChainStart..Len(ctl)
    BY <2>1, <2>5
  <2>7. Label(ctl[m - 1].addr + 1, e)
    BY <2>6, ChainLabel
  <2>8. QED BY <1>2, <1>4, <2>3, <2>7
<1>5. QED BY <1>3, <1>4

LEMMA ChainFixGood ==
  ASSUME Good(dict, ctl, cont), ChainOK, NEW k \in ChainStart..Len(ctl),
         NEW e \in Dictionaries, NEW U, Leads(dict, e, U),
         NEW trueIP, Label(trueIP, e), NEW falseIP, Label(falseIP, e),
         NEW x, x = ChainFix(k, trueIP, falseIP)
  PROVE  FixOK(x, e) /\ x.at = ctl[k].addr /\ x.at \in 1..Len(dict.code) /\ x.cell \in Opcodes
<1>1. PICK y \in Entries : y = ctl[k] /\ ChainEntryIn(y, dict)
  BY ChainEntries
<1>2. dict \in Dictionaries
  BY GoodParts
<1>3. PICK type, to : /\ type \in {"branchZ", "branchNZ"} /\ Label(to, e)
                      /\ x = [at |-> y.addr, cell |-> Patched(dict.code[y.addr], type, to)]
  <2>1. CASE k < Len(ctl) /\ ctl[k + 1].tag = "orif"
    <3>1. x = [at |-> y.addr, cell |-> Patched(dict.code[y.addr], "branchNZ", trueIP)]
      BY <1>1, <2>1 DEF ChainFix
    <3>2. QED BY <3>1
  <2>2. CASE ~(k < Len(ctl) /\ ctl[k + 1].tag = "orif")
    <3>1. x = [at |-> y.addr, cell |-> Patched(dict.code[y.addr], "branchZ", falseIP)]
      BY <1>1, <2>2 DEF ChainFix
    <3>2. QED BY <3>1
  <2>3. QED BY <2>1, <2>2
<1>4. to \in Nat /\ LabelIn(to, ClearPeephole(e))
  BY <1>3 DEF Label
<1>5. FixOK(x, e) /\ x.at = y.addr /\ x.at \in 1..Len(dict.code) /\ x.cell \in Opcodes
  BY <1>1, <1>2, <1>3, <1>4, ChainFixOK
<1>6. QED BY <1>1, <1>5

\* The fixes for the entries from the m-th on.
FixesFor(fixes, d, e, k, m) == /\ FixesOK(fixes, e) /\ CellsIn(fixes, Len(d.code))
                               /\ \A i \in m..Len(k) : \E x \in fixes : x.at = k[i].addr

LEMMA FixesAboveChain ==
  ASSUME NEW n \in Nat, NEW m, m = n + 1, NEW fixes, NEW d, NEW e, NEW k, FixesFor(fixes, d, e, k, m)
  PROVE  FixesAbove(k, n, fixes)
  BY DEF FixesFor, FixesAbove

LEMMA TopOfChain ==
  ASSUME Good(dict, ctl, cont), ChainOK
  PROVE  Len(ctl) \in ChainStart..Len(ctl) /\ Peek(0) = ctl[Len(ctl)]
<1>1. ctl \in Seq(Entries) /\ Len(ctl) \in Nat /\ ChainStart \in 1..Len(ctl)
  BY GoodParts, ChainStartIs
<1>2. QED BY <1>1 DEF Peek

LEMMA ElseFixesGood ==
  ASSUME Good(dict, ctl, cont), ChainOK, NEW e, e = CompileDummy(dict)
  PROVE  FixesFor(ElseFixes, dict, e, ctl, ChainStart)
<1>1. dict \in Dictionaries /\ DP(dict) \in Nat
  BY GoodParts, DictionaryTypes
<1>2. PICK U : U = {DP(dict)}
  OBVIOUS
<1>3. Leads(dict, e, U) /\ e \in Dictionaries /\ DP(e) = DP(dict) + 1
  BY <1>1, <1>2, DummyLeads
<1>4. Label(DP(dict) + 1, e)
  BY <1>3, HereLabel DEF Label
<1>5. Label(Peek(0).addr + 1, e)
  <2>1. Label(ctl[Len(ctl)].addr + 1, e)
    BY <1>3, TopOfChain, ChainLabel
  <2>2. QED BY <2>1, TopOfChain
<1>6. ASSUME NEW k \in ChainStart..Len(ctl), NEW x,
             x = ChainFix(k, MovedBy("andif", k, Peek(0).addr + 1), MovedBy("orif", k, DP(dict) + 1))
      PROVE  FixOK(x, e) /\ x.at = ctl[k].addr /\ x.at \in 1..Len(dict.code) /\ x.cell \in Opcodes
  <2>1. PICK t : t = MovedBy("andif", k, Peek(0).addr + 1)
    OBVIOUS
  <2>2. PICK f : f = MovedBy("orif", k, DP(dict) + 1)
    OBVIOUS
  <2>3. Label(t, e) /\ Label(f, e)
    BY <1>3, <1>4, <1>5, <2>1, <2>2, MovedLabel
  <2>4. x = ChainFix(k, t, f)
    BY <1>6, <2>1, <2>2
  <2>5. QED BY <1>3, <2>3, <2>4, ChainFixGood
<1>7. ASSUME NEW x \in ElseFixes
      PROVE  FixOK(x, e) /\ x.at \in 1..Len(dict.code) /\ x.cell \in Opcodes
  <2>1. PICK k \in ChainStart..Len(ctl) :
          x = ChainFix(k, MovedBy("andif", k, Peek(0).addr + 1), MovedBy("orif", k, DP(dict) + 1))
    BY DEF ElseFixes
  <2>2. QED BY <1>6, <2>1
<1>8. ASSUME NEW i \in ChainStart..Len(ctl) PROVE \E x \in ElseFixes : x.at = ctl[i].addr
  <2>1. PICK x : x = ChainFix(i, MovedBy("andif", i, Peek(0).addr + 1), MovedBy("orif", i, DP(dict) + 1))
    OBVIOUS
  <2>2. x \in ElseFixes
    BY <2>1 DEF ElseFixes
  <2>3. QED BY <1>6, <2>1, <2>2
<1>9. QED BY <1>7, <1>8 DEF FixesFor, FixesOK, CellsIn

LEMMA EndifFixesGood ==
  ASSUME Good(dict, ctl, cont), ChainOK
  PROVE  FixesFor(EndifFixes, dict, dict, ctl, ChainStart)
<1>1. dict \in Dictionaries
  BY GoodParts
<1>2. PICK U : U = {}
  OBVIOUS
<1>3. Leads(dict, dict, U)
  BY LeadsSame
<1>4. Label(DP(dict), dict)
  BY <1>1, HereLabel DEF Label
<1>5. Label(Peek(0).addr + 1, dict)
  <2>1. Label(ctl[Len(ctl)].addr + 1, dict)
    BY <1>1, <1>3, TopOfChain, ChainLabel
  <2>2. QED BY <2>1, TopOfChain
<1>6. ASSUME NEW k \in ChainStart..Len(ctl), NEW x, x = ChainFix(k, Peek(0).addr + 1, DP(dict))
      PROVE  FixOK(x, dict) /\ x.at = ctl[k].addr /\ x.at \in 1..Len(dict.code) /\ x.cell \in Opcodes
  <2>1. PICK t : t = Peek(0).addr + 1
    OBVIOUS
  <2>2. x = ChainFix(k, t, DP(dict)) /\ Label(t, dict)
    BY <1>5, <1>6, <2>1
  <2>3. QED BY <1>1, <1>3, <1>4, <2>2, ChainFixGood
<1>7. ASSUME NEW x \in EndifFixes
      PROVE  FixOK(x, dict) /\ x.at \in 1..Len(dict.code) /\ x.cell \in Opcodes
  <2>1. PICK k \in ChainStart..Len(ctl) : x = ChainFix(k, Peek(0).addr + 1, DP(dict))
    BY DEF EndifFixes
  <2>2. QED BY <1>6, <2>1
<1>8. ASSUME NEW i \in ChainStart..Len(ctl) PROVE \E x \in EndifFixes : x.at = ctl[i].addr
  <2>1. PICK x : x = ChainFix(i, Peek(0).addr + 1, DP(dict))
    OBVIOUS
  <2>2. x \in EndifFixes
    BY <2>1 DEF EndifFixes
  <2>3. QED BY <1>6, <2>1, <2>2
<1>9. QED BY <1>7, <1>8 DEF FixesFor, FixesOK, CellsIn

\* The address of an else is one the peephole cannot take back.
LEMMA ElseEntry ==
  ASSUME Good(dict, ctl, cont), NEW k \in 1..Len(ctl), ctl[k].tag = "else"
  PROVE  /\ ctl[k] \in Entries /\ ctl[k].op \in Nat /\ ~IsLoop(ctl[k])
         /\ ctl[k].addr \in 1..Len(dict.code)
<1>1. /\ ctl \in Seq(Entries) /\ EntriesIn(dict, ctl) /\ ControlGood(ctl)
      /\ DOMAIN dict.code = 1..Len(dict.code)
  BY GoodParts, DictionaryTypes
<1>2. PICK x \in Entries : x = ctl[k] /\ x.tag = "else"
  BY <1>1
<1>3. EntryIn(x, dict) /\ EntryGood(x)
  BY <1>1, <1>2 DEF EntriesIn, ControlGood
<1>4. QED BY <1>1, <1>2, <1>3 DEF EntryIn, EntryGood, IsLoop, Below

\* The entry of an else, with one more else to be fixed or the first.
LEMMA ElseStep ==
  ASSUME Good(dict, ctl, cont), NEW fixes, FixesOK(fixes, CompileDummy(dict)),
         CellsIn(fixes, Len(dict.code)),
         NEW n, NoLoops(ctl, n), FixesAbove(ctl, n, fixes), NEW count \in Nat,
         NEW e, e = CompileDummy(Patch(dict, fixes)),
         NEW k2, k2 = Append(SubSeq(ctl, 1, n), Entry("else", DP(dict), count))
  PROVE  Good(e, k2, cont) /\ e.peep = <<>>
<1>1. dict \in Dictionaries /\ DP(dict) \in Nat
  BY GoodParts, DictionaryTypes
<1>2. PICK x : x = Entry("else", DP(dict), count)
  OBVIOUS
<1>3. x \in Entries /\ x.addr = DP(dict) /\ x.tag = "else" /\ x.op = count
  <2>1. "else" \in Tags /\ count \in Nat \cup Doable
    BY DEF Tags
  <2>2. QED BY <1>1, <1>2, <2>1, EntryTyped
<1>4. EntryGood(x) /\ x.tag \in {"else", "case"}
  BY <1>3 DEF EntryGood
<1>5. PICK d : d = CompileDummy(dict)
  OBVIOUS
<1>6. e = ClearPeephole(Patch(d, fixes)) /\ FixesOK(fixes, d)
  BY <1>1, <1>5, PatchDummy
<1>7. k2 = Append(SubSeq(ctl, 1, n), x)
  BY <1>2
<1>8. QED BY <1>3, <1>4, <1>5, <1>6, <1>7, FixDummyGood

LEMMA ElseGood ==
  ASSUME Good(dict, ctl, cont), NEW w, Else(w)
  PROVE  Good(dict', ctl', cont') /\ dict'.peep = <<>>
<1>1. /\ dict \in Dictionaries /\ ctl \in Seq(Entries) /\ Len(ctl) \in Nat /\ DP(dict) \in Nat
  BY GoodParts, DictionaryTypes
<1>2. cont' = cont /\ AcceptsElse
  BY DEF Else
<1>3. PICK e, k2 : e = dict' /\ k2 = ctl'
  OBVIOUS
<1>4. PICK d : d = CompileDummy(dict)
  OBVIOUS
<1>5. d \in Dictionaries /\ DP(d) = DP(dict) + 1
  BY <1>1, <1>4, DummyLeads
<1>6. CASE Peek(0).tag = "else"
  <2>1. /\ Peek(0) = ctl[Len(ctl)] /\ Len(ctl) > 0 /\ Len(ctl) \in 1..Len(ctl)
    BY <1>1, <1>6, PeekIs
  <2>2. PICK a : a = Peek(0).addr
    OBVIOUS
  <2>3. a \in 1..Len(dict.code) /\ ~IsLoop(ctl[Len(ctl)])
    BY <1>6, <2>1, <2>2, ElseEntry
  <2>4. PICK x : x = [at |-> a, cell |-> Branch("branch", DP(dict) + 1)]
    OBVIOUS
  <2>5. FixOK(x, d) /\ x.at = a /\ x.cell \in Opcodes
    BY <1>5, <2>4, HereLabel, BranchFixOK
  <2>6. PICK fixes : fixes = {x}
    OBVIOUS
  <2>7. FixesOK(fixes, d) /\ CellsIn(fixes, Len(dict.code))
    BY <2>3, <2>5, <2>6 DEF FixesOK, CellsIn
  <2>8. PICK n \in Nat : n = Len(ctl) - 1 /\ Len(ctl) = n + 1 /\ n \in 0..Len(ctl)
    <3>1. PICK l : l = Len(ctl)
      OBVIOUS
    <3>2. l \in Nat /\ l > 0
      BY <1>1, <2>1, <3>1
    <3>3. l - 1 \in Nat /\ l = (l - 1) + 1 /\ l - 1 \in 0..l
      BY <3>2
    <3>4. QED BY <3>1, <3>3
  <2>9. \A i \in n+1..Len(ctl) : i = Len(ctl)
    BY <2>8
  <2>10. NoLoops(ctl, n) /\ FixesAbove(ctl, n, fixes)
    BY <2>1, <2>2, <2>3, <2>5, <2>6, <2>8, <2>9 DEF NoLoops, FixesAbove
  <2>11. e = CompileDummy(Patch(dict, fixes)) /\ k2 = Append(SubSeq(ctl, 1, n), Entry("else", DP(dict), 1))
    BY <1>3, <1>6, <2>2, <2>4, <2>6, <2>8 DEF Else, Dropped
  <2>12. Good(e, k2, cont) /\ e.peep = <<>>
    BY <1>4, <2>7, <2>10, <2>11, ElseStep
  <2>13. QED BY <1>2, <1>3, <2>12
<1>7. CASE Peek(0).tag # "else"
  <2>1. /\ ChainOK
        /\ ctl[ChainStart].tag = "elif" => ChainStart > 1 /\ ctl[ChainStart - 1].tag = "else"
    BY <1>2, <1>7 DEF AcceptsElse
  <2>2. PICK m : m = ChainStart
    OBVIOUS
  <2>3. m \in 1..Len(ctl) /\ NoLoops(ctl, m - 1)
    BY <1>1, <2>1, <2>2, ChainStartIs
  <2>4. PICK n \in Nat : n = m - 1 /\ m = n + 1 /\ n \in 0..Len(ctl)
    BY <1>1, <2>3
  <2>5. PICK fixes : fixes = ElseFixes
    OBVIOUS
  <2>6. FixesFor(fixes, dict, d, ctl, m)
    BY <1>4, <2>1, <2>2, <2>5, ElseFixesGood
  <2>7. FixesOK(fixes, d) /\ CellsIn(fixes, Len(dict.code))
    BY <2>6 DEF FixesFor
  <2>8. FixesAbove(ctl, n, fixes)
    BY <2>4, <2>6, FixesAboveChain
  <2>9. PICK below : below = SubSeq(ctl, 1, n)
    OBVIOUS
  <2>10. PICK count : count = IF ctl[m].tag = "elif" THEN Last(below).op + 1 ELSE 1
    OBVIOUS
  <2>11. count \in Nat
    <3>1. CASE ctl[m].tag = "elif"
      <4>1. n > 0 /\ ctl[n].tag = "else" /\ n \in 1..Len(ctl)
        BY <2>1, <2>2, <2>4, <3>1
      <4>2. ctl[n].op \in Nat
        BY <4>1, ElseEntry
      <4>3. Last(below) = ctl[n]
        BY <1>1, <2>9, <4>1 DEF Last
      <4>4. QED BY <2>10, <3>1, <4>2, <4>3
    <3>2. CASE ctl[m].tag # "elif"
      BY <2>10, <3>2
    <3>3. QED BY <3>1, <3>2
  <2>12. e = CompileDummy(Patch(dict, fixes)) /\ k2 = Append(below, Entry("else", DP(dict), count))
    BY <1>3, <1>7, <2>2, <2>4, <2>5, <2>9, <2>10 DEF Else
  <2>13. Good(e, k2, cont) /\ e.peep = <<>>
    BY <1>4, <2>3, <2>4, <2>7, <2>8, <2>9, <2>11, <2>12, ElseStep
  <2>14. QED BY <1>2, <1>3, <2>13
<1>8. QED BY <1>6, <1>7

LEMMA ElseBranchesGood ==
  ASSUME Good(dict, ctl, cont), NEW k \in 1..Len(ctl), ElsesOK(k)
  PROVE  /\ FixesOK(ElseBranches(k), dict)
         /\ ctl[k].op \in Nat /\ ctl[k].op <= k
         /\ \A i \in k - ctl[k].op + 1..k : /\ ~IsLoop(ctl[i])
                                            /\ \E x \in ElseBranches(k) : x.at = ctl[i].addr
<1>1. dict \in Dictionaries /\ ctl \in Seq(Entries) /\ Len(ctl) \in Nat
  BY GoodParts
<1>2. PICK op : op = ctl[k].op
  OBVIOUS
<1>3. ctl[k].tag = "else" /\ op <= k /\ \A j \in k - op + 1..k : ctl[j].tag = "else"
  BY <1>2 DEF ElsesOK
<1>4. op \in Nat
  BY <1>2, <1>3, ElseEntry
<1>5. PICK F : F = ElseBranches(k)
  OBVIOUS
<1>6. F = {[at |-> ctl[j].addr, cell |-> Branch("branch", DP(dict))] : j \in k - op + 1..k}
  BY <1>2, <1>5 DEF ElseBranches
<1>7. ASSUME NEW x \in F PROVE FixOK(x, dict)
  <2>1. PICK j \in k - op + 1..k : x = [at |-> ctl[j].addr, cell |-> Branch("branch", DP(dict))]
    BY <1>6
  <2>2. QED BY <1>1, <2>1, HereLabel, BranchFixOK
<1>8. ASSUME NEW i \in k - op + 1..k
      PROVE  ~IsLoop(ctl[i]) /\ \E x \in F : x.at = ctl[i].addr
  <2>1. i \in 1..Len(ctl) /\ ctl[i].tag = "else"
    BY <1>1, <1>3, <1>4
  <2>2. ~IsLoop(ctl[i])
    BY <2>1 DEF IsLoop
  <2>3. PICK x : x = [at |-> ctl[i].addr, cell |-> Branch("branch", DP(dict))]
    OBVIOUS
  <2>4. x \in F /\ x.at = ctl[i].addr
    BY <1>6, <2>3
  <2>5. QED BY <2>2, <2>4
<1>9. QED BY <1>2, <1>3, <1>4, <1>5, <1>7, <1>8 DEF FixesOK

\* The else on top of which endif works, or 0, and what Endif makes of it.
LastElse == CASE Peek(0).tag = "else" -> Len(ctl)
              [] Peek(0).tag = "ahead" -> 0
              [] ctl[ChainStart].tag = "elif" -> ChainStart - 1
              [] OTHER -> 0
FixedElses == IF LastElse = 0 THEN {} ELSE ElseBranches(LastElse)
FixedChain == CASE Peek(0).tag = "else" -> {}
                [] Peek(0).tag = "ahead" ->
                     {[at |-> Peek(0).addr, cell |-> Branch("branch", DP(dict))]}
                [] OTHER -> EndifFixes
LeftOver == CASE LastElse > 0 -> LastElse - ctl[LastElse].op
              [] Peek(0).tag = "ahead" -> Len(ctl) - 1
              [] OTHER -> ChainStart - 1

LEMMA EndifIs ==
  ASSUME NEW w, Endif(w)
  PROVE  /\ dict' = ClearPeephole(Patch(dict, FixedChain \cup FixedElses))
         /\ ctl' = SubSeq(ctl, 1, LeftOver) /\ cont' = cont
  BY DEF Endif, FixedChain, FixedElses, LeftOver, LastElse

LEMMA NoElif ==
  ASSUME ctl \in Seq(Entries), Peek(0).tag \in {"else", "ahead"}
  PROVE  ctl[ChainStart].tag # "elif" /\ ~ChainOK
<1>1. PICK n : n = Len(ctl)
  OBVIOUS
<1>2. n \in 1..Len(ctl) /\ Peek(0) = ctl[n] /\ n \in Nat /\ DOMAIN ctl = 1..n
  BY <1>1, PeekIs
<1>3. ~ChainOK
  <2>1. ASSUME ChainOK PROVE FALSE
    <3>1. \A j \in ChainStart..Len(ctl) : ctl[j].tag \in Chained
      BY <2>1, ChainStartIs
    <3>2. n \in ChainStart..Len(ctl)
      BY <1>1, <1>2, <2>1, ChainStartIs
    <3>3. ctl[n].tag \in Chained
      BY <3>1, <3>2
    <3>4. QED BY <1>2, <3>3 DEF Chained, ChainTags
  <2>2. QED BY <2>1
<1>4. ChainStart > 0
  <2>1. PICK S : S = {k \in DOMAIN ctl : ctl[k].tag \notin {"andif", "orif"}}
    OBVIOUS
  <2>2. ChainStart = IF S = {} THEN 0 ELSE Max(S)
    BY <2>1 DEF ChainStart
  <2>3. n \in S
    BY <1>2, <2>1
  <2>4. S \in SUBSET (0..n)
    BY <1>2, <2>1
  <2>5. PICK m : m = Max(S)
    OBVIOUS
  <2>6. m \in S
    BY <1>2, <2>3, <2>4, <2>5, GreatestIs
  <2>7. m > 0
    BY <1>2, <2>1, <2>6
  <2>8. QED BY <2>2, <2>3, <2>5, <2>7
<1>5. QED BY <1>3, <1>4 DEF ChainOK, ChainTags

\* What endif fixes, and what it leaves of the control stack.
EndifDoes(fixes, n) ==
  /\ FixesOK(fixes, dict) /\ NoLoops(ctl, n) /\ FixesAbove(ctl, n, fixes)
  /\ dict' = ClearPeephole(Patch(dict, fixes)) /\ ctl' = SubSeq(ctl, 1, n) /\ cont' = cont

LEMMA EndifElse ==
  ASSUME Good(dict, ctl, cont), NEW w, Endif(w), Peek(0).tag = "else"
  PROVE  \E fixes, n : EndifDoes(fixes, n)
<1>1. dict \in Dictionaries /\ ctl \in Seq(Entries) /\ Len(ctl) \in Nat
  BY GoodParts
<1>2. PICK k : k = Len(ctl)
  OBVIOUS
<1>3. k \in 1..Len(ctl) /\ Peek(0) = ctl[k] /\ k > 0
  BY <1>1, <1>2, PeekIs
<1>4. ElsesOK(k)
  <2>1. ~ChainOK
    BY <1>1, NoElif
  <2>2. QED BY <1>2, <2>1 DEF Endif, AcceptsEndif
<1>5. PICK F : F = ElseBranches(k)
  OBVIOUS
<1>6. PICK op : op = ctl[k].op
  OBVIOUS
<1>7. /\ FixesOK(F, dict) /\ op \in Nat /\ op <= k
      /\ \A i \in k - op + 1..k : ~IsLoop(ctl[i]) /\ \E x \in F : x.at = ctl[i].addr
  BY <1>3, <1>4, <1>5, <1>6, ElseBranchesGood
<1>8. PICK n : n = k - op
  OBVIOUS
<1>9. n \in 0..Len(ctl)
  BY <1>1, <1>2, <1>7, <1>8
<1>10. NoLoops(ctl, n) /\ FixesAbove(ctl, n, F)
  BY <1>2, <1>7, <1>8, <1>9 DEF NoLoops, FixesAbove
<1>11. dict' = ClearPeephole(Patch(dict, F)) /\ ctl' = SubSeq(ctl, 1, n) /\ cont' = cont
  <2>1. k # 0
    BY <1>3
  <2>2. /\ dict' = ClearPeephole(Patch(dict, {} \cup ElseBranches(k)))
        /\ ctl' = SubSeq(ctl, 1, k - ctl[k].op) /\ cont' = cont
    <3>1. LastElse = k
      BY <1>1, <1>2, NoElif DEF LastElse
    <3>2. FixedElses = ElseBranches(k) /\ FixedChain = {}
      BY <2>1, <3>1 DEF FixedElses, FixedChain
    <3>3. LeftOver = k - ctl[k].op
      BY <1>3, <3>1 DEF LeftOver
    <3>4. QED BY <3>2, <3>3, EndifIs
  <2>3. {} \cup F = F
    OBVIOUS
  <2>4. QED BY <1>5, <1>6, <1>8, <2>2, <2>3
<1>12. EndifDoes(F, n)
  BY <1>7, <1>10, <1>11 DEF EndifDoes
<1>13. QED BY <1>12

LEMMA EndifAhead ==
  ASSUME Good(dict, ctl, cont), NEW w, Endif(w), Peek(0).tag = "ahead"
  PROVE  \E fixes, n : EndifDoes(fixes, n)
<1>1. dict \in Dictionaries /\ ctl \in Seq(Entries) /\ Len(ctl) \in Nat
  BY GoodParts
<1>2. PICK k : k = Len(ctl)
  OBVIOUS
<1>3. k \in 1..Len(ctl) /\ Peek(0) = ctl[k] /\ k > 0
  BY <1>1, <1>2, PeekIs
<1>4. PICK x : x = [at |-> Peek(0).addr, cell |-> Branch("branch", DP(dict))]
  OBVIOUS
<1>5. FixOK(x, dict) /\ x.at = ctl[k].addr
  BY <1>1, <1>3, <1>4, HereLabel, BranchFixOK
<1>6. PICK F : F = {x}
  OBVIOUS
<1>7. FixesOK(F, dict)
  BY <1>5, <1>6 DEF FixesOK
<1>8. PICK n : n = k - 1
  OBVIOUS
<1>9. n \in 0..Len(ctl) /\ \A i \in n+1..Len(ctl) : i = k
  BY <1>1, <1>2, <1>3, <1>8
<1>10. NoLoops(ctl, n) /\ FixesAbove(ctl, n, F)
  <2>1. ~IsLoop(ctl[k])
    BY <1>3 DEF IsLoop
  <2>2. QED BY <1>5, <1>6, <1>9, <2>1 DEF NoLoops, FixesAbove
<1>11. dict' = ClearPeephole(Patch(dict, F)) /\ ctl' = SubSeq(ctl, 1, n) /\ cont' = cont
  <2>1. /\ dict' = ClearPeephole(Patch(dict, F \cup {}))
        /\ ctl' = SubSeq(ctl, 1, k - 1) /\ cont' = cont
    <3>1. LastElse = 0
      BY <1>1, NoElif DEF LastElse
    <3>2. FixedElses = {} /\ FixedChain = F
      BY <1>4, <1>6, <3>1 DEF FixedElses, FixedChain
    <3>3. LeftOver = k - 1
      BY <1>2, <3>1 DEF LeftOver
    <3>4. QED BY <3>2, <3>3, EndifIs
  <2>2. F \cup {} = F
    OBVIOUS
  <2>3. QED BY <1>8, <2>1, <2>2
<1>12. EndifDoes(F, n)
  BY <1>7, <1>10, <1>11 DEF EndifDoes
<1>13. QED BY <1>12

LEMMA EndifChain ==
  ASSUME Good(dict, ctl, cont), NEW w, Endif(w), Peek(0).tag \notin {"ahead", "else"}
  PROVE  \E fixes, n : EndifDoes(fixes, n)
<1>1. dict \in Dictionaries /\ ctl \in Seq(Entries) /\ Len(ctl) \in Nat
  BY GoodParts
<1>2. ChainOK /\ (ctl[ChainStart].tag = "elif" => ElsesOK(ChainStart - 1))
  BY DEF Endif, AcceptsEndif
<1>3. PICK m : m = ChainStart
  OBVIOUS
<1>4. m \in 1..Len(ctl) /\ NoLoops(ctl, m - 1)
  BY <1>1, <1>2, <1>3, ChainStartIs
<1>5. PICK k \in Nat : k = m - 1 /\ m = k + 1
  BY <1>1, <1>4
<1>6. PICK C : C = EndifFixes
  OBVIOUS
<1>7. FixesFor(C, dict, dict, ctl, m)
  BY <1>2, <1>3, <1>6, EndifFixesGood
<1>8. FixesOK(C, dict) /\ \A i \in m..Len(ctl) : \E x \in C : x.at = ctl[i].addr
  BY <1>7 DEF FixesFor
<1>9. CASE ctl[m].tag = "elif"
  <2>1. ElsesOK(k) /\ k > 0 /\ k \in 1..Len(ctl)
    BY <1>2, <1>3, <1>4, <1>5, <1>9 DEF ElsesOK
  <2>2. PICK E : E = ElseBranches(k)
    OBVIOUS
  <2>3. PICK op : op = ctl[k].op
    OBVIOUS
  <2>4. /\ FixesOK(E, dict) /\ op \in Nat /\ op <= k
        /\ \A i \in k - op + 1..k : ~IsLoop(ctl[i]) /\ \E x \in E : x.at = ctl[i].addr
    BY <2>1, <2>2, <2>3, ElseBranchesGood
  <2>5. PICK n : n = k - op
    OBVIOUS
  <2>6. PICK F : F = C \cup E
    OBVIOUS
  <2>7. FixesOK(F, dict)
    BY <1>8, <2>4, <2>6 DEF FixesOK
  <2>8. ASSUME NEW i \in n+1..Len(ctl)
        PROVE  ~IsLoop(ctl[i]) /\ \E x \in F : x.at = ctl[i].addr
    <3>1. CASE i \in k - op + 1..k
      BY <2>4, <2>6, <3>1
    <3>2. CASE i \in m..Len(ctl)
      <4>1. i \in (m - 1) + 1..Len(ctl)
        BY <1>4, <3>2
      <4>2. QED BY <1>4, <1>8, <2>6, <3>2, <4>1 DEF NoLoops
    <3>3. i \in k - op + 1..k \/ i \in m..Len(ctl)
      BY <1>1, <1>5, <2>4, <2>5
    <3>4. QED BY <3>1, <3>2, <3>3
  <2>9. n \in 0..Len(ctl)
    BY <1>1, <2>1, <2>4, <2>5
  <2>10. NoLoops(ctl, n) /\ FixesAbove(ctl, n, F)
    BY <2>8, <2>9 DEF NoLoops, FixesAbove
  <2>11. dict' = ClearPeephole(Patch(dict, F)) /\ ctl' = SubSeq(ctl, 1, n) /\ cont' = cont
    <3>1. k # 0
      BY <2>1
    <3>2. /\ dict' = ClearPeephole(Patch(dict, EndifFixes \cup ElseBranches(k)))
          /\ ctl' = SubSeq(ctl, 1, k - ctl[k].op) /\ cont' = cont
      <4>1. LastElse = k
        BY <1>3, <1>5, <1>9 DEF LastElse
      <4>2. FixedElses = ElseBranches(k) /\ FixedChain = EndifFixes
        BY <3>1, <4>1 DEF FixedElses, FixedChain
      <4>3. LeftOver = k - ctl[k].op
        BY <2>1, <4>1 DEF LeftOver
      <4>4. QED BY <4>2, <4>3, EndifIs
    <3>3. QED BY <1>6, <2>2, <2>3, <2>5, <2>6, <3>2
  <2>12. EndifDoes(F, n)
    BY <2>7, <2>10, <2>11 DEF EndifDoes
  <2>13. QED BY <2>12
<1>10. CASE ctl[m].tag # "elif"
  <2>1. FixesAbove(ctl, k, C) /\ NoLoops(ctl, k)
    BY <1>4, <1>5, <1>7, FixesAboveChain
  <2>2. dict' = ClearPeephole(Patch(dict, C)) /\ ctl' = SubSeq(ctl, 1, k) /\ cont' = cont
    <3>1. /\ dict' = ClearPeephole(Patch(dict, C \cup {}))
          /\ ctl' = SubSeq(ctl, 1, m - 1) /\ cont' = cont
      <4>1. LastElse = 0
        BY <1>3, <1>10 DEF LastElse
      <4>2. FixedElses = {} /\ FixedChain = C
        BY <1>6, <4>1 DEF FixedElses, FixedChain
      <4>3. LeftOver = m - 1
        BY <1>3, <4>1 DEF LeftOver
      <4>4. QED BY <4>2, <4>3, EndifIs
    <3>2. C \cup {} = C
      OBVIOUS
    <3>3. QED BY <1>5, <3>1, <3>2
  <2>3. EndifDoes(C, k)
    BY <1>8, <2>1, <2>2 DEF EndifDoes
  <2>4. QED BY <2>3
<1>11. QED BY <1>9, <1>10

LEMMA EndifGood ==
  ASSUME Good(dict, ctl, cont), NEW w, Endif(w)
  PROVE  Good(dict', ctl', cont') /\ dict'.peep = <<>>
<1>1. PICK fixes, n : EndifDoes(fixes, n)
  BY EndifElse, EndifAhead, EndifChain
<1>2. PICK e, k2 : e = dict' /\ k2 = ctl'
  OBVIOUS
<1>3. /\ FixesOK(fixes, dict) /\ NoLoops(ctl, n) /\ FixesAbove(ctl, n, fixes)
      /\ e = ClearPeephole(Patch(dict, fixes)) /\ k2 = SubSeq(ctl, 1, n) /\ cont' = cont
  BY <1>1, <1>2 DEF EndifDoes
<1>4. Good(e, k2, cont) /\ e.peep = <<>>
  BY <1>3, GoodFix DEF NoLoops
<1>5. QED BY <1>2, <1>3, <1>4

(* ------------- sections and what the shell leaves out of them ---------- *)

Segments == [pound : BOOLEAN, from : Nat, else : BOOLEAN, applies : BOOLEAN]
Pounds   == {x \in Segments : x.pound = TRUE}
Brackets == {x \in Segments : x.pound = FALSE}
Applying == {x \in Segments : x.applies = TRUE}
Shells   == [skipping : BOOLEAN, depth : Nat, bracket : {"none", "[else]", "[endif]"}, nested : Nat]

\* How many of the sections within section j are of kind K.
Inside(s, j, K) == Cardinality({i \in j+1..Len(s) : s[i] \in K})

\* All that is open applies and nothing is skipped, or lines are skipped from
\* section j on, or words are.
FirstOff(s, j) == j \in 1..Len(s) /\ s[j] \notin Applying /\ \A i \in 1..j-1 : s[i] \in Applying
ReadsAll(s, h) == /\ \A i \in 1..Len(s) : s[i] \in Applying
                  /\ h.skipping = FALSE /\ h.bracket = "none" /\ h.depth = 0
LinesFrom(s, h, j) == /\ FirstOff(s, j) /\ s[j] \in Pounds
                      /\ h.skipping = TRUE /\ h.bracket = "none"
                      /\ h.depth = Inside(s, j, Pounds)
WordsFrom(s, h, j) == /\ FirstOff(s, j) /\ s[j] \in Brackets
                      /\ h.skipping = FALSE /\ h.bracket # "none" /\ h.depth = 0
                      /\ h.nested = Inside(s, j, Brackets)
                      /\ h.bracket = "[endif]" => s[j].else = TRUE
ShellIn(s, h) == \/ ReadsAll(s, h)
                 \/ \E j \in 1..Len(s) : LinesFrom(s, h, j) \/ WordsFrom(s, h, j)

LEMMA SectionKinds ==
  ASSUME NEW x \in Segments
  PROVE  /\ x \in Pounds \/ x \in Brackets
         /\ ~(x \in Pounds /\ x \in Brackets)
         /\ x.pound = TRUE <=> x \in Pounds
         /\ x.applies = TRUE <=> x \in Applying
  BY DEF Pounds, Brackets, Applying, Segments

LEMMA InsideType ==
  ASSUME NEW s, Len(s) \in Nat, NEW j \in 1..Len(s), NEW K
  PROVE  /\ IsFiniteSet({i \in j+1..Len(s) : s[i] \in K}) /\ Inside(s, j, K) \in Nat
         /\ Inside(s, j, K) = 0 <=> \A i \in j+1..Len(s) : s[i] \notin K
<1>1. PICK n \in Nat : n = Len(s)
  OBVIOUS
<1>2. PICK S : S = {i \in j+1..n : s[i] \in K}
  OBVIOUS
<1>3. j \in Nat /\ S \in SUBSET (1..n)
  BY <1>1, <1>2
<1>3a. IsFiniteSet(1..n)
  BY FS_Interval
<1>4. IsFiniteSet(S)
  BY <1>3, <1>3a, FS_Subset
<1>5. Cardinality(S) \in Nat /\ (Cardinality(S) = 0 <=> S = {})
  BY <1>4, FS_CardinalityType, FS_EmptySet
<1>6. Inside(s, j, K) = Cardinality(S)
  BY <1>1, <1>2 DEF Inside
<1>7. QED BY <1>1, <1>2, <1>4, <1>5, <1>6

\* A section is opened inside j.
LEMMA InsidePush ==
  ASSUME NEW s, NEW t, NEW x, Len(s) \in Nat, Len(t) = Len(s) + 1, t[Len(s) + 1] = x,
         \A i \in 1..Len(s) : t[i] = s[i], NEW j \in 1..Len(s), NEW K
  PROVE  Inside(t, j, K) = IF x \in K THEN Inside(s, j, K) + 1 ELSE Inside(s, j, K)
<1>1. PICK n \in Nat : n = Len(s)
  OBVIOUS
<1>2. PICK S : S = {i \in j+1..n : s[i] \in K}
  OBVIOUS
<1>3. PICK T : T = {i \in j+1..n+1 : t[i] \in K}
  OBVIOUS
<1>4. T = IF x \in K THEN S \cup {n + 1} ELSE S
  <2>1. \A i \in j+1..n : t[i] = s[i]
    BY <1>1
  <2>2. t[n + 1] = x
    BY <1>1
  <2>3. \A i : i \in j+1..n+1 <=> i \in j+1..n \/ i = n + 1
    BY <1>1
  <2>4. QED BY <1>2, <1>3, <2>1, <2>2, <2>3
<1>5. n + 1 \notin S /\ IsFiniteSet(S)
  <2>1. IsFiniteSet({i \in j+1..Len(s) : s[i] \in K})
    BY InsideType
  <2>2. S = {i \in j+1..Len(s) : s[i] \in K}
    BY <1>1, <1>2
  <2>3. QED BY <1>1, <1>2, <2>1, <2>2
<1>6. Cardinality(T) = IF x \in K THEN Cardinality(S) + 1 ELSE Cardinality(S)
  BY <1>4, <1>5, FS_AddElement
<1>7. QED BY <1>1, <1>2, <1>3, <1>6 DEF Inside

\* What one list of sections and another share: all, or all but the last.
LEMMA InsideSame ==
  ASSUME NEW s, NEW t, NEW n \in Nat, Len(s) = n, Len(t) = n, NEW j \in 1..n, NEW K,
         \A i \in 1..n : s[i] \in K <=> t[i] \in K
  PROVE  Inside(t, j, K) = Inside(s, j, K)
<1>1. {i \in j+1..n : s[i] \in K} = {i \in j+1..n : t[i] \in K}
  OBVIOUS
<1>2. QED BY <1>1 DEF Inside

LEMMA FirstOffKept ==
  ASSUME NEW s, NEW t, NEW j, FirstOff(s, j), Len(s) \in Nat, Len(t) \in Nat, j <= Len(t),
         \A i \in 1..j : t[i] = s[i]
  PROVE  FirstOff(t, j) /\ t[j] = s[j] /\ j \in 1..Len(t)
  BY DEF FirstOff

(* ------------------ what a directive does to sections ------------------ *)

Opened(t, s, x) == t \in Seq(Segments) /\ Len(t) = Len(s) + 1 /\ t[Len(s) + 1] = x /\ \A i \in 1..Len(s) : t[i] = s[i]
\* the last section is turned to y
Turned(t, s, y) == /\ t \in Seq(Segments) /\ Len(t) = Len(s) /\ t[Len(s)] = y
                   /\ \A i \in 1..Len(s)-1 : t[i] = s[i]
Shortened(t, s) == t \in Seq(Segments) /\ Len(t) = Len(s) - 1 /\ \A i \in 1..Len(s)-1 : t[i] = s[i]
\* y is section x behind its else
OtherHalf(y, x) == /\ y \in Segments /\ y.else = TRUE
                   /\ y \in Pounds <=> x \in Pounds
                   /\ y \in Brackets <=> x \in Brackets
                   /\ y \in Applying <=> x \notin Applying

Holding == {"#if true", "#ifdef true", "[if] true"}
NewSection(w) == [pound |-> w \in PoundIfs, from |-> Len(words), else |-> FALSE, applies |-> w \in Holding]
LEMMA AfterIfIs ==
  ASSUME NEW w \in Ifs
  PROVE  SectionsAfter(w) = Append(sections, NewSection(w))
<1>1. PICK x : x = NewSection(w)
  OBVIOUS
<1>2. x = [pound |-> w \in PoundIfs, from |-> Len(words), else |-> FALSE,
           applies |-> w \in {"#if true", "#ifdef true", "[if] true"}]
  BY <1>1 DEF NewSection, Holding
<1>3. ~(w \in {"#else", "[else]"}) /\ ~(w \in {"#endif", "[endif]"})
  BY DEF Ifs, PoundIfs, BracketIfs
<1>4. SectionsAfter(w) = Append(sections, x)
  BY <1>2, <1>3 DEF SectionsAfter
<1>5. QED BY <1>1, <1>4

LEMMA AfterIf ==
  ASSUME sections \in Seq(Segments), Len(words) \in Nat, NEW w \in Ifs
  PROVE  \E x \in Segments :
           /\ Opened(SectionsAfter(w), sections, x)
           /\ x \in Pounds <=> w \in PoundIfs
           /\ x \in Brackets <=> w \in BracketIfs
           /\ x \in Applying <=> w \in Holding
<1>1. PICK p : p = (w \in PoundIfs)
  OBVIOUS
<1>2. PICK q : q = (w \in Holding)
  OBVIOUS
<1>2a. p \in BOOLEAN
  BY <1>1
<1>2b. q \in BOOLEAN
  BY <1>2
<1>3. PICK x : x = [pound |-> p, from |-> Len(words), else |-> FALSE, applies |-> q]
  OBVIOUS
<1>4. x \in Segments /\ x.pound = p /\ x.applies = q
  BY <1>2a, <1>2b, <1>3 DEF Segments
<1>5. SectionsAfter(w) = Append(sections, x)
  BY <1>1, <1>2, <1>3, AfterIfIs DEF NewSection
<1>6. PICK s \in Seq(Segments) : s = sections
  OBVIOUS
<1>7. Opened(Append(s, x), s, x)
  BY <1>4 DEF Opened
<1>8. x \in Pounds <=> p = TRUE
  BY <1>4 DEF Pounds
<1>9. x \in Brackets <=> p = FALSE
  BY <1>4 DEF Brackets
<1>10. x \in Applying <=> q = TRUE
  BY <1>4 DEF Applying
<1>11. w \in PoundIfs <=> w \notin BracketIfs
  BY DEF Ifs, PoundIfs, BracketIfs
<1>12. QED BY <1>1, <1>2, <1>2a, <1>2b, <1>4, <1>5, <1>6, <1>7, <1>8, <1>9, <1>10, <1>11

LEMMA FrontIs ==
  ASSUME NEW S, NEW s \in Seq(S), s # <<>>
  PROVE  /\ Front(s) \in Seq(S) /\ Len(s) \in Nat \ {0} /\ Len(Front(s)) = Len(s) - 1
         /\ \A i \in 1..Len(s)-1 : Front(s)[i] = s[i]
         /\ Last(s) = s[Len(s)] /\ Last(s) \in S
<1>1. PICK n \in Nat : n = Len(s) /\ n > 0
  OBVIOUS
<1>2. PICK f : f = SubSeq(s, 1, n - 1)
  OBVIOUS
<1>3. f \in Seq(S) /\ Len(f) = n - 1 /\ \A i \in 1..n-1 : f[i] = s[i]
  BY <1>1, <1>2
<1>4. Front(s) = f /\ Last(s) = s[n] /\ s[n] \in S
  BY <1>1, <1>2 DEF Front, Last
<1>5. QED BY <1>1, <1>3, <1>4

LEMMA AfterElse ==
  ASSUME sections \in Seq(Segments), sections # <<>>, NEW w \in {"#else", "[else]"}
  PROVE  \E y : OtherHalf(y, Last(sections)) /\ Turned(SectionsAfter(w), sections, y)
<1>1. PICK s \in Seq(Segments) : s = sections
  OBVIOUS
<1>2. PICK x \in Segments : x = Last(s)
  BY <1>1, FrontIs
<1>3. PICK a \in BOOLEAN, p \in BOOLEAN : a = x.applies /\ p = x.pound
  BY DEF Segments
<1>4. PICK y : y = [x EXCEPT !.applies = ~x.applies, !.else = TRUE]
  OBVIOUS
<1>5. PICK b \in BOOLEAN : b = ~x.applies
  OBVIOUS
<1>6. y = [pound |-> x.pound, from |-> x.from, else |-> TRUE, applies |-> b]
  BY <1>4, <1>5 DEF Segments
<1>7. y \in Segments /\ y.else = TRUE /\ y.pound = x.pound /\ y.applies = b
  BY <1>6 DEF Segments
<1>8. (y \in Pounds <=> x \in Pounds) /\ (y \in Brackets <=> x \in Brackets)
  BY <1>7 DEF Pounds, Brackets
<1>9. b = TRUE <=> ~(x.applies = TRUE)
  BY <1>3, <1>5
<1>10. y \in Applying <=> x \notin Applying
  BY <1>7, <1>9 DEF Applying
<1>11. SectionsAfter(w) = Append(Front(s), y)
  BY <1>1, <1>2, <1>4 DEF SectionsAfter, Ifs, PoundIfs, BracketIfs
<1>12a. PICK n \in Nat : n = Len(s)
  OBVIOUS
<1>12b. PICK f : f = Front(s)
  OBVIOUS
<1>12. f \in Seq(Segments) /\ Len(f) = n - 1 /\ n > 0 /\ \A i \in 1..n-1 : f[i] = s[i]
  BY <1>1, <1>12a, <1>12b, FrontIs
<1>13. Turned(Append(f, y), s, y)
  BY <1>7, <1>12, <1>12a DEF Turned
<1>14. QED BY <1>1, <1>2, <1>7, <1>8, <1>10, <1>11, <1>12b, <1>13 DEF OtherHalf

LEMMA AfterEndif ==
  ASSUME sections \in Seq(Segments), sections # <<>>, NEW w \in {"#endif", "[endif]"}
  PROVE  Shortened(SectionsAfter(w), sections)
<1>1. SectionsAfter(w) = Front(sections)
  BY DEF SectionsAfter, Ifs, PoundIfs, BracketIfs
<1>2. QED BY <1>1, FrontIs DEF Shortened

\* Where a directive may be, by the words before it.
LEMMA FitsSections ==
  ASSUME sections \in Seq(Segments), NEW w, Fits(w)
  PROVE  /\ w \in {"#else", "#endif"} =>
              /\ sections # <<>> /\ Last(sections) \in Pounds
              /\ w = "#else" => ~(Last(sections).else = TRUE)
         /\ w \in {"[else]", "[endif]"} =>
              /\ sections # <<>> /\ Last(sections) \in Brackets
              /\ w = "[else]" => ~(Last(sections).else = TRUE)
<1>1. w \in PoundWords \cup BracketWords /\ w \notin Ifs => FitsDirective(w)
  BY DEF Fits
<1>2. CASE w \in {"#else", "#endif"}
  <2>1. w \notin Ifs /\ w \in PoundWords
    BY <1>2 DEF Ifs, PoundIfs, BracketIfs, PoundWords
  <2>2. sections # <<>> /\ Last(sections).pound /\ (w = "#else" => ~Last(sections).else)
    BY <1>1, <1>2, <2>1 DEF FitsDirective
  <2>3. PICK x \in Segments : x = Last(sections)
    BY <2>2, FrontIs
  <2>4. x \in Pounds /\ (w = "#else" => ~(x.else = TRUE))
    BY <2>2, <2>3 DEF Pounds, Segments
  <2>5. QED BY <1>2, <2>2, <2>3, <2>4
<1>3. CASE w \in {"[else]", "[endif]"}
  <2>1. w \notin Ifs /\ w \in BracketWords
    BY <1>3 DEF Ifs, PoundIfs, BracketIfs, BracketWords
  <2>2. sections # <<>> /\ ~Last(sections).pound /\ (w = "[else]" => ~Last(sections).else)
    BY <1>1, <1>3, <2>1 DEF FitsDirective
  <2>3. PICK x \in Segments : x = Last(sections)
    BY <2>2, FrontIs
  <2>4. x \in Brackets /\ (w = "[else]" => ~(x.else = TRUE))
    BY <2>2, <2>3 DEF Brackets, Segments
  <2>5. QED BY <1>3, <2>2, <2>3, <2>4
<1>4. QED BY <1>2, <1>3

\* The last section is the only one that does not apply.
LEMMA LastOff ==
  ASSUME NEW t, NEW n \in Nat \ {0}, Len(t) = n, t[n] \notin Applying,
         \A i \in 1..n-1 : t[i] \in Applying
  PROVE  FirstOff(t, n) /\ \A K : Inside(t, n, K) = 0
<1>1. FirstOff(t, n)
  BY DEF FirstOff
<1>2. ASSUME NEW K PROVE Inside(t, n, K) = 0
  <2>1. n \in 1..Len(t) /\ Len(t) \in Nat /\ n+1..Len(t) = {}
    OBVIOUS
  <2>2. QED BY <2>1, InsideType
<1>3. QED BY <1>1, <1>2

LEMMA OffOpened ==
  ASSUME NEW s, Len(s) \in Nat, NEW j \in 1..Len(s), FirstOff(s, j), NEW t, NEW x, Opened(t, s, x)
  PROVE  /\ FirstOff(t, j) /\ t[j] = s[j] /\ j \in 1..Len(t)
         /\ \A K : Inside(t, j, K) = IF x \in K THEN Inside(s, j, K) + 1 ELSE Inside(s, j, K)
<1>1. Len(t) = Len(s) + 1 /\ t[Len(s) + 1] = x /\ \A i \in 1..Len(s) : t[i] = s[i]
  BY DEF Opened
<1>2. FirstOff(t, j) /\ t[j] = s[j] /\ j \in 1..Len(t)
  BY <1>1, FirstOffKept
<1>3. ASSUME NEW K PROVE Inside(t, j, K) = IF x \in K THEN Inside(s, j, K) + 1 ELSE Inside(s, j, K)
  BY <1>1, InsidePush
<1>4. QED BY <1>2, <1>3

LEMMA OffTurned ==
  ASSUME NEW s, Len(s) \in Nat, NEW j \in 1..Len(s), j < Len(s), FirstOff(s, j),
         NEW t, NEW y, Turned(t, s, y), OtherHalf(y, s[Len(s)])
  PROVE  /\ FirstOff(t, j) /\ t[j] = s[j] /\ j \in 1..Len(t)
         /\ Inside(t, j, Pounds) = Inside(s, j, Pounds)
         /\ Inside(t, j, Brackets) = Inside(s, j, Brackets)
<1>1. PICK n \in Nat : n = Len(s)
  OBVIOUS
<1>2. Len(t) = n /\ t[n] = y /\ \A i \in 1..n-1 : t[i] = s[i]
  BY <1>1 DEF Turned
<1>3. FirstOff(t, j) /\ t[j] = s[j] /\ j \in 1..Len(t)
  BY <1>1, <1>2, FirstOffKept
<1>4. /\ y \in Pounds <=> s[n] \in Pounds
      /\ y \in Brackets <=> s[n] \in Brackets
  BY <1>1 DEF OtherHalf
<1>5. ASSUME NEW K, y \in K <=> s[n] \in K PROVE Inside(t, j, K) = Inside(s, j, K)
  <2>1. \A i \in 1..n : s[i] \in K <=> t[i] \in K
    BY <1>2, <1>5
  <2>2. QED BY <1>1, <1>2, <2>1, InsideSame
<1>6. QED BY <1>3, <1>4, <1>5

LEMMA OffShortened ==
  ASSUME NEW s, Len(s) \in Nat, NEW j \in 1..Len(s), j < Len(s), FirstOff(s, j), NEW t, Shortened(t, s)
  PROVE  /\ FirstOff(t, j) /\ t[j] = s[j] /\ j \in 1..Len(t)
         /\ \A K : Inside(s, j, K) = IF s[Len(s)] \in K THEN Inside(t, j, K) + 1 ELSE Inside(t, j, K)
<1>1. PICK n \in Nat : n = Len(s)
  OBVIOUS
<1>2. Len(t) = n - 1 /\ \A i \in 1..n-1 : t[i] = s[i]
  BY <1>1 DEF Shortened
<1>3. FirstOff(t, j) /\ t[j] = s[j] /\ j \in 1..Len(t)
  BY <1>1, <1>2, FirstOffKept
<1>4. ASSUME NEW K PROVE Inside(s, j, K) = IF s[n] \in K THEN Inside(t, j, K) + 1 ELSE Inside(t, j, K)
  <2>1. PICK m \in Nat : m = n - 1 /\ n = m + 1
    BY <1>1
  <2>2. Len(t) = m /\ Len(s) = m + 1 /\ \A i \in 1..m : s[i] = t[i]
    BY <1>1, <1>2, <2>1
  <2>3. QED BY <1>1, <1>3, <2>1, <2>2, InsidePush
<1>5. QED BY <1>1, <1>3, <1>4

\* Behind the section that does not apply, everything does.
LEMMA OnTurned ==
  ASSUME NEW s, Len(s) \in Nat \ {0}, FirstOff(s, Len(s)),
         NEW t, NEW y, Turned(t, s, y), OtherHalf(y, s[Len(s)])
  PROVE  \A i \in 1..Len(t) : t[i] \in Applying
  BY DEF FirstOff, Turned, OtherHalf

LEMMA OnShortened ==
  ASSUME NEW s, Len(s) \in Nat \ {0}, FirstOff(s, Len(s)), NEW t, Shortened(t, s)
  PROVE  \A i \in 1..Len(t) : t[i] \in Applying
  BY DEF FirstOff, Shortened

\* Where the section is that a directive belongs to.
LEMMA LastWithin ==
  ASSUME NEW s, Len(s) \in Nat, NEW j \in 1..Len(s), NEW K
  PROVE  /\ s[Len(s)] \in K /\ Inside(s, j, K) = 0 => j = Len(s)
         /\ Inside(s, j, K) > 0 => j < Len(s)
         /\ (s[j] \in K /\ s[Len(s)] \notin K) => j < Len(s)
<1>1. Inside(s, j, K) \in Nat /\ (Inside(s, j, K) = 0 <=> \A i \in j+1..Len(s) : s[i] \notin K)
  BY InsideType
<1>2. j < Len(s) \/ j = Len(s)
  OBVIOUS
<1>3. j < Len(s) => Len(s) \in j+1..Len(s)
  OBVIOUS
<1>4. j = Len(s) => Inside(s, j, K) = 0
  BY <1>1
<1>5. QED BY <1>1, <1>2, <1>3, <1>4

(* ------------------------ the directives, one by one ------------------- *)

ShellGood == sections \in Seq(Segments) /\ shell \in Shells /\ ShellIn(sections, shell)

LEMMA ShellFields ==
  ASSUME NEW h \in Shells
  PROVE  /\ h = [skipping |-> h.skipping, depth |-> h.depth, bracket |-> h.bracket, nested |-> h.nested]
         /\ h.skipping \in BOOLEAN /\ h.depth \in Nat /\ h.nested \in Nat
         /\ h.bracket \in {"none", "[else]", "[endif]"}
  BY DEF Shells

\* What is in and what is left out, as the shell has it and as the reader has it.
LEMMA SkippingIs ==
  ASSUME ShellGood
  PROVE  /\ ~Skipping => ReadsAll(sections, shell) /\ Applies
         /\ SkipsLines => \E j \in 1..Len(sections) : LinesFrom(sections, shell, j)
         /\ SkipsWords => \E j \in 1..Len(sections) : WordsFrom(sections, shell, j)
         /\ Skipping => ~Applies
<1>1. PICK s \in Seq(Segments), h \in Shells : s = sections /\ h = shell
  BY DEF ShellGood
<1>2. ShellIn(s, h)
  BY <1>1 DEF ShellGood
<1>3. (SkipsLines <=> h.skipping = TRUE) /\ (SkipsWords <=> h.bracket # "none")
  BY <1>1, ShellFields DEF SkipsLines, SkipsWords
<1>4. Applies <=> \A i \in 1..Len(s) : s[i] \in Applying
  <2>1. DOMAIN s = 1..Len(s) /\ \A i \in 1..Len(s) : s[i] \in Segments
    OBVIOUS
  <2>2. \A i \in 1..Len(s) : s[i].applies <=> s[i] \in Applying
    BY <2>1 DEF Applying, Segments
  <2>3. QED BY <1>1, <2>1, <2>2 DEF Applies
<1>5. ReadsAll(s, h) => ~Skipping /\ Applies
  BY <1>3, <1>4 DEF ReadsAll, Skipping
<1>6. ASSUME NEW j \in 1..Len(s), LinesFrom(s, h, j) PROVE SkipsLines /\ ~SkipsWords /\ ~Applies
  BY <1>3, <1>4, <1>6 DEF LinesFrom, FirstOff
<1>7. ASSUME NEW j \in 1..Len(s), WordsFrom(s, h, j) PROVE SkipsWords /\ ~SkipsLines /\ ~Applies
  BY <1>3, <1>4, <1>7 DEF WordsFrom, FirstOff
<1>8. QED BY <1>1, <1>2, <1>5, <1>6, <1>7 DEF ShellIn, Skipping

\* A section is opened where everything applies.
LEMMA OpensOn ==
  ASSUME NEW s \in Seq(Segments), NEW h, ReadsAll(s, h), NEW t, NEW x, Opened(t, s, x)
  PROVE  /\ x \in Applying => \A i \in 1..Len(t) : t[i] \in Applying
         /\ x \notin Applying => FirstOff(t, Len(t)) /\ \A K : Inside(t, Len(t), K) = 0
         /\ Len(t) \in 1..Len(t) /\ t[Len(t)] = x
<1>1. PICK n \in Nat : n = Len(s)
  OBVIOUS
<1>2. Len(t) = n + 1 /\ t[n + 1] = x /\ \A i \in 1..n : t[i] \in Applying
  BY <1>1 DEF Opened, ReadsAll
<1>3. x \in Applying => \A i \in 1..n+1 : t[i] \in Applying
  BY <1>2
<1>4. x \notin Applying => FirstOff(t, n + 1) /\ \A K : Inside(t, n + 1, K) = 0
  BY <1>2, LastOff
<1>5. QED BY <1>1, <1>2, <1>3, <1>4

\* A section is turned where everything applies.
LEMMA TurnsOff ==
  ASSUME NEW s \in Seq(Segments), s # <<>>, NEW h, ReadsAll(s, h), NEW t, NEW y, Turned(t, s, y),
         OtherHalf(y, Last(s))
  PROVE  /\ FirstOff(t, Len(t)) /\ \A K : Inside(t, Len(t), K) = 0
         /\ Len(t) \in 1..Len(t) /\ t[Len(t)] = y
<1>1. PICK n \in Nat \ {0} : n = Len(s) /\ Last(s) = s[n]
  BY FrontIs
<1>2. Len(t) = n /\ t[n] = y /\ \A i \in 1..n-1 : t[i] \in Applying
  BY <1>1 DEF Turned, ReadsAll
<1>3. y \notin Applying
  BY <1>1 DEF OtherHalf, ReadsAll
<1>4. QED BY <1>2, <1>3, LastOff

\* Lines are skipped from here on, or words up to b.
LEMMA ShellSkips ==
  ASSUME NEW h \in Shells, h.depth = 0, h.bracket = "none", NEW g,
         g = [h EXCEPT !.skipping = TRUE, !.depth = 0] \/ g = [h EXCEPT !.skipping = TRUE]
  PROVE  g \in Shells /\ g.skipping = TRUE /\ g.depth = 0 /\ g.bracket = "none"
<1>1. CASE g = [h EXCEPT !.skipping = TRUE, !.depth = 0]
  BY <1>1 DEF Shells
<1>2. CASE g = [h EXCEPT !.skipping = TRUE]
  BY <1>2 DEF Shells
<1>3. QED BY <1>1, <1>2

LEMMA ShellSkipsWords ==
  ASSUME NEW h \in Shells, h.skipping = FALSE, h.depth = 0, NEW b \in {"[else]", "[endif]"},
         NEW g, g = [h EXCEPT !.bracket = b, !.nested = 0]
  PROVE  g \in Shells /\ g.skipping = FALSE /\ g.depth = 0 /\ g.bracket = b /\ g.nested = 0
  BY DEF Shells

LEMMA ShellNext ==
  ASSUME NEW t \in Seq(Segments), NEW g \in Shells, ShellIn(t, g), sections' = t, shell' = g
  PROVE  ShellGood'
  BY DEF ShellGood

\* The three ways to go on.
LEMMA GoesOn ==
  ASSUME NEW t \in Seq(Segments), \A i \in 1..Len(t) : t[i] \in Applying,
         NEW g \in Shells, g.skipping = FALSE, g.bracket = "none", g.depth = 0
  PROVE  ShellIn(t, g)
  BY DEF ShellIn, ReadsAll

LEMMA SkipsOn ==
  ASSUME NEW t \in Seq(Segments), NEW j \in 1..Len(t), FirstOff(t, j), t[j] \in Pounds,
         NEW g \in Shells, g.skipping = TRUE, g.bracket = "none", g.depth = Inside(t, j, Pounds)
  PROVE  ShellIn(t, g)
  BY DEF ShellIn, LinesFrom

LEMMA SkipsWordsOn ==
  ASSUME NEW t \in Seq(Segments), NEW j \in 1..Len(t), FirstOff(t, j), t[j] \in Brackets,
         NEW g \in Shells, g.skipping = FALSE, g.bracket # "none", g.depth = 0,
         g.nested = Inside(t, j, Brackets), g.bracket = "[endif]" => t[j].else = TRUE
  PROVE  ShellIn(t, g)
  BY DEF ShellIn, WordsFrom

LEMMA IfShell ==
  ASSUME ShellGood, Len(words) \in Nat, NEW w \in Ifs, ~Skipping, sections' = SectionsAfter(w),
         w \in Holding => shell' = shell,
         w \in PoundIfs \ Holding => shell' = [shell EXCEPT !.skipping = TRUE, !.depth = 0],
         w \in BracketIfs \ Holding => shell' = [shell EXCEPT !.bracket = "[else]", !.nested = 0]
  PROVE  ShellGood'
<1>1. PICK s \in Seq(Segments), h \in Shells : s = sections /\ h = shell
  BY DEF ShellGood
<1>2. ReadsAll(s, h)
  BY <1>1, SkippingIs
<1>3. PICK t, g : t = sections' /\ g = shell'
  OBVIOUS
<1>4. PICK x \in Segments : /\ Opened(t, s, x)
                            /\ x \in Pounds <=> w \in PoundIfs
                            /\ x \in Brackets <=> w \in BracketIfs
                            /\ x \in Applying <=> w \in Holding
  BY <1>1, <1>3, AfterIf
<1>5. t \in Seq(Segments)
  BY <1>4 DEF Opened
<1>6. /\ x \in Applying => \A i \in 1..Len(t) : t[i] \in Applying
      /\ x \notin Applying => FirstOff(t, Len(t)) /\ \A K : Inside(t, Len(t), K) = 0
      /\ Len(t) \in 1..Len(t) /\ t[Len(t)] = x
  BY <1>1, <1>2, <1>4, OpensOn
<1>7. h.skipping = FALSE /\ h.bracket = "none" /\ h.depth = 0
  BY <1>2 DEF ReadsAll
<1>9. CASE w \in Holding
  <2>1. ShellIn(t, h) /\ shell' = h
    BY <1>1, <1>4, <1>5, <1>6, <1>7, <1>9, GoesOn
  <2>2. QED BY <1>3, <1>5, <2>1, ShellNext
<1>10. CASE w \in PoundIfs \ Holding
  <2>1. g = [h EXCEPT !.skipping = TRUE, !.depth = 0] \/ g = [h EXCEPT !.skipping = TRUE]
    BY <1>1, <1>3, <1>10
  <2>2. g \in Shells /\ g.skipping = TRUE /\ g.depth = 0 /\ g.bracket = "none"
    BY <2>1, <1>7, ShellSkips
  <2>3. Inside(t, Len(t), Pounds) = 0 /\ FirstOff(t, Len(t)) /\ t[Len(t)] \in Pounds
    BY <1>4, <1>6, <1>10
  <2>4. ShellIn(t, g)
    BY <1>5, <1>6, <2>2, <2>3, SkipsOn
  <2>5. QED BY <1>3, <1>5, <2>2, <2>4, ShellNext
<1>11. CASE w \in BracketIfs \ Holding
  <2>1. g = [h EXCEPT !.bracket = "[else]", !.nested = 0]
    BY <1>1, <1>3, <1>11
  <2>2. g \in Shells /\ g.skipping = FALSE /\ g.depth = 0 /\ g.bracket = "[else]" /\ g.nested = 0
    BY <2>1, <1>7, ShellSkipsWords
  <2>3. Inside(t, Len(t), Brackets) = 0 /\ FirstOff(t, Len(t)) /\ t[Len(t)] \in Brackets
    BY <1>4, <1>6, <1>11
  <2>4. ShellIn(t, g)
    BY <1>5, <1>6, <2>2, <2>3, SkipsWordsOn
  <2>5. QED BY <1>3, <1>5, <2>2, <2>4, ShellNext
<1>12. QED BY <1>9, <1>10, <1>11 DEF Ifs

LEMMA ElseShell ==
  ASSUME ShellGood, NEW w \in {"#else", "[else]"}, Fits(w), ~Skipping, sections' = SectionsAfter(w),
         w = "#else" => shell' = [shell EXCEPT !.skipping = TRUE],
         w = "[else]" => shell' = [shell EXCEPT !.bracket = "[endif]", !.nested = 0]
  PROVE  ShellGood'
<1>1. PICK s \in Seq(Segments), h \in Shells : s = sections /\ h = shell
  BY DEF ShellGood
<1>2. ReadsAll(s, h)
  BY <1>1, SkippingIs
<1>3. PICK t, g : t = sections' /\ g = shell'
  OBVIOUS
<1>4. s # <<>> /\ (w = "#else" => Last(s) \in Pounds) /\ (w = "[else]" => Last(s) \in Brackets)
  BY <1>1, FitsSections
<1>5. PICK y : OtherHalf(y, Last(s)) /\ Turned(t, s, y)
  BY <1>1, <1>3, <1>4, AfterElse
<1>6. t \in Seq(Segments)
  BY <1>5 DEF Turned
<1>7. /\ FirstOff(t, Len(t)) /\ \A K : Inside(t, Len(t), K) = 0
      /\ Len(t) \in 1..Len(t) /\ t[Len(t)] = y
  BY <1>2, <1>4, <1>5, TurnsOff
<1>8. h.skipping = FALSE /\ h.bracket = "none" /\ h.depth = 0
  BY <1>2 DEF ReadsAll
<1>10. CASE w = "#else"
  <2>1. g = [h EXCEPT !.skipping = TRUE, !.depth = 0] \/ g = [h EXCEPT !.skipping = TRUE]
    BY <1>1, <1>3, <1>10
  <2>2. g \in Shells /\ g.skipping = TRUE /\ g.depth = 0 /\ g.bracket = "none"
    BY <2>1, <1>8, ShellSkips
  <2>3. Inside(t, Len(t), Pounds) = 0 /\ t[Len(t)] \in Pounds
    BY <1>4, <1>5, <1>7, <1>10 DEF OtherHalf
  <2>4. ShellIn(t, g)
    BY <1>6, <1>7, <2>2, <2>3, SkipsOn
  <2>5. QED BY <1>3, <1>6, <2>2, <2>4, ShellNext
<1>11. CASE w = "[else]"
  <2>1. g = [h EXCEPT !.bracket = "[endif]", !.nested = 0]
    BY <1>1, <1>3, <1>11
  <2>2. g \in Shells /\ g.skipping = FALSE /\ g.depth = 0 /\ g.bracket = "[endif]" /\ g.nested = 0
    BY <2>1, <1>8, ShellSkipsWords
  <2>3. Inside(t, Len(t), Brackets) = 0 /\ t[Len(t)] \in Brackets /\ t[Len(t)].else = TRUE
    BY <1>4, <1>5, <1>7, <1>11 DEF OtherHalf
  <2>4. ShellIn(t, g)
    BY <1>6, <1>7, <2>2, <2>3, SkipsWordsOn
  <2>5. QED BY <1>3, <1>6, <2>2, <2>4, ShellNext
<1>12. QED BY <1>10, <1>11

LEMMA EndifShell ==
  ASSUME ShellGood, NEW w \in {"#endif", "[endif]"}, Fits(w), ~Skipping, sections' = SectionsAfter(w),
         shell' = shell
  PROVE  ShellGood'
<1>1. PICK s \in Seq(Segments), h \in Shells : s = sections /\ h = shell
  BY DEF ShellGood
<1>2. ReadsAll(s, h)
  BY <1>1, SkippingIs
<1>3. PICK t : t = sections'
  OBVIOUS
<1>4. s # <<>>
  BY <1>1, FitsSections
<1>5. Shortened(t, s)
  BY <1>1, <1>3, <1>4, AfterEndif
<1>6. t \in Seq(Segments) /\ \A i \in 1..Len(t) : t[i] \in Applying
  BY <1>2, <1>4, <1>5 DEF Shortened, ReadsAll
<1>7. ShellIn(t, h)
  BY <1>2, <1>6, GoesOn DEF ReadsAll
<1>8. QED BY <1>1, <1>3, <1>6, <1>7, ShellNext

LEMMA ShellCounts ==
  ASSUME NEW h \in Shells, NEW d \in Nat, NEW g, g = [h EXCEPT !.depth = d]
  PROVE  g \in Shells /\ g.skipping = h.skipping /\ g.depth = d /\ g.bracket = h.bracket /\ g.nested = h.nested
  BY DEF Shells

LEMMA ShellNests ==
  ASSUME NEW h \in Shells, NEW n \in Nat, NEW g, g = [h EXCEPT !.nested = n]
  PROVE  g \in Shells /\ g.skipping = h.skipping /\ g.depth = h.depth /\ g.bracket = h.bracket /\ g.nested = n
  BY DEF Shells

LEMMA ShellStops ==
  ASSUME NEW h \in Shells, h.depth = 0, NEW g,
         \/ g = [h EXCEPT !.skipping = FALSE] /\ h.bracket = "none"
         \/ g = [h EXCEPT !.bracket = "none"] /\ h.skipping = FALSE
  PROVE  g \in Shells /\ g.skipping = FALSE /\ g.depth = 0 /\ g.bracket = "none"
<1>1. CASE g = [h EXCEPT !.skipping = FALSE] /\ h.bracket = "none"
  BY <1>1 DEF Shells
<1>2. CASE g = [h EXCEPT !.bracket = "none"] /\ h.skipping = FALSE
  BY <1>2 DEF Shells
<1>3. QED BY <1>1, <1>2

\* What the directives in skipped text do, one kind at a time.
DirectiveKinds == PoundIfs \cup BracketIfs \cup {"#else", "[else]", "#endif", "[endif]"}
LEMMA DirectivesAre ==
  /\ PoundWords \cup BracketWords = DirectiveKinds
  /\ \A w \in DirectiveKinds : w \in PoundIfs => w \notin BracketIfs /\ w \notin {"#else", "[else]", "#endif", "[endif]"}
  /\ \A w \in DirectiveKinds : w \in BracketIfs => w \notin {"#else", "[else]", "#endif", "[endif]"}
  BY DEF PoundWords, BracketWords, DirectiveKinds, PoundIfs, BracketIfs

SkippedLine(w, h, g) ==
  /\ w \in PoundIfs => g = [h EXCEPT !.depth = h.depth + 1]
  /\ w \in {"#else", "#endif"} /\ h.depth = 0 => g = [h EXCEPT !.skipping = FALSE]
  /\ w = "#endif" /\ h.depth > 0 => g = [h EXCEPT !.depth = h.depth - 1]
  /\ w = "#else" /\ h.depth > 0 => g = h
  /\ w \in BracketIfs \cup {"[else]", "[endif]"} => g = h

LEMMA SkipLineIs ==
  ASSUME NEW w, SkipLine(w), shell \in Shells
  PROVE  SkippedLine(w, shell, shell') /\ w \in DirectiveKinds
<1>0. PICK g : g = shell'
  OBVIOUS
<1>1. PICK h \in Shells : h = shell /\ g = shell'
  BY <1>0
<1>2. PICK d \in Nat : d = h.depth
  BY ShellFields
<1>3. g = CASE w \in PoundIfs -> [h EXCEPT !.depth = d + 1]
            [] w \in {"#else", "#endif"} /\ d = 0 -> [h EXCEPT !.skipping = FALSE]
            [] w = "#endif" /\ d > 0 -> [h EXCEPT !.depth = d - 1]
            [] OTHER -> h
  BY <1>1, <1>2 DEF SkipLine
<1>4. w \in DirectiveKinds
  BY DirectivesAre DEF SkipLine
<1>5. CASE w \in PoundIfs
  <2>1. w \notin BracketIfs /\ w \notin {"#else", "[else]", "#endif", "[endif]"}
    BY <1>4, <1>5, DirectivesAre
  <2>2. g = [h EXCEPT !.depth = d + 1]
    BY <1>3, <1>5, <2>1
  <2>3. SkippedLine(w, h, g)
    BY <1>2, <2>1, <2>2 DEF SkippedLine
  <2>4. QED BY <1>1, <1>4, <2>3
<1>6. CASE w \notin PoundIfs
  <2>1. w \in {"#else", "#endif"} /\ d = 0 => g = [h EXCEPT !.skipping = FALSE]
    BY <1>3, <1>6
  <2>2. w = "#endif" /\ d > 0 => g = [h EXCEPT !.depth = d - 1]
    BY <1>3, <1>6
  <2>3. w = "#else" /\ d > 0 => g = h
    BY <1>3, <1>6
  <2>4. w \notin {"#else", "#endif"} => g = h
    BY <1>3, <1>6
  <2>5. w \in BracketIfs \cup {"[else]", "[endif]"} => w \notin {"#else", "#endif"}
    BY DirectivesAre, <1>4
  <2>6. SkippedLine(w, h, g)
    BY <1>2, <1>6, <2>1, <2>2, <2>3, <2>4, <2>5 DEF SkippedLine
  <2>7. QED BY <1>1, <1>4, <2>6
<1>7. QED BY <1>1, <1>4, <1>5, <1>6

LEMMA SkipLineShell ==
  ASSUME ShellGood, Len(words) \in Nat, NEW w, Fits(w), SkipsLines, SkipLine(w)
  PROVE  ShellGood'
<1>1. PICK s \in Seq(Segments), h \in Shells : s = sections /\ h = shell
  BY DEF ShellGood
<1>2. PICK j \in 1..Len(s) : LinesFrom(s, h, j)
  BY <1>1, SkippingIs
<1>3. PICK t, g : t = sections' /\ g = shell'
  OBVIOUS
<1>4. t = SectionsAfter(w) /\ SkippedLine(w, h, g) /\ w \in DirectiveKinds
  <2>1. sections' = SectionsAfter(w)
    BY DEF SkipLine, ReadDirective
  <2>2. QED BY <1>1, <1>3, <2>1, SkipLineIs
<1>5. PICK d \in Nat, n \in Nat \ {0} : d = h.depth /\ n = Len(s)
  BY ShellFields
<1>6. /\ FirstOff(s, j) /\ s[j] \in Pounds /\ j \in 1..n
      /\ h.skipping = TRUE /\ h.bracket = "none" /\ d = Inside(s, j, Pounds)
  BY <1>2, <1>5 DEF LinesFrom
<1>7. CASE w \in PoundIfs \cup BracketIfs
  <2>1. PICK x \in Segments : Opened(t, s, x) /\ (x \in Pounds <=> w \in PoundIfs)
    BY <1>1, <1>4, <1>7, AfterIf DEF Ifs
  <2>2. /\ FirstOff(t, j) /\ t[j] = s[j] /\ j \in 1..Len(t)
        /\ Inside(t, j, Pounds) = IF x \in Pounds THEN d + 1 ELSE d
    BY <1>5, <1>6, <2>1, OffOpened
  <2>3. t \in Seq(Segments)
    BY <2>1 DEF Opened
  <2>4. g \in Shells /\ g.skipping = TRUE /\ g.bracket = "none" /\ g.depth = Inside(t, j, Pounds)
    <3>1. CASE w \in PoundIfs
      <4>1. g = [h EXCEPT !.depth = d + 1] /\ d + 1 \in Nat
        BY <1>4, <1>5, <3>1 DEF SkippedLine
      <4>2. QED BY <1>6, <2>1, <2>2, <3>1, <4>1, ShellCounts
    <3>2. CASE w \in BracketIfs
      <4>1. g = h /\ w \notin PoundIfs
        BY <1>4, <3>2, DirectivesAre DEF SkippedLine
      <4>2. QED BY <1>5, <1>6, <2>1, <2>2, <4>1
    <3>3. QED BY <1>7, <3>1, <3>2
  <2>5. ShellIn(t, g)
    BY <1>6, <2>2, <2>3, <2>4, SkipsOn
  <2>6. QED BY <1>3, <2>3, <2>4, <2>5, ShellNext
<1>8. CASE w \in {"#else", "[else]"}
  <2>1. s # <<>> /\ (w = "#else" => s[n] \in Pounds) /\ (w = "[else]" => s[n] \in Brackets) /\ s[n] \in Segments
    <3>1. s # <<>> /\ (w = "#else" => Last(s) \in Pounds) /\ (w = "[else]" => Last(s) \in Brackets)
      BY <1>1, <1>8, FitsSections
    <3>2. Last(s) = s[n] /\ Last(s) \in Segments
      BY <1>5, <3>1, FrontIs
    <3>3. QED BY <3>1, <3>2
  <2>2. PICK y : OtherHalf(y, s[n]) /\ Turned(t, s, y)
    <3>1. \E y : OtherHalf(y, Last(s)) /\ Turned(SectionsAfter(w), s, y)
      BY <1>1, <1>8, <2>1, AfterElse
    <3>2. QED BY <1>4, <1>5, <2>1, <3>1, FrontIs
  <2>3. t \in Seq(Segments)
    BY <2>2 DEF Turned
  <2>4. CASE w = "#else" /\ d = 0
    <3>1. j = n
      BY <1>5, <1>6, <2>1, <2>4, LastWithin
    <3>2. \A i \in 1..Len(t) : t[i] \in Applying
      BY <1>5, <1>6, <2>2, <3>1, OnTurned
    <3>3. g = [h EXCEPT !.skipping = FALSE]
      BY <1>4, <1>5, <2>4 DEF SkippedLine
    <3>4. g \in Shells /\ g.skipping = FALSE /\ g.depth = 0 /\ g.bracket = "none"
      BY <1>5, <1>6, <2>4, <3>3, ShellStops
    <3>5. ShellIn(t, g)
      BY <2>3, <3>2, <3>4, GoesOn
    <3>6. QED BY <1>3, <2>3, <3>4, <3>5, ShellNext
  <2>5. CASE w = "[else]" \/ d > 0
    <3>1. j < n
      <4>1. w = "[else]" => s[n] \notin Pounds
        BY <2>1, SectionKinds
      <4>2. QED BY <1>5, <1>6, <2>5, <4>1, LastWithin
    <3>2. FirstOff(t, j) /\ t[j] = s[j] /\ j \in 1..Len(t) /\ Inside(t, j, Pounds) = d
      BY <1>5, <1>6, <2>2, <3>1, OffTurned
    <3>3. g = h
      BY <1>4, <1>5, <1>8, <2>5 DEF SkippedLine
    <3>4. ShellIn(t, g)
      BY <1>5, <1>6, <2>3, <3>2, <3>3, SkipsOn
    <3>5. QED BY <1>3, <2>3, <3>3, <3>4, ShellNext
  <2>6. QED BY <1>8, <2>4, <2>5
<1>9. CASE w \in {"#endif", "[endif]"}
  <2>1. s # <<>> /\ (w = "#endif" => s[n] \in Pounds) /\ (w = "[endif]" => s[n] \in Brackets) /\ s[n] \in Segments
    <3>1. s # <<>> /\ (w = "#endif" => Last(s) \in Pounds) /\ (w = "[endif]" => Last(s) \in Brackets)
      BY <1>1, <1>9, FitsSections
    <3>2. Last(s) = s[n] /\ Last(s) \in Segments
      BY <1>5, <3>1, FrontIs
    <3>3. QED BY <3>1, <3>2
  <2>2. Shortened(t, s)
    BY <1>1, <1>4, <1>9, <2>1, AfterEndif
  <2>3. t \in Seq(Segments)
    BY <2>2 DEF Shortened
  <2>4. CASE w = "#endif" /\ d = 0
    <3>1. j = n
      BY <1>5, <1>6, <2>1, <2>4, LastWithin
    <3>2. \A i \in 1..Len(t) : t[i] \in Applying
      BY <1>5, <1>6, <2>2, <3>1, OnShortened
    <3>3. g = [h EXCEPT !.skipping = FALSE]
      BY <1>4, <1>5, <2>4 DEF SkippedLine
    <3>4. g \in Shells /\ g.skipping = FALSE /\ g.depth = 0 /\ g.bracket = "none"
      BY <1>5, <1>6, <2>4, <3>3, ShellStops
    <3>5. ShellIn(t, g)
      BY <2>3, <3>2, <3>4, GoesOn
    <3>6. QED BY <1>3, <2>3, <3>4, <3>5, ShellNext
  <2>5. CASE w = "[endif]" \/ d > 0
    <3>0. w = "[endif]" => s[n] \notin Pounds
      BY <2>1, SectionKinds
    <3>1. j < n
      BY <1>5, <1>6, <2>5, <3>0, LastWithin
    <3>2. /\ FirstOff(t, j) /\ t[j] = s[j] /\ j \in 1..Len(t)
          /\ d = IF s[n] \in Pounds THEN Inside(t, j, Pounds) + 1 ELSE Inside(t, j, Pounds)
      BY <1>5, <1>6, <2>2, <3>1, OffShortened
    <3>3. Inside(t, j, Pounds) \in Nat
      <4>1. Len(t) \in Nat
        BY <2>3
      <4>2. QED BY <3>2, <4>1, InsideType
    <3>4. g \in Shells /\ g.skipping = TRUE /\ g.bracket = "none" /\ g.depth = Inside(t, j, Pounds)
      <4>1. CASE w = "#endif"
        <5>1. s[n] \in Pounds /\ d > 0 /\ Inside(t, j, Pounds) = d - 1 /\ d - 1 \in Nat
          BY <2>1, <2>5, <3>2, <3>3, <4>1
        <5>2. g = [h EXCEPT !.depth = d - 1]
          BY <1>4, <1>5, <4>1, <5>1 DEF SkippedLine
        <5>3. QED BY <1>6, <5>1, <5>2, ShellCounts
      <4>2. CASE w = "[endif]"
        <5>1. g = h
          BY <1>4, <4>2 DEF SkippedLine
        <5>2. QED BY <1>5, <1>6, <3>0, <3>2, <4>2, <5>1
      <4>3. QED BY <1>9, <4>1, <4>2
    <3>5. ShellIn(t, g)
      BY <1>6, <2>3, <3>2, <3>4, SkipsOn
    <3>6. QED BY <1>3, <2>3, <3>4, <3>5, ShellNext
  <2>6. QED BY <1>9, <2>4, <2>5
<1>10. QED BY <1>4, <1>7, <1>8, <1>9 DEF DirectiveKinds

SkippedText(w, h, g) ==
  /\ w \in BracketIfs => g = [h EXCEPT !.nested = h.nested + 1]
  /\ w \in {"[endif]", h.bracket} /\ w \in {"[else]", "[endif]"} /\ h.nested = 0 => g = [h EXCEPT !.bracket = "none"]
  /\ w = "[endif]" /\ h.nested > 0 => g = [h EXCEPT !.nested = h.nested - 1]
  /\ w = "[else]" /\ h.nested > 0 => g = h
  /\ w \in PoundIfs \cup {"#else", "#endif"} => g = h

LEMMA SkipTextIs ==
  ASSUME NEW w, SkipText(w), shell \in Shells
  PROVE  SkippedText(w, shell, shell') /\ w \in DirectiveKinds
<1>0. PICK g : g = shell'
  OBVIOUS
<1>1. PICK h \in Shells : h = shell /\ g = shell'
  BY <1>0
<1>2. PICK d \in Nat : d = h.nested
  BY ShellFields
<1>2a. PICK b \in {"none", "[else]", "[endif]"} : b = h.bracket
  BY ShellFields
<1>3. g = CASE w \in BracketIfs -> [h EXCEPT !.nested = d + 1]
            [] w \in {"[endif]", b} /\ d = 0 -> [h EXCEPT !.bracket = "none"]
            [] w = "[endif]" /\ d > 0 -> [h EXCEPT !.nested = d - 1]
            [] OTHER -> h
  BY <1>1, <1>2, <1>2a DEF SkipText
<1>3a. b # "none"
  BY <1>1, <1>2a DEF SkipText, SkipsWords
<1>4. w \in DirectiveKinds
  BY DirectivesAre DEF SkipText
<1>5. CASE w \in BracketIfs
  <2>1. w \notin PoundIfs /\ w \notin {"#else", "[else]", "#endif", "[endif]"}
    BY <1>4, <1>5, DirectivesAre
  <2>1a. w # "[endif]" /\ w # b
    BY <1>3a, <2>1
  <2>2. g = [h EXCEPT !.nested = d + 1]
    BY <1>3, <1>5, <2>1a
  <2>3. SkippedText(w, h, g)
    BY <1>2, <2>1, <2>2 DEF SkippedText
  <2>4. QED BY <1>1, <1>4, <2>3
<1>6. CASE w \notin BracketIfs
  <2>1. w \in {"[endif]", b} /\ d = 0 => g = [h EXCEPT !.bracket = "none"]
    BY <1>3, <1>6
  <2>2. w = "[endif]" /\ d > 0 => g = [h EXCEPT !.nested = d - 1]
    BY <1>3, <1>6
  <2>3. w = "[else]" /\ d > 0 => g = h
    BY <1>3, <1>6
  <2>4. w \notin {"[endif]", b} => g = h
    BY <1>3, <1>6
  <2>5. w \in PoundIfs \cup {"#else", "#endif"} => w \notin {"[else]", "[endif]"}
    BY DirectivesAre, <1>4
  <2>6. w \in PoundIfs \cup {"#else", "#endif"} => w \notin {"[endif]", b}
    BY <1>3a, <2>5
  <2>7. SkippedText(w, h, g)
    BY <1>2, <1>2a, <1>6, <2>1, <2>2, <2>3, <2>4, <2>6 DEF SkippedText
  <2>8. QED BY <1>1, <1>4, <2>7
<1>7. QED BY <1>1, <1>4, <1>5, <1>6

LEMMA SkipTextShell ==
  ASSUME ShellGood, Len(words) \in Nat, NEW w, Fits(w), SkipsWords, SkipText(w)
  PROVE  ShellGood'
<1>1. PICK s \in Seq(Segments), h \in Shells : s = sections /\ h = shell
  BY DEF ShellGood
<1>2. PICK j \in 1..Len(s) : WordsFrom(s, h, j)
  BY <1>1, SkippingIs
<1>3. PICK t, g : t = sections' /\ g = shell'
  OBVIOUS
<1>4. t = SectionsAfter(w) /\ SkippedText(w, h, g) /\ w \in DirectiveKinds
  <2>1. sections' = SectionsAfter(w)
    BY DEF SkipText, ReadDirective
  <2>2. QED BY <1>1, <1>3, <2>1, SkipTextIs
<1>5. PICK d \in Nat, n \in Nat \ {0} : d = h.nested /\ n = Len(s)
  BY ShellFields
<1>5a. PICK b \in {"[else]", "[endif]"} : b = h.bracket
  BY <1>2, ShellFields DEF WordsFrom
<1>6. /\ FirstOff(s, j) /\ s[j] \in Brackets /\ j \in 1..n
      /\ h.skipping = FALSE /\ h.depth = 0 /\ d = Inside(s, j, Brackets)
      /\ b = "[endif]" => s[j].else = TRUE
  BY <1>2, <1>5, <1>5a DEF WordsFrom
<1>7. CASE w \in PoundIfs \cup BracketIfs
  <2>1. PICK x \in Segments : Opened(t, s, x) /\ (x \in Brackets <=> w \in BracketIfs)
    BY <1>1, <1>4, <1>7, AfterIf DEF Ifs
  <2>2. /\ FirstOff(t, j) /\ t[j] = s[j] /\ j \in 1..Len(t)
        /\ Inside(t, j, Brackets) = IF x \in Brackets THEN d + 1 ELSE d
    BY <1>5, <1>6, <2>1, OffOpened
  <2>3. t \in Seq(Segments)
    BY <2>1 DEF Opened
  <2>4. g \in Shells /\ g.skipping = FALSE /\ g.bracket = b /\ g.depth = 0 /\ g.nested = Inside(t, j, Brackets)
    <3>1. CASE w \in BracketIfs
      <4>1. g = [h EXCEPT !.nested = d + 1] /\ d + 1 \in Nat
        BY <1>4, <1>5, <3>1 DEF SkippedText
      <4>2. QED BY <1>5a, <1>6, <2>1, <2>2, <3>1, <4>1, ShellNests
    <3>2. CASE w \in PoundIfs
      <4>1. g = h /\ w \notin BracketIfs
        BY <1>4, <3>2, DirectivesAre DEF SkippedText
      <4>2. QED BY <1>5, <1>5a, <1>6, <2>1, <2>2, <4>1
    <3>3. QED BY <1>7, <3>1, <3>2
  <2>5. ShellIn(t, g)
    BY <1>6, <2>2, <2>3, <2>4, SkipsWordsOn
  <2>6. QED BY <1>3, <2>3, <2>4, <2>5, ShellNext
<1>8. CASE w \in {"#else", "[else]"}
  <2>1. /\ s # <<>> /\ (w = "[else]" => s[n] \in Brackets /\ ~(s[n].else = TRUE))
        /\ (w = "#else" => s[n] \in Pounds) /\ s[n] \in Segments
    <3>1. /\ s # <<>> /\ (w = "#else" => Last(s) \in Pounds)
          /\ (w = "[else]" => Last(s) \in Brackets /\ ~(Last(s).else = TRUE))
      BY <1>1, <1>8, FitsSections
    <3>2. Last(s) = s[n] /\ Last(s) \in Segments
      BY <1>5, <3>1, FrontIs
    <3>3. QED BY <3>1, <3>2
  <2>2. PICK y : OtherHalf(y, s[n]) /\ Turned(t, s, y)
    <3>1. \E y : OtherHalf(y, Last(s)) /\ Turned(SectionsAfter(w), s, y)
      BY <1>1, <1>8, <2>1, AfterElse
    <3>2. QED BY <1>4, <1>5, <2>1, <3>1, FrontIs
  <2>3. t \in Seq(Segments)
    BY <2>2 DEF Turned
  <2>4. CASE w = "[else]" /\ d = 0
    <3>1. j = n
      BY <1>5, <1>6, <2>1, <2>4, LastWithin
    <3>2. \A i \in 1..Len(t) : t[i] \in Applying
      BY <1>5, <1>6, <2>2, <3>1, OnTurned
    <3>3. b = "[else]"
      BY <1>6, <2>1, <2>4, <3>1
    <3>4. g = [h EXCEPT !.bracket = "none"]
      BY <1>4, <1>5, <1>5a, <2>4, <3>3 DEF SkippedText
    <3>5. g \in Shells /\ g.skipping = FALSE /\ g.depth = 0 /\ g.bracket = "none"
      BY <1>6, <3>4, ShellStops
    <3>6. ShellIn(t, g)
      BY <2>3, <3>2, <3>5, GoesOn
    <3>7. QED BY <1>3, <2>3, <3>5, <3>6, ShellNext
  <2>5. CASE w = "#else" \/ d > 0
    <3>1. j < n
      <4>1. w = "#else" => s[n] \notin Brackets
        BY <2>1, SectionKinds
      <4>2. QED BY <1>5, <1>6, <2>5, <4>1, LastWithin
    <3>2. FirstOff(t, j) /\ t[j] = s[j] /\ j \in 1..Len(t) /\ Inside(t, j, Brackets) = d
      BY <1>5, <1>6, <2>2, <3>1, OffTurned
    <3>3. g = h
      BY <1>4, <1>5, <1>8, <2>5 DEF SkippedText
    <3>4. ShellIn(t, g)
      BY <1>5, <1>5a, <1>6, <2>3, <3>2, <3>3, SkipsWordsOn
    <3>5. QED BY <1>3, <2>3, <3>3, <3>4, ShellNext
  <2>6. QED BY <1>8, <2>4, <2>5
<1>9. CASE w \in {"#endif", "[endif]"}
  <2>1. s # <<>> /\ (w = "#endif" => s[n] \in Pounds) /\ (w = "[endif]" => s[n] \in Brackets) /\ s[n] \in Segments
    <3>1. s # <<>> /\ (w = "#endif" => Last(s) \in Pounds) /\ (w = "[endif]" => Last(s) \in Brackets)
      BY <1>1, <1>9, FitsSections
    <3>2. Last(s) = s[n] /\ Last(s) \in Segments
      BY <1>5, <3>1, FrontIs
    <3>3. QED BY <3>1, <3>2
  <2>2. Shortened(t, s)
    BY <1>1, <1>4, <1>9, <2>1, AfterEndif
  <2>3. t \in Seq(Segments)
    BY <2>2 DEF Shortened
  <2>4. CASE w = "[endif]" /\ d = 0
    <3>1. j = n
      BY <1>5, <1>6, <2>1, <2>4, LastWithin
    <3>2. \A i \in 1..Len(t) : t[i] \in Applying
      BY <1>5, <1>6, <2>2, <3>1, OnShortened
    <3>3. g = [h EXCEPT !.bracket = "none"]
      BY <1>4, <1>5, <2>4 DEF SkippedText
    <3>4. g \in Shells /\ g.skipping = FALSE /\ g.depth = 0 /\ g.bracket = "none"
      BY <1>6, <3>3, ShellStops
    <3>5. ShellIn(t, g)
      BY <2>3, <3>2, <3>4, GoesOn
    <3>6. QED BY <1>3, <2>3, <3>4, <3>5, ShellNext
  <2>5. CASE w = "#endif" \/ d > 0
    <3>0. w = "#endif" => s[n] \notin Brackets
      BY <2>1, SectionKinds
    <3>1. j < n
      BY <1>5, <1>6, <2>5, <3>0, LastWithin
    <3>2. /\ FirstOff(t, j) /\ t[j] = s[j] /\ j \in 1..Len(t)
          /\ d = IF s[n] \in Brackets THEN Inside(t, j, Brackets) + 1 ELSE Inside(t, j, Brackets)
      BY <1>5, <1>6, <2>2, <3>1, OffShortened
    <3>3. Inside(t, j, Brackets) \in Nat
      <4>1. Len(t) \in Nat
        BY <2>3
      <4>2. QED BY <3>2, <4>1, InsideType
    <3>4. g \in Shells /\ g.skipping = FALSE /\ g.bracket = b /\ g.depth = 0 /\ g.nested = Inside(t, j, Brackets)
      <4>1. CASE w = "[endif]"
        <5>1. s[n] \in Brackets /\ d > 0 /\ Inside(t, j, Brackets) = d - 1 /\ d - 1 \in Nat
          BY <2>1, <2>5, <3>2, <3>3, <4>1
        <5>2. g = [h EXCEPT !.nested = d - 1]
          BY <1>4, <1>5, <4>1, <5>1 DEF SkippedText
        <5>3. QED BY <1>5a, <1>6, <5>1, <5>2, ShellNests
      <4>2. CASE w = "#endif"
        <5>1. g = h
          BY <1>4, <4>2 DEF SkippedText
        <5>2. QED BY <1>5, <1>5a, <1>6, <3>0, <3>2, <4>2, <5>1
      <4>3. QED BY <1>9, <4>1, <4>2
    <3>5. ShellIn(t, g)
      BY <1>6, <2>3, <3>2, <3>4, SkipsWordsOn
    <3>6. QED BY <1>3, <2>3, <3>4, <3>5, ShellNext
  <2>6. QED BY <1>9, <2>4, <2>5
<1>10. QED BY <1>4, <1>7, <1>8, <1>9 DEF DirectiveKinds

(* ------------- what directives do to the other parts, and ";" ---------- *)

LEMMA MarkGood ==
  ASSUME NEW d, NEW k, NEW c, Good(d, k, c), NEW k2, k2 = Append(k, Entry("#if", 0, 0))
  PROVE  Good(d, k2, c)
<1>1. PICK x : x = Entry("#if", 0, 0)
  OBVIOUS
<1>2. x \in Entries /\ x.tag = "#if" /\ x.addr = 0
  <2>1. "#if" \in Tags /\ 0 \in Nat /\ 0 \in Nat \cup Doable
    BY DEF Tags
  <2>2. QED BY <1>1, <2>1, EntryTyped
<1>3. EntryGood(x) /\ x.tag # "colon" /\ ~IsLoop(x) /\ EntryIn(x, d)
  BY <1>2 DEF EntryGood, IsLoop, EntryIn, Chained, ChainTags, OfTags
<1>4. PICK U : U = {}
  OBVIOUS
<1>5. Leads(d, d, U) /\ \A a \in U : OwedBy(a, x)
  BY <1>4, LeadsSame
<1>6. d \in Dictionaries /\ PeepIn(d)
  BY GoodParts
<1>7. QED BY <1>1, <1>2, <1>3, <1>5, <1>6, GoodPush

LEMMA UnmarkGood ==
  ASSUME NEW d, NEW c, Good(d, ctl, c), Peek(0).tag = "#if", NEW k1, k1 = Dropped(1)
  PROVE  Good(d, k1, c)
<1>1. ctl \in Seq(Entries) /\ d \in Dictionaries /\ PeepIn(d)
  BY GoodParts
<1>2. PICK n \in Nat : n = Len(ctl) - 1 /\ Len(ctl) = n + 1
  BY <1>1, PeekIs
<1>3. Peek(0) = ctl[n + 1]
  BY <1>1, <1>2, PeekIs
<1>4. k1 = SubSeq(ctl, 1, n) /\ n \in 0..Len(ctl)
  BY <1>2 DEF Dropped
<1>5. ASSUME NEW i \in n+1..Len(ctl) PROVE ctl[i].tag = "#if"
  BY <1>2, <1>3
<1>6. \A i \in n+1..Len(ctl) : ~IsLoop(ctl[i])
  BY <1>5 DEF IsLoop
<1>7. DropsSettled(ctl, n, d)
  BY <1>5 DEF DropsSettled, OwedBy
<1>8. Leads(d, d, {})
  BY LeadsSame
<1>9. QED BY <1>1, <1>4, <1>6, <1>7, <1>8, GoodCut

\* What is left to do for a definition whose branches are all settled.
AllSettled(d) == \A a \in DOMAIN d.code : SettledIn(d.code[a], d)

LEMMA NothingOwed ==
  ASSUME NEW d, NEW k, NEW c, Good(d, k, c), Len(k) = 1, k[1].tag = "colon", c.count = 0
  PROVE  AllSettled(d)
<1>1. LoopsIn(k) = {}
  BY DEF LoopsIn, IsLoop
<1>2. Cardinality(SavedAt(c.stack)) = 0
  BY <1>1, FS_EmptySet DEF Good
<1>3a. PICK s : s = c.stack
  OBVIOUS
<1>3b. PICK n \in Nat : n = Len(s)
  BY <1>3a, GoodParts
<1>3. s = c.stack /\ n = Len(s)
  BY <1>3a, <1>3b
<1>4. SavedAt(s) = {}
  BY <1>2, <1>3, SavedFinite, FS_EmptySet
<1>5. Above(s, n, 0)
  BY <1>3 DEF Good, ContGood
<1>6. n = 0
  BY <1>3, <1>4, <1>5 DEF Above, SavedAt
<1>7. ASSUME NEW a \in DOMAIN d.code PROVE ~Owed(a, k, s)
  BY <1>3, <1>6 DEF Owed, OwedBy
<1>8. CodeIn(d, k, s)
  BY <1>3 DEF Good
<1>9. QED BY <1>7, <1>8 DEF CodeIn, AllSettled

\* No dummy is left, and every branch leads somewhere: to an opcode, unless it
\* is to a continue: that may be anywhere.
Resolved(d) == \A a \in DOMAIN d.code :
                 /\ d.code[a].type # "abort"
                 /\ d.code[a].type \in Branching =>
                      \/ d.code[a].to \in DOMAIN d.code /\ d.code[d.code[a].to].type # "data"
                      \/ OpsBeforeContinue /\ d.code[a].to # 0

\* Behind the exit that ";" compiles there is no place that branches may lead to.
LEMMA SemiSteps ==
  ASSUME NEW d \in Dictionaries, NEW e, e = CompileOpcode(ClearPeephole(d), Compiled("exit"))
  PROVE  /\ e \in Dictionaries /\ PeepIn(e) /\ Leads(d, e, {}) /\ e.peep # <<>>
<1>1. PICK f \in Dictionaries : f = ClearPeephole(d)
  BY ClearShape
<1>2. f.peep = <<>> /\ PeepIn(f) /\ Leads(d, f, {})
  BY <1>1, ClearShape, ClearLeads
<1>3. PICK x \in Opcodes : x = Compiled("exit") /\ x.type \in SimpleTypes
  BY CompiledType DEF Doable
<1>4. e \in Dictionaries /\ PeepIn(e) /\ Leads(f, e, {})
  BY <1>1, <1>2, <1>3, CompileSimple
<1>5. Leads(d, e, {})
  <2>1. Leads(d, e, {} \cup {})
    BY <1>1, <1>2, <1>4, LeadsOn
  <2>2. QED BY <2>1
<1>6. e.peep # <<>>
  <2>1. e = [code |-> f.code \o WithData(x), peep |-> Append(f.peep, DP(f))]
    BY <1>1, <1>2, <1>3 DEF CompileOpcode
  <2>2. e.peep = Append(f.peep, DP(f)) /\ f.peep \in Seq(Nat) /\ DP(f) \in Nat
    BY <2>1, DictionaryTypes
  <2>3. QED BY <2>2
<1>7. QED BY <1>4, <1>5, <1>6

LEMMA SemiGood ==
  ASSUME Good(dict, ctl, cont), Semi
  PROVE  Good(dict', ctl', cont') /\ dict'.peep = <<>> /\ Resolved(dict')
<1>1. /\ dict \in Dictionaries /\ PeepIn(dict) /\ ControlGood(ctl) /\ ctl \in Seq(Entries)
  BY GoodParts
<1>2. Peek(0).tag = "colon" /\ cont.count = 0
  <2>1. Accepts(";")
    BY DEF Semi
  <2>2. ";" \notin PoundWords \cup BracketWords
    BY DEF PoundWords, BracketWords, PoundIfs, BracketIfs
  <2>3. AcceptsWord(";")
    <3>1. Fits(";")
      BY DEF Semi
    <3>2. Applies
      BY <2>2, <3>1 DEF Fits
    <3>3. QED BY <2>1, <2>2, <3>2 DEF Accepts
  <2>4. QED BY <2>3 DEF AcceptsWord
<1>3. Len(ctl) = 1 /\ ctl[1].tag = "colon"
  <2>1. Len(ctl) > 0 /\ Peek(0) = ctl[Len(ctl)] /\ Len(ctl) \in 1..Len(ctl)
    BY <1>1, <1>2, PeekIs
  <2>2. QED BY <1>1, <1>2, <2>1 DEF ControlGood
<1>4. PICK e : e = CompileOpcode(ClearPeephole(dict), Compiled("exit"))
  OBVIOUS
<1>5. e \in Dictionaries /\ PeepIn(e) /\ Leads(dict, e, {}) /\ e.peep # <<>>
  BY <1>1, <1>4, SemiSteps
<1>6. Good(e, ctl, cont)
  BY <1>5, GoodSame
<1>7. AllSettled(e)
  BY <1>2, <1>3, <1>6, NothingOwed
<1>8. PICK f : f = ClearPeephole(e)
  OBVIOUS
<1>9. f \in Dictionaries /\ f.code = e.code /\ f.peep = <<>> /\ PeepIn(f) /\ Leads(e, f, {})
  BY <1>5, <1>8, ClearShape, ClearLeads
<1>10. Good(f, ctl, cont)
  BY <1>6, <1>9, GoodSame
<1>11. PICK k1 : k1 = SubSeq(ctl, 1, 0)
  OBVIOUS
<1>12. Good(f, k1, cont)
  <2>1. \A i \in 1..1 : ctl[i].tag = "colon"
    BY <1>3
  <2>2. DropsSettled(ctl, 0, f)
    BY <1>3, <2>1 DEF DropsSettled, OwedBy
  <2>3. \A i \in 1..1 : ~IsLoop(ctl[i])
    BY <2>1 DEF IsLoop
  <2>4. Leads(f, f, {}) /\ 0 \in 0..Len(ctl)
    BY <1>3, LeadsSame
  <2>5. PICK n : n = 0
    OBVIOUS
  <2>6. n \in 0..Len(ctl) /\ DropsSettled(ctl, n, f) /\ \A i \in n+1..Len(ctl) : ~IsLoop(ctl[i])
    BY <1>3, <2>2, <2>3, <2>4, <2>5
  <2>7. k1 = SubSeq(ctl, 1, n)
    BY <1>11, <2>5
  <2>8. QED BY <1>9, <1>10, <2>4, <2>6, <2>7, GoodCut
<1>13. Resolved(f)
  BY <1>5, <1>7, <1>9 DEF Resolved, AllSettled, SettledIn, LabelIn, Target
<1>14. dict' = f /\ ctl' = k1 /\ cont' = cont
  <2>1. Dropped(1) = k1
    <3>1. Len(ctl) - 1 = 0
      BY <1>3
    <3>2. QED BY <1>11, <3>1 DEF Dropped
  <2>2. QED BY <1>4, <1>8, <2>1 DEF Semi
<1>15. QED BY <1>9, <1>12, <1>13, <1>14

\* A definition that has just been begun.
LEMMA FreshGood ==
  ASSUME NEW d, d = [code |-> <<>>, peep |-> <<>>], NEW k, k = <<Entry("colon", 0, 0)>>,
         NEW c, c = [stack |-> <<>>, dest |-> 0, count |-> 0]
  PROVE  Good(d, k, c) /\ d.peep = <<>>
<1>1. d.code = <<>> /\ d.peep = <<>> /\ d \in Dictionaries
  BY DEF Dictionaries
<1>2. PICK x : x = Entry("colon", 0, 0)
  OBVIOUS
<1>3. x \in Entries /\ x.tag = "colon" /\ x.addr = 0
  <2>1. "colon" \in Tags /\ 0 \in Nat /\ 0 \in Nat \cup Doable
    BY DEF Tags
  <2>2. QED BY <1>2, <2>1, EntryTyped
<1>4. k = <<x>> /\ k \in Seq(Entries) /\ Len(k) = 1 /\ k[1] = x
  BY <1>2, <1>3
<1>5. ControlGood(k)
  BY <1>3, <1>4 DEF ControlGood, EntryGood
<1>6. c \in Conts /\ c.stack = <<>> /\ c.dest = 0 /\ c.count = 0
  BY DEF Conts
<1>7. ContGood(c)
  BY <1>6 DEF ContGood, Above, CountsGood
<1>8. SavedAt(c.stack) = {} /\ LoopsIn(k) = {}
  BY <1>3, <1>4, <1>6 DEF SavedAt, LoopsIn, IsLoop
<1>9. PeepIn(d) /\ CodeIn(d, k, c.stack)
  BY <1>1 DEF PeepIn, CodeIn
<1>10. EntriesIn(d, k)
  BY <1>3, <1>4 DEF EntriesIn, EntryIn, Chained, ChainTags, OfTags
<1>11. ContIn(d, c)
  BY <1>6 DEF ContIn, DestIn, Target
<1>12. QED BY <1>1, <1>5, <1>7, <1>8, <1>9, <1>10, <1>11 DEF Good

(* ----------------------- the inductive invariant ----------------------- *)

Vocabulary == UNION {f.words : f \in Families}
CompilerInv ==
  /\ family \in Families /\ words \in Seq(Vocabulary)
  /\ ShellGood
  /\ Good(dict, ctl, cont)
  /\ OpsBeforeContinue \/ (AtStatement => dict.peep = <<>>)
                                         \* only a plain word can be joined with the next
  /\ ~Compiling => Resolved(dict)

LEMMA CompilerStart ==
  ASSUME CompilerInit
  PROVE  CompilerInv
<1>1. Good(dict, ctl, cont) /\ dict.peep = <<>>
  BY FreshGood DEF CompilerInit, Fresh
<1>2. ShellGood
  <2>1. sections = <<>> /\ shell = [skipping |-> FALSE, depth |-> 0, bracket |-> "none", nested |-> 0]
    BY DEF CompilerInit, Fresh
  <2>2. shell \in Shells /\ shell.skipping = FALSE /\ shell.bracket = "none" /\ shell.depth = 0
    BY <2>1 DEF Shells
  <2>3. sections \in Seq(Segments) /\ \A i \in 1..Len(sections) : sections[i] \in Applying
    BY <2>1
  <2>4. QED BY <2>2, <2>3, GoesOn DEF ShellGood
<1>3. words \in Seq(Vocabulary) /\ family \in Families /\ Compiling
  BY DEF CompilerInit, Fresh, Compiling
<1>4. QED BY <1>1, <1>2, <1>3 DEF CompilerInv

LEMMA StartOverKeeps ==
  ASSUME CompilerInv, StartOver
  PROVE  CompilerInv'
<1>1. PICK d, k, c : d = dict' /\ k = ctl' /\ c = cont'
  OBVIOUS
<1>2. Good(d, k, c) /\ d.peep = <<>>
  BY <1>1, FreshGood DEF StartOver
<1>3. ShellGood'
  <2>1. PICK t, g : t = sections' /\ g = shell'
    OBVIOUS
  <2>2. t = <<>> /\ g = [skipping |-> FALSE, depth |-> 0, bracket |-> "none", nested |-> 0]
    BY <2>1 DEF StartOver
  <2>3. g \in Shells /\ g.skipping = FALSE /\ g.bracket = "none" /\ g.depth = 0
    BY <2>2 DEF Shells
  <2>4. t \in Seq(Segments) /\ \A i \in 1..Len(t) : t[i] \in Applying
    BY <2>2
  <2>5. QED BY <2>1, <2>3, <2>4, GoesOn, ShellNext
<1>4. words' \in Seq(Vocabulary) /\ family' \in Families /\ Compiling'
  BY DEF StartOver, Compiling, CompilerInv
<1>5. QED BY <1>1, <1>2, <1>3, <1>4 DEF CompilerInv

(* --------------------------- one word more ----------------------------- *)

Directive(w) == \/ PoundIf(w) \/ PoundIfdef(w) \/ PoundElse(w) \/ PoundEndif(w) \/ SkipLine(w)
                \/ BracketIf(w) \/ BracketElse(w) \/ BracketEndif(w) \/ SkipText(w)

\* The control stack is left alone, or a marker put on it or taken off.
MarksOnly == \/ ctl' = ctl
             \/ ctl' = Append(ctl, Entry("#if", 0, 0))
             \/ Peek(0).tag = "#if" /\ ctl' = Dropped(1)

LEMMA DirectiveLeaves ==
  ASSUME NEW w, Directive(w)
  PROVE  /\ UNCHANGED <<family, words, dict, cont, run>> /\ sections' = SectionsAfter(w)
         /\ MarksOnly
<1>1. ReadDirective(w)
  BY DEF Directive, PoundIf, PoundIfdef, PoundElse, PoundEndif, SkipLine, BracketIf, BracketElse,
         BracketEndif, SkipText
<1>2. ASSUME PoundIf(w) \/ PoundIfdef(w) PROVE MarksOnly
  BY <1>2 DEF PoundIf, PoundIfdef, Mark, MarksOnly
<1>3. ASSUME PoundEndif(w) PROVE MarksOnly
  BY <1>3 DEF PoundEndif, MarksOnly
<1>4. ASSUME SkipLine(w) PROVE MarksOnly
  <2>1. IF w = "#endif" /\ shell.depth = 0 THEN ctl' = Dropped(1) ELSE UNCHANGED ctl
    BY <1>4 DEF SkipLine
  <2>2. w = "#endif" /\ shell.depth = 0 => Peek(0).tag = "#if"
    BY <1>4 DEF SkipLine
  <2>3. QED BY <2>1, <2>2 DEF MarksOnly
<1>5. ASSUME PoundElse(w) \/ BracketIf(w) \/ BracketElse(w) \/ BracketEndif(w) \/ SkipText(w) PROVE MarksOnly
  BY <1>5 DEF PoundElse, BracketIf, BracketElse, BracketEndif, SkipText, MarksOnly
<1>6. UNCHANGED <<family, words, dict, cont, run>> /\ sections' = SectionsAfter(w)
  BY <1>1 DEF ReadDirective
<1>7. QED BY <1>2, <1>3, <1>4, <1>5, <1>6 DEF Directive

LEMMA DirectiveGood ==
  ASSUME Good(dict, ctl, cont), NEW w, Directive(w)
  PROVE  Good(dict', ctl', cont')
<1>1. PICK k2 : k2 = ctl'
  OBVIOUS
<1>2. dict' = dict /\ cont' = cont
  BY DirectiveLeaves
<1>3. CASE k2 = ctl
  BY <1>1, <1>2, <1>3
<1>4. CASE k2 = Append(ctl, Entry("#if", 0, 0))
  <2>1. Good(dict, k2, cont)
    BY <1>4, MarkGood
  <2>2. QED BY <1>1, <1>2, <2>1
<1>5. CASE Peek(0).tag = "#if" /\ k2 = Dropped(1)
  <2>1. Good(dict, k2, cont)
    BY <1>5, UnmarkGood
  <2>2. QED BY <1>1, <1>2, <2>1
<1>6. QED BY <1>1, <1>3, <1>4, <1>5, DirectiveLeaves DEF MarksOnly

\* What each of the directives does to the shell.
LEMMA PoundIfSkips ==
  ASSUME ShellGood, Len(words) \in Nat, NEW w, PoundIf(w) \/ PoundIfdef(w)
  PROVE  ShellGood'
<1>1. w \in PoundIfs /\ w \in Ifs /\ ~Skipping /\ sections' = SectionsAfter(w)
  BY DEF PoundIf, PoundIfdef, PoundIfs, Ifs, ReadDirective
<1>2. w \notin BracketIfs
  BY <1>1 DEF PoundIfs, BracketIfs
<1>3. w \in Holding => shell' = shell
  BY DEF PoundIf, PoundIfdef, Holding
<1>4. w \in PoundIfs \ Holding => shell' = [shell EXCEPT !.skipping = TRUE, !.depth = 0]
  BY DEF PoundIf, PoundIfdef, Holding, Skip
<1>5. QED BY <1>1, <1>2, <1>3, <1>4, IfShell

LEMMA BracketIfSkips ==
  ASSUME ShellGood, Len(words) \in Nat, NEW w, BracketIf(w)
  PROVE  ShellGood'
<1>1. w \in BracketIfs /\ w \in Ifs /\ ~Skipping /\ sections' = SectionsAfter(w)
  BY DEF BracketIf, Ifs, ReadDirective
<1>2. w \notin PoundIfs
  BY <1>1 DEF PoundIfs, BracketIfs
<1>3. w \in Holding => shell' = shell
  BY DEF BracketIf, Holding
<1>4. w \in BracketIfs \ Holding => shell' = [shell EXCEPT !.bracket = "[else]", !.nested = 0]
  BY DEF BracketIf, BracketIfs, Holding
<1>5. QED BY <1>1, <1>2, <1>3, <1>4, IfShell

LEMMA DirectiveShell ==
  ASSUME ShellGood, Len(words) \in Nat, NEW w, Fits(w), Directive(w)
  PROVE  ShellGood'
<1>1. CASE PoundIf(w) \/ PoundIfdef(w)
  BY <1>1, PoundIfSkips
<1>2. CASE BracketIf(w)
  BY <1>2, BracketIfSkips
<1>3. CASE PoundElse(w)
  <2>1. /\ w = "#else" /\ ~Skipping /\ sections' = SectionsAfter(w)
        /\ shell' = [shell EXCEPT !.skipping = TRUE]
    BY <1>3 DEF PoundElse, ReadDirective
  <2>2. QED BY <2>1, ElseShell
<1>4. CASE BracketElse(w)
  <2>1. /\ w = "[else]" /\ ~Skipping /\ sections' = SectionsAfter(w)
        /\ shell' = [shell EXCEPT !.bracket = "[endif]", !.nested = 0]
    BY <1>4 DEF BracketElse, ReadDirective
  <2>2. QED BY <2>1, ElseShell
<1>5. CASE PoundEndif(w) \/ BracketEndif(w)
  <2>1. w \in {"#endif", "[endif]"} /\ ~Skipping /\ sections' = SectionsAfter(w) /\ shell' = shell
    BY <1>5 DEF PoundEndif, BracketEndif, ReadDirective
  <2>2. QED BY <2>1, EndifShell
<1>6. CASE SkipLine(w)
  <2>1. SkipsLines
    BY <1>6 DEF SkipLine
  <2>2. QED BY <1>6, <2>1, SkipLineShell
<1>7. CASE SkipText(w)
  <2>1. SkipsWords
    BY <1>7 DEF SkipText
  <2>2. QED BY <1>7, <2>1, SkipTextShell
<1>8. QED BY <1>1, <1>2, <1>3, <1>4, <1>5, <1>6, <1>7 DEF Directive

LEMMA DirectiveKeeps ==
  ASSUME CompilerInv, Compiling, NEW w, Fits(w), Directive(w)
  PROVE  CompilerInv'
<1>1. Len(words) \in Nat
  BY DEF CompilerInv
<1>2. ShellGood'
  BY <1>1, DirectiveShell DEF CompilerInv
<1>3. Good(dict', ctl', cont')
  BY DirectiveGood DEF CompilerInv
<1>4. UNCHANGED <<family, words, dict, cont, run>>
  BY DirectiveLeaves
<1>5. QED BY <1>2, <1>3, <1>4 DEF CompilerInv, AtStatement, Compiling

\* A word that is not skipped, which therefore is one of the words that apply.
LEMMA InterpretReads ==
  ASSUME NEW w, Interpret(w)
  PROVE  Read(w)
  BY DEF Interpret, PlainWord, Test, Else, Endif, Begin, While, Until, Again, Repeat, Do, Loop, Case,
         Of, OfIf, Endof, Endcase, ContinueHere, Leaves

LEMMA ContinueFits ==
  ASSUME Fits("continue:"), Applies
  PROVE  OpsBeforeContinue \/ AtStatement
<1>1. PICK w : w = "continue:"
  OBVIOUS
<1>2. w \notin PoundWords \cup BracketWords
  BY <1>1 DEF PoundWords, BracketWords, PoundIfs, BracketIfs
<1>3. FitsWord(w)
  BY <1>1, <1>2 DEF Fits
<1>4. w \notin Middles /\ w \notin Plain /\ w \notin Openers /\ w \notin Continues /\ w \notin Breaks
  BY <1>1 DEF Middles, Closers, Plain, Literals, Varops, Openers, Continues, Breaks
<1>5. w # "leave" /\ w # ";"
  BY <1>1
<1>6. OpsBeforeContinue \/ AtStatement
  BY <1>1, <1>3, <1>4, <1>5 DEF FitsWord
<1>7. QED BY <1>6

LEMMA InterpretGood ==
  ASSUME Good(dict, ctl, cont), OpsBeforeContinue \/ (AtStatement => dict.peep = <<>>), Applies,
         NEW w, Fits(w), Interpret(w)
  PROVE  Good(dict', ctl', cont') /\ (OpsBeforeContinue \/ dict'.peep = <<>> \/ w \in Plain)
<1>1. CASE PlainWord(w)
  BY <1>1, PlainWordGood DEF PlainWord
<1>2. CASE ContinueHere(w)
  <2>1. w = "continue:"
    BY <1>2 DEF ContinueHere
  <2>2. OpsBeforeContinue \/ dict.peep = <<>>
    BY <2>1, ContinueFits
  <2>3. QED BY <1>2, <2>2, ContinueHereGood
<1>3. CASE Test(w) \/ Else(w) \/ Endif(w)
  BY <1>3, TestGood, ElseGood, EndifGood
<1>4. CASE Begin(w) \/ While(w) \/ Until(w) \/ Again(w) \/ Repeat(w)
  BY <1>4, BeginGood, WhileGood, UntilGood, AgainGood, RepeatGood
<1>5. CASE Do(w) \/ Loop(w) \/ Leaves(w)
  BY <1>5, DoGood, LoopGood, LeavesGood
<1>6. CASE Case(w) \/ Of(w) \/ OfIf(w) \/ Endof(w) \/ Endcase(w)
  BY <1>6, CaseGood, OfGood, OfIfGood, EndofGood, EndcaseGood
<1>7. QED BY <1>1, <1>2, <1>3, <1>4, <1>5, <1>6 DEF Interpret

LEMMA InterpretKeeps ==
  ASSUME CompilerInv, Compiling, NEW w \in family.words, Fits(w), ~Skipping, Interpret(w)
  PROVE  CompilerInv'
<1>1. Applies
  BY SkippingIs DEF CompilerInv
<1>2. words' = Append(words, w) /\ UNCHANGED <<family, sections, shell, run>>
  BY <1>1, InterpretReads DEF Read
<1>3. Good(dict', ctl', cont') /\ (OpsBeforeContinue \/ dict'.peep = <<>> \/ w \in Plain)
  BY <1>1, InterpretGood DEF CompilerInv
<1>4. ShellGood'
  BY <1>2 DEF CompilerInv, ShellGood
<1>5. w \in Vocabulary
  BY DEF CompilerInv, Vocabulary
<1>6. PICK v : v = words'
  OBVIOUS
<1>7. v \in Seq(Vocabulary) /\ v # <<>> /\ v[Len(v)] = w
  BY <1>2, <1>5, <1>6 DEF CompilerInv
<1>8. OpsBeforeContinue \/ (AtStatement' => dict'.peep = <<>>)
  BY <1>3, <1>6, <1>7 DEF AtStatement
<1>9. QED BY <1>2, <1>3, <1>4, <1>6, <1>7, <1>8 DEF CompilerInv, Compiling

(* ------------------------------ theorems ------------------------------- *)

LEMMA CompilerStep ==
  ASSUME CompilerInv, [CompilerNext]_compilerVars
  PROVE  CompilerInv'
<1>1. CASE NextWord
  <2>1. Compiling
    BY <1>1 DEF NextWord
  <2>2. PICK w \in family.words : Fits(w) /\ (Directive(w) \/ (~Skipping /\ Interpret(w)))
    BY <1>1 DEF NextWord, Directive
  <2>3. CASE Directive(w)
    BY <2>1, <2>2, <2>3, DirectiveKeeps
  <2>4. CASE ~Skipping /\ Interpret(w)
    BY <2>1, <2>2, <2>4, InterpretKeeps
  <2>5. QED BY <2>2, <2>3, <2>4
<1>2. CASE SyntaxError \/ Exit
  BY <1>2, StartOverKeeps DEF SyntaxError, Exit
<1>3. CASE Semi
  <2>1. Good(dict', ctl', cont') /\ dict'.peep = <<>> /\ Resolved(dict')
    BY <1>3, SemiGood DEF CompilerInv
  <2>2. UNCHANGED <<family, words, sections, shell>>
    BY <1>3 DEF Semi
  <2>3. QED BY <2>1, <2>2 DEF CompilerInv, ShellGood
<1>4. CASE RunNext
  <2>1. ~Compiling /\ UNCHANGED <<family, words, sections, dict, ctl, cont, shell>>
    BY <1>4 DEF RunNext
  <2>2. QED BY <2>1 DEF CompilerInv, ShellGood, AtStatement
<1>5. CASE UNCHANGED compilerVars
  BY <1>5 DEF compilerVars, CompilerInv, ShellGood, AtStatement, Compiling
<1>6. QED BY <1>1, <1>2, <1>3, <1>4, <1>5 DEF CompilerNext

\* The compiler keeps dictionary, control stack, continuations and shell in
\* step with each other and with the words read, whatever definitions are
\* made of: what CompilerInv says holds after every word, error and run.
THEOREM CompilerInvariant == CompilerSpec => []CompilerInv
<1>1. CompilerInit => CompilerInv
  BY CompilerStart
<1>2. CompilerInv /\ [CompilerNext]_compilerVars => CompilerInv'
  BY CompilerStep
<1>3. QED BY <1>1, <1>2, PTL DEF CompilerSpec

LEMMA CountsMatch ==
  ASSUME Good(dict, ctl, cont)
  PROVE  ContinuationsMatchLoops
<1>1. PICK s, n, count : s = cont.stack /\ n = Len(s) /\ count = cont.count
  OBVIOUS
<1>2. s \in Seq(Continuations) /\ n \in Nat /\ DOMAIN s = 1..n /\ DOMAIN ctl = 1..Len(ctl)
  BY <1>1, GoodParts
<1>3. Saved = SavedAt(s) /\ OpenLoops = LoopsIn(ctl)
  BY <1>1, <1>2 DEF Saved, SavedAt, OpenLoops, LoopsIn, IsLoop
<1>4. Cardinality(Saved) = Cardinality(OpenLoops)
  BY <1>1, <1>3 DEF Good
<1>5. Above(s, n, count)
  BY <1>1 DEF Good, ContGood
<1>6. \A p \in Pending(cont) : p.kind # "saved"
  BY <1>1, <1>5 DEF Pending, Above
<1>7. count \in 0..n /\ \A i \in 1..n : i > n - count => s[i].kind # "saved"
  BY <1>2, <1>5 DEF Above
<1>8. CASE count = n
  <2>1. SavedAt(s) = {}
    BY <1>1, <1>2, <1>7, <1>8 DEF SavedAt
  <2>2. QED BY <1>1, <1>2, <1>3, <1>4, <1>6, <1>8, <2>1 DEF ContinuationsMatchLoops
<1>9. CASE count < n
  <2>1. n - count \in SavedAt(s) /\ \A i \in SavedAt(s) : i <= n - count
    BY <1>1, <1>2, <1>5, <1>7, <1>9 DEF SavedAt, Above
  <2>2. SavedAt(s) \in SUBSET (0..n) /\ SavedAt(s) # {}
    BY <1>1, <2>1 DEF SavedAt
  <2>3. Max(SavedAt(s)) \in SavedAt(s) /\ n - count <= Max(SavedAt(s))
    BY <1>2, <2>1, <2>2, GreatestIs
  <2>4. Max(SavedAt(s)) = n - count
    BY <1>2, <1>7, <2>1, <2>2, <2>3
  <2>5. count = n - Max(SavedAt(s))
    BY <1>2, <1>7, <2>4
  <2>6. QED BY <1>1, <1>3, <1>4, <1>6, <2>2, <2>5 DEF ContinuationsMatchLoops
<1>10. count = n \/ count < n
  BY <1>2, <1>7
<1>11. QED BY <1>8, <1>9, <1>10

\* For every saved continuation there is one begin, do or case on the control
\* stack, and mContinueCount is the number of breaks and continues above the
\* last of them (OpcodeCompiler::StartLoopContinuations, AddBreakContinuation,
\* EndLoopContinuations).
THEOREM LoopsHaveContinuations == CompilerSpec => []ContinuationsMatchLoops
<1>1. CompilerInv => ContinuationsMatchLoops
  BY CountsMatch DEF CompilerInv
<1>2. QED BY <1>1, CompilerInvariant, PTL

\* Behind ";" no branch is left to be fixed, in any definition: no dummy opcode
\* and no branch without a destination (elseOp to endcaseOp,
\* OpcodeCompiler::CompileOpcode and EndLoopContinuations).
NothingLeftToFix == ~Compiling => \A a \in DOMAIN dict.code :
                      /\ dict.code[a].type # "abort"
                      /\ dict.code[a].type \in Branching => dict.code[a].to # 0
THEOREM BranchesAreFixed == CompilerSpec => []NothingLeftToFix
<1>1. CompilerInv => NothingLeftToFix
  <2>1. SUFFICES ASSUME CompilerInv, ~Compiling, NEW a \in DOMAIN dict.code
                 PROVE  /\ dict.code[a].type # "abort"
                        /\ dict.code[a].type \in Branching => dict.code[a].to # 0
    BY DEF NothingLeftToFix
  <2>2. DOMAIN dict.code = 1..Len(dict.code)
    BY <2>1, GoodParts, DictionaryTypes DEF CompilerInv
  <2>3. QED BY <2>1, <2>2 DEF CompilerInv, Resolved
<1>2. QED BY <1>1, CompilerInvariant, PTL

\* And every branch leads to the start of an opcode, whether it is run or not,
\* as long as no continue: comes straight behind an opcode: continueDefineOp
\* leaves that opcode to the peephole, and the place it has noted may then be
\* the immediate data of what is joined, or behind the test it was to lead to.
THEOREM BranchesAreResolved == ASSUME ~OpsBeforeContinue PROVE CompilerSpec => []NothingUnresolved
<1>1. CompilerInv => NothingUnresolved
  BY DEF CompilerInv, NothingUnresolved, Resolved, Starts, Branching, Conditional
<1>2. QED BY <1>1, CompilerInvariant, PTL

\* The shell is skipping lines or words exactly where a section of conditional
\* compilation does not apply, however they lie in one another (PoundIf to
\* PoundEndif, ProcessLine, and the loops in [if] and [else]).
THEOREM SkipsWhatIsLeftOut == CompilerSpec => [](Skipping <=> ~Applies)
<1>1. CompilerInv => (Skipping <=> ~Applies)
  BY SkippingIs DEF CompilerInv
<1>2. QED BY <1>1, CompilerInvariant, PTL

=============================================================================
