------------------------ MODULE CollectionLinksProofs ------------------------
(***************************************************************************)
(* Proofs about Collections, for any number of objects, links, variables   *)
(* and cells: the links of every list are whole, and so are the cursors    *)
(* that stand at them.  Swapping the elements of two links keeps the       *)
(* counts of CollectionsProofs because the links are whole, so the last    *)
(* section proves both parts of the invariant together.                    *)
(***************************************************************************)
EXTENDS CollectionsProofs

-----------------------------------------------------------------------------
(* The inductive invariant of the links *)

\* Link k is in the sequence s, and on list l.
In(k, s) == \E j \in 1 .. Len(s) : s[j] = k
On(k, l) == In(k, order[l])
FirstLink(s) == IF s = << >> THEN NoLink ELSE s[1]
LastLink(s) == IF s = << >> THEN NoLink ELSE s[Len(s)]

OrderTypeOK ==
    /\ order \in [Objects -> Seq(Links)] /\ clones \in SUBSET Objects
    /\ \A o \in Objects : kind[o] # "list" => order[o] = << >>
    /\ \A o \in clones : kind[o] = "list" /\ (Walked(o) \/ order[o] # << >>)

Walkers == {"delete", "drop", "clear", "load"}

\* Where a walk over a list stands.
WalkLinked(c) ==
    c.does \in Walkers /\ kind[c.for] = "list" => c.cur = FirstLink(order[c.for])

\* The link at hand is off its list, but for one that clone appended.
HandLinked(c) ==
    /\ c.link # NoLink /\ c.does # "clone" => \A l \in Objects : ~On(c.link, l)
    /\ c.link # NoLink => \/ c.does \in {"remove", "clone"}
                          \/ c.does \in Walkers /\ kind[c.for] = "list"

\* The list that is emptied is in use, and nothing points into it.
EmptiesLinked(c) ==
    /\ c.does \in {"clear", "load", "seek remove"} => InVar(c.for)
    /\ c.does \in {"clear", "load"} /\ kind[c.for] = "list" => NoneSeen(c.for, {})

\* Where a search stands.
SeekLinked(c) ==
    /\ c.does \in {"seek", "seek remove"} =>
           kind[c.for] = "list" /\ (c.cur # NoLink => On(c.cur, c.for))
    /\ c.does = "seek next" /\ c.cur # NoLink => On(c.cur, refers[c.for])
    /\ c.does = "seek remove" =>
           \A i \in ItersOf(c.for) : cursor[i] # NoLink => refers[cursor[i]] # c.arg

\* Where clone stands.
CloneLinked(c) ==
    c.does = "clone" =>
        /\ kind[c.for] = "list" /\ c.for \notin clones /\ tail[c.for] = NoLink
        /\ c.link = LastLink(order[c.for])
        /\ c.cur # NoLink => \E l \in Objects \ {c.for} : kind[l] = "list" /\ On(c.cur, l)

LoopLinked(c) ==
    WalkLinked(c) /\ HandLinked(c) /\ EmptiesLinked(c) /\ SeekLinked(c) /\ CloneLinked(c)

\* The loops have no link and no list in common, and only those that release
\* something wait for others.
Apart(cs) ==
    \A i, j \in 1 .. Len(cs) : i # j =>
        /\ cs[i].link # NoLink => cs[i].link # cs[j].link
        /\ cs[i].does \in Walkers /\ cs[j].does \in Walkers => cs[i].for # cs[j].for
Waiting(cs) == \A j \in 2 .. Len(cs) : cs[j].does \in Walkers \cup {"resize", "remove"}

LoopsLinked ==
    /\ \A j \in 1 .. Len(calls) : LoopLinked(calls[j])
    /\ Apart(calls) /\ Waiting(calls)

CursorsLinked ==
    \A i \in Objects : kind[i] = "iter" /\ refers[i] # NoObject /\ cursor[i] # NoLink =>
        On(cursor[i], refers[i])

ListsLinked == \A l \in Objects : kind[l] = "list" => WellLinked(l)

LinksInv == OrderTypeOK /\ LinksHaveLists /\ ListsLinked /\ LoopsLinked /\ CursorsLinked

-----------------------------------------------------------------------------
(* Sequences of links and their pointers *)

Distinct(s) == \A i, j \in 1 .. Len(s) : s[i] = s[j] => i = j

\* The pointers lead through s.
Chained(s, nx, pv) == \A j \in 1 .. Len(s) - 1 : nx[s[j]] = s[j + 1] /\ pv[s[j + 1]] = s[j]
\* They lead nowhere else.
Closed(s, nx, pv) == s # << >> => pv[s[1]] = NoLink /\ nx[s[Len(s)]] = NoLink

LEMMA SeqFacts ==
    ASSUME NEW s \in Seq(Links)
    PROVE  /\ Len(s) \in Nat /\ \A j \in 1 .. Len(s) : s[j] \in Links
           /\ (s = << >> <=> Len(s) = 0)
           /\ FirstLink(s) \in Link /\ LastLink(s) \in Link
           /\ (FirstLink(s) = NoLink <=> s = << >>) /\ (LastLink(s) = NoLink <=> s = << >>)
           /\ \A k : In(k, s) => k \in Links
           /\ s # << >> => /\ 1 \in 1 .. Len(s) /\ Len(s) \in 1 .. Len(s)
                           /\ FirstLink(s) = s[1] /\ LastLink(s) = s[Len(s)]
                           /\ In(FirstLink(s), s) /\ In(LastLink(s), s)
<1>1. Len(s) \in Nat /\ (\A j \in 1 .. Len(s) : s[j] \in Links) /\ (s = << >> <=> Len(s) = 0)
  OBVIOUS
<1>2. CASE s = << >>
  BY <1>1, <1>2 DEF FirstLink, LastLink, Link, In
<1>3. CASE s # << >>
  <2>1. 1 \in 1 .. Len(s) /\ Len(s) \in 1 .. Len(s)
    BY <1>1, <1>3
  <2>2. s[1] \in Links /\ s[Len(s)] \in Links /\ NoLink \notin Links
    BY <1>1, <2>1, ListsAssumption
  <2>3. QED
    BY <1>1, <1>3, <2>1, <2>2 DEF FirstLink, LastLink, Link, In
<1>4. QED
  BY <1>2, <1>3

\* What is left without the n-th link.
LEMMA LeftWithout ==
    ASSUME NEW s \in Seq(Links), NEW n \in 1 .. Len(s), NEW w \in Seq(Links),
           WithoutAt(s, n, w), Distinct(s)
    PROVE  Distinct(w) /\ \A k : In(k, w) <=> In(k, s) /\ k # s[n]
<1>1. /\ Len(w) = Len(s) - 1 /\ Len(s) \in Nat
      /\ \A j \in 1 .. Len(w) : w[j] = s[IF j < n THEN j ELSE j + 1]
  <2>1. Len(w) = Len(s) - 1 /\ Len(s) \in Nat
    BY DEF WithoutAt
  <2>2. ASSUME NEW j \in 1 .. Len(w), j < n PROVE w[j] = s[j]
    <3>1. j \in 1 .. n - 1
      BY <2>1, <2>2
    <3>2. QED
      BY <3>1 DEF WithoutAt
  <2>3. ASSUME NEW j \in 1 .. Len(w), ~(j < n) PROVE w[j] = s[j + 1]
    <3>1. j \in n .. Len(s) - 1
      BY <2>1, <2>3
    <3>2. QED
      BY <3>1 DEF WithoutAt
  <2>4. QED
    BY <2>1, <2>2, <2>3
<1>2. Distinct(w)
  <2>1. ASSUME NEW i \in 1 .. Len(w), NEW j \in 1 .. Len(w), w[i] = w[j] PROVE i = j
    <3>1. \A m \in 1 .. Len(w) : (IF m < n THEN m ELSE m + 1) \in 1 .. Len(s)
      BY <1>1
    <3>2. (IF i < n THEN i ELSE i + 1) = (IF j < n THEN j ELSE j + 1)
      BY <1>1, <2>1, <3>1 DEF Distinct
    <3>3. QED
      BY <3>2
  <2>2. QED
    BY <2>1 DEF Distinct
<1>3. ASSUME NEW k, In(k, w) PROVE In(k, s) /\ k # s[n]
  <2>1. PICK i \in 1 .. Len(w) : w[i] = k
    BY <1>3 DEF In
  <2>2. PICK j \in 1 .. Len(s) : j # n /\ s[j] = k
    BY <1>1, <2>1
  <2>3. QED
    BY <2>2 DEF In, Distinct
<1>4. ASSUME NEW k, In(k, s), k # s[n] PROVE In(k, w)
  <2>1. PICK j \in 1 .. Len(s) : s[j] = k
    BY <1>4 DEF In
  <2>2. j # n
    BY <1>4, <2>1
  <2>3. CASE j < n
    <3>1. j \in 1 .. Len(w) /\ w[j] = k
      BY <1>1, <2>1, <2>3
    <3>2. QED
      BY <3>1 DEF In
  <2>4. CASE j > n
    <3>1. j - 1 \in 1 .. Len(w) /\ w[j - 1] = k
      BY <1>1, <2>1, <2>4
    <3>2. QED
      BY <3>1 DEF In
  <2>5. QED
    BY <2>2, <2>3, <2>4
<1>5. QED
  BY <1>2, <1>3, <1>4

\* The pointers go past the n-th link.
Spliced(s, n, nx, pv, ny, pw) ==
    \A j \in 1 .. Len(s) : j # n =>
        /\ ny[s[j]] = IF j = n - 1 THEN nx[s[n]] ELSE nx[s[j]]
        /\ pw[s[j]] = IF j = n + 1 THEN pv[s[n]] ELSE pv[s[j]]

EndsWithout(s, n, nx, pv, w) ==
    /\ FirstLink(w) = IF n = 1 THEN nx[s[n]] ELSE FirstLink(s)
    /\ LastLink(w) = IF n = Len(s) THEN pv[s[n]] ELSE LastLink(s)

LEMMA ChainWithout ==
    ASSUME NEW s \in Seq(Links), NEW n \in 1 .. Len(s), NEW w \in Seq(Links),
           WithoutAt(s, n, w), NEW nx, NEW pv, NEW ny, NEW pw,
           Chained(s, nx, pv), Closed(s, nx, pv), Spliced(s, n, nx, pv, ny, pw)
    PROVE  Chained(w, ny, pw) /\ Closed(w, ny, pw) /\ EndsWithout(s, n, nx, pv, w)
<1>1. /\ Len(w) = Len(s) - 1 /\ Len(s) \in Nat /\ Len(w) \in Nat
      /\ \A j \in 1 .. n - 1 : w[j] = s[j]
      /\ \A j \in n .. Len(s) - 1 : w[j] = s[j + 1]
  BY DEF WithoutAt
<1>2. /\ n < Len(s) => nx[s[n]] = s[n + 1]
      /\ n > 1 => pv[s[n]] = s[n - 1]
      /\ n = Len(s) => nx[s[n]] = NoLink
      /\ n = 1 => pv[s[n]] = NoLink
  <2>2. ASSUME n > 1 PROVE pv[s[n]] = s[n - 1]
    <3>1. n - 1 \in 1 .. Len(s) - 1 /\ (n - 1) + 1 = n
      BY <1>1, <2>2
    <3>2. QED
      BY <3>1 DEF Chained
  <2>3. s # << >>
    BY <1>1
  <2>4. n < Len(s) => nx[s[n]] = s[n + 1]
    <3>1. n < Len(s) => n \in 1 .. Len(s) - 1
      BY <1>1
    <3>2. QED
      BY <3>1 DEF Chained
  <2>5. QED
    BY <2>2, <2>3, <2>4 DEF Closed
<1>3. ASSUME NEW j \in 1 .. Len(s) - 1
      PROVE  /\ j # n /\ j + 1 # n => ny[s[j]] = s[j + 1] /\ pw[s[j + 1]] = s[j]
  <2>1. nx[s[j]] = s[j + 1] /\ pv[s[j + 1]] = s[j] /\ j \in 1 .. Len(s) /\ j + 1 \in 1 .. Len(s)
    BY <1>1 DEF Chained
  <2>2. ASSUME j # n, j + 1 # n PROVE ny[s[j]] = s[j + 1] /\ pw[s[j + 1]] = s[j]
    <3>1. j # n - 1 /\ j + 1 # n + 1
      BY <1>1, <2>2
    <3>2. QED
      BY <2>1, <2>2, <3>1 DEF Spliced
  <2>3. QED
    BY <2>2
<1>4. Chained(w, ny, pw)
  <2>1. ASSUME NEW j \in 1 .. Len(w) - 1
        PROVE  ny[w[j]] = w[j + 1] /\ pw[w[j + 1]] = w[j]
    <3>1. CASE j + 1 < n
      <4>1. w[j] = s[j] /\ w[j + 1] = s[j + 1] /\ j \in 1 .. Len(s) - 1 /\ j # n /\ j + 1 # n
        BY <1>1, <3>1
      <4>2. QED
        BY <1>3, <4>1
    <3>2. CASE j + 1 = n
      <4>0. n < Len(s) /\ n > 1 /\ n - 1 = j /\ j \in 1 .. n - 1 /\ n \in n .. Len(s) - 1
        BY <1>1, <3>2
      <4>1. w[j] = s[j] /\ w[j + 1] = s[n + 1] /\ n < Len(s) /\ n > 1 /\ n - 1 = j
        BY <1>1, <3>2, <4>0
      <4>2. /\ j \in 1 .. Len(s) /\ j # n /\ j = n - 1
            /\ n + 1 \in 1 .. Len(s) /\ n + 1 # n
        BY <1>1, <3>2, <4>1
      <4>3. ny[s[j]] = nx[s[n]] /\ pw[s[n + 1]] = pv[s[n]]
        BY <4>2 DEF Spliced
      <4>4. nx[s[n]] = s[n + 1] /\ pv[s[n]] = s[j]
        BY <1>2, <4>1
      <4>5. QED
        BY <4>1, <4>3, <4>4
    <3>3. CASE j + 1 > n
      <4>1. w[j] = s[j + 1] /\ w[j + 1] = s[(j + 1) + 1] /\ j + 1 \in 1 .. Len(s) - 1
            /\ j + 1 # n /\ (j + 1) + 1 # n
        BY <1>1, <3>3
      <4>2. QED
        BY <1>3, <4>1
    <3>4. QED
      BY <3>1, <3>2, <3>3
  <2>2. QED
    BY <2>1 DEF Chained
<1>5. EndsWithout(s, n, nx, pv, w)
  <2>1. FirstLink(w) = IF n = 1 THEN nx[s[n]] ELSE FirstLink(s)
    <3>1. CASE n = 1 /\ Len(s) = 1
      <4>1. w = << >> /\ nx[s[n]] = NoLink
        BY <1>1, <1>2, <3>1
      <4>2. QED
        BY <3>1, <4>1 DEF FirstLink
    <3>2. CASE n = 1 /\ Len(s) > 1
      <4>1. w # << >> /\ w[1] = s[2] /\ nx[s[n]] = s[2]
        BY <1>1, <1>2, <3>2
      <4>2. QED
        BY <3>2, <4>1 DEF FirstLink
    <3>3. CASE n > 1
      <4>1. w # << >> /\ w[1] = s[1] /\ s # << >> /\ n # 1
        BY <1>1, <3>3
      <4>2. QED
        BY <4>1 DEF FirstLink
    <3>4. QED
      BY <1>1, <3>1, <3>2, <3>3
  <2>2. LastLink(w) = IF n = Len(s) THEN pv[s[n]] ELSE LastLink(s)
    <3>1. CASE n = 1 /\ Len(s) = 1
      <4>1. w = << >> /\ pv[s[n]] = NoLink
        BY <1>1, <1>2, <3>1
      <4>2. QED
        BY <3>1, <4>1 DEF LastLink
    <3>2. CASE n = Len(s) /\ Len(s) > 1
      <4>1. w # << >> /\ w[Len(w)] = s[n - 1] /\ pv[s[n]] = s[n - 1]
        BY <1>1, <1>2, <3>2
      <4>2. QED
        BY <3>2, <4>1 DEF LastLink
    <3>3. CASE n < Len(s)
      <4>1. w # << >> /\ w[Len(w)] = s[Len(s)] /\ s # << >> /\ n # Len(s)
        BY <1>1, <3>3
      <4>2. QED
        BY <4>1 DEF LastLink
    <3>4. QED
      BY <1>1, <3>1, <3>2, <3>3
  <2>3. QED
    BY <2>1, <2>2 DEF EndsWithout
<1>6. Closed(w, ny, pw)
  <2>1. ASSUME w # << >> PROVE pw[w[1]] = NoLink /\ ny[w[Len(w)]] = NoLink
    <3>1. Len(s) > 1 /\ s # << >>
      BY <1>1, <2>1
    <3>2. pv[s[1]] = NoLink /\ nx[s[Len(s)]] = NoLink
      BY <3>1 DEF Closed
    <3>3. pw[w[1]] = NoLink
      <4>1. CASE n = 1
        <5>1. w[1] = s[2] /\ 2 \in 1 .. Len(s) /\ 2 # n /\ 2 = n + 1
          BY <1>1, <3>1, <4>1
        <5>2. pw[s[2]] = pv[s[n]]
          BY <5>1 DEF Spliced
        <5>3. QED
          BY <3>2, <4>1, <5>1, <5>2
      <4>2. CASE n > 1
        <5>1. w[1] = s[1] /\ 1 \in 1 .. Len(s) /\ 1 # n /\ 1 # n + 1
          BY <1>1, <3>1, <4>2
        <5>2. pw[s[1]] = pv[s[1]]
          BY <5>1 DEF Spliced
        <5>3. QED
          BY <3>2, <5>1, <5>2
      <4>3. QED
        BY <1>1, <4>1, <4>2
    <3>4. ny[w[Len(w)]] = NoLink
      <4>1. CASE n = Len(s)
        <5>1. w[Len(w)] = s[n - 1] /\ n - 1 \in 1 .. Len(s) /\ n - 1 # n
          BY <1>1, <3>1, <4>1
        <5>2. ny[s[n - 1]] = nx[s[n]]
          BY <5>1 DEF Spliced
        <5>3. QED
          BY <3>2, <4>1, <5>1, <5>2
      <4>2. CASE n < Len(s)
        <5>1. w[Len(w)] = s[Len(s)] /\ Len(s) \in 1 .. Len(s) /\ Len(s) # n /\ Len(s) # n - 1
          BY <1>1, <3>1, <4>2
        <5>2. ny[s[Len(s)]] = nx[s[Len(s)]]
          BY <5>1 DEF Spliced
        <5>3. QED
          BY <3>2, <5>1, <5>2
      <4>3. QED
        BY <1>1, <4>1, <4>2
    <3>5. QED
      BY <3>3, <3>4
  <2>2. QED
    BY <2>1 DEF Closed
<1>7. QED
  BY <1>4, <1>5, <1>6

-----------------------------------------------------------------------------
(* Links, lists and loops *)

\* A loop of cs has link k at hand, walks over list l, or makes it.
AtHand(cs, k) == \E j \in 1 .. Len(cs) : cs[j].link = k
WalkedIn(cs, l) == \E j \in 1 .. Len(cs) : Walks(cs[j], l)
ClonedIn(cs, l) == \E j \in 1 .. Len(cs) : cs[j].does = "clone" /\ cs[j].for = l

LEMMA WalkedAndCloned ==
    ASSUME NEW l
    PROVE  /\ Walked(l) <=> WalkedIn(calls, l)
           /\ Cloned(l) <=> ClonedIn(calls, l)
           /\ Walked(l)' <=> WalkedIn(calls', l)
           /\ Cloned(l)' <=> ClonedIn(calls', l)
BY DEF Walked, Cloned, WalkedIn, ClonedIn

\* Loop c has nothing in common with those of cs, and these release something.
ApartFrom(c, cs) ==
    \A j \in 1 .. Len(cs) :
        /\ c.link # NoLink => c.link # cs[j].link
        /\ c.does \in Walkers /\ cs[j].does \in Walkers => c.for # cs[j].for
Releasing(cs) == \A j \in 1 .. Len(cs) : cs[j].does \in Walkers \cup {"resize", "remove"}

LEMMA OnLinkLoops ==
    ASSUME NEW c \in Loop, NEW rest \in Seq(Loop)
    PROVE  /\ \A l : WalkedIn(<<c>> \o rest, l) <=> Walks(c, l) \/ WalkedIn(rest, l)
           /\ \A l : ClonedIn(<<c>> \o rest, l) <=>
                         (c.does = "clone" /\ c.for = l) \/ ClonedIn(rest, l)
           /\ \A k : AtHand(<<c>> \o rest, k) <=> c.link = k \/ AtHand(rest, k)
           /\ Apart(rest) /\ ApartFrom(c, rest) <=> Apart(<<c>> \o rest)
           /\ Releasing(rest) <=> Waiting(<<c>> \o rest)
<1> DEFINE cs == <<c>> \o rest
<1>1. /\ Len(cs) = Len(rest) + 1 /\ Len(rest) \in Nat /\ cs[1] = c
      /\ \A j \in 1 .. Len(rest) : cs[j + 1] = rest[j]
  BY OnLoops
<1> HIDE DEF cs
<1>2. \A j \in 2 .. Len(cs) : j - 1 \in 1 .. Len(rest) /\ cs[j] = rest[j - 1]
  <2>1. \A j \in 2 .. Len(cs) : j - 1 \in 1 .. Len(rest) /\ (j - 1) + 1 = j
    BY <1>1
  <2>2. QED
    BY <1>1, <2>1
<1>3. \A j \in 1 .. Len(cs) : j = 1 \/ j \in 2 .. Len(cs)
  BY <1>1
<1>4. 1 \in 1 .. Len(cs) /\ \A j \in 1 .. Len(rest) : j + 1 \in 2 .. Len(cs) /\ j + 1 \in 1 .. Len(cs)
  BY <1>1
<1>5. \A l : WalkedIn(cs, l) <=> Walks(c, l) \/ WalkedIn(rest, l)
  <2>1. \A l : WalkedIn(cs, l) => Walks(c, l) \/ WalkedIn(rest, l)
    BY <1>1, <1>2, <1>3 DEF WalkedIn
  <2>2. \A l : Walks(c, l) \/ WalkedIn(rest, l) => WalkedIn(cs, l)
    BY <1>1, <1>4 DEF WalkedIn
  <2>3. QED
    BY <2>1, <2>2
<1>6. \A l : ClonedIn(cs, l) <=> (c.does = "clone" /\ c.for = l) \/ ClonedIn(rest, l)
  <2>1. \A l : ClonedIn(cs, l) => (c.does = "clone" /\ c.for = l) \/ ClonedIn(rest, l)
    BY <1>1, <1>2, <1>3 DEF ClonedIn
  <2>2. \A l : (c.does = "clone" /\ c.for = l) \/ ClonedIn(rest, l) => ClonedIn(cs, l)
    BY <1>1, <1>4 DEF ClonedIn
  <2>3. QED
    BY <2>1, <2>2
<1>7. \A k : AtHand(cs, k) <=> c.link = k \/ AtHand(rest, k)
  <2>1. \A k : AtHand(cs, k) => c.link = k \/ AtHand(rest, k)
    BY <1>1, <1>2, <1>3 DEF AtHand
  <2>2. \A k : c.link = k \/ AtHand(rest, k) => AtHand(cs, k)
    BY <1>1, <1>4 DEF AtHand
  <2>3. QED
    BY <2>1, <2>2
<1>8. Apart(cs) => Apart(rest) /\ ApartFrom(c, rest)
  <2> SUFFICES ASSUME Apart(cs) PROVE Apart(rest) /\ ApartFrom(c, rest)
    OBVIOUS
  <2>1. ASSUME NEW i \in 1 .. Len(rest), NEW j \in 1 .. Len(rest), i # j
        PROVE  /\ rest[i].link # NoLink => rest[i].link # rest[j].link
               /\ rest[i].does \in Walkers /\ rest[j].does \in Walkers => rest[i].for # rest[j].for
    <3>1. i + 1 \in 1 .. Len(cs) /\ j + 1 \in 1 .. Len(cs) /\ i + 1 # j + 1
      BY <1>4, <2>1
    <3>2. cs[i + 1] = rest[i] /\ cs[j + 1] = rest[j]
      BY <1>1
    <3>3. QED
      BY <3>1, <3>2 DEF Apart
  <2>2. ASSUME NEW j \in 1 .. Len(rest)
        PROVE  /\ c.link # NoLink => c.link # rest[j].link
               /\ c.does \in Walkers /\ rest[j].does \in Walkers => c.for # rest[j].for
    <3>1. 1 \in 1 .. Len(cs) /\ j + 1 \in 1 .. Len(cs) /\ 1 # j + 1
      BY <1>4
    <3>2. cs[1] = c /\ cs[j + 1] = rest[j]
      BY <1>1
    <3>3. QED
      BY <3>1, <3>2 DEF Apart
  <2>3. QED
    BY <2>1, <2>2 DEF Apart, ApartFrom
<1>9. Apart(rest) /\ ApartFrom(c, rest) => Apart(cs)
  <2> SUFFICES ASSUME Apart(rest), ApartFrom(c, rest), NEW i \in 1 .. Len(cs), NEW j \in 1 .. Len(cs), i # j
               PROVE  /\ cs[i].link # NoLink => cs[i].link # cs[j].link
                      /\ cs[i].does \in Walkers /\ cs[j].does \in Walkers => cs[i].for # cs[j].for
    BY DEF Apart
  <2>1. CASE i = 1
    <3>1. j - 1 \in 1 .. Len(rest) /\ cs[j] = rest[j - 1] /\ cs[i] = c
      BY <1>1, <1>2, <1>3, <2>1
    <3>2. QED
      BY <3>1 DEF ApartFrom
  <2>2. CASE j = 1
    <3>1. i - 1 \in 1 .. Len(rest) /\ cs[i] = rest[i - 1] /\ cs[j] = c
      BY <1>1, <1>2, <1>3, <2>2
    <3>2. QED
      BY <3>1 DEF ApartFrom
  <2>3. CASE i # 1 /\ j # 1
    <3>1. /\ i - 1 \in 1 .. Len(rest) /\ cs[i] = rest[i - 1]
          /\ j - 1 \in 1 .. Len(rest) /\ cs[j] = rest[j - 1] /\ i - 1 # j - 1
      BY <1>2, <1>3, <2>3
    <3>2. QED
      BY <3>1 DEF Apart
  <2>4. QED
    BY <2>1, <2>2, <2>3
<1>10. Releasing(rest) <=> Waiting(cs)
  <2>1. Releasing(rest) => Waiting(cs)
    BY <1>2 DEF Releasing, Waiting
  <2>2. Waiting(cs) => Releasing(rest)
    <3>1. \A j \in 1 .. Len(rest) : j + 1 \in 2 .. Len(cs) /\ cs[j + 1] = rest[j]
      BY <1>1, <1>4
    <3>2. QED
      BY <3>1 DEF Releasing, Waiting
  <2>3. QED
    BY <2>1, <2>2
<1>11. QED
  BY <1>5, <1>6, <1>7, <1>8, <1>9, <1>10 DEF cs

\* One loop, or none.
LEMMA FewLinkLoops ==
    /\ \A k : ~AtHand(<< >>, k) /\ ~WalkedIn(<< >>, k) /\ ~ClonedIn(<< >>, k)
    /\ Apart(<< >>) /\ Waiting(<< >>) /\ Releasing(<< >>)
    /\ \A c \in Loop :
           /\ \A k : AtHand(<<c>>, k) <=> c.link = k
           /\ \A l : WalkedIn(<<c>>, l) <=> Walks(c, l)
           /\ \A l : ClonedIn(<<c>>, l) <=> c.does = "clone" /\ c.for = l
           /\ Apart(<<c>>) /\ Waiting(<<c>>)
<1>1. /\ \A k : ~AtHand(<< >>, k) /\ ~WalkedIn(<< >>, k) /\ ~ClonedIn(<< >>, k)
      /\ Apart(<< >>) /\ Waiting(<< >>) /\ Releasing(<< >>)
  BY DEF AtHand, WalkedIn, ClonedIn, Apart, Waiting, Releasing
<1>2. ASSUME NEW c \in Loop
      PROVE  /\ \A k : AtHand(<<c>>, k) <=> c.link = k
             /\ \A l : WalkedIn(<<c>>, l) <=> Walks(c, l)
             /\ \A l : ClonedIn(<<c>>, l) <=> c.does = "clone" /\ c.for = l
             /\ Apart(<<c>>) /\ Waiting(<<c>>)
  <2>1. <<c>> \o << >> = <<c>> /\ << >> \in Seq(Loop) /\ ApartFrom(c, << >>)
    BY OneLoop DEF ApartFrom
  <2>2. /\ \A k : AtHand(<<c>> \o << >>, k) <=> c.link = k
        /\ \A l : WalkedIn(<<c>> \o << >>, l) <=> Walks(c, l)
        /\ \A l : ClonedIn(<<c>> \o << >>, l) <=> c.does = "clone" /\ c.for = l
        /\ Apart(<<c>> \o << >>) /\ Waiting(<<c>> \o << >>)
    <3>1. \A k : AtHand(<<c>> \o << >>, k) <=> c.link = k
      BY <1>1, <2>1, OnLinkLoops
    <3>2. \A l : WalkedIn(<<c>> \o << >>, l) <=> Walks(c, l)
      BY <1>1, <2>1, OnLinkLoops
    <3>3. \A l : ClonedIn(<<c>> \o << >>, l) <=> c.does = "clone" /\ c.for = l
      BY <1>1, <2>1, OnLinkLoops
    <3>4. Apart(<<c>> \o << >>) /\ Waiting(<<c>> \o << >>)
      BY <1>1, <2>1, OnLinkLoops
    <3>5. QED
      BY <3>1, <3>2, <3>3, <3>4
  <2>3. QED
    BY <2>1, <2>2
<1>3. QED
  BY <1>1, <1>2

LEMMA LinkLoopsAgain ==
    ASSUME HeapTypeOK', \A c \in LoopsOf(calls') : LoopLinked(c)', Apart(calls'), Waiting(calls')
    PROVE  LoopsLinked'
<1>1. \A j \in 1 .. Len(calls') : calls'[j] \in LoopsOf(calls')
  BY DEF LoopsOf
<1>2. \A j \in 1 .. Len(calls') : LoopLinked(calls[j])'
  BY <1>1
<1>3. QED
  BY <1>2 DEF LoopsLinked

\* The orders have no links in common.
Spread(ord) ==
    /\ \A l \in Objects : Distinct(ord[l])
    /\ \A l, m \in Objects : \A k : In(k, ord[l]) /\ In(k, ord[m]) => l = m
Housed(ord, cs, ks) ==
    \A k \in Links : k \in ks <=> (\E l \in Objects : In(k, ord[l])) \/ AtHand(cs, k)

LEMMA HaveLists ==
    /\ LinksHaveLists <=> Spread(order) /\ Housed(order, calls, links)
    /\ LinksHaveLists' <=> Spread(order') /\ Housed(order', calls', links')
<1>1. LinksHaveLists => Spread(order) /\ Housed(order, calls, links)
  BY DEF LinksHaveLists, Spread, Housed, In, AtHand, Distinct
<1>2. Spread(order) /\ Housed(order, calls, links) => LinksHaveLists
  <2> SUFFICES ASSUME Spread(order), Housed(order, calls, links) PROVE LinksHaveLists
    OBVIOUS
  <2>1. ASSUME NEW l \in Objects, NEW m \in Objects,
               NEW i \in 1 .. Len(order[l]), NEW j \in 1 .. Len(order[m]), order[l][i] = order[m][j]
        PROVE  l = m /\ i = j
    <3>1. In(order[l][i], order[l]) /\ In(order[l][i], order[m])
      BY <2>1 DEF In
    <3>2. l = m
      BY <3>1 DEF Spread
    <3>3. QED
      BY <2>1, <3>2 DEF Spread, Distinct
  <2>2. QED
    BY <2>1 DEF LinksHaveLists, Housed, In, AtHand
<1>3. LinksHaveLists' => Spread(order') /\ Housed(order', calls', links')
  BY DEF LinksHaveLists, Spread, Housed, In, AtHand, Distinct
<1>4. Spread(order') /\ Housed(order', calls', links') => LinksHaveLists'
  <2> SUFFICES ASSUME Spread(order'), Housed(order', calls', links') PROVE LinksHaveLists'
    OBVIOUS
  <2>1. ASSUME NEW l \in Objects, NEW m \in Objects,
               NEW i \in 1 .. Len(order'[l]), NEW j \in 1 .. Len(order'[m]), order'[l][i] = order'[m][j]
        PROVE  l = m /\ i = j
    <3>1. In(order'[l][i], order'[l]) /\ In(order'[l][i], order'[m])
      BY <2>1 DEF In
    <3>2. l = m
      BY <3>1 DEF Spread
    <3>3. QED
      BY <2>1, <3>2 DEF Spread, Distinct
  <2>2. QED
    BY <2>1 DEF LinksHaveLists, Housed, In, AtHand
<1>5. QED
  BY <1>1, <1>2, <1>3, <1>4

LEMMA OrderFacts ==
    ASSUME LinksInv
    PROVE  /\ \A l \in Objects : order[l] \in Seq(Links) /\ Distinct(order[l])
           /\ \A l, m \in Objects : \A k : On(k, l) /\ On(k, m) => l = m
           /\ \A l \in Objects : \A k : On(k, l) => k \in Links /\ k \in links /\ kind[l] = "list"
           /\ \A k \in Links : k \in links <=> (\E l \in Objects : On(k, l)) \/ AtHand(calls, k)
           /\ order \in [Objects -> Seq(Links)] /\ clones \in SUBSET Objects
<1>1. Spread(order) /\ Housed(order, calls, links)
  BY HaveLists DEF LinksInv
<1>2. order \in [Objects -> Seq(Links)] /\ clones \in SUBSET Objects
  BY DEF LinksInv, OrderTypeOK
<1>3. ASSUME NEW l \in Objects, NEW k, On(k, l)
      PROVE  k \in Links /\ k \in links /\ kind[l] = "list"
  <2>1. order[l] \in Seq(Links) /\ In(k, order[l])
    BY <1>2, <1>3 DEF On
  <2>2. k \in Links
    BY <2>1, SeqFacts
  <2>3. order[l] # << >>
    BY <2>1 DEF In
  <2>4. kind[l] = "list"
    BY <2>3 DEF LinksInv, OrderTypeOK
  <2>5. QED
    BY <1>1, <2>1, <2>2, <2>4 DEF Housed
<1>4. \A l \in Objects : order[l] \in Seq(Links) /\ Distinct(order[l])
  BY <1>1, <1>2 DEF Spread
<1>5. \A l, m \in Objects : \A k : On(k, l) /\ On(k, m) => l = m
  BY <1>1 DEF Spread, On
<1>6. \A k \in Links : k \in links <=> (\E l \in Objects : On(k, l)) \/ AtHand(calls, k)
  BY <1>1 DEF Housed, On
<1>7. QED
  BY <1>2, <1>3, <1>4, <1>5, <1>6

\* The pointers of a list that is neither walked nor made.
AtRest(l) == ~Walked(l) /\ ~Cloned(l)
Pointers(l) ==
    /\ Chained(order[l], next, prev) /\ Closed(order[l], next, prev)
    /\ head[l] = FirstLink(order[l])
    /\ tail[l] = IF l \in clones THEN NoLink ELSE LastLink(order[l])

LEMMA RestFacts ==
    ASSUME LinksInv, NEW l \in Objects, kind[l] = "list", AtRest(l)
    PROVE  Pointers(l) /\ (l \in clones => order[l] # << >>)
<1>1. WellLinked(l)
  BY DEF LinksInv, ListsLinked
<1>2. l \in clones => order[l] # << >>
  BY DEF LinksInv, OrderTypeOK, AtRest
<1>3. QED
  BY <1>1, <1>2 DEF WellLinked, AtRest, Pointers, Chained, Closed, FirstLink, LastLink

LEMMA RestAgain ==
    ASSUME NEW l \in Objects, Pointers(l)'
    PROVE  WellLinked(l)'
BY DEF WellLinked, Pointers, Chained, Closed, FirstLink, LastLink

\* The pointers of a list stay as they are.
PointersStay(m) ==
    /\ head'[m] = head[m] /\ tail'[m] = tail[m] /\ order'[m] = order[m]
    /\ m \in clones' <=> m \in clones
    /\ \A k \in Links : On(k, m) => next'[k] = next[k] /\ prev'[k] = prev[k]

LEMMA StaysLinked ==
    ASSUME LinksInv, NEW m \in Objects, kind[m] = "list", PointersStay(m),
           Walked(m) => Walked(m)', Cloned(m) => Cloned(m)'
    PROVE  WellLinked(m)'
<1> DEFINE s == order[m]
<1>1. WellLinked(m)
  BY DEF LinksInv, ListsLinked
<1>2. Len(s) \in Nat /\ order'[m] = s
  BY OrderFacts DEF PointersStay
<1>3. \A j \in 1 .. Len(s) : next'[s[j]] = next[s[j]] /\ prev'[s[j]] = prev[s[j]]
  BY OrderFacts DEF PointersStay, On, In
<1>4. s # << >> => 1 \in 1 .. Len(s) /\ Len(s) \in 1 .. Len(s)
  BY OrderFacts, SeqFacts
<1>5. \A j \in 1 .. Len(s) - 1 : j \in 1 .. Len(s) /\ j + 1 \in 1 .. Len(s)
  BY <1>2
<1>6. \A j \in 1 .. Len(s) - 1 : next'[s[j]] = s[j + 1] /\ prev'[s[j + 1]] = s[j]
  BY <1>1, <1>3, <1>5 DEF WellLinked
<1>7. ASSUME ~Walked(m)'
      PROVE  /\ head'[m] = IF s = << >> THEN NoLink ELSE s[1]
             /\ s # << >> => prev'[s[1]] = NoLink
  BY <1>1, <1>3, <1>4, <1>7 DEF WellLinked, PointersStay
<1>8. ASSUME ~Cloned(m)'
      PROVE  /\ s # << >> => next'[s[Len(s)]] = NoLink
             /\ ~Walked(m)' => tail'[m] = IF m \in clones' THEN NoLink
                                          ELSE IF s = << >> THEN NoLink ELSE s[Len(s)]
  BY <1>1, <1>3, <1>4, <1>8 DEF WellLinked, PointersStay
<1> HIDE DEF s
<1>9. QED
  BY <1>2, <1>6, <1>7, <1>8 DEF WellLinked

-----------------------------------------------------------------------------
(* Steps that leave the links as they are *)

\* No object becomes a list or stops being one.
SameLists == \A o \in Objects : kind'[o] = "list" <=> kind[o] = "list"

\* What the loops before and after do to links and lists.
SameHands == \A k \in Links : AtHand(calls', k) <=> AtHand(calls, k)
WalksGoOn ==
    \A l \in Objects : /\ WalkedIn(calls, l) => WalkedIn(calls', l)
                       /\ ClonedIn(calls, l) => ClonedIn(calls', l)

LEMMA ShapeStays ==
    ASSUME LinksInv, UNCHANGED shape, SameLists, SameHands, WalksGoOn,
           LoopsLinked', CursorsLinked'
    PROVE  LinksInv'
<1>1. /\ head' = head /\ tail' = tail /\ links' = links /\ next' = next /\ prev' = prev
      /\ order' = order /\ clones' = clones
  BY DEF shape
<1>2. \A l \in Objects : (Walked(l) => Walked(l)') /\ (Cloned(l) => Cloned(l)')
  BY WalkedAndCloned DEF WalksGoOn
<1>3. OrderTypeOK'
  <2>1. \A o \in clones : o \in Objects /\ kind'[o] = "list" /\ (Walked(o)' \/ order[o] # << >>)
    BY <1>2 DEF LinksInv, OrderTypeOK, SameLists
  <2>2. \A o \in Objects : kind'[o] # "list" => order[o] = << >>
    BY DEF LinksInv, OrderTypeOK, SameLists
  <2>3. order \in [Objects -> Seq(Links)] /\ clones \in SUBSET Objects
    BY DEF LinksInv, OrderTypeOK
  <2>4. QED
    BY <1>1, <2>1, <2>2, <2>3 DEF OrderTypeOK
<1>4. LinksHaveLists'
  <2>1. Spread(order) /\ Housed(order, calls, links)
    BY HaveLists DEF LinksInv
  <2>2. Housed(order', calls', links')
    BY <1>1, <2>1 DEF Housed, SameHands
  <2>3. QED
    BY <1>1, <2>1, <2>2, HaveLists
<1>5. ListsLinked'
  <2>1. ASSUME NEW l \in Objects, kind'[l] = "list" PROVE WellLinked(l)'
    <3>1. kind[l] = "list"
      BY <2>1 DEF SameLists
    <3>2. PointersStay(l)
      BY <1>1 DEF PointersStay
    <3>3. QED
      BY <1>2, <3>1, <3>2, StaysLinked
  <2>2. QED
    BY <2>1 DEF ListsLinked
<1>6. QED
  BY <1>3, <1>4, <1>5 DEF LinksInv

\* The iterators of lists keep their places, if they do not lose their lists.
ItersStay ==
    \A i \in Objects : kind'[i] = "iter" =>
        /\ kind[i] = "iter" /\ refers'[i] \in {refers[i], NoObject}
        /\ cursor'[i] \in {cursor[i], NoLink}

LEMMA ItersLinked ==
    ASSUME LinksInv, ItersStay, \A l \in Objects : \A k \in Links : On(k, l) => On(k, l)',
           CollectionsInv
    PROVE  CursorsLinked'
<1>1. ASSUME NEW i \in Objects, kind'[i] = "iter", refers'[i] # NoObject, cursor'[i] # NoLink
      PROVE  In(cursor'[i], order'[refers'[i]])
  <2>1. kind[i] = "iter" /\ refers'[i] = refers[i] /\ cursor'[i] = cursor[i] /\ refers[i] # NoObject
    BY <1>1 DEF ItersStay
  <2>2. On(cursor[i], refers[i])
    BY <1>1, <2>1 DEF LinksInv, CursorsLinked
  <2>3. refers[i] \in Objects
    BY <2>1, ParentHeld
  <2>4. cursor[i] \in Links
    BY <2>2, <2>3, OrderFacts
  <2>5. QED
    BY <2>1, <2>2, <2>3, <2>4 DEF On
<1>2. QED
  BY <1>1 DEF CursorsLinked, On

\* Nothing is under way before or after.
LEMMA QuietLinks ==
    ASSUME LinksInv, Idle, calls' = calls, UNCHANGED shape, SameLists, CursorsLinked'
    PROVE  LinksInv'
<1>1. calls = << >> /\ calls' = << >>
  BY DEF Idle
<1>2. SameHands /\ WalksGoOn
  BY <1>1 DEF SameHands, WalksGoOn
<1>3. LoopsLinked'
  BY <1>1 DEF LoopsLinked, Apart, Waiting
<1>4. QED
  BY <1>2, <1>3, ShapeStays

\* A loop that starts.
LEMMA StartLinks ==
    ASSUME CollectionsInv', LinksInv, Idle, NEW c \in Loop, calls' = <<c>>, c.link = NoLink, LoopLinked(c)',
           UNCHANGED shape, SameLists, CursorsLinked'
    PROVE  LinksInv'
<1>1. calls = << >>
  BY DEF Idle
<1>2. /\ \A k : ~AtHand(calls, k) /\ ~WalkedIn(calls, k) /\ ~ClonedIn(calls, k)
      /\ \A k : AtHand(calls', k) <=> c.link = k
      /\ Apart(calls') /\ Waiting(calls')
  BY <1>1, FewLinkLoops
<1>3. SameHands /\ WalksGoOn
  <2>1. NoLink \notin Links
    BY ListsAssumption
  <2>2. QED
    BY <1>2, <2>1 DEF SameHands, WalksGoOn
<1>4. LoopsOf(calls') = {c}
  BY OneLoop
<1>5. HeapTypeOK'
  BY DEF CollectionsInv
<1>6. LoopsLinked'
  BY <1>2, <1>4, <1>5, LinkLoopsAgain
<1>7. QED
  BY <1>3, <1>6, ShapeStays

-----------------------------------------------------------------------------
(* Deletions *)

\* An object with one reference, which is no variable, is no list being emptied.
LEMMA NotWalked ==
    ASSUME CollectionsInv, LinksInv, NEW h \in Holders \ Vars, NEW x \in Objects,
           refers[h] = x, refCount[x] = 1
    PROVE  ~Walked(x)
<1> SUFFICES ASSUME NEW j \in 1 .. Len(calls), Walks(calls[j], x)
             PROVE  FALSE
  BY DEF Walked
<1>1. ~Dying(x)
  BY DEF CollectionsInv, LiveByCount
<1>2. calls[j].does \in {"clear", "load"} /\ calls[j].for = x
  BY <1>1 DEF Walks, Dying
<1>3. LoopLinked(calls[j])
  BY DEF LinksInv, LoopsLinked
<1>4. InVar(x)
  BY <1>2, <1>3 DEF LoopLinked, EmptiesLinked
<1>5. PICK v \in Vars : refers[v] = x
  BY <1>4 DEF InVar
<1>6. v \in Holders /\ v # h
  BY CellFacts
<1>7. refCount[x] # 1
  BY <1>5, <1>6, InvFacts, TwoHolders
<1>8. QED
  BY <1>7

LEMMA NewDeletion ==
    ASSUME CollectionsInv, LinksInv, NEW x \in Objects, ~Walked(x),
           order'[x] = order[x], kind'[x] = kind[x], NEW does \in {"delete", "drop"},
           NEW c, c = Deletion(does, x)
    PROVE  /\ c \in Loop /\ LoopLinked(c)'
           /\ c.does = does /\ c.for = x /\ c.link = NoLink
<1>1. /\ c \in Loop /\ c.does = does /\ c.for = x /\ c.link = NoLink
  BY InvFacts, DeletionIsLoop
<1>2. kind[x] = "list" => c.cur = FirstLink(order[x])
  <2>1. ASSUME kind[x] = "list" PROVE c.cur = FirstLink(order[x])
    <3>1. c.cur = head[x]
      BY <2>1 DEF Deletion, Calls
    <3>2. WellLinked(x)
      BY <2>1 DEF LinksInv, ListsLinked
    <3>3. QED
      BY <3>1, <3>2 DEF WellLinked, FirstLink
  <2>2. QED
    BY <2>1
<1>3. WalkLinked(c)'
  BY <1>1, <1>2 DEF WalkLinked
<1>4. HandLinked(c)' /\ EmptiesLinked(c)' /\ SeekLinked(c)' /\ CloneLinked(c)'
  BY <1>1 DEF HandLinked, EmptiesLinked, SeekLinked, CloneLinked
<1>5. QED
  BY <1>1, <1>3, <1>4 DEF LoopLinked

\* A loop that waits while lists only lose links.
OrdersShrink == \A l \in Objects : \A k \in Links : On(k, l)' => On(k, l)

\* What c walks over stays.
WalkStays(c) ==
    /\ kind'[c.for] = "list" <=> kind[c.for] = "list"
    /\ order'[c.for] = order[c.for]

LEMMA WaitsLinked ==
    ASSUME CollectionsInv, LinksInv, NEW c \in Loop, LoopLinked(c),
           c.does \in Walkers \cup {"resize", "remove"}, c.does \in Walkers => WalkStays(c),
           \A v \in Vars : refers'[v] = refers[v], OrdersShrink, ItersStay
    PROVE  LoopLinked(c)'
<1>1. WalkLinked(c)'
  BY DEF LoopLinked, WalkLinked, WalkStays
<1>2. HandLinked(c)'
  <2>1. c.link \in Link /\ (c.link # NoLink => c.link \in Links)
    BY DEF Loop, Link
  <2>2. \A l \in Objects : c.link # NoLink /\ ~On(c.link, l) => ~On(c.link, l)'
    BY <2>1 DEF OrdersShrink
  <2>3. c.link # NoLink /\ c.does # "clone" => \A l \in Objects : ~On(c.link, l)
    BY DEF LoopLinked, HandLinked
  <2>4. c.link # NoLink => \/ c.does \in {"remove", "clone"}
                           \/ c.does \in Walkers /\ kind'[c.for] = "list"
    BY DEF LoopLinked, HandLinked, WalkStays
  <2>5. c.link # NoLink /\ c.does # "clone" => \A l \in Objects : ~On(c.link, l)'
    BY <2>2, <2>3
  <2>6. QED
    BY <2>4, <2>5 DEF HandLinked
<1>3. EmptiesLinked(c)'
  <2>1. InVar(c.for) => InVar(c.for)'
    BY DEF InVar
  <2>2. ASSUME c.does \in {"clear", "load"}, kind'[c.for] = "list" PROVE NoneSeen(c.for, {})'
    <3>1. NoneSeen(c.for, {}) /\ c.for \in Objects
      BY <2>2 DEF LoopLinked, EmptiesLinked, WalkStays, Walkers, Loop
    <3>2. ASSUME NEW i \in Objects, kind'[i] = "iter", refers'[i] = c.for PROVE cursor'[i] = NoLink
      <4>1. kind[i] = "iter" /\ refers[i] = c.for /\ cursor'[i] \in {cursor[i], NoLink}
        BY <3>1, <3>2, InvFacts DEF ItersStay
      <4>2. QED
        BY <3>1, <4>1 DEF NoneSeen, ItersOf
    <3>3. QED
      BY <3>2 DEF NoneSeen, ItersOf
  <2>3. QED
    BY <2>1, <2>2 DEF LoopLinked, EmptiesLinked
<1>4. SeekLinked(c)' /\ CloneLinked(c)'
  BY DEF SeekLinked, CloneLinked, Walkers
<1>5. QED
  BY <1>1, <1>2, <1>3, <1>4 DEF LoopLinked

\* The loops after a release.
LEMMA AndDeleteLinks ==
    ASSUME CollectionsInv, CollectionsInv', LinksInv, NEW x \in Object, NEW rest \in Seq(Loop),
           calls' = AndDelete(x, rest), \A c \in LoopsOf(rest) : LoopLinked(c)',
           Apart(rest), Releasing(rest),
           x \in Objects /\ refCount[x] = 1 => /\ ~Walked(x) /\ ~WalkedIn(rest, x)
                                               /\ order'[x] = order[x] /\ kind'[x] = kind[x]
    PROVE  /\ LoopsLinked'
           /\ \A l : WalkedIn(rest, l) => WalkedIn(calls', l)
           /\ \A l : ClonedIn(calls', l) <=> ClonedIn(rest, l)
           /\ \A k \in Links : AtHand(calls', k) <=> AtHand(rest, k)
<1>1. HeapTypeOK' /\ NoObject \notin Objects /\ NoLink \notin Links
  BY InvFacts DEF CollectionsInv
<1>2. CASE ~(x # NoObject /\ refCount[x] = 1)
  <2>1. calls' = rest
    BY <1>2 DEF AndDelete
  <2>2. Waiting(rest)
    <3>1. \A j \in 2 .. Len(rest) : j \in 1 .. Len(rest)
      OBVIOUS
    <3>2. QED
      BY <3>1 DEF Waiting, Releasing
  <2>3. LoopsLinked'
    BY <1>1, <2>1, <2>2, LinkLoopsAgain
  <2>4. QED
    BY <2>1, <2>3
<1>3. CASE x # NoObject /\ refCount[x] = 1
  <2>1. x \in Objects
    BY <1>3, InvFacts
  <2>2. calls' = <<Deletion("delete", x)>> \o rest
    BY <1>3 DEF AndDelete
  <2>3. PICK c : c = Deletion("delete", x)
    OBVIOUS
  <2>4. ~Walked(x) /\ ~WalkedIn(rest, x) /\ order'[x] = order[x] /\ kind'[x] = kind[x]
    BY <1>3, <2>1
  <2>5. c \in Loop /\ LoopLinked(c)' /\ c.does = "delete" /\ c.for = x /\ c.link = NoLink
    BY <2>1, <2>3, <2>4, NewDeletion
  <2>6. calls' = <<c>> \o rest
    BY <2>2, <2>3
  <2>7. ApartFrom(c, rest)
    BY <2>4, <2>5 DEF ApartFrom, WalkedIn, Walks, Walkers
  <2>8. /\ \A l : WalkedIn(calls', l) <=> Walks(c, l) \/ WalkedIn(rest, l)
        /\ \A l : ClonedIn(calls', l) <=> (c.does = "clone" /\ c.for = l) \/ ClonedIn(rest, l)
        /\ \A k : AtHand(calls', k) <=> c.link = k \/ AtHand(rest, k)
        /\ Apart(calls') /\ Waiting(calls')
    BY <2>5, <2>6, <2>7, OnLinkLoops
  <2>9. \A d \in LoopsOf(calls') : LoopLinked(d)'
    <3>1. /\ Len(calls') = Len(rest) + 1 /\ Len(rest) \in Nat /\ calls'[1] = c
          /\ \A j \in 1 .. Len(rest) : calls'[j + 1] = rest[j]
      BY <2>5, <2>6, OnLoops
    <3>2. ASSUME NEW j \in 1 .. Len(calls') PROVE calls'[j] = c \/ calls'[j] \in LoopsOf(rest)
      <4>1. CASE j = 1
        BY <3>1, <4>1
      <4>2. CASE j # 1
        <5>1. j - 1 \in 1 .. Len(rest) /\ (j - 1) + 1 = j
          BY <3>1, <4>2
        <5>2. calls'[j] = rest[j - 1]
          BY <3>1, <5>1
        <5>3. QED
          BY <5>1, <5>2 DEF LoopsOf
      <4>3. QED
        BY <4>1, <4>2
    <3>3. \A d \in LoopsOf(calls') : d = c \/ d \in LoopsOf(rest)
      BY <3>2 DEF LoopsOf
    <3>4. QED
      BY <2>5, <3>3
  <2>10. LoopsLinked'
    BY <1>1, <2>8, <2>9, LinkLoopsAgain
  <2>11. QED
    BY <1>1, <2>5, <2>8, <2>10
<1>4. QED
  BY <1>2, <1>3

-----------------------------------------------------------------------------
(* Methods that leave the links as they are *)

LEMMA NoneWalked ==
    ASSUME Idle
    PROVE  /\ \A l : AtRest(l) /\ ~Walked(l) /\ ~Cloned(l)
           /\ calls = << >>
           /\ \A k : ~AtHand(calls, k) /\ ~WalkedIn(calls, k) /\ ~ClonedIn(calls, k)
BY WalkedAndCloned, FewLinkLoops DEF Idle, AtRest

LEMMA OrdersStay ==
    ASSUME UNCHANGED shape
    PROVE  /\ OrdersShrink /\ \A l \in Objects : \A k \in Links : On(k, l) => On(k, l)'
           /\ head' = head /\ tail' = tail /\ links' = links /\ next' = next /\ prev' = prev
           /\ order' = order /\ clones' = clones
BY DEF shape, OrdersShrink, On

LEMMA PlainLinks ==
    ASSUME CollectionsInv, LinksInv, Idle, calls' = calls, UNCHANGED shape, SameLists, ItersStay
    PROVE  LinksInv'
BY OrdersStay, ItersLinked, QuietLinks

LEMMA SameKinds ==
    ASSUME kind' = kind, cursor' = cursor, \A i \in Objects : refers'[i] = refers[i]
    PROVE  SameLists /\ ItersStay
BY DEF SameLists, ItersStay

LEMMA NewKind ==
    ASSUME CollectionsInv, NEW o \in FreeObjects, NEW what, what \notin {"list", "iter"},
           kind' = [kind EXCEPT ![o] = what],
           \A i \in Objects \ {o} : refers'[i] = refers[i] /\ cursor'[i] = cursor[i]
    PROVE  SameLists /\ ItersStay
<1>1. kind[o] = "free" /\ o \in Objects
  BY FreeFacts
<1>2. kind'[o] = what /\ \A i \in Objects \ {o} : kind'[i] = kind[i]
  BY <1>1, InvFacts
<1>3. QED
  BY <1>1, <1>2 DEF SameLists, ItersStay

LEMMA OtherCursor ==
    ASSUME CollectionsInv, NEW i \in Objects, kind[i] # "iter", UNCHANGED <<kind, refers>>,
           \A j \in Objects \ {i} : cursor'[j] = cursor[j]
    PROVE  SameLists /\ ItersStay
BY DEF SameLists, ItersStay

\* A method that releases x.
LEMMA DeletesLinks ==
    ASSUME CollectionsInv, CollectionsInv', LinksInv, Idle, UNCHANGED shape, kind' = kind, cursor' = cursor,
           \A i \in Objects : refers'[i] = refers[i], NEW x \in Object, calls' = AndDelete(x, << >>)
    PROVE  LinksInv'
<1>1. /\ Apart(<< >>) /\ Releasing(<< >>) /\ << >> \in Seq(Loop) /\ LoopsOf(<< >>) = {}
      /\ \A l : ~WalkedIn(<< >>, l) /\ ~ClonedIn(<< >>, l) /\ ~AtHand(<< >>, l)
  BY FewLinkLoops DEF LoopsOf
<1>2. order' = order /\ ~Walked(x)
  BY NoneWalked, OrdersStay
<1>3. /\ LoopsLinked' /\ \A l : ~ClonedIn(calls', l)
      /\ \A k \in Links : ~AtHand(calls', k)
  BY <1>1, <1>2, AndDeleteLinks
<1>4. SameHands /\ WalksGoOn
  BY <1>3, NoneWalked DEF SameHands, WalksGoOn
<1>5. SameLists /\ ItersStay
  BY SameKinds
<1>6. CursorsLinked'
  BY <1>5, OrdersStay, ItersLinked
<1>7. QED
  BY <1>3, <1>4, <1>5, <1>6, ShapeStays

\* A method that starts a loop.
LEMMA LoopStartsLinks ==
    ASSUME CollectionsInv, CollectionsInv', LinksInv, Idle, UNCHANGED <<counts, shape, cursor>>,
           NEW c \in Loop, calls' = <<c>>, c.link = NoLink, c.does # "clone",
           c.does \in Walkers /\ kind[c.for] = "list" => c.cur = FirstLink(order[c.for]),
           EmptiesLinked(c), SeekLinked(c)
    PROVE  LinksInv'
<1>1. kind' = kind /\ refers' = refers /\ cursor' = cursor /\ order' = order
  BY OrdersStay DEF counts
<1>2. WalkLinked(c)' /\ HandLinked(c)' /\ CloneLinked(c)'
  BY <1>1 DEF WalkLinked, HandLinked, CloneLinked
<1>3. EmptiesLinked(c)' /\ SeekLinked(c)'
  BY <1>1 DEF EmptiesLinked, SeekLinked, InVar, NoneSeen, ItersOf, On
<1>4. LoopLinked(c)'
  BY <1>2, <1>3 DEF LoopLinked
<1>5. SameLists /\ ItersStay
  BY <1>1, SameKinds
<1>6. CursorsLinked'
  BY <1>5, OrdersStay, ItersLinked
<1>7. UNCHANGED shape
  OBVIOUS
<1>8. QED
  BY <1>4, <1>5, <1>6, <1>7, StartLinks

-----------------------------------------------------------------------------
(* Methods of variables, arrays and maps *)

LEMMA OnVarLinks ==
    ASSUME CollectionsInv, CollectionsInv', LinksInv, NEW v \in Vars, OnVar(v)
    PROVE  LinksInv'
<1>1. v \in Holders /\ refers[v] \in Object /\ \A i \in Objects : i # v
  BY CellFacts, InvFacts, ListsAssumption
<1>2. CASE Fetch(v)
  <2>1. Idle /\ UNCHANGED <<calls, shape>> /\ UNCHANGED <<kind, refers, cursor>>
    BY <1>2 DEF Fetch, counts
  <2>2. QED
    BY <2>1, SameKinds, PlainLinks
<1>3. CASE Store(v)
  <2>1. /\ Idle /\ UNCHANGED shape /\ UNCHANGED <<kind, cursor>>
        /\ refers' = [refers EXCEPT ![v] = stack]
        /\ calls' = calls \/ calls' = AndDelete(refers[v], << >>)
    BY <1>3 DEF Store
  <2>2. \A i \in Objects : refers'[i] = refers[i]
    BY <1>1, <2>1
  <2>3. CASE calls' = calls
    BY <2>1, <2>2, <2>3, SameKinds, PlainLinks
  <2>4. CASE calls' = AndDelete(refers[v], << >>)
    BY <1>1, <2>1, <2>2, <2>4, DeletesLinks
  <2>5. QED
    BY <2>1, <2>3, <2>4
<1>4. CASE ClearVar(v)
  <2>1. /\ Idle /\ UNCHANGED shape /\ UNCHANGED <<kind, cursor>>
        /\ refers' = [refers EXCEPT ![v] = NoObject]
        /\ calls' = AndDelete(refers[v], << >>)
    BY <1>4 DEF ClearVar, Release
  <2>2. \A i \in Objects : refers'[i] = refers[i]
    BY <1>1, <2>1
  <2>3. QED
    BY <1>1, <2>1, <2>2, DeletesLinks
<1>5. QED
  BY <1>2, <1>3, <1>4 DEF OnVar

LEMMA DropLinks ==
    ASSUME CollectionsInv, CollectionsInv', LinksInv, Drop
    PROVE  LinksInv'
<1>1. /\ Idle /\ stack # NoObject /\ UNCHANGED <<counts, shape, cursor>>
      /\ calls' = IF refCount[stack] = 0 THEN <<Deletion("drop", stack)>> ELSE << >>
  BY DEF Drop
<1>2. kind' = kind /\ refers' = refers /\ cursor' = cursor /\ order' = order /\ stack \in Objects
  BY <1>1, OrdersStay, InvFacts DEF counts
<1>3. CASE refCount[stack] # 0
  <2>1. calls' = calls /\ UNCHANGED shape
    BY <1>1, <1>3 DEF Idle
  <2>2. QED
    BY <1>1, <1>2, <2>1, SameKinds, PlainLinks
<1>4. CASE refCount[stack] = 0
  <2>1. PICK c : c = Deletion("drop", stack)
    OBVIOUS
  <2>2. ~Walked(stack)
    BY <1>1, NoneWalked
  <2>3. c \in Loop /\ LoopLinked(c)' /\ c.link = NoLink
    BY <1>2, <2>1, <2>2, NewDeletion
  <2>4. SameLists /\ ItersStay
    BY <1>2, SameKinds
  <2>5. UNCHANGED shape /\ calls' = <<c>>
    BY <1>1, <1>4, <2>1
  <2>6. CursorsLinked'
    BY <2>4, <2>5, OrdersStay, ItersLinked
  <2>7. QED
    BY <1>1, <2>3, <2>4, <2>5, <2>6, StartLinks
<1>5. QED
  BY <1>3, <1>4

\* What a method of an array or map does to the rest of the heap.
CellsOnly ==
    /\ kind' = kind /\ cursor' = cursor /\ UNCHANGED shape
    /\ \A i \in Objects : refers'[i] = refers[i]

LEMMA FilledCells ==
    ASSUME CollectionsInv, NEW a \in Objects, NEW s, refers' = Filled(refers, a, s)
    PROVE  \A i \in Objects : refers'[i] = refers[i]
<1>1. \A i \in Objects : i \in Holders /\ i \notin {a} \X (1 .. MaxElements)
  BY CellFacts DEF Cells
<1>2. QED
  BY <1>1 DEF Filled

LEMMA OneCell ==
    ASSUME CollectionsInv, NEW a \in Objects, NEW n \in 1 .. MaxElements, NEW y,
           refers' = [refers EXCEPT ![<<a, n>>] = y]
    PROVE  \A i \in Objects : refers'[i] = refers[i]
<1>1. \A i \in Objects : i # <<a, n>>
  BY CellFacts
<1>2. QED
  BY <1>1

LEMMA CellsOnlyLinks ==
    ASSUME CollectionsInv, CollectionsInv', LinksInv, Idle, CellsOnly,
           calls' = calls \/ \E x \in Object : calls' = AndDelete(x, << >>)
    PROVE  LinksInv'
<1>1. CASE calls' = calls
  BY <1>1, SameKinds, PlainLinks DEF CellsOnly
<1>2. ASSUME NEW x \in Object, calls' = AndDelete(x, << >>) PROVE LinksInv'
  BY <1>2, DeletesLinks DEF CellsOnly
<1>3. QED
  BY <1>1, <1>2

LEMMA ArrayCellsLinks ==
    ASSUME CollectionsInv, CollectionsInv', LinksInv, NEW a \in Objects, NEW n \in Nat, Idle,
           \/ Push(a) \/ Insert(a, n) \/ InsertElement(a, n) \/ Pop(a) \/ RemoveElement(a, n)
           \/ Unref(a, n) \/ ReverseElements(a) \/ Get(a, n)
    PROVE  LinksInv'
<1>1. CASE Push(a) \/ Insert(a, n) \/ InsertElement(a, n)
  <2>1. PICK m : InsertElement(a, m)
    BY <1>1 DEF Push, Insert
  <2>2. PICK s : refers' = Filled(refers, a, s)
    BY <2>1 DEF InsertElement, Change
  <2>3. calls' = calls /\ UNCHANGED <<kind, cursor>> /\ UNCHANGED shape
    BY <2>1 DEF InsertElement
  <2>4. CellsOnly
    BY <2>2, <2>3, FilledCells DEF CellsOnly
  <2>5. QED
    BY <2>3, <2>4, CellsOnlyLinks
<1>2. CASE Pop(a) \/ RemoveElement(a, n) \/ Unref(a, n)
  <2>1. PICK m, s : Unreferred(a, m, s) /\ cursor' = cursor
    BY <1>2 DEF Pop, RemoveElement, Unref
  <2>2. refers' = Filled(refers, a, s) /\ calls' = calls /\ kind' = kind /\ UNCHANGED shape
    BY <2>1 DEF Unreferred, Change
  <2>3. CellsOnly
    BY <2>1, <2>2, FilledCells DEF CellsOnly
  <2>4. QED
    BY <2>2, <2>3, CellsOnlyLinks
<1>3. CASE ReverseElements(a)
  <2>1. PICK s : refers' = Filled(refers, a, s)
    BY <1>3 DEF ReverseElements, Change
  <2>2. calls' = calls /\ UNCHANGED <<kind, cursor>> /\ UNCHANGED shape
    BY <1>3 DEF ReverseElements
  <2>3. CellsOnly
    BY <2>1, <2>2, FilledCells DEF CellsOnly
  <2>4. QED
    BY <2>2, <2>3, CellsOnlyLinks
<1>4. CASE Get(a, n)
  <2>1. calls' = calls /\ CellsOnly
    BY <1>4 DEF Get, CellsOnly, counts
  <2>2. QED
    BY <2>1, CellsOnlyLinks
<1>5. QED
  BY <1>1, <1>2, <1>3, <1>4

LEMMA OneCellLinks ==
    ASSUME CollectionsInv, CollectionsInv', LinksInv, NEW a \in Objects, NEW n \in 1 .. MaxElements, Idle,
           refers[<<a, n>>] \in Object, UNCHANGED <<kind, cursor>>, UNCHANGED shape,
           \E y : refers' = [refers EXCEPT ![<<a, n>>] = y],
           calls' = calls \/ calls' = AndDelete(refers[<<a, n>>], << >>)
    PROVE  LinksInv'
BY OneCell, CellsOnlyLinks DEF CellsOnly

LEMMA SetLinks ==
    ASSUME CollectionsInv, CollectionsInv', LinksInv,
           NEW a \in Objects, NEW n, Idle, UNCHANGED <<kind, cursor>>, UNCHANGED shape,
           n \in Used(a), Replace(<<a, n>>)
    PROVE  LinksInv'
<1>1. n \in 1 .. MaxElements /\ refers[<<a, n>>] \in Object
  BY UsedCells
<1>2. /\ \E y : refers' = [refers EXCEPT ![<<a, n>>] = y]
      /\ calls' = calls \/ calls' = AndDelete(refers[<<a, n>>], << >>)
  BY DEF Replace
<1>3. QED
  BY <1>1, <1>2, OneCellLinks

LEMMA SwapLinks ==
    ASSUME CollectionsInv, CollectionsInv', LinksInv, NEW a \in Objects, NEW m, NEW n, Swap(a, m, n)
    PROVE  LinksInv'
<1>1. /\ Idle /\ {m, n} \subseteq Used(a) /\ UNCHANGED <<kind, cursor, calls>> /\ UNCHANGED shape
      /\ refers' = [refers EXCEPT ![<<a, m>>] = refers[<<a, n>>], ![<<a, n>>] = refers[<<a, m>>]]
  BY DEF Swap, ArrayMethod
<1>2. m \in 1 .. MaxElements /\ n \in 1 .. MaxElements
  BY <1>1, UsedCells
<1>3. \A i \in Objects : i # <<a, m>> /\ i # <<a, n>>
  BY <1>2, CellFacts
<1>4. \A i \in Objects : refers'[i] = refers[i]
  <2>1. refers \in [Holders -> Referred] /\ \A i \in Objects : i \in Holders
    BY InvFacts, CellFacts
  <2>2. QED
    BY <1>1, <1>3, <2>1
<1>5. CellsOnly
  BY <1>1, <1>4 DEF CellsOnly
<1>6. QED
  BY <1>1, <1>5, CellsOnlyLinks

\* New iterators of arrays and maps.
LEMMA NewIterLinks ==
    ASSUME CollectionsInv, LinksInv, Idle, calls' = calls, UNCHANGED shape,
           NEW what \in {"arrayIter", "intMapIter"}, NEW i, NEW a, NEW n, MakeIter(what, i, a, n)
    PROVE  LinksInv'
<1>1. /\ i \in FreeObjects /\ what \notin {"list", "iter"} /\ kind' = [kind EXCEPT ![i] = what]
      /\ \A j \in Objects \ {i} : refers'[j] = refers[j] /\ cursor'[j] = cursor[j]
  BY DEF MakeIter
<1>2. QED
  BY <1>1, NewKind, PlainLinks

LEMMA ResizeLinks ==
    ASSUME CollectionsInv, CollectionsInv', LinksInv, NEW a \in Arrays, NEW n, Resize(a, n)
    PROVE  LinksInv'
<1>1. Idle /\ stack = NoObject /\ n \in 0 .. program.cells /\ UNCHANGED <<kind, refCount, cursor>>
      /\ UNCHANGED shape
  BY DEF Resize, ArrayMethod
<1>2. a \in Objects /\ kind[a] = "array" /\ InVar(a)
  BY ArraysFacts
<1>3. CASE n >= Size(a)
  <2>1. calls' = calls /\ \E s : refers' = Filled(refers, a, s)
    BY <1>3 DEF Resize, Change
  <2>2. CellsOnly
    BY <1>1, <1>2, <2>1, FilledCells DEF CellsOnly
  <2>3. QED
    BY <1>1, <2>1, <2>2, CellsOnlyLinks
<1>4. CASE ~(n >= Size(a))
  <2>1. /\ calls' = <<[Calls("resize", a, NoLink, NoLink, NoObject) EXCEPT !.cell = n + 1, !.number = n]>>
        /\ refers' = refers
    BY <1>4 DEF Resize
  <2>2. PICK c : c = [Calls("resize", a, NoLink, NoLink, NoObject) EXCEPT !.cell = n + 1, !.number = n]
    OBVIOUS
  <2>3. c.does = "resize" /\ c.for = a /\ c.link = NoLink /\ c.cur = NoLink /\ calls' = <<c>>
    BY <2>1, <2>2 DEF Calls
  <2>4. c \in Loop
    <3>1. Len(calls') = 1 /\ calls'[1] = c /\ calls' \in Seq(Loop)
      BY <2>3 DEF CollectionsInv, HeapTypeOK
    <3>2. QED
      BY <3>1
  <2>5. EmptiesLinked(c) /\ SeekLinked(c)
    BY <2>3 DEF EmptiesLinked, SeekLinked
  <2>6. UNCHANGED <<counts, shape, cursor>>
    BY <1>1, <2>1 DEF counts
  <2>7. ~(c.does \in Walkers) /\ c.does # "clone"
    BY <2>3 DEF Walkers
  <2>8. QED
    BY <1>1, <2>3, <2>4, <2>5, <2>6, <2>7, LoopStartsLinks
<1>5. QED
  BY <1>3, <1>4

\* Clear and load of an array or map.
LEMMA ClearCellsLinks ==
    ASSUME CollectionsInv, CollectionsInv', LinksInv, NEW a \in Objects, NEW n,
           \/ a \in Arrays /\ ArrayClear(a)
           \/ a \in IntMaps /\ (MapClear(a) \/ MapLoad(a, n))
    PROVE  LinksInv'
<1>1. Idle /\ UNCHANGED <<counts, shape, cursor>>
  BY DEF ArrayClear, ArrayMethod, MapClear, MapLoad, MapMethod
<1>2. a \in Objects /\ kind[a] # "list" /\ InVar(a)
  BY DEF Arrays, IntMaps, InVar
<1>3. PICK c : /\ c.does \in {"clear", "load"} /\ c.for = a /\ c.link = NoLink /\ calls' = <<c>>
  <2>1. CASE ArrayClear(a) \/ MapClear(a)
    <3>1. calls' = <<Calls("clear", a, NoLink, NoLink, NoObject)>>
      BY <2>1 DEF ArrayClear, MapClear
    <3>2. QED
      BY <3>1 DEF Calls
  <2>2. CASE MapLoad(a, n)
    <3>1. calls' = <<[Calls("load", a, NoLink, NoLink, stack) EXCEPT !.number = n]>>
      BY <2>2 DEF MapLoad
    <3>2. PICK c : c = [Calls("load", a, NoLink, NoLink, stack) EXCEPT !.number = n]
      OBVIOUS
    <3>3. c.does = "load" /\ c.for = a /\ c.link = NoLink
      BY <3>2 DEF Calls
    <3>4. QED
      BY <3>1, <3>2, <3>3
  <2>3. QED
    BY <2>1, <2>2
<1>4. c \in Loop
  <2>1. calls' \in Seq(Loop)
    BY DEF CollectionsInv, HeapTypeOK
  <2>2. <<c>> \in Seq(Loop)
    BY <1>3, <2>1
  <2>3. QED
    BY <2>2
<1>5. EmptiesLinked(c) /\ SeekLinked(c)
  BY <1>2, <1>3 DEF EmptiesLinked, SeekLinked
<1>6. c.does # "clone" /\ ~(kind[c.for] = "list")
  BY <1>2, <1>3
<1>7. QED
  BY <1>1, <1>3, <1>4, <1>5, <1>6, LoopStartsLinks

LEMMA OnArrayLinks ==
    ASSUME CollectionsInv, CollectionsInv', LinksInv, NEW a \in Arrays, OnArray(a)
    PROVE  LinksInv'
<1>1. a \in Objects /\ \A n \in 0 .. MaxElements : n \in Nat
  BY ArraysFacts, ListsAssumption
<1>2. ASSUME NEW o \in Objects, ArrayHeadIter(a, o) \/ ArrayTailIter(a, o) \/ ArrayFind(a, o)
      PROVE  LinksInv'
  <2>1. Idle /\ calls' = calls /\ UNCHANGED shape
    BY <1>2 DEF ArrayHeadIter, ArrayTailIter, ArrayFind, ArrayMethod
  <2>2. \/ \E n : MakeIter("arrayIter", o, a, n)
        \/ UNCHANGED <<kind, refers, cursor>>
    BY <1>2 DEF ArrayHeadIter, ArrayTailIter, ArrayFind, counts
  <2>3. CASE \E n : MakeIter("arrayIter", o, a, n)
    BY <2>1, <2>3, NewIterLinks
  <2>4. CASE UNCHANGED <<kind, refers, cursor>>
    BY <2>1, <2>4, SameKinds, PlainLinks
  <2>5. QED
    BY <2>2, <2>3, <2>4
<1>3. ASSUME NEW o \in Objects, ArrayClone(a, o) PROVE LinksInv'
  <2>1. /\ Idle /\ calls' = calls /\ UNCHANGED shape /\ o \in FreeObjects /\ cursor' = cursor
        /\ kind' = [kind EXCEPT ![o] = "array"] /\ refers' = Filled(refers, o, Elements(a))
    BY <1>3 DEF ArrayClone, ArrayMethod, Change
  <2>2. \A i \in Objects : refers'[i] = refers[i]
    BY <2>1, FilledCells
  <2>3. QED
    BY <2>1, <2>2, NewKind, PlainLinks
<1>4. CASE ArrayClear(a)
  BY <1>1, <1>4, ClearCellsLinks
<1>5. CASE Push(a) \/ Pop(a) \/ ReverseElements(a)
  <2>1. Idle /\ 0 \in Nat
    BY <1>5 DEF Push, Pop, RemoveElement, ReverseElements, ArrayMethod
  <2>2. QED
    BY <1>1, <1>5, <2>1, ArrayCellsLinks
<1>6. ASSUME NEW n \in 0 .. MaxElements,
             Get(a, n) \/ Insert(a, n) \/ RemoveElement(a, n) \/ Unref(a, n)
      PROVE  LinksInv'
  <2>1. Idle /\ n \in Nat
    BY <1>1, <1>6 DEF Get, Insert, RemoveElement, Unref, ArrayMethod
  <2>2. QED
    BY <1>1, <1>6, <2>1, ArrayCellsLinks
<1>7. ASSUME NEW n \in 0 .. MaxElements, Set(a, n) PROVE LinksInv'
  <2>1. Idle /\ UNCHANGED <<kind, cursor>> /\ UNCHANGED shape /\ n \in Used(a) /\ Replace(<<a, n>>)
    BY <1>7 DEF Set, ArrayMethod
  <2>2. QED
    BY <1>1, <2>1, SetLinks
<1>8. ASSUME NEW n \in 0 .. MaxElements, Resize(a, n) PROVE LinksInv'
  BY <1>8, ResizeLinks
<1>9. ASSUME NEW n \in 0 .. MaxElements, NEW m \in 1 .. n - 1, Swap(a, m, n) PROVE LinksInv'
  BY <1>1, <1>9, SwapLinks
<1>10. QED
  BY <1>2, <1>3, <1>4, <1>5, <1>6, <1>7, <1>8, <1>9 DEF OnArray

LEMMA OnArrayIterLinks ==
    ASSUME CollectionsInv, CollectionsInv', LinksInv, NEW i \in ArrayIters, OnArrayIter(i)
    PROVE  LinksInv'
<1>1. Idle
  BY DEF OnArrayIter, ArraySeekNext, ArraySeekPrev, ArraySeekHead, ArraySeekTail, SeekTo, MoveTo,
         ArrayCurrent, ArrayNext, ArrayPrev, ArrayIterRemove, ArrayIterUnref, ArrayFindNext,
         ArrayIterInsert, ArrayIterClone, ArrayIterMethod
<1>2. /\ i \in Objects /\ kind[i] = "arrayIter" /\ kind[i] # "iter" /\ refers[i] \in Objects
      /\ cursor[i] \in Nat
  BY <1>1, ArrayItersFacts, ListsAssumption
<1>3. CASE \/ ArraySeekNext(i) \/ ArraySeekPrev(i) \/ ArraySeekHead(i) \/ ArraySeekTail(i)
           \/ (\E n \in 1 .. MaxElements + 1 : SeekTo(i, n)) \/ ArrayCurrent(i) \/ ArrayNext(i)
           \/ ArrayPrev(i) \/ ArrayFindNext(i)
  <2>1. /\ calls' = calls /\ UNCHANGED shape /\ UNCHANGED <<kind, refers>>
        /\ cursor' = cursor \/ \E n : cursor' = [cursor EXCEPT ![i] = n]
    BY <1>3 DEF ArraySeekNext, ArraySeekPrev, ArraySeekHead, ArraySeekTail, SeekTo, MoveTo,
         ArrayCurrent, ArrayNext, ArrayPrev, ArrayFindNext, counts
  <2>2. \A j \in Objects \ {i} : cursor'[j] = cursor[j]
    <3>1. cursor \in [Objects -> Link \cup Nat]
      BY InvFacts DEF PointersTypeOK
    <3>2. QED
      BY <2>1, <3>1
  <2>3. QED
    BY <1>1, <1>2, <2>1, <2>2, OtherCursor, PlainLinks
<1>4. CASE ArrayIterRemove(i)
  <2>1. /\ UNCHANGED <<kind, cursor>> /\ UNCHANGED shape
        /\ \E s : refers' = Filled(refers, refers[i], s)
        /\ calls' = AndDelete(refers[Here(i)], << >>) /\ AtElement(i)
    BY <1>4 DEF ArrayIterRemove, Change
  <2>2. CellsOnly
    BY <1>2, <2>1, FilledCells DEF CellsOnly
  <2>3. refers[Here(i)] \in Object
    BY <1>2, <2>1, UsedCells DEF AtElement, Here
  <2>4. QED
    BY <1>1, <2>1, <2>2, <2>3, CellsOnlyLinks
<1>5. CASE ArrayIterUnref(i)
  <2>1. PICK s : Unreferred(refers[i], cursor[i], s) /\ cursor' = cursor
    BY <1>5 DEF ArrayIterUnref
  <2>2. refers' = Filled(refers, refers[i], s) /\ calls' = calls /\ kind' = kind /\ UNCHANGED shape
    BY <2>1 DEF Unreferred, Change
  <2>3. CellsOnly
    BY <1>2, <2>1, <2>2, FilledCells DEF CellsOnly
  <2>4. QED
    BY <1>1, <2>2, <2>3, CellsOnlyLinks
<1>6. CASE ArrayIterInsert(i)
  <2>1. InsertElement(refers[i], cursor[i])
    BY <1>6 DEF ArrayIterInsert
  <2>2. QED
    BY <1>1, <1>2, <2>1, ArrayCellsLinks
<1>7. ASSUME NEW o \in Objects, ArrayIterClone(i, o) PROVE LinksInv'
  <2>1. calls' = calls /\ UNCHANGED shape /\ MakeIter("arrayIter", o, refers[i], cursor[i])
    BY <1>7 DEF ArrayIterClone
  <2>2. QED
    BY <1>1, <2>1, NewIterLinks
<1>8. QED
  BY <1>3, <1>4, <1>5, <1>6, <1>7 DEF OnArrayIter

LEMMA OnIntMapLinks ==
    ASSUME CollectionsInv, CollectionsInv', LinksInv, NEW m \in IntMaps, OnIntMap(m)
    PROVE  LinksInv'
<1>1. m \in Objects
  BY DEF IntMaps
<1>2. ASSUME NEW i \in Objects, \/ MapHeadIter(m, i) \/ MapTailIter(m, i)
                                \/ \E n \in 1 .. program.cells : MapFind(m, i, n)
      PROVE  LinksInv'
  <2>1. Idle /\ calls' = calls /\ UNCHANGED shape /\ \E n : MakeIter("intMapIter", i, m, n)
    BY <1>2 DEF MapHeadIter, MapTailIter, MapFind, MapMethod
  <2>2. QED
    BY <2>1, NewIterLinks
<1>3. ASSUME NEW n, MapClear(m) \/ MapLoad(m, n) PROVE LinksInv'
  BY <1>1, <1>3, ClearCellsLinks
<1>4. ASSUME NEW n \in 1 .. program.cells, Grab(m, n) PROVE LinksInv'
  <2>1. Idle /\ calls' = calls /\ CellsOnly
    BY <1>4 DEF Grab, MapMethod, CellsOnly, counts
  <2>2. QED
    BY <2>1, CellsOnlyLinks
<1>5. ASSUME NEW n \in 1 .. program.cells, MapSet(m, n) PROVE LinksInv'
  <2>1. Idle /\ UNCHANGED <<kind, cursor>> /\ UNCHANGED shape
    BY <1>5 DEF MapSet, MapMethod
  <2>2. CASE n \in Used(m)
    <3>1. Replace(<<m, n>>)
      BY <1>5, <2>2 DEF MapSet
    <3>2. QED
      BY <1>1, <2>1, <2>2, <3>1, SetLinks
  <2>3. CASE n \notin Used(m)
    <3>1. refers' = [refers EXCEPT ![<<m, n>>] = stack] /\ calls' = calls
      BY <1>5, <2>3 DEF MapSet
    <3>2. \A i \in Objects : i # <<m, n>>
      <4>1. n \in 1 .. MaxElements
        BY ProgramFacts
      <4>2. QED
        BY <1>1, <4>1, CellFacts
    <3>3. CellsOnly
      BY <2>1, <3>1, <3>2 DEF CellsOnly
    <3>4. QED
      BY <2>1, <3>1, <3>3, CellsOnlyLinks
  <2>4. QED
    BY <2>2, <2>3
<1>6. ASSUME NEW n \in 1 .. program.cells, MapRemove(m, n) PROVE LinksInv'
  <2>1. /\ Idle /\ UNCHANGED <<kind, cursor>> /\ UNCHANGED shape /\ n \in Used(m)
        /\ refers' = [refers EXCEPT ![<<m, n>>] = Beyond]
        /\ calls' = AndDelete(refers[<<m, n>>], << >>)
    BY <1>6 DEF MapRemove, MapMethod, Erase
  <2>2. n \in 1 .. MaxElements /\ refers[<<m, n>>] \in Object
    BY <1>1, <2>1, UsedCells
  <2>3. QED
    BY <1>1, <2>1, <2>2, OneCellLinks
<1>7. ASSUME NEW n \in 1 .. program.cells, MapUnref(m, n) PROVE LinksInv'
  <2>1. PICK s : Unreferred(m, n, s) /\ cursor' = cursor /\ Idle
    BY <1>7 DEF MapUnref, MapMethod
  <2>2. refers' = Filled(refers, m, s) /\ calls' = calls /\ kind' = kind /\ UNCHANGED shape
    BY <2>1 DEF Unreferred, Change
  <2>3. CellsOnly
    BY <1>1, <2>1, <2>2, FilledCells DEF CellsOnly
  <2>4. QED
    BY <2>1, <2>2, <2>3, CellsOnlyLinks
<1>8. QED
  BY <1>2, <1>3, <1>4, <1>5, <1>6, <1>7 DEF OnIntMap

LEMMA OnIntMapIterLinks ==
    ASSUME CollectionsInv, CollectionsInv', LinksInv, NEW i \in IntMapIters, OnIntMapIter(i)
    PROVE  LinksInv'
<1>1. i \in Objects /\ kind[i] # "iter"
  BY DEF IntMapIters
<1>2. /\ Idle /\ calls' = calls /\ UNCHANGED shape /\ UNCHANGED <<kind, refers>>
      /\ cursor' = cursor \/ \E n : cursor' = [cursor EXCEPT ![i] = n]
  BY DEF OnIntMapIter, MapSeekNext, MapSeekPrev, MapSeekHead, MapSeekTail, MapMoveTo, MapCurrent,
         MapNext, MapPrev, MapIterMethod, counts
<1>3. \A j \in Objects \ {i} : cursor'[j] = cursor[j]
  <2>1. cursor \in [Objects -> Link \cup Nat]
    BY InvFacts DEF PointersTypeOK
  <2>2. QED
    BY <1>2, <2>1
<1>4. QED
  BY <1>1, <1>2, <1>3, OtherCursor, PlainLinks

-----------------------------------------------------------------------------
(* Methods of lists and their iterators that leave the lists as they are *)

\* The pointers of a list at rest lead from link to link of the list.
LEMMA NextOn ==
    ASSUME LinksInv, NEW l \in Objects, kind[l] = "list", AtRest(l)
    PROVE  /\ head[l] # NoLink => On(head[l], l)
           /\ tail[l] # NoLink => On(tail[l], l)
           /\ \A k : On(k, l) => /\ next[k] # NoLink => On(next[k], l)
                                 /\ prev[k] # NoLink => On(prev[k], l)
<1> DEFINE s == order[l]
<1>1. s \in Seq(Links) /\ Len(s) \in Nat
  BY OrderFacts
<1>2. Pointers(l)
  BY RestFacts
<1>3. /\ Chained(s, next, prev) /\ Closed(s, next, prev) /\ head[l] = FirstLink(s)
      /\ tail[l] # NoLink => tail[l] = LastLink(s)
  BY <1>2 DEF Pointers
<1>4. \A k : On(k, l) <=> In(k, s)
  BY DEF On
<1> HIDE DEF s
<1>5. /\ head[l] # NoLink => In(head[l], s)
      /\ tail[l] # NoLink => In(tail[l], s)
  BY <1>1, <1>3, SeqFacts
<1>6. ASSUME NEW j \in 1 .. Len(s) PROVE /\ next[s[j]] # NoLink => In(next[s[j]], s)
                                         /\ prev[s[j]] # NoLink => In(prev[s[j]], s)
  <2>2. ASSUME j # Len(s) PROVE In(next[s[j]], s)
    <3>1. j \in 1 .. Len(s) - 1 /\ j + 1 \in 1 .. Len(s)
      BY <1>1, <2>2
    <3>2. next[s[j]] = s[j + 1]
      BY <1>3, <3>1 DEF Chained
    <3>3. QED
      BY <3>1, <3>2 DEF In
  <2>3. j = 1 => prev[s[j]] = NoLink
    BY <1>1, <1>3 DEF Closed
  <2>4. ASSUME j # 1 PROVE In(prev[s[j]], s)
    <3>1. j - 1 \in 1 .. Len(s) - 1 /\ j - 1 \in 1 .. Len(s) /\ (j - 1) + 1 = j
      BY <1>1, <2>4
    <3>2. prev[s[j]] = s[j - 1]
      BY <1>3, <3>1 DEF Chained
    <3>3. QED
      BY <3>1, <3>2 DEF In
  <2>5. j = Len(s) => next[s[j]] = NoLink
    BY <1>1, <1>3 DEF Closed
  <2>6. QED
    BY <2>2, <2>3, <2>4, <2>5
<1>7. \A k : In(k, s) => /\ next[k] # NoLink => In(next[k], s)
                         /\ prev[k] # NoLink => In(prev[k], s)
  BY <1>6 DEF In
<1>8. QED
  BY <1>4, <1>5, <1>7

\* The iterator of a list that a program uses.
LEMMA IterStands ==
    ASSUME CollectionsInv, LinksInv, Idle, NEW i \in Iters
    PROVE  /\ i \in Objects /\ kind[i] = "iter" /\ refers[i] \in Objects /\ kind[refers[i]] = "list"
           /\ AtRest(refers[i])
           /\ \A k \in {cursor[i], head[refers[i]], Before(i)} : k # NoLink => On(k, refers[i])
           /\ cursor[i] # NoLink => /\ next[cursor[i]] # NoLink => On(next[cursor[i]], refers[i])
                                    /\ prev[cursor[i]] # NoLink => On(prev[cursor[i]], refers[i])
<1>1. /\ i \in Objects /\ kind[i] = "iter" /\ refers[i] \in Objects /\ kind[refers[i]] = "list"
      /\ AtRest(refers[i]) /\ refers[i] # NoObject
  BY ItersFacts, NoneWalked, InvFacts
<1>2. cursor[i] # NoLink => On(cursor[i], refers[i])
  BY <1>1 DEF LinksInv, CursorsLinked
<1> DEFINE l == refers[i]
<1>3. /\ head[l] # NoLink => On(head[l], l)
      /\ tail[l] # NoLink => On(tail[l], l)
      /\ \A k : On(k, l) => /\ next[k] # NoLink => On(next[k], l)
                            /\ prev[k] # NoLink => On(prev[k], l)
  BY <1>1, NextOn
<1>4. QED
  BY <1>1, <1>2, <1>3 DEF Before

LEMMA LinksAtIters ==
    ASSUME CollectionsInv, LinksInv, Idle, NEW i \in Iters
    PROVE  LinksAt(i)
BY IterStands, OrderFacts DEF LinksAt

\* An iterator moves within its list, or stays.
LEMMA IterMovesLinks ==
    ASSUME CollectionsInv, LinksInv, Idle, UNCHANGED <<kind, refers, calls>>, UNCHANGED shape,
           NEW i \in Objects, NEW k, k # NoLink => On(k, refers[i]),
           cursor' = [cursor EXCEPT ![i] = k] \/ cursor' = cursor
    PROVE  LinksInv'
<1>1. SameLists
  BY DEF SameLists
<1>2. order' = order
  BY OrdersStay
<1>3. ASSUME NEW j \in Objects, kind[j] = "iter", refers[j] # NoObject, cursor'[j] # NoLink
      PROVE  On(cursor'[j], refers[j])
  <2>1. cursor[j] # NoLink => On(cursor[j], refers[j])
    BY <1>3 DEF LinksInv, CursorsLinked
  <2>2. cursor'[j] = cursor[j] \/ (j = i /\ cursor'[j] = k)
    BY InvFacts DEF PointersTypeOK
  <2>3. QED
    BY <1>3, <2>1, <2>2
<1>4. CursorsLinked'
  BY <1>2, <1>3 DEF CursorsLinked, On
<1>5. QED
  BY <1>1, <1>4, QuietLinks

LEMMA IterSeeksLinks ==
    ASSUME CollectionsInv, LinksInv, NEW i \in Iters,
           \/ SeekNext(i) \/ SeekPrev(i) \/ SeekHead(i) \/ SeekTail(i)
           \/ Current(i) \/ NextOf(i) \/ PrevOf(i)
    PROVE  LinksInv'
<1>1. Idle /\ UNCHANGED <<kind, refers, calls>> /\ UNCHANGED shape
  BY DEF SeekNext, SeekPrev, SeekHead, SeekTail, Current, NextOf, PrevOf, Seek, IterMethod, counts
<1>2. \E k \in {cursor[i], head[refers[i]], Before(i), NoLink} \cup
               {next[j] : j \in {cursor[i]} \ {NoLink}} :
          cursor' = [cursor EXCEPT ![i] = k] \/ cursor' = cursor
  BY DEF SeekNext, SeekPrev, SeekHead, SeekTail, Current, NextOf, PrevOf, Seek
<1>3. i \in Objects /\ \A k \in {cursor[i], head[refers[i]], Before(i), NoLink} \cup
                               {next[j] : j \in {cursor[i]} \ {NoLink}} : k # NoLink => On(k, refers[i])
  BY <1>1, IterStands
<1>4. QED
  BY <1>1, <1>2, <1>3, IterMovesLinks

\* The elements of two links change places.
LEMMA IterSwapsLinks ==
    ASSUME CollectionsInv, LinksInv, NEW i \in Iters, SwapNext(i) \/ SwapPrev(i)
    PROVE  LinksInv'
<1>1. /\ Idle /\ UNCHANGED <<kind, cursor, calls>> /\ UNCHANGED shape
      /\ \E j, k \in {cursor[i], next[cursor[i]], prev[cursor[i]]} \ {NoLink} :
            refers' = [refers EXCEPT ![j] = refers[k], ![k] = refers[j]]
  BY DEF SwapNext, SwapPrev, SwapElements, IterMethod
<1>2. PICK j, k \in {cursor[i], next[cursor[i]], prev[cursor[i]]} \ {NoLink} :
            refers' = [refers EXCEPT ![j] = refers[k], ![k] = refers[j]]
  BY <1>1
<1>3. \A p \in Objects : p \notin Links /\ p \in Holders
  BY ListsAssumption, CellFacts
<1>4. j \in Links /\ k \in Links
  BY <1>1, <1>2, ItersFacts, InvFacts DEF SwapNext, SwapPrev
<1>5. \A p \in Objects : refers'[p] = refers[p]
  <2>1. refers \in [Holders -> Referred]
    BY InvFacts
  <2>2. QED
    BY <1>2, <1>3, <1>4, <2>1
<1>6. QED
  BY <1>1, <1>5, SameKinds, PlainLinks

\* A new iterator of a list.
LEMMA NewListIterLinks ==
    ASSUME CollectionsInv, LinksInv, UNCHANGED shape, NEW i \in Objects, NEW l \in Objects, NEW k,
           MakeIter("iter", i, l, k), k # NoLink => On(k, l)
    PROVE  SameLists /\ CursorsLinked'
<1>1. /\ i \in FreeObjects /\ kind' = [kind EXCEPT ![i] = "iter"]
      /\ refers' = [refers EXCEPT ![i] = l] /\ cursor' = [cursor EXCEPT ![i] = k]
  BY DEF MakeIter
<1>2. kind[i] = "free"
  BY <1>1, FreeFacts
<1>3. /\ kind'[i] = "iter" /\ refers'[i] = l /\ cursor'[i] = k
      /\ \A j \in Objects \ {i} : kind'[j] = kind[j] /\ refers'[j] = refers[j] /\ cursor'[j] = cursor[j]
  <2>1. refers \in [Holders -> Referred] /\ \A j \in Objects : j \in Holders
    BY InvFacts, CellFacts
  <2>2. kind \in [Objects -> Kinds] /\ cursor \in [Objects -> Link \cup Nat]
    BY InvFacts DEF PointersTypeOK
  <2>3. QED
    BY <1>1, <2>1, <2>2
<1>4. SameLists
  BY <1>2, <1>3 DEF SameLists
<1>5. ASSUME NEW j \in Objects, kind'[j] = "iter", refers'[j] # NoObject, cursor'[j] # NoLink
      PROVE  On(cursor'[j], refers'[j])
  BY <1>3, <1>5 DEF LinksInv, CursorsLinked
<1>6. order' = order
  BY OrdersStay
<1>7. CursorsLinked'
  BY <1>5, <1>6 DEF CursorsLinked, On
<1>8. QED
  BY <1>4, <1>7

LEMMA ListLooksLinks ==
    ASSUME CollectionsInv, LinksInv, NEW l \in Lists, NEW i \in Objects,
           HeadOf(l) \/ TailOf(l) \/ HeadIter(l, i) \/ TailIter(l, i)
    PROVE  LinksInv'
<1>1. l \in Objects /\ kind[l] = "list"
  BY ListsFacts
<1>2. CASE HeadOf(l) \/ TailOf(l)
  <2>1. Idle /\ UNCHANGED <<kind, refers, cursor, calls>> /\ UNCHANGED shape
    BY <1>2 DEF HeadOf, TailOf, Method, counts
  <2>2. QED
    BY <2>1, SameKinds, PlainLinks
<1>3. CASE HeadIter(l, i) \/ TailIter(l, i)
  <2>1. /\ Idle /\ UNCHANGED shape /\ calls' = calls
        /\ \E k \in {head[l], NoLink} : MakeIter("iter", i, l, k)
    BY <1>3 DEF HeadIter, TailIter, Method
  <2>2. \A k \in {head[l], NoLink} : k # NoLink => On(k, l)
    BY <1>1, <2>1, NextOn, NoneWalked
  <2>3. SameLists /\ CursorsLinked'
    BY <1>1, <2>1, <2>2, NewListIterLinks
  <2>4. QED
    BY <2>1, <2>3, QuietLinks
<1>4. QED
  BY <1>2, <1>3

LEMMA ListLoopsLinks ==
    ASSUME CollectionsInv, CollectionsInv', LinksInv, NEW l \in Lists,
           Clear(l) \/ Load(l) \/ Remove(l) \/ Find(l)
    PROVE  LinksInv'
<1>1. /\ l \in Objects /\ kind[l] = "list" /\ InVar(l) /\ head[l] \in Link /\ stack \in Object
      /\ NoObject \in Object /\ NoLink \in Link
  BY ListsFacts, InvFacts DEF Link
<1>2. Idle /\ UNCHANGED <<counts, shape, cursor>>
  BY DEF Clear, Load, Remove, Find, Method
<1>3. head[l] = FirstLink(order[l]) /\ (head[l] # NoLink => On(head[l], l))
  BY <1>1, <1>2, NoneWalked, RestFacts, NextOn DEF Pointers
<1>4. PICK does \in {"clear", "load", "seek remove", "seek"}, x \in Object :
         /\ calls' = <<Calls(does, l, head[l], NoLink, x)>>
         /\ does \in {"clear", "load"} => NoneSeen(l, {})
         /\ does = "seek remove" => \A i \in ItersOf(l) : cursor[i] # NoLink => refers[cursor[i]] # x
  BY <1>1 DEF Clear, Load, Remove, Find
<1>5. PICK c : c = Calls(does, l, head[l], NoLink, x)
  OBVIOUS
<1>6. c \in Loop /\ c.does = does /\ c.for = l /\ c.cur = head[l] /\ c.link = NoLink /\ c.arg = x
  BY <1>1, <1>4, <1>5 DEF Calls, Loop
<1>7. EmptiesLinked(c)
  BY <1>1, <1>4, <1>6 DEF EmptiesLinked
<1>8. SeekLinked(c)
  BY <1>1, <1>3, <1>4, <1>6 DEF SeekLinked
<1>9. calls' = <<c>> /\ c.does # "clone"
  BY <1>4, <1>5, <1>6
<1>10. QED
  BY <1>2, <1>3, <1>6, <1>7, <1>8, <1>9, LoopStartsLinks

LEMMA FindNextLinks ==
    ASSUME CollectionsInv, CollectionsInv', LinksInv, NEW i \in Iters, FindNext(i)
    PROVE  LinksInv'
<1>1. Idle /\ UNCHANGED <<counts, shape, cursor>>
  BY DEF FindNext
<1>2. /\ i \in Objects /\ stack \in Object /\ NoLink \in Link
      /\ cursor[i] # NoLink => /\ next[cursor[i]] \in Link
                               /\ next[cursor[i]] # NoLink => On(next[cursor[i]], refers[i])
  BY <1>1, IterStands, ItersFacts, InvFacts DEF Link
<1>3. PICK k : /\ calls' = <<Calls("seek next", i, k, NoLink, stack)>>
               /\ k \in Link /\ (k # NoLink => On(k, refers[i]))
  BY <1>2 DEF FindNext
<1>4. PICK c : c = Calls("seek next", i, k, NoLink, stack)
  OBVIOUS
<1>5. c \in Loop /\ c.does = "seek next" /\ c.for = i /\ c.cur = k /\ c.link = NoLink
  BY <1>2, <1>3, <1>4 DEF Calls, Loop
<1>6. EmptiesLinked(c) /\ SeekLinked(c)
  BY <1>3, <1>5 DEF EmptiesLinked, SeekLinked
<1>7. calls' = <<c>> /\ c.does # "clone" /\ c.does \notin Walkers
  BY <1>3, <1>4, <1>5 DEF Walkers
<1>8. QED
  BY <1>1, <1>5, <1>6, <1>7, LoopStartsLinks

-----------------------------------------------------------------------------
(* Steps that change lists *)

\* Some lists change, and the others stay.
LEMMA ListsChange ==
    ASSUME LinksInv, NEW D \in SUBSET Objects,
           order' \in [Objects -> Seq(Links)], clones' \in SUBSET Objects,
           \A m \in Objects \ D : /\ PointersStay(m) /\ (kind'[m] = "list" <=> kind[m] = "list")
                                  /\ Walked(m) => Walked(m)'
                                  /\ Cloned(m) => Cloned(m)',
           \A l \in D : /\ kind'[l] = "list" => WellLinked(l)'
                        /\ kind'[l] # "list" => order'[l] = << >> /\ l \notin clones'
                        /\ l \in clones' => Walked(l)' \/ order'[l] # << >>,
           Spread(order'), Housed(order', calls', links'), LoopsLinked', CursorsLinked'
    PROVE  LinksInv'
<1>1. LinksHaveLists'
  BY HaveLists
<1>2. ASSUME NEW m \in Objects, kind'[m] = "list" PROVE WellLinked(m)'
  <2>1. CASE m \in D
    BY <1>2, <2>1
  <2>2. CASE m \notin D
    BY <1>2, <2>2, StaysLinked
  <2>3. QED
    BY <2>1, <2>2
<1>3. ListsLinked'
  BY <1>2 DEF ListsLinked
<1>4. ASSUME NEW m \in Objects, kind'[m] # "list" PROVE order'[m] = << >>
  BY <1>4 DEF LinksInv, OrderTypeOK, PointersStay
<1>5. ASSUME NEW m \in clones' PROVE kind'[m] = "list" /\ (Walked(m)' \/ order'[m] # << >>)
  <2>1. CASE m \in D
    BY <1>5, <2>1
  <2>2. CASE m \notin D
    <3>1. m \in clones /\ order'[m] = order[m]
      BY <1>5, <2>2 DEF PointersStay
    <3>2. kind[m] = "list" /\ (Walked(m) \/ order[m] # << >>)
      BY <3>1 DEF LinksInv, OrderTypeOK
    <3>3. QED
      BY <2>2, <3>1, <3>2
  <2>3. QED
    BY <2>1, <2>2
<1>6. OrderTypeOK'
  BY <1>4, <1>5 DEF OrderTypeOK
<1>7. QED
  BY <1>1, <1>3, <1>6 DEF LinksInv

LEMMA SpreadOne ==
    ASSUME NEW ord \in [Objects -> Seq(Links)], Spread(ord), NEW l \in Objects, NEW w \in Seq(Links),
           Distinct(w), \A k : In(k, w) => \A m \in Objects \ {l} : ~In(k, ord[m]),
           NEW oro, oro = [ord EXCEPT ![l] = w]
    PROVE  /\ Spread(oro) /\ oro \in [Objects -> Seq(Links)]
           /\ oro[l] = w /\ \A m \in Objects \ {l} : oro[m] = ord[m]
<1>1. oro \in [Objects -> Seq(Links)] /\ oro[l] = w /\ \A m \in Objects \ {l} : oro[m] = ord[m]
  OBVIOUS
<1>2. ASSUME NEW m \in Objects PROVE Distinct(oro[m])
  BY <1>1 DEF Spread
<1>3. ASSUME NEW m \in Objects, NEW p \in Objects, NEW k, In(k, oro[m]), In(k, oro[p]) PROVE m = p
  BY <1>1, <1>3 DEF Spread
<1>4. QED
  BY <1>1, <1>2, <1>3 DEF Spread

-----------------------------------------------------------------------------
(* Loops that go on or end *)

\* The innermost loop and those that wait.
LEMMA TopLinks ==
    ASSUME CollectionsInv, LinksInv, ~Idle
    PROVE  /\ Top \in Loop /\ Rest \in Seq(Loop) /\ calls = <<Top>> \o Rest
           /\ LoopLinked(Top)
           /\ \A c \in LoopsOf(Rest) : /\ c \in Loop /\ LoopLinked(c)
                                       /\ c.does \in Walkers \cup {"resize", "remove"}
           /\ Apart(Rest) /\ ApartFrom(Top, Rest) /\ Releasing(Rest)
           /\ \A l : WalkedIn(calls, l) <=> Walks(Top, l) \/ WalkedIn(Rest, l)
           /\ \A l : ClonedIn(calls, l) <=> Top.does = "clone" /\ Top.for = l
           /\ \A l : ~ClonedIn(Rest, l)
           /\ \A k : AtHand(calls, k) <=> Top.link = k \/ AtHand(Rest, k)
           /\ Top.does # "delete" => Rest = << >>
<1>1. /\ calls = <<Top>> \o Rest /\ Top = calls[1] /\ Top \in Loop /\ Rest \in Seq(Loop)
      /\ Len(Rest) = Len(calls) - 1 /\ Len(calls) \in Nat \ {0}
      /\ \A j \in 1 .. Len(Rest) : Rest[j] = calls[j + 1]
  BY InvFacts, TopAndRest
<1>2. Top.does # "delete" => Rest = << >>
  BY InvFacts, TopFits
<1>3. /\ \A j \in 1 .. Len(calls) : LoopLinked(calls[j])
      /\ Apart(<<Top>> \o Rest) /\ Waiting(<<Top>> \o Rest)
  BY <1>1 DEF LinksInv, LoopsLinked
<1>4. /\ \A l : WalkedIn(calls, l) <=> Walks(Top, l) \/ WalkedIn(Rest, l)
      /\ \A l : ClonedIn(calls, l) <=> (Top.does = "clone" /\ Top.for = l) \/ ClonedIn(Rest, l)
      /\ \A k : AtHand(calls, k) <=> Top.link = k \/ AtHand(Rest, k)
      /\ Apart(Rest) /\ ApartFrom(Top, Rest) /\ Releasing(Rest)
  BY <1>1, <1>3, OnLinkLoops
<1>5. LoopLinked(Top)
  <2>1. 1 \in 1 .. Len(calls)
    BY <1>1
  <2>2. LoopLinked(calls[1])
    BY <1>3, <2>1
  <2>3. QED
    BY <1>1, <2>2 DEF LoopLinked, WalkLinked, HandLinked, EmptiesLinked, SeekLinked, CloneLinked
<1>6. ASSUME NEW j \in 1 .. Len(Rest) PROVE LoopLinked(Rest[j]) /\ Rest[j] \in Loop
  <2>1. j + 1 \in 1 .. Len(calls) /\ Rest[j] = calls[j + 1]
    BY <1>1
  <2>2. QED
    BY <1>1, <1>3, <2>1
<1>7. \A c \in LoopsOf(Rest) : /\ c \in Loop /\ LoopLinked(c)
                               /\ c.does \in Walkers \cup {"resize", "remove"}
  BY <1>4, <1>6 DEF LoopsOf, Releasing
<1>8. \A l : ~ClonedIn(Rest, l)
  BY <1>4 DEF ClonedIn, Releasing, Walkers
<1>9. QED
  BY <1>1, <1>2, <1>4, <1>5, <1>7, <1>8

\* The loops that wait go on waiting while the innermost one empties or deletes list l.
LEMMA RestWaits ==
    ASSUME CollectionsInv, LinksInv, ~Idle,
           \A m \in Objects : m # Top.for =>
               (kind'[m] = "list" <=> kind[m] = "list") /\ order'[m] = order[m],
           \A v \in Vars : refers'[v] = refers[v], OrdersShrink, ItersStay
    PROVE  \A c \in LoopsOf(Rest) : LoopLinked(c)'
<1>1. ASSUME NEW c \in LoopsOf(Rest) PROVE LoopLinked(c)'
  <2>1. /\ c \in Loop /\ LoopLinked(c) /\ c.does \in Walkers \cup {"resize", "remove"}
        /\ ApartFrom(Top, Rest) /\ (Top.does # "delete" => Rest = << >>)
    BY TopLinks
  <2>2. PICK j \in 1 .. Len(Rest) : c = Rest[j]
    BY DEF LoopsOf
  <2>3. Top.does \in Walkers
    BY <2>1, <2>2 DEF Walkers
  <2>4. c.does \in Walkers => c.for # Top.for
    BY <2>1, <2>2, <2>3 DEF ApartFrom
  <2>5. c.for \in Objects
    BY <2>1 DEF Loop
  <2>6. c.does \in Walkers => WalkStays(c)
    BY <2>4, <2>5 DEF WalkStays
  <2>7. QED
    BY <2>1, <2>6, WaitsLinked
<1>2. QED
  BY <1>1

\* The innermost loop ends.
LEMMA LoopEndsLinks ==
    ASSUME CollectionsInv, CollectionsInv', LinksInv, ~Idle, calls' = Rest,
           \A m \in Objects : m # Top.for =>
               (kind'[m] = "list" <=> kind[m] = "list") /\ order'[m] = order[m],
           \A v \in Vars : refers'[v] = refers[v], OrdersShrink, ItersStay
    PROVE  /\ LoopsLinked'
           /\ \A l : WalkedIn(calls', l) <=> WalkedIn(calls, l) /\ ~Walks(Top, l)
           /\ \A l : ~ClonedIn(calls', l)
           /\ \A k : k # NoLink => (AtHand(calls', k) <=> AtHand(calls, k) /\ k # Top.link)
<1>1. \A c \in LoopsOf(Rest) : LoopLinked(c)'
  BY RestWaits
<1>2. /\ Apart(Rest) /\ ApartFrom(Top, Rest) /\ Releasing(Rest) /\ Rest \in Seq(Loop)
      /\ \A l : WalkedIn(calls, l) <=> Walks(Top, l) \/ WalkedIn(Rest, l)
      /\ \A l : ~ClonedIn(Rest, l)
      /\ \A k : AtHand(calls, k) <=> Top.link = k \/ AtHand(Rest, k)
  BY TopLinks
<1>3. Waiting(Rest)
  <2>1. \A j \in 2 .. Len(Rest) : j \in 1 .. Len(Rest)
    BY <1>2
  <2>2. QED
    BY <1>2, <2>1 DEF Waiting, Releasing
<1>4. HeapTypeOK'
  BY DEF CollectionsInv
<1>5. LoopsLinked'
  BY <1>1, <1>2, <1>3, <1>4, LinkLoopsAgain
<1>6. \A l : WalkedIn(Rest, l) => ~Walks(Top, l)
  BY <1>2 DEF ApartFrom, WalkedIn, Walks, Walkers
<1>7. \A k : k # NoLink /\ AtHand(Rest, k) => k # Top.link
  BY <1>2 DEF ApartFrom, AtHand
<1>8. QED
  BY <1>2, <1>5, <1>6, <1>7

LEMMA EndRemoveLinks ==
    ASSUME CollectionsInv, CollectionsInv', LinksInv, EndRemove
    PROVE  LinksInv'
<1>1. /\ ~Idle /\ Top.does = "remove" /\ Top.link = NoLink /\ calls' = Rest
      /\ kind' = kind /\ refers' = refers /\ cursor' = cursor /\ UNCHANGED shape
  BY DEF EndRemove, AtEnd, counts
<1>2. OrdersShrink /\ order' = order /\ SameLists /\ ItersStay
  BY <1>1, OrdersStay, SameKinds
<1>3. /\ LoopsLinked'
      /\ \A l : WalkedIn(calls', l) <=> WalkedIn(calls, l) /\ ~Walks(Top, l)
      /\ \A k : k # NoLink => (AtHand(calls', k) <=> AtHand(calls, k) /\ k # Top.link)
  BY <1>1, <1>2, LoopEndsLinks
<1>4. \A l : ~Walks(Top, l) /\ ~ClonedIn(calls, l)
  BY <1>1, TopLinks DEF Walks
<1>5. SameHands /\ WalksGoOn
  BY <1>1, <1>3, <1>4, InvFacts DEF SameHands, WalksGoOn
<1>6. CursorsLinked'
  BY <1>1, <1>2, OrdersStay, ItersLinked
<1>7. QED
  BY <1>1, <1>2, <1>3, <1>5, <1>6, ShapeStays

\* A search is the only loop.
LEMMA SeekFacts ==
    ASSUME CollectionsInv, LinksInv, Seeks
    PROVE  /\ ~Idle /\ Top \in Loop /\ Rest = << >> /\ LoopLinked(Top) /\ SeekLinked(Top)
           /\ Top.does \in {"seek remove", "seek", "seek next"}
           /\ Top.link = NoLink /\ Top.for \in Objects /\ calls = <<Top>>
           /\ \A l : ~WalkedIn(calls, l) /\ ~ClonedIn(calls, l) /\ AtRest(l)
           /\ \A k : k # NoLink => ~AtHand(calls, k)
           /\ Top.cur # NoLink => \E l \in Objects : /\ kind[l] = "list" /\ On(Top.cur, l)
                                  /\ l = IF Top.does = "seek next" THEN refers[Top.for] ELSE Top.for
<1>1. ~Idle /\ Top.does \in {"seek remove", "seek", "seek next"}
  BY DEF Seeks
<1>2. /\ Top \in Loop /\ Rest = << >> /\ LoopLinked(Top) /\ calls = <<Top>> \o Rest
      /\ \A l : WalkedIn(calls, l) <=> Walks(Top, l) \/ WalkedIn(Rest, l)
      /\ \A l : ClonedIn(calls, l) <=> Top.does = "clone" /\ Top.for = l
      /\ \A k : AtHand(calls, k) <=> Top.link = k \/ AtHand(Rest, k)
  BY <1>1, TopLinks
<1>3. calls = <<Top>> /\ Top.for \in Objects
  BY <1>2, OneLoop DEF Loop
<1>4. Top.link = NoLink /\ SeekLinked(Top)
  BY <1>1, <1>2 DEF LoopLinked, HandLinked, Walkers
<1>5. \A l : ~WalkedIn(calls, l) /\ ~ClonedIn(calls, l)
  BY <1>1, <1>2, FewLinkLoops DEF Walks
<1>6. \A l : AtRest(l)
  BY <1>5, WalkedAndCloned DEF AtRest
<1>7. \A k : k # NoLink => ~AtHand(calls, k)
  BY <1>2, <1>4, FewLinkLoops
<1>8. Top.cur # NoLink => On(Top.cur, IF Top.does = "seek next" THEN refers[Top.for] ELSE Top.for)
  BY <1>1, <1>4 DEF SeekLinked
<1>9. Top.does = "seek next" => refers[Top.for] \in Objects /\ kind[refers[Top.for]] = "list"
  <2>1. SUFFICES ASSUME Top.does = "seek next" PROVE refers[Top.for] \in Objects /\ kind[refers[Top.for]] = "list"
    OBVIOUS
  <2>2. SubjectFits(Top) /\ ~Dying(Top.for)
    <3>1. LoopFits(Top)
      BY <1>1, InvFacts, TopFits
    <3>2. \A o : DyingIn(<<Top>>, o) <=> Deletes(Top, o)
      BY <1>2, OneLoop
    <3>3. ~DyingIn(calls, Top.for)
      BY <1>3, <2>1, <3>2 DEF Deletes
    <3>4. QED
      BY <3>1, <3>3, DyingAndInHand DEF LoopFits
  <2>3. kind[Top.for] = "iter"
    BY <2>1, <2>2 DEF SubjectFits
  <2>4. refers[Top.for] # NoObject /\ kind[refers[Top.for]] = ParentKind(kind[Top.for])
    BY <1>3, <2>2, <2>3 DEF CollectionsInv, ParentsFit, Iterators
  <2>5. refers[Top.for] \in Objects
    BY <1>3, <2>4, InvFacts, CellFacts
  <2>6. QED
    BY <2>3, <2>4, <2>5 DEF ParentKind
<1>10. Top.does # "seek next" => kind[Top.for] = "list"
  BY <1>1, <1>4 DEF SeekLinked
<1>11. QED
  BY <1>1, <1>2, <1>3, <1>4, <1>5, <1>6, <1>7, <1>8, <1>9, <1>10

\* The last loop ends.
LEMMA NoneLeft ==
    ASSUME CollectionsInv', calls' = << >>,
           \A l : ~WalkedIn(calls, l) /\ ~ClonedIn(calls, l),
           \A k : k # NoLink => ~AtHand(calls, k)
    PROVE  LoopsLinked' /\ SameHands /\ WalksGoOn
<1>1. HeapTypeOK'
  BY DEF CollectionsInv
<1>2. \A c \in LoopsOf(calls') : LoopLinked(c)'
  BY DEF LoopsOf
<1>3. Apart(calls') /\ Waiting(calls') /\ \A k : ~AtHand(calls', k)
  BY FewLinkLoops
<1>4. LoopsLinked'
  BY <1>1, <1>2, <1>3, LinkLoopsAgain
<1>5. \A k \in Links : k # NoLink
  BY ListsAssumption
<1>6. SameHands /\ WalksGoOn
  BY <1>3, <1>5 DEF SameHands, WalksGoOn
<1>7. QED
  BY <1>4, <1>6

LEMMA SeekOnLinks ==
    ASSUME CollectionsInv, CollectionsInv', LinksInv, SeekOn
    PROVE  LinksInv'
<1>1. /\ Seeks /\ kind' = kind /\ refers' = refers /\ cursor' = cursor /\ UNCHANGED shape
      /\ calls' = IF Top.cur = NoLink THEN Rest ELSE <<[Top EXCEPT !.cur = next[@]]>> \o Rest
  BY DEF SeekOn, counts
<1>2. /\ Top \in Loop /\ Rest = << >> /\ Top.does \in {"seek remove", "seek", "seek next"}
      /\ LoopLinked(Top) /\ SeekLinked(Top) /\ Top.link = NoLink /\ Top.for \in Objects
      /\ \A l : ~WalkedIn(calls, l) /\ ~ClonedIn(calls, l) /\ AtRest(l)
      /\ \A k : k # NoLink => ~AtHand(calls, k)
      /\ Top.cur # NoLink => \E l \in Objects : /\ kind[l] = "list" /\ On(Top.cur, l)
                                  /\ l = IF Top.does = "seek next" THEN refers[Top.for] ELSE Top.for
  BY <1>1, SeekFacts
<1>3. order' = order /\ SameLists /\ ItersStay
  BY <1>1, OrdersStay, SameKinds
<1>4. CursorsLinked'
  BY <1>1, <1>3, OrdersStay, ItersLinked
<1>5. HeapTypeOK'
  BY DEF CollectionsInv
<1>6. CASE Top.cur = NoLink
  <2>1. calls' = << >>
    BY <1>1, <1>2, <1>6
  <2>2. LoopsLinked' /\ SameHands /\ WalksGoOn
    BY <1>2, <2>1, NoneLeft
  <2>3. QED
    BY <1>1, <1>3, <1>4, <2>2, ShapeStays
<1>7. CASE Top.cur # NoLink
  <2>1. PICK c : c = [Top EXCEPT !.cur = next[@]]
    OBVIOUS
  <2>3. next[Top.cur] \in Link
    BY <1>2, <1>7, InvFacts DEF Loop, PointersTypeOK
  <2>4. c \in Loop /\ c.does = Top.does /\ c.for = Top.for /\ c.link = Top.link /\ c.arg = Top.arg
        /\ c.cur = next[Top.cur]
    BY <1>2, <2>1, <2>3 DEF Loop
  <2>2. calls' = <<c>>
    BY <1>1, <1>2, <1>7, <2>1, <2>4, OneLoop
  <2>5. c.cur # NoLink => On(c.cur, IF Top.does = "seek next" THEN refers[Top.for] ELSE Top.for)
    BY <1>2, <1>7, <2>4, NextOn
  <2>6. SeekLinked(c)'
    BY <1>1, <1>2, <1>3, <2>4, <2>5 DEF SeekLinked, On, ItersOf
  <2>7. WalkLinked(c)' /\ HandLinked(c)' /\ CloneLinked(c)'
    BY <1>2, <2>4 DEF WalkLinked, HandLinked, CloneLinked, Walkers
  <2>8. EmptiesLinked(c)'
    BY <1>1, <1>2, <2>4 DEF LoopLinked, EmptiesLinked, InVar
  <2>9. LoopLinked(c)'
    BY <2>6, <2>7, <2>8 DEF LoopLinked
  <2>10. LoopsOf(<<c>>) = {c}
    BY <2>4, OneLoop
  <2>11. LoopsLinked'
    BY <1>5, <2>2, <2>4, <2>9, <2>10, FewLinkLoops, LinkLoopsAgain
  <2>12. SameHands /\ WalksGoOn
    BY <1>2, <2>2, <2>4, FewLinkLoops, InvFacts DEF SameHands, WalksGoOn
  <2>13. QED
    BY <1>1, <1>3, <1>4, <2>11, <2>12, ShapeStays
<1>8. QED
  BY <1>6, <1>7

LEMMA FoundLinks ==
    ASSUME CollectionsInv, CollectionsInv', LinksInv, NEW i \in Objects, FoundNext \/ FoundIter(i)
    PROVE  LinksInv'
<1>1. /\ Seeks /\ Top.cur # NoLink /\ UNCHANGED shape /\ calls' = Rest
      /\ \/ /\ Top.does = "seek next" /\ cursor' = [cursor EXCEPT ![Top.for] = Top.cur]
            /\ kind' = kind /\ refers' = refers
         \/ Top.does = "seek" /\ MakeIter("iter", i, Top.for, Top.cur)
  BY DEF FoundNext, FoundIter, Found, counts
<1>2. /\ Rest = << >> /\ Top.for \in Objects
      /\ \A l : ~WalkedIn(calls, l) /\ ~ClonedIn(calls, l)
      /\ \A k : k # NoLink => ~AtHand(calls, k)
      /\ On(Top.cur, IF Top.does = "seek next" THEN refers[Top.for] ELSE Top.for)
  BY <1>1, SeekFacts
<1>3. HeapTypeOK' /\ calls' = << >>
  BY <1>1, <1>2 DEF CollectionsInv
<1>4. LoopsLinked' /\ SameHands /\ WalksGoOn
  BY <1>2, <1>3, NoneLeft
<1>5. CASE Top.does = "seek next"
  <2>1. /\ cursor' = [cursor EXCEPT ![Top.for] = Top.cur] /\ kind' = kind /\ refers' = refers
        /\ order' = order
    BY <1>1, <1>5, OrdersStay
  <2>2. SameLists
    BY <2>1 DEF SameLists
  <2>3. ASSUME NEW j \in Objects, kind[j] = "iter", refers[j] # NoObject, cursor'[j] # NoLink
        PROVE  On(cursor'[j], refers[j])
    <3>1. cursor[j] # NoLink => On(cursor[j], refers[j])
      BY <2>3 DEF LinksInv, CursorsLinked
    <3>2. cursor'[j] = cursor[j] \/ (j = Top.for /\ cursor'[j] = Top.cur)
      BY <1>2, <2>1, InvFacts DEF PointersTypeOK
    <3>3. QED
      BY <1>2, <1>5, <2>3, <3>1, <3>2
  <2>4. CursorsLinked'
    BY <2>1, <2>3 DEF CursorsLinked, On
  <2>5. QED
    BY <1>1, <1>4, <2>2, <2>4, ShapeStays
<1>6. CASE Top.does # "seek next"
  <2>1. SameLists /\ CursorsLinked'
    BY <1>1, <1>2, <1>6, NewListIterLinks
  <2>2. QED
    BY <1>1, <1>4, <2>1, ShapeStays
<1>7. QED
  BY <1>5, <1>6

\* A loop on top of others.
LEMMA LoopsOfPushed ==
    ASSUME NEW c \in Loop, NEW rest \in Seq(Loop)
    PROVE  \A d \in LoopsOf(<<c>> \o rest) : d = c \/ d \in LoopsOf(rest)
<1>1. /\ Len(<<c>> \o rest) = Len(rest) + 1 /\ Len(rest) \in Nat /\ (<<c>> \o rest)[1] = c
      /\ \A j \in 1 .. Len(rest) : (<<c>> \o rest)[j + 1] = rest[j]
  BY OnLoops
<1>2. ASSUME NEW j \in 1 .. Len(<<c>> \o rest)
      PROVE  (<<c>> \o rest)[j] = c \/ (<<c>> \o rest)[j] \in LoopsOf(rest)
  <2>1. CASE j = 1
    BY <1>1, <2>1
  <2>2. CASE j # 1
    <3>1. j - 1 \in 1 .. Len(rest) /\ (j - 1) + 1 = j
      BY <1>1, <2>2
    <3>2. (<<c>> \o rest)[j] = rest[j - 1]
      BY <1>1, <3>1
    <3>3. QED
      BY <3>1, <3>2 DEF LoopsOf
  <2>3. QED
    BY <2>1, <2>2
<1>3. QED
  BY <1>2 DEF LoopsOf

LEMMA PushedLoops ==
    ASSUME CollectionsInv', NEW c \in Loop, NEW rest \in Seq(Loop), calls' = <<c>> \o rest,
           LoopLinked(c)', \A d \in LoopsOf(rest) : LoopLinked(d)', Apart(calls'), Waiting(calls')
    PROVE  LoopsLinked'
<1>1. \A d \in LoopsOf(calls') : d = c \/ d \in LoopsOf(rest)
  BY LoopsOfPushed
<1>2. \A d \in LoopsOf(calls') : LoopLinked(d)'
  BY <1>1
<1>3. HeapTypeOK'
  BY DEF CollectionsInv
<1>4. QED
  BY <1>2, <1>3, LinkLoopsAgain

LEMMA FreeLinkLinks ==
    ASSUME CollectionsInv, CollectionsInv', LinksInv, FreeLink
    PROVE  LinksInv'
<1>1. /\ ~Idle /\ Top.does \in {"delete", "drop", "clear", "load", "remove"} /\ Top.link # NoLink
      /\ links' = links \ {Top.link}
      /\ next' = Forget(next, Top.link) /\ prev' = Forget(prev, Top.link)
      /\ calls' = <<[Top EXCEPT !.link = NoLink]>> \o Rest
      /\ kind' = kind /\ refers' = refers /\ cursor' = cursor
      /\ head' = head /\ tail' = tail /\ order' = order /\ clones' = clones
  BY DEF FreeLink, counts
<1>2. PICK c : c = [Top EXCEPT !.link = NoLink]
  OBVIOUS
<1>3. /\ Top \in Loop /\ Rest \in Seq(Loop) /\ LoopLinked(Top)
      /\ Apart(Rest) /\ ApartFrom(Top, Rest) /\ Releasing(Rest)
      /\ \A l : WalkedIn(calls, l) <=> Walks(Top, l) \/ WalkedIn(Rest, l)
      /\ \A l : ClonedIn(calls, l) <=> Top.does = "clone" /\ Top.for = l
      /\ \A k : AtHand(calls, k) <=> Top.link = k \/ AtHand(Rest, k)
  BY <1>1, TopLinks
<1>4. c \in Loop /\ c.does = Top.does /\ c.for = Top.for /\ c.cur = Top.cur /\ c.link = NoLink /\ c.arg = Top.arg
  BY <1>2, <1>3 DEF Loop, Link
<1>5. \A l \in Objects : ~On(Top.link, l)
  BY <1>1, <1>3 DEF LoopLinked, HandLinked
<1>6. SameLists /\ ItersStay /\ OrdersShrink
  BY <1>1, SameKinds DEF OrdersShrink, On
<1>7. \A d \in LoopsOf(Rest) : LoopLinked(d)'
  BY <1>1, <1>6, RestWaits
<1>8. LoopLinked(c)'
  <2>1. WalkLinked(c)' /\ HandLinked(c)' /\ SeekLinked(c)' /\ CloneLinked(c)'
    BY <1>1, <1>3, <1>4 DEF LoopLinked, WalkLinked, HandLinked, SeekLinked, CloneLinked, On
  <2>2. EmptiesLinked(c)'
    BY <1>1, <1>3, <1>4 DEF LoopLinked, EmptiesLinked, InVar, NoneSeen, ItersOf
  <2>3. QED
    BY <2>1, <2>2 DEF LoopLinked
<1>9. calls' = <<c>> \o Rest
  BY <1>1, <1>2
<1>10. ApartFrom(c, Rest)
  BY <1>3, <1>4 DEF ApartFrom
<1>11. /\ \A l : WalkedIn(calls', l) <=> Walks(c, l) \/ WalkedIn(Rest, l)
       /\ \A l : ClonedIn(calls', l) <=> (c.does = "clone" /\ c.for = l) \/ ClonedIn(Rest, l)
       /\ \A k : AtHand(calls', k) <=> c.link = k \/ AtHand(Rest, k)
       /\ Apart(calls') /\ Waiting(calls')
  BY <1>3, <1>4, <1>9, <1>10, OnLinkLoops
<1>12. LoopsLinked'
  BY <1>3, <1>4, <1>7, <1>8, <1>9, <1>11, PushedLoops
<1>13. ASSUME NEW m \in Objects PROVE /\ PointersStay(m)
                                      /\ (Walked(m) => Walked(m)') /\ (Cloned(m) => Cloned(m)')
  <2>1. \A k \in Links : On(k, m) => k # Top.link
    BY <1>5
  <2>2. next \in [Links -> Link] /\ prev \in [Links -> Link]
    BY InvFacts DEF PointersTypeOK
  <2>3. \A k \in Links : On(k, m) => next'[k] = next[k] /\ prev'[k] = prev[k]
    BY <1>1, <2>1, <2>2 DEF Forget
  <2>4. PointersStay(m)
    BY <1>1, <2>3 DEF PointersStay
  <2>5. Walks(c, m) <=> Walks(Top, m)
    BY <1>4 DEF Walks
  <2>6. QED
    BY <1>3, <1>4, <1>11, <2>4, <2>5, WalkedAndCloned
<1>14. Housed(order', calls', links')
  <2>1. Housed(order, calls, links)
    BY HaveLists DEF LinksInv
  <2>2. NoLink \notin Links /\ ~AtHand(Rest, Top.link)
    BY <1>1, <1>3, InvFacts DEF ApartFrom, AtHand
  <2>3. \A k \in Links : AtHand(calls', k) <=> AtHand(calls, k) /\ k # Top.link
    BY <1>3, <1>4, <1>11, <2>2
  <2>4. \A l \in Objects : ~In(Top.link, order[l])
    BY <1>5 DEF On
  <2>5. QED
    BY <1>1, <2>1, <2>3, <2>4 DEF Housed
<1>15. Spread(order') /\ order' \in [Objects -> Seq(Links)] /\ clones' \in SUBSET Objects
  BY <1>1, HaveLists, OrderFacts DEF LinksInv
<1>16. CursorsLinked'
  BY <1>1, <1>6, ItersLinked DEF On
<1>17. \A m \in Objects : kind'[m] = "list" <=> kind[m] = "list"
  BY <1>1
<1>18. QED
  <2>1. PICK D : D = {}
    OBVIOUS
  <2>2. D \in SUBSET Objects /\ \A l : l \notin D
    BY <2>1
  <2>3. QED
    BY <1>12, <1>13, <1>14, <1>15, <1>16, <1>17, <2>2, ListsChange

LEMMA ReleaseParentLinks ==
    ASSUME CollectionsInv, CollectionsInv', LinksInv, ReleaseParent
    PROVE  LinksInv'
<1>1. /\ ~Idle /\ Top.does \in {"delete", "drop"} /\ kind[Top.for] \in Iterators
      /\ refers[Top.for] # NoObject /\ refers' = [refers EXCEPT ![Top.for] = NoObject]
      /\ calls' = AndDelete(refers[Top.for], calls)
      /\ kind' = kind /\ cursor' = cursor /\ UNCHANGED shape
  BY DEF ReleaseParent, Release
<1>2. /\ Top \in Loop /\ Rest \in Seq(Loop) /\ calls = <<Top>> \o Rest /\ LoopLinked(Top)
      /\ \A c \in LoopsOf(Rest) : /\ c \in Loop /\ LoopLinked(c)
                                  /\ c.does \in Walkers \cup {"resize", "remove"}
      /\ Apart(Rest) /\ ApartFrom(Top, Rest) /\ Releasing(Rest)
      /\ \A l : WalkedIn(calls, l) <=> Walks(Top, l) \/ WalkedIn(Rest, l)
      /\ \A l : ClonedIn(calls, l) <=> Top.does = "clone" /\ Top.for = l
  BY <1>1, TopLinks
<1>3. /\ Top.for \in Objects /\ Top.for \in Holders \ Vars /\ refers[Top.for] \in Objects
      /\ \A v \in Vars : v \in Holders /\ v # Top.for
  <2>1. Top.for \in Objects
    BY <1>2 DEF Loop
  <2>2. refers[Top.for] \in Objects
    BY <1>1, <2>1, ParentHeld
  <2>3. Top.for \in Holders /\ Top.for \notin Vars /\ \A v \in Vars : v \in Holders
    BY <2>1, CellFacts, ListsAssumption
  <2>4. QED
    BY <2>1, <2>2, <2>3
<1>4. refers \in [Holders -> Referred] /\ \A i \in Objects : i \in Holders
  BY InvFacts, CellFacts
<1>5. /\ \A v \in Vars : refers'[v] = refers[v]
      /\ \A i \in Objects : refers'[i] \in {refers[i], NoObject}
  BY <1>1, <1>3, <1>4
<1>6. SameLists /\ ItersStay
  BY <1>1, <1>5 DEF SameLists, ItersStay
<1>7. OrdersShrink /\ order' = order
  BY <1>1, OrdersStay
<1>8. \A c \in LoopsOf(Rest) : LoopLinked(c)'
  BY <1>1, <1>5, <1>6, <1>7, RestWaits
<1>9. ASSUME NEW t, t = Top PROVE LoopLinked(t)'
  <2>1. WalkStays(t) /\ t \in Loop /\ LoopLinked(t)
    BY <1>1, <1>2, <1>7, <1>9 DEF WalkStays
  <2>2. t.does \in Walkers
    BY <1>1, <1>9 DEF Walkers
  <2>3. QED
    BY <1>2, <1>5, <1>6, <1>7, <2>1, <2>2, WaitsLinked
<1>10. \A c \in LoopsOf(calls) : LoopLinked(c)'
  BY <1>2, <1>8, <1>9, LoopsOfPushed
<1>11. calls \in Seq(Loop) /\ Apart(calls) /\ Releasing(calls)
  <2>1. calls \in Seq(Loop)
    BY InvFacts DEF HeapTypeOK
  <2>2. Apart(calls)
    BY DEF LinksInv, LoopsLinked
  <2>3. \A j \in 1 .. Len(<<Top>> \o Rest) : (<<Top>> \o Rest)[j] = Top \/ (<<Top>> \o Rest)[j] \in LoopsOf(Rest)
    BY <1>2, LoopsOfPushed DEF LoopsOf
  <2>4. Releasing(<<Top>> \o Rest)
    BY <1>1, <1>2, <2>3 DEF Releasing, Walkers
  <2>5. QED
    BY <1>2, <2>1, <2>2, <2>4
<1>12. PICK x : x = refers[Top.for]
  OBVIOUS
<1>13. x \in Objects /\ x \in Object /\ calls' = AndDelete(x, calls) /\ order'[x] = order[x] /\ kind'[x] = kind[x]
  BY <1>1, <1>3, <1>7, <1>12 DEF Object
<1>14. refCount[x] = 1 => ~Walked(x) /\ ~WalkedIn(calls, x)
  BY <1>3, <1>12, <1>13, NotWalked, WalkedAndCloned
<1>15. /\ LoopsLinked'
       /\ \A l : WalkedIn(calls, l) => WalkedIn(calls', l)
       /\ \A l : ClonedIn(calls', l) <=> ClonedIn(calls, l)
       /\ \A k \in Links : AtHand(calls', k) <=> AtHand(calls, k)
  BY <1>2, <1>10, <1>11, <1>13, <1>14, AndDeleteLinks
<1>16. SameHands /\ WalksGoOn
  BY <1>15 DEF SameHands, WalksGoOn
<1>17. CursorsLinked'
  BY <1>1, <1>6, OrdersStay, ItersLinked
<1>18. QED
  BY <1>1, <1>6, <1>15, <1>16, <1>17, ShapeStays

\* A walk over a list has come to its end.
LEMMA WalkedOut ==
    ASSUME CollectionsInv, LinksInv, ~Idle, AtEnd, Top.does \in Walkers
    PROVE  /\ Top.for \in Objects /\ order[Top.for] = << >> /\ Top.does # "clone"
           /\ Top.link = NoLink /\ Top.does # "seek next"
<1>1. Top.for \in Objects /\ LoopLinked(Top)
  BY TopLinks DEF Loop
<1>2. order[Top.for] \in Seq(Links)
  BY <1>1, OrderFacts
<1>3. kind[Top.for] = "list" => FirstLink(order[Top.for]) = NoLink
  BY <1>1 DEF LoopLinked, WalkLinked, AtEnd
<1>4. kind[Top.for] # "list" => order[Top.for] = << >>
  BY <1>1 DEF LinksInv, OrderTypeOK
<1>5. QED
  BY <1>1, <1>2, <1>3, <1>4, SeqFacts DEF AtEnd, Walkers

\* The innermost loop ends; it changed nothing but what is said of its list.
LEMMA WalkEndsLinks ==
    ASSUME CollectionsInv, CollectionsInv', LinksInv, ~Idle, Top.does # "clone", Top.link = NoLink,
           calls' = Rest, NEW o \in Objects, o = Top.for,
           links' = links, next' = next, prev' = prev, order' = order,
           \A i \in Objects : refers'[i] = refers[i], \A v \in Vars : refers'[v] = refers[v],
           \A m \in Objects \ {o} : /\ kind'[m] = kind[m] /\ cursor'[m] = cursor[m]
                                    /\ head'[m] = head[m] /\ tail'[m] = tail[m],
           clones' = clones \ {o}, order[o] = << >>,
           kind'[o] # "iter" \/ UNCHANGED <<kind, cursor>>,
           kind'[o] = "list" => head'[o] = NoLink /\ tail'[o] = NoLink
    PROVE  LinksInv'
<1>1. ItersStay /\ OrdersShrink
  BY DEF ItersStay, OrdersShrink, On
<1>2. \A v \in Vars : refers'[v] = refers[v]
  OBVIOUS
<1>3. \A m \in Objects : m # Top.for => (kind'[m] = "list" <=> kind[m] = "list") /\ order'[m] = order[m]
  OBVIOUS
<1>4. /\ LoopsLinked'
      /\ \A l : WalkedIn(calls', l) <=> WalkedIn(calls, l) /\ ~Walks(Top, l)
      /\ \A l : ~ClonedIn(calls', l)
      /\ \A k : k # NoLink => (AtHand(calls', k) <=> AtHand(calls, k) /\ k # Top.link)
  BY <1>1, <1>2, <1>3, LoopEndsLinks
<1>5. \A l : ~ClonedIn(calls, l)
  BY TopLinks DEF Walkers
<1>6. ASSUME NEW m \in Objects \ {o} PROVE /\ PointersStay(m)
                                           /\ (Walked(m) => Walked(m)') /\ (Cloned(m) => Cloned(m)')
  <2>1. ~Walks(Top, m)
    BY DEF Walks
  <2>2. PointersStay(m)
    BY DEF PointersStay
  <2>3. QED
    BY <1>4, <1>5, <2>1, <2>2, WalkedAndCloned
<1>7. order' \in [Objects -> Seq(Links)] /\ clones' \in SUBSET Objects /\ Spread(order')
  BY OrderFacts, HaveLists DEF LinksInv
<1>8. Housed(order', calls', links')
  <2>1. Housed(order, calls, links) /\ NoLink \notin Links
    BY HaveLists, InvFacts DEF LinksInv
  <2>2. \A k \in Links : AtHand(calls', k) <=> AtHand(calls, k)
    BY <1>4, <2>1
  <2>3. QED
    BY <2>1, <2>2 DEF Housed
<1>9. CursorsLinked'
  BY <1>1, ItersLinked DEF On
<1>10. kind'[o] = "list" => WellLinked(o)'
  <2>1. SUFFICES ASSUME kind'[o] = "list" PROVE Pointers(o)'
    BY RestAgain
  <2>2. order'[o] = << >> /\ head'[o] = NoLink /\ tail'[o] = NoLink /\ o \notin clones'
    BY <2>1
  <2>3. Chained(<< >>, next', prev') /\ Closed(<< >>, next', prev')
    BY DEF Chained, Closed
  <2>4. QED
    BY <2>2, <2>3 DEF Pointers, FirstLink, LastLink
<1>11. QED
  <2>1. PICK D : D = {o}
    OBVIOUS
  <2>2. D \in SUBSET Objects /\ \A l \in D : l = o
    BY <2>1
  <2>3. \A m \in Objects \ D : m \in Objects \ {o}
    BY <2>1
  <2>4. \A m \in Objects \ D : kind'[m] = "list" <=> kind[m] = "list"
    BY <2>3
  <2>5. QED
    BY <1>4, <1>6, <1>7, <1>8, <1>9, <1>10, <2>2, <2>3, <2>4, ListsChange

LEMMA WalkEnds ==
    ASSUME CollectionsInv, CollectionsInv', LinksInv, FreeObject \/ EndClear
    PROVE  LinksInv'
<1>1. PICK o : o = Top.for
  OBVIOUS
<1>2. /\ ~Idle /\ Top.does \in {"delete", "drop", "clear"} /\ AtEnd
      /\ calls' = Rest /\ links' = links /\ next' = next /\ prev' = prev /\ order' = order
      /\ refers' = refers /\ clones' = clones \ {o}
  BY <1>1 DEF FreeObject, EndClear, counts
<1>3. Top.does \in Walkers
  BY <1>2 DEF Walkers
<1>4. o \in Objects /\ order[o] = << >> /\ Top.link = NoLink
  BY <1>1, <1>2, <1>3, WalkedOut
<1>5. /\ kind \in [Objects -> Kinds] /\ cursor \in [Objects -> Link \cup Nat]
      /\ head \in [Objects -> Link] /\ tail \in [Objects -> Link]
  BY InvFacts DEF PointersTypeOK
<1>6. CASE FreeObject
  <2>1. /\ kind' = [kind EXCEPT ![o] = IF Top.does = "delete" THEN "free" ELSE "lost"]
        /\ head' = [head EXCEPT ![o] = NoLink] /\ tail' = [tail EXCEPT ![o] = NoLink]
        /\ cursor' = [cursor EXCEPT ![o] = NoLink]
    BY <1>1, <1>6 DEF FreeObject, Forget
  <2>2. /\ \A m \in Objects \ {o} : /\ kind'[m] = kind[m] /\ cursor'[m] = cursor[m]
                                    /\ head'[m] = head[m] /\ tail'[m] = tail[m]
        /\ kind'[o] \in {"free", "lost"}
    BY <1>4, <1>5, <2>1
  <2>3. QED
    BY <1>1, <1>2, <1>3, <1>4, <2>2, WalkEndsLinks
<1>7. CASE EndClear
  <2>1. /\ kind' = kind /\ cursor' = cursor
        /\ head' = [head EXCEPT ![o] = NoLink] /\ tail' = [tail EXCEPT ![o] = NoLink]
    BY <1>1, <1>7 DEF EndClear, counts
  <2>2. /\ \A m \in Objects \ {o} : /\ kind'[m] = kind[m] /\ cursor'[m] = cursor[m]
                                    /\ head'[m] = head[m] /\ tail'[m] = tail[m]
        /\ head'[o] = NoLink /\ tail'[o] = NoLink
    BY <1>4, <1>5, <2>1
  <2>3. QED
    BY <1>1, <1>2, <1>3, <1>4, <2>1, <2>2, WalkEndsLinks
<1>8. QED
  BY <1>6, <1>7

\* What is left behind the head.
LEMMA LeftBehindHead ==
    ASSUME NEW s \in Seq(Links), s # << >>, NEW w, w = Tail(s), NEW nx, NEW pv,
           Chained(s, nx, pv), nx[s[Len(s)]] = NoLink, Distinct(s)
    PROVE  /\ w \in Seq(Links) /\ Distinct(w) /\ \A k : In(k, w) <=> In(k, s) /\ k # s[1]
           /\ Chained(w, nx, pv) /\ FirstLink(w) = nx[s[1]]
           /\ w # << >> => nx[w[Len(w)]] = NoLink
<1>1. /\ w \in Seq(Links) /\ Len(s) \in Nat \ {0} /\ Len(w) = Len(s) - 1
      /\ \A j \in 1 .. Len(s) - 1 : w[j] = s[j + 1]
  BY SeqFacts
<1>2. 1 \in 1 .. Len(s) /\ WithoutAt(s, 1, w)
  BY <1>1 DEF WithoutAt
<1>3. Distinct(w) /\ \A k : In(k, w) <=> In(k, s) /\ k # s[1]
  BY <1>1, <1>2, LeftWithout
<1>4. ASSUME NEW j \in 1 .. Len(w) - 1 PROVE nx[w[j]] = w[j + 1] /\ pv[w[j + 1]] = w[j]
  <2>1. j + 1 \in 1 .. Len(s) - 1 /\ j \in 1 .. Len(s) - 1
    BY <1>1
  <2>2. w[j] = s[j + 1] /\ w[j + 1] = s[(j + 1) + 1]
    BY <1>1, <2>1
  <2>3. QED
    BY <2>1, <2>2 DEF Chained
<1>5. FirstLink(w) = nx[s[1]]
  <2>1. CASE Len(s) = 1
    BY <1>1, <2>1, SeqFacts DEF FirstLink
  <2>2. CASE Len(s) # 1
    <3>1. 1 \in 1 .. Len(s) - 1 /\ w # << >>
      BY <1>1, <2>2
    <3>2. w[1] = s[1 + 1] /\ nx[s[1]] = s[1 + 1]
      BY <1>1, <3>1 DEF Chained
    <3>3. QED
      BY <3>1, <3>2 DEF FirstLink
  <2>3. QED
    BY <2>1, <2>2
<1>6. w # << >> => nx[w[Len(w)]] = NoLink
  <2>1. SUFFICES ASSUME w # << >> PROVE nx[w[Len(w)]] = NoLink
    OBVIOUS
  <2>2. Len(w) \in 1 .. Len(s) - 1 /\ Len(w) + 1 = Len(s)
    BY <1>1, <2>1, SeqFacts
  <2>3. w[Len(w)] = s[Len(w) + 1]
    BY <1>1, <2>2
  <2>4. QED
    BY <2>2, <2>3
<1>7. QED
  BY <1>1, <1>3, <1>4, <1>5, <1>6 DEF Chained

\* No iterator stands in a list that is emptied.
LEMMA NotSeen ==
    ASSUME CollectionsInv, LinksInv, NEW t \in Loop, LoopLinked(t), t.does \in Walkers,
           t.for = Top.for, t.does = Top.does, ~Idle, kind[t.for] = "list",
           NEW i \in Objects, kind[i] = "iter", refers[i] = t.for, cursor[i] # NoLink
    PROVE  FALSE
<1>1. t.for \in Objects /\ i \in Holders /\ i \notin Cells
  BY CellFacts DEF Loop
<1>2. CASE t.does \in {"clear", "load"}
  BY <1>1, <1>2 DEF LoopLinked, EmptiesLinked, NoneSeen, ItersOf
<1>3. CASE t.does \in {"delete", "drop"}
  <2>1. Deletes(Top, t.for)
    BY <1>3 DEF Deletes
  <2>2. Dying(t.for)
    <3>1. calls = <<Top>> \o Rest /\ Top \in Loop /\ Rest \in Seq(Loop)
      BY TopLinks
    <3>2. DyingIn(<<Top>> \o Rest, t.for)
      BY <2>1, <3>1, OnLoops
    <3>3. QED
      BY <3>1, <3>2, DyingAndInHand
  <2>3. refCount[t.for] > 0
    BY <1>1, HeldIsCounted, InvFacts
  <2>4. QED
    BY <1>1, <2>2, <2>3, InvFacts DEF LiveByCount
<1>4. QED
  BY <1>2, <1>3 DEF Walkers

\* Objects and variables refer to what they referred to.
RefersStay ==
    /\ \A i \in Objects : refers'[i] = refers[i]
    /\ \A v \in Vars : refers'[v] = refers[v]

\* Loop t takes link k.
TakesOn(t, k, c) == c = [t EXCEPT !.link = k, !.cur = next[k]]

\* Link k is on no list.
Loose(k) == \A m \in Objects : ~On(k, m)

\* The loop that goes on from link k of list l, which is left with w.
LEMMA WalkGoesOn ==
    ASSUME CollectionsInv, LinksInv, NEW t \in Loop, LoopLinked(t), t.does \in Walkers,
           NEW l \in Objects, t.for = l, kind[l] = "list", kind' = kind, cursor' = cursor,
           RefersStay,
           NEW k \in Links, NEW c, TakesOn(t, k, c),
           next[k] = FirstLink(order'[l]), Loose(k)'
    PROVE  /\ c \in Loop /\ LoopLinked(c)'
           /\ c.does = t.does /\ c.for = l /\ c.link = k
<1>1. next[k] \in Link
  BY InvFacts DEF PointersTypeOK
<1>2. /\ c \in Loop /\ c.does = t.does /\ c.for = l /\ c.link = k /\ c.cur = next[k]
      /\ k # NoLink
  BY <1>1, InvFacts DEF Loop, Link, TakesOn
<1>3. WalkLinked(c)' /\ HandLinked(c)'
  BY <1>2 DEF WalkLinked, HandLinked, Loose
<1>4. SeekLinked(c)' /\ CloneLinked(c)'
  BY <1>2 DEF SeekLinked, CloneLinked, Walkers
<1>5. EmptiesLinked(c)'
  <2>1. InVar(l) => InVar(l)'
    BY DEF InVar, RefersStay
  <2>2. NoneSeen(l, {}) => NoneSeen(l, {})'
    BY DEF NoneSeen, ItersOf, RefersStay
  <2>3. QED
    BY <1>2, <2>1, <2>2 DEF LoopLinked, EmptiesLinked
<1>6. QED
  BY <1>2, <1>3, <1>4, <1>5 DEF LoopLinked

LEMMA ReleaseElementLinks ==
    ASSUME CollectionsInv, CollectionsInv', LinksInv, ReleaseElement
    PROVE  LinksInv'
<1>1. PICK l, t, k, c : l = Top.for /\ t = Top /\ k = Top.cur /\ c = [t EXCEPT !.link = k, !.cur = next[k]]
  OBVIOUS
<1>2. /\ ~Idle /\ t.does \in Walkers /\ kind[l] = "list" /\ t.link = NoLink /\ k # NoLink
      /\ refers' = [refers EXCEPT ![k] = NoObject]
      /\ calls' = AndDelete(refers[k], <<c>> \o Rest)
      /\ order' = [order EXCEPT ![l] = Tail(@)]
      /\ kind' = kind /\ cursor' = cursor /\ head' = head /\ tail' = tail /\ links' = links
      /\ next' = next /\ prev' = prev /\ clones' = clones
  BY <1>1 DEF ReleaseElement, Release, Walkers
<1>3. /\ t \in Loop /\ Rest \in Seq(Loop) /\ LoopLinked(t) /\ l \in Objects /\ t.for = l
      /\ Apart(Rest) /\ ApartFrom(t, Rest) /\ Releasing(Rest)
      /\ \A m : WalkedIn(calls, m) <=> Walks(t, m) \/ WalkedIn(Rest, m)
      /\ \A m : ~ClonedIn(calls, m) /\ ~ClonedIn(Rest, m)
      /\ \A j : AtHand(calls, j) <=> t.link = j \/ AtHand(Rest, j)
      /\ \A d \in LoopsOf(Rest) : LoopLinked(d)
  BY <1>1, <1>2, TopLinks DEF Loop, Walkers
<1>3a. PICK s, w : s = order[l] /\ w = order'[l]
  OBVIOUS
<1>4. /\ order \in [Objects -> Seq(Links)] /\ s \in Seq(Links) /\ Distinct(s)
      /\ \A p, m \in Objects : \A j : On(j, p) /\ On(j, m) => p = m
  BY <1>3, <1>3a, OrderFacts
<1>5. k = FirstLink(s) /\ k = t.cur
  BY <1>1, <1>2, <1>3, <1>3a DEF LoopLinked, WalkLinked
<1>6. s # << >> /\ k = s[1] /\ k \in Links /\ In(k, s)
  BY <1>2, <1>4, <1>5, SeqFacts
<1>7. w = Tail(s) /\ \A m \in Objects \ {l} : order'[m] = order[m]
  BY <1>2, <1>3, <1>4, <1>3a
<1>8. /\ Walked(l) /\ ~Cloned(l)
  BY <1>2, <1>3, WalkedAndCloned DEF Walks, Walkers
<1>9. /\ \A j \in 1 .. Len(s) - 1 : next[s[j]] = s[j + 1] /\ prev[s[j + 1]] = s[j]
      /\ next[s[Len(s)]] = NoLink
  BY <1>2, <1>3, <1>6, <1>8, <1>3a DEF LinksInv, ListsLinked, WellLinked
<1>10. Chained(s, next, prev)
  BY <1>9 DEF Chained
<1>11. PICK u : u = Tail(s)
  OBVIOUS
<1>12. /\ u \in Seq(Links) /\ Distinct(u) /\ \A j : In(j, u) <=> In(j, s) /\ j # s[1]
       /\ Chained(u, next, prev) /\ FirstLink(u) = next[s[1]]
       /\ u # << >> => next[u[Len(u)]] = NoLink
  <2>1. /\ s \in Seq(Links) /\ s # << >> /\ Distinct(s) /\ u = Tail(s)
        /\ Chained(s, next, prev) /\ next[s[Len(s)]] = NoLink
    BY <1>4, <1>6, <1>9, <1>10, <1>11
  <2>2. QED
    BY <2>1, LeftBehindHead
<1>13. w = u
  BY <1>7, <1>11
<1>14. \A j, m : On(j, m) <=> In(j, order[m])
  BY DEF On
<1>15. \A j, m : On(j, m)' <=> In(j, order'[m])
  BY DEF On
<1>16. /\ \A m \in Objects \ {l} : \A j : On(j, m)' <=> On(j, m)
       /\ \A j : On(j, l)' <=> On(j, l) /\ j # k
       /\ On(k, l)
  BY <1>6, <1>7, <1>12, <1>13, <1>14, <1>15, <1>3a
<1>17. Loose(k)'
  BY <1>3, <1>4, <1>16 DEF Loose
<1>18. OrdersShrink
  BY <1>16 DEF OrdersShrink
<1>19. /\ \A i \in Objects : refers'[i] = refers[i]
       /\ \A v \in Vars : refers'[v] = refers[v]
       /\ RefersStay
  <2>1. refers \in [Holders -> Referred]
    BY InvFacts
  <2>2. \A h \in Objects \cup Vars : h \in Holders /\ h # k
    BY <1>6, CellFacts, ListsAssumption
  <2>3. QED
    BY <1>2, <2>1, <2>2 DEF RefersStay
<1>20. ItersStay /\ SameLists
  BY <1>2, <1>19, SameKinds
<1>21. \A d \in LoopsOf(Rest) : LoopLinked(d)'
  <2>1. \A m \in Objects : m # Top.for => (kind'[m] = "list" <=> kind[m] = "list") /\ order'[m] = order[m]
    BY <1>1, <1>2, <1>7
  <2>2. QED
    BY <1>2, <1>18, <1>19, <1>20, <2>1, RestWaits
<1>22. next[k] = FirstLink(order'[l])
  BY <1>6, <1>12, <1>13, <1>3a
<1>23. c \in Loop /\ LoopLinked(c)' /\ c.does = t.does /\ c.for = l /\ c.link = k
  <2>1. /\ t \in Loop /\ LoopLinked(t) /\ t.does \in Walkers /\ l \in Objects /\ t.for = l
        /\ kind[l] = "list" /\ kind' = kind /\ cursor' = cursor /\ RefersStay
        /\ k \in Links /\ TakesOn(t, k, c)
    BY <1>1, <1>2, <1>3, <1>6, <1>19 DEF TakesOn
  <2>2. QED
    BY <1>17, <1>22, <2>1, WalkGoesOn
<1>24. ApartFrom(c, Rest)
  <2>1. ASSUME NEW j \in 1 .. Len(Rest) PROVE Rest[j].link # k
    <3>1. LoopLinked(Rest[j]) /\ Rest[j].does # "clone"
      BY <1>3 DEF LoopsOf, ClonedIn
    <3>2. k \in Links /\ k # NoLink /\ On(k, l)
      BY <1>2, <1>6, <1>16
    <3>3. QED
      BY <1>3, <3>1, <3>2 DEF LoopLinked, HandLinked
  <2>2. QED
    BY <1>2, <1>3, <1>23, <2>1 DEF ApartFrom
<1>25. PICK rest : rest = <<c>> \o Rest
  OBVIOUS
<1>26. /\ rest \in Seq(Loop)
       /\ \A m : WalkedIn(rest, m) <=> Walks(c, m) \/ WalkedIn(Rest, m)
       /\ \A m : ClonedIn(rest, m) <=> (c.does = "clone" /\ c.for = m) \/ ClonedIn(Rest, m)
       /\ \A j : AtHand(rest, j) <=> c.link = j \/ AtHand(Rest, j)
       /\ Apart(rest)
  BY <1>3, <1>23, <1>24, <1>25, OnLinkLoops, OnLoops
<1>27. /\ \A d \in LoopsOf(rest) : LoopLinked(d)'
       /\ Releasing(rest)
  <2>1. \A d \in LoopsOf(rest) : d = c \/ d \in LoopsOf(Rest)
    BY <1>3, <1>23, <1>25, LoopsOfPushed
  <2>2. \A d \in LoopsOf(Rest) : d.does \in Walkers \cup {"resize", "remove"}
    BY <1>3 DEF LoopsOf, Releasing
  <2>3. QED
    BY <1>2, <1>21, <1>23, <2>1, <2>2 DEF LoopsOf, Releasing
<1>28. \A m : WalkedIn(rest, m) <=> WalkedIn(calls, m)
  BY <1>3, <1>23, <1>26 DEF Walks
<1>29. PICK x : x = refers[k]
  OBVIOUS
<1>30. x \in Object /\ k \in Holders \ Vars
  BY <1>6, <1>29, InvFacts, CellFacts, ListsAssumption
<1>31. x \in Objects /\ refCount[x] = 1 => /\ ~Walked(x) /\ ~WalkedIn(rest, x)
                                           /\ order'[x] = order[x] /\ kind'[x] = kind[x]
  BY <1>2, <1>7, <1>8, <1>28, <1>29, <1>30, NotWalked, WalkedAndCloned
<1>32. /\ LoopsLinked'
       /\ \A m : WalkedIn(rest, m) => WalkedIn(calls', m)
       /\ \A j \in Links : AtHand(calls', j) <=> AtHand(rest, j)
  BY <1>2, <1>25, <1>26, <1>27, <1>29, <1>30, <1>31, AndDeleteLinks
<1>33. ASSUME NEW m \in Objects PROVE (Walked(m) => Walked(m)') /\ (Cloned(m) => Cloned(m)')
  BY <1>3, <1>28, <1>32, WalkedAndCloned
<1>34. \A m \in Objects \ {l} : PointersStay(m)
  BY <1>2, <1>7 DEF PointersStay
<1>35. WellLinked(l)'
  <2>1. Walked(l)'
    BY <1>3, <1>8, <1>33
  <2>2. /\ order'[l] = w /\ next' = next /\ prev' = prev
        /\ Chained(w, next, prev) /\ (w # << >> => next[w[Len(w)]] = NoLink)
    BY <1>2, <1>3a, <1>12, <1>13
  <2>3. QED
    BY <2>1, <2>2 DEF WellLinked, Chained
<1>36. Spread(order') /\ order' \in [Objects -> Seq(Links)]
  <2>1. Spread(order) /\ order' = [order EXCEPT ![l] = u]
    BY <1>2, <1>3, <1>4, <1>11, <1>3a, HaveLists DEF LinksInv
  <2>2. ASSUME NEW j, In(j, u), NEW m \in Objects \ {l} PROVE ~In(j, order[m])
    BY <1>3, <1>4, <1>12, <1>14, <1>3a, <2>2
  <2>3. QED
    BY <1>3, <1>4, <1>12, <2>1, <2>2, SpreadOne
<1>37. Housed(order', calls', links')
  <2>1. Housed(order, calls, links) /\ NoLink \notin Links
    BY HaveLists, InvFacts DEF LinksInv
  <2>2. \A j \in Links : AtHand(calls', j) <=> j = k \/ AtHand(calls, j)
    BY <1>2, <1>3, <1>23, <1>26, <1>32, <2>1
  <2>3. ASSUME NEW j \in Links
        PROVE  (\E m \in Objects : In(j, order[m])) <=> (\E m \in Objects : In(j, order'[m])) \/ j = k
    BY <1>3, <1>14, <1>15, <1>16
  <2>4. QED
    BY <1>2, <2>1, <2>2, <2>3 DEF Housed
<1>38. CursorsLinked'
  <2>1. ASSUME NEW i \in Objects, kind'[i] = "iter", refers'[i] # NoObject, cursor'[i] # NoLink
        PROVE  In(cursor'[i], order'[refers'[i]])
    <3>1. On(cursor[i], refers[i]) /\ refers[i] \in Objects
      BY <1>2, <1>19, <2>1, ParentHeld DEF LinksInv, CursorsLinked
    <3>2. refers[i] = l => FALSE
      BY <1>1, <1>2, <1>3, <1>19, <2>1, <3>1, NotSeen
    <3>3. QED
      BY <1>2, <1>7, <1>14, <1>19, <3>1, <3>2
  <2>2. QED
    BY <2>1 DEF CursorsLinked, On
<1>39. QED
  <2>1. PICK D : D = {l}
    OBVIOUS
  <2>2. D \in SUBSET Objects /\ \A m \in D : m = l
    BY <1>3, <2>1
  <2>3. \A m \in Objects \ D : m \in Objects \ {l}
    BY <2>1
  <2>4. clones' \in SUBSET Objects /\ kind'[l] = "list" /\ Walked(l)'
    BY <1>2, <1>3, <1>8, <1>33, OrderFacts
  <2>5. \A m \in Objects \ D : /\ PointersStay(m) /\ (kind'[m] = "list" <=> kind[m] = "list")
                               /\ (Walked(m) => Walked(m)') /\ (Cloned(m) => Cloned(m)')
    BY <1>2, <1>33, <1>34, <2>3
  <2>6. QED
    BY <1>32, <1>35, <1>36, <1>37, <1>38, <2>2, <2>4, <2>5, ListsChange

\* A link comes behind the last one.
Extended(s, k, nx, pv, ny, pw) ==
    /\ \A j \in 1 .. Len(s) : pw[s[j]] = pv[s[j]] /\ (j # Len(s) => ny[s[j]] = nx[s[j]])
    /\ s # << >> => ny[s[Len(s)]] = k
    /\ pw[k] = LastLink(s)

GrewTo(s, k, w, pv, ny, pw) ==
    /\ w \in Seq(Links) /\ Distinct(w) /\ \A j : In(j, w) <=> In(j, s) \/ j = k
    /\ Chained(w, ny, pw) /\ w # << >> /\ LastLink(w) = k /\ w[Len(w)] = k
    /\ FirstLink(w) = IF s = << >> THEN k ELSE FirstLink(s)
    /\ (s # << >> => pv[s[1]] = NoLink) => pw[w[1]] = NoLink

LEMMA ChainExtended ==
    ASSUME NEW s \in Seq(Links), NEW k \in Links, Distinct(s), ~In(k, s), NEW w, w = Append(s, k),
           NEW nx, NEW pv, NEW ny, NEW pw, Chained(s, nx, pv), Extended(s, k, nx, pv, ny, pw)
    PROVE  GrewTo(s, k, w, pv, ny, pw)
<1>1. /\ w \in Seq(Links) /\ Len(s) \in Nat /\ Len(w) = Len(s) + 1 /\ w[Len(s) + 1] = k
      /\ \A j \in 1 .. Len(s) : w[j] = s[j]
      /\ s = << >> <=> Len(s) = 0
  BY SeqFacts
<1>2. w # << >> /\ LastLink(w) = k /\ w[Len(w)] = k
  <2>1. Len(w) # 0 /\ Len(w) = Len(s) + 1 /\ w[Len(s) + 1] = k
    BY <1>1
  <2>2. w # << >>
    BY <1>1, <2>1, SeqFacts
  <2>3. QED
    BY <2>1, <2>2 DEF LastLink
<1>3. \A j \in 1 .. Len(w) : j \in 1 .. Len(s) \/ j = Len(s) + 1
  BY <1>1
<1>4. \A j \in 1 .. Len(s) : j \in 1 .. Len(w) /\ j # Len(s) + 1
  BY <1>1
<1>5. Len(s) + 1 \in 1 .. Len(w)
  BY <1>1
<1>6. \A j : In(j, w) <=> In(j, s) \/ j = k
  BY <1>1, <1>3, <1>4, <1>5 DEF In
<1>7. Distinct(w)
  BY <1>1, <1>3, <1>4 DEF Distinct, In
<1>8. ASSUME NEW j \in 1 .. Len(w) - 1 PROVE ny[w[j]] = w[j + 1] /\ pw[w[j + 1]] = w[j]
  <2>1. j \in 1 .. Len(s) /\ w[j] = s[j]
    BY <1>1
  <2>2. CASE j = Len(s)
    <3>1. w[j + 1] = k /\ s # << >> /\ LastLink(s) = s[j]
      BY <1>1, <2>1, <2>2, SeqFacts
    <3>2. QED
      BY <2>1, <2>2, <3>1 DEF Extended
  <2>3. CASE j # Len(s)
    <3>1. j \in 1 .. Len(s) - 1 /\ j + 1 \in 1 .. Len(s)
      BY <1>1, <2>1, <2>3
    <3>2. nx[s[j]] = s[j + 1] /\ pv[s[j + 1]] = s[j]
      BY <3>1 DEF Chained
    <3>3. ny[s[j]] = nx[s[j]] /\ pw[s[j + 1]] = pv[s[j + 1]]
      BY <2>1, <2>3, <3>1 DEF Extended
    <3>4. w[j + 1] = s[j + 1]
      BY <1>1, <3>1
    <3>5. QED
      BY <2>1, <3>2, <3>3, <3>4
  <2>4. QED
    BY <2>2, <2>3
<1>9. CASE s = << >>
  BY <1>1, <1>2, <1>6, <1>7, <1>8, <1>9 DEF Chained, Extended, FirstLink, LastLink, GrewTo
<1>10. CASE s # << >>
  <2>1. 1 \in 1 .. Len(s) /\ w[1] = s[1]
    BY <1>1, <1>10
  <2>2. pw[w[1]] = pv[s[1]]
    BY <2>1 DEF Extended
  <2>3. FirstLink(w) = FirstLink(s)
    BY <1>2, <1>10, <2>1 DEF FirstLink
  <2>4. QED
    BY <1>1, <1>2, <1>6, <1>7, <1>8, <1>10, <2>2, <2>3 DEF Chained, GrewTo
<1>11. QED
  BY <1>9, <1>10

\* A link that is free is nowhere.
LEMMA FreeLinkNowhere ==
    ASSUME CollectionsInv, LinksInv, NEW k \in FreeLinks
    PROVE  k \in Links /\ k \notin links /\ k # NoLink /\ Loose(k) /\ ~AtHand(calls, k)
BY FreeLinksFacts, OrderFacts, InvFacts DEF Loose

\* Where clone stands.
LEMMA CloneFacts ==
    ASSUME CollectionsInv, LinksInv, ~Idle, NEW t, t = Top, t.does = "clone"
    PROVE  /\ t \in Loop /\ t.for \in Objects /\ CloneLinked(t) /\ calls = <<t>> /\ Rest = << >>
           /\ kind[t.for] = "list" /\ Cloned(t.for) /\ ~Walked(t.for)
           /\ \A m : ~Walked(m) /\ (Cloned(m) <=> m = t.for)
           /\ \A k : AtHand(calls, k) <=> k = t.link
<1>1. /\ t \in Loop /\ t.for \in Objects /\ LoopLinked(t) /\ Rest = << >> /\ calls = <<t>> \o Rest
  BY TopLinks DEF Loop
<1>2. calls = <<t>>
  BY <1>1, OneLoop
<1>3. CloneLinked(t) /\ kind[t.for] = "list"
  BY <1>1 DEF LoopLinked, CloneLinked
<1>4. /\ \A m : ~WalkedIn(calls, m) /\ (ClonedIn(calls, m) <=> m = t.for)
      /\ \A k : AtHand(calls, k) <=> k = t.link
  BY <1>1, <1>2, FewLinkLoops DEF Walks
<1>5. QED
  BY <1>1, <1>2, <1>3, <1>4, WalkedAndCloned

LEMMA EndCloneLinks ==
    ASSUME CollectionsInv, CollectionsInv', LinksInv, EndClone
    PROVE  LinksInv'
<1>1. PICK t, l, s : t = Top /\ l = t.for /\ s = order[l]
  OBVIOUS
<1>2. /\ ~Idle /\ t.does = "clone" /\ calls' = Rest
      /\ next' = IF t.link = NoLink THEN next ELSE [next EXCEPT ![t.link] = NoLink]
      /\ clones' = IF t.link = NoLink THEN clones ELSE clones \cup {l}
      /\ kind' = kind /\ refers' = refers /\ cursor' = cursor
      /\ head' = head /\ tail' = tail /\ links' = links /\ prev' = prev /\ order' = order
  BY <1>1 DEF EndClone, counts
<1>3. /\ l \in Objects /\ CloneLinked(t) /\ Rest = << >> /\ kind[l] = "list" /\ t \in Loop
      /\ \A m : ~Walked(m) /\ (Cloned(m) <=> m = l)
      /\ \A k : AtHand(calls, k) <=> k = t.link
  BY <1>1, <1>2, CloneFacts
<1>4. l \notin clones /\ tail[l] = NoLink /\ t.link = LastLink(s)
  BY <1>1, <1>2, <1>3 DEF CloneLinked
<1>5. /\ s \in Seq(Links) /\ Distinct(s) /\ \A m \in Objects : \A k : On(k, m) => k \in Links
      /\ \A p, m \in Objects : \A k : On(k, p) /\ On(k, m) => p = m
  BY <1>1, <1>3, OrderFacts
<1>6. WellLinked(l)
  BY <1>3 DEF LinksInv, ListsLinked
<1>7. /\ \A j \in 1 .. Len(s) - 1 : next[s[j]] = s[j + 1] /\ prev[s[j + 1]] = s[j]
      /\ head[l] = FirstLink(s) /\ (s # << >> => prev[s[1]] = NoLink)
  BY <1>1, <1>3, <1>6 DEF WellLinked, FirstLink
<1>8. t.link = NoLink <=> s = << >>
  BY <1>4, <1>5, SeqFacts
<1>9. calls' = << >> /\ (\A k : ~AtHand(calls', k)) /\ \A m : ~Walked(m)' /\ ~Cloned(m)'
  BY <1>2, <1>3, FewLinkLoops, WalkedAndCloned
<1>10. next \in [Links -> Link]
  BY InvFacts DEF PointersTypeOK
<1>11. Pointers(l)'
  <2>1. CASE s = << >>
    <3>1. Chained(s, next', prev') /\ Closed(s, next', prev')
      BY <2>1 DEF Chained, Closed
    <3>2. order'[l] = s /\ head'[l] = FirstLink(s) /\ tail'[l] = LastLink(s) /\ l \notin clones'
      BY <1>1, <1>2, <1>4, <1>7, <1>8, <2>1 DEF LastLink
    <3>3. QED
      BY <3>1, <3>2 DEF Pointers
  <2>2. CASE s # << >>
    <3>1. /\ Len(s) \in 1 .. Len(s) /\ t.link = s[Len(s)] /\ t.link \in Links /\ Len(s) \in Nat
          /\ \A j \in 1 .. Len(s) : s[j] \in Links
      BY <1>4, <1>5, <2>2, SeqFacts
    <3>2. next' = [next EXCEPT ![t.link] = NoLink] /\ clones' = clones \cup {l}
      BY <1>2, <1>8, <2>2
    <3>3. next'[s[Len(s)]] = NoLink
      BY <1>10, <3>1, <3>2
    <3>4. ASSUME NEW j \in 1 .. Len(s) - 1 PROVE next'[s[j]] = next[s[j]]
      <4>1. j \in 1 .. Len(s) /\ j # Len(s)
        BY <3>1
      <4>2. s[j] # t.link
        BY <1>5, <3>1, <4>1 DEF Distinct
      <4>3. QED
        BY <1>10, <3>1, <3>2, <4>1, <4>2
    <3>5. Chained(s, next', prev')
      BY <1>2, <1>7, <3>4 DEF Chained
    <3>6. Closed(s, next', prev')
      BY <1>2, <1>7, <2>2, <3>3 DEF Closed
    <3>7. order'[l] = s /\ head'[l] = FirstLink(s) /\ tail'[l] = NoLink /\ l \in clones'
      BY <1>1, <1>2, <1>4, <1>7, <3>2
    <3>8. QED
      BY <3>5, <3>6, <3>7 DEF Pointers
  <2>3. QED
    BY <2>1, <2>2
<1>12. WellLinked(l)'
  BY <1>3, <1>11, RestAgain
<1>13. ASSUME NEW m \in Objects \ {l} PROVE PointersStay(m)
  <2>1. ASSUME NEW k \in Links, On(k, m) PROVE next'[k] = next[k]
    <3>1. t.link # NoLink => On(t.link, l)
      BY <1>1, <1>4, <1>5, <1>8, SeqFacts DEF On
    <3>2. k # t.link
      BY <1>3, <1>5, <2>1, <3>1, InvFacts
    <3>3. QED
      BY <1>2, <1>10, <3>2
  <2>2. m \in clones' <=> m \in clones
    BY <1>2
  <2>3. QED
    BY <1>2, <2>1, <2>2 DEF PointersStay
<1>14. order' \in [Objects -> Seq(Links)] /\ clones' \in SUBSET Objects /\ Spread(order')
  BY <1>2, <1>3, OrderFacts, HaveLists DEF LinksInv
<1>15. Housed(order', calls', links')
  <2>1. Housed(order, calls, links) /\ NoLink \notin Links
    BY HaveLists, InvFacts DEF LinksInv
  <2>2. \A k \in Links : AtHand(calls, k) => In(k, order[l])
    BY <1>1, <1>3, <1>4, <1>5, <1>8, <2>1, SeqFacts
  <2>3. QED
    BY <1>2, <1>3, <1>9, <2>1, <2>2 DEF Housed
<1>16. LoopsLinked' /\ CursorsLinked'
  <2>1. HeapTypeOK'
    BY DEF CollectionsInv
  <2>2. ItersStay
    BY <1>2 DEF ItersStay
  <2>3. \A m \in Objects : \A k \in Links : On(k, m) => On(k, m)'
    BY <1>2 DEF On
  <2>4. CursorsLinked'
    BY <2>2, <2>3, ItersLinked
  <2>5. (\A c \in LoopsOf(calls') : LoopLinked(c)') /\ Apart(calls') /\ Waiting(calls')
    BY <1>9, FewLinkLoops DEF LoopsOf
  <2>6. QED
    BY <2>1, <2>4, <2>5, LinkLoopsAgain
<1>17. QED
  <2>1. PICK D : D = {l}
    OBVIOUS
  <2>2. D \in SUBSET Objects /\ \A m \in D : m = l
    BY <1>3, <2>1
  <2>3. \A m \in Objects \ D : m \in Objects \ {l}
    BY <2>1
  <2>4. /\ kind'[l] = "list" /\ (l \in clones' => order'[l] # << >>)
    BY <1>1, <1>2, <1>3, <1>4, <1>8
  <2>5. \A m \in Objects \ D : /\ PointersStay(m) /\ (kind'[m] = "list" <=> kind[m] = "list")
                               /\ (Walked(m) => Walked(m)') /\ (Cloned(m) => Cloned(m)')
    BY <1>2, <1>3, <1>13, <2>3
  <2>6. QED
    BY <1>12, <1>14, <1>15, <1>16, <2>2, <2>4, <2>5, ListsChange

-----------------------------------------------------------------------------
(* Links that come to lists *)

\* Link k comes to list l, which then has w, and nothing happens to the others.
Joins(l, k, w) ==
    /\ order' = [order EXCEPT ![l] = w] /\ links' = links \cup {k}
    /\ kind' = kind /\ cursor' = cursor /\ clones' \in {clones, clones \ {l}}
    /\ \A i \in Objects : refers'[i] = refers[i]
    /\ \A m \in Objects \ {l} : head'[m] = head[m] /\ tail'[m] = tail[m]
    /\ \A j \in Links : j # k /\ ~On(j, l) => next'[j] = next[j] /\ prev'[j] = prev[j]
HandsAgain(l, k) ==
    \A j \in Links : /\ AtHand(calls', j) => AtHand(calls, j) \/ j = k
                     /\ AtHand(calls, j) => AtHand(calls', j) \/ On(j, l)
WalksAgain(l) ==
    \A m \in Objects \ {l} : (Walked(m) => Walked(m)') /\ (Cloned(m) => Cloned(m)')

LEMMA LinkComes ==
    ASSUME CollectionsInv, LinksInv, NEW k \in FreeLinks, NEW l \in Objects, kind[l] = "list",
           NEW w \in Seq(Links), Distinct(w), \A j : In(j, w) <=> On(j, l) \/ j = k,
           Joins(l, k, w), HandsAgain(l, k), WalksAgain(l), LoopsLinked', WellLinked(l)'
    PROVE  LinksInv'
<1>1. k \in Links /\ k \notin links /\ k # NoLink /\ Loose(k) /\ ~AtHand(calls, k)
  BY FreeLinkNowhere
<1>2. /\ order \in [Objects -> Seq(Links)] /\ clones \in SUBSET Objects
      /\ \A p, m \in Objects : \A j : On(j, p) /\ On(j, m) => p = m
  BY OrderFacts
<1>3. Spread(order) /\ Housed(order, calls, links)
  BY HaveLists DEF LinksInv
<1>4. \A j, m : On(j, m) <=> In(j, order[m])
  BY DEF On
<1>5. ASSUME NEW j, In(j, w), NEW m \in Objects \ {l} PROVE ~In(j, order[m])
  BY <1>1, <1>2, <1>4, <1>5 DEF Loose
<1>6. /\ Spread(order') /\ order' \in [Objects -> Seq(Links)]
      /\ order'[l] = w /\ \A m \in Objects \ {l} : order'[m] = order[m]
  <2>1. order' = [order EXCEPT ![l] = w]
    BY DEF Joins
  <2>2. QED
    BY <1>2, <1>3, <1>5, <2>1, SpreadOne
<1>7. Housed(order', calls', links')
  <2>1. ASSUME NEW j \in Links
        PROVE  (\E m \in Objects : In(j, order'[m])) <=> (\E m \in Objects : In(j, order[m])) \/ j = k
    BY <1>4, <1>6
  <2>2. links' = links \cup {k}
    BY DEF Joins
  <2>3. \A j \in Links : /\ AtHand(calls', j) => AtHand(calls, j) \/ j = k
                         /\ AtHand(calls, j) => AtHand(calls', j) \/ In(j, order[l])
    BY <1>4 DEF HandsAgain
  <2>4. QED
    BY <1>3, <2>1, <2>2, <2>3 DEF Housed
<1>8. \A m \in Objects : \A j \in Links : On(j, m) => On(j, m)'
  <2>1. ASSUME NEW m \in Objects, NEW j \in Links, In(j, order[m]) PROVE In(j, order'[m])
    BY <1>4, <1>6, <2>1
  <2>2. QED
    BY <2>1 DEF On
<1>9. CursorsLinked'
  <2>1. ItersStay
    BY DEF ItersStay, Joins
  <2>2. QED
    BY <1>8, <2>1, ItersLinked
<1>10. ASSUME NEW m \in Objects \ {l} PROVE PointersStay(m)
  <2>1. \A j \in Links : On(j, m) => j # k /\ ~On(j, l)
    BY <1>1, <1>2 DEF Loose
  <2>2. QED
    BY <1>6, <2>1 DEF Joins, PointersStay
<1>11. /\ kind' = kind /\ clones' \in SUBSET Objects
       /\ w # << >>
  <2>1. In(k, w)
    OBVIOUS
  <2>2. ~In(k, << >>)
    BY DEF In
  <2>3. QED
    BY <1>2, <2>1, <2>2 DEF Joins
<1>12. QED
  <2>1. PICK D : D = {l}
    OBVIOUS
  <2>2. D \in SUBSET Objects /\ \A m \in D : m = l
    BY <2>1
  <2>3. \A m \in Objects \ D : m \in Objects \ {l}
    BY <2>1
  <2>4. /\ kind'[l] = "list" /\ (l \in clones' => order'[l] # << >>)
    BY <1>6, <1>11
  <2>5. \A m \in Objects \ D : /\ PointersStay(m) /\ (kind'[m] = "list" <=> kind[m] = "list")
                               /\ (Walked(m) => Walked(m)') /\ (Cloned(m) => Cloned(m)')
    BY <1>10, <1>11, <2>3 DEF WalksAgain
  <2>6. QED
    BY <1>6, <1>7, <1>9, <1>11, <2>2, <2>4, <2>5, ListsChange

\* A link comes to hold something.
LEMMA LinkHeld ==
    ASSUME CollectionsInv, NEW k \in Links, NEW y, refers' = [refers EXCEPT ![k] = y]
    PROVE  RefersStay
<1>1. refers \in [Holders -> Referred]
  BY InvFacts
<1>2. \A h \in Objects \cup Vars : h \in Holders /\ h # k
  BY CellFacts, ListsAssumption
<1>3. QED
  BY <1>1, <1>2 DEF RefersStay

LEMMA EndLoadLinks ==
    ASSUME CollectionsInv, CollectionsInv', LinksInv, NEW k \in Links, EndLoad(k)
    PROVE  LinksInv'
<1>1. PICK t, l, w : t = Top /\ l = t.for /\ w = <<k>>
  OBVIOUS
<1>2. /\ ~Idle /\ t.does = "load" /\ kind[l] = "list" /\ AtEnd /\ k \in FreeLinks
      /\ links' = links \cup {k} /\ refers' = [refers EXCEPT ![k] = t.arg]
      /\ next' = [next EXCEPT ![k] = NoLink] /\ prev' = [prev EXCEPT ![k] = NoLink]
      /\ head' = [head EXCEPT ![l] = k] /\ tail' = [tail EXCEPT ![l] = k]
      /\ order' = [order EXCEPT ![l] = w]
      /\ clones' = clones \ {l} /\ calls' = Rest /\ kind' = kind /\ cursor' = cursor
  BY <1>1 DEF EndLoad
<1>3. /\ l \in Objects /\ order[l] = << >> /\ t.link = NoLink /\ Rest = << >>
  BY <1>1, <1>2, WalkedOut, TopLinks DEF Walkers
<1>4. /\ \A m : WalkedIn(calls, m) <=> Walks(t, m) \/ WalkedIn(Rest, m)
      /\ \A m : ~ClonedIn(calls, m)
      /\ \A j : AtHand(calls, j) <=> t.link = j \/ AtHand(Rest, j)
  BY <1>1, <1>2, TopLinks
<1>5. calls' = << >> /\ (\A j : ~AtHand(calls', j)) /\ \A m : ~Walked(m)' /\ ~Cloned(m)'
  BY <1>2, <1>3, FewLinkLoops, WalkedAndCloned
<1>6. HandsAgain(l, k) /\ WalksAgain(l)
  <2>1. \A j \in Links : ~AtHand(calls, j)
    BY <1>3, <1>4, FewLinkLoops, InvFacts
  <2>2. ASSUME NEW m \in Objects \ {l} PROVE ~Walked(m) /\ ~Cloned(m)
    BY <1>1, <1>3, <1>4, FewLinkLoops, WalkedAndCloned DEF Walks
  <2>3. QED
    BY <1>5, <2>1, <2>2 DEF HandsAgain, WalksAgain
<1>7. LoopsLinked'
  <2>1. HeapTypeOK'
    BY DEF CollectionsInv
  <2>2. (\A c \in LoopsOf(calls') : LoopLinked(c)') /\ Apart(calls') /\ Waiting(calls')
    BY <1>5, FewLinkLoops DEF LoopsOf
  <2>3. QED
    BY <2>1, <2>2, LinkLoopsAgain
<1>8. /\ next \in [Links -> Link] /\ prev \in [Links -> Link]
      /\ head \in [Objects -> Link] /\ tail \in [Objects -> Link]
      /\ order \in [Objects -> Seq(Links)]
  BY InvFacts, OrderFacts DEF PointersTypeOK
<1>9. Joins(l, k, w)
  <2>1. \A i \in Objects : refers'[i] = refers[i]
    BY <1>2, LinkHeld DEF RefersStay
  <2>2. \A m \in Objects \ {l} : head'[m] = head[m] /\ tail'[m] = tail[m]
    BY <1>2, <1>3, <1>8
  <2>3. \A j \in Links : j # k => next'[j] = next[j] /\ prev'[j] = prev[j]
    BY <1>2, <1>8
  <2>4. QED
    BY <1>2, <2>1, <2>2, <2>3 DEF Joins
<1>10. w \in Seq(Links) /\ Len(w) = 1 /\ w[1] = k /\ w # << >>
  BY <1>1
<1>11. Distinct(w) /\ \A j : In(j, w) <=> On(j, l) \/ j = k
  <2>1. \A i \in 1 .. Len(w) : i = 1
    BY <1>10
  <2>2. \A j : ~On(j, l)
    BY <1>3 DEF On, In
  <2>3. \A j : In(j, w) <=> j = k
    BY <1>10, <2>1 DEF In
  <2>4. QED
    BY <2>1, <2>2, <2>3 DEF Distinct
<1>12. Pointers(l)'
  <2>1. order'[l] = w /\ head'[l] = k /\ tail'[l] = k /\ l \notin clones' /\ next'[k] = NoLink /\ prev'[k] = NoLink
    BY <1>2, <1>3, <1>8
  <2>2. Chained(w, next', prev') /\ Closed(w, next', prev')
    BY <1>10, <2>1 DEF Chained, Closed
  <2>3. FirstLink(w) = k /\ LastLink(w) = k
    BY <1>10 DEF FirstLink, LastLink
  <2>4. QED
    BY <2>1, <2>2, <2>3 DEF Pointers
<1>13. WellLinked(l)'
  BY <1>3, <1>12, RestAgain
<1>14. QED
  BY <1>2, <1>3, <1>6, <1>7, <1>9, <1>10, <1>11, <1>13, LinkComes

LEMMA CloneLinkLinks ==
    ASSUME CollectionsInv, CollectionsInv', LinksInv, NEW k \in Links, CloneLink(k)
    PROVE  LinksInv'
<1>1. PICK t, l, s, w : t = Top /\ l = t.for /\ s = order[l] /\ w = Append(s, k)
  OBVIOUS
<1>2. PICK c : c = [t EXCEPT !.link = k, !.cur = next[t.cur]]
  OBVIOUS
<1>3. /\ ~Idle /\ t.does = "clone" /\ t.cur # NoLink /\ k \in FreeLinks
      /\ links' = links \cup {k} /\ refers' = [refers EXCEPT ![k] = refers[t.cur]]
      /\ next' = IF t.link = NoLink THEN next ELSE [next EXCEPT ![t.link] = k]
      /\ head' = IF t.link = NoLink THEN [head EXCEPT ![l] = k] ELSE head
      /\ prev' = [prev EXCEPT ![k] = t.link]
      /\ order' = [order EXCEPT ![l] = w] /\ calls' = <<c>> \o Rest
      /\ kind' = kind /\ tail' = tail /\ cursor' = cursor /\ clones' = clones
  BY <1>1, <1>2 DEF CloneLink
<1>4. /\ l \in Objects /\ CloneLinked(t) /\ Rest = << >> /\ kind[l] = "list" /\ t \in Loop
      /\ \A m : ~Walked(m) /\ (Cloned(m) <=> m = l)
      /\ \A j : AtHand(calls, j) <=> j = t.link
  BY <1>1, <1>3, CloneFacts
<1>5. l \notin clones /\ tail[l] = NoLink /\ t.link = LastLink(s)
  BY <1>1, <1>3, <1>4 DEF CloneLinked
<1>6. PICK p \in Objects \ {l} : kind[p] = "list" /\ On(t.cur, p)
  BY <1>1, <1>3, <1>4 DEF CloneLinked
<1>7. next[t.cur] # NoLink => On(next[t.cur], p)
  <2>1. AtRest(p)
    BY <1>4, <1>6 DEF AtRest
  <2>2. QED
    BY <1>6, <2>1, NextOn
<1>8. /\ s \in Seq(Links) /\ Distinct(s) /\ \A m \in Objects : \A j : On(j, m) => j \in Links
      /\ order \in [Objects -> Seq(Links)]
      /\ \A j : On(j, l) <=> In(j, s)
  BY <1>1, <1>4, OrderFacts DEF On
<1>9. k \in Links /\ k # NoLink /\ Loose(k)
  BY <1>3, FreeLinkNowhere
<1>10. ~In(k, s) /\ (s # << >> => In(t.link, s)) /\ (s = << >> <=> t.link = NoLink)
  BY <1>1, <1>4, <1>5, <1>8, <1>9, SeqFacts DEF Loose, On
<1>11. /\ next \in [Links -> Link] /\ prev \in [Links -> Link]
       /\ head \in [Objects -> Link] /\ tail \in [Objects -> Link]
  BY InvFacts DEF PointersTypeOK
<1>12. WellLinked(l)
  BY <1>4 DEF LinksInv, ListsLinked
<1>13. /\ \A j \in 1 .. Len(s) - 1 : next[s[j]] = s[j + 1] /\ prev[s[j + 1]] = s[j]
       /\ head[l] = FirstLink(s) /\ (s # << >> => prev[s[1]] = NoLink)
  BY <1>1, <1>4, <1>12 DEF WellLinked, FirstLink
<1>14. Chained(s, next, prev)
  BY <1>13 DEF Chained
<1>15. \A j \in Links : j # k /\ ~In(j, s) => next'[j] = next[j] /\ prev'[j] = prev[j]
  BY <1>3, <1>8, <1>10, <1>11
<1>16. Extended(s, k, next, prev, next', prev')
  <2>1. prev'[k] = LastLink(s)
    BY <1>3, <1>5, <1>9, <1>11
  <2>2. s # << >> => t.link = s[Len(s)] /\ t.link \in Links
    BY <1>5, <1>8, SeqFacts
  <2>3. s # << >> => next'[s[Len(s)]] = k
    BY <1>3, <1>10, <1>11, <2>2
  <2>4. ASSUME NEW j \in 1 .. Len(s) PROVE prev'[s[j]] = prev[s[j]] /\ (j # Len(s) => next'[s[j]] = next[s[j]])
    <3>1. s[j] \in Links /\ s[j] # k /\ Len(s) \in 1 .. Len(s) /\ s # << >>
      BY <1>8, <1>10, SeqFacts DEF In
    <3>2. j # Len(s) => s[j] # t.link
      BY <1>8, <2>2, <3>1 DEF Distinct
    <3>3. QED
      BY <1>3, <1>11, <3>1, <3>2
  <2>5. QED
    BY <2>1, <2>3, <2>4 DEF Extended
<1>17. /\ w \in Seq(Links) /\ Distinct(w) /\ \A j : In(j, w) <=> In(j, s) \/ j = k
       /\ Chained(w, next', prev') /\ w # << >> /\ LastLink(w) = k
       /\ FirstLink(w) = IF s = << >> THEN k ELSE FirstLink(s)
       /\ (s # << >> => prev[s[1]] = NoLink) => prev'[w[1]] = NoLink
  <2>1. GrewTo(s, k, w, prev, next', prev')
    BY <1>1, <1>8, <1>9, <1>10, <1>14, <1>16, ChainExtended
  <2>2. QED
    BY <2>1 DEF GrewTo
<1>18. order'[l] = w /\ \A m \in Objects \ {l} : order'[m] = order[m]
  BY <1>3, <1>4, <1>8
<1>19. next[t.cur] \in Link
  BY <1>6, <1>8, <1>11
<1>20. c \in Loop /\ c.does = "clone" /\ c.for = l /\ c.link = k /\ c.cur = next[t.cur]
  BY <1>1, <1>2, <1>3, <1>4, <1>9, <1>19 DEF Loop, Link
<1>21. calls' = <<c>>
  BY <1>3, <1>4, <1>20, OneLoop
<1>22. LoopLinked(c)'
  <2>1. WalkLinked(c)' /\ HandLinked(c)' /\ EmptiesLinked(c)' /\ SeekLinked(c)'
    BY <1>20 DEF WalkLinked, HandLinked, EmptiesLinked, SeekLinked, Walkers
  <2>2. c.cur # NoLink => On(c.cur, p)'
    BY <1>6, <1>7, <1>18, <1>20 DEF On
  <2>3. c.link = LastLink(order'[l]) /\ kind'[l] = "list" /\ l \notin clones' /\ tail'[l] = NoLink
    BY <1>3, <1>4, <1>5, <1>17, <1>18, <1>20
  <2>4. CloneLinked(c)'
    BY <1>3, <1>6, <1>20, <2>2, <2>3 DEF CloneLinked
  <2>5. QED
    BY <2>1, <2>4 DEF LoopLinked
<1>23. /\ LoopsLinked' /\ (\A j : AtHand(calls', j) <=> j = k)
       /\ \A m : ~Walked(m)' /\ (Cloned(m)' <=> m = l)
  <2>1. HeapTypeOK'
    BY DEF CollectionsInv
  <2>2. LoopsOf(calls') = {c}
    BY <1>20, <1>21, OneLoop
  <2>3. /\ Apart(calls') /\ Waiting(calls') /\ \A j : AtHand(calls', j) <=> c.link = j
        /\ \A m : WalkedIn(calls', m) <=> Walks(c, m)
        /\ \A m : ClonedIn(calls', m) <=> c.does = "clone" /\ c.for = m
    BY <1>20, <1>21, FewLinkLoops
  <2>4. LoopsLinked'
    BY <1>22, <2>1, <2>2, <2>3, LinkLoopsAgain
  <2>5. QED
    BY <1>20, <2>3, <2>4, WalkedAndCloned DEF Walks
<1>24. HandsAgain(l, k) /\ WalksAgain(l)
  BY <1>4, <1>8, <1>10, <1>23, InvFacts DEF HandsAgain, WalksAgain
<1>25. Joins(l, k, w)
  <2>1. \A i \in Objects : refers'[i] = refers[i]
    BY <1>3, LinkHeld DEF RefersStay
  <2>2. \A m \in Objects \ {l} : head'[m] = head[m] /\ tail'[m] = tail[m]
    BY <1>3, <1>11
  <2>3. QED
    BY <1>3, <1>8, <1>15, <2>1, <2>2 DEF Joins
<1>26. WellLinked(l)'
  <2>1. head'[l] = FirstLink(w)
    BY <1>3, <1>4, <1>10, <1>11, <1>13, <1>17
  <2>2. prev'[w[1]] = NoLink
    BY <1>13, <1>17
  <2>3. Cloned(l)' /\ ~Walked(l)'
    BY <1>23
  <2>4. QED
    BY <1>17, <1>18, <2>1, <2>2, <2>3 DEF WellLinked, Chained, FirstLink
<1>27. QED
  BY <1>3, <1>4, <1>8, <1>17, <1>23, <1>24, <1>25, <1>26, LinkComes

\* A link comes before the first one.
Preceded(s, k, nx, pv, ny, pw) ==
    /\ \A j \in 1 .. Len(s) : ny[s[j]] = nx[s[j]] /\ (j # 1 => pw[s[j]] = pv[s[j]])
    /\ s # << >> => pw[s[1]] = k
    /\ ny[k] = FirstLink(s) /\ pw[k] = NoLink

PrecededTo(s, k, w, ny, pw) ==
    /\ w \in Seq(Links) /\ Distinct(w) /\ \A j : In(j, w) <=> In(j, s) \/ j = k
    /\ Chained(w, ny, pw) /\ Closed(w, ny, pw) /\ w # << >> /\ FirstLink(w) = k
    /\ LastLink(w) = IF s = << >> THEN k ELSE LastLink(s)

LEMMA ChainPreceded ==
    ASSUME NEW s \in Seq(Links), NEW k \in Links, Distinct(s), ~In(k, s), NEW w, w = <<k>> \o s,
           NEW nx, NEW pv, NEW ny, NEW pw, Chained(s, nx, pv), Closed(s, nx, pv),
           Preceded(s, k, nx, pv, ny, pw)
    PROVE  PrecededTo(s, k, w, ny, pw)
<1>1. /\ w \in Seq(Links) /\ Len(s) \in Nat /\ Len(w) = Len(s) + 1 /\ w[1] = k
      /\ \A j \in 1 .. Len(s) : w[j + 1] = s[j]
      /\ s = << >> <=> Len(s) = 0
  <2>1. <<k>> \in Seq(Links) /\ Len(<<k>>) = 1 /\ <<k>>[1] = k
    OBVIOUS
  <2>2. /\ w \in Seq(Links) /\ Len(w) = 1 + Len(s) /\ JoinedAs(<<k>>, s, w)
    BY <2>1, Joined
  <2>3. Len(s) \in Nat /\ (s = << >> <=> Len(s) = 0)
    BY SeqFacts
  <2>4. \A j \in 1 .. Len(s) : w[1 + j] = s[j]
    BY <2>1, <2>2 DEF JoinedAs
  <2>5. w[1] = k
    BY <2>1, <2>2 DEF JoinedAs
  <2>6. \A j \in 1 .. Len(s) : 1 + j = j + 1
    BY <2>3
  <2>7. QED
    BY <2>2, <2>3, <2>4, <2>5, <2>6
<1>2. w # << >> /\ FirstLink(w) = k
  <2>1. Len(w) # 0
    BY <1>1
  <2>2. w # << >>
    BY <1>1, <2>1, SeqFacts
  <2>3. QED
    BY <1>1, <2>2 DEF FirstLink
<1>3. \A j \in 1 .. Len(w) : j = 1 \/ \E i \in 1 .. Len(s) : j = i + 1 /\ w[j] = s[i]
  <2>1. ASSUME NEW j \in 1 .. Len(w), j # 1 PROVE \E i \in 1 .. Len(s) : j = i + 1 /\ w[j] = s[i]
    <3>1. j - 1 \in 1 .. Len(s) /\ j = (j - 1) + 1
      BY <1>1, <2>1
    <3>2. QED
      BY <1>1, <3>1
  <2>2. QED
    BY <2>1
<1>4. \A j \in 1 .. Len(s) : j + 1 \in 1 .. Len(w) /\ 1 \in 1 .. Len(w)
  BY <1>1
<1>5. 1 \in 1 .. Len(w)
  BY <1>1
<1>6. \A j : In(j, w) <=> In(j, s) \/ j = k
  BY <1>1, <1>3, <1>4, <1>5 DEF In
<1>7. Distinct(w)
  <2>1. ASSUME NEW i \in 1 .. Len(w), NEW j \in 1 .. Len(w), w[i] = w[j] PROVE i = j
    <3>1. CASE i = 1
      BY <1>1, <1>3, <2>1, <3>1 DEF In
    <3>2. CASE j = 1
      BY <1>1, <1>3, <2>1, <3>2 DEF In
    <3>3. CASE i # 1 /\ j # 1
      BY <1>3, <2>1, <3>3 DEF Distinct
    <3>4. QED
      BY <3>1, <3>2, <3>3
  <2>2. QED
    BY <2>1 DEF Distinct
<1>8. ASSUME NEW j \in 1 .. Len(w) - 1 PROVE ny[w[j]] = w[j + 1] /\ pw[w[j + 1]] = w[j]
  <2>1. j \in 1 .. Len(s) /\ w[j + 1] = s[j] /\ s # << >>
    BY <1>1
  <2>2. CASE j = 1
    BY <1>1, <2>1, <2>2 DEF Preceded, FirstLink
  <2>3. CASE j # 1
    <3>1. j - 1 \in 1 .. Len(s) - 1 /\ j - 1 \in 1 .. Len(s) /\ (j - 1) + 1 = j
      BY <1>1, <2>1, <2>3
    <3>2. w[j] = s[j - 1]
      BY <1>1, <3>1
    <3>3. nx[s[j - 1]] = s[j] /\ pv[s[j]] = s[j - 1]
      BY <3>1 DEF Chained
    <3>4. ny[s[j - 1]] = nx[s[j - 1]] /\ pw[s[j]] = pv[s[j]]
      BY <2>1, <2>3, <3>1 DEF Preceded
    <3>5. QED
      BY <2>1, <3>2, <3>3, <3>4
  <2>4. QED
    BY <2>2, <2>3
<1>9. Chained(w, ny, pw)
  BY <1>8 DEF Chained
<1>10. pw[w[1]] = NoLink
  BY <1>1 DEF Preceded
<1>11. CASE s = << >>
  <2>1. Len(w) = 1 /\ w[Len(w)] = k
    BY <1>1, <1>11
  <2>2. ny[w[Len(w)]] = NoLink
    BY <1>11, <2>1 DEF Preceded, FirstLink
  <2>3. LastLink(w) = k
    BY <1>2, <2>1 DEF LastLink
  <2>4. QED
    BY <1>1, <1>2, <1>6, <1>7, <1>9, <1>10, <1>11, <2>2, <2>3 DEF PrecededTo, Closed
<1>12. CASE s # << >>
  <2>1. Len(s) \in 1 .. Len(s) /\ Len(w) = Len(s) + 1
    BY <1>1, <1>12
  <2>2. w[Len(w)] = s[Len(s)]
    BY <1>1, <2>1
  <2>3. ny[w[Len(w)]] = NoLink
    BY <1>12, <2>1, <2>2 DEF Preceded, Closed
  <2>4. LastLink(w) = LastLink(s)
    BY <1>2, <1>12, <2>2 DEF LastLink
  <2>5. QED
    BY <1>1, <1>2, <1>6, <1>7, <1>9, <1>10, <1>12, <2>3, <2>4 DEF PrecededTo, Closed
<1>13. QED
  BY <1>11, <1>12

\* What the two ways to add a link have in common.
LEMMA AddLinks ==
    ASSUME CollectionsInv, CollectionsInv', LinksInv, Idle, NEW l \in Lists, NEW k \in FreeLinks,
           NEW w \in Seq(Links), Distinct(w), \A j : In(j, w) <=> On(j, l) \/ j = k,
           Joins(l, k, w), calls' = calls, Pointers(l)'
    PROVE  LinksInv'
<1>1. l \in Objects /\ kind[l] = "list"
  BY ListsFacts
<1>2. HandsAgain(l, k) /\ WalksAgain(l)
  BY NoneWalked DEF HandsAgain, WalksAgain
<1>3. LoopsLinked'
  <2>1. HeapTypeOK' /\ calls' = << >>
    BY DEF CollectionsInv, Idle
  <2>2. (\A c \in LoopsOf(calls') : LoopLinked(c)') /\ Apart(calls') /\ Waiting(calls')
    BY <2>1, FewLinkLoops DEF LoopsOf
  <2>3. QED
    BY <2>1, <2>2, LinkLoopsAgain
<1>4. WellLinked(l)'
  BY <1>1, RestAgain
<1>5. QED
  BY <1>1, <1>2, <1>3, <1>4, LinkComes

\* A list that a method is called for, and a link that is free.
LEMMA MethodFacts ==
    ASSUME CollectionsInv, LinksInv, NEW l, Method(l), NEW s, s = order[l]
    PROVE  /\ Idle /\ l \in Lists /\ l \in Objects /\ kind[l] = "list"
           /\ s \in Seq(Links) /\ Distinct(s) /\ \A j : On(j, l) <=> In(j, s)
           /\ Chained(s, next, prev) /\ Closed(s, next, prev) /\ head[l] = FirstLink(s)
           /\ tail[l] = IF l \in clones THEN NoLink ELSE LastLink(s)
           /\ l \in clones => s # << >>
           /\ next \in [Links -> Link] /\ prev \in [Links -> Link]
           /\ head \in [Objects -> Link] /\ tail \in [Objects -> Link]
           /\ order \in [Objects -> Seq(Links)]
<1>1. Idle /\ l \in Lists
  BY DEF Method
<1>2. l \in Objects /\ kind[l] = "list"
  BY <1>1, ListsFacts
<1>3. Pointers(l) /\ (l \in clones => order[l] # << >>)
  BY <1>1, <1>2, NoneWalked, RestFacts
<1>4. order \in [Objects -> Seq(Links)] /\ s \in Seq(Links) /\ Distinct(s)
  BY <1>2, OrderFacts
<1>5. QED
  BY <1>1, <1>2, <1>3, <1>4, InvFacts DEF Pointers, PointersTypeOK, On

LEMMA AddTailLinks ==
    ASSUME CollectionsInv, CollectionsInv', LinksInv, NEW l, NEW k \in Links, AddTail(l, k)
    PROVE  LinksInv'
<1>1. PICK s, w : s = order[l] /\ w = Append(s, k)
  OBVIOUS
<1>2. /\ Method(l) /\ l \notin clones /\ k \in FreeLinks
      /\ links' = links \cup {k} /\ refers' = [refers EXCEPT ![k] = stack]
      /\ prev' = [prev EXCEPT ![k] = tail[l]] /\ tail' = [tail EXCEPT ![l] = k]
      /\ order' = [order EXCEPT ![l] = w]
      /\ kind' = kind /\ cursor' = cursor /\ calls' = calls /\ clones' = clones
      /\ tail[l] = NoLink => /\ head' = [head EXCEPT ![l] = k]
                             /\ next' = [next EXCEPT ![k] = NoLink]
      /\ tail[l] # NoLink => /\ next' = [next EXCEPT ![k] = NoLink, ![tail[l]] = k]
                             /\ head' = head
  BY <1>1 DEF AddTail, NewLink
<1>3. /\ Idle /\ l \in Lists /\ l \in Objects /\ kind[l] = "list"
      /\ s \in Seq(Links) /\ Distinct(s) /\ \A j : On(j, l) <=> In(j, s)
      /\ Chained(s, next, prev) /\ Closed(s, next, prev) /\ head[l] = FirstLink(s)
      /\ tail[l] = LastLink(s)
      /\ next \in [Links -> Link] /\ prev \in [Links -> Link]
      /\ head \in [Objects -> Link] /\ tail \in [Objects -> Link]
      /\ order \in [Objects -> Seq(Links)]
  BY <1>1, <1>2, MethodFacts
<1>4. k \in Links /\ k # NoLink /\ ~In(k, s)
  BY <1>2, <1>3, FreeLinkNowhere DEF Loose
<1>5. /\ Len(s) \in Nat /\ (s = << >> <=> tail[l] = NoLink)
      /\ s # << >> => tail[l] = s[Len(s)] /\ tail[l] \in Links /\ tail[l] # k /\ In(tail[l], s)
      /\ \A j \in 1 .. Len(s) : s[j] \in Links /\ s[j] # k /\ s # << >> /\ Len(s) \in 1 .. Len(s)
  BY <1>3, <1>4, SeqFacts DEF In
<1>6. /\ \A j \in Links : j # k => prev'[j] = prev[j] /\ (j # tail[l] => next'[j] = next[j])
      /\ prev'[k] = tail[l] /\ next'[k] = NoLink /\ (tail[l] # NoLink => next'[tail[l]] = k)
  BY <1>2, <1>3, <1>4, <1>5
<1>7. Extended(s, k, next, prev, next', prev')
  <2>1. ASSUME NEW j \in 1 .. Len(s), j # Len(s) PROVE s[j] # tail[l]
    BY <1>3, <1>5, <2>1 DEF Distinct
  <2>2. QED
    BY <1>3, <1>5, <1>6, <2>1 DEF Extended
<1>8. GrewTo(s, k, w, prev, next', prev')
  BY <1>1, <1>3, <1>4, <1>7, ChainExtended
<1>9. /\ w \in Seq(Links) /\ Distinct(w) /\ \A j : In(j, w) <=> In(j, s) \/ j = k
      /\ Chained(w, next', prev') /\ w # << >> /\ LastLink(w) = k /\ w[Len(w)] = k
      /\ FirstLink(w) = IF s = << >> THEN k ELSE FirstLink(s)
      /\ prev'[w[1]] = NoLink
  BY <1>3, <1>8 DEF GrewTo, Closed
<1>10. Joins(l, k, w)
  <2>1. \A i \in Objects : refers'[i] = refers[i]
    BY <1>2, LinkHeld DEF RefersStay
  <2>2. \A m \in Objects \ {l} : head'[m] = head[m] /\ tail'[m] = tail[m]
    BY <1>2, <1>3
  <2>3. \A j \in Links : j # k /\ ~On(j, l) => next'[j] = next[j] /\ prev'[j] = prev[j]
    <3>1. \A j \in Links : ~In(j, s) => j # tail[l]
      BY <1>5, InvFacts
    <3>2. QED
      BY <1>3, <1>6, <3>1
  <2>4. QED
    BY <1>2, <2>1, <2>2, <2>3 DEF Joins
<1>11. Pointers(l)'
  <2>1. order'[l] = w /\ tail'[l] = k /\ l \notin clones'
    BY <1>2, <1>3
  <2>2. head'[l] = FirstLink(w)
    BY <1>2, <1>3, <1>5, <1>9
  <2>3. Closed(w, next', prev')
    BY <1>6, <1>9 DEF Closed
  <2>4. QED
    BY <1>9, <2>1, <2>2, <2>3 DEF Pointers
<1>12. QED
  BY <1>2, <1>3, <1>9, <1>10, <1>11, AddLinks

LEMMA AddHeadLinks ==
    ASSUME CollectionsInv, CollectionsInv', LinksInv, NEW l, NEW k \in Links, AddHead(l, k)
    PROVE  LinksInv'
<1>1. PICK s, w : s = order[l] /\ w = <<k>> \o s
  OBVIOUS
<1>2. /\ Method(l) /\ k \in FreeLinks
      /\ links' = links \cup {k} /\ refers' = [refers EXCEPT ![k] = stack]
      /\ next' = [next EXCEPT ![k] = head[l]] /\ head' = [head EXCEPT ![l] = k]
      /\ order' = [order EXCEPT ![l] = w]
      /\ kind' = kind /\ cursor' = cursor /\ calls' = calls /\ clones' = clones
      /\ head[l] = NoLink => /\ tail' = [tail EXCEPT ![l] = k]
                             /\ prev' = [prev EXCEPT ![k] = NoLink]
      /\ head[l] # NoLink => /\ prev' = [prev EXCEPT ![k] = NoLink, ![head[l]] = k]
                             /\ tail' = tail
  BY <1>1 DEF AddHead, NewLink
<1>3. /\ Idle /\ l \in Lists /\ l \in Objects /\ kind[l] = "list"
      /\ s \in Seq(Links) /\ Distinct(s) /\ \A j : On(j, l) <=> In(j, s)
      /\ Chained(s, next, prev) /\ Closed(s, next, prev) /\ head[l] = FirstLink(s)
      /\ tail[l] = IF l \in clones THEN NoLink ELSE LastLink(s)
      /\ l \in clones => s # << >>
      /\ next \in [Links -> Link] /\ prev \in [Links -> Link]
      /\ head \in [Objects -> Link] /\ tail \in [Objects -> Link]
      /\ order \in [Objects -> Seq(Links)]
  BY <1>1, <1>2, MethodFacts
<1>4. k \in Links /\ k # NoLink /\ ~In(k, s)
  BY <1>2, <1>3, FreeLinkNowhere DEF Loose
<1>5. /\ Len(s) \in Nat /\ (s = << >> <=> head[l] = NoLink)
      /\ s # << >> => head[l] = s[1] /\ head[l] \in Links /\ head[l] # k /\ In(head[l], s)
      /\ \A j \in 1 .. Len(s) : s[j] \in Links /\ s[j] # k /\ s # << >> /\ 1 \in 1 .. Len(s)
  BY <1>3, <1>4, SeqFacts DEF In
<1>6. /\ \A j \in Links : j # k => next'[j] = next[j] /\ (j # head[l] => prev'[j] = prev[j])
      /\ next'[k] = head[l] /\ prev'[k] = NoLink /\ (head[l] # NoLink => prev'[head[l]] = k)
  BY <1>2, <1>3, <1>4, <1>5
<1>7. Preceded(s, k, next, prev, next', prev')
  <2>1. ASSUME NEW j \in 1 .. Len(s), j # 1 PROVE s[j] # head[l]
    BY <1>3, <1>5, <2>1 DEF Distinct
  <2>2. QED
    BY <1>3, <1>5, <1>6, <2>1 DEF Preceded
<1>8. PrecededTo(s, k, w, next', prev')
  BY <1>1, <1>3, <1>4, <1>7, ChainPreceded
<1>9. /\ w \in Seq(Links) /\ Distinct(w) /\ \A j : In(j, w) <=> In(j, s) \/ j = k
      /\ Chained(w, next', prev') /\ Closed(w, next', prev') /\ FirstLink(w) = k
      /\ LastLink(w) = IF s = << >> THEN k ELSE LastLink(s)
  BY <1>8 DEF PrecededTo
<1>10. Joins(l, k, w)
  <2>1. \A i \in Objects : refers'[i] = refers[i]
    BY <1>2, LinkHeld DEF RefersStay
  <2>2. \A m \in Objects \ {l} : head'[m] = head[m] /\ tail'[m] = tail[m]
    BY <1>2, <1>3
  <2>3. \A j \in Links : j # k /\ ~On(j, l) => next'[j] = next[j] /\ prev'[j] = prev[j]
    <3>1. \A j \in Links : ~In(j, s) => j # head[l]
      BY <1>5, InvFacts
    <3>2. QED
      BY <1>3, <1>6, <3>1
  <2>4. QED
    BY <1>2, <2>1, <2>2, <2>3 DEF Joins
<1>11. Pointers(l)'
  <2>1. order'[l] = w /\ head'[l] = k
    BY <1>2, <1>3
  <2>2. tail'[l] = IF l \in clones' THEN NoLink ELSE LastLink(w)
    BY <1>2, <1>3, <1>5, <1>9
  <2>3. QED
    BY <1>9, <2>1, <2>2 DEF Pointers
<1>12. QED
  BY <1>2, <1>3, <1>9, <1>10, <1>11, AddLinks

-----------------------------------------------------------------------------
(* Lists that are made *)

\* An object that was free is on no list and has no links.
LEMMA FreeObjectLinks ==
    ASSUME CollectionsInv, LinksInv, NEW o \in FreeObjects
    PROVE  /\ o \in Objects /\ kind[o] = "free" /\ order[o] = << >> /\ o \notin clones
           /\ \A h \in Holders : refers[h] # o
           /\ head \in [Objects -> Link] /\ tail \in [Objects -> Link] /\ kind \in [Objects -> Kinds]
<1>1. o \in Objects /\ kind[o] = "free" /\ \A h \in Holders : refers[h] # o
  BY FreeFacts
<1>2. order[o] = << >> /\ o \notin clones
  BY <1>1 DEF LinksInv, OrderTypeOK
<1>3. QED
  BY <1>1, <1>2, InvFacts DEF PointersTypeOK

LEMMA NewListLinks ==
    ASSUME CollectionsInv, LinksInv, Idle, NEW o \in FreeObjects, NEW what \in {"item", "list"},
           kind' = [kind EXCEPT ![o] = what], head' = [head EXCEPT ![o] = NoLink],
           tail' = [tail EXCEPT ![o] = NoLink],
           UNCHANGED <<refers, links, next, prev, cursor, order, clones>>,
           LoopsLinked', \A j \in Links : ~AtHand(calls', j)
    PROVE  LinksInv'
<1>1. /\ o \in Objects /\ kind[o] = "free" /\ order[o] = << >> /\ o \notin clones
      /\ head \in [Objects -> Link] /\ tail \in [Objects -> Link] /\ kind \in [Objects -> Kinds]
  BY FreeObjectLinks
<1>2. /\ kind'[o] = what /\ head'[o] = NoLink /\ tail'[o] = NoLink
      /\ \A m \in Objects \ {o} : kind'[m] = kind[m] /\ head'[m] = head[m] /\ tail'[m] = tail[m]
  BY <1>1
<1>3. \A l : ~Walked(l) /\ ~Cloned(l)
  BY NoneWalked
<1>4. Pointers(o)'
  <2>1. Chained(<< >>, next', prev') /\ Closed(<< >>, next', prev')
    BY DEF Chained, Closed
  <2>2. order'[o] = << >> /\ head'[o] = NoLink /\ tail'[o] = NoLink /\ o \notin clones'
    BY <1>1, <1>2
  <2>3. QED
    BY <2>1, <2>2 DEF Pointers, FirstLink, LastLink
<1>5. WellLinked(o)'
  BY <1>1, <1>4, RestAgain
<1>6. \A m \in Objects \ {o} : PointersStay(m)
  BY <1>2 DEF PointersStay
<1>7. order' \in [Objects -> Seq(Links)] /\ clones' \in SUBSET Objects /\ Spread(order')
  BY OrderFacts, HaveLists DEF LinksInv
<1>8. Housed(order', calls', links')
  <2>1. Housed(order, calls, links)
    BY HaveLists DEF LinksInv
  <2>2. \A j \in Links : ~AtHand(calls, j)
    BY NoneWalked
  <2>3. QED
    BY <2>1, <2>2 DEF Housed
<1>9. CursorsLinked'
  <2>1. ItersStay
    BY <1>1, <1>2 DEF ItersStay
  <2>2. \A m \in Objects : \A k \in Links : On(k, m) => On(k, m)'
    BY DEF On
  <2>3. QED
    BY <2>1, <2>2, ItersLinked
<1>10. QED
  <2>1. PICK D : D = {o}
    OBVIOUS
  <2>2. D \in SUBSET Objects /\ \A m \in D : m = o
    BY <1>1, <2>1
  <2>3. \A m \in Objects \ D : m \in Objects \ {o}
    BY <2>1
  <2>4. order'[o] = << >> /\ o \notin clones'
    BY <1>1
  <2>5. \A m \in Objects \ D : /\ PointersStay(m) /\ (kind'[m] = "list" <=> kind[m] = "list")
                               /\ (Walked(m) => Walked(m)') /\ (Cloned(m) => Cloned(m)')
    BY <1>2, <1>3, <1>6, <2>3
  <2>6. QED
    BY <1>5, <1>7, <1>8, <1>9, <2>2, <2>4, <2>5, ListsChange

\* Nothing is under way afterwards.
LEMMA NoneAfter ==
    ASSUME CollectionsInv', calls' = << >>
    PROVE  LoopsLinked' /\ (\A j : ~AtHand(calls', j)) /\ \A m : ~Walked(m)' /\ ~Cloned(m)'
<1>1. HeapTypeOK'
  BY DEF CollectionsInv
<1>2. (\A c \in LoopsOf(calls') : LoopLinked(c)') /\ Apart(calls') /\ Waiting(calls')
  BY FewLinkLoops DEF LoopsOf
<1>3. LoopsLinked'
  BY <1>1, <1>2, LinkLoopsAgain
<1>4. QED
  BY <1>3, FewLinkLoops, WalkedAndCloned

LEMMA MakeLinks ==
    ASSUME CollectionsInv, CollectionsInv', LinksInv, NEW o \in Objects, Make(o)
    PROVE  LinksInv'
<1>1. CASE \E what \in {"item", "list"} : New(o, what)
  <2>1. PICK what \in {"item", "list"} : New(o, what)
    BY <1>1
  <2>2. /\ Idle /\ o \in FreeObjects /\ kind' = [kind EXCEPT ![o] = what]
        /\ head' = [head EXCEPT ![o] = NoLink] /\ tail' = [tail EXCEPT ![o] = NoLink]
        /\ UNCHANGED <<refers, links, next, prev, cursor, order, clones>>
        /\ calls' = << >>
    BY <2>1 DEF New, Idle
  <2>3. LoopsLinked' /\ \A j \in Links : ~AtHand(calls', j)
    BY <2>2, NoneAfter
  <2>4. QED
    BY <2>2, <2>3, NewListLinks
<1>2. CASE NewArray(o) \/ NewIntMap(o)
  <2>1. /\ Idle /\ o \in FreeObjects /\ calls' = calls /\ UNCHANGED shape
        /\ refers' = refers /\ cursor' = cursor
        /\ \E what \in {"array", "intMap"} : kind' = [kind EXCEPT ![o] = what]
    BY <1>2 DEF NewArray, NewIntMap
  <2>2. SameLists /\ ItersStay
    BY <2>1, NewKind
  <2>3. QED
    BY <2>1, <2>2, PlainLinks
<1>3. QED
  BY <1>1, <1>2 DEF Make

LEMMA CloneStartsLinks ==
    ASSUME CollectionsInv, CollectionsInv', LinksInv, NEW l, NEW o \in Objects, Clone(l, o)
    PROVE  LinksInv'
<1>1. PICK s, c : s = order[l] /\ c = Calls("clone", o, head[l], NoLink, NoObject)
  OBVIOUS
<1>2. /\ Method(l) /\ o \in FreeObjects /\ kind' = [kind EXCEPT ![o] = "list"]
      /\ head' = [head EXCEPT ![o] = NoLink] /\ tail' = [tail EXCEPT ![o] = NoLink]
      /\ calls' = <<c>>
      /\ UNCHANGED <<refers, links, next, prev, cursor, order, clones>>
  BY <1>1 DEF Clone
<1>3. /\ Idle /\ l \in Objects /\ kind[l] = "list" /\ head[l] \in Link /\ NoLink \in Link
      /\ NoObject \in Object
  BY <1>1, <1>2, MethodFacts, InvFacts DEF Link
<1>4. head[l] # NoLink => On(head[l], l)
  BY <1>3, NoneWalked, NextOn
<1>5. /\ kind[o] = "free" /\ order[o] = << >> /\ o \notin clones
      /\ tail \in [Objects -> Link] /\ kind \in [Objects -> Kinds]
  BY <1>2, FreeObjectLinks
<1>6. c \in Loop /\ c.does = "clone" /\ c.for = o /\ c.cur = head[l] /\ c.link = NoLink
  BY <1>1, <1>3 DEF Calls, Loop
<1>7. LoopLinked(c)'
  <2>1. kind'[o] = "list" /\ kind'[l] = "list" /\ l # o /\ tail'[o] = NoLink
    BY <1>2, <1>3, <1>5
  <2>2. c.link = LastLink(order'[c.for])
    BY <1>2, <1>5, <1>6 DEF LastLink
  <2>3. c.cur # NoLink => On(c.cur, l)'
    BY <1>2, <1>4, <1>6 DEF On
  <2>4. CloneLinked(c)'
    BY <1>2, <1>3, <1>5, <1>6, <2>1, <2>2, <2>3 DEF CloneLinked
  <2>5. WalkLinked(c)' /\ HandLinked(c)' /\ EmptiesLinked(c)' /\ SeekLinked(c)'
    BY <1>6 DEF WalkLinked, HandLinked, EmptiesLinked, SeekLinked, Walkers
  <2>6. QED
    BY <2>4, <2>5 DEF LoopLinked
<1>8. LoopsLinked' /\ \A j \in Links : ~AtHand(calls', j)
  <2>1. HeapTypeOK' /\ NoLink \notin Links
    BY InvFacts DEF CollectionsInv
  <2>2. LoopsOf(calls') = {c}
    BY <1>2, <1>6, OneLoop
  <2>3. Apart(calls') /\ Waiting(calls') /\ \A j : AtHand(calls', j) <=> c.link = j
    BY <1>2, <1>6, FewLinkLoops
  <2>4. QED
    BY <1>6, <1>7, <2>1, <2>2, <2>3, LinkLoopsAgain
<1>9. QED
  BY <1>2, <1>3, <1>8, NewListLinks

\* The list o that toList makes of m links.
LinksMade(o, ks, m) ==
    /\ \A n \in 1 .. m : /\ next'[ks[n]] = IF n + 1 \in 1 .. m THEN ks[n + 1] ELSE NoLink
                         /\ prev'[ks[n]] = IF n - 1 \in 1 .. m THEN ks[n - 1] ELSE NoLink
    /\ \A k \in Links : (\A n \in 1 .. m : ks[n] # k) => next'[k] = next[k] /\ prev'[k] = prev[k]
    /\ head' = [head EXCEPT ![o] = IF 1 \in 1 .. m THEN ks[1] ELSE NoLink]
    /\ tail' = [tail EXCEPT ![o] = IF m \in 1 .. m THEN ks[m] ELSE NoLink]
    /\ links' = links \cup {ks[n] : n \in 1 .. m}
    /\ order' = [order EXCEPT ![o] = ks]

LEMMA LinksMadeFacts ==
    ASSUME CollectionsInv, NEW a \in Arrays, NEW o \in Objects, NEW m, m = Size(a), NEW ks \in NewLinks(m),
           ToList(a, o, ks)
    PROVE  LinksMade(o, ks, m)
<1>1. m \in Nat
  BY ArraysFacts
<1>2. /\ \A i \in 1 .. m : ks[i] \in Links /\ ks[i] \notin links
      /\ \A i, j \in 1 .. m : ks[i] = ks[j] => i = j
  BY <1>1, NewLinksFacts
<1> DEFINE At(n) == IF n \in 1 .. m THEN ks[n] ELSE NoLink
           Nth(k) == CHOOSE n \in 1 .. m : ks[n] = k
           made == {ks[n] : n \in 1 .. m}
<1>3. /\ next' = [k \in Links |-> IF k \in made THEN At(Nth(k) + 1) ELSE next[k]]
      /\ prev' = [k \in Links |-> IF k \in made THEN At(Nth(k) - 1) ELSE prev[k]]
      /\ head' = [head EXCEPT ![o] = At(1)] /\ tail' = [tail EXCEPT ![o] = At(m)]
      /\ links' = links \cup made /\ order' = [order EXCEPT ![o] = ks]
  BY DEF ToList
<1>4. ASSUME NEW n \in 1 .. m PROVE Nth(ks[n]) = n /\ ks[n] \in made /\ ks[n] \in Links
  BY <1>2
<1>5. \A k \in Links : (\A n \in 1 .. m : ks[n] # k) => k \notin made
  OBVIOUS
<1>6. /\ \A n : At(n) = IF n \in 1 .. m THEN ks[n] ELSE NoLink
      /\ made = {ks[n] : n \in 1 .. m}
  OBVIOUS
<1> HIDE DEF At, Nth, made
<1>7. ASSUME NEW n \in 1 .. m PROVE next'[ks[n]] = At(n + 1) /\ prev'[ks[n]] = At(n - 1)
  <2>1. next'[ks[n]] = At(Nth(ks[n]) + 1) /\ prev'[ks[n]] = At(Nth(ks[n]) - 1)
    BY <1>3, <1>4
  <2>2. QED
    BY <1>4, <2>1
<1>8. ASSUME NEW k \in Links, \A n \in 1 .. m : ks[n] # k PROVE next'[k] = next[k] /\ prev'[k] = prev[k]
  BY <1>3, <1>5, <1>8
<1>9. QED
  BY <1>3, <1>6, <1>7, <1>8 DEF LinksMade

LEMMA MakeListLinks ==
    ASSUME CollectionsInv, CollectionsInv', LinksInv, NEW a \in Arrays, NEW o \in Objects, MakeList(a, o)
    PROVE  LinksInv'
<1>1. PICK m, ks : m = Size(a) /\ ks \in NewLinks(m) /\ ToList(a, o, ks)
  BY DEF MakeList
<1>2. LinksMade(o, ks, m) /\ m \in Nat
  BY <1>1, LinksMadeFacts, ArraysFacts
<1>3. /\ Idle /\ o \in FreeObjects /\ kind' = [kind EXCEPT ![o] = "list"]
      /\ cursor' = cursor /\ calls' = calls /\ clones' = clones
  BY <1>1 DEF ToList, ArrayMethod
<1>4. /\ \A i \in 1 .. m : ks[i] \in Links /\ ks[i] \notin links
      /\ \A i, j \in 1 .. m : ks[i] = ks[j] => i = j
      /\ ks \in [1 .. m -> Links]
  BY <1>1, <1>2, NewLinksFacts
<1>5. ks \in Seq(Links) /\ Len(ks) = m /\ Distinct(ks) /\ \A j : In(j, ks) => j \in Links /\ j \notin links
  <2>1. ks \in Seq(Links) /\ Len(ks) = m
    BY <1>2, <1>4
  <2>2. QED
    BY <1>4, <2>1 DEF Distinct, In
<1>6. /\ o \in Objects /\ kind[o] = "free" /\ order[o] = << >> /\ o \notin clones
      /\ head \in [Objects -> Link] /\ tail \in [Objects -> Link] /\ kind \in [Objects -> Kinds]
      /\ \A h \in Holders : refers[h] # o
  BY <1>3, FreeObjectLinks
<1>7. /\ order \in [Objects -> Seq(Links)] /\ clones \in SUBSET Objects
      /\ \A l \in Objects : \A k : On(k, l) => k \in Links /\ k \in links
      /\ Spread(order) /\ Housed(order, calls, links)
  BY OrderFacts, HaveLists DEF LinksInv
<1>8. /\ order' = [order EXCEPT ![o] = ks] /\ links' = links \cup {ks[n] : n \in 1 .. m}
      /\ head' = [head EXCEPT ![o] = IF 1 \in 1 .. m THEN ks[1] ELSE NoLink]
      /\ tail' = [tail EXCEPT ![o] = IF m \in 1 .. m THEN ks[m] ELSE NoLink]
      /\ \A n \in 1 .. m : /\ next'[ks[n]] = IF n + 1 \in 1 .. m THEN ks[n + 1] ELSE NoLink
                           /\ prev'[ks[n]] = IF n - 1 \in 1 .. m THEN ks[n - 1] ELSE NoLink
      /\ \A k \in Links : (\A n \in 1 .. m : ks[n] # k) => next'[k] = next[k] /\ prev'[k] = prev[k]
  BY <1>2 DEF LinksMade
<1>9. /\ Spread(order') /\ order' \in [Objects -> Seq(Links)]
      /\ order'[o] = ks /\ \A l \in Objects \ {o} : order'[l] = order[l]
  <2>1. ASSUME NEW k, In(k, ks), NEW l \in Objects \ {o} PROVE ~In(k, order[l])
    BY <1>5, <1>7, <2>1 DEF On
  <2>2. QED
    BY <1>5, <1>6, <1>7, <1>8, <2>1, SpreadOne
<1>10. Pointers(o)'
  <2>1. Chained(ks, next', prev')
    <3>1. ASSUME NEW j \in 1 .. Len(ks) - 1 PROVE next'[ks[j]] = ks[j + 1] /\ prev'[ks[j + 1]] = ks[j]
      <4>1. j \in 1 .. m /\ j + 1 \in 1 .. m /\ (j + 1) - 1 = j
        BY <1>2, <1>5
      <4>2. next'[ks[j]] = ks[j + 1]
        BY <1>8, <4>1
      <4>3. prev'[ks[j + 1]] = ks[(j + 1) - 1]
        BY <1>8, <4>1
      <4>4. QED
        BY <4>1, <4>2, <4>3
    <3>2. QED
      BY <3>1 DEF Chained
  <2>2. ks # << >> => m # 0
    BY <1>5, SeqFacts
  <2>3. Closed(ks, next', prev')
    <3>1. SUFFICES ASSUME m # 0 PROVE prev'[ks[1]] = NoLink /\ next'[ks[m]] = NoLink
      BY <1>5, <2>2 DEF Closed
    <3>2. 1 \in 1 .. m /\ m \in 1 .. m /\ 1 - 1 \notin 1 .. m /\ m + 1 \notin 1 .. m
      BY <1>2, <3>1
    <3>3. QED
      BY <1>8, <3>2
  <2>4. head'[o] = FirstLink(ks) /\ tail'[o] = LastLink(ks)
    <3>1. head'[o] = (IF 1 \in 1 .. m THEN ks[1] ELSE NoLink) /\ tail'[o] = (IF m \in 1 .. m THEN ks[m] ELSE NoLink)
      BY <1>6, <1>8
    <3>2. ks = << >> <=> m = 0
      BY <1>5, SeqFacts
    <3>3. (1 \in 1 .. m <=> m # 0) /\ (m \in 1 .. m <=> m # 0)
      BY <1>2
    <3>4. QED
      BY <1>5, <3>1, <3>2, <3>3 DEF FirstLink, LastLink
  <2>5. o \notin clones' /\ order'[o] = ks
    BY <1>3, <1>6, <1>9
  <2>6. QED
    BY <2>1, <2>3, <2>4, <2>5 DEF Pointers
<1>11. WellLinked(o)'
  BY <1>6, <1>10, RestAgain
<1>12. ASSUME NEW l \in Objects \ {o} PROVE PointersStay(l)
  <2>1. ASSUME NEW k \in Links, On(k, l) PROVE next'[k] = next[k] /\ prev'[k] = prev[k]
    BY <1>4, <1>7, <1>8, <2>1
  <2>2. head'[l] = head[l] /\ tail'[l] = tail[l]
    BY <1>6, <1>8
  <2>3. QED
    BY <1>3, <1>9, <2>1, <2>2 DEF PointersStay
<1>13. LoopsLinked' /\ \A j : ~AtHand(calls', j)
  BY <1>3, NoneAfter DEF Idle
<1>14. Housed(order', calls', links')
  <2>1. \A j \in Links : ~AtHand(calls, j)
    BY <1>3, NoneWalked
  <2>2. \A k : In(k, ks) <=> k \in {ks[n] : n \in 1 .. m}
    BY <1>5 DEF In
  <2>3. ASSUME NEW k \in Links
        PROVE  (\E l \in Objects : In(k, order'[l])) <=> (\E l \in Objects : In(k, order[l])) \/ In(k, ks)
    <3>1. ~In(k, order[o])
      BY <1>6 DEF In
    <3>2. QED
      BY <1>6, <1>9, <3>1
  <2>4. QED
    BY <1>7, <1>8, <1>13, <2>1, <2>2, <2>3 DEF Housed
<1>15. kind'[o] = "list" /\ \A l \in Objects \ {o} : kind'[l] = kind[l]
  BY <1>3, <1>6
<1>16. CursorsLinked'
  <2>1. \A i \in Objects : refers'[i] = refers[i]
    <3>1. ListMade(a, o, ks, m, Elements(a))
      BY <1>1, ToListFacts
    <3>2. \A i \in Objects : i \in Holders /\ i \notin Links
      BY CellFacts, ListsAssumption
    <3>3. \A i \in Objects : i \notin {ks[n] : n \in 1 .. m}
      BY <1>4, <3>2
    <3>4. refers' = [h \in Holders |-> IF h \in {ks[n] : n \in 1 .. m}
                                       THEN Elements(a)[CHOOSE n \in 1 .. m : ks[n] = h] ELSE refers[h]]
      BY <3>1 DEF ListMade
    <3>5. QED
      BY <3>2, <3>3, <3>4
  <2>2. ItersStay
    BY <1>3, <1>15, <2>1 DEF ItersStay
  <2>3. \A l \in Objects : \A k \in Links : On(k, l) => On(k, l)'
    <3>1. \A k : ~In(k, order[o])
      BY <1>6 DEF In
    <3>2. \A l \in Objects : \A k \in Links : In(k, order[l]) => In(k, order'[l])
      BY <1>9, <3>1
    <3>3. QED
      BY <3>2 DEF On
  <2>4. QED
    BY <2>2, <2>3, ItersLinked
<1>17. QED
  <2>1. PICK D : D = {o}
    OBVIOUS
  <2>2. D \in SUBSET Objects /\ \A l \in D : l = o
    BY <1>6, <2>1
  <2>3. \A l \in Objects \ D : l \in Objects \ {o}
    BY <2>1
  <2>4. clones' \in SUBSET Objects /\ o \notin clones'
    BY <1>3, <1>6, <1>7
  <2>5. \A l \in Objects \ D : /\ PointersStay(l) /\ (kind'[l] = "list" <=> kind[l] = "list")
                               /\ (Walked(l) => Walked(l)') /\ (Cloned(l) => Cloned(l)')
    BY <1>3, <1>12, <1>15, <2>3, NoneWalked
  <2>6. QED
    BY <1>9, <1>11, <1>13, <1>14, <1>15, <1>16, <2>2, <2>4, <2>5, ListsChange

-----------------------------------------------------------------------------
(* Loops over cells *)

\* A loop over cells has no link at hand, and what it works for is on no list.
LEMMA CellLoopFacts ==
    ASSUME CollectionsInv, LinksInv, OverCells
    PROVE  /\ ~Idle /\ Top \in Loop /\ Top.for \in Objects /\ Top.link = NoLink
           /\ Top.does \in {"delete", "drop", "clear", "resize", "load"}
           /\ kind[Top.for] \in {"array", "intMap"}
           /\ order[Top.for] = << >> /\ Top.for \notin clones
<1>1. /\ ~Idle /\ Top.does \in {"delete", "drop", "clear", "resize", "load"}
      /\ kind[Top.for] \in {"array", "intMap"}
  BY DEF OverCells
<1>2. Top \in Loop /\ LoopLinked(Top)
  BY <1>1, TopLinks
<1>3. Top.link = NoLink
  BY <1>1, <1>2 DEF LoopLinked, HandLinked, Walkers
<1>4. Top.for \in Objects
  BY <1>2 DEF Loop
<1>5. order[Top.for] = << >> /\ Top.for \notin clones
  BY <1>1, <1>4 DEF LinksInv, OrderTypeOK
<1>6. QED
  BY <1>1, <1>2, <1>3, <1>4, <1>5

LEMMA CellLoopEndsLinks ==
    ASSUME CollectionsInv, CollectionsInv', LinksInv, FreeCells \/ EndResize \/ EndMapLoad
    PROVE  LinksInv'
<1>1. PICK o : o = Top.for
  OBVIOUS
<1>2. /\ OverCells /\ calls' = Rest /\ UNCHANGED shape /\ cursor' = cursor
      /\ \E s : refers' = Filled(refers, o, s)
      /\ kind' = kind \/ \E what \in {"free", "lost"} : kind' = [kind EXCEPT ![o] = what]
  BY <1>1 DEF FreeCells, EndResize, EndMapLoad
<1>3. /\ ~Idle /\ Top.link = NoLink /\ o \in Objects /\ Top.does # "clone"
      /\ kind[o] \in {"array", "intMap"} /\ order[o] = << >> /\ o \notin clones
  BY <1>1, <1>2, CellLoopFacts
<1>4. \A i \in Objects : refers'[i] = refers[i]
  BY <1>2, <1>3, FilledCells
<1>5. \A v \in Vars : refers'[v] = refers[v]
  <2>1. PICK s : refers' = Filled(refers, o, s)
    BY <1>2
  <2>2. ASSUME NEW v \in Vars PROVE v \in Holders /\ v \notin {o} \X (1 .. MaxElements)
    BY <1>3, ListsAssumption DEF Holders
  <2>3. QED
    BY <2>1, <2>2 DEF Filled
<1>6. kind \in [Objects -> Kinds]
  BY InvFacts
<1>7. /\ \A m \in Objects \ {o} : kind'[m] = kind[m]
      /\ kind'[o] # "iter" /\ kind'[o] # "list"
  BY <1>2, <1>3, <1>6
<1>8. /\ links' = links /\ next' = next /\ prev' = prev /\ order' = order
      /\ head' = head /\ tail' = tail /\ clones' = clones \ {o}
  BY <1>2, <1>3, OrdersStay
<1>9. QED
  BY <1>1, <1>2, <1>3, <1>4, <1>5, <1>7, <1>8, WalkEndsLinks

LEMMA ReleaseCellLinks ==
    ASSUME CollectionsInv, CollectionsInv', LinksInv, ReleaseCell
    PROVE  LinksInv'
<1>1. /\ OverCells /\ NotPassed # {} /\ kind' = kind /\ cursor' = cursor /\ UNCHANGED shape
  BY DEF ReleaseCell
<1>2. PICK n \in NotPassed : Release(<<Top.for, n>>, <<[Top EXCEPT !.cell = n + 1]>> \o Rest)
  <2>1. NotPassed \in SUBSET Nat
    BY DEF NotPassed, Used
  <2>2. \E m \in NotPassed : \A k \in NotPassed : m <= k
    BY <1>1, <2>1, LeastOf
  <2>3. QED
    BY <2>2 DEF ReleaseCell
<1>3. /\ ~Idle /\ Top.for \in Objects /\ Top.link = NoLink
      /\ Top.does \in {"delete", "drop", "clear", "resize", "load"}
      /\ kind[Top.for] \in {"array", "intMap"}
      /\ order[Top.for] = << >> /\ Top.for \notin clones
  BY <1>1, CellLoopFacts
<1>4. /\ Top \in Loop /\ Rest \in Seq(Loop) /\ calls = <<Top>> \o Rest /\ LoopLinked(Top)
      /\ \A d \in LoopsOf(Rest) : /\ d \in Loop /\ LoopLinked(d)
                                  /\ d.does \in Walkers \cup {"resize", "remove"}
      /\ Apart(Rest) /\ ApartFrom(Top, Rest) /\ Releasing(Rest)
      /\ \A l : WalkedIn(calls, l) <=> Walks(Top, l) \/ WalkedIn(Rest, l)
      /\ \A l : ClonedIn(calls, l) <=> Top.does = "clone" /\ Top.for = l
      /\ \A l : ~ClonedIn(Rest, l)
      /\ \A k : AtHand(calls, k) <=> Top.link = k \/ AtHand(Rest, k)
  BY <1>3, TopLinks
<1>5. PICK t, c, h, x, rest :
          /\ t = Top /\ c = [t EXCEPT !.cell = n + 1] /\ h = <<Top.for, n>>
          /\ x = refers[h] /\ rest = <<c>> \o Rest
  OBVIOUS
<1>6. n \in 1 .. MaxElements /\ refers[h] # Beyond
  BY <1>5 DEF NotPassed, Used
<1>7. h \in Holders \ Vars /\ h \notin Objects /\ x \in Object
  BY <1>3, <1>5, <1>6, CellFacts, InvFacts
<1>8. refers' = [refers EXCEPT ![h] = NoObject] /\ calls' = AndDelete(x, rest)
  BY <1>2, <1>5 DEF Release
<1>9. /\ \A v \in Vars : refers'[v] = refers[v]
      /\ \A i \in Objects : refers'[i] = refers[i]
  BY <1>7, <1>8, CellFacts, InvFacts
<1>10. SameLists /\ ItersStay
  BY <1>1, <1>9, SameKinds
<1>11. OrdersShrink /\ order' = order /\ \A l \in Objects : \A k \in Links : On(k, l) => On(k, l)'
  BY <1>1, OrdersStay
<1>12. \A d \in LoopsOf(Rest) : LoopLinked(d)'
  BY <1>1, <1>3, <1>9, <1>10, <1>11, RestWaits
<1>13. /\ c \in Loop /\ c.does = t.does /\ c.for = t.for /\ c.cur = t.cur /\ c.link = t.link
       /\ c.arg = t.arg
  <2>1. n + 1 \in Nat
    BY <1>6
  <2>2. QED
    BY <1>4, <1>5, <2>1 DEF Loop
<1>14. LoopLinked(c)
  <2>1. LoopLinked(t)
    BY <1>4, <1>5
  <2>2. QED
    BY <1>13, <2>1 DEF LoopLinked, WalkLinked, HandLinked, EmptiesLinked, SeekLinked, CloneLinked
<1>15. LoopLinked(c)'
  <2>1. WalkStays(c)
    BY <1>1, <1>11 DEF WalkStays
  <2>2. c.does \in Walkers \cup {"resize", "remove"}
    BY <1>3, <1>5, <1>13 DEF Walkers
  <2>3. QED
    BY <1>9, <1>10, <1>11, <1>13, <1>14, <2>1, <2>2, WaitsLinked
<1>16. ApartFrom(c, Rest)
  BY <1>4, <1>5, <1>13 DEF ApartFrom
<1>17. /\ rest \in Seq(Loop)
       /\ \A m : WalkedIn(rest, m) <=> Walks(c, m) \/ WalkedIn(Rest, m)
       /\ \A m : ClonedIn(rest, m) <=> (c.does = "clone" /\ c.for = m) \/ ClonedIn(Rest, m)
       /\ \A j : AtHand(rest, j) <=> c.link = j \/ AtHand(Rest, j)
       /\ Apart(rest)
  <2>1. c \in Loop /\ Rest \in Seq(Loop) /\ Apart(Rest) /\ rest = <<c>> \o Rest
    BY <1>4, <1>5, <1>13
  <2>2. QED
    BY <1>16, <2>1, OnLinkLoops, OnLoops
<1>18. /\ \A d \in LoopsOf(rest) : LoopLinked(d)'
       /\ Releasing(rest)
  <2>1. \A d \in LoopsOf(rest) : d = c \/ d \in LoopsOf(Rest)
    BY <1>4, <1>5, <1>13, LoopsOfPushed
  <2>2. \A d \in LoopsOf(Rest) : d.does \in Walkers \cup {"resize", "remove"}
    BY <1>4
  <2>3. c.does \in Walkers \cup {"resize", "remove"}
    BY <1>3, <1>5, <1>13 DEF Walkers
  <2>4. QED
    BY <1>12, <1>15, <2>1, <2>2, <2>3 DEF LoopsOf, Releasing
<1>19. /\ \A m : WalkedIn(rest, m) <=> WalkedIn(calls, m)
       /\ \A m : ClonedIn(rest, m) <=> ClonedIn(calls, m)
       /\ \A k : AtHand(rest, k) <=> AtHand(calls, k)
  <2>1. \A m : Walks(c, m) <=> Walks(Top, m)
    BY <1>5, <1>13 DEF Walks
  <2>2. c.link = Top.link /\ c.does = Top.does /\ c.for = Top.for
    BY <1>5, <1>13
  <2>3. QED
    BY <1>4, <1>17, <2>1, <2>2
<1>20. x \in Objects /\ refCount[x] = 1 => /\ ~Walked(x) /\ ~WalkedIn(rest, x)
                                           /\ order'[x] = order[x] /\ kind'[x] = kind[x]
  BY <1>1, <1>5, <1>7, <1>11, <1>19, NotWalked, WalkedAndCloned
<1>21. /\ LoopsLinked'
       /\ \A m : WalkedIn(rest, m) => WalkedIn(calls', m)
       /\ \A m : ClonedIn(calls', m) <=> ClonedIn(rest, m)
       /\ \A j \in Links : AtHand(calls', j) <=> AtHand(rest, j)
  BY <1>7, <1>8, <1>17, <1>18, <1>20, AndDeleteLinks
<1>22. SameHands /\ WalksGoOn
  BY <1>19, <1>21 DEF SameHands, WalksGoOn
<1>23. CursorsLinked'
  BY <1>10, <1>11, ItersLinked
<1>24. QED
  BY <1>1, <1>10, <1>21, <1>22, <1>23, ShapeStays

LEMMA CellsGoLinks ==
    ASSUME CollectionsInv, CollectionsInv', LinksInv, CellsGo \/ EndMapLoad
    PROVE  LinksInv'
BY CellLoopEndsLinks, ReleaseCellLinks DEF CellsGo

-----------------------------------------------------------------------------
(* Links that are taken off lists *)

LEMMA WithoutIs ==
    ASSUME NEW s \in Seq(Links), NEW n \in 1 .. Len(s)
    PROVE  Without(s, n) \in Seq(Links) /\ WithoutAt(s, n, Without(s, n))
<1>1. PICK m : m = Len(s) - 1
  OBVIOUS
<1>2. Len(s) \in Nat /\ m \in Nat /\ \A i \in 1 .. m : i \in 1 .. Len(s) /\ i + 1 \in 1 .. Len(s)
  BY <1>1
<1>3. PICK w : w = Without(s, n)
  OBVIOUS
<1>4. w = [i \in 1 .. m |-> IF i < n THEN s[i] ELSE s[i + 1]]
  BY <1>1, <1>3 DEF Without
<1>5. \A i \in 1 .. m : w[i] \in Links
  BY <1>2, <1>4
<1>6. w \in [1 .. m -> Links]
  BY <1>4, <1>5
<1>7. w \in Seq(Links) /\ Len(w) = m
  BY <1>2, <1>6
<1>8. \A i \in 1 .. n - 1 : w[i] = s[i]
  BY <1>1, <1>2, <1>4
<1>9. \A i \in n .. Len(s) - 1 : w[i] = s[i + 1]
  BY <1>1, <1>2, <1>4
<1>10. QED
  BY <1>1, <1>3, <1>7, <1>8, <1>9 DEF WithoutAt

LEMMA TailIs ==
    ASSUME NEW s \in Seq(Links), s # << >>
    PROVE  1 \in 1 .. Len(s) /\ Tail(s) \in Seq(Links) /\ WithoutAt(s, 1, Tail(s))
<1>1. /\ Tail(s) \in Seq(Links) /\ Len(Tail(s)) = Len(s) - 1
      /\ \A i \in 1 .. Len(s) - 1 : Tail(s)[i] = s[i + 1]
  OBVIOUS
<1>2. 1 \in 1 .. Len(s)
  BY SeqFacts
<1>3. \A i \in 1 .. 1 - 1 : FALSE
  OBVIOUS
<1>4. QED
  BY <1>1, <1>2, <1>3 DEF WithoutAt

\* Where a link is in a sequence.
LEMMA PlaceOf ==
    ASSUME NEW s \in Seq(Links), Distinct(s), NEW k, In(k, s)
    PROVE  /\ (CHOOSE j \in DOMAIN s : s[j] = k) \in 1 .. Len(s)
           /\ s[CHOOSE j \in DOMAIN s : s[j] = k] = k
<1>1. DOMAIN s = 1 .. Len(s)
  OBVIOUS
<1>2. \E j \in DOMAIN s : s[j] = k
  BY <1>1 DEF In
<1>3. QED
  BY <1>1, <1>2

\* The pointers go past link k of list l.
GoesPast(l, k) ==
    /\ head' = IF k = head[l] THEN [head EXCEPT ![l] = next[k]] ELSE head
    /\ tail' = IF k = tail[l] THEN [tail EXCEPT ![l] = prev[k]] ELSE tail
    /\ prev' = IF next[k] # NoLink THEN [prev EXCEPT ![next[k]] = prev[k]] ELSE prev
    /\ next' = IF prev[k] # NoLink THEN [next EXCEPT ![prev[k]] = next[k]] ELSE next
    /\ clones' = IF next[k] = NoLink /\ prev[k] = NoLink THEN clones \ {l} ELSE clones

\* What is before and behind the n-th link.
Neighbours(s, n, nx, pv) ==
    /\ nx[s[n]] = IF n = Len(s) THEN NoLink ELSE s[n + 1]
    /\ pv[s[n]] = IF n = 1 THEN NoLink ELSE s[n - 1]

LEMMA NeighboursOf ==
    ASSUME NEW s \in Seq(Links), NEW n \in 1 .. Len(s), NEW nx, NEW pv,
           Chained(s, nx, pv), Closed(s, nx, pv)
    PROVE  Neighbours(s, n, nx, pv)
<1>1. Len(s) \in Nat /\ s # << >>
  BY SeqFacts
<1>2. n # Len(s) => nx[s[n]] = s[n + 1]
  <2>1. n # Len(s) => n \in 1 .. Len(s) - 1
    BY <1>1
  <2>2. QED
    BY <2>1 DEF Chained
<1>3. n # 1 => pv[s[n]] = s[n - 1]
  <2>1. n # 1 => n - 1 \in 1 .. Len(s) - 1 /\ (n - 1) + 1 = n
    BY <1>1
  <2>2. QED
    BY <2>1 DEF Chained
<1>4. n = Len(s) => nx[s[n]] = NoLink
  BY <1>1 DEF Closed
<1>5. n = 1 => pv[s[n]] = NoLink
  BY <1>1 DEF Closed
<1>6. QED
  BY <1>2, <1>3, <1>4, <1>5 DEF Neighbours

LinkedPast(k, nx, pv, ny, pw) ==
    /\ pw = IF nx[k] # NoLink THEN [pv EXCEPT ![nx[k]] = pv[k]] ELSE pv
    /\ ny = IF pv[k] # NoLink THEN [nx EXCEPT ![pv[k]] = nx[k]] ELSE nx

SameOff(s, nx, pv, ny, pw) == \A j \in Links : ~In(j, s) => ny[j] = nx[j] /\ pw[j] = pv[j]

LEMMA SplicesOut ==
    ASSUME NoLink \notin Links, NEW s \in Seq(Links), Distinct(s), NEW n \in 1 .. Len(s), NEW k, k = s[n],
           NEW nx \in [Links -> Link], NEW pv \in [Links -> Link], Neighbours(s, n, nx, pv),
           NEW ny, NEW pw, LinkedPast(k, nx, pv, ny, pw)
    PROVE  Spliced(s, n, nx, pv, ny, pw) /\ SameOff(s, nx, pv, ny, pw)
<1>1. /\ Len(s) \in Nat /\ \A j \in 1 .. Len(s) : s[j] \in Links
      /\ k \in Links
  BY SeqFacts
<1>2. nx[k] # NoLink => n + 1 \in 1 .. Len(s) /\ nx[k] = s[n + 1]
  BY <1>1 DEF Neighbours
<1>3. pv[k] # NoLink => n - 1 \in 1 .. Len(s) /\ pv[k] = s[n - 1]
  BY <1>1 DEF Neighbours
<1>4. /\ n + 1 \in 1 .. Len(s) => nx[k] = s[n + 1] /\ nx[k] # NoLink
      /\ n - 1 \in 1 .. Len(s) => pv[k] = s[n - 1] /\ pv[k] # NoLink
  BY <1>1 DEF Neighbours
<1>5. ASSUME NEW j \in 1 .. Len(s), j # n
      PROVE  /\ ny[s[j]] = IF j = n - 1 THEN nx[k] ELSE nx[s[j]]
             /\ pw[s[j]] = IF j = n + 1 THEN pv[k] ELSE pv[s[j]]
  <2>1. /\ nx[k] # NoLink => (s[j] = nx[k] <=> j = n + 1)
        /\ pv[k] # NoLink => (s[j] = pv[k] <=> j = n - 1)
    BY <1>2, <1>3 DEF Distinct
  <2>2. ny[s[j]] = IF j = n - 1 THEN nx[k] ELSE nx[s[j]]
    BY <1>1, <1>4, <2>1 DEF LinkedPast
  <2>3. pw[s[j]] = IF j = n + 1 THEN pv[k] ELSE pv[s[j]]
    BY <1>1, <1>4, <2>1 DEF LinkedPast
  <2>4. QED
    BY <2>2, <2>3
<1>6. ASSUME NEW j \in Links, ~In(j, s) PROVE ny[j] = nx[j] /\ pw[j] = pv[j]
  BY <1>1, <1>2, <1>3, <1>6 DEF In, LinkedPast
<1>7. QED
  BY <1>5, <1>6 DEF Spliced, SameOff

\* Link k is the n-th of s on list l, which is left with w.
PlaceOn(l, k, s, n, w) ==
    /\ s = order[l] /\ n \in 1 .. Len(s) /\ k = s[n]
    /\ w \in Seq(Links) /\ WithoutAt(s, n, w) /\ order' = [order EXCEPT ![l] = w]
ElsewhereSame(l) ==
    /\ \A j \in Links : ~On(j, l) => next'[j] = next[j] /\ prev'[j] = prev[j]
    /\ \A m \in Objects \ {l} : head'[m] = head[m] /\ tail'[m] = tail[m]

LEMMA PointersWithout ==
    ASSUME CollectionsInv, LinksInv, NEW l \in Objects, kind[l] = "list", AtRest(l),
           NEW k, NEW s, NEW n, NEW w, PlaceOn(l, k, s, n, w), GoesPast(l, k)
    PROVE  /\ Pointers(l)' /\ ElsewhereSame(l)
           /\ clones' \in {clones, clones \ {l}} /\ (l \in clones' => w # << >>)
<1>1. /\ s = order[l] /\ n \in 1 .. Len(s) /\ k = s[n]
      /\ w \in Seq(Links) /\ WithoutAt(s, n, w) /\ order' = [order EXCEPT ![l] = w]
  BY DEF PlaceOn
<1>2. s \in Seq(Links) /\ Distinct(s) /\ order \in [Objects -> Seq(Links)] /\ NoLink \notin Links
  BY <1>1, OrderFacts, InvFacts
<1>3. /\ Chained(s, next, prev) /\ Closed(s, next, prev) /\ head[l] = FirstLink(s)
      /\ tail[l] = IF l \in clones THEN NoLink ELSE LastLink(s)
  BY <1>1, RestFacts DEF Pointers
<1>4. /\ next \in [Links -> Link] /\ prev \in [Links -> Link]
      /\ head \in [Objects -> Link] /\ tail \in [Objects -> Link]
  BY InvFacts DEF PointersTypeOK
<1>5. Neighbours(s, n, next, prev)
  BY <1>1, <1>2, <1>3, NeighboursOf
<1>6. Spliced(s, n, next, prev, next', prev') /\ SameOff(s, next, prev, next', prev')
  <2>1. LinkedPast(k, next, prev, next', prev')
    BY DEF GoesPast, LinkedPast
  <2>2. QED
    BY <1>1, <1>2, <1>4, <1>5, <2>1, SplicesOut
<1>7. Chained(w, next', prev') /\ Closed(w, next', prev') /\ EndsWithout(s, n, next, prev, w)
  BY <1>1, <1>2, <1>3, <1>6, ChainWithout
<1>8. /\ Len(s) \in Nat /\ s # << >> /\ FirstLink(s) = s[1] /\ LastLink(s) = s[Len(s)]
      /\ 1 \in 1 .. Len(s) /\ Len(s) \in 1 .. Len(s) /\ k \in Links
  BY <1>1, <1>2, SeqFacts
<1>9. (k = s[1] <=> n = 1) /\ (k = s[Len(s)] <=> n = Len(s))
  BY <1>1, <1>2, <1>8 DEF Distinct
<1>10. (next[k] = NoLink <=> n = Len(s)) /\ (prev[k] = NoLink <=> n = 1)
  <2>1. n # Len(s) => n + 1 \in 1 .. Len(s)
    BY <1>1, <1>8
  <2>2. n # 1 => n - 1 \in 1 .. Len(s)
    BY <1>1, <1>8
  <2>3. \A j \in 1 .. Len(s) : s[j] # NoLink
    BY <1>2, SeqFacts
  <2>4. QED
    BY <1>1, <1>5, <2>1, <2>2, <2>3 DEF Neighbours
<1>11. w = << >> <=> n = 1 /\ n = Len(s)
  <2>1. Len(w) = Len(s) - 1 /\ (w = << >> <=> Len(w) = 0)
    BY <1>1, SeqFacts DEF WithoutAt
  <2>2. QED
    BY <1>1, <1>8, <1>9, <2>1
<1>12. head'[l] = FirstLink(w) /\ \A m \in Objects \ {l} : head'[m] = head[m]
  <2>1. head' = IF k = head[l] THEN [head EXCEPT ![l] = next[k]] ELSE head
    BY DEF GoesPast
  <2>2. FirstLink(w) = IF n = 1 THEN next[k] ELSE FirstLink(s)
    BY <1>1, <1>7 DEF EndsWithout
  <2>3. QED
    BY <1>3, <1>4, <1>8, <1>9, <2>1, <2>2
<1>13. /\ clones' \in {clones, clones \ {l}} /\ (l \in clones' => w # << >>)
       /\ l \in clones' <=> l \in clones /\ w # << >>
  BY <1>10, <1>11 DEF GoesPast
<1>14. /\ tail'[l] = IF l \in clones' THEN NoLink ELSE LastLink(w)
       /\ \A m \in Objects \ {l} : tail'[m] = tail[m]
  <2>1. tail' = IF k = tail[l] THEN [tail EXCEPT ![l] = prev[k]] ELSE tail
    BY DEF GoesPast
  <2>2. LastLink(w) = IF n = Len(s) THEN prev[k] ELSE LastLink(s)
    BY <1>1, <1>7 DEF EndsWithout
  <2>3. CASE l \notin clones
    BY <1>3, <1>4, <1>8, <1>9, <1>13, <2>1, <2>2, <2>3
  <2>4. CASE l \in clones
    <3>1. tail' = tail /\ tail[l] = NoLink
      BY <1>2, <1>3, <1>8, <2>1, <2>4
    <3>2. w = << >> => LastLink(w) = NoLink
      BY DEF LastLink
    <3>3. QED
      BY <1>13, <2>4, <3>1, <3>2
  <2>5. QED
    BY <2>3, <2>4
<1>15. order'[l] = w
  BY <1>1, <1>2
<1>16. Pointers(l)'
  BY <1>7, <1>12, <1>14, <1>15 DEF Pointers
<1>17. ElsewhereSame(l)
  BY <1>1, <1>6, <1>12, <1>14 DEF ElsewhereSame, SameOff, On
<1>18. QED
  BY <1>13, <1>16, <1>17

\* Link k is not the only one that refers to l.
HeldToo(l, k) == \E g \in Holders : g # k /\ refers[g] = l

\* The loop that frees link k, behind the deletion of what k referred to.
Removal(l, k) == <<Calls("remove", l, NoLink, k, NoObject)>>

LEMMA RemovalLinks ==
    ASSUME CollectionsInv, CollectionsInv', LinksInv, NEW k \in Links, NEW l \in Objects,
           Loose(k)', kind' = kind, \A m \in Objects \ {l} : order'[m] = order[m],
           \A m : ~Walked(m), HeldToo(l, k), NEW x \in {refers[k], NoObject},
           NEW rest, rest = Removal(l, k), calls' = AndDelete(x, rest)
    PROVE  LoopsLinked' /\ \A j \in Links : AtHand(calls', j) <=> j = k
<1>1. k \in Holders /\ k \in Link /\ NoLink \in Link /\ NoObject \in Object /\ k # NoLink
      /\ refers[k] \in Object
  BY InvFacts, CellFacts, ListsAssumption DEF Link
<1>2. PICK c : c = Calls("remove", l, NoLink, k, NoObject)
  OBVIOUS
<1>3. c \in Loop /\ c.does = "remove" /\ c.link = k
  BY <1>1, <1>2 DEF Calls, Loop
<1>4. rest = <<c>> /\ rest \in Seq(Loop) /\ LoopsOf(rest) = {c}
  BY <1>2, <1>3, OneLoop DEF Removal
<1>5. /\ \A j : AtHand(rest, j) <=> c.link = j
      /\ \A m : WalkedIn(rest, m) <=> Walks(c, m)
      /\ Apart(rest)
  BY <1>3, <1>4, FewLinkLoops
<1>6. Releasing(rest)
  <2>1. Len(rest) = 1 /\ rest[1] = c
    BY <1>3, <1>4, OneLoop
  <2>2. QED
    BY <1>3, <2>1 DEF Releasing
<1>7. LoopLinked(c)'
  <2>1. \A m \in Objects : ~On(c.link, m)'
    BY <1>3 DEF Loose
  <2>2. QED
    BY <1>3, <2>1 DEF LoopLinked, WalkLinked, HandLinked, EmptiesLinked, SeekLinked, CloneLinked, Walkers
<1>8. x \in Object
  BY <1>1
<1>9. x \in Objects /\ refCount[x] = 1 => /\ ~Walked(x) /\ ~WalkedIn(rest, x)
                                          /\ order'[x] = order[x] /\ kind'[x] = kind[x]
  <2>1. SUFFICES ASSUME x \in Objects, refCount[x] = 1 PROVE x # l
    BY <1>3, <1>5 DEF Walks
  <2>2. x = refers[k]
    BY <2>1, InvFacts
  <2>3. PICK g \in Holders : g # k /\ refers[g] = l
    BY DEF HeldToo
  <2>4. QED
    BY <1>1, <2>1, <2>2, <2>3, TwoHolders, InvFacts
<1>10. \A d \in LoopsOf(rest) : LoopLinked(d)'
  BY <1>4, <1>7
<1>11. LoopsLinked' /\ \A j \in Links : AtHand(calls', j) <=> AtHand(rest, j)
  BY <1>4, <1>5, <1>6, <1>8, <1>9, <1>10, AndDeleteLinks
<1>12. QED
  BY <1>3, <1>5, <1>11

\* No iterator is left at link k.
CursorsPast(k) ==
    \A i \in Objects : kind[i] = "iter" /\ refers[i] # NoObject /\ cursor'[i] # NoLink =>
        In(cursor'[i], order[refers[i]]) /\ cursor'[i] # k

\* The pointers go past link k, which is at hand afterwards.
Taking(l, k) ==
    /\ GoesPast(l, k) /\ kind' = kind /\ links' = links
    /\ refers' = [refers EXCEPT ![k] = NoObject]
    /\ \E x \in {refers[k], NoObject} : calls' = AndDelete(x, Removal(l, k))
NothingWalks ==
    (\A m : ~Walked(m) /\ ~Cloned(m)) /\ \A j \in Links : ~AtHand(calls, j)

LEMMA LinkTaken ==
    ASSUME CollectionsInv, CollectionsInv', LinksInv, NothingWalks,
           NEW l \in Objects, kind[l] = "list", NEW k, NEW s, NEW n, NEW w, PlaceOn(l, k, s, n, w),
           Taking(l, k), HeldToo(l, k), CursorsPast(k)
    PROVE  LinksInv'
<1>1. /\ s = order[l] /\ n \in 1 .. Len(s) /\ k = s[n]
      /\ w \in Seq(Links) /\ WithoutAt(s, n, w) /\ order' = [order EXCEPT ![l] = w]
  BY DEF PlaceOn
<1>2. /\ GoesPast(l, k) /\ kind' = kind /\ links' = links
      /\ refers' = [refers EXCEPT ![k] = NoObject]
  BY DEF Taking
<1>3. /\ s \in Seq(Links) /\ Distinct(s) /\ order \in [Objects -> Seq(Links)] /\ NoLink \notin Links
      /\ clones \in SUBSET Objects /\ \A p, m \in Objects : \A j : On(j, p) /\ On(j, m) => p = m
  BY <1>1, OrderFacts, InvFacts
<1>4. AtRest(l)
  BY DEF NothingWalks, AtRest
<1>5. /\ Pointers(l)' /\ ElsewhereSame(l)
      /\ clones' \in {clones, clones \ {l}} /\ (l \in clones' => w # << >>)
  BY <1>2, <1>4, PointersWithout
<1>6. k \in Links /\ In(k, s)
  BY <1>1, <1>3, SeqFacts DEF In
<1>7. Distinct(w) /\ \A j : In(j, w) <=> In(j, s) /\ j # k
  BY <1>1, <1>3, LeftWithout
<1>8. \A j, m : On(j, m) <=> In(j, order[m])
  BY DEF On
<1>9. \A j, m : On(j, m)' <=> In(j, order'[m])
  BY DEF On
<1>10. /\ Spread(order') /\ order' \in [Objects -> Seq(Links)]
       /\ order'[l] = w /\ \A m \in Objects \ {l} : order'[m] = order[m]
  <2>1. Spread(order)
    BY HaveLists DEF LinksInv
  <2>2. ASSUME NEW j, In(j, w), NEW m \in Objects \ {l} PROVE ~In(j, order[m])
    BY <1>1, <1>3, <1>7, <1>8, <2>2
  <2>3. QED
    BY <1>1, <1>3, <1>7, <2>1, <2>2, SpreadOne
<1>11. Loose(k)'
  <2>1. ASSUME NEW m \in Objects PROVE ~In(k, order'[m])
    BY <1>1, <1>3, <1>6, <1>7, <1>8, <1>10
  <2>2. QED
    BY <1>9, <2>1 DEF Loose
<1>12. LoopsLinked' /\ \A j \in Links : AtHand(calls', j) <=> j = k
  <2>1. PICK x \in {refers[k], NoObject} : calls' = AndDelete(x, Removal(l, k))
    BY DEF Taking
  <2>2. \A m : ~Walked(m)
    BY DEF NothingWalks
  <2>3. PICK rest : rest = Removal(l, k)
    OBVIOUS
  <2>4. QED
    BY <1>2, <1>6, <1>10, <1>11, <2>1, <2>2, <2>3, RemovalLinks
<1>13. Housed(order', calls', links')
  <2>1. Housed(order, calls, links)
    BY HaveLists DEF LinksInv
  <2>2. ASSUME NEW j \in Links
        PROVE  (\E m \in Objects : In(j, order[m])) <=> (\E m \in Objects : In(j, order'[m])) \/ j = k
    BY <1>1, <1>6, <1>7, <1>10
  <2>3. \A j \in Links : ~AtHand(calls, j)
    BY DEF NothingWalks
  <2>4. QED
    BY <1>2, <1>12, <2>1, <2>2, <2>3 DEF Housed
<1>14. RefersStay
  BY <1>2, <1>6, LinkHeld
<1>15. CursorsLinked'
  <2>1. ASSUME NEW i \in Objects, kind'[i] = "iter", refers'[i] # NoObject, cursor'[i] # NoLink
        PROVE  In(cursor'[i], order'[refers'[i]])
    <3>1. kind[i] = "iter" /\ refers'[i] = refers[i] /\ refers[i] \in Objects
      BY <1>2, <1>14, <2>1, ParentHeld DEF RefersStay
    <3>2. In(cursor'[i], order[refers[i]]) /\ cursor'[i] # k
      BY <2>1, <3>1 DEF CursorsPast
    <3>3. QED
      BY <1>1, <1>7, <1>10, <3>1, <3>2
  <2>2. QED
    BY <2>1 DEF CursorsLinked, On
<1>16. ASSUME NEW m \in Objects \ {l} PROVE PointersStay(m)
  <2>1. \A j : On(j, m) => ~On(j, l)
    BY <1>3
  <2>2. m \in clones' <=> m \in clones
    BY <1>5
  <2>3. QED
    BY <1>5, <1>10, <2>1, <2>2 DEF PointersStay, ElsewhereSame
<1>17. WellLinked(l)'
  BY <1>5, RestAgain
<1>18. QED
  <2>1. PICK D : D = {l}
    OBVIOUS
  <2>2. D \in SUBSET Objects /\ \A m \in D : m = l
    BY <2>1
  <2>3. \A m \in Objects \ D : m \in Objects \ {l}
    BY <2>1
  <2>4. clones' \in SUBSET Objects /\ kind'[l] = "list"
    BY <1>2, <1>3, <1>5
  <2>5. \A m \in Objects \ D : /\ PointersStay(m) /\ (kind'[m] = "list" <=> kind[m] = "list")
                               /\ (Walked(m) => Walked(m)') /\ (Cloned(m) => Cloned(m)')
    BY <1>2, <1>16, <2>3 DEF NothingWalks
  <2>6. l \in clones' => order'[l] # << >>
    BY <1>5, <1>10
  <2>7. QED
    BY <1>10, <1>12, <1>13, <1>15, <1>17, <2>2, <2>4, <2>5, <2>6, ListsChange

LEMMA TakingIs ==
    ASSUME NEW l, NEW k, GoesPast(l, k), ReleaseAndFree(l, k) \/ UnrefAndFree(l, k)
    PROVE  Taking(l, k)
<1>1. kind' = kind /\ links' = links /\ refers' = [refers EXCEPT ![k] = NoObject]
  BY DEF ReleaseAndFree, UnrefAndFree, Release
<1>2. CASE ReleaseAndFree(l, k)
  <2>1. calls' = AndDelete(refers[k], Removal(l, k))
    BY <1>2 DEF ReleaseAndFree, Release, Removal
  <2>2. QED
    BY <1>1, <2>1 DEF Taking
<1>3. CASE UnrefAndFree(l, k)
  <2>1. calls' = AndDelete(NoObject, Removal(l, k))
    BY <1>3 DEF UnrefAndFree, AndDelete, Removal
  <2>2. QED
    BY <1>1, <2>1 DEF Taking
<1>4. QED
  BY <1>2, <1>3

HasPlace(l, k) == \E s, n, w : PlaceOn(l, k, s, n, w)

\* remove and unref in the middle of a list.
LEMMA UnlinkPlace ==
    ASSUME LinksInv, NEW l \in Objects, NEW k, On(k, l), Unlink(l, k)
    PROVE  GoesPast(l, k) /\ HasPlace(l, k)
<1>1. GoesPast(l, k)
  BY DEF Unlink, GoesPast
<1>2. PICK s : s = order[l]
  OBVIOUS
<1>3. s \in Seq(Links) /\ Distinct(s) /\ In(k, s)
  BY <1>2, OrderFacts DEF On
<1>4. PICK n : n = CHOOSE j \in DOMAIN s : s[j] = k
  OBVIOUS
<1>5. n \in 1 .. Len(s) /\ s[n] = k
  BY <1>3, <1>4, PlaceOf
<1>6. PICK w : w = Without(s, n)
  OBVIOUS
<1>7. w \in Seq(Links) /\ WithoutAt(s, n, w)
  BY <1>3, <1>5, <1>6, WithoutIs
<1>8. order' = [order EXCEPT ![l] = w]
  BY <1>2, <1>4, <1>6 DEF Unlink, Taken
<1>9. PlaceOn(l, k, s, n, w)
  BY <1>2, <1>5, <1>7, <1>8 DEF PlaceOn
<1>10. QED
  BY <1>1, <1>9 DEF HasPlace

\* The ends of a list of links.
LEMMA EndNeighbours ==
    ASSUME NEW s \in Seq(Links), s # << >>, Distinct(s), NoLink \notin Links, NEW nx, NEW pv,
           Chained(s, nx, pv), Closed(s, nx, pv)
    PROVE  /\ pv[FirstLink(s)] = NoLink /\ nx[LastLink(s)] = NoLink
           /\ nx[FirstLink(s)] = NoLink <=> FirstLink(s) = LastLink(s)
           /\ pv[LastLink(s)] = NoLink <=> FirstLink(s) = LastLink(s)
<1>1. /\ Len(s) \in Nat /\ 1 \in 1 .. Len(s) /\ Len(s) \in 1 .. Len(s)
      /\ FirstLink(s) = s[1] /\ LastLink(s) = s[Len(s)] /\ \A j \in 1 .. Len(s) : s[j] \in Links
  BY SeqFacts
<1>2. Neighbours(s, 1, nx, pv) /\ Neighbours(s, Len(s), nx, pv)
  BY <1>1, NeighboursOf
<1>3. FirstLink(s) = LastLink(s) <=> Len(s) = 1
  BY <1>1 DEF Distinct
<1>4. Len(s) # 1 => 1 + 1 \in 1 .. Len(s) /\ Len(s) - 1 \in 1 .. Len(s)
  BY <1>1
<1>5. nx[s[1]] = IF Len(s) = 1 THEN NoLink ELSE s[1 + 1]
  BY <1>2 DEF Neighbours
<1>6. pv[s[Len(s)]] = IF Len(s) = 1 THEN NoLink ELSE s[Len(s) - 1]
  BY <1>2 DEF Neighbours
<1>7. pv[s[1]] = NoLink /\ nx[s[Len(s)]] = NoLink
  BY <1>1, <1>2 DEF Neighbours
<1>8. QED
  BY <1>1, <1>3, <1>4, <1>5, <1>6, <1>7

LEMMA HeadPlace ==
    ASSUME CollectionsInv, LinksInv, NEW l, HasHead(l), NEW k, k = head[l], UnlinkHead(l)
    PROVE  GoesPast(l, k) /\ HasPlace(l, k) /\ On(k, l)
<1>1. PICK s : s = order[l]
  OBVIOUS
<1>2. /\ Method(l) /\ k # NoLink /\ (l \in clones => next[k] # NoLink)
  BY DEF HasHead
<1>3. /\ l \in Objects /\ s \in Seq(Links) /\ Distinct(s) /\ \A j : On(j, l) <=> In(j, s)
      /\ Chained(s, next, prev) /\ Closed(s, next, prev) /\ k = FirstLink(s)
      /\ tail[l] = IF l \in clones THEN NoLink ELSE LastLink(s)
      /\ NoLink \notin Links
  BY <1>1, <1>2, MethodFacts, InvFacts
<1>4. s # << >> /\ k = s[1] /\ In(k, s) /\ LastLink(s) # NoLink
  BY <1>2, <1>3, SeqFacts DEF FirstLink
<1>5. prev[k] = NoLink /\ (next[k] = NoLink <=> k = LastLink(s))
  BY <1>3, <1>4, EndNeighbours
<1>6. tail[l] = k <=> next[k] = NoLink
  BY <1>2, <1>3, <1>4, <1>5
<1>7. next[k] = NoLink => l \notin clones
  BY <1>2
<1>8. GoesPast(l, k)
  BY <1>5, <1>6, <1>7 DEF GoesPast, UnlinkHead
<1>9. PICK w : w = Tail(s)
  OBVIOUS
<1>10. 1 \in 1 .. Len(s) /\ w \in Seq(Links) /\ WithoutAt(s, 1, w)
  BY <1>3, <1>4, <1>9, TailIs
<1>11. order' = [order EXCEPT ![l] = w]
  BY <1>1, <1>9 DEF UnlinkHead
<1>12. PlaceOn(l, k, s, 1, w)
  BY <1>1, <1>4, <1>10, <1>11 DEF PlaceOn
<1>13. QED
  BY <1>3, <1>4, <1>8, <1>12 DEF HasPlace

LEMMA TailPlace ==
    ASSUME CollectionsInv, LinksInv, NEW l, HasTail(l), NEW k, k = tail[l], UnlinkTail(l)
    PROVE  GoesPast(l, k) /\ HasPlace(l, k) /\ On(k, l)
<1>1. PICK s : s = order[l]
  OBVIOUS
<1>2. Method(l) /\ k # NoLink
  BY DEF HasTail
<1>3. /\ l \in Objects /\ s \in Seq(Links) /\ Distinct(s) /\ \A j : On(j, l) <=> In(j, s)
      /\ Chained(s, next, prev) /\ Closed(s, next, prev) /\ head[l] = FirstLink(s)
      /\ k = LastLink(s) /\ l \notin clones /\ NoLink \notin Links
  BY <1>1, <1>2, MethodFacts, InvFacts
<1>4. s # << >> /\ k = s[Len(s)] /\ In(k, s) /\ Len(s) \in 1 .. Len(s)
  BY <1>2, <1>3, SeqFacts DEF LastLink
<1>5. next[k] = NoLink /\ (prev[k] = NoLink <=> head[l] = k)
  BY <1>3, <1>4, EndNeighbours
<1>6. GoesPast(l, k)
  BY <1>3, <1>5 DEF GoesPast, UnlinkTail
<1>7. PICK n, w : n = Len(s) /\ w = Without(s, n)
  OBVIOUS
<1>8. n \in 1 .. Len(s) /\ w \in Seq(Links) /\ WithoutAt(s, n, w)
  BY <1>3, <1>4, <1>7, WithoutIs
<1>9. order' = [order EXCEPT ![l] = w]
  BY <1>1, <1>7 DEF UnlinkTail
<1>10. PlaceOn(l, k, s, n, w)
  BY <1>1, <1>4, <1>7, <1>8, <1>9 DEF PlaceOn
<1>11. QED
  BY <1>3, <1>4, <1>6, <1>10 DEF HasPlace

LEMMA EndTakenLinks ==
    ASSUME CollectionsInv, CollectionsInv', LinksInv, NEW l \in Lists,
           RemoveHead(l) \/ RemoveTail(l) \/ UnrefHead(l) \/ UnrefTail(l)
    PROVE  LinksInv'
<1>1. PICK k : /\ \/ HasHead(l) /\ k = head[l] /\ UnlinkHead(l)
                  \/ HasTail(l) /\ k = tail[l] /\ UnlinkTail(l)
               /\ ReleaseAndFree(l, k) \/ UnrefAndFree(l, k)
               /\ cursor' = cursor
  BY DEF RemoveHead, RemoveTail, UnrefHead, UnrefTail
<1>2. GoesPast(l, k) /\ HasPlace(l, k) /\ On(k, l)
  BY <1>1, HeadPlace, TailPlace
<1>3. Idle /\ Unseen(k, {})
  BY <1>1 DEF HasHead, HasTail, Method
<1>4. /\ l \in Objects /\ kind[l] = "list" /\ \E v \in Vars : refers[v] = l
      /\ k \in Links
  BY <1>2, ListsFacts, OrderFacts DEF Lists
<1>5. HeldToo(l, k)
  BY <1>4, CellFacts, ListsAssumption DEF HeldToo
<1>6. NothingWalks
  BY <1>3, NoneWalked DEF NothingWalks
<1>7. CursorsPast(k)
  <2>1. ASSUME NEW i \in Objects, kind[i] = "iter", refers[i] # NoObject, cursor[i] # NoLink
        PROVE  In(cursor[i], order[refers[i]]) /\ cursor[i] # k
    <3>1. On(cursor[i], refers[i])
      BY <2>1 DEF LinksInv, CursorsLinked
    <3>2. QED
      BY <1>3, <2>1, <3>1 DEF On, Unseen
  <2>2. QED
    BY <1>1, <2>1 DEF CursorsPast
<1>8. Taking(l, k)
  BY <1>1, <1>2, TakingIs
<1>9. PICK s, n, w : PlaceOn(l, k, s, n, w)
  BY <1>2 DEF HasPlace
<1>10. QED
  BY <1>4, <1>5, <1>6, <1>7, <1>8, <1>9, LinkTaken

LEMMA IterTakenLinks ==
    ASSUME CollectionsInv, CollectionsInv', LinksInv, NEW i \in Iters, IterRemove(i) \/ IterUnref(i)
    PROVE  LinksInv'
<1>1. PICK k, l : k = cursor[i] /\ l = refers[i]
  OBVIOUS
<1>2. /\ Idle /\ k # NoLink /\ Unseen(k, {i}) /\ Unlink(l, k)
      /\ ReleaseAndFree(l, k) \/ UnrefAndFree(l, k)
      /\ cursor' = [cursor EXCEPT ![i] = next[k]]
  BY <1>1 DEF IterRemove, IterUnref, IterAt, IterMethod
<1>3. /\ i \in Objects /\ l \in Objects /\ kind[l] = "list" /\ On(k, l)
      /\ next[k] # NoLink => On(next[k], l)
  BY <1>1, <1>2, IterStands
<1>4. GoesPast(l, k) /\ HasPlace(l, k)
  BY <1>2, <1>3, UnlinkPlace
<1>5. k \in Links /\ order[l] \in Seq(Links) /\ Distinct(order[l])
  BY <1>3, OrderFacts
<1>6. HeldToo(l, k)
  BY <1>1, <1>3, <1>5, CellFacts, ListsAssumption DEF HeldToo
<1>7. NothingWalks /\ AtRest(l)
  BY <1>2, NoneWalked DEF NothingWalks
<1>8. next[k] # k
  <2>1. Chained(order[l], next, prev) /\ Closed(order[l], next, prev)
    BY <1>3, <1>7, RestFacts DEF Pointers
  <2>2. PICK n \in 1 .. Len(order[l]) : order[l][n] = k
    BY <1>3 DEF On, In
  <2>3. next[k] = IF n = Len(order[l]) THEN NoLink ELSE order[l][n + 1]
    BY <1>5, <2>1, <2>2, NeighboursOf DEF Neighbours
  <2>4. n # Len(order[l]) => n + 1 \in 1 .. Len(order[l]) /\ n + 1 # n
    BY <1>5
  <2>5. QED
    BY <1>2, <1>5, <2>2, <2>3, <2>4 DEF Distinct
<1>9. CursorsPast(k)
  <2>1. ASSUME NEW j \in Objects, kind[j] = "iter", refers[j] # NoObject, cursor'[j] # NoLink
        PROVE  In(cursor'[j], order[refers[j]]) /\ cursor'[j] # k
    <3>1. cursor \in [Objects -> Link \cup Nat]
      BY InvFacts DEF PointersTypeOK
    <3>2. CASE j = i
      <4>1. cursor'[j] = next[k] /\ refers[j] = l
        BY <1>1, <1>2, <1>3, <3>1, <3>2
      <4>2. QED
        BY <1>3, <1>8, <2>1, <4>1 DEF On
    <3>3. CASE j # i
      <4>1. cursor'[j] = cursor[j]
        BY <1>2, <3>1, <3>3
      <4>2. On(cursor[j], refers[j])
        BY <2>1, <4>1 DEF LinksInv, CursorsLinked
      <4>3. cursor[j] # k
        BY <1>2, <2>1, <3>3 DEF Unseen
      <4>4. QED
        BY <4>1, <4>2, <4>3 DEF On
    <3>4. QED
      BY <3>2, <3>3
  <2>2. QED
    BY <2>1 DEF CursorsPast
<1>10. Taking(l, k)
  BY <1>2, <1>4, TakingIs
<1>11. PICK s, n, w : PlaceOn(l, k, s, n, w)
  BY <1>4 DEF HasPlace
<1>12. QED
  BY <1>3, <1>6, <1>7, <1>9, <1>10, <1>11, LinkTaken

LEMMA FoundToRemoveLinks ==
    ASSUME CollectionsInv, CollectionsInv', LinksInv, FoundToRemove
    PROVE  LinksInv'
<1>1. PICK t, k, l : t = Top /\ k = t.cur /\ l = t.for
  OBVIOUS
<1>2. /\ Seeks /\ t.does = "seek remove" /\ k # NoLink /\ refers[k] = t.arg
      /\ Unlink(l, k) /\ ReleaseAndFree(l, k) /\ cursor' = cursor
  BY <1>1 DEF FoundToRemove, Found
<1>3. /\ LoopLinked(t) /\ SeekLinked(t) /\ l \in Objects
      /\ \A m : ~Walked(m) /\ ~Cloned(m) /\ AtRest(m)
      /\ \A j : j # NoLink => ~AtHand(calls, j)
  BY <1>1, <1>2, SeekFacts DEF AtRest
<1>4. /\ kind[l] = "list" /\ On(k, l)
      /\ \A i \in ItersOf(l) : cursor[i] # NoLink => refers[cursor[i]] # t.arg
  BY <1>1, <1>2, <1>3 DEF SeekLinked
<1>5. GoesPast(l, k) /\ HasPlace(l, k)
  BY <1>2, <1>3, <1>4, UnlinkPlace
<1>6. k \in Links /\ NoLink \notin Links /\ \A p, m \in Objects : \A j : On(j, p) /\ On(j, m) => p = m
  BY <1>3, <1>4, OrderFacts, InvFacts
<1>7. InVar(l)
  BY <1>1, <1>2, <1>3 DEF LoopLinked, EmptiesLinked
<1>8. HeldToo(l, k)
  BY <1>6, <1>7, CellFacts, ListsAssumption DEF HeldToo, InVar
<1>9. NothingWalks
  BY <1>3, <1>6 DEF NothingWalks
<1>10. CursorsPast(k)
  <2>1. ASSUME NEW i \in Objects, kind[i] = "iter", refers[i] # NoObject, cursor[i] # NoLink
        PROVE  On(cursor[i], refers[i]) /\ cursor[i] # k
    <3>1. On(cursor[i], refers[i]) /\ refers[i] \in Objects
      BY <2>1, ParentHeld DEF LinksInv, CursorsLinked
    <3>2. CASE refers[i] = l
      BY <1>2, <1>4, <2>1, <3>1, <3>2 DEF ItersOf
    <3>3. CASE refers[i] # l
      BY <1>3, <1>4, <1>6, <3>1, <3>3
    <3>4. QED
      BY <3>1, <3>2, <3>3
  <2>2. QED
    BY <1>2, <2>1 DEF CursorsPast, On
<1>11. Taking(l, k)
  BY <1>2, <1>5, TakingIs
<1>12. PICK s, n, w : PlaceOn(l, k, s, n, w)
  BY <1>5 DEF HasPlace
<1>13. QED
  BY <1>3, <1>4, <1>8, <1>9, <1>10, <1>11, <1>12, LinkTaken

-----------------------------------------------------------------------------
(* A list that is split *)

\* What list l has goes to list o.
LEMMA SplitAtHeadLinks ==
    ASSUME CollectionsInv, CollectionsInv', LinksInv, NEW i \in Iters, NEW o \in Objects,
           Split(i, o), cursor[i] # NoLink
    PROVE  LinksInv'
<1>1. PICK l, s : l = refers[i] /\ s = order[l]
  OBVIOUS
<1>2. /\ Idle /\ o \in FreeObjects /\ NoneSeen(l, {i})
      /\ kind' = [kind EXCEPT ![o] = "list"]
      /\ head' = [head EXCEPT ![o] = head[l], ![l] = NoLink]
      /\ tail' = [tail EXCEPT ![o] = tail[l], ![l] = NoLink]
      /\ order' = [order EXCEPT ![o] = s, ![l] = << >>]
      /\ clones' = IF l \in clones THEN (clones \ {l}) \cup {o} ELSE clones
      /\ cursor' = [cursor EXCEPT ![i] = NoLink]
      /\ refers' = refers /\ links' = links /\ next' = next /\ prev' = prev /\ calls' = << >>
  BY <1>1 DEF Split, IterMethod, Idle
<1>3. /\ i \in Objects /\ l \in Objects /\ kind[l] = "list" /\ AtRest(l)
  BY <1>1, <1>2, IterStands
<1>4. /\ kind[o] = "free" /\ order[o] = << >> /\ o \notin clones /\ o # l
      /\ \A h \in Holders : refers[h] # o
      /\ head \in [Objects -> Link] /\ tail \in [Objects -> Link] /\ kind \in [Objects -> Kinds]
      /\ cursor \in [Objects -> Link \cup Nat]
  BY <1>2, <1>3, FreeObjectLinks, InvFacts DEF PointersTypeOK
<1>5. /\ order \in [Objects -> Seq(Links)] /\ clones \in SUBSET Objects
      /\ s \in Seq(Links) /\ Distinct(s)
  BY <1>1, <1>3, OrderFacts
<1>6. /\ Chained(s, next, prev) /\ Closed(s, next, prev) /\ head[l] = FirstLink(s)
      /\ tail[l] = IF l \in clones THEN NoLink ELSE LastLink(s)
      /\ l \in clones => s # << >>
  BY <1>1, <1>3, RestFacts DEF Pointers
<1>7. /\ LoopsLinked' /\ (\A j : ~AtHand(calls', j)) /\ \A m : ~Walked(m)' /\ ~Cloned(m)'
  BY <1>2, NoneAfter
<1>8. /\ order'[o] = s /\ order'[l] = << >>
      /\ head'[o] = head[l] /\ head'[l] = NoLink /\ tail'[o] = tail[l] /\ tail'[l] = NoLink
      /\ kind'[o] = "list" /\ kind'[l] = "list"
      /\ \A m \in Objects : m # o /\ m # l => /\ order'[m] = order[m] /\ head'[m] = head[m]
                                              /\ tail'[m] = tail[m] /\ kind'[m] = kind[m]
      /\ l \notin clones' /\ (o \in clones' <=> l \in clones)
      /\ \A m \in Objects : m # o /\ m # l => (m \in clones' <=> m \in clones)
      /\ order' \in [Objects -> Seq(Links)] /\ clones' \in SUBSET Objects
  BY <1>2, <1>3, <1>4, <1>5
<1>9. WellLinked(o)' /\ WellLinked(l)'
  <2>1. Pointers(o)'
    BY <1>2, <1>6, <1>8 DEF Pointers
  <2>2. Chained(<< >>, next', prev') /\ Closed(<< >>, next', prev')
    BY DEF Chained, Closed
  <2>3. Pointers(l)'
    BY <1>8, <2>2 DEF Pointers, FirstLink, LastLink
  <2>4. QED
    BY <1>3, <2>1, <2>3, RestAgain
<1>10. \A m \in Objects : m # o /\ m # l => PointersStay(m)
  BY <1>2, <1>8 DEF PointersStay
<1>11. ~(\E k : In(k, << >>)) /\ Distinct(<< >>)
  BY DEF In, Distinct
<1>12. Spread(order')
  <2>1. Spread(order)
    BY HaveLists DEF LinksInv
  <2>2. \A m \in Objects : Distinct(order'[m])
    BY <1>5, <1>8, <1>11, <2>1 DEF Spread
  <2>3. ASSUME NEW m \in Objects PROVE m = l \/ (m = o /\ order'[m] = order[l]) \/ order'[m] = order[m]
    BY <1>1, <1>8
  <2>4. ASSUME NEW p \in Objects, NEW m \in Objects, NEW k, In(k, order'[p]), In(k, order'[m]) PROVE p = m
    <3>1. p # l /\ m # l
      BY <1>8, <1>11, <2>4
    <3>2. \A a \in Objects : \A b \in Objects : In(k, order[a]) /\ In(k, order[b]) => a = b
      BY <2>1 DEF Spread
    <3>3. CASE p = o
      BY <1>1, <1>3, <1>8, <2>3, <2>4, <3>1, <3>2, <3>3
    <3>4. CASE m = o
      BY <1>1, <1>3, <1>8, <2>3, <2>4, <3>1, <3>2, <3>4
    <3>5. CASE p # o /\ m # o
      BY <1>8, <2>4, <3>1, <3>2, <3>5
    <3>6. QED
      BY <3>3, <3>4, <3>5
  <2>5. QED
    BY <2>2, <2>4 DEF Spread
<1>13. Housed(order', calls', links')
  <2>1. Housed(order, calls, links) /\ \A j \in Links : ~AtHand(calls, j)
    BY <1>2, HaveLists, NoneWalked DEF LinksInv
  <2>2. ASSUME NEW k \in Links
        PROVE  (\E m \in Objects : In(k, order[m])) <=> (\E m \in Objects : In(k, order'[m]))
    <3>1. ASSUME NEW m \in Objects, In(k, order[m]) PROVE \E p \in Objects : In(k, order'[p])
      <4>1. m # o
        BY <1>4, <1>11, <3>1
      <4>2. CASE m = l
        BY <1>1, <1>8, <3>1, <4>2
      <4>3. CASE m # l
        BY <1>8, <3>1, <4>1, <4>3
      <4>4. QED
        BY <4>2, <4>3
    <3>2. ASSUME NEW m \in Objects, In(k, order'[m]) PROVE \E p \in Objects : In(k, order[p])
      <4>1. m # l
        BY <1>8, <1>11, <3>2
      <4>2. CASE m = o
        BY <1>1, <1>3, <1>8, <3>2, <4>2
      <4>3. CASE m # o
        BY <1>8, <3>2, <4>1, <4>3
      <4>4. QED
        BY <4>2, <4>3
    <3>3. QED
      BY <3>1, <3>2
  <2>3. QED
    BY <1>2, <1>7, <2>1, <2>2 DEF Housed
<1>14. CursorsLinked'
  <2>1. ASSUME NEW j \in Objects, kind'[j] = "iter", refers'[j] # NoObject, cursor'[j] # NoLink
        PROVE  In(cursor'[j], order'[refers'[j]])
    <3>1. j # i /\ cursor'[j] = cursor[j] /\ kind[j] = "iter" /\ refers'[j] = refers[j]
      BY <1>2, <1>3, <1>4, <1>8, <2>1
    <3>2. On(cursor[j], refers[j]) /\ refers[j] \in Objects
      BY <2>1, <3>1, ParentHeld DEF LinksInv, CursorsLinked
    <3>3. refers[j] # l
      BY <1>2, <2>1, <3>1 DEF NoneSeen, ItersOf
    <3>4. refers[j] # o
      BY <1>4, CellFacts
    <3>5. QED
      BY <1>8, <3>1, <3>2, <3>3, <3>4 DEF On
  <2>2. QED
    BY <2>1 DEF CursorsLinked, On
<1>15. QED
  <2>1. PICK D : D = {l, o}
    OBVIOUS
  <2>2. D \in SUBSET Objects /\ \A m \in D : m = l \/ m = o
    BY <1>3, <2>1
  <2>3. \A m \in Objects \ D : m # o /\ m # l
    BY <2>1
  <2>4. \A m : ~Walked(m) /\ ~Cloned(m)
    BY <1>2, NoneWalked
  <2>5. \A m \in Objects \ D : /\ PointersStay(m) /\ (kind'[m] = "list" <=> kind[m] = "list")
                               /\ (Walked(m) => Walked(m)') /\ (Cloned(m) => Cloned(m)')
    BY <1>8, <1>10, <2>3, <2>4
  <2>6. \A m \in D : /\ kind'[m] = "list" => WellLinked(m)'
                     /\ kind'[m] # "list" => order'[m] = << >> /\ m \notin clones'
                     /\ m \in clones' => Walked(m)' \/ order'[m] # << >>
    BY <1>6, <1>8, <1>9, <2>2
  <2>7. QED
    BY <1>7, <1>8, <1>12, <1>13, <1>14, <2>2, <2>5, <2>6, ListsChange

LEMMA SplitLinks ==
    ASSUME CollectionsInv, CollectionsInv', LinksInv, NEW i \in Iters, NEW o \in Objects, Split(i, o)
    PROVE  LinksInv'
<1>1. CASE cursor[i] = NoLink
  <2>1. /\ Idle /\ o \in FreeObjects /\ kind' = [kind EXCEPT ![o] = "list"]
        /\ head' = [head EXCEPT ![o] = NoLink] /\ tail' = [tail EXCEPT ![o] = NoLink]
        /\ cursor' = [cursor EXCEPT ![i] = NoLink] /\ calls' = << >>
        /\ UNCHANGED <<refers, links, next, prev, order, clones>>
    BY <1>1 DEF Split, IterMethod, Idle
  <2>2. cursor' = cursor
    BY <1>1, <2>1, InvFacts DEF PointersTypeOK
  <2>3. LoopsLinked' /\ \A j \in Links : ~AtHand(calls', j)
    BY <2>1, NoneAfter
  <2>4. QED
    BY <2>1, <2>2, <2>3, NewListLinks
<1>2. QED
  BY <1>1, SplitAtHeadLinks

-----------------------------------------------------------------------------
(* Every step keeps both invariants *)

LEMMA OnVarInv ==
    ASSUME CollectionsInv, NEW v \in Vars, OnVar(v), UNCHANGED <<program, below>>
    PROVE  CollectionsInv'
BY FetchInv, StoreInv DEF OnVar

LEMMA OnListInv ==
    ASSUME CollectionsInv, NEW l \in Lists, OnList(l), UNCHANGED <<program, below>>
    PROVE  CollectionsInv'
<1>1. CASE \E i \in Objects : HeadIter(l, i) \/ TailIter(l, i) \/ Clone(l, i)
  BY <1>1, ListIterInv, CloneInv
<1>2. CASE \E k \in Links : AddHead(l, k) \/ AddTail(l, k)
  BY <1>2, AddInv
<1>3. CASE HeadOf(l) \/ TailOf(l)
  BY <1>3, EndElementInv
<1>4. CASE RemoveHead(l) \/ RemoveTail(l) \/ UnrefHead(l) \/ UnrefTail(l)
  BY <1>4, RemoveEndInv
<1>5. CASE Clear(l) \/ Load(l) \/ Remove(l) \/ Find(l)
  BY <1>5, ListLoopsInv
<1>6. QED
  BY <1>1, <1>2, <1>3, <1>4, <1>5 DEF OnList

LEMMA OnListLinks ==
    ASSUME CollectionsInv, CollectionsInv', LinksInv, NEW l \in Lists, OnList(l)
    PROVE  LinksInv'
<1>1. CASE \E i \in Objects : HeadIter(l, i) \/ TailIter(l, i)
  BY <1>1, ListLooksLinks
<1>2. CASE \E i \in Objects : Clone(l, i)
  BY <1>2, CloneStartsLinks
<1>3. CASE \E k \in Links : AddHead(l, k) \/ AddTail(l, k)
  BY <1>3, AddHeadLinks, AddTailLinks
<1>4. CASE HeadOf(l) \/ TailOf(l)
  BY <1>4, ListsFacts, ListLooksLinks
<1>5. CASE RemoveHead(l) \/ RemoveTail(l) \/ UnrefHead(l) \/ UnrefTail(l)
  BY <1>5, EndTakenLinks
<1>6. CASE Clear(l) \/ Load(l) \/ Remove(l) \/ Find(l)
  BY <1>6, ListLoopsLinks
<1>7. QED
  BY <1>1, <1>2, <1>3, <1>4, <1>5, <1>6 DEF OnList

\* To change places the elements need the links.
LEMMA OnIterInv ==
    ASSUME CollectionsInv, LinksInv, NEW i \in Iters, OnIter(i), UNCHANGED <<program, below>>
    PROVE  CollectionsInv'
<1>1. CASE \/ SeekNext(i) \/ SeekPrev(i) \/ SeekHead(i) \/ SeekTail(i)
           \/ Current(i) \/ NextOf(i) \/ PrevOf(i)
  BY <1>1, IterSeeksInv
<1>2. CASE IterRemove(i) \/ IterUnref(i)
  BY <1>2, IterRemoveInv
<1>3. CASE FindNext(i)
  BY <1>3, FindNextInv
<1>4. CASE SwapNext(i) \/ SwapPrev(i)
  <2>1. Idle
    BY <1>4 DEF SwapNext, SwapPrev, IterMethod
  <2>2. QED
    BY <1>4, <2>1, LinksAtIters, SwapLinksInv
<1>5. CASE \E o \in Objects : Split(i, o)
  BY <1>5, SplitInv
<1>6. QED
  BY <1>1, <1>2, <1>3, <1>4, <1>5 DEF OnIter

LEMMA OnIterLinks ==
    ASSUME CollectionsInv, CollectionsInv', LinksInv, NEW i \in Iters, OnIter(i)
    PROVE  LinksInv'
<1>1. CASE \/ SeekNext(i) \/ SeekPrev(i) \/ SeekHead(i) \/ SeekTail(i)
           \/ Current(i) \/ NextOf(i) \/ PrevOf(i)
  BY <1>1, IterSeeksLinks
<1>2. CASE IterRemove(i) \/ IterUnref(i)
  BY <1>2, IterTakenLinks
<1>3. CASE FindNext(i)
  BY <1>3, FindNextLinks
<1>4. CASE SwapNext(i) \/ SwapPrev(i)
  BY <1>4, IterSwapsLinks
<1>5. CASE \E o \in Objects : Split(i, o)
  BY <1>5, SplitLinks
<1>6. QED
  BY <1>1, <1>2, <1>3, <1>4, <1>5 DEF OnIter

LEMMA GoesInv ==
    ASSUME CollectionsInv, Goes, UNCHANGED <<program, below>>
    PROVE  CollectionsInv'
<1>1. CASE ReleaseElement \/ FreeLink \/ ReleaseParent \/ FreeObject
  BY <1>1, ReleaseElementInv, FreeLinkInv, ReleaseParentInv, FreeObjectInv
<1>2. CASE EndClear \/ EndRemove \/ EndClone
  BY <1>2, LoopEndsInv
<1>3. CASE \E k \in Links : EndLoad(k) \/ CloneLink(k)
  BY <1>3, EndLoadInv, CloneLinkInv
<1>4. CASE SeekOn \/ FoundToRemove \/ FoundNext \/ \E i \in Objects : FoundIter(i)
  BY <1>4, SeekOnInv, FoundToRemoveInv, FoundNextInv, FoundIterInv
<1>5. QED
  BY <1>1, <1>2, <1>3, <1>4 DEF Goes

LEMMA GoesLinks ==
    ASSUME CollectionsInv, CollectionsInv', LinksInv, Goes
    PROVE  LinksInv'
<1>1. CASE ReleaseElement \/ FreeLink \/ ReleaseParent
  BY <1>1, ReleaseElementLinks, FreeLinkLinks, ReleaseParentLinks
<1>2. CASE FreeObject \/ EndClear
  BY <1>2, WalkEnds
<1>3. CASE EndRemove \/ EndClone
  BY <1>3, EndRemoveLinks, EndCloneLinks
<1>4. CASE \E k \in Links : EndLoad(k) \/ CloneLink(k)
  BY <1>4, EndLoadLinks, CloneLinkLinks
<1>5. CASE SeekOn \/ FoundToRemove
  BY <1>5, SeekOnLinks, FoundToRemoveLinks
<1>6. CASE FoundNext \/ \E i \in Objects : FoundIter(i)
  <2>1. FoundNext => Top.for \in Objects
    BY TopFields DEF FoundNext, Found, Seeks
  <2>2. QED
    BY <1>6, <2>1, FoundLinks
<1>7. QED
  BY <1>1, <1>2, <1>3, <1>4, <1>5, <1>6 DEF Goes

LEMMA OnArrayInv ==
    ASSUME CollectionsInv, NEW a \in Arrays, OnArray(a), UNCHANGED <<program, below>>
    PROVE  CollectionsInv'
<1>1. a \in Objects /\ kind[a] = "array"
  BY DEF Arrays
<1>2. CASE \E o \in Objects : ArrayHeadIter(a, o) \/ ArrayTailIter(a, o) \/ ArrayFind(a, o)
  BY <1>2, ArrayIterInv
<1>3. CASE \E o \in Objects : ArrayClone(a, o)
  BY <1>3, ArrayCloneInv
<1>4. CASE ArrayClear(a)
  BY <1>1, <1>4, ClearCellsInv
<1>5. CASE Push(a) \/ \E n \in 0 .. MaxElements : Insert(a, n)
  <2>1. PICK n : InsertElement(a, n) /\ Idle
    BY <1>5 DEF Push, Insert, ArrayMethod
  <2>2. QED
    BY <1>1, <2>1, InsertElementInv
<1>6. CASE Pop(a) \/ \E n \in 0 .. MaxElements : RemoveElement(a, n)
  BY <1>6, RemoveElementInv DEF Pop
<1>7. CASE ReverseElements(a)
  BY <1>7, ReverseInv
<1>8. CASE \E n \in 0 .. MaxElements : Get(a, n)
  BY <1>1, <1>8, GetInv
<1>9. CASE \E n \in 0 .. MaxElements : Set(a, n)
  <2>1. PICK n \in Used(a) : Idle /\ Replace(<<a, n>>) /\ UNCHANGED <<kind, shape, cursor>>
    BY <1>9 DEF Set, ArrayMethod
  <2>2. QED
    BY <1>1, <2>1, SetInv
<1>10. CASE \E n \in 0 .. MaxElements : Unref(a, n)
  <2>1. PICK n \in Used(a) : /\ Idle /\ stack = NoObject /\ UNCHANGED cursor
                             /\ Unreferred(a, n, [Elements(a) EXCEPT ![n] = NoObject])
    BY <1>10 DEF Unref, ArrayMethod
  <2>2. QED
    BY <1>1, <2>1, UnrefCellInv
<1>11. CASE \E n \in 0 .. MaxElements : Resize(a, n)
  BY <1>11, ResizeInv
<1>12. CASE \E n \in 0 .. MaxElements : \E m \in 1 .. n - 1 : Swap(a, m, n)
  <2>1. PICK n \in 0 .. MaxElements, m \in Int : m \in 1 .. n - 1 /\ Swap(a, m, n)
    BY <1>12
  <2>2. m # n
    BY <2>1
  <2>3. QED
    BY <2>1, <2>2, SwapInv
<1>13. QED
  BY <1>2, <1>3, <1>4, <1>5, <1>6, <1>7, <1>8, <1>9, <1>10, <1>11, <1>12 DEF OnArray

LEMMA OnArrayIterInv ==
    ASSUME CollectionsInv, NEW i \in ArrayIters, OnArrayIter(i), UNCHANGED <<program, below>>
    PROVE  CollectionsInv'
<1>1. CASE \/ ArraySeekNext(i) \/ ArraySeekPrev(i) \/ ArraySeekHead(i) \/ ArraySeekTail(i)
           \/ \E n \in 1 .. MaxElements + 1 : SeekTo(i, n)
  BY <1>1, ArraySeeksInv
<1>2. CASE ArrayCurrent(i) \/ ArrayNext(i) \/ ArrayPrev(i)
  BY <1>2, ArrayLooksInv
<1>3. CASE ArrayIterRemove(i)
  BY <1>3, ArrayIterRemoveInv
<1>4. CASE ArrayFindNext(i)
  BY <1>4, ArrayFindNextInv
<1>5. CASE \E o \in Objects : ArrayIterClone(i, o)
  BY <1>5, ArrayIterCloneInv
<1>6. Idle => refers[i] \in Objects /\ kind[refers[i]] = "array"
  <2>1. i \in Objects /\ kind[i] = "arrayIter" /\ kind[i] \in Iterators
    BY DEF ArrayIters, Iterators
  <2>2. Idle => ~Dying(i)
    BY IdleFacts
  <2>3. QED
    BY <2>1, <2>2, IterFacts, ParentKinds
<1>7. CASE ArrayIterUnref(i)
  <2>1. /\ Idle /\ stack = NoObject /\ UNCHANGED cursor /\ cursor[i] \in Used(refers[i])
        /\ Unreferred(refers[i], cursor[i], [Elements(refers[i]) EXCEPT ![cursor[i]] = NoObject])
    BY <1>7 DEF ArrayIterUnref, ArrayIterMethod, AtElement
  <2>2. PICK a, n : a = refers[i] /\ n = cursor[i]
    OBVIOUS
  <2>3. QED
    BY <1>6, <2>1, <2>2, UnrefCellInv
<1>8. CASE ArrayIterInsert(i)
  <2>1. Idle /\ InsertElement(refers[i], cursor[i])
    BY <1>8 DEF ArrayIterInsert, ArrayIterMethod
  <2>2. PICK a, n : a = refers[i] /\ n = cursor[i]
    OBVIOUS
  <2>3. QED
    BY <1>6, <2>1, <2>2, InsertElementInv
<1>9. QED
  BY <1>1, <1>2, <1>3, <1>4, <1>5, <1>7, <1>8 DEF OnArrayIter

LEMMA OnIntMapInv ==
    ASSUME CollectionsInv, NEW m \in IntMaps, OnIntMap(m), UNCHANGED <<program, below>>
    PROVE  CollectionsInv'
<1>1. m \in Objects
  BY DEF IntMaps
<1>2. CASE \E i \in Objects : \/ MapHeadIter(m, i) \/ MapTailIter(m, i)
                              \/ \E n \in 1 .. program.cells : MapFind(m, i, n)
  BY <1>2, MapIterInv
<1>3. CASE MapClear(m)
  BY <1>1, <1>3, ClearCellsInv
<1>4. CASE \E n \in 1 .. program.cells : Grab(m, n)
  BY <1>1, <1>4, GetInv
<1>5. CASE \E n \in 1 .. program.cells : MapSet(m, n)
  BY <1>5, MapSetInv
<1>6. CASE \E n \in 1 .. program.cells : MapRemove(m, n) \/ MapUnref(m, n)
  BY <1>6, MapRemoveInv, MapUnrefInv
<1>7. CASE \E n \in 0 .. program.cells : MapLoad(m, n)
  BY <1>7, MapLoadInv
<1>8. QED
  BY <1>2, <1>3, <1>4, <1>5, <1>6, <1>7 DEF OnIntMap

-----------------------------------------------------------------------------
(* The invariant holds *)

AllInv == CollectionsInv /\ LinksInv

LEMMA InitialHeap == Init => CollectionsInv
<1> SUFFICES ASSUME Init PROVE CollectionsInv
  OBVIOUS
<1> USE DEF Init, ListsInit
<1>1. calls = << >> /\ Len(calls) = 0 /\ stack = NoObject /\ NoObject \notin Objects
  BY ListsAssumption
<1>2. \A a \in Objects, n \in 1 .. MaxElements : refers[<<a, n>>] = Beyond
  BY CellFacts
<1>3. \A h \in Holders \ Cells : refers[h] = NoObject
  OBVIOUS
<1>4. Beyond \notin Objects /\ Beyond # NoObject
  BY ListsAssumption
<1>5. \A o \in Objects : Used(o) = {} /\ refers[o] = NoObject
  BY <1>2, <1>3, CellFacts, UsedFacts
<1>6. \A o \in Objects : ~Dying(o) /\ ~InHand(o) /\ kind[o] = "free" /\ refCount[o] = 0
  BY <1>1 DEF Dying, InHand
<1>7. HeapTypeOK
  <2>1. kind \in [Objects -> Kinds]
    BY DEF Kinds
  <2>2. refers \in [Holders -> Referred]
    BY DEF Referred, Object
  <2>3. \A h \in Holders \ Cells : refers[h] # Beyond
    BY <1>3, <1>4
  <2>4. program \in Programs /\ refCount \in [Objects -> Nat] /\ links \in SUBSET Links
    OBVIOUS
  <2>5. stack \in Object /\ below \in Object /\ calls \in Seq(Loop)
    BY DEF Object
  <2>6. QED
    BY <2>1, <2>2, <2>3, <2>4, <2>5 DEF HeapTypeOK
<1>8. PointersTypeOK
  BY DEF PointersTypeOK, Link
<1>9. CountsMatch
  <2>1. ASSUME NEW o \in Objects PROVE refCount[o] = Cardinality(HoldersOf(o))
    <3>1. \A h \in Holders : refers[h] # o
      BY <1>1, <1>4
    <3>2. HoldersOf(o) = {}
      BY <3>1 DEF HoldersOf
    <3>3. QED
      BY <1>6, <3>2, FS_EmptySet
  <2>2. QED
    BY <2>1 DEF CountsMatch
<1>10. LiveByCount
  BY <1>6 DEF LiveByCount, Live
<1>11. OwnersOnly
  BY <1>3, <1>5, CellFacts DEF OwnersOnly
<1>12. ArraysAreDense /\ ParentsFit /\ CursorsFit
  BY <1>6 DEF ArraysAreDense, ParentsFit, CursorsFit, Iterators
<1>13. LoopsFit
  BY <1>1 DEF LoopsFit
<1>14. QED
  BY <1>7, <1>8, <1>9, <1>10, <1>11, <1>12, <1>13 DEF CollectionsInv

LEMMA InitialLinks == Init => LinksInv
<1> SUFFICES ASSUME Init PROVE LinksInv
  OBVIOUS
<1> USE DEF Init, ListsInit
<1>1. calls = << >> /\ Len(calls) = 0
  OBVIOUS
<1>2. \A o \in Objects : order[o] = << >> /\ Len(order[o]) = 0 /\ kind[o] = "free"
  OBVIOUS
<1>3. OrderTypeOK
  BY <1>2 DEF OrderTypeOK
<1>4. LinksHaveLists
  BY <1>1, <1>2 DEF LinksHaveLists
<1>5. ListsLinked /\ CursorsLinked
  BY <1>2 DEF ListsLinked, CursorsLinked
<1>6. LoopsLinked
  BY <1>1 DEF LoopsLinked, Apart, Waiting
<1>7. QED
  BY <1>3, <1>4, <1>5, <1>6 DEF LinksInv

\* What is on the stack changes and no more.
LEMMA StackChanges ==
    ASSUME CollectionsInv, UNCHANGED <<program, counts, shape, cursor, calls>>,
           stack' \in Object, below' \in Object, LiveByCount',
           stack' # NoObject => calls' = << >> \/ (Len(calls') = 1 /\ calls'[1].does = "remove")
    PROVE  CollectionsInv'
<1> USE DEF counts, shape
<1>1. HeapTypeOK' /\ PointersTypeOK'
  BY DEF CollectionsInv, HeapTypeOK, PointersTypeOK
<1>2. CountsMatch' /\ OwnersOnly' /\ ArraysAreDense' /\ ParentsFit'
  <2>1. \A o \in Objects : Dying(o) => Dying(o)'
    BY DEF Dying
  <2>2. QED
    BY <2>1, HeapStays
<1>3. CursorsFit'
  <2>1. \A a : Used(a)' = Used(a)
    BY DEF Used
  <2>2. QED
    BY <2>1 DEF CollectionsInv, CursorsFit
<1>4. LoopsFit'
  <2>1. calls' = calls /\ LoopsFit
    BY DEF CollectionsInv
  <2>2. ASSUME NEW c, LoopFits(c) PROVE LoopFits(c)'
    <3>1. PassedIsReleased(c)' /\ ArgumentFits(c)'
      BY <2>2 DEF LoopFits, PassedIsReleased, ArgumentFits, Used, InVar
    <3>2. SubjectFits(c)'
      BY <2>2 DEF LoopFits, SubjectFits, Used, NoKeySeen, KeyUnseen, InVar, Size
    <3>3. QED
      BY <3>1, <3>2 DEF LoopFits
  <2>3. \A j \in 1 .. Len(calls') : LoopFits(calls[j])'
    BY <2>1, <2>2 DEF LoopsFit
  <2>4. QED
    BY <2>1, <2>3 DEF LoopsFit
<1>5. QED
  BY <1>1, <1>2, <1>3, <1>4 DEF CollectionsInv

LEMMA StackChangesLinks ==
    ASSUME LinksInv, UNCHANGED <<counts, shape, cursor, calls>>
    PROVE  LinksInv'
<1> USE DEF counts, shape
<1>1. OrderTypeOK' /\ LinksHaveLists'
  BY DEF LinksInv, OrderTypeOK, LinksHaveLists, Walked, Walks
<1>2. ListsLinked'
  BY DEF LinksInv, ListsLinked, WellLinked, Walked, Walks, Cloned
<1>3. LoopsLinked'
  <2>1. calls' = calls /\ LoopsLinked
    BY DEF LinksInv
  <2>2. ASSUME NEW c, LoopLinked(c) PROVE LoopLinked(c)'
    <3>1. WalkLinked(c)' /\ HandLinked(c)' /\ CloneLinked(c)'
      BY <2>2 DEF LoopLinked, WalkLinked, HandLinked, CloneLinked, On
    <3>2. EmptiesLinked(c)' /\ SeekLinked(c)'
      BY <2>2 DEF LoopLinked, EmptiesLinked, SeekLinked, On, InVar, NoneSeen, ItersOf
    <3>3. QED
      BY <3>1, <3>2 DEF LoopLinked
  <2>3. Apart(calls') /\ Waiting(calls')
    BY <2>1 DEF LoopsLinked
  <2>4. \A j \in 1 .. Len(calls') : LoopLinked(calls[j])'
    BY <2>1, <2>2 DEF LoopsLinked
  <2>5. QED
    BY <2>1, <2>3, <2>4 DEF LoopsLinked
<1>4. CursorsLinked'
  BY DEF LinksInv, CursorsLinked, On
<1>5. QED
  BY <1>1, <1>2, <1>3, <1>4 DEF LinksInv

\* An object is left on the stack, taken up again, or dropped after its end.
LEMMA OnBelowInv ==
    ASSUME CollectionsInv, OnBelow, UNCHANGED program
    PROVE  CollectionsInv'
<1>1. /\ Idle /\ UNCHANGED <<program, counts, shape, cursor, calls>>
      /\ stack \in Object /\ below \in Object /\ NoObject \in Object
  BY DEF OnBelow, Leave, TakeUp, DropGone, CollectionsInv, HeapTypeOK, Object
<1>2. calls' = << >> /\ kind' = kind /\ refCount' = refCount
  BY <1>1, IdleFacts DEF counts
<1>3. \A o : /\ ~Dying(o) /\ (InHand(o) <=> o = stack)
             /\ ~Dying(o)' /\ (InHand(o)' <=> o = stack')
  BY <1>1, <1>2, IdleFacts, NoLoops, DyingAndInHand
<1>4. \/ stack' = NoObject /\ below' = stack /\ below = NoObject
      \/ stack' = below /\ below' = NoObject /\ stack = NoObject /\ Live(below)
      \/ stack' = stack /\ below' = NoObject /\ ~Live(below)
  BY DEF OnBelow, Leave, TakeUp, DropGone
<1>5. LiveByCount'
  <2> SUFFICES ASSUME NEW o \in Objects
               PROVE  /\ refCount[o] > 0 \/ o = stack' => Live(o)
                      /\ Live(o) => refCount[o] > 0 \/ o = stack' \/ o = below'
    BY <1>2, <1>3 DEF LiveByCount, Live
  <2>1. /\ refCount[o] > 0 \/ o = stack => Live(o)
        /\ Live(o) => refCount[o] > 0 \/ o = stack \/ o = below
    BY <1>3 DEF CollectionsInv, LiveByCount
  <2>2. o # NoObject
    BY ListsAssumption
  <2>3. QED
    BY <1>4, <2>1, <2>2
<1>6. stack' \in Object /\ below' \in Object
  BY <1>1, <1>4
<1>7. QED
  BY <1>1, <1>2, <1>5, <1>6, StackChanges

LEMMA OnBelowLinks ==
    ASSUME LinksInv, OnBelow
    PROVE  LinksInv'
BY StackChangesLinks DEF OnBelow, Leave, TakeUp, DropGone

LEMMA StutterInv ==
    ASSUME AllInv, UNCHANGED vars
    PROVE  AllInv'
<1>1. UNCHANGED <<program, counts, shape, cursor, calls>> /\ stack' = stack /\ below' = below
  BY DEF vars, listVars, counts, shape
<1>2. stack' \in Object /\ below' \in Object
  BY <1>1 DEF AllInv, CollectionsInv, HeapTypeOK
<1>3. LiveByCount'
  BY <1>1 DEF AllInv, CollectionsInv, LiveByCount, Live, Dying, InHand, counts
<1>4. stack' # NoObject => calls' = << >> \/ (Len(calls') = 1 /\ calls'[1].does = "remove")
  BY <1>1 DEF AllInv, CollectionsInv, LoopsFit
<1>5. CollectionsInv'
  BY <1>1, <1>2, <1>3, <1>4, StackChanges DEF AllInv
<1>6. LinksInv'
  BY <1>1, StackChangesLinks DEF AllInv
<1>7. QED
  BY <1>5, <1>6 DEF AllInv

LEMMA CellsGoInv ==
    ASSUME CollectionsInv, CellsGo, UNCHANGED <<program, below>>
    PROVE  CollectionsInv'
BY ReleaseCellInv, FreeCellsInv, EndResizeInv DEF CellsGo

\* A method, a loop, or what makes an object.
LEMMA MethodInv ==
    ASSUME CollectionsInv, LinksInv, UNCHANGED <<program, below>>,
           \/ \E o \in Objects : Make(o)
           \/ \E a \in Arrays, o \in Objects : MakeList(a, o)
           \/ ListsNext \/ ArraysNext \/ IntMapsNext
    PROVE  CollectionsInv' /\ LinksInv'
<1>1. UNCHANGED <<program, below>>
  OBVIOUS
<1>2. CASE \E o \in Objects : Make(o)
  BY <1>1, <1>2, MakeInv, MakeLinks
<1>3. CASE \E a \in Arrays, o \in Objects : MakeList(a, o)
  BY <1>1, <1>3, ToListInv, MakeListLinks DEF MakeList
<1>4. CASE Drop
  BY <1>1, <1>4, DropInv, DropLinks
<1>5. CASE \E v \in Vars : OnVar(v)
  BY <1>1, <1>5, OnVarInv, OnVarLinks
<1>6. CASE \E l \in Lists : OnList(l)
  BY <1>1, <1>6, OnListInv, OnListLinks
<1>7. CASE \E i \in Iters : OnIter(i)
  BY <1>1, <1>7, OnIterInv, OnIterLinks
<1>8. CASE Goes
  BY <1>1, <1>8, GoesInv, GoesLinks
<1>9. CASE \E a \in Arrays : OnArray(a)
  BY <1>1, <1>9, OnArrayInv, OnArrayLinks
<1>10. CASE \E i \in ArrayIters : OnArrayIter(i)
  BY <1>1, <1>10, OnArrayIterInv, OnArrayIterLinks
<1>11. CASE CellsGo
  BY <1>1, <1>11, CellsGoInv, CellsGoLinks
<1>12. CASE \E m \in IntMaps : OnIntMap(m)
  BY <1>1, <1>12, OnIntMapInv, OnIntMapLinks
<1>13. CASE \E i \in IntMapIters : OnIntMapIter(i)
  BY <1>1, <1>13, MapLooksInv, OnIntMapIterLinks
<1>14. CASE EndMapLoad
  BY <1>1, <1>14, EndMapLoadInv, CellsGoLinks
<1>15. QED
  BY <1>2, <1>3, <1>4, <1>5, <1>6, <1>7, <1>8, <1>9, <1>10, <1>11, <1>12, <1>13, <1>14
     DEF ListsNext, ArraysNext, IntMapsNext

LEMMA NextInv ==
    ASSUME CollectionsInv, LinksInv, Next
    PROVE  CollectionsInv' /\ LinksInv'
<1>1. CASE OnBelow /\ UNCHANGED program
  BY <1>1, OnBelowInv, OnBelowLinks
<1>2. CASE ~(OnBelow /\ UNCHANGED program)
  BY <1>2, MethodInv DEF Next
<1>3. QED
  BY <1>1, <1>2

LEMMA InvariantHolds == Spec => []AllInv
<1>1. Init => AllInv
  BY InitialHeap, InitialLinks DEF AllInv
<1>2. AllInv /\ [Next]_vars => AllInv'
  BY NextInv, StutterInv DEF AllInv
<1>3. QED
  BY <1>1, <1>2, PTL DEF Spec

\* Every variable has its type (the object structures of OList.cpp, OArray.cpp
\* and OMap.cpp).
THEOREM CollectionsAreTyped == Spec => []ListsTypeOK
<1>1. AllInv => ListsTypeOK
  BY DEF AllInv, CollectionsInv, LinksInv, HeapTypeOK, PointersTypeOK, OrderTypeOK, ListsTypeOK,
         Kinds, Referred
<1>2. QED
  BY <1>1, InvariantHolds, PTL

\* The reference count of every object is the number of its references, also
\* half-way through a cascade of deletions: SAFE_KEEP and SAFE_RELEASE are
\* balanced in every method of lists, arrays, maps and their iterators.
THEOREM CountsAreRight == Spec => []CountsMatch
<1>1. AllInv => CountsMatch
  BY DEF AllInv, CollectionsInv
<1>2. QED
  BY <1>1, InvariantHolds, PTL

\* No object is deleted while something refers to it or a method has it in hand,
\* and none stays when nothing does and the program did not leave it on the
\* stack (SAFE_RELEASE, odrop).
THEOREM NeitherEarlyNorLate == Spec => []LiveWhileHeld
<1>1. ASSUME AllInv PROVE LiveWhileHeld
  <2>1. ASSUME NEW o \in Objects PROVE HoldersOf(o) # {} <=> refCount[o] > 0
    <3>1. refCount[o] = Count(refers, o)
      BY <1>1, <2>1 DEF AllInv, CollectionsInv, CountsMatch, HoldersOf, Count
    <3>2. refCount[o] \in Nat /\ (refCount[o] = 0 <=> \A h \in Holders : refers[h] # o)
      BY <3>1, CountType
    <3>3. HoldersOf(o) # {} <=> refCount[o] # 0
      BY <3>2 DEF HoldersOf
    <3>4. QED
      BY <3>2, <3>3
  <2>2. LiveByCount
    BY <1>1 DEF AllInv, CollectionsInv
  <2>3. QED
    BY <2>1, <2>2 DEF LiveByCount, LiveWhileHeld
<1>2. QED
  BY <1>1, InvariantHolds, PTL

\* Head, tail, next and prev are those of the list that the methods promise, no
\* link is in two lists or twice in one, and none leaks (oListAddHeadMethod to
\* oListIterSplitMethod and the loops of delete, clear, load and clone).
THEOREM ListsAreWhole == Spec => []LinksFormLists
<1>1. AllInv => LinksFormLists
  BY DEF AllInv, LinksInv, ListsLinked, LinksFormLists
<1>2. QED
  BY <1>1, InvariantHolds, PTL

\* No list iterator stands at a link that was freed or is another list's, and no
\* map iterator at a key that is gone, in programs that take away no link and no
\* key where another one stands: the methods of ListIter and IntMapIter move the
\* cursor of the iterator they are called for in time, and so does every loop.
THEOREM CursorsStayOwn == Spec => []CursorsAreOwn
<1>1. ASSUME AllInv PROVE CursorsAreOwn
  <2>1. ASSUME NEW i \in Objects, refers[i] # NoObject
        PROVE  \/ cursor[i] \in {NoLink, MaxElements + 1}
               \/ kind[i] = "iter" /\ \E j \in DOMAIN order[refers[i]] : order[refers[i]][j] = cursor[i]
               \/ kind[i] = "arrayIter" /\ cursor[i] \in 1 .. MaxElements
               \/ kind[i] = "intMapIter" /\ refers[<<refers[i], cursor[i]>>] # Beyond
    <3>1. kind[i] \in Iterators
      BY <1>1, <2>1 DEF AllInv, CollectionsInv, OwnersOnly
    <3>2. CASE kind[i] = "iter"
      <4>1. cursor[i] # NoLink => On(cursor[i], refers[i])
        BY <1>1, <2>1, <3>2 DEF AllInv, LinksInv, CursorsLinked
      <4>2. refers[i] \in Objects
        BY <1>1, <2>1, <3>2, ListsAssumption, CellFacts
           DEF AllInv, CollectionsInv, HeapTypeOK, Referred, Object
      <4>3. DOMAIN order[refers[i]] = 1 .. Len(order[refers[i]])
        BY <1>1, <4>2 DEF AllInv, LinksInv, OrderTypeOK
      <4>4. QED
        BY <3>2, <4>1, <4>3 DEF On, In
    <3>3. CASE kind[i] = "arrayIter"
      <4>1. cursor[i] \in 1 .. MaxElements + 1
        BY <1>1, <3>3 DEF AllInv, CollectionsInv, CursorsFit
      <4>2. QED
        BY <3>3, <4>1, ListsAssumption
    <3>4. CASE kind[i] = "intMapIter"
      <4>1. cursor[i] \in Used(refers[i]) \cup {End}
        BY <1>1, <2>1, <3>4 DEF AllInv, CollectionsInv, CursorsFit
      <4>2. QED
        BY <3>4, <4>1, UsedFacts DEF End
    <3>5. QED
      BY <3>1, <3>2, <3>3, <3>4 DEF Iterators
  <2>2. QED
    BY <2>1 DEF CursorsAreOwn
<1>2. QED
  BY <1>1, InvariantHolds, PTL

=============================================================================
