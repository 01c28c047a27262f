---------------------------- MODULE BlocksProofs ----------------------------
(***************************************************************************)
(* Proofs about BlockBuffers and BlockStreams, for any number of buffers   *)
(* and blocks and any contents.  The first part is about the buffers and   *)
(* any file; the second shows that they implement the array of blocks of   *)
(* BlockStore when reading and writing the block file do not fail; the     *)
(* third that source text in blocks which edits blocks and loads others,   *)
(* to any depth, still works on an array of blocks.                        *)
(***************************************************************************)
EXTENDS BlockStreams, SequenceTheorems, TLAPS

-----------------------------------------------------------------------------
(* The inductive invariant *)

\* mLRUBuffers lists the buffers of the blocks used last, in that order, and
\* behind them those that hold none.
RecentIsLRU ==
    /\ Len(recent) <= NumBuffers
    /\ \A i \in 1 .. Len(recent) : assigned[lru[i - 1]] = recent[i]
    /\ \A i \in Len(recent) .. NumBuffers - 1 : assigned[lru[i]] = NoBlock

\* The current buffer holds a block.
CurrentIsAssigned == current # NoBuffer => assigned[current] # NoBlock

IInv ==
    /\ TypeOK
    /\ OneBufferPerBlock
    /\ LRUIsPermutation
    /\ RecentIsLRU
    /\ CurrentIsAssigned

-----------------------------------------------------------------------------
(* The list of buffers *)

\* What is assumed of the constants.
LEMMA Constants ==
    /\ NumBuffers \in Nat \ {0}
    /\ NumBlocks \in Nat \ {0}
    /\ Zero \in Values
    /\ NoBuffer \notin Buffers
    /\ NoBlock \notin Blocks
    /\ Fresh \subseteq Blocks
    /\ Faulty \in BOOLEAN
BY BlockBuffersAssumption DEF BlockBuffersAssumption

\* The buffers are numbered from 0.
LEMMA BufferNumbers ==
    /\ Buffers \subseteq Int
    /\ 0 \in Buffers /\ NumBuffers - 1 \in Buffers
    /\ \A j \in Int : j \in Buffers <=> 0 <= j /\ j < NumBuffers
BY Constants DEF Buffers

\* Each buffer has one place in mLRUBuffers.
LEMMA LRUInjective ==
    ASSUME TypeOK, LRUIsPermutation,
           NEW i \in Buffers, NEW j \in Buffers, lru[i] = lru[j]
    PROVE  i = j
BY DEF TypeOK, LRUIsPermutation

\* Moving a buffer to the front leaves every buffer in the list.
LEMMA UpdateLRUPermutes ==
    ASSUME TypeOK, LRUIsPermutation, NEW b \in Buffers, UpdateLRU(b)
    PROVE  lru' \in [Buffers -> Buffers] /\ LRUIsPermutation'
<1>1. PICK i \in Buffers :
          /\ lru[i] = b
          /\ lru' = [j \in Buffers |-> IF j = 0 THEN b
                                       ELSE IF j <= i THEN lru[j - 1]
                                       ELSE lru[j]]
    BY DEF UpdateLRU
<1>2. lru \in [Buffers -> Buffers]
    BY DEF TypeOK
<1>3. /\ lru'[0] = b /\ lru[i] = b
      /\ \A j \in Buffers : j # 0 /\ j <= i => lru'[j] = lru[j - 1]
      /\ \A j \in Buffers : j > i => lru'[j] = lru[j]
    BY <1>1, Constants DEF Buffers
<1>4. lru' \in [Buffers -> Buffers]
  <2>1. \A j \in Buffers : j # 0 => j - 1 \in Buffers
      BY Constants DEF Buffers
  <2>2. \A j \in Buffers : lru'[j] \in Buffers
      BY <1>2, <1>3, <2>1, BufferNumbers
  <2>3. QED
      BY <1>1, <2>2
<1>5. ASSUME NEW c \in Buffers
      PROVE  \E k \in Buffers :
                 lru'[k] = c /\ \A j \in Buffers \ {k} : lru'[j] # c
  <2>1. PICK k \in Buffers : lru[k] = c /\ \A j \in Buffers \ {k} : lru[j] # c
      BY DEF LRUIsPermutation
  <2>2. CASE k = i
    <3>1. lru'[0] = c
        BY <1>3, <2>1, <2>2
    <3>2. ASSUME NEW j \in Buffers, j # 0
          PROVE  lru'[j] # c
        BY <1>3, <2>1, <2>2, <3>2, BufferNumbers, Constants
    <3>3. QED
        BY <3>1, <3>2, BufferNumbers
  <2>3. CASE k < i
    <3>1. k + 1 \in Buffers /\ lru'[k + 1] = c
        BY <1>3, <2>1, <2>3, Constants DEF Buffers
    <3>2. ASSUME NEW j \in Buffers, j # k + 1
          PROVE  lru'[j] # c
        BY <1>1, <1>3, <2>1, <2>3, <3>2, Constants DEF Buffers
    <3>3. QED
        BY <3>1, <3>2
  <2>4. CASE k > i
      BY <1>1, <1>3, <2>1, <2>4, Constants DEF Buffers
  <2>5. QED
      BY <2>2, <2>3, <2>4, Constants DEF Buffers
<1>6. QED
    BY <1>4, <1>5 DEF LRUIsPermutation

\* The identity that EmptyBuffers stores is a permutation.
LEMMA EmptyPermutes ==
    ASSUME Empty
    PROVE  lru' \in [Buffers -> Buffers] /\ LRUIsPermutation'
BY DEF Empty, LRUIsPermutation, Buffers

\* A function on an initial segment of the numbers is a sequence.
LEMMA SegmentIsSeq ==
    ASSUME NEW S, NEW m \in Nat, NEW f \in [1 .. m -> S]
    PROVE  f \in Seq(S) /\ Len(f) = m
BY SeqDef, LenProperties

-----------------------------------------------------------------------------
(* Writing buffers back *)

\* Writing the buffers of saved changes their blocks in the file and no other.
LEMMA WriteFile ==
    ASSUME TypeOK, OneBufferPerBlock, NEW saved \in SUBSET Buffers,
           \A b \in saved : assigned[b] # NoBlock,
           Write(saved)
    PROVE  /\ file' \in [Blocks -> Values]
           /\ fileLength' \in 0 .. NumBlocks
           /\ fileLength' >= fileLength
           /\ \A n \in Blocks :
                 (\A b \in saved : assigned[b] # n) => file'[n] = file[n]
           /\ \A b \in saved : file'[assigned[b]] = data[b]
<1>1. ASSUME NEW n \in Blocks, NEW b \in saved, assigned[b] = n
      PROVE  (CHOOSE c \in saved : assigned[c] = n) = b
  <2>1. ASSUME NEW c \in saved, assigned[c] = n
        PROVE  c = b
      BY <1>1, <2>1 DEF OneBufferPerBlock, TypeOK
  <2>2. /\ (CHOOSE c \in saved : assigned[c] = n) \in saved
        /\ assigned[CHOOSE c \in saved : assigned[c] = n] = n
      BY <1>1
  <2>3. QED
      BY <2>1, <2>2
<1>2. \A b \in saved : assigned[b] \in Blocks
    BY DEF TypeOK
<1>3. \A b \in saved : file'[assigned[b]] = data[b]
    BY <1>1, <1>2 DEF Write
<1>4. \A n \in Blocks :
          (\A b \in saved : assigned[b] # n) => file'[n] = file[n]
    BY DEF Write
<1>5. file' \in [Blocks -> Values]
  <2>1. \A n \in Blocks : file'[n] \in Values
      BY <1>3, <1>4 DEF TypeOK
  <2>2. QED
      BY <2>1 DEF Write
<1>6. fileLength' \in 0 .. NumBlocks /\ fileLength' >= fileLength
    BY <1>2, Constants DEF Write, TypeOK, Blocks
<1>7. QED
    BY <1>3, <1>4, <1>5, <1>6

\* SaveBuffer and SaveBuffers keep types, and never shorten the file.
LEMMA SaveType ==
    ASSUME TypeOK, OneBufferPerBlock, NEW S \in SUBSET Buffers, Save(S)
    PROVE  /\ file' \in [Blocks -> Values]
           /\ fileLength' \in 0 .. NumBlocks
           /\ fileLength' >= fileLength
           /\ updated' \in [Buffers -> BOOLEAN]
<1>1. PICK saved \in SUBSET Updated(S), lost \in SUBSET Updated(S) :
          /\ Ends(S, saved, lost)
          /\ updated' = [b \in Buffers |-> updated[b] /\ b \notin saved \cup lost]
    BY DEF Save
<1>2. saved \in SUBSET Buffers
    BY DEF Updated
<1>3. \A b \in saved : assigned[b] # NoBlock
    BY <1>1 DEF Ends
<1>4. Write(saved)
    BY <1>1 DEF Ends
<1>5. /\ file' \in [Blocks -> Values]
      /\ fileLength' \in 0 .. NumBlocks
      /\ fileLength' >= fileLength
    BY <1>2, <1>3, <1>4, WriteFile
<1>6. updated' \in [Buffers -> BOOLEAN]
    BY <1>1, Zenon DEF TypeOK
<1>7. QED
    BY <1>5, <1>6

-----------------------------------------------------------------------------
(* Getting a block *)

\* What AssignBuffer leaves behind: buffer b holds block n, and no other does.
LEMMA AssignBuffer ==
    ASSUME IInv, NEW n \in Blocks, NEW read \in BOOLEAN, NEW b \in Buffers,
           Hit(n, b) \/ Miss(n, read, b)
    PROVE  /\ file' \in [Blocks -> Values]
           /\ fileLength' \in 0 .. NumBlocks
           /\ data' \in [Buffers -> Values]
           /\ updated' \in [Buffers -> BOOLEAN]
           /\ assigned' = [assigned EXCEPT ![b] = n]
           /\ assigned' \in [Buffers -> Blocks \cup {NoBlock}]
           /\ OneBufferPerBlock'
<1>1. CASE Hit(n, b)
  <2>1. UNCHANGED <<file, fileLength, data, assigned, updated>>
      BY <1>1 DEF Hit, fileVars
  <2>2. assigned = [assigned EXCEPT ![b] = n]
      BY <1>1 DEF Hit, IInv, TypeOK
  <2>3. QED
      BY <2>1, <2>2 DEF IInv, TypeOK, OneBufferPerBlock
<1>2. CASE Miss(n, read, b)
  <2>1. Save({b})
      BY <1>2 DEF Miss
  <2>2. /\ file' \in [Blocks -> Values]
        /\ fileLength' \in 0 .. NumBlocks
        /\ updated' \in [Buffers -> BOOLEAN]
      BY <2>1, SaveType DEF IInv
  <2>3. data' \in [Buffers -> Values]
      BY <1>2, <2>2 DEF Miss, IInv, TypeOK
  <2>4. /\ assigned' = [assigned EXCEPT ![b] = n]
        /\ \A c \in Buffers : assigned[c] # n
      BY <1>2 DEF Miss
  <2>5. assigned' \in [Buffers -> Blocks \cup {NoBlock}]
      BY <2>4 DEF IInv, TypeOK
  <2>6. OneBufferPerBlock'
      BY <2>4 DEF IInv, TypeOK, OneBufferPerBlock
  <2>7. QED
      BY <2>2, <2>3, <2>4, <2>5, <2>6
<1>3. QED
    BY <1>1, <1>2

\* A block's place in the history is that of its buffer in mLRUBuffers.  (For
\* a block that comes in, the last place that either list can drop.)
LEMMA SamePlace ==
    ASSUME IInv, NEW n \in Blocks, NEW read \in BOOLEAN, NEW b \in Buffers,
           Hit(n, b) \/ Miss(n, read, b),
           NEW p \in Buffers, lru[p] = b,
           NEW k \in 1 .. NumBuffers,
           \/ k \in DOMAIN recent /\ recent[k] = n
           \/ /\ \A i \in DOMAIN recent : recent[i] # n
              /\ k = IF Len(recent) < NumBuffers THEN Len(recent) + 1
                     ELSE NumBuffers
    PROVE  /\ k <= p + 1
           /\ k <= Len(recent) => p = k - 1
           /\ k > Len(recent) => k = Len(recent) + 1
<1>1. /\ Len(recent) \in Nat /\ Len(recent) <= NumBuffers
      /\ DOMAIN recent = 1 .. Len(recent)
      /\ \A i \in 1 .. Len(recent) : recent[i] \in Blocks
    BY LenProperties DEF IInv, TypeOK, RecentIsLRU
<1>2. CASE Hit(n, b)
  <2>1. assigned[lru[p]] = n /\ n # NoBlock
      BY <1>2, Constants DEF Hit
  <2>2. p < Len(recent)
      BY <1>1, <2>1, Constants DEF IInv, RecentIsLRU, Buffers
  <2>3. recent[p + 1] = n /\ p + 1 \in DOMAIN recent
      BY <1>1, <2>1, <2>2, BufferNumbers DEF IInv, RecentIsLRU
  <2>4. k \in DOMAIN recent /\ recent[k] = n
      BY <2>3
  <2>5. k - 1 \in Buffers /\ assigned[lru[k - 1]] = n
    <3>1. k - 1 \in Buffers
        BY <1>1, <2>4, BufferNumbers, Constants
    <3>2. QED
        BY <1>1, <2>4, <3>1 DEF IInv, RecentIsLRU
  <2>6. lru[k - 1] = lru[p]
      BY <2>1, <2>5 DEF IInv, TypeOK, OneBufferPerBlock
  <2>7. p = k - 1
      BY <2>5, <2>6, LRUInjective DEF IInv
  <2>8. QED
      BY <1>1, <2>4, <2>7, BufferNumbers
<1>3. CASE Miss(n, read, b)
  <2>1. /\ \A c \in Buffers : assigned[c] # n
        /\ IsAvailable(b)
      BY <1>3 DEF Miss
  <2>2. \A i \in DOMAIN recent : recent[i] # n
    <3>1. \A i \in 1 .. Len(recent) : i - 1 \in Buffers
        BY <1>1, BufferNumbers, Constants
    <3>2. \A i \in 1 .. Len(recent) : lru[i - 1] \in Buffers
        BY <3>1 DEF IInv, TypeOK
    <3>3. QED
        BY <1>1, <2>1, <3>2 DEF IInv, RecentIsLRU
  <2>3. k = IF Len(recent) < NumBuffers THEN Len(recent) + 1 ELSE NumBuffers
      BY <2>2
  <2>4. CASE Unassigned = {}
    <3>1. lru[p] = lru[NumBuffers - 1]
        BY <2>1, <2>4 DEF IsAvailable
    <3>2. p = NumBuffers - 1
        BY <3>1, LRUInjective, BufferNumbers DEF IInv
    <3>3. QED
        BY <1>1, <2>3, <3>2, Constants
  <2>5. CASE Unassigned # {}
    <3>1. assigned[lru[p]] = NoBlock
        BY <2>1, <2>5 DEF IsAvailable, Unassigned
    <3>2. p >= Len(recent)
      <4>1. SUFFICES ASSUME p < Len(recent) PROVE FALSE
          BY <1>1, BufferNumbers
      <4>2. p + 1 \in 1 .. Len(recent)
          BY <1>1, <4>1, BufferNumbers
      <4>3. assigned[lru[p]] = recent[p + 1]
          BY <4>2, BufferNumbers DEF IInv, RecentIsLRU
      <4>4. QED
          BY <1>1, <3>1, <4>2, <4>3, Constants
    <3>3. QED
        BY <1>1, <2>3, <3>2, BufferNumbers, Constants
  <2>6. QED
      BY <2>4, <2>5
<1>4. QED
    BY <1>2, <1>3

\* GetBlock keeps the invariant.
LEMMA GetBlockInv ==
    ASSUME IInv, NEW n \in Blocks, NEW read \in BOOLEAN, GetBlock(n, read),
           numBlocks' \in 0 .. NumBlocks
    PROVE  IInv'
<1>1. PICK b \in Buffers :
          /\ Hit(n, b) \/ Miss(n, read, b)
          /\ current' = b
          /\ UpdateLRU(b)
          /\ Remember(n)
    BY DEF GetBlock
<1>2. /\ assigned' = [assigned EXCEPT ![b] = n]
      /\ assigned' \in [Buffers -> Blocks \cup {NoBlock}]
      /\ OneBufferPerBlock'
    BY <1>1, AssignBuffer
<1>3. lru' \in [Buffers -> Buffers] /\ LRUIsPermutation'
    BY <1>1, UpdateLRUPermutes DEF IInv
<1>4. CurrentIsAssigned'
    BY <1>1, <1>2, Constants DEF CurrentIsAssigned, IInv, TypeOK
<1>5. PICK p \in Buffers :
          /\ lru[p] = b
          /\ lru' = [j \in Buffers |-> IF j = 0 THEN b
                                       ELSE IF j <= p THEN lru[j - 1]
                                       ELSE lru[j]]
    BY <1>1 DEF UpdateLRU
<1>6. PICK k \in 1 .. NumBuffers :
          /\ \/ k \in DOMAIN recent /\ recent[k] = n
             \/ /\ \A i \in DOMAIN recent : recent[i] # n
                /\ k = IF Len(recent) < NumBuffers THEN Len(recent) + 1
                       ELSE NumBuffers
          /\ recent' = [j \in 1 .. (IF k > Len(recent) THEN k
                                    ELSE Len(recent)) |->
                           IF j = 1 THEN n
                           ELSE IF j <= k THEN recent[j - 1]
                           ELSE recent[j]]
    BY <1>1 DEF Remember
<1>7. /\ k <= p + 1
      /\ k <= Len(recent) => p = k - 1
      /\ k > Len(recent) => k = Len(recent) + 1
    BY <1>1, <1>5, <1>6, SamePlace
<1>8. /\ Len(recent) \in Nat /\ Len(recent) <= NumBuffers
      /\ \A i \in 1 .. Len(recent) : recent[i] \in Blocks
    BY LenProperties DEF IInv, TypeOK, RecentIsLRU
<1> DEFINE m == IF k > Len(recent) THEN k ELSE Len(recent)
<1>9. /\ m \in Nat /\ m <= NumBuffers
      /\ recent' \in [1 .. m -> Blocks]
  <2>1. m \in Nat /\ m <= NumBuffers
      BY <1>8, Constants
  <2>2. \A j \in 1 .. m : recent'[j] \in Blocks
      BY <1>6, <1>7, <1>8
  <2>3. QED
      BY <1>6, <2>1, <2>2
<1>10. recent' \in Seq(Blocks) /\ Len(recent') = m
    BY <1>9, SegmentIsSeq
<1>11. RecentIsLRU'
  <2>1. /\ lru'[0] = b
        /\ \A j \in Buffers : j # 0 /\ j <= p => lru'[j] = lru[j - 1]
        /\ \A j \in Buffers : j > p => lru'[j] = lru[j]
      BY <1>5, BufferNumbers
  <2>2. /\ assigned'[b] = n
        /\ \A c \in Buffers : c # b => assigned'[c] = assigned[c]
      BY <1>2 DEF IInv, TypeOK
  <2>3. \A j \in Buffers : j # p => lru[j] # b
      BY <1>5, LRUInjective DEF IInv
  <2>4. /\ lru \in [Buffers -> Buffers]
        /\ \A i \in 1 .. Len(recent) : assigned[lru[i - 1]] = recent[i]
        /\ \A i \in Len(recent) .. NumBuffers - 1 : assigned[lru[i]] = NoBlock
      BY DEF IInv, TypeOK, RecentIsLRU
  <2>5. ASSUME NEW i \in 1 .. m
        PROVE  assigned'[lru'[i - 1]] = recent'[i]
    <3>1. i - 1 \in Buffers
        BY <1>9, BufferNumbers, Constants
    <3>2. CASE i = 1
        BY <1>6, <1>9, <2>1, <2>2, <3>2
    <3>3. CASE i # 1 /\ i <= k
      <4>1. i - 2 \in Buffers /\ lru'[i - 1] = lru[i - 2] /\ i - 2 # p
        <5>1. i - 1 # 0 /\ i - 1 <= p
            BY <1>6, <1>7, <3>3, BufferNumbers, Constants
        <5>2. (i - 1) - 1 = i - 2
            OBVIOUS
        <5>3. lru'[i - 1] = lru[i - 2]
            BY <2>1, <3>1, <5>1, <5>2
        <5>4. i - 2 \in Buffers /\ i - 2 # p
          <6>1. i - 1 \in Int /\ i - 1 >= 0 /\ i - 1 < NumBuffers
              BY <3>1, BufferNumbers
          <6>2. i - 2 \in Int /\ i - 2 >= 0 /\ i - 2 < NumBuffers
              BY <5>1, <6>1, Constants
          <6>3. QED
              BY <5>1, <6>1, <6>2, BufferNumbers
        <5>5. QED
            BY <5>3, <5>4
      <4>2. lru[i - 2] \in Buffers /\ lru[i - 2] # b
          BY <2>3, <2>4, <4>1
      <4>3. recent'[i] = recent[i - 1]
          BY <1>6, <3>3
      <4>4. assigned[lru[i - 2]] = recent[i - 1]
        <5>1. i - 1 \in 1 .. Len(recent)
            BY <1>7, <1>8, <3>3
        <5>2. (i - 1) - 1 = i - 2
            OBVIOUS
        <5>3. QED
            BY <2>4, <5>1, <5>2
      <4>5. QED
          BY <2>2, <4>1, <4>2, <4>3, <4>4
    <3>4. CASE i > k
      <4>1. lru'[i - 1] = lru[i - 1] /\ i - 1 # p /\ i \in 1 .. Len(recent)
          BY <1>7, <1>8, <2>1, <3>1, <3>4, BufferNumbers
      <4>2. lru[i - 1] \in Buffers /\ lru[i - 1] # b
          BY <2>3, <2>4, <3>1, <4>1
      <4>3. recent'[i] = recent[i]
          BY <1>6, <3>4
      <4>4. QED
          BY <2>2, <2>4, <4>1, <4>2, <4>3
    <3>5. QED
        BY <3>2, <3>3, <3>4
  <2>6. ASSUME NEW i \in m .. NumBuffers - 1
        PROVE  assigned'[lru'[i]] = NoBlock
    <3>1. i \in Buffers /\ i # 0 /\ i >= Len(recent)
        BY <1>8, <1>9, BufferNumbers, Constants
    <3>2. CASE i <= p
      <4>1. /\ lru'[i] = lru[i - 1] /\ i - 1 \in Buffers /\ i - 1 # p
            /\ i - 1 \in Len(recent) .. NumBuffers - 1
          BY <1>7, <1>8, <2>1, <3>1, <3>2, BufferNumbers, Constants
      <4>2. QED
          BY <2>2, <2>3, <2>4, <4>1
    <3>3. CASE i > p
      <4>1. /\ lru'[i] = lru[i] /\ i # p
            /\ i \in Len(recent) .. NumBuffers - 1
          BY <1>8, <2>1, <3>1, <3>3, BufferNumbers, Constants
      <4>2. QED
          BY <2>2, <2>3, <2>4, <3>1, <4>1
    <3>4. QED
        BY <3>1, <3>2, <3>3, BufferNumbers
  <2>7. QED
      BY <1>9, <1>10, <2>5, <2>6 DEF RecentIsLRU
<1>12. TypeOK'
    BY <1>1, <1>3, <1>10, AssignBuffer DEF TypeOK
<1>13. QED
    BY <1>2, <1>3, <1>4, <1>11, <1>12 DEF IInv

-----------------------------------------------------------------------------
(* Every step *)

\* EmptyBuffers makes the invariant true of the buffers.
LEMMA EmptyInv ==
    ASSUME Empty,
           file' \in [Blocks -> Values], fileLength' \in 0 .. NumBlocks,
           data' \in [Buffers -> Values], numBlocks' \in 0 .. NumBlocks
    PROVE  IInv'
<1>1. recent' \in Seq(Blocks) /\ Len(recent') = 0
    BY EmptySeq DEF Empty
<1>2. lru' \in [Buffers -> Buffers] /\ LRUIsPermutation'
    BY EmptyPermutes
<1>3. TypeOK'
    BY <1>1, <1>2 DEF Empty, TypeOK
<1>4. RecentIsLRU'
    BY <1>1, <1>2, BufferNumbers, Constants DEF Empty, RecentIsLRU, Buffers
<1>5. OneBufferPerBlock' /\ CurrentIsAssigned'
    BY DEF Empty, OneBufferPerBlock, CurrentIsAssigned
<1>6. QED
    BY <1>2, <1>3, <1>4, <1>5 DEF IInv

LEMMA InitInv == Init => IInv
<1> SUFFICES ASSUME Init PROVE IInv
    OBVIOUS
<1>1. recent \in Seq(Blocks) /\ Len(recent) = 0
    BY EmptySeq DEF Init
<1>2. TypeOK
    BY <1>1, Constants DEF Init, TypeOK
<1>3. RecentIsLRU
    BY <1>1, BufferNumbers, Constants DEF Init, RecentIsLRU, Buffers
<1>4. OneBufferPerBlock /\ LRUIsPermutation /\ CurrentIsAssigned
    BY DEF Init, OneBufferPerBlock, LRUIsPermutation, CurrentIsAssigned
<1>5. QED
    BY <1>2, <1>3, <1>4 DEF IInv

LEMMA FlushInv ==
    ASSUME IInv, Flush
    PROVE  IInv'
<1>1. recent' \in Seq(Blocks) /\ Len(recent') = 0
    BY EmptySeq DEF Flush
<1>2. Save(Buffers)
    BY DEF Flush
<1>3. /\ file' \in [Blocks -> Values]
      /\ fileLength' \in 0 .. NumBlocks
      /\ updated' \in [Buffers -> BOOLEAN]
    BY <1>2, SaveType DEF IInv
<1>4. TypeOK'
    BY <1>1, <1>3 DEF Flush, TypeOK, IInv
<1>5. RecentIsLRU'
    BY <1>1, Constants DEF Flush, RecentIsLRU, IInv, TypeOK, Buffers
<1>6. OneBufferPerBlock' /\ LRUIsPermutation' /\ CurrentIsAssigned'
    BY DEF Flush, OneBufferPerBlock, LRUIsPermutation, CurrentIsAssigned, IInv
<1>7. QED
    BY <1>4, <1>5, <1>6 DEF IInv

\* Steps that only change contents, marks, the file or the count of blocks.
LEMMA SameBuffersInv ==
    ASSUME IInv, UNCHANGED <<assigned, lru, current, recent>>,
           file' \in [Blocks -> Values], fileLength' \in 0 .. NumBlocks,
           data' \in [Buffers -> Values], updated' \in [Buffers -> BOOLEAN],
           numBlocks' \in 0 .. NumBlocks
    PROVE  IInv'
<1>1. TypeOK'
    BY DEF IInv, TypeOK
<1>2. OneBufferPerBlock' /\ LRUIsPermutation' /\ CurrentIsAssigned'
    BY DEF IInv, OneBufferPerBlock, LRUIsPermutation, CurrentIsAssigned
<1>3. RecentIsLRU'
    BY DEF IInv, RecentIsLRU
<1>4. QED
    BY <1>1, <1>2, <1>3 DEF IInv

LEMMA NextInv == IInv /\ [Next]_blockVars => IInv'
<1> SUFFICES ASSUME IInv, [Next]_blockVars PROVE IInv'
    OBVIOUS
<1> USE DEF fileVars
<1>1. ASSUME NEW n \in Blocks, Block(n) PROVE IInv'
    BY <1>1, GetBlockInv DEF Block, IInv, TypeOK
<1>2. ASSUME NEW n \in Blocks, Buffer(n) PROVE IInv'
    BY <1>2, GetBlockInv DEF Buffer, IInv, TypeOK
<1>3. ASSUME NEW v \in Values, Store(v) PROVE IInv'
    BY <1>3, SameBuffersInv DEF Store, IInv, TypeOK
<1>4. CASE Update
    BY <1>4, SameBuffersInv DEF Update, IInv, TypeOK
<1>5. CASE SaveBuffers
    BY <1>5, SaveType, SameBuffersInv DEF SaveBuffers, IInv, TypeOK
<1>6. CASE Flush
    BY <1>6, FlushInv
<1>7. CASE EmptyBuffers
    BY <1>7, EmptyInv DEF EmptyBuffers, IInv, TypeOK
<1>8. CASE Restart
  <2>1. PICK saved \in SUBSET Updated(Buffers) : Ends(Buffers, saved, {})
      BY <1>8 DEF Restart
  <2>2. saved \in SUBSET Buffers /\ \A b \in saved : assigned[b] # NoBlock
      BY <2>1 DEF Ends, Updated
  <2>3. file' \in [Blocks -> Values] /\ fileLength' \in 0 .. NumBlocks
      BY <2>1, <2>2, WriteFile DEF Ends, IInv
  <2>4. data' \in [Buffers -> Values] /\ numBlocks' \in 0 .. NumBlocks
      BY <1>8, Constants DEF Restart
  <2>5. QED
      BY <1>8, <2>3, <2>4, EmptyInv DEF Restart
<1>9. CASE Crash
  <2>1. data' \in [Buffers -> Values] /\ numBlocks' \in 0 .. NumBlocks
      BY <1>9, Constants DEF Crash
  <2>2. QED
      BY <1>9, <2>1, EmptyInv DEF Crash, IInv, TypeOK
<1>10. CASE CountBlocks
    BY <1>10, SameBuffersInv DEF CountBlocks, IInv, TypeOK, bufferVars
<1>11. CASE UNCHANGED blockVars
    BY <1>11, SameBuffersInv DEF blockVars, bufferVars, IInv, TypeOK
<1>12. QED
    BY <1>1, <1>2, <1>3, <1>4, <1>5, <1>6, <1>7, <1>8, <1>9, <1>10, <1>11
       DEF Next

-----------------------------------------------------------------------------
(* The theorems *)

LEMMA Invariant == Spec => []IInv
BY InitInv, NextInv, PTL DEF Spec

\* Whatever reading and writing the block file comes to, the tables of
\* BlockFileManager hold buffers, blocks and lengths, as the model says.
THEOREM BlocksTypeCorrect == Spec => []TypeOK
<1>1. IInv => TypeOK
    BY DEF IInv
<1>2. QED
    BY <1>1, Invariant, PTL

\* AssignBuffer never gives a block that is in a buffer a second one.
THEOREM BlockHasOneBuffer == Spec => []OneBufferPerBlock
<1>1. IInv => OneBufferPerBlock
    BY DEF IInv
<1>2. QED
    BY <1>1, Invariant, PTL

\* UpdateLRU neither loses a buffer nor lists one twice.
THEOREM LRUKeepsBuffers == Spec => []LRUIsPermutation
<1>1. IInv => LRUIsPermutation
    BY DEF IInv
<1>2. QED
    BY <1>1, Invariant, PTL

\* AssignBuffer replaces the least recently used block: with N buffers, the
\* N blocks used last keep theirs.
THEOREM RecentlyUsedStays == Spec => []RecentBlocksStay
<1>1. ASSUME IInv
      PROVE  RecentBlocksStay
  <2>1. /\ Len(recent) \in Nat
        /\ DOMAIN recent = 1 .. Len(recent)
      BY <1>1, LenProperties DEF IInv, TypeOK
  <2>2. ASSUME NEW i \in DOMAIN recent
        PROVE  \E b \in Buffers : assigned[b] = recent[i]
    <3>1. i - 1 \in Buffers
        BY <1>1, <2>1, BufferNumbers, Constants DEF IInv, RecentIsLRU
    <3>2. lru[i - 1] \in Buffers /\ assigned[lru[i - 1]] = recent[i]
        BY <1>1, <2>1, <3>1 DEF IInv, RecentIsLRU, TypeOK
    <3>3. QED
        BY <3>2
  <2>3. QED
      BY <2>2 DEF RecentBlocksStay
<1>2. QED
    BY <1>1, Invariant, PTL

-----------------------------------------------------------------------------
(* The buffers implement BlockStore: the invariant *)

\* The invariant without file errors: no update is left in a buffer that has
\* no block to write it to.
RInv == IInv /\ UpdatedIsAssigned

-----------------------------------------------------------------------------
(* The refinement mapping *)

\* The buffer chosen for a block is the one that holds it.
LEMMA ChosenBuffer ==
    ASSUME NEW a, NEW b \in Buffers, \A c \in Buffers : a[c] = a[b] => c = b
    PROVE  (CHOOSE c \in Buffers : a[c] = a[b]) = b
<1>1. /\ (CHOOSE c \in Buffers : a[c] = a[b]) \in Buffers
      /\ a[CHOOSE c \in Buffers : a[c] = a[b]] = a[b]
    OBVIOUS
<1>2. QED
    BY <1>1

\* A block has the content of its buffer, or of the file if it has none.
LEMMA Contents ==
    ASSUME IInv
    PROVE  /\ \A b \in Buffers :
                 assigned[b] # NoBlock => Content[assigned[b]] = data[b]
           /\ \A n \in Blocks : ~Buffered(n) => Content[n] = file[n]
           /\ Content = [n \in Blocks |-> Content[n]]
<1>1. ASSUME NEW b \in Buffers, assigned[b] # NoBlock
      PROVE  Content[assigned[b]] = data[b]
  <2>1. assigned[b] \in Blocks /\ Buffered(assigned[b])
      BY <1>1 DEF IInv, TypeOK, Buffered
  <2>2. BufferOf(assigned[b]) = b
      BY <1>1, ChosenBuffer DEF BufferOf, IInv, OneBufferPerBlock
  <2>3. QED
      BY <2>1, <2>2 DEF Content
<1>2. QED
    BY <1>1 DEF Content

\* The same in the next state.
LEMMA ContentsNext ==
    ASSUME IInv'
    PROVE  /\ \A b \in Buffers :
                 assigned'[b] # NoBlock => Content'[assigned'[b]] = data'[b]
           /\ \A n \in Blocks : ~Buffered(n)' => Content'[n] = file'[n]
           /\ Content' = [n \in Blocks |-> Content'[n]]
<1>1. ASSUME NEW b \in Buffers, assigned'[b] # NoBlock
      PROVE  Content'[assigned'[b]] = data'[b]
  <2>1. assigned'[b] \in Blocks /\ Buffered(assigned[b])'
      BY <1>1 DEF IInv, TypeOK, Buffered
  <2>2. (CHOOSE c \in Buffers : assigned'[c] = assigned'[b]) = b
      BY <1>1, ChosenBuffer DEF IInv, OneBufferPerBlock
  <2>3. QED
      BY <2>1, <2>2 DEF Content, BufferOf, Buffered
<1>2. QED
    BY <1>1 DEF Content

\* Without errors all that is updated in S is written, to its own block.
LEMMA EndsAll ==
    ASSUME RInv, ~Faulty, NEW S \in SUBSET Buffers,
           NEW saved \in SUBSET Updated(S), NEW lost \in SUBSET Updated(S),
           Ends(S, saved, lost)
    PROVE  /\ saved = Updated(S)
           /\ lost = {}
           /\ fileLength' >= fileLength
           /\ file' = [n \in Blocks |->
                          IF \E b \in Updated(S) : assigned[b] = n
                          THEN Content[n] ELSE file[n]]
<1>1. saved = Updated(S)
    BY DEF Ends, Updated, RInv, UpdatedIsAssigned
<1>2. lost = {}
    BY <1>1 DEF Ends
<1>3. saved \in SUBSET Buffers /\ (\A b \in saved : assigned[b] # NoBlock)
    BY DEF Ends, Updated
<1>4. /\ file' \in [Blocks -> Values]
      /\ fileLength' >= fileLength
      /\ \A n \in Blocks :
            (\A b \in saved : assigned[b] # n) => file'[n] = file[n]
      /\ \A b \in saved : file'[assigned[b]] = data[b]
    BY <1>3, WriteFile DEF Ends, RInv, IInv
<1>5. \A b \in saved : file'[assigned[b]] = Content[assigned[b]]
    BY <1>3, <1>4, Contents DEF RInv
<1>6. QED
    BY <1>1, <1>2, <1>4, <1>5

LEMMA SaveAll ==
    ASSUME RInv, ~Faulty, NEW S \in SUBSET Buffers, Save(S)
    PROVE  /\ updated' = [b \in Buffers |-> updated[b] /\ b \notin S]
           /\ fileLength' >= fileLength
           /\ file' = [n \in Blocks |->
                          IF \E b \in Updated(S) : assigned[b] = n
                          THEN Content[n] ELSE file[n]]
<1>1. PICK saved \in SUBSET Updated(S), lost \in SUBSET Updated(S) :
          /\ Ends(S, saved, lost)
          /\ updated' = [b \in Buffers |-> updated[b] /\ b \notin saved \cup lost]
    BY DEF Save
<1>2. saved = Updated(S) /\ lost = {}
    BY <1>1, EndsAll
<1>3. \A b \in Buffers :
          (updated[b] /\ b \notin saved \cup lost) <=> (updated[b] /\ b \notin S)
    BY <1>2 DEF Updated
<1>4. QED
    BY <1>1, <1>3, EndsAll

-----------------------------------------------------------------------------
(* Every step *)

\* A block with announced changes is one in an updated buffer.
LEMMA DirtyBlocks ==
    ASSUME RInv
    PROVE  \A n : n \in Dirty <=>
                     \E b \in Buffers : updated[b] /\ assigned[b] = n
BY DEF Dirty, Updated, RInv, UpdatedIsAssigned

LEMMA DirtyBlocksNext ==
    ASSUME RInv'
    PROVE  \A n : n \in Dirty' <=>
                     \E b \in Buffers : updated'[b] /\ assigned'[b] = n
BY DEF Dirty, Updated, RInv, UpdatedIsAssigned

\* A step that changes nothing but what is not mapped.
LEMMA Stutter ==
    ASSUME UNCHANGED <<file, data, assigned, updated>>
    PROVE  UNCHANGED <<Content, file, Dirty>>
<1>1. \A n : Buffered(n)' <=> Buffered(n)
    BY DEF Buffered
<1>2. \A n : BufferOf(n)' = BufferOf(n)
    BY DEF BufferOf
<1>3. UNCHANGED Content
    BY <1>1, <1>2 DEF Content
<1>4. UNCHANGED Dirty
    BY DEF Dirty, Updated
<1>5. QED
    BY <1>3, <1>4

\* All updated buffers are written and then all are unassigned: every block
\* has the content of the file, the announced changes in it.
LEMMA SettleAll ==
    ASSUME RInv, RInv',
           file' = [n \in Blocks |->
                       IF \E b \in Updated(Buffers) : assigned[b] = n
                       THEN Content[n] ELSE file[n]],
           \A b \in Buffers : assigned'[b] = NoBlock
    PROVE  Store_!StoreNext
<1>1. \A n \in Blocks : Content'[n] = file'[n]
    BY ContentsNext, Constants DEF RInv, Buffered
<1>2. Content' = [n \in Blocks |-> file'[n]]
    BY <1>1, ContentsNext DEF RInv
<1>3. Dirty' = {}
    BY DirtyBlocksNext DEF RInv, UpdatedIsAssigned
<1>4. \A n \in Blocks :
          (\E b \in Updated(Buffers) : assigned[b] = n) <=> n \in Dirty
    BY DirtyBlocks DEF Updated
<1>5. file' = [n \in Blocks |-> IF n \in Dirty THEN Content[n] ELSE file[n]]
    BY <1>4
<1>6. Store_!Settle(Dirty, Blocks)
    BY <1>2, <1>3, <1>5 DEF Store_!Settle
<1>7. QED
    BY <1>6 DEF Store_!StoreNext

\* The buffers are emptied: every block has the content of the file.
LEMMA GiveUpAll ==
    ASSUME RInv', UNCHANGED file, \A b \in Buffers : assigned'[b] = NoBlock
    PROVE  Store_!StoreNext
<1>1. \A n \in Blocks : Content'[n] = file[n]
    BY ContentsNext, Constants DEF RInv, Buffered
<1>2. Content' = [n \in Blocks |-> file[n]]
    BY <1>1, ContentsNext DEF RInv
<1>3. file = [n \in Blocks |-> file[n]]
    BY DEF RInv, IInv, TypeOK
<1>4. Dirty' = {}
    BY DirtyBlocksNext DEF RInv, UpdatedIsAssigned
<1>5. QED
    BY <1>2, <1>3, <1>4 DEF Store_!StoreNext, Store_!GiveUp

\* GetBlock of a block in no buffer: the block that has to go is written back
\* or has no announced changes, and the one that comes is read or is scratch.
LEMMA MissStep ==
    ASSUME RInv, RInv', ~Faulty,
           NEW n \in Blocks, NEW read \in BOOLEAN, NEW b \in Buffers,
           Miss(n, read, b),
           (read /\ n < fileLength) \/ n \in Fresh
    PROVE  Store_!StoreNext
<1> DEFINE old == assigned[b]
           saved == IF updated[b] THEN {old} ELSE {}
           dropped == IF old \in Blocks THEN {old} ELSE {}
<1>1. /\ \A c \in Buffers : assigned[c] # n
      /\ Save({b})
      /\ assigned' = [assigned EXCEPT ![b] = n]
      /\ \/ read /\ n < fileLength' /\ data' = [data EXCEPT ![b] = file'[n]]
         \/ (~read \/ n >= fileLength') /\ UNCHANGED data
    BY DEF Miss
<1>2. /\ updated' = [c \in Buffers |-> updated[c] /\ c \notin {b}]
      /\ fileLength' >= fileLength
      /\ file' = [k \in Blocks |->
                     IF \E c \in Updated({b}) : assigned[c] = k
                     THEN Content[k] ELSE file[k]]
    BY <1>1, SaveAll
<1>3. /\ data \in [Buffers -> Values]
      /\ assigned \in [Buffers -> Blocks \cup {NoBlock}]
      /\ fileLength \in Int /\ fileLength' \in Int
      /\ n \in Int
    BY Constants DEF RInv, IInv, TypeOK, Blocks
<1>4. file' = [k \in Blocks |-> IF k \in saved THEN Content[k] ELSE file[k]]
    BY <1>2 DEF Updated
<1>5. saved \in SUBSET Dirty
    BY DirtyBlocks
<1>6. Dirty' = Dirty \ saved
  <2>1. ASSUME NEW k
        PROVE  k \in Dirty' <=> k \in Dirty \ saved
    <3>1. k \in Dirty' <=> \E c \in Buffers : updated'[c] /\ assigned'[c] = k
        BY DirtyBlocksNext
    <3>2. (\E c \in Buffers : updated'[c] /\ assigned'[c] = k)
              <=> \E c \in Buffers : c # b /\ updated[c] /\ assigned[c] = k
        BY <1>1, <1>2, <1>3
    <3>3. k \in Dirty <=> \E c \in Buffers : updated[c] /\ assigned[c] = k
        BY DirtyBlocks
    <3>4. ASSUME NEW c \in Buffers, c # b, updated[c], updated[b]
          PROVE  assigned[c] # old
        BY <3>4 DEF RInv, UpdatedIsAssigned, IInv, OneBufferPerBlock
    <3>5. ASSUME NEW c \in Buffers, c # b, updated[c], assigned[c] = k
          PROVE  k \in Dirty \ saved
        BY <3>3, <3>4, <3>5
    <3>6. ASSUME k \in Dirty \ saved
          PROVE  \E c \in Buffers : c # b /\ updated[c] /\ assigned[c] = k
        BY <3>3, <3>6
    <3>7. QED
        BY <3>1, <3>2, <3>5, <3>6
  <2>2. QED
      BY <2>1
<1>7. dropped \cap Dirty' = {}
  <2>1. SUFFICES ASSUME old \in Dirty' PROVE FALSE
      OBVIOUS
  <2>2. PICK c \in Buffers : updated'[c] /\ assigned'[c] = old
      BY <2>1, DirtyBlocksNext
  <2>3. c # b /\ assigned[c] = old /\ updated[c]
      BY <1>1, <1>2, <1>3, <2>2
  <2>4. QED
      BY <2>3 DEF RInv, UpdatedIsAssigned, IInv, OneBufferPerBlock
<1>8. n \notin Dirty
    BY <1>1, DirtyBlocks
<1>9. ASSUME NEW k \in Blocks, k # n
      PROVE  Content'[k] = IF k \in dropped THEN file'[k] ELSE Content[k]
  <2>1. CASE k = old
    <3>1. ~Buffered(k)'
      <4>1. \A c \in Buffers : c # b => assigned[c] # k
          BY <2>1, <1>9, Constants DEF RInv, IInv, OneBufferPerBlock
      <4>2. \A c \in Buffers : assigned'[c] # k
          BY <1>1, <1>3, <1>9, <4>1
      <4>3. QED
          BY <4>2 DEF Buffered
    <3>2. Content'[k] = file'[k]
        BY <3>1, ContentsNext DEF RInv
    <3>3. QED
        BY <2>1, <3>2
  <2>2. CASE k # old /\ Buffered(k)
    <3>1. PICK c \in Buffers : assigned[c] = k
        BY <2>2 DEF Buffered
    <3>2. assigned'[c] = k /\ data'[c] = data[c]
        BY <1>1, <1>3, <2>2, <3>1
    <3>3. Content'[k] = data[c] /\ Content[k] = data[c]
        BY <3>1, <3>2, Contents, ContentsNext, Constants DEF RInv
    <3>4. QED
        BY <2>2, <3>3
  <2>3. CASE k # old /\ ~Buffered(k)
    <3>1. ~Buffered(k)'
        BY <1>1, <1>3, <1>9, <2>3 DEF Buffered
    <3>2. Content'[k] = file'[k] /\ Content[k] = file[k]
        BY <2>3, <3>1, Contents, ContentsNext DEF RInv
    <3>3. file'[k] = file[k]
        BY <1>4, <2>3
    <3>4. QED
        BY <2>3, <3>2, <3>3
  <2>4. QED
      BY <2>1, <2>2, <2>3
<1>10. n # old /\ n \notin dropped
    BY <1>1
<1>11. Content'[n] = data'[b] /\ Content[n] = file[n] /\ file'[n] = file[n]
  <2>1. assigned'[b] = n
      BY <1>1, <1>3
  <2>2. ~Buffered(n)
      BY <1>1 DEF Buffered
  <2>3. QED
      BY <1>4, <1>10, <2>1, <2>2, Contents, ContentsNext, Constants DEF RInv
<1>12. CASE read /\ n < fileLength'
  <2>1. Content'[n] = Content[n]
      BY <1>1, <1>3, <1>11, <1>12
  <2>2. Content' = [k \in Blocks |-> IF k \in dropped THEN file'[k]
                                     ELSE Content[k]]
      BY <1>9, <1>10, <2>1, ContentsNext DEF RInv
  <2>3. Store_!Settle(saved, dropped)
      BY <1>4, <1>6, <1>7, <2>2 DEF Store_!Settle
  <2>4. QED
      BY <1>5, <2>3 DEF Store_!StoreNext
<1>13. CASE ~(read /\ n < fileLength')
  <2>1. n \in Fresh
      BY <1>2, <1>3, <1>13
  <2>2. Content'[n] \in Values
      BY <1>1, <1>3, <1>11, <1>13
  <2>3. Content' = [k \in Blocks |-> IF k = n THEN Content'[n]
                                     ELSE IF k \in dropped THEN file'[k]
                                     ELSE Content[k]]
      BY <1>9, <1>10, ContentsNext DEF RInv
  <2>4. Store_!Provide(n, Content'[n], saved, dropped)
      BY <1>4, <1>6, <1>7, <1>8, <2>1, <2>3 DEF Store_!Provide
  <2>5. QED
      BY <1>5, <2>2, <2>4 DEF Store_!StoreNext
<1>14. QED
    BY <1>12, <1>13

\* GetBlock implements a stutter if the block has a buffer.
LEMMA GetBlockStep ==
    ASSUME RInv, RInv', ~Faulty, NEW n \in Blocks, NEW read \in BOOLEAN,
           GetBlock(n, read),
           Buffered(n) \/ (read /\ n < fileLength) \/ n \in Fresh
    PROVE  [Store_!StoreNext]_(Store_!storeVars)
<1>1. PICK b \in Buffers : Hit(n, b) \/ Miss(n, read, b)
    BY DEF GetBlock
<1>2. CASE Hit(n, b)
    BY <1>2, Stutter DEF Hit, fileVars, Store_!storeVars
<1>3. CASE Miss(n, read, b)
  <2>1. ~Buffered(n)
      BY <1>3 DEF Miss, Buffered
  <2>2. QED
      BY <1>3, <2>1, MissStep
<1>4. QED
    BY <1>1, <1>2, <1>3

\* A store edits the block of the current buffer.
LEMMA StoreStep ==
    ASSUME RInv, RInv', NEW v \in Values, Store(v)
    PROVE  Store_!StoreNext
<1> DEFINE n == assigned[current]
<1>1. /\ current \in Buffers
      /\ data' = [data EXCEPT ![current] = v]
      /\ UNCHANGED <<file, assigned, updated>>
    BY DEF Store, RInv, IInv, TypeOK, fileVars
<1>2. n # NoBlock /\ n \in Blocks
    BY <1>1, Constants DEF Store, RInv, IInv, TypeOK, CurrentIsAssigned
<1>3. Content'[n] = v
    BY <1>1, <1>2, ContentsNext DEF RInv, IInv, TypeOK
<1>4. ASSUME NEW k \in Blocks, k # n
      PROVE  Content'[k] = Content[k]
  <2>1. CASE Buffered(k)
    <3>1. PICK c \in Buffers : assigned[c] = k
        BY <2>1 DEF Buffered
    <3>2. data'[c] = data[c]
        BY <1>1, <1>4, <3>1 DEF RInv, IInv, TypeOK
    <3>3. QED
        BY <1>1, <3>1, <3>2, Contents, ContentsNext, Constants DEF RInv
  <2>2. CASE ~Buffered(k)
      BY <1>1, <2>2, Contents, ContentsNext DEF RInv, Buffered
  <2>3. QED
      BY <2>1, <2>2
<1>5. Content' = [Content EXCEPT ![n] = v]
    BY <1>2, <1>3, <1>4, Contents, ContentsNext DEF RInv
<1>6. UNCHANGED Dirty
    BY <1>1 DEF Dirty, Updated
<1>7. Store_!Edit(n, v)
    BY <1>1, <1>5, <1>6 DEF Store_!Edit
<1>8. QED
    BY <1>2, <1>7 DEF Store_!StoreNext

\* update announces the changes to the block of the current buffer.
LEMMA UpdateStep ==
    ASSUME RInv, RInv', Update
    PROVE  Store_!StoreNext
<1> DEFINE n == assigned[current]
<1>1. /\ current \in Buffers
      /\ updated' = [updated EXCEPT ![current] = TRUE]
      /\ UNCHANGED <<file, data, assigned>>
    BY DEF Update, RInv, IInv, TypeOK, fileVars
<1>2. n # NoBlock /\ n \in Blocks
    BY <1>1, Constants DEF Update, RInv, IInv, TypeOK, CurrentIsAssigned
<1>3. UNCHANGED Content
  <2>1. \A k : Buffered(k)' <=> Buffered(k)
      BY <1>1 DEF Buffered
  <2>2. \A k : BufferOf(k)' = BufferOf(k)
      BY <1>1 DEF BufferOf
  <2>3. QED
      BY <1>1, <2>1, <2>2 DEF Content
<1>4. \A c \in Buffers : updated'[c] <=> updated[c] \/ c = current
    BY <1>1 DEF RInv, IInv, TypeOK
<1>5. ASSUME NEW k
      PROVE  k \in Dirty' <=> k \in Dirty \cup {n}
    BY <1>1, <1>4, DirtyBlocks, DirtyBlocksNext
<1>6. Dirty' = Dirty \cup {n}
    BY <1>5
<1>7. Store_!Mark(n)
    BY <1>1, <1>3, <1>6 DEF Store_!Mark
<1>8. QED
    BY <1>2, <1>7 DEF Store_!StoreNext

\* save-buffers makes the announced changes durable and keeps the buffers.
LEMMA SaveBuffersStep ==
    ASSUME RInv, RInv', ~Faulty, SaveBuffers
    PROVE  Store_!StoreNext
<1>1. /\ updated' = [b \in Buffers |-> updated[b] /\ b \notin Buffers]
      /\ file' = [n \in Blocks |->
                     IF \E b \in Updated(Buffers) : assigned[b] = n
                     THEN Content[n] ELSE file[n]]
      /\ UNCHANGED <<data, assigned>>
    BY SaveAll DEF SaveBuffers
<1>2. Dirty' = {}
    BY <1>1, DirtyBlocksNext
<1>3. \A n \in Blocks :
          (\E b \in Updated(Buffers) : assigned[b] = n) <=> n \in Dirty
    BY DirtyBlocks DEF Updated
<1>4. file' = [n \in Blocks |-> IF n \in Dirty THEN Content[n] ELSE file[n]]
    BY <1>1, <1>3
<1>5. ASSUME NEW n \in Blocks
      PROVE  Content'[n] = Content[n]
  <2>1. CASE Buffered(n)
    <3>1. PICK b \in Buffers : assigned[b] = n
        BY <2>1 DEF Buffered
    <3>2. QED
        BY <1>1, <3>1, Contents, ContentsNext, Constants DEF RInv
  <2>2. CASE ~Buffered(n)
    <3>1. ~Buffered(n)'
        BY <1>1, <2>2 DEF Buffered
    <3>2. n \notin Dirty
        BY <2>2, DirtyBlocks DEF Buffered
    <3>3. QED
        BY <1>4, <2>2, <3>1, <3>2, Contents, ContentsNext DEF RInv
  <2>3. QED
      BY <2>1, <2>2
<1>6. Content' = [n \in Blocks |-> Content[n]]
    BY <1>5, ContentsNext DEF RInv
<1>7. Store_!Settle(Dirty, {})
    BY <1>2, <1>4, <1>6 DEF Store_!Settle
<1>8. QED
    BY <1>7 DEF Store_!StoreNext

-----------------------------------------------------------------------------
(* The theorems *)

\* The buffer that AssignBuffer takes from a block is marked no more.
LEMMA GetBlockUpdated ==
    ASSUME RInv, ~Faulty, NEW n \in Blocks, NEW read \in BOOLEAN,
           GetBlock(n, read)
    PROVE  UpdatedIsAssigned'
<1>1. PICK b \in Buffers : Hit(n, b) \/ Miss(n, read, b)
    BY DEF GetBlock
<1>2. CASE Hit(n, b)
    BY <1>2 DEF Hit, RInv, UpdatedIsAssigned
<1>3. CASE Miss(n, read, b)
  <2>1. Save({b})
      BY <1>3 DEF Miss
  <2>2. updated' = [c \in Buffers |-> updated[c] /\ c \notin {b}]
      BY <2>1, SaveAll
  <2>3. QED
      BY <1>3, <2>2 DEF Miss, RInv, IInv, TypeOK, UpdatedIsAssigned
<1>4. QED
    BY <1>1, <1>2, <1>3

\* Writing back what is updated and only then unassigning it keeps every mark
\* on a buffer that has a block.
LEMMA RInvNext ==
    ASSUME RInv, ~Faulty, [Next]_blockVars
    PROVE  RInv'
<1>1. SUFFICES UpdatedIsAssigned'
    BY NextInv DEF RInv
<1> USE DEF fileVars
<1>3. ASSUME NEW n \in Blocks, Block(n) \/ Buffer(n) PROVE UpdatedIsAssigned'
    BY <1>3, GetBlockUpdated DEF Block, Buffer
<1>4. ASSUME NEW v \in Values, Store(v) PROVE UpdatedIsAssigned'
    BY <1>4 DEF Store, RInv, UpdatedIsAssigned
<1>5. CASE Update
    BY <1>5 DEF Update, RInv, IInv, TypeOK, CurrentIsAssigned, UpdatedIsAssigned
<1>6. CASE SaveBuffers \/ Flush
  <2>1. Save(Buffers)
      BY <1>6 DEF SaveBuffers, Flush
  <2>2. updated' = [b \in Buffers |-> updated[b] /\ b \notin Buffers]
      BY <2>1, SaveAll
  <2>3. QED
      BY <2>2 DEF UpdatedIsAssigned
<1>7. CASE EmptyBuffers \/ Restart \/ Crash
    BY <1>7 DEF EmptyBuffers, Restart, Crash, Empty, UpdatedIsAssigned
<1>8. CASE CountBlocks
    BY <1>8 DEF CountBlocks, bufferVars, RInv, UpdatedIsAssigned
<1>9. CASE UNCHANGED blockVars
    BY <1>9 DEF blockVars, bufferVars, RInv, UpdatedIsAssigned
<1>10. QED
    BY <1>3, <1>4, <1>5, <1>6, <1>7, <1>8, <1>9 DEF Next

LEMMA RInvInit == Init => RInv
BY InitInv DEF RInv, Init, UpdatedIsAssigned

\* As long as the block file can be read and written, no announced change is
\* left in a buffer without a block.
THEOREM UpdatesHaveBlocks ==
    ASSUME ~Faulty
    PROVE  Spec => []UpdatedIsAssigned
<1>1. RInv /\ [Next]_blockVars => RInv'
    BY RInvNext
<1>2. RInv => UpdatedIsAssigned
    BY DEF RInv
<1>3. QED
    BY <1>1, <1>2, RInvInit, PTL DEF Spec

\* Every step of the manager is a step of the array of blocks, or none.
LEMMA StoreSteps ==
    ASSUME RInv, RInv', ~Faulty, [Next]_blockVars
    PROVE  [Store_!StoreNext]_(Store_!storeVars)
<1>1. ASSUME NEW n \in Blocks, Block(n) \/ Buffer(n)
      PROVE  [Store_!StoreNext]_(Store_!storeVars)
    BY <1>1, GetBlockStep DEF Block, Buffer, MayRead
<1>2. ASSUME NEW v \in Values, Store(v)
      PROVE  Store_!StoreNext
    BY <1>2, StoreStep
<1>3. CASE Update
    BY <1>3, UpdateStep
<1>4. CASE SaveBuffers
    BY <1>4, SaveBuffersStep
<1>5. CASE Flush
  <2>1. /\ Save(Buffers)
        /\ \A b \in Buffers : assigned'[b] = NoBlock
      BY <1>5 DEF Flush
  <2>2. QED
      BY <2>1, SaveAll, SettleAll
<1>6. CASE Restart
  <2>1. PICK saved \in SUBSET Updated(Buffers) : Ends(Buffers, saved, {})
      BY <1>6 DEF Restart
  <2>2. file' = [n \in Blocks |->
                    IF \E b \in Updated(Buffers) : assigned[b] = n
                    THEN Content[n] ELSE file[n]]
      BY <2>1, EndsAll
  <2>3. \A b \in Buffers : assigned'[b] = NoBlock
      BY <1>6 DEF Restart, Empty
  <2>4. QED
      BY <2>2, <2>3, SettleAll
<1>7. CASE EmptyBuffers \/ Crash
    BY <1>7, GiveUpAll DEF EmptyBuffers, Crash, Empty, fileVars
<1>8. CASE CountBlocks \/ UNCHANGED blockVars
    BY <1>8, Stutter DEF CountBlocks, blockVars, bufferVars, fileVars,
                         Store_!storeVars
<1>9. QED
    BY <1>1, <1>2, <1>3, <1>4, <1>5, <1>6, <1>7, <1>8 DEF Next

\* The constructor's state is an array of blocks with nothing announced.
LEMMA StoreInit == Init => Store_!StoreInit
<1> SUFFICES ASSUME Init PROVE Store_!StoreInit
    OBVIOUS
<1>1. RInv
    BY RInvInit
<1>2. \A n \in Blocks : Content[n] = file[n]
    BY <1>1, Contents, Constants DEF Init, Buffered, RInv
<1>3. Content = file
    BY <1>1, <1>2, Contents DEF RInv, IInv, TypeOK
<1>4. Dirty = {}
    BY DEF Dirty, Updated, Init
<1>5. QED
    BY <1>1, <1>3, <1>4 DEF Store_!StoreInit, RInv, IInv, TypeOK

\* The manager's buffers and its file implement the array of blocks that the
\* help texts promise, if no read or write fails: a program that restarts,
\* crashes, flushes or runs out of buffers loses no announced change and finds
\* no block's content in another.
THEOREM BuffersImplementStore ==
    ASSUME ~Faulty
    PROVE  Spec => IsBlockStore
<1>1. RInv /\ [Next]_blockVars => RInv'
    BY RInvNext
<1>2. RInv /\ RInv' /\ [Next]_blockVars
          => [Store_!StoreNext]_(Store_!storeVars)
    BY StoreSteps
<1>3. QED
    BY <1>1, <1>2, RInvInit, StoreInit, PTL
       DEF Spec, IsBlockStore, Store_!StoreSpec

-----------------------------------------------------------------------------
(* Streams of blocks: the invariant *)

\* The blocks that stream s has yet to read are among the first length ones.
FitsIn(s, length) ==
    s.block # NoBlock /\ s.next <= s.last => s.last < length

SInv ==
    /\ RInv
    /\ StreamsTypeOK
    /\ streams # <<>>
    /\ numBlocks <= fileLength
    /\ \A i \in 1 .. Len(streams) : FitsIn(streams[i], fileLength)

-----------------------------------------------------------------------------
(* The block file never gets shorter *)

LEMMA GetBlockGrows ==
    ASSUME IInv, NEW n \in Blocks, NEW read \in BOOLEAN, GetBlock(n, read)
    PROVE  fileLength' >= fileLength
<1>1. PICK b \in Buffers : Hit(n, b) \/ Miss(n, read, b)
    BY DEF GetBlock
<1>2. CASE Hit(n, b)
    BY <1>2 DEF Hit, fileVars, IInv, TypeOK
<1>3. CASE Miss(n, read, b)
  <2>1. Save({b})
      BY <1>3 DEF Miss
  <2>2. QED
      BY <2>1, SaveType DEF IInv
<1>4. QED
    BY <1>1, <1>2, <1>3

LEMMA NextGrows ==
    ASSUME IInv, [Next]_blockVars
    PROVE  fileLength' >= fileLength
<1> USE DEF fileVars
<1>1. ASSUME NEW n \in Blocks, Block(n) \/ Buffer(n)
      PROVE  fileLength' >= fileLength
    BY <1>1, GetBlockGrows DEF Block, Buffer
<1>2. CASE SaveBuffers \/ Flush
  <2>1. Save(Buffers)
      BY <1>2 DEF SaveBuffers, Flush
  <2>2. QED
      BY <2>1, SaveType DEF IInv
<1>3. CASE Restart
    BY <1>3 DEF Restart, Ends, Write
<1>4. CASE \/ \E v \in Values : Store(v)
           \/ Update \/ EmptyBuffers \/ Crash \/ CountBlocks
           \/ UNCHANGED blockVars
  <2>1. UNCHANGED fileLength
      BY <1>4 DEF Store, Update, EmptyBuffers, Crash, CountBlocks, blockVars
  <2>2. QED
      BY <2>1 DEF IInv, TypeOK
<1>5. QED
    BY <1>1, <1>2, <1>3, <1>4 DEF Next

-----------------------------------------------------------------------------
(* Words that leave the streams alone *)

LEMMA WordInv ==
    ASSUME SInv, ~Faulty, [Next]_blockVars,
           UNCHANGED <<streams, blk, numBlocks>>,
           asked' \in Blocks \cup {NoBlock}
    PROVE  SInv'
<1>1. RInv'
    BY RInvNext DEF SInv
<1>2. fileLength' >= fileLength
    BY NextGrows DEF SInv, RInv
<1>3. fileLength \in Int /\ fileLength' \in Int /\ numBlocks \in Int
    BY <1>1 DEF SInv, RInv, IInv, TypeOK
<1>4. StreamsTypeOK' /\ streams' # <<>>
    BY <1>1 DEF SInv, RInv, IInv, StreamsTypeOK
<1>5. numBlocks' <= fileLength'
    BY <1>2, <1>3 DEF SInv
<1>6. ASSUME NEW i \in 1 .. Len(streams)
      PROVE  FitsIn(streams'[i], fileLength')
  <2>1. streams[i] \in Stream /\ FitsIn(streams[i], fileLength)
      BY ElementOfSeq DEF SInv, StreamsTypeOK
  <2>2. streams[i].last \in Int
      BY <2>1 DEF Stream
  <2>3. QED
      BY <1>2, <1>3, <2>1, <2>2 DEF FitsIn
<1>7. QED
    BY <1>1, <1>4, <1>5, <1>6 DEF SInv

-----------------------------------------------------------------------------
(* Words that push, advance or pop a stream *)

\* The stack t with stream s on top of rest.
LEMMA PushFits ==
    ASSUME NEW s \in Stream, NEW rest \in Seq(Stream), NEW length,
           FitsIn(s, length),
           \A i \in 1 .. Len(rest) : FitsIn(rest[i], length)
    PROVE  /\ <<s>> \o rest \in Seq(Stream)
           /\ <<s>> \o rest # <<>>
           /\ \A i \in 1 .. Len(<<s>> \o rest) :
                 FitsIn((<<s>> \o rest)[i], length)
<1> DEFINE t == <<s>> \o rest
<1>1. <<s>> \in Seq(Stream) /\ Len(<<s>>) = 1 /\ <<s>>[1] = s
    OBVIOUS
<1>2. /\ t \in Seq(Stream)
      /\ Len(t) = 1 + Len(rest)
      /\ \A i \in 1 .. 1 + Len(rest) :
            t[i] = IF i <= 1 THEN <<s>>[i] ELSE rest[i - 1]
    BY <1>1, ConcatProperties
<1>3. Len(rest) \in Nat
    BY LenProperties
<1>4. t # <<>>
    BY <1>2, <1>3, EmptySeq
<1>5. ASSUME NEW i \in 1 .. Len(t)
      PROVE  FitsIn(t[i], length)
  <2>1. CASE i = 1
      BY <1>1, <1>2, <1>3, <2>1
  <2>2. CASE i # 1
      BY <1>2, <1>3, <2>2
  <2>3. QED
      BY <2>1, <2>2
<1>6. QED
    BY <1>2, <1>4, <1>5

\* What is left when the top of the stack is popped.
LEMMA TailFits ==
    ASSUME SInv
    PROVE  /\ Top \in Stream /\ FitsIn(Top, fileLength)
           /\ Tail(streams) \in Seq(Stream)
           /\ \A i \in 1 .. Len(Tail(streams)) :
                 FitsIn(Tail(streams)[i], fileLength)
<1>1. streams \in Seq(Stream) /\ streams # <<>>
    BY DEF SInv, StreamsTypeOK
<1>2. Len(streams) \in Nat \ {0}
    BY <1>1, EmptySeq
<1>3. /\ Top = streams[1] /\ Top \in Stream
      /\ Tail(streams) \in Seq(Stream)
      /\ Len(Tail(streams)) = Len(streams) - 1
      /\ \A i \in 1 .. Len(Tail(streams)) : Tail(streams)[i] = streams[i + 1]
    BY <1>1, HeadTailProperties DEF Top
<1>4. FitsIn(Top, fileLength)
    BY <1>2, <1>3 DEF SInv
<1>5. ASSUME NEW i \in 1 .. Len(Tail(streams))
      PROVE  FitsIn(Tail(streams)[i], fileLength)
  <2>1. i + 1 \in 1 .. Len(streams)
      BY <1>2, <1>3
  <2>2. QED
      BY <1>3, <2>1 DEF SInv
<1>6. QED
    BY <1>3, <1>4, <1>5

\* Streams that fit still fit when the file has grown.
LEMMA GrowingFits ==
    ASSUME NEW t \in Seq(Stream), NEW length \in Int, NEW longer \in Int,
           length <= longer,
           \A i \in 1 .. Len(t) : FitsIn(t[i], length)
    PROVE  \A i \in 1 .. Len(t) : FitsIn(t[i], longer)
<1>1. ASSUME NEW i \in 1 .. Len(t)
      PROVE  FitsIn(t[i], longer)
  <2>1. t[i] \in Stream
      BY ElementOfSeq
  <2>2. t[i].last \in Int
      BY <2>1 DEF Stream
  <2>3. QED
      BY <2>2 DEF FitsIn
<1>2. QED
    BY <1>1

\* A stream reads block n, which is in a buffer, in the file, or scratch.
LEMMA ReadBlockInv ==
    ASSUME SInv, ~Faulty,
           NEW s \in Stream, NEW n \in Blocks, NEW rest \in Seq(Stream),
           \A i \in 1 .. Len(rest) : FitsIn(rest[i], fileLength),
           ReadBlock(s, n, rest),
           Buffered(n) \/ n < fileLength \/ n \in Fresh,
           n + 1 <= s.last => s.last < fileLength,
           numBlocks' \in 0 .. NumBlocks, numBlocks' <= fileLength,
           UNCHANGED asked
    PROVE  SInv' /\ [Store_!StoreNext]_(Store_!storeVars)
<1>1. /\ GetBlock(n, TRUE)
      /\ streams' = <<Load(s, n)>> \o rest
      /\ blk' = n
    BY DEF ReadBlock
<1>2. IInv'
    BY <1>1, GetBlockInv DEF SInv, RInv
<1>3. UpdatedIsAssigned'
    BY <1>1, GetBlockUpdated DEF SInv
<1>4. [Store_!StoreNext]_(Store_!storeVars)
    BY <1>1, <1>2, <1>3, GetBlockStep DEF SInv, RInv
<1>5. /\ fileLength' >= fileLength
      /\ fileLength \in Int /\ fileLength' \in Int
      /\ numBlocks' \in Int
  <2>1. fileLength' >= fileLength
      BY <1>1, GetBlockGrows DEF SInv, RInv
  <2>2. fileLength \in Int /\ fileLength' \in Int
      BY <1>2 DEF SInv, RInv, IInv, TypeOK
  <2>3. QED
      BY <2>1, <2>2
<1>6. /\ current' \in Buffers \cup {NoBuffer}
      /\ n + 1 \in 0 .. NumBlocks /\ n \in 0 .. NumBlocks
    BY <1>2, Constants DEF IInv, TypeOK, Blocks
<1>7. Load(s, n) \in Stream
    BY <1>6 DEF Load, Stream
<1>8. FitsIn(Load(s, n), fileLength')
  <2>1. s.last \in Int
      BY DEF Stream
  <2>2. Load(s, n).next = n + 1 /\ Load(s, n).last = s.last
      BY DEF Load, Stream
  <2>3. QED
      BY <1>5, <2>1, <2>2 DEF FitsIn
<1>9. \A i \in 1 .. Len(rest) : FitsIn(rest[i], fileLength')
    BY <1>5, GrowingFits
<1>10. /\ streams' \in Seq(Stream) /\ streams' # <<>>
       /\ \A i \in 1 .. Len(streams') : FitsIn(streams'[i], fileLength')
    BY <1>1, <1>7, <1>8, <1>9, PushFits
<1>11. StreamsTypeOK'
    BY <1>1, <1>2, <1>6, <1>10 DEF StreamsTypeOK, SInv, IInv
<1>12. numBlocks' <= fileLength'
    BY <1>5
<1>13. SInv'
    BY <1>2, <1>3, <1>10, <1>11, <1>12 DEF SInv, RInv
<1>14. QED
    BY <1>4, <1>13

\* The stack changes and no buffer does.
LEMMA StackInv ==
    ASSUME SInv, ~Faulty,
           UNCHANGED <<fileVars, bufferVars>>,
           numBlocks' \in 0 .. NumBlocks, numBlocks' <= fileLength,
           blk' \in 0 .. NumBlocks, UNCHANGED asked,
           streams' \in Seq(Stream), streams' # <<>>,
           \A i \in 1 .. Len(streams') : FitsIn(streams'[i], fileLength)
    PROVE  SInv' /\ [Store_!StoreNext]_(Store_!storeVars)
<1>1. UNCHANGED <<file, fileLength, data, assigned, updated, lru, current,
                  recent>>
    BY DEF fileVars, bufferVars
<1>2. IInv'
    BY <1>1, SameBuffersInv DEF SInv, RInv, IInv, TypeOK
<1>3. UpdatedIsAssigned'
    BY <1>1 DEF SInv, RInv, UpdatedIsAssigned
<1>4. UNCHANGED Store_!storeVars
    BY <1>1, Stutter DEF Store_!storeVars
<1>5. StreamsTypeOK'
    BY <1>2 DEF StreamsTypeOK, SInv, IInv
<1>6. SInv'
    BY <1>1, <1>2, <1>3, <1>5 DEF SInv, RInv
<1>7. QED
    BY <1>4, <1>6

\* The length of the file that thru goes by is at most the real one.
LEMMA BlocksInFileFits ==
    ASSUME SInv
    PROVE  /\ BlocksInFile \in 0 .. NumBlocks
           /\ BlocksInFile <= fileLength
BY DEF BlocksInFile, SInv, RInv, IInv, TypeOK

LEMMA PlainFits ==
    /\ \A last \in Blocks : [Plain EXCEPT !.last = last] \in Stream
    /\ Plain \in Stream
    /\ \A length : FitsIn(Plain, length)
<1>1. 0 \in 0 .. NumBlocks /\ \A last \in Blocks : last \in 0 .. NumBlocks
    BY Constants DEF Blocks
<1>2. QED
    BY <1>1 DEF Plain, Stream, FitsIn

-----------------------------------------------------------------------------
(* Every step *)

LEMMA StreamsNextInv ==
    ASSUME SInv, ~Faulty, [StreamsNext]_vars
    PROVE  SInv' /\ [Store_!StoreNext]_(Store_!storeVars)
<1>1. ASSUME [Next]_blockVars, UNCHANGED <<streams, blk, numBlocks>>,
             asked' \in Blocks \cup {NoBlock}
      PROVE  SInv' /\ [Store_!StoreNext]_(Store_!storeVars)
  <2>1. SInv'
      BY <1>1, WordInv
  <2>2. QED
      BY <1>1, <2>1, StoreSteps DEF SInv
<1>2. asked \in Blocks \cup {NoBlock} /\ blk \in 0 .. NumBlocks
    BY DEF SInv, StreamsTypeOK
<1>3. /\ streams \in Seq(Stream) /\ streams # <<>>
      /\ \A i \in 1 .. Len(streams) : FitsIn(streams[i], fileLength)
      /\ numBlocks \in 0 .. NumBlocks /\ numBlocks <= fileLength
      /\ fileLength \in Int
    BY DEF SInv, StreamsTypeOK, RInv, IInv, TypeOK
<1>4. ASSUME NEW n \in Blocks, BlockWord(n) \/ BufferWord(n)
      PROVE  SInv' /\ [Store_!StoreNext]_(Store_!storeVars)
  <2>1. Next
      BY <1>4 DEF BlockWord, BufferWord, Next
  <2>2. QED
      BY <1>1, <1>4, <2>1 DEF BlockWord, BufferWord, Word, Block, Buffer
<1>5. ASSUME NEW v \in Values, StoreWord(v)
      PROVE  SInv' /\ [Store_!StoreNext]_(Store_!storeVars)
  <2>1. Next
      BY <1>5 DEF StoreWord, Next
  <2>2. QED
      BY <1>1, <1>2, <1>5, <2>1 DEF StoreWord, Word, Store
<1>6. ASSUME UpdateWord \/ SaveBuffersWord \/ FlushWord
      PROVE  SInv' /\ [Store_!StoreNext]_(Store_!storeVars)
  <2>1. Next
      BY <1>6 DEF UpdateWord, SaveBuffersWord, FlushWord, Next
  <2>2. UNCHANGED <<streams, blk, numBlocks>>
      BY <1>6 DEF UpdateWord, SaveBuffersWord, FlushWord, Word, Update,
                  SaveBuffers, Flush, EmptyBuffers
  <2>3. asked' \in Blocks \cup {NoBlock}
      BY <1>2, <1>6 DEF UpdateWord, SaveBuffersWord, FlushWord
  <2>4. QED
      BY <1>1, <2>1, <2>2, <2>3
<1>7. ASSUME NEW last \in Blocks, ThruBeyondEnd(last)
      PROVE  SInv' /\ [Store_!StoreNext]_(Store_!storeVars)
    BY <1>2, <1>3, <1>7, BlocksInFileFits, StackInv DEF ThruBeyondEnd, streamVars
<1>8. ASSUME NEW first \in Blocks, NEW last \in Blocks, Thru(first, last)
      PROVE  SInv' /\ [Store_!StoreNext]_(Store_!storeVars)
  <2> DEFINE s == [Plain EXCEPT !.last = last]
  <2>1. /\ ReadBlock(s, first, streams)
        /\ first <= last /\ last < BlocksInFile
        /\ numBlocks' = BlocksInFile /\ UNCHANGED asked
      BY <1>8 DEF Thru
  <2>2. s \in Stream /\ s.last = last
      BY PlainFits DEF Plain
  <2>3. first \in Int /\ last \in Int /\ BlocksInFile \in Int
      BY BlocksInFileFits, Constants DEF Blocks
  <2>4. last < fileLength /\ first < fileLength
      BY <1>3, <2>1, <2>3, BlocksInFileFits
  <2>5. numBlocks' \in 0 .. NumBlocks /\ numBlocks' <= fileLength
      BY <2>1, BlocksInFileFits
  <2>6. QED
      BY <1>3, <2>1, <2>2, <2>4, <2>5, ReadBlockInv
<1>9. CASE Evaluate
  <2>1. /\ streams' \in Seq(Stream) /\ streams' # <<>>
        /\ \A i \in 1 .. Len(streams') : FitsIn(streams'[i], fileLength)
      BY <1>3, <1>9, PlainFits, PushFits DEF Evaluate
  <2>2. blk' \in 0 .. NumBlocks
      BY <1>9, Constants DEF Evaluate
  <2>3. QED
      BY <1>3, <1>9, <2>1, <2>2, StackInv DEF Evaluate, blockVars
<1>10. CASE NextBlock \/ Refill
  <2> DEFINE s == IF NextBlock THEN Top
                  ELSE [Top EXCEPT !.last = IF Top.next > @ THEN Top.next ELSE @]
             n == Top.next
  <2>1. /\ Top \in Stream /\ FitsIn(Top, fileLength)
        /\ Tail(streams) \in Seq(Stream)
        /\ \A i \in 1 .. Len(Tail(streams)) :
              FitsIn(Tail(streams)[i], fileLength)
      BY TailFits
  <2>2. /\ Top.next \in 0 .. NumBlocks /\ Top.last \in 0 .. NumBlocks
      BY <2>1 DEF Stream
  <2>3. s \in Stream
      BY <2>1, <2>2 DEF Stream
  <2>4. /\ ReadBlock(s, n, Tail(streams))
        /\ ReadingBlocks
        /\ UNCHANGED <<numBlocks, asked>>
      BY <1>10 DEF NextBlock, Refill
  <2>5. n \in Blocks
      BY <2>4 DEF ReadBlock
  <2>6. Top.next <= Top.last => Top.last < fileLength
      BY <2>1, <2>4 DEF FitsIn, ReadingBlocks
  <2>7. Buffered(n) \/ n < fileLength \/ n \in Fresh
    <3>1. CASE NextBlock
        BY <1>3, <2>2, <2>6, <3>1 DEF NextBlock
    <3>2. CASE Refill
        BY <3>2 DEF Refill, MayRead
    <3>3. QED
        BY <1>10, <3>1, <3>2
  <2>8. n + 1 <= s.last => s.last < fileLength
    <3>1. s.last = Top.last \/ s.last = n
        BY <2>1 DEF Stream
    <3>2. QED
        BY <2>2, <2>6, <3>1
  <2>9. QED
      BY <1>3, <2>1, <2>3, <2>4, <2>5, <2>7, <2>8, ReadBlockInv
<1>11. CASE PopInputStream
  <2>1. /\ Tail(streams) \in Seq(Stream)
        /\ \A i \in 1 .. Len(Tail(streams)) :
              FitsIn(Tail(streams)[i], fileLength)
      BY TailFits
  <2>2. Len(streams') = Len(streams) - 1 /\ Len(streams) \in Nat
      BY <1>3, <1>11, HeadTailProperties, LenProperties DEF PopInputStream
  <2>3. Len(streams') > 0
      BY <1>11, <2>2 DEF PopInputStream
  <2>4. streams' # <<>>
      BY <2>3, EmptySeq
  <2>5. Head(streams') \in Stream
      BY <1>11, <2>1, <2>4, HeadTailProperties DEF PopInputStream
  <2>6. blk' \in 0 .. NumBlocks
      BY <1>11, <2>5 DEF PopInputStream, Stream
  <2>7. QED
      BY <1>3, <1>11, <2>1, <2>4, <2>6, StackInv DEF PopInputStream, blockVars
<1>12. CASE Reset
  <2> DEFINE s == streams[Len(streams)]
  <2>1. Len(streams) \in Nat \ {0} /\ Len(streams) \in 1 .. Len(streams)
      BY <1>3, EmptySeq
  <2>2. s \in Stream /\ FitsIn(s, fileLength)
      BY <1>3, <2>1, ElementOfSeq
  <2>3. /\ <<s>> \in Seq(Stream) /\ <<s>> # <<>>
        /\ \A i \in 1 .. Len(<<s>>) : FitsIn(<<s>>[i], fileLength)
      BY <2>2
  <2>4. blk' \in 0 .. NumBlocks
      BY <1>12, Constants DEF Reset
  <2>5. QED
      BY <1>3, <1>12, <2>3, <2>4, StackInv DEF Reset, blockVars
<1>13. CASE StartAgain
  <2>1. Next /\ numBlocks' = 0
      BY <1>13 DEF StartAgain, Next, Restart, Crash
  <2>2. RInv'
      BY <2>1, RInvNext DEF SInv
  <2>3. streams' = <<Plain>> /\ <<Plain>> \in Seq(Stream) /\ <<Plain>> # <<>>
      BY <1>13, PlainFits DEF StartAgain
  <2>4. StreamsTypeOK'
      BY <1>13, <2>2, <2>3, Constants DEF StartAgain, StreamsTypeOK, RInv, IInv
  <2>5. \A i \in 1 .. Len(<<Plain>>) : FitsIn(<<Plain>>[i], fileLength')
      BY PlainFits
  <2>6. numBlocks' <= fileLength'
      BY <2>1, <2>2 DEF RInv, IInv, TypeOK
  <2>7. SInv'
      BY <2>2, <2>3, <2>4, <2>5, <2>6 DEF SInv
  <2>8. QED
      BY <2>1, <2>2, <2>7, StoreSteps DEF SInv
<1>14. CASE UNCHANGED vars
    BY <1>1, <1>2, <1>14 DEF vars, streamVars, blockVars
<1>15. QED
    BY <1>4, <1>5, <1>6, <1>7, <1>8, <1>9, <1>10, <1>11, <1>12, <1>13, <1>14
       DEF StreamsNext

LEMMA StreamsInitInv == StreamsInit => SInv
<1> SUFFICES ASSUME StreamsInit PROVE SInv
    OBVIOUS
<1>1. RInv
    BY RInvInit DEF StreamsInit
<1>2. streams = <<Plain>> /\ <<Plain>> \in Seq(Stream) /\ <<Plain>> # <<>>
    BY PlainFits DEF StreamsInit
<1>3. StreamsTypeOK
    BY <1>1, <1>2, Constants DEF StreamsInit, StreamsTypeOK, RInv, IInv
<1>4. numBlocks <= fileLength
    BY DEF StreamsInit, Init
<1>5. \A i \in 1 .. Len(<<Plain>>) : FitsIn(<<Plain>>[i], fileLength)
    BY PlainFits
<1>6. QED
    BY <1>1, <1>2, <1>3, <1>4, <1>5 DEF SInv

-----------------------------------------------------------------------------
(* The theorems *)

\* Streams stay within the block file and their buffers, blk holds a block
\* number: whatever text is loaded, to any depth, while the file can be read
\* and written.
THEOREM StreamsTypeCorrect ==
    ASSUME ~Faulty
    PROVE  StreamsSpec => []StreamsTypeOK
<1>1. SInv /\ [StreamsNext]_vars => SInv'
    BY StreamsNextInv
<1>2. SInv => StreamsTypeOK
    BY DEF SInv
<1>3. QED
    BY <1>1, <1>2, StreamsInitInv, PTL DEF StreamsSpec

\* The words that thru interprets and the streams that read the blocks share
\* the buffers, and still every store and update works on an array of blocks:
\* reading source never drops or misplaces a change.
THEOREM StreamsImplementStore ==
    ASSUME ~Faulty
    PROVE  StreamsSpec => IsBlockStore
<1>1. SInv /\ [StreamsNext]_vars
          => SInv' /\ [Store_!StoreNext]_(Store_!storeVars)
    BY StreamsNextInv
<1>2. StreamsInit => Store_!StoreInit
    BY StoreInit DEF StreamsInit
<1>3. QED
    BY <1>1, <1>2, StreamsInitInv, PTL
       DEF StreamsSpec, IsBlockStore, Store_!StoreSpec

=============================================================================
