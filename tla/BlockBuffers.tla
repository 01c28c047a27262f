---------------------------- MODULE BlockBuffers ----------------------------
(***************************************************************************)
(* class BlockFileManager (ForthLib/BlockFileManager.cpp): a fixed number  *)
(* of buffers that hold blocks of the block file.  A buffer keeps its      *)
(* block until another one needs it, the least recently used first, and is *)
(* written back if the program said "update".                              *)
(*                                                                         *)
(* A block's 1024 bytes are one value.  Writing can fail in two ways: the  *)
(* block file cannot be opened or written, which SaveBuffer reports, or    *)
(* what stdio buffered is lost in fclose, whose result nobody looks at.    *)
(***************************************************************************)
EXTENDS Integers, Sequences, FiniteSets

CONSTANTS
    NumBuffers,    \* mNumBuffers
    NumBlocks,     \* bound: the block numbers that programs use
    Values,        \* the contents of a block
    Zero,          \* the content of a block that a write made a hole of
    NoBuffer,      \* INVALID_BLOCK_NUMBER as 'no current buffer'
    NoBlock,       \* INVALID_BLOCK_NUMBER as 'not assigned'
    Fresh,         \* the blocks that programs use without caring for what is
                   \* in the file: with buffer, or beyond the end of the file
    Faulty         \* TRUE: reading and writing the block file can fail

Buffers == 0 .. NumBuffers - 1
Blocks == 0 .. NumBlocks - 1

ASSUME BlockBuffersAssumption ==
    /\ NumBuffers \in Nat \ {0}
    /\ NumBlocks \in Nat \ {0}
    /\ Zero \in Values
    /\ NoBuffer \notin Buffers
    /\ NoBlock \notin Blocks
    /\ Fresh \subseteq Blocks
    /\ Faulty \in BOOLEAN

VARIABLES
    file,          \* the blocks in the block file, Zero beyond its end
    fileLength,    \* the number of blocks in the block file
    data,          \* mpBlocks: the content of each buffer
    assigned,      \* mAssignedBlocks
    updated,       \* mUpdatedBlocks
    lru,           \* mLRUBuffers, most recently used first
    current,       \* mCurrentBuffer
    numBlocks,     \* mNumBlocksInFile
    recent         \* history: the blocks used since the buffers were last
                   \* unassigned, most recent first, each once, cut off at
                   \* NumBuffers

fileVars == <<file, fileLength>>
bufferVars == <<data, assigned, updated, lru, current, recent>>
blockVars == <<fileVars, bufferVars, numBlocks>>

TypeOK ==
    /\ file \in [Blocks -> Values]
    /\ fileLength \in 0 .. NumBlocks
    /\ data \in [Buffers -> Values]
    /\ assigned \in [Buffers -> Blocks \cup {NoBlock}]
    /\ updated \in [Buffers -> BOOLEAN]
    /\ lru \in [Buffers -> Buffers]
    /\ current \in Buffers \cup {NoBuffer}
    /\ numBlocks \in 0 .. NumBlocks
    /\ recent \in Seq(Blocks)

-----------------------------------------------------------------------------
(* The buffers *)

\* EmptyBuffers: nothing is assigned any more, whatever was updated is lost.
Empty ==
    /\ lru' = [i \in Buffers |-> i]
    /\ assigned' = [b \in Buffers |-> NoBlock]
    /\ updated' = [b \in Buffers |-> FALSE]
    /\ current' = NoBuffer
    /\ recent' = <<>>

\* The constructor, on a block file whose blocks are all zero.
Init ==
    /\ file = [n \in Blocks |-> Zero]
    /\ fileLength \in 0 .. NumBlocks
    /\ data = [b \in Buffers |-> Zero]
    /\ lru = [i \in Buffers |-> i]
    /\ assigned = [b \in Buffers |-> NoBlock]
    /\ updated = [b \in Buffers |-> FALSE]
    /\ current = NoBuffer
    /\ numBlocks = 0
    /\ recent = <<>>

Updated(S) == {b \in S : updated[b]}

\* SaveBuffer's fwrite for each buffer of saved.
Write(saved) ==
    /\ file' = [n \in Blocks |->
                   IF \E b \in saved : assigned[b] = n
                   THEN data[CHOOSE b \in saved : assigned[b] = n]
                   ELSE file[n]]
    /\ fileLength' \in {fileLength} \cup {assigned[b] + 1 : b \in saved}
    /\ fileLength' >= fileLength
    /\ \A b \in saved : fileLength' > assigned[b]

\* What SaveBuffer does to the updated buffers of S: those of saved are
\* written, those of lost are taken for written, the others are not.
Ends(S, saved, lost) ==
    /\ \A b \in saved \cup lost : assigned[b] # NoBlock
    /\ saved \cap lost = {}
    /\ ~Faulty => saved = {b \in Updated(S) : assigned[b] # NoBlock}
    /\ Write(saved)

\* SaveBuffer for each updated buffer of S.
Save(S) ==
    \E saved \in SUBSET Updated(S), lost \in SUBSET Updated(S) :
        /\ Ends(S, saved, lost)
        /\ updated' = [b \in Buffers |-> updated[b] /\ b \notin saved \cup lost]

Unassigned == {b \in Buffers : assigned[b] = NoBlock}

\* Mutation: the most recently used buffer is taken.
IsAvailableNewest(b) ==
    IF Unassigned = {} THEN b = lru[0]
    ELSE b \in Unassigned /\ \A c \in Unassigned : c <= b

\* The buffer that AssignBuffer takes for a block that is in none of them.
IsAvailable(b) ==
    IF Unassigned = {} THEN b = lru[NumBuffers - 1]
    ELSE b \in Unassigned /\ \A c \in Unassigned : c <= b

\* Mutation: UpdateLRU overwrites the front instead of moving the rest down.
UpdateLRUOverwrite(b) ==
    \E i \in Buffers :
        /\ lru[i] = b
        /\ lru' = [lru EXCEPT ![0] = b]

\* UpdateLRU moves b to the front.
UpdateLRU(b) ==
    \E i \in Buffers :
        /\ lru[i] = b
        /\ lru' = [j \in Buffers |-> IF j = 0 THEN b
                                     ELSE IF j <= i THEN lru[j - 1]
                                     ELSE lru[j]]

\* Block n becomes the most recent one: it moves there from place k, or it
\* comes in, and the one at place NumBuffers goes if there is one.
Remember(n) ==
    \E k \in 1 .. NumBuffers :
        /\ \/ k \in DOMAIN recent /\ recent[k] = n
           \/ /\ \A i \in DOMAIN recent : recent[i] # n
              /\ k = IF Len(recent) < NumBuffers THEN Len(recent) + 1
                     ELSE NumBuffers
        /\ recent' = [j \in 1 .. (IF k > Len(recent) THEN k ELSE Len(recent)) |->
                         IF j = 1 THEN n
                         ELSE IF j <= k THEN recent[j - 1]
                         ELSE recent[j]]

\* AssignBuffer for a block that is in buffer b already.
Hit(n, b) ==
    /\ assigned[b] = n
    /\ UNCHANGED <<fileVars, data, assigned, updated>>

\* Mutation: the block that has to go is not written back.
MissUnsaved(n, read, b) ==
    /\ \A c \in Buffers : assigned[c] # n
    /\ IsAvailable(b)
    /\ updated' = [updated EXCEPT ![b] = FALSE]
    /\ UNCHANGED fileVars
    /\ assigned' = [assigned EXCEPT ![b] = n]
    /\ \/ /\ read /\ n < fileLength'
          /\ data' = [data EXCEPT ![b] = file'[n]]
       \/ /\ ~read \/ n >= fileLength' \/ Faulty
          /\ UNCHANGED data

\* Mutation: the buffer is not searched for, so a block can get two.
MissUnsearched(n, read, b) ==
    /\ assigned[b] # n
    /\ IsAvailable(b)
    /\ Save({b})
    /\ assigned' = [assigned EXCEPT ![b] = n]
    /\ \/ /\ read /\ n < fileLength'
          /\ data' = [data EXCEPT ![b] = file'[n]]
       \/ /\ ~read \/ n >= fileLength' \/ Faulty
          /\ UNCHANGED data

\* AssignBuffer for a block that is in none.  If it is not to be read, or
\* cannot be read, it is what the buffer's last block left behind.
Miss(n, read, b) ==
    /\ \A c \in Buffers : assigned[c] # n
    /\ IsAvailable(b)
    /\ Save({b})
    /\ assigned' = [assigned EXCEPT ![b] = n]
    /\ \/ /\ read /\ n < fileLength'
          /\ data' = [data EXCEPT ![b] = file'[n]]
       \/ /\ ~read \/ n >= fileLength' \/ Faulty
          /\ UNCHANGED data

\* GetBlock
GetBlock(n, read) ==
    \E b \in Buffers :
        /\ Hit(n, b) \/ Miss(n, read, b)
        /\ current' = b
        /\ UpdateLRU(b)
        /\ Remember(n)

-----------------------------------------------------------------------------
(* The words *)

Buffered(n) == \E b \in Buffers : assigned[b] = n

\* The blocks that a program asks for: beyond the end of the file they are an
\* error, and the buffer is handed out nevertheless.
MayRead(n) == n < fileLength \/ Buffered(n) \/ n \in Fresh

\* block
Block(n) ==
    /\ MayRead(n)
    /\ GetBlock(n, TRUE)
    /\ UNCHANGED numBlocks

\* buffer
Buffer(n) ==
    /\ n \in Fresh
    /\ GetBlock(n, FALSE)
    /\ UNCHANGED numBlocks

\* The program stores at the address that block or buffer gave it last.
Store(v) ==
    /\ current # NoBuffer
    /\ data' = [data EXCEPT ![current] = v]
    /\ UNCHANGED <<fileVars, assigned, updated, lru, current, recent,
                   numBlocks>>

\* update; without a current buffer it is an error
Update ==
    /\ current # NoBuffer
    /\ updated' = [updated EXCEPT ![current] = TRUE]
    /\ UNCHANGED <<fileVars, data, assigned, lru, current, recent, numBlocks>>

\* save-buffers: SaveBuffers(false)
SaveBuffers ==
    /\ Save(Buffers)
    /\ UNCHANGED <<data, assigned, lru, current, recent, numBlocks>>

\* flush: SaveBuffers(true), which unassigns a buffer saved or not.  (If it
\* cannot open the block file itself it returns, and nothing has changed.)
Flush ==
    /\ Save(Buffers)
    /\ assigned' = [b \in Buffers |-> NoBlock]
    /\ current' = NoBuffer
    /\ recent' = <<>>
    /\ UNCHANGED <<data, lru, numBlocks>>

\* empty-buffers
EmptyBuffers ==
    /\ Empty
    /\ UNCHANGED <<fileVars, data, numBlocks>>

\* Ending the program and starting it again: ~BlockFileManager saves the
\* buffers, and the new manager's buffers hold nothing.
Restart ==
    /\ \E saved \in SUBSET Updated(Buffers) : Ends(Buffers, saved, {})
    /\ Empty
    /\ data' = [b \in Buffers |-> Zero]
    /\ numBlocks' = 0

\* The program ends without running destructors.
Crash ==
    /\ Empty
    /\ data' = [b \in Buffers |-> Zero]
    /\ numBlocks' = 0
    /\ UNCHANGED fileVars

\* GetNumBlocksInFile as thru calls it: the first length that is not zero is
\* kept for good.
CountBlocks ==
    /\ numBlocks = 0
    /\ numBlocks' = fileLength
    /\ UNCHANGED <<fileVars, bufferVars>>

Next ==
    \/ \E n \in Blocks : Block(n) \/ Buffer(n)
    \/ \E v \in Values : Store(v)
    \/ Update \/ SaveBuffers \/ Flush \/ EmptyBuffers \/ Restart \/ Crash
    \/ CountBlocks

Spec == Init /\ [][Next]_blockVars

-----------------------------------------------------------------------------
(* Properties *)

\* A block is in one buffer at most, so a store is seen by every block that
\* follows.
OneBufferPerBlock ==
    \A b, c \in Buffers :
        b # c /\ assigned[b] # NoBlock => assigned[b] # assigned[c]

\* The buffer that UpdateLRU moved last is in mLRUBuffers once, and so is
\* every other: none is out of reach and none is given away twice in a row.
LRUIsPermutation ==
    \A b \in Buffers : \E i \in Buffers :
        lru[i] = b /\ \A j \in Buffers \ {i} : lru[j] # b

\* The address that block gave for one of the NumBuffers blocks used last is
\* still that block's: replacement is least recently used.
RecentBlocksStay ==
    \A i \in DOMAIN recent : \E b \in Buffers : assigned[b] = recent[i]

\* The changes that were announced belong to a block they can be written to.
UpdatedIsAssigned ==
    \A b \in Buffers : updated[b] => assigned[b] # NoBlock

\* The buffer that a buffered block is in.
BufferOf(n) == CHOOSE b \in Buffers : assigned[b] = n

\* What the program finds in block n, and the blocks it announced changes to.
Content == [n \in Blocks |-> IF Buffered(n) THEN data[BufferOf(n)] ELSE file[n]]
Dirty == {assigned[b] : b \in Updated(Buffers)} \ {NoBlock}

Store_ == INSTANCE BlockStore WITH
    content <- Content, durable <- file, dirty <- Dirty

\* The buffers and the file together are the array of blocks that the
\* program was promised.
IsBlockStore == Store_!StoreSpec
=============================================================================
