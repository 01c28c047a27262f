---------------------------- MODULE BlockStreams ----------------------------
(***************************************************************************)
(* Forth source in blocks: the words thru, refill and evaluate, class      *)
(* BlockInputStream and the stack of input streams (InputStack.cpp) on top *)
(* of the block buffers.  A block stream does not copy its text: it reads  *)
(* it where it lies in the buffer, which any text it executes may have     *)
(* given to another block.                                                 *)
(***************************************************************************)
EXTENDS BlockBuffers

CONSTANTS
    MaxStreams,    \* bound: how deep streams are nested
    Words          \* the block words that the source text uses

ASSUME BlockStreamsAssumption == MaxStreams \in Nat \ {0}

VARIABLES
    streams,       \* InputStack: the streams, the one being read first
    blk,           \* mBlockNumber, what the variable blk holds
    asked          \* history: the block that block or buffer was last called
                   \* with

streamVars == <<streams, blk, asked>>
vars == <<blockVars, streamVars>>

\* A stream that is not made of blocks: the console, or an evaluated string.
Plain == [buffer |-> NoBuffer, block |-> NoBlock, next |-> 0, last |-> 0]

Stream == [buffer : Buffers \cup {NoBuffer}, block : Blocks \cup {NoBlock},
           next : 0 .. NumBlocks, last : 0 .. NumBlocks]

StreamsTypeOK ==
    /\ TypeOK
    /\ streams \in Seq(Stream)
    /\ blk \in 0 .. NumBlocks
    /\ asked \in Blocks \cup {NoBlock}

\* The shell has pushed the console's stream.
StreamsInit ==
    /\ Init
    /\ streams = <<Plain>>
    /\ blk = 0
    /\ asked = NoBlock

Top == Head(streams)
ReadingBlocks == Top.block # NoBlock

\* A word of the source text that leaves the input alone.
Word(w) == w \in Words /\ UNCHANGED <<streams, blk>>

-----------------------------------------------------------------------------
(* Words on buffers *)

BlockWord(n) ==
    /\ Word("block")
    /\ Block(n)
    /\ asked' = n

BufferWord(n) ==
    /\ Word("buffer")
    /\ Buffer(n)
    /\ asked' = n

\* The address is used while the block is still the current one.
StoreWord(v) ==
    /\ Word("store")
    /\ asked # NoBlock /\ current # NoBuffer /\ assigned[current] = asked
    /\ Store(v)
    /\ UNCHANGED asked

UpdateWord ==
    /\ Word("update")
    /\ Update
    /\ UNCHANGED asked

SaveBuffersWord ==
    /\ Word("save-buffers")
    /\ SaveBuffers
    /\ UNCHANGED asked

\* flush and empty-buffers; what block gave before is no longer valid
FlushWord ==
    /\ Word("flush")
    /\ Flush \/ EmptyBuffers
    /\ asked' = NoBlock

-----------------------------------------------------------------------------
(* Words on streams *)

\* The stream s is left with block n to read, in the buffer that GetBlock
\* gave it; reading the block set blk.
Load(s, n) == [s EXCEPT !.buffer = current', !.block = n, !.next = n + 1]

\* BlockInputStream::ReadBlock for the stream s on top of rest.
ReadBlock(s, n, rest) ==
    /\ n \in Blocks
    /\ GetBlock(n, TRUE)
    /\ streams' = <<Load(s, n)>> \o rest
    /\ blk' = n

\* GetNumBlocksInFile: the first length that is not zero is kept for good.
BlocksInFile == IF numBlocks = 0 THEN fileLength ELSE numBlocks

\* thru: a new stream is pushed and its first line fetched.  Its constructor
\* reads the same block before.
Thru(first, last) ==
    /\ "thru" \in Words
    /\ Len(streams) < MaxStreams
    /\ first <= last
    /\ last < BlocksInFile
    /\ numBlocks' = BlocksInFile
    /\ ReadBlock([Plain EXCEPT !.last = last], first, streams)
    /\ UNCHANGED asked

\* thru with a last block that is not in the file, as far as it knows: the
\* length has been looked up all the same.
ThruBeyondEnd(last) ==
    /\ "thru" \in Words
    /\ last >= BlocksInFile
    /\ numBlocks' = BlocksInFile
    /\ UNCHANGED <<fileVars, bufferVars, streamVars>>

\* evaluate pushes a stream made of the string.
Evaluate ==
    /\ "evaluate" \in Words
    /\ Len(streams) < MaxStreams
    /\ streams' = <<Plain>> \o streams
    /\ blk' = 0
    /\ UNCHANGED <<blockVars, asked>>

\* GetLine of a block stream whose block has been read through.
NextBlock ==
    /\ ReadingBlocks
    /\ Top.next <= Top.last
    /\ ReadBlock(Top, Top.next, Tail(streams))
    /\ UNCHANGED <<numBlocks, asked>>

\* PopInputStream, once there is nothing left to read: blk is set to the
\* block that the stream below would read next.
PopInputStream ==
    /\ Len(streams) > 1
    /\ ~ReadingBlocks \/ Top.next > Top.last
    /\ streams' = Tail(streams)
    /\ blk' = Head(streams').next
    /\ UNCHANGED <<blockVars, asked>>

\* refill: the next block of the stream, in the range of thru or not.
Refill ==
    /\ "refill" \in Words
    /\ ReadingBlocks
    /\ MayRead(Top.next)
    /\ ReadBlock([Top EXCEPT !.last = IF Top.next > @ THEN Top.next ELSE @],
                 Top.next, Tail(streams))
    /\ UNCHANGED <<numBlocks, asked>>

\* InputStack::Reset after an error.
Reset ==
    /\ Len(streams) > 1
    /\ streams' = <<streams[Len(streams)]>>
    /\ blk' = 0
    /\ UNCHANGED <<blockVars, asked>>

\* The program ends, with its destructors or without, and is started again.
StartAgain ==
    /\ Restart \/ Crash
    /\ streams' = <<Plain>>
    /\ blk' = 0
    /\ asked' = NoBlock

StreamsNext ==
    \/ \E n \in Blocks : BlockWord(n) \/ BufferWord(n) \/ ThruBeyondEnd(n)
    \/ \E first, last \in Blocks : Thru(first, last)
    \/ \E v \in Values : StoreWord(v)
    \/ UpdateWord \/ SaveBuffersWord \/ FlushWord
    \/ Evaluate \/ NextBlock \/ PopInputStream \/ Refill \/ Reset
    \/ StartAgain

StreamsSpec == StreamsInit /\ [][StreamsNext]_vars

=============================================================================
