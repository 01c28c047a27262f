-------------------------- MODULE MCBlockStreams --------------------------
(* The words that the source text in the blocks uses, for TLC. *)
EXTENDS BlockStreams

\* Text that edits blocks, and loads others in the middle of a block.
EditingText == {"block", "buffer", "store", "update", "save-buffers", "flush",
                "thru", "evaluate", "refill"}

===========================================================================
