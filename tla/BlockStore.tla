----------------------------- MODULE BlockStore -----------------------------
(***************************************************************************)
(* What a Forth program is promised by the block words (the help texts of  *)
(* class Block in Scripts/system/helpdeck.fs): an array of blocks.  Each   *)
(* has the content the program sees and the durable one in the block file; *)
(* a change that the program has announced with "update" becomes durable   *)
(* and is never dropped before, one that it has not announced may be       *)
(* dropped at any time.                                                    *)
(***************************************************************************)
CONSTANTS
    Blocks, Values,
    Fresh    \* the blocks that programs only use as scratch: they ask for them
             \* with "buffer", or before the file is that long

VARIABLES
    content,    \* what the program finds in each block
    durable,    \* what the block file holds
    dirty       \* the blocks with announced changes that are not durable

storeVars == <<content, durable, dirty>>

StoreInit ==
    /\ durable \in [Blocks -> Values]
    /\ content = durable
    /\ dirty = {}

\* The program stores into a block.
Edit(n, v) ==
    /\ content' = [content EXCEPT ![n] = v]
    /\ UNCHANGED <<durable, dirty>>

\* The program announces its changes to a block.
Mark(n) ==
    /\ dirty' = dirty \cup {n}
    /\ UNCHANGED <<content, durable>>

\* The blocks of saved become durable.  The changes to the blocks of dropped,
\* none of them announced and not saved, are gone.
Settle(saved, dropped) ==
    /\ durable' = [n \in Blocks |-> IF n \in saved THEN content[n]
                                    ELSE durable[n]]
    /\ dirty' = dirty \ saved
    /\ dropped \cap dirty' = {}
    /\ content' = [n \in Blocks |-> IF n \in dropped THEN durable'[n]
                                    ELSE content[n]]

\* The program is given scratch block k with any content v; other blocks may
\* have to settle for that.
Provide(k, v, saved, dropped) ==
    /\ k \in Fresh \ dirty
    /\ durable' = [n \in Blocks |-> IF n \in saved THEN content[n]
                                    ELSE durable[n]]
    /\ dirty' = dirty \ saved
    /\ dropped \cap dirty' = {}
    /\ content' = [n \in Blocks |-> IF n = k THEN v
                                    ELSE IF n \in dropped THEN durable'[n]
                                    ELSE content[n]]

\* All changes that are not durable are given up: "empty-buffers", or the
\* program ends without saving.
GiveUp ==
    /\ content' = durable
    /\ dirty' = {}
    /\ UNCHANGED durable

StoreNext ==
    \/ \E n \in Blocks, v \in Values : Edit(n, v)
    \/ \E n \in Blocks : Mark(n)
    \/ \E saved \in SUBSET dirty, dropped \in SUBSET Blocks :
          \/ Settle(saved, dropped)
          \/ \E k \in Blocks, v \in Values : Provide(k, v, saved, dropped)
    \/ GiveUp

StoreSpec == StoreInit /\ [][StoreNext]_storeVars
=============================================================================
