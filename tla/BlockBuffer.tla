---------------------------- MODULE BlockBuffer ----------------------------
(***************************************************************************)
(* blocks_, the bounded buffer in which PixyInterpreter keeps the objects  *)
(* Pixy last reported.  add_normal_blocks and add_color_code_blocks add    *)
(* one block at a time and drop the oldest one when the buffer is full.    *)
(***************************************************************************)
EXTENDS Integers, SequencesExt

CONSTANT PIXY_BLOCK_CAPACITY

ASSUME CapacityAssumption == PIXY_BLOCK_CAPACITY \in Nat \ {0}

\* One round of the loop: erase(begin()) when full, then push_back.
PushBlock(blocks, b) ==
  IF Len(blocks) = PIXY_BLOCK_CAPACITY
    THEN Append(Tail(blocks), b)
    ELSE Append(blocks, b)

\* The whole loop over the new blocks.
AddBlocks(blocks, new) ==
  LET added[k \in 0..Len(new)] ==
        IF k = 0 THEN blocks ELSE PushBlock(added[k - 1], new[k])
  IN added[Len(new)]

-----------------------------------------------------------------------------
(* The reference: the newest blocks of everything that was added.          *)
Newest(s) ==
  SubSeq(s, IF Len(s) > PIXY_BLOCK_CAPACITY THEN Len(s) - PIXY_BLOCK_CAPACITY + 1 ELSE 1,
         Len(s))
=============================================================================
