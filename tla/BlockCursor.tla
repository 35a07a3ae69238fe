---------------------------- MODULE BlockCursor ----------------------------
(***************************************************************************)
(* What a handle's position is to its user: a DVD accessed like a block    *)
(* device.  A seek moves the cursor, a read delivers blocks from the       *)
(* cursor on and leaves it behind the last of them; after a failure the    *)
(* position may be unknown until the next seek.                            *)
(***************************************************************************)
EXTENDS Integers

CONSTANTS
    Blocks,        \* the blocks one may seek to
    MaxRead        \* the largest number of blocks a read may ask for

Nowhere == -1      \* the cursor after a failure

VARIABLES
    cursor,        \* the block the next read starts with, or Nowhere
    i_ret,         \* what the last call returned
    start          \* the block the last read that delivered any started with

Init == cursor = 0 /\ i_ret = 0 /\ start = 0

Seek(b) ==
    \/ cursor' = b /\ i_ret' = b /\ UNCHANGED start
    \/ cursor' \in {cursor, Nowhere} /\ i_ret' = -1 /\ UNCHANGED start

Read(n) ==
    \/ /\ cursor # Nowhere
       /\ i_ret' \in 0 .. n
       /\ cursor' = cursor + i_ret'
       /\ start' = IF i_ret' > 0 THEN cursor ELSE start
    \/ cursor' \in {cursor, Nowhere} /\ i_ret' = -1 /\ UNCHANGED start

Next == (\E b \in Blocks : Seek(b)) \/ (\E n \in 0 .. MaxRead : Read(n))

Spec == Init /\ [][Next]_<<cursor, i_ret, start>>

=============================================================================
