------------------------------ MODULE KeyTable ------------------------------
(***************************************************************************)
(* What the title keys of a handle are to its user: a table that is empty  *)
(* when the handle is opened, that learns the key of a block once, and     *)
(* that never forgets or changes it before the handle is closed.           *)
(***************************************************************************)
CONSTANTS
    Handles,       \* the open handles, of one or several processes
    Blocks,        \* the blocks a title key may be asked for
    Learnable,     \* [Blocks -> set of the keys that may be learned for it]
    NoKey          \* no key is known for the block

VARIABLE table     \* [Handles -> [Blocks -> key or NoKey]]

Empty == [b \in Blocks |-> NoKey]

Init == table = [p \in Handles |-> Empty]

Learn(p, b) ==
    /\ table[p][b] = NoKey
    /\ \E k \in Learnable[b] : table' = [table EXCEPT ![p][b] = k]

Forget(p) == table' = [table EXCEPT ![p] = Empty]

Next == \E p \in Handles : Forget(p) \/ \E b \in Blocks : Learn(p, b)

Spec == Init /\ [][Next]_table

=============================================================================
