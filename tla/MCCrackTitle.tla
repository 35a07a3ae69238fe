--------------------------- MODULE MCCrackTitle ---------------------------
(***************************************************************************)
(* An instance of CrackTitle for TLC.                                      *)
(***************************************************************************)
EXTENDS CrackTitle, TLC

CONSTANTS t1, t2, k1

\* An unencrypted title, and one whose key is behind two blocks that give none away.
TheDisc ==
    0 :> "clean" @@ 1 :> "clean" @@ 2 :> "nonmpeg" @@
    3 :> "nopattern" @@ 4 :> "norecovery" @@ 5 :> k1

\* The drive of one thread fails in every way, that of the other never: their
\* devices have nothing to do with each other, their counters have.
OneBadDrive == t1 :> {"seek", "read", "open"} @@ t2 :> {}

=============================================================================
