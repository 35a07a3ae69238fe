----------------------------- MODULE MCDvdcss -----------------------------
(***************************************************************************)
(* Instances of Dvdcss for TLC: discs with the same title and date.        *)
(***************************************************************************)
EXTENDS Dvdcss, TLC

CONSTANTS h1, h2, dA, dB, KA, KB, kA1, kA2, kB1, title1, title2, volume

\* A title of two blocks, the first of which is not scrambled, and one of one block.
TheTitleOf == 0 :> title1 @@ 1 :> title1 @@ 2 :> title2

\* The second title of disc B is unencrypted.
TheSecret ==
    dA :> (title1 :> kA1 @@ title2 :> kA2) @@ dB :> (title1 :> kB1 @@ title2 :> ZeroKey)

TheScrambled == dA :> {1, 2} @@ dB :> {1}

TheDiscKey == dA :> KA @@ dB :> KB

TheVolume == [d \in Discs |-> volume]

TheSubdirs == {volume} \X {KA, KB, ZeroKey, NoKey}

\* A disc title of 32 characters, and the key of a scrambled disc.
TheTextLength == [s \in TheSubdirs |-> 50 + IF s[2] = NoKey THEN 0 ELSE 10]

Environment(d, method, drive, cache) ==
    [disc |-> d, i_method |-> method, drive |-> drive, psz_cache |-> cache]

\* Names that just fit, that are just too long, and that the buffer cuts off.
TheNames == {0, 25, 28, 200}

\* One handle is used on either disc and on images of them, and an application plays
\* it; the other only makes directories meanwhile.
TheEnvironments ==
    h1 :> {Environment(dA, "KEY", TRUE, 25), Environment(dB, "TITLE", TRUE, 25),
           Environment(dA, "KEY", FALSE, 28), Environment(dA, "KEY", FALSE, 200),
           Environment(dB, "KEY", FALSE, 0), Environment(dB, "KEY", FALSE, Off)} @@
    h2 :> {Environment(dA, "KEY", TRUE, 25)}

ThePlaces == dA :> {0, 2} @@ dB :> {0}

\* Without "test": a handle whose ioctls are given up is like one on an image.
TheKeyFaults ==
    h1 :> {"auth", "decrypt", "titlekey", "clean", "crack", "seek", "read"}
    @@ h2 :> {}

TheFileFaults == h1 :> {} @@ h2 :> {"mkdir", "sector"}

\* Empty buffers between blocks, and buffers that are not of whole blocks.
TheIovecs == {<<2, 0, 0, 2>>, <<0, 3, 1>>, <<3, 1>>}

\* Both handles crack their title keys; nothing fails.
CrackEnvironments ==
    h1 :> {Environment(dA, "TITLE", TRUE, 25)} @@ h2 :> {Environment(dB, "TITLE", TRUE, 25)}

NoFaults == [h \in Handles |-> {}]

=============================================================================
