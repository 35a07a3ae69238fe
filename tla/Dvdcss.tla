------------------------------ MODULE Dvdcss ------------------------------
(***************************************************************************)
(* The library's calls over its parts: dvdcss_open, dvdcss_seek,           *)
(* dvdcss_read, dvdcss_readv and dvdcss_close, of handles on several discs *)
(* that share a key cache.                                                 *)
(*                                                                         *)
(* A handle keeps a method, a disc key, the title keys it has learned and  *)
(* the one in force; it learns them from the drive, by cracking, or from   *)
(* the files of its cache directory, which is named after the disc and its *)
(* disc key.  What goes on inside a call is the subject of other modules:  *)
(* here it is one step, which takes from CssAuth the keys it may come back *)
(* with, from CrackTitle the results of a crack, from TitleKeys that a     *)
(* list and a file keep a key, from BlockDevice that a position is a       *)
(* cursor.  Only the way to the cache is several steps (module CacheDir).  *)
(***************************************************************************)
EXTENDS CacheDir, FiniteSets

CONSTANTS
    Discs,         \* the discs, of the same layout
    Blocks,        \* their blocks, 0 .. n
    TitleOf,       \* [Blocks -> the title a block belongs to]
    Secret,        \* [Discs -> [titles -> title key]]: ZeroKey if it is unencrypted
    Scrambled,     \* [Discs -> set of the blocks that are scrambled]
    DiscKey,       \* [Discs -> disc key]
    Volume,        \* [Discs -> title and date of the disc]
    Environments,  \* [Handles -> set of [disc, i_method, drive, psz_cache]]: what a
                   \* handle is opened on and with
    KeyFaults,     \* [Handles -> what may go wrong]: see the actions
    Players,       \* the handles whose applications do more than open and close them
    Places,        \* [Discs -> the blocks they seek to]
    ReadSizes,     \* the numbers of blocks dvdcss_read is asked for
    Iovecs,        \* the buffers given to dvdcss_readv: lengths in half blocks
    ZeroKey,       \* five zero bytes
    WrongKey,      \* what a title key is decrypted to with another disc key
    NoKey,         \* no key has been written there
    NoTitle        \* no title has been entered

Titles == {TitleOf[b] : b \in Blocks}
TitleKeySet == {Secret[d][t] : d \in Discs, t \in Titles} \cup {ZeroKey, WrongKey}
DiscKeySet == {DiscKey[d] : d \in Discs} \cup {ZeroKey}

ASSUME BlocksAssumption == IsFiniteSet(Blocks) /\ Blocks = 0 .. Cardinality(Blocks) - 1
ASSUME TitlesAssumption == NoTitle \notin Titles
ASSUME EnvironmentsAssumption ==
    /\ Discs # {}
    /\ \A h \in Handles :
          Environments[h] \subseteq [disc : Discs, i_method : {"KEY", "DISC", "TITLE"},
                                    drive : BOOLEAN, psz_cache : Names \cup {Off}]
ASSUME KeysAssumption ==
    /\ NoKey \notin TitleKeySet
    /\ \A d \in Discs : DiscKey[d] \notin {ZeroKey, NoKey}
    /\ \A d, e \in Discs : DiscKey[d] = DiscKey[e] => d = e
ASSUME SubdirsAssumption ==
    \A d \in Discs : \A k \in DiscKeySet \cup {NoKey} : <<Volume[d], k>> \in Subdirs
ASSUME IovecsAssumption == Iovecs \subseteq Seq(Nat) \ {<<>>}
ASSUME ScrambledAssumption ==
    \A d \in Discs : \A b \in Scrambled[d] : Secret[d][TitleOf[b]] # ZeroKey

VARIABLES
    lib,           \* [Handles -> Instances]: dvdcss_s
    files,         \* [Subdirs -> [Blocks -> key, or NoKey: no file]]
    client,        \* [Handles -> Clients]: what the application goes by
    out            \* what the last call has delivered, and to which handle

vars == <<cachevars, lib, files, client, out>>

Instances ==
    [disc : Discs, i_method : {"KEY", "DISC", "TITLE"}, b_ioctls : BOOLEAN,
     b_scrambled : BOOLEAN, p_disc_key : DiscKeySet,
     p_titles : [Blocks -> TitleKeySet \cup {NoKey}],
     p_title_key : TitleKeySet \cup {NoKey}, cursor : Int]

\* The title entered with DVDCSS_SEEK_KEY; whether the last call has failed, or none
\* has been made; whether the handle had its disc key when it had been opened.
Clients == [entered : Titles \cup {NoTitle}, failed : BOOLEAN, keyed : BOOLEAN]

\* What a call returned and delivered: blocks in the clear, scrambled as on the disc
\* and marked so, or spoilt by a wrong key and no longer marked; and which places of
\* the buffers were descrambled.
Forms == {"clear", "scrambled", "garbled"}
Outputs == [to : Handles, op : {"read", "readv"}, i_ret : -1 .. Cardinality(Blocks),
            forms : SUBSET Forms, iov : Iovecs \cup {<<>>}, done : SUBSET (Nat \X Nat)]

NoOutput == [op |-> "none", i_ret |-> 0, forms |-> {}, iov |-> <<>>, done |-> {}]

TypeOK ==
    /\ CacheTypeOK
    /\ lib \in [Handles -> Instances]
    /\ files \in [Subdirs -> [Blocks -> TitleKeySet \cup {NoKey}]]
    /\ client \in [Handles -> Clients]
    /\ out \in Outputs \cup {NoOutput}
    /\ \A h \in Handles : lib[h].cursor \in -1 .. Cardinality(Blocks)

Output(h, call, ret, forms) ==
    [to |-> h, op |-> call, i_ret |-> ret, forms |-> forms, iov |-> <<>>, done |-> {}]

NoFiles == [b \in Blocks |-> NoKey]

NewInstance(d, m) ==
    [disc |-> d, i_method |-> m, b_ioctls |-> FALSE, b_scrambled |-> TRUE,
     p_disc_key |-> ZeroKey, p_titles |-> NoFiles, p_title_key |-> NoKey, cursor |-> 0]

\* An application seeks before it reads.
NewClient == [entered |-> NoTitle, failed |-> TRUE, keyed |-> FALSE]

Init ==
    /\ CacheInit
    /\ lib = [h \in Handles |-> NewInstance(CHOOSE d \in Discs : TRUE, "KEY")]
    /\ files = [s \in Subdirs |-> NoFiles]
    /\ client = [h \in Handles |-> NewClient]
    /\ out = NoOutput

May(h, fault, outcomes) == IF fault \in KeyFaults[h] THEN outcomes ELSE {}

(***************************************************************************)
(* Keys.  A function is modelled by the set of its outcomes.               *)
(***************************************************************************)
\* Mutant: the fallback keeps the method.
KeepMethod(m) == m

\* A disc key that cannot be decrypted makes a handle crack title keys.
MethodWithoutDiscKey(m) == "TITLE"

\* dvdcss_disckey: it fails and changes nothing, it gets the key, or it has no use
\* for it, or it cannot decrypt it.
dvdcss_disckey(h, l) ==
    May(h, "auth", {l})
    \cup (IF l.i_method = "TITLE" THEN {[l EXCEPT !.p_disc_key = ZeroKey]}
          ELSE {[l EXCEPT !.p_disc_key = DiscKey[l.disc]]}
               \cup May(h, "decrypt", {[l EXCEPT !.p_disc_key = ZeroKey,
                                              !.i_method = MethodWithoutDiscKey(@)]}))

Encrypted(d) == \E t \in Titles : Secret[d][t] # ZeroKey

\* dvdcss_test, and what dvdcss_open makes of it: the disc is scrambled or not, or
\* it is not known and the ioctls are given up, or the region may stand in the way.
dvdcss_test(h, l) ==
    {[l EXCEPT !.b_ioctls = TRUE, !.b_scrambled = Encrypted(l.disc)]}
    \cup May(h, "test", {[l EXCEPT !.b_ioctls = FALSE]})
    \cup May(h, "region", {[l EXCEPT !.b_ioctls = TRUE]})

\* What handles are after dvdcss_open, but for the cache.  Without a drive, on a
\* file, nothing is asked.
Opened(h, d, m, drive) ==
    IF ~drive THEN {NewInstance(d, m)}
    ELSE UNION {IF l.b_scrambled /\ l.b_ioctls THEN dvdcss_disckey(h, l) ELSE {l} :
                    l \in dvdcss_test(h, NewInstance(d, m))}

TitleSecret(l, b) == Secret[l.disc][TitleOf[b]]

Learned(l, key, ret) == [lib |-> l, key |-> key, i_ret |-> ret]

\* A crack that stops after a block that is not scrambled has seen nothing else.
StartsClear(l, b) == b \notin Scrambled[l.disc]

\* CrackTitleKey: the key; a title that seems to be unencrypted; a failure.
CrackTitleKey(h, l, b) ==
    {Learned(l, TitleSecret(l, b), IF TitleSecret(l, b) = ZeroKey THEN 0 ELSE 1)}
    \cup (IF StartsClear(l, b) THEN May(h, "clean", {Learned(l, ZeroKey, 0)}) ELSE {})
    \cup May(h, "crack", {Learned(l, ZeroKey, -1)})

\* The drive's title key, decrypted with the disc key the handle has.
Decrypted(l, b) ==
    IF TitleSecret(l, b) = ZeroKey THEN ZeroKey
    ELSE IF l.p_disc_key = DiscKey[l.disc] THEN TitleSecret(l, b) ELSE WrongKey

ClassicWay(l) == l.b_ioctls /\ l.i_method \in {"KEY", "DISC"}

\* After a failed request dvdcss_disckey is called again before the key is cracked.
dvdcss_titlekey(h, l, b) ==
    IF ~ClassicWay(l) THEN CrackTitleKey(h, l, b)
    ELSE {Learned(l, Decrypted(l, b), 0)}
         \cup May(h, "titlekey", UNION {CrackTitleKey(h, k, b) : k \in dvdcss_disckey(h, l)})

HasCache(h) == psz_cachefile[h] # <<>>

Cached(h) == IF HasCache(h) THEN files[psz_cachefile[h][2]] ELSE NoFiles

\* dvdcss_title: the key in force and the cache file, from the list, the cache or
\* dvdcss_titlekey.  After a failure the key in force is the one it was.
Listed(l, b, key) == [l EXCEPT !.p_titles[b] = key, !.p_title_key = key]

dvdcss_title(h, l, b) ==
    IF ~l.b_scrambled THEN {Learned(l, NoKey, 0)}
    ELSE IF l.p_titles[b] # NoKey
      THEN {Learned([l EXCEPT !.p_title_key = l.p_titles[b]], NoKey, 0)}
    ELSE IF Cached(h)[b] # NoKey
      THEN {Learned(Listed(l, b, Cached(h)[b]), NoKey, 0)}
    ELSE {IF r.i_ret < 0 THEN Learned([r.lib EXCEPT !.cursor = -1], NoKey, -1)
                         ELSE Learned(Listed(r.lib, b, r.key), r.key, 0) :
              r \in dvdcss_titlekey(h, l, b)}

\* Where the device is after a seek.
pf_seek(h, b) == {b} \cup May(h, "seek", {-1})

(***************************************************************************)
(* dvdcss_open, dvdcss_close.                                              *)
(***************************************************************************)
Open(h) ==
    /\ At(h, "closed")
    /\ \E e \in Environments[h] : \E l \in Opened(h, e.disc, e.i_method, e.drive) :
          /\ lib' = [lib EXCEPT ![h] = l]
          /\ client' = [client EXCEPT ![h] =
                [NewClient EXCEPT !.keyed = l.p_disc_key # ZeroKey]]
          /\ EnterCache(h, e.psz_cache)
    /\ out' = NoOutput
    /\ UNCHANGED files

\* Mutant: the directory does not show the disc key.
TitleAndDateOnly(l) == NoKey

\* The directory shows the disc key of a scrambled disc, all zero if it is missing.
KeyShown(l) == IF l.b_scrambled THEN l.p_disc_key ELSE NoKey

\* The last thing dvdcss_open does is to seek to the beginning.
OpenCache(h) ==
    /\ InitCache(h, <<Volume[lib[h].disc], KeyShown(lib[h])>>)
    /\ \E p \in pf_seek(h, 0) :
          lib' = IF pc'[h] = "opened" THEN [lib EXCEPT ![h].cursor = p] ELSE lib
    /\ out' = NoOutput
    /\ UNCHANGED <<files, client>>

Forget(h) ==
    /\ LeaveCache(h)
    /\ lib' = [lib EXCEPT ![h] = NewInstance(@.disc, "KEY")]
    /\ client' = [client EXCEPT ![h] = NewClient]
    /\ out' = NoOutput
    /\ UNCHANGED files

Close(h) == At(h, "opened") /\ Forget(h)

\* The process is gone, whatever it has come to.
Kill(h) == At(h, "undefined") /\ Forget(h)

(***************************************************************************)
(* dvdcss_seek.                                                            *)
(***************************************************************************)
ChecksKey(l, flags) == flags = "KEY" \/ (flags = "MPEG" /\ l.i_method # "TITLE")

Saves(h, b, key) ==
    files' = IF HasCache(h) /\ key # NoKey
             THEN [files EXCEPT ![psz_cachefile[h][2]][b] = key] ELSE files

\* Mutant: the seek is made whether there is a key or not.
NeverRefuses(r) == FALSE

\* There is no seek without the title's key.
Refuses(r) == r.i_ret < 0

\* The application enters a title with a seek that checks its key and succeeds.
Enters(c, b, flags, ok) ==
    [c EXCEPT !.failed = ~ok,
              !.entered = IF flags # "KEY" THEN @ ELSE IF ok THEN TitleOf[b] ELSE NoTitle]

\* A wild psz_block is written through when the key is not in the list.
Wild(h, l, b) ==
    l.b_scrambled /\ l.p_titles[b] = NoKey /\ HasCache(h) /\ psz_block[h] = Unset

\* DVDCSS_SEEK_KEY is used to enter a title, DVDCSS_SEEK_MPEG inside it.
MaySeek(h, b, flags) ==
    /\ At(h, "opened")
    /\ h \in Players
    /\ b \in Places[lib[h].disc]
    /\ flags = "MPEG" => client[h].entered = TitleOf[b]

Seek(h, b, flags) ==
    /\ MaySeek(h, b, flags)
    /\ ~(ChecksKey(lib[h], flags) /\ Wild(h, lib[h], b))
    /\ \E r \in IF ChecksKey(lib[h], flags) THEN dvdcss_title(h, lib[h], b)
                                           ELSE {Learned(lib[h], NoKey, 0)} :
          /\ Saves(h, b, r.key)
          /\ \/ /\ Refuses(r)
                /\ lib' = [lib EXCEPT ![h] = r.lib]
                /\ client' = [client EXCEPT ![h] = Enters(@, b, flags, FALSE)]
             \/ /\ ~Refuses(r)
                /\ \E p \in pf_seek(h, b) :
                      /\ lib' = [lib EXCEPT ![h] = [r.lib EXCEPT !.cursor = p]]
                      /\ client' = [client EXCEPT ![h] = Enters(@, b, flags, p = b)]
    /\ out' = NoOutput
    /\ UNCHANGED cachevars

SeekWild(h, b, flags) ==
    /\ MaySeek(h, b, flags)
    /\ ChecksKey(lib[h], flags) /\ Wild(h, lib[h], b)
    /\ Goto(h, "undefined")
    /\ UNCHANGED <<dirs, psz_cache, psz_cachefile, psz_block, fill, lib, files, client>>
    /\ out' = NoOutput

(***************************************************************************)
(* dvdcss_read.                                                            *)
(***************************************************************************)
Form(l, b, descramble) ==
    IF b \notin Scrambled[l.disc] THEN "clear"
    ELSE IF ~descramble THEN "scrambled"
    ELSE IF l.p_title_key = TitleSecret(l, b) THEN "clear" ELSE "garbled"

\* Mutant: an all-zero key is used like any other.
UsesAnyKey(l) == TRUE

\* With an all-zero key dvdcss_read only looks for scrambled blocks.
UsesKey(l) == l.p_title_key # ZeroKey

\* The blocks of a read of n blocks; the device ends behind the last one.
Ahead(l, n) == {b \in Blocks : b >= l.cursor /\ b < l.cursor + n}

\* The application reads on only after a success, and has blocks decrypted only
\* inside the title it has entered.
MayRead(h, n, decrypt) ==
    /\ At(h, "opened")
    /\ ~client[h].failed
    /\ decrypt => \A b \in Ahead(lib[h], n) : TitleOf[b] = client[h].entered

\* Mutant: the position moves on as far as was asked for.
AsAsked(l, n) == [l EXCEPT !.cursor = @ + n]

Advanced(l, n) == [l EXCEPT !.cursor = @ + Cardinality(Ahead(l, n))]

Delivers(h, n, o) ==
    /\ lib' = [lib EXCEPT ![h] = Advanced(@, n)]
    /\ out' = o
    /\ client' = [client EXCEPT ![h].failed = o.i_ret < 0]
    /\ UNCHANGED <<cachevars, files>>

ReadFails(h, call) ==
    /\ "read" \in KeyFaults[h]
    /\ lib' = [lib EXCEPT ![h].cursor = -1]
    /\ out' = Output(h, call, -1, {})
    /\ client' = [client EXCEPT ![h].failed = TRUE]
    /\ UNCHANGED <<cachevars, files>>

Read(h, n, decrypt) ==
    /\ MayRead(h, n, decrypt)
    /\ LET l == lib[h]
           descramble == decrypt /\ l.b_scrambled /\ UsesKey(l)
       IN  \/ Delivers(h, n,
                Output(h, "read", Cardinality(Ahead(l, n)),
                       {Form(l, b, descramble) : b \in Ahead(l, n)}))
           \/ ReadFails(h, "read")

(***************************************************************************)
(* dvdcss_readv.                                                           *)
(***************************************************************************)
\* The lengths of the first k buffers.
Total(iov) ==
    LET sum[k \in 0 .. Len(iov)] == IF k = 0 THEN 0 ELSE sum[k - 1] + iov[k] IN sum

\* Mutant: of several empty buffers only one is passed over.
NextBuffer1(iov, s) == IF s.left # 0 THEN s.i ELSE s.i + 1

\* The buffer for the next block: the next one that is not empty.
NextBuffer(iov, s) ==
    IF s.left # 0 THEN s.i
    ELSE CHOOSE j \in s.i + 1 .. Len(iov) :
            iov[j] # 0 /\ \A k \in s.i + 1 .. j - 1 : iov[k] = 0

\* One turn of the loop over the blocks: the rest of the buffer is looked at, and
\* two half blocks of it, or of the next one, are descrambled.
Turn(iov, s) ==
    LET i == NextBuffer(iov, s)
        left == IF i = s.i THEN s.left ELSE iov[i]
    IN  IF ~s.ok \/ s.left % 2 = 1 THEN [s EXCEPT !.ok = FALSE]
        ELSE [ok |-> TRUE, i |-> i, left |-> left - 2,
              done |-> s.done \cup {<<i, iov[i] - left>>}]

Descrambling(iov, n) ==
    LET turn[k \in 0 .. n] ==
            IF k = 0 THEN [ok |-> TRUE, i |-> 1, left |-> iov[1], done |-> {}]
                     ELSE Turn(iov, turn[k - 1])
    IN  turn[n]

Readv(h, iov, decrypt) ==
    LET l == lib[h]
        n == Total(iov)[Len(iov)] \div 2
        blocks == Ahead(l, n)
        descramble == decrypt /\ l.b_scrambled
        loop == Descrambling(iov, Cardinality(blocks))
    IN
    /\ MayRead(h, n, decrypt)
    /\ \/ Delivers(h, n,
             [Output(h, "readv",
                     IF descramble /\ ~loop.ok THEN -1 ELSE Cardinality(blocks),
                     {Form(l, b, descramble) : b \in blocks})
                EXCEPT !.iov = iov, !.done = IF descramble THEN loop.done ELSE {}])
       \/ ReadFails(h, "readv")

Next ==
    \E h \in Handles :
        \/ Open(h) \/ OpenCache(h) \/ Close(h) \/ Kill(h)
        \/ \E b \in Blocks : \E flags \in {"NOFLAGS", "MPEG", "KEY"} :
              Seek(h, b, flags) \/ SeekWild(h, b, flags)
        \/ \E decrypt \in BOOLEAN :
              \/ \E n \in ReadSizes : Read(h, n, decrypt)
              \/ \E iov \in Iovecs : Readv(h, iov, decrypt)

Spec == Init /\ [][Next]_vars

(***************************************************************************)
(* Properties.                                                             *)
(***************************************************************************)
\* No block is delivered that a wrong key has spoilt and that is no longer marked
\* as scrambled, to an application that enters a title with DVDCSS_SEEK_KEY and
\* reads on only after a success.
NothingGarbled == "garbled" \notin out.forms

\* The same of a handle that had its disc key when it was opened, whatever the
\* others that use the cache have, whatever fails, and although a failure may make
\* it go over to cracking; but for dvdcss_readv, which descrambles with an all-zero
\* key too.
KeyedNotGarbled ==
    "garbled" \in out.forms /\ client[out.to].keyed
        => out.op = "readv" /\ lib[out.to].p_title_key = ZeroKey

\* A cache directory that shows a disc key holds title keys of that disc only, or
\* zero keys, although handles of other discs with the same name, and of this disc
\* without its key, use the cache.
KeyedDirsGenuine ==
    \A d \in Discs : \A b \in Blocks :
        files[<<Volume[d], DiscKey[d]>>][b] \in {NoKey, ZeroKey, Secret[d][TitleOf[b]]}

\* While an application is inside a title of a scrambled disc, the key in force is
\* one that was learned for that title: after seeks that have failed, after the
\* method has changed in the middle of a call, and never an indeterminate one.
KeyInPlace ==
    \A h \in Handles :
        client[h].entered # NoTitle /\ lib[h].b_scrambled
            => /\ lib[h].p_title_key # NoKey
               /\ \E b \in Blocks : /\ TitleOf[b] = client[h].entered
                                    /\ lib[h].p_titles[b] = lib[h].p_title_key

\* Where blocks of a vectored read are put: their first half blocks.
BlockPlaces(iov, n) ==
    {p \in (DOMAIN iov) \X (0 .. 2 * n) :
        p[2] < iov[p[1]] /\ \E k \in 0 .. n - 1 : Total(iov)[p[1] - 1] + p[2] = 2 * k}

\* dvdcss_readv descrambles the blocks where the device has put them, whatever empty
\* buffers there are between them: all that it has delivered; or, if it then refuses
\* a buffer that is not of whole blocks, those of the buffers before that one and,
\* unless it is the very first, the first block of the refused one too.
ReadvInPlace ==
    LET n == Cardinality(out.done) IN
    out.op = "readv"
        => /\ out.done = BlockPlaces(out.iov, n)
           /\ out.i_ret >= 0 => n \in {0, out.i_ret}
           /\ out.iov # <<>> /\ out.i_ret = -1
                => \E i \in DOMAIN out.iov :
                      /\ out.iov[i] % 2 = 1
                      /\ \A j \in 1 .. i - 1 : out.iov[j] % 2 = 0
                      /\ 2 * n = IF i = 1 THEN 0 ELSE Total(out.iov)[i - 1] + 2

=============================================================================
