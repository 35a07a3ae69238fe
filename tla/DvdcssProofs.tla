--------------------------- MODULE DvdcssProofs ---------------------------
(***************************************************************************)
(* Proofs about the library's calls, for any number of handles, discs,     *)
(* blocks and titles, whatever fails.                                      *)
(*                                                                         *)
(* A handle that had its disc key when it was opened either has it still   *)
(* or has gone over to cracking: both give genuine keys.  Its cache        *)
(* directory shows the disc key, and nobody without that key, or of        *)
(* another disc, is led to that directory, so what is read from there is   *)
(* genuine too.  The other half of the invariant follows the key in force  *)
(* through failures: a title is entered only together with its key.        *)
(***************************************************************************)
EXTENDS Dvdcss, CacheDirProofs, FiniteSetTheorems

Opening == {"SetDirectory", "StatDir", "MkDir", "Sectors", "StatSub", "MkSub"}

Genuine(d, b) == {NoKey, ZeroKey, Secret[d][TitleOf[b]]}

\* A disc key is the disc's own or none.
DiscKeyRight(l) == l.p_disc_key \in {DiscKey[l.disc], ZeroKey}

\* The disc key is there, or it is not needed.
KeyedMode(l) == l.p_disc_key = DiscKey[l.disc] \/ l.i_method = "TITLE"

\* The subdirectory of a handle's cache.
DirOf(h) ==
    <<Volume[lib[h].disc],
      IF client[h].keyed THEN DiscKey[lib[h].disc]
      ELSE IF lib[h].b_scrambled THEN ZeroKey ELSE NoKey>>

\* A handle with a cache it can use has come to that subdirectory.
Place(h) ==
    At(h, "MkSub") \/ (At(h, "opened") /\ HasCache(h) /\ psz_block[h] # Unset)
        => \E n \in Nat : psz_cachefile[h] = <<n, DirOf(h)>>

\* A handle that had its disc key has learned nothing but genuine keys.
KeysGenuine(h) ==
    client[h].keyed =>
        /\ lib[h].b_scrambled
        /\ KeyedMode(lib[h])
        /\ \A b \in Blocks : lib[h].p_titles[b] \in Genuine(lib[h].disc, b)

\* The title an application is inside of, and its key.
Entered(h) ==
    client[h].entered # NoTitle /\ lib[h].b_scrambled =>
        /\ lib[h].p_title_key # NoKey
        /\ \E b \in Blocks : /\ TitleOf[b] = client[h].entered
                             /\ lib[h].p_titles[b] = lib[h].p_title_key

HandleInv(h) ==
    /\ DiscKeyRight(lib[h])
    /\ KeysGenuine(h)
    /\ pc[h] \in Opening => (client[h].keyed <=> lib[h].p_disc_key # ZeroKey)
    /\ At(h, "SetDirectory") => psz_block[h] = Unset
    /\ Place(h)
    /\ Entered(h)

KeyTypes ==
    /\ lib \in [Handles -> Instances]
    /\ files \in [Subdirs -> [Blocks -> TitleKeySet \cup {NoKey}]]
    /\ client \in [Handles -> Clients]

Inv ==
    /\ CacheInv
    /\ KeyTypes
    /\ \A h \in Handles : HandleInv(h)
    /\ KeyedDirsGenuine
    /\ KeyedNotGarbled

(***************************************************************************)
(* The functions: what each of their outcomes keeps.                       *)
(***************************************************************************)
\* What getting a disc key, or failing to, leaves alone.
SameTitles(k, l) ==
    /\ k \in Instances
    /\ k.disc = l.disc
    /\ k.b_scrambled = l.b_scrambled
    /\ k.p_titles = l.p_titles
    /\ k.p_title_key = l.p_title_key
    /\ k.cursor = l.cursor

\* A disc key that is got is the disc's own; without one the method is TITLE, unless
\* nothing has changed.
LEMMA DiscKeyOutcomes ==
    ASSUME NEW h, NEW l \in Instances, DiscKeyRight(l), NEW k \in dvdcss_disckey(h, l)
    PROVE  SameTitles(k, l) /\ DiscKeyRight(k) /\ (KeyedMode(l) => KeyedMode(k))
  <1>1. CASE k = l
    BY <1>1 DEF SameTitles
  <1>2. CASE k = [l EXCEPT !.p_disc_key = ZeroKey] /\ l.i_method = "TITLE"
    BY <1>2 DEF Instances, DiscKeySet, SameTitles, DiscKeyRight, KeyedMode
  <1>3. CASE k = [l EXCEPT !.p_disc_key = DiscKey[l.disc]]
    BY <1>3 DEF Instances, DiscKeySet, SameTitles, DiscKeyRight, KeyedMode
  <1>4. CASE k = [l EXCEPT !.p_disc_key = ZeroKey,
                           !.i_method = MethodWithoutDiscKey(@)]
    BY <1>4 DEF Instances, DiscKeySet, SameTitles, DiscKeyRight, KeyedMode,
               MethodWithoutDiscKey
  <1> QED BY <1>1, <1>2, <1>3, <1>4 DEF dvdcss_disckey, May

\* A cracked key is genuine.
LEMMA CrackOutcomes ==
    ASSUME NEW h, NEW l \in Instances, NEW b \in Blocks, NEW r \in CrackTitleKey(h, l, b)
    PROVE  /\ r.lib = l
           /\ r.key \in {ZeroKey, TitleSecret(l, b)}
           /\ r.i_ret \in {-1, 0, 1}
  BY DEF CrackTitleKey, Learned, May

LEMMA SecretType ==
    ASSUME NEW l \in Instances, NEW b \in Blocks
    PROVE  TitleSecret(l, b) \in TitleKeySet
  BY DEF TitleSecret, TitleKeySet, Titles, Instances

\* So is a decrypted one, if the disc key is right.
LEMMA TitleKeyOutcomes ==
    ASSUME NEW h, NEW l \in Instances, DiscKeyRight(l), NEW b \in Blocks,
           NEW r \in dvdcss_titlekey(h, l, b)
    PROVE  /\ SameTitles(r.lib, l) /\ DiscKeyRight(r.lib)
           /\ KeyedMode(l) => /\ KeyedMode(r.lib)
                              /\ r.key \in {ZeroKey, TitleSecret(l, b)}
           /\ r.key \in TitleKeySet
           /\ r.i_ret \in {-1, 0, 1}
  <1>1. ASSUME NEW k \in Instances, SameTitles(k, l), DiscKeyRight(k),
               KeyedMode(l) => KeyedMode(k), r \in CrackTitleKey(h, k, b)
        PROVE  /\ SameTitles(r.lib, l) /\ DiscKeyRight(r.lib)
               /\ KeyedMode(l) => /\ KeyedMode(r.lib)
                                  /\ r.key \in {ZeroKey, TitleSecret(l, b)}
               /\ r.key \in TitleKeySet
               /\ r.i_ret \in {-1, 0, 1}
    <2>1. TitleSecret(k, b) = TitleSecret(l, b)
      BY <1>1 DEF TitleSecret, SameTitles
    <2> QED BY <1>1, <2>1, CrackOutcomes, SecretType DEF TitleKeySet
  <1>2. CASE ~ClassicWay(l)
    <2>1. SameTitles(l, l)
      BY DEF SameTitles
    <2> QED BY <1>1, <1>2, <2>1 DEF dvdcss_titlekey
  <1>3. CASE ClassicWay(l) /\ r = Learned(l, Decrypted(l, b), 0)
    <2>1. r.lib = l /\ r.key = Decrypted(l, b) /\ r.i_ret = 0
      BY <1>3 DEF Learned
    <2>2. Decrypted(l, b) \in TitleKeySet
      BY SecretType DEF Decrypted, TitleKeySet
    <2>3. KeyedMode(l) => Decrypted(l, b) \in {ZeroKey, TitleSecret(l, b)}
      BY <1>3 DEF Decrypted, KeyedMode, ClassicWay
    <2> QED BY <2>1, <2>2, <2>3 DEF SameTitles
  <1>4. CASE \E k \in dvdcss_disckey(h, l) : r \in CrackTitleKey(h, k, b)
    <2>1. PICK k \in dvdcss_disckey(h, l) : r \in CrackTitleKey(h, k, b)
      BY <1>4
    <2>2. SameTitles(k, l) /\ DiscKeyRight(k) /\ (KeyedMode(l) => KeyedMode(k))
      BY DiscKeyOutcomes
    <2>3. k \in Instances
      BY <2>2 DEF SameTitles
    <2> QED BY <1>1, <2>1, <2>2, <2>3
  <1> QED BY <1>2, <1>3, <1>4 DEF dvdcss_titlekey, May

\* The outcomes of dvdcss_title for a block: with success the block is in the list
\* with the key in force, without it the list and the key in force are as before.
\* What is saved was not in the list.
TitleOutcome(l, b, r) ==
    /\ r.lib \in Instances /\ DiscKeyRight(r.lib)
    /\ r.lib.disc = l.disc /\ r.lib.b_scrambled = l.b_scrambled
    /\ KeyedMode(l) => KeyedMode(r.lib)
    /\ r.i_ret < 0 => /\ r.lib.p_titles = l.p_titles
                      /\ r.lib.p_title_key = l.p_title_key
    /\ ~(r.i_ret < 0) /\ l.b_scrambled => /\ r.lib.p_titles[b] = r.lib.p_title_key
                                          /\ r.lib.p_title_key # NoKey
    /\ \A c \in Blocks : c # b => r.lib.p_titles[c] = l.p_titles[c]
    /\ ~l.b_scrambled => r.lib = l /\ r.key = NoKey
    /\ r.key \in TitleKeySet \cup {NoKey}
    /\ r.key # NoKey => l.b_scrambled /\ l.p_titles[b] = NoKey
    /\ r.lib.cursor \in {l.cursor, -1}

\* A key is genuine that comes from the list, the cache or dvdcss_titlekey.
GenuineOutcome(l, b, r) ==
    r.lib.p_titles[b] \in Genuine(l.disc, b) /\ r.key \in Genuine(l.disc, b)

LEMMA ListedOutcome ==
    ASSUME NEW l \in Instances, NEW b \in Blocks, NEW key \in TitleKeySet
    PROVE  LET k == Listed(l, b, key) IN
           /\ k \in Instances
           /\ k.disc = l.disc /\ k.b_scrambled = l.b_scrambled
           /\ k.i_method = l.i_method /\ k.p_disc_key = l.p_disc_key
           /\ k.p_title_key = key /\ k.p_titles[b] = key /\ k.cursor = l.cursor
           /\ \A c \in Blocks : c # b => k.p_titles[c] = l.p_titles[c]
  BY DEF Listed, Instances

LEMMA TitleOutcomes ==
    ASSUME NEW h, NEW l \in Instances, DiscKeyRight(l), NEW b \in Blocks,
           l.b_scrambled /\ l.p_titles[b] = NoKey
               => Cached(h)[b] \in TitleKeySet \cup {NoKey},
           NEW r \in dvdcss_title(h, l, b)
    PROVE  /\ TitleOutcome(l, b, r)
           /\ /\ KeyedMode(l) /\ l.p_titles[b] \in Genuine(l.disc, b)
              /\ l.b_scrambled /\ l.p_titles[b] = NoKey
                    => Cached(h)[b] \in Genuine(l.disc, b)
              => GenuineOutcome(l, b, r)
  <1> USE DEF Learned
  <1>0. /\ NoKey \notin TitleKeySet
        /\ l.p_titles[b] \in TitleKeySet \cup {NoKey}
        /\ l.b_scrambled \in BOOLEAN
    BY KeysAssumption DEF Instances
  <1>1. CASE ~l.b_scrambled
    <2>1. r.lib = l /\ r.key = NoKey /\ r.i_ret = 0
      BY <1>1 DEF dvdcss_title
    <2> QED BY <1>1, <2>1 DEF TitleOutcome, GenuineOutcome, Genuine
  <1>2. CASE l.b_scrambled /\ l.p_titles[b] # NoKey
    <2>1. /\ r.lib = [l EXCEPT !.p_title_key = l.p_titles[b]]
          /\ r.key = NoKey /\ r.i_ret = 0
      BY <1>2 DEF dvdcss_title
    <2>2. /\ r.lib \in Instances
          /\ r.lib.disc = l.disc /\ r.lib.b_scrambled = l.b_scrambled
          /\ r.lib.i_method = l.i_method /\ r.lib.p_disc_key = l.p_disc_key
          /\ r.lib.p_titles = l.p_titles /\ r.lib.p_title_key = l.p_titles[b]
          /\ r.lib.cursor \in {l.cursor, -1}
      BY <2>1, <1>0 DEF Instances
    <2>3. DiscKeyRight(r.lib) /\ (KeyedMode(l) => KeyedMode(r.lib))
      BY <2>2 DEF DiscKeyRight, KeyedMode
    <2>4. TitleOutcome(l, b, r)
      <3>1. ~(r.i_ret < 0)
        BY <2>1
      <3> QED BY <1>2, <2>1, <2>2, <2>3, <3>1, Zenon DEF TitleOutcome
    <2>5. l.p_titles[b] \in Genuine(l.disc, b) => GenuineOutcome(l, b, r)
      BY <2>1, <2>2 DEF GenuineOutcome, Genuine
    <2> QED BY <2>4, <2>5
  <1>3. CASE l.b_scrambled /\ l.p_titles[b] = NoKey /\ Cached(h)[b] # NoKey
    <2>1. r.lib = Listed(l, b, Cached(h)[b]) /\ r.key = NoKey /\ r.i_ret = 0
      BY <1>3 DEF dvdcss_title
    <2>2. Cached(h)[b] \in TitleKeySet
      BY <1>3
    <2>3. /\ r.lib \in Instances
          /\ r.lib.disc = l.disc /\ r.lib.b_scrambled = l.b_scrambled
          /\ r.lib.i_method = l.i_method /\ r.lib.p_disc_key = l.p_disc_key
          /\ r.lib.p_title_key = Cached(h)[b] /\ r.lib.p_titles[b] = Cached(h)[b]
          /\ r.lib.cursor \in {l.cursor, -1}
          /\ \A c \in Blocks : c # b => r.lib.p_titles[c] = l.p_titles[c]
      BY <2>1, <2>2, ListedOutcome
    <2>4. DiscKeyRight(r.lib) /\ (KeyedMode(l) => KeyedMode(r.lib))
      BY <2>3 DEF DiscKeyRight, KeyedMode
    <2>5. TitleOutcome(l, b, r)
      BY <1>0, <1>3, <2>1, <2>2, <2>3, <2>4 DEF TitleOutcome
    <2>6. Cached(h)[b] \in Genuine(l.disc, b) => GenuineOutcome(l, b, r)
      BY <2>1, <2>3 DEF GenuineOutcome, Genuine
    <2> QED BY <1>3, <2>5, <2>6
  <1>4. CASE l.b_scrambled /\ l.p_titles[b] = NoKey /\ Cached(h)[b] = NoKey
    <2>1. PICK q \in dvdcss_titlekey(h, l, b) :
              r = IF q.i_ret < 0 THEN Learned([q.lib EXCEPT !.cursor = -1], NoKey, -1)
                                 ELSE Learned(Listed(q.lib, b, q.key), q.key, 0)
      BY <1>4 DEF dvdcss_title
    <2>2. /\ SameTitles(q.lib, l) /\ DiscKeyRight(q.lib)
          /\ KeyedMode(l) => /\ KeyedMode(q.lib)
                             /\ q.key \in {ZeroKey, TitleSecret(l, b)}
          /\ q.key \in TitleKeySet
          /\ q.i_ret \in {-1, 0, 1}
      BY TitleKeyOutcomes
    <2>3. CASE q.i_ret < 0
      <3>1. r.lib = [q.lib EXCEPT !.cursor = -1] /\ r.key = NoKey /\ r.i_ret = -1
        BY <2>1, <2>3
      <3>2. /\ r.lib \in Instances
            /\ r.lib.disc = l.disc /\ r.lib.b_scrambled = l.b_scrambled
            /\ r.lib.i_method = q.lib.i_method
            /\ r.lib.p_disc_key = q.lib.p_disc_key /\ q.lib.disc = l.disc
            /\ r.lib.p_titles = l.p_titles /\ r.lib.p_title_key = l.p_title_key
            /\ r.lib.cursor \in {l.cursor, -1}
        BY <3>1, <2>2 DEF SameTitles, Instances
      <3>3. r.i_ret < 0
        BY <3>1
      <3>4. DiscKeyRight(r.lib) /\ (KeyedMode(l) => KeyedMode(r.lib))
        BY <2>2, <3>2 DEF DiscKeyRight, KeyedMode
      <3>5. TitleOutcome(l, b, r)
        BY <1>4, <3>1, <3>2, <3>3, <3>4, Zenon DEF TitleOutcome
      <3>6. l.p_titles[b] \in Genuine(l.disc, b) => GenuineOutcome(l, b, r)
        BY <3>1, <3>2 DEF GenuineOutcome, Genuine
      <3> QED BY <3>5, <3>6
    <2>4. CASE ~(q.i_ret < 0)
      <3>1. r.lib = Listed(q.lib, b, q.key) /\ r.key = q.key /\ r.i_ret = 0
        BY <2>1, <2>4
      <3>2. q.lib \in Instances /\ q.lib.disc = l.disc
            /\ q.lib.b_scrambled = l.b_scrambled /\ q.lib.p_titles = l.p_titles
            /\ q.lib.cursor = l.cursor
        BY <2>2 DEF SameTitles
      <3>3. /\ r.lib \in Instances
            /\ r.lib.disc = l.disc /\ r.lib.b_scrambled = l.b_scrambled
            /\ r.lib.i_method = q.lib.i_method /\ r.lib.p_disc_key = q.lib.p_disc_key
            /\ r.lib.p_title_key = q.key /\ r.lib.p_titles[b] = q.key
            /\ r.lib.cursor \in {l.cursor, -1}
            /\ \A c \in Blocks : c # b => r.lib.p_titles[c] = l.p_titles[c]
        BY <3>1, <3>2, <2>2, ListedOutcome
      <3>4. DiscKeyRight(r.lib) /\ (KeyedMode(l) => KeyedMode(r.lib))
        BY <2>2, <3>2, <3>3 DEF DiscKeyRight, KeyedMode
      <3>5. TitleOutcome(l, b, r)
        BY <1>0, <1>4, <2>2, <3>1, <3>2, <3>3, <3>4 DEF TitleOutcome
      <3>6. KeyedMode(l) => GenuineOutcome(l, b, r)
        BY <2>2, <3>1, <3>3 DEF GenuineOutcome, Genuine, TitleSecret
      <3> QED BY <3>5, <3>6
    <2> QED BY <2>3, <2>4
  <1> QED BY <1>0, <1>1, <1>2, <1>3, <1>4

(***************************************************************************)
(* The steps.                                                              *)
(***************************************************************************)
\* Everything the invariant says of a handle but for its position.
SameKeys(k, l) ==
    /\ k.disc = l.disc /\ k.b_scrambled = l.b_scrambled /\ k.i_method = l.i_method
    /\ k.p_disc_key = l.p_disc_key /\ k.p_titles = l.p_titles
    /\ k.p_title_key = l.p_title_key

LEMMA MovedKeepsKeys ==
    ASSUME NEW l \in Instances, NEW p \in Int
    PROVE  LET k == [l EXCEPT !.cursor = p] IN k \in Instances /\ SameKeys(k, l)
  BY DEF Instances, SameKeys

\* A handle keeps its part of the invariant while nothing of it but its position and
\* the success of its last call changes.
LEMMA HandleKept ==
    ASSUME NEW h \in Handles, HandleInv(h), SameKeys(lib'[h], lib[h]),
           client'[h].entered = client[h].entered, client'[h].keyed = client[h].keyed,
           pc'[h] = pc[h], psz_cachefile'[h] = psz_cachefile[h],
           psz_block'[h] = psz_block[h]
    PROVE  HandleInv(h)'
  <1> USE DEF SameKeys
  <1>1. DirOf(h)' = DirOf(h)
    BY DEF DirOf
  <1>2. Place(h)'
    BY <1>1, Zenon DEF HandleInv, Place, At, HasCache
  <1>3. DiscKeyRight(lib[h])' /\ KeysGenuine(h)'
    BY DEF HandleInv, DiscKeyRight, KeysGenuine, KeyedMode
  <1>4. Entered(h)'
    BY DEF HandleInv, Entered
  <1> QED BY <1>1, <1>2, <1>3, <1>4 DEF HandleInv, At

\* The same for the handles another one's step does not touch.
LEMMA OthersHandleKept ==
    ASSUME NEW k \in Handles, HandleInv(k), lib'[k] = lib[k], client'[k] = client[k],
           pc'[k] = pc[k], psz_cachefile'[k] = psz_cachefile[k],
           psz_block'[k] = psz_block[k]
    PROVE  HandleInv(k)'
  BY HandleKept DEF SameKeys

\* A step that delivers nothing.
LEMMA QuietStep == ASSUME out' = NoOutput PROVE KeyedNotGarbled'
  BY DEF KeyedNotGarbled, NoOutput

\* A handle that has been opened: it has its disc key only if it needs one.
LEMMA OpenedOutcomes ==
    ASSUME NEW h, NEW d \in Discs, NEW m \in {"KEY", "DISC", "TITLE"}, NEW drive \in BOOLEAN,
           NEW l \in Opened(h, d, m, drive)
    PROVE  /\ l \in Instances /\ l.disc = d /\ DiscKeyRight(l)
           /\ l.p_titles = NoFiles
           /\ l.p_disc_key # ZeroKey => l.b_scrambled
           /\ l.cursor = 0
  <1> DEFINE new == NewInstance(d, m)
  <1>1. /\ new \in Instances /\ new.disc = d /\ new.p_disc_key = ZeroKey
        /\ new.p_titles = NoFiles /\ new.cursor = 0
    BY DEF NewInstance, Instances, NoFiles, DiscKeySet
  <1>2. ASSUME NEW k \in dvdcss_test(h, new)
        PROVE  /\ k \in Instances /\ k.disc = d /\ k.p_disc_key = ZeroKey
               /\ k.p_titles = NoFiles /\ k.cursor = 0
    <2>1. CASE k = [new EXCEPT !.b_ioctls = TRUE, !.b_scrambled = Encrypted(new.disc)]
      <3>1. Encrypted(new.disc) \in BOOLEAN
        BY DEF Encrypted
      <3> HIDE DEF new
      <3> QED BY <1>1, <2>1, <3>1 DEF Instances
    <2>2. CASE \E x, y \in BOOLEAN : k = [new EXCEPT !.b_ioctls = x]
      <3> HIDE DEF new
      <3> QED BY <1>1, <2>2 DEF Instances
    <2> QED BY <2>1, <2>2 DEF dvdcss_test, May
  <1>3. CASE l = new
    BY <1>1, <1>3 DEF DiscKeyRight
  <1>4. CASE drive
    <2>1. PICK k \in dvdcss_test(h, new) :
              l \in IF k.b_scrambled /\ k.b_ioctls THEN dvdcss_disckey(h, k) ELSE {k}
      BY <1>4 DEF Opened
    <2>2. DiscKeyRight(k)
      BY <1>2 DEF DiscKeyRight
    <2>3. CASE k.b_scrambled /\ k.b_ioctls
      <3>1. SameTitles(l, k) /\ DiscKeyRight(l)
        BY <2>1, <2>2, <2>3, <1>2, DiscKeyOutcomes
      <3> QED BY <3>1, <2>3, <1>2 DEF SameTitles
    <2>4. CASE ~(k.b_scrambled /\ k.b_ioctls)
      BY <2>1, <2>2, <2>4, <1>2
    <2> QED BY <2>3, <2>4
  <1> QED BY <1>3, <1>4 DEF Opened

LEMMA InitInv == Init => Inv
  <1> SUFFICES ASSUME Init PROVE Inv
    OBVIOUS
  <1> DEFINE new == NewInstance(CHOOSE d \in Discs : TRUE, "KEY")
  <1>1. new \in Instances /\ DiscKeyRight(new)
    BY EnvironmentsAssumption DEF NewInstance, Instances, NoFiles, DiscKeySet, DiscKeyRight
  <1>2. NewClient \in Clients /\ NewClient.entered = NoTitle /\ NewClient.keyed = FALSE
    BY DEF NewClient, Clients
  <1>3. KeyTypes
    <2> HIDE DEF new
    <2> QED BY <1>1, <1>2 DEF Init, KeyTypes, NoFiles, new
  <1>4. ASSUME NEW h \in Handles PROVE HandleInv(h)
    <2>1. lib[h] = new /\ client[h] = NewClient /\ pc[h] = "closed"
      BY DEF Init, CacheInit
    <2> HIDE DEF new
    <2> QED BY <1>1, <1>2, <2>1
        DEF HandleInv, KeysGenuine, Place, Entered, Opening, At
  <1>5. KeyedDirsGenuine
    <2> SUFFICES ASSUME NEW d \in Discs, NEW b \in Blocks
                 PROVE  files[<<Volume[d], DiscKey[d]>>][b] = NoKey
      BY DEF KeyedDirsGenuine
    <2>1. <<Volume[d], DiscKey[d]>> \in Subdirs
      BY SubdirsAssumption DEF DiscKeySet
    <2> QED BY <2>1 DEF Init, NoFiles
  <1>6. KeyedNotGarbled
    BY DEF KeyedNotGarbled, Init, NoOutput
  <1> QED BY <1>3, <1>4, <1>5, <1>6, CacheInitInv DEF Inv, Init

LEMMA OpenInv ==
    ASSUME Inv, NEW h \in Handles, Open(h)
    PROVE  Inv'
  <1>1. PICK e \in Environments[h] : \E l \in Opened(h, e.disc, e.i_method, e.drive) :
          /\ lib' = [lib EXCEPT ![h] = l]
          /\ client' = [client EXCEPT ![h] =
                [NewClient EXCEPT !.keyed = l.p_disc_key # ZeroKey]]
          /\ EnterCache(h, e.psz_cache)
    BY DEF Open
  <1>2. PICK l \in Opened(h, e.disc, e.i_method, e.drive) :
          /\ lib' = [lib EXCEPT ![h] = l]
          /\ client' = [client EXCEPT ![h] =
                [NewClient EXCEPT !.keyed = l.p_disc_key # ZeroKey]]
          /\ EnterCache(h, e.psz_cache)
    BY <1>1
  <1>3. /\ e.disc \in Discs /\ e.i_method \in {"KEY", "DISC", "TITLE"}
        /\ e.drive \in BOOLEAN /\ e.psz_cache \in Names \cup {Off}
    BY EnvironmentsAssumption
  <1>4. /\ l \in Instances /\ DiscKeyRight(l) /\ l.p_titles = NoFiles
        /\ l.p_disc_key # ZeroKey => l.b_scrambled
    BY <1>3, OpenedOutcomes
  <1> DEFINE c == [NewClient EXCEPT !.keyed = l.p_disc_key # ZeroKey]
  <1>5. c \in Clients /\ c.entered = NoTitle /\ c.keyed = (l.p_disc_key # ZeroKey)
    BY DEF NewClient, Clients
  <1>6. lib'[h] = l /\ client'[h] = c
    BY <1>2 DEF Inv, KeyTypes
  <1> HIDE DEF c
  <1>7. pc'[h] = "SetDirectory" /\ psz_block'[h] = Unset
    BY <1>2 DEF Inv, CacheInv, CacheTypes, EnterCache, Goto
  <1>8. CacheInv'
    BY <1>2, <1>3, EnterCacheInv DEF Inv
  <1>9. KeyTypes'
    BY <1>2, <1>4, <1>5, <1>6 DEF Inv, KeyTypes, Open, c
  <1>10. ASSUME NEW k \in Handles PROVE HandleInv(k)'
    <2>1. CASE k = h
      <3>1. KeysGenuine(h)'
        BY <1>4, <1>5, <1>6 DEF KeysGenuine, KeyedMode, DiscKeyRight, NoFiles, Genuine
      <3> QED BY <2>1, <3>1, <1>4, <1>5, <1>6, <1>7
          DEF HandleInv, Place, Entered, At, Opening
    <2>2. CASE k # h
      <3>1. /\ lib'[k] = lib[k] /\ client'[k] = client[k] /\ pc'[k] = pc[k]
            /\ psz_cachefile'[k] = psz_cachefile[k] /\ psz_block'[k] = psz_block[k]
        BY <1>2, <2>2 DEF Inv, KeyTypes, CacheInv, CacheTypes, EnterCache, Goto
      <3> QED BY <3>1, OthersHandleKept DEF Inv
    <2> QED BY <2>1, <2>2
  <1>11. KeyedDirsGenuine' /\ KeyedNotGarbled'
    BY QuietStep DEF Inv, Open, KeyedDirsGenuine
  <1> QED BY <1>8, <1>9, <1>10, <1>11 DEF Inv

\* The subdirectory dvdcss_open asks for is the one the invariant speaks of.
LEMMA DirShown ==
    ASSUME Inv, NEW h \in Handles, pc[h] \in Opening
    PROVE  /\ <<Volume[lib[h].disc], KeyShown(lib[h])>> = DirOf(h)
           /\ DirOf(h) \in Subdirs
  <1>1. lib[h] \in Instances /\ DiscKeyRight(lib[h]) /\ KeysGenuine(h)
    BY DEF Inv, KeyTypes, HandleInv
  <1>2. client[h].keyed <=> lib[h].p_disc_key # ZeroKey
    BY DEF Inv, HandleInv
  <1>3. KeyShown(lib[h]) = DirOf(h)[2]
    BY <1>1, <1>2 DEF KeyShown, DirOf, DiscKeyRight, KeysGenuine
  <1>4. <<Volume[lib[h].disc], KeyShown(lib[h])>> = DirOf(h)
    BY <1>3 DEF DirOf
  <1>5. lib[h].disc \in Discs /\ KeyShown(lib[h]) \in DiscKeySet \cup {NoKey}
    BY <1>1 DEF Instances, KeyShown
  <1> QED BY <1>4, <1>5, SubdirsAssumption

LEMMA BlocksAreNumbers == Blocks \subseteq Int
  <1>1. Cardinality(Blocks) \in Nat
    BY BlocksAssumption, FS_CardinalityType
  <1> QED BY <1>1, BlocksAssumption

LEMMA SeekPosition ==
    ASSUME NEW h, NEW b \in Int, NEW p \in pf_seek(h, b)
    PROVE  p \in Int
  BY DEF pf_seek, May

LEMMA OpenCacheInv ==
    ASSUME Inv, NEW h \in Handles, OpenCache(h)
    PROVE  Inv'
  <1> DEFINE sub == <<Volume[lib[h].disc], KeyShown(lib[h])>>
  <1>1. InitCache(h, sub) /\ pc[h] \in Opening
    BY InitCacheLabel DEF OpenCache, Opening
  <1>2. sub = DirOf(h) /\ sub \in Subdirs
    BY <1>1, DirShown
  <1> HIDE DEF sub
  <1>3. CacheInv'
    BY <1>1, <1>2, InitCacheInv DEF Inv
  <1>4. /\ At(h, "SetDirectory") => psz_block[h] = Unset
        /\ At(h, "MkSub") => \E n \in Nat : psz_cachefile[h] = <<n, sub>>
    BY <1>2 DEF Inv, HandleInv, Place
  <1>5. /\ \/ At(h, "MkSub")'
           \/ At(h, "opened")' /\ psz_cachefile'[h] # <<>> /\ psz_block'[h] # Unset
           => \E n \in Nat : psz_cachefile'[h] = <<n, sub>>
        /\ ~At(h, "SetDirectory")'
        /\ \A k \in Handles : k # h => /\ pc'[k] = pc[k]
                                       /\ psz_cachefile'[k] = psz_cachefile[k]
                                       /\ psz_block'[k] = psz_block[k]
    BY <1>1, <1>2, <1>4, InitCachePlace DEF Inv
  <1>6. PICK p \in pf_seek(h, 0) :
            lib' = IF pc'[h] = "opened" THEN [lib EXCEPT ![h].cursor = p] ELSE lib
    BY DEF OpenCache
  <1>7. lib[h] \in Instances /\ [lib[h] EXCEPT !.cursor = p] \in Instances
        /\ SameKeys([lib[h] EXCEPT !.cursor = p], lib[h])
    BY SeekPosition, MovedKeepsKeys DEF Inv, KeyTypes
  <1>8. lib' = lib \/ lib' = [lib EXCEPT ![h] = [lib[h] EXCEPT !.cursor = p]]
    BY <1>6
  <1>9. /\ lib' \in [Handles -> Instances]
        /\ SameKeys(lib'[h], lib[h])
        /\ \A k \in Handles : k # h => lib'[k] = lib[k]
    BY <1>7, <1>8 DEF Inv, KeyTypes, SameKeys
  <1>10. UNCHANGED <<files, client>> /\ out' = NoOutput
    BY DEF OpenCache
  <1>11. KeyTypes'
    BY <1>9, <1>10 DEF Inv, KeyTypes
  <1>12. ASSUME NEW k \in Handles PROVE HandleInv(k)'
    <2>1. CASE k = h
      <3>1. HandleInv(h) /\ DirOf(h)' = DirOf(h)
        BY <1>9, <1>10 DEF Inv, DirOf, SameKeys
      <3>2. DiscKeyRight(lib[h])' /\ KeysGenuine(h)' /\ Entered(h)'
        BY <3>1, <1>9, <1>10
        DEF HandleInv, SameKeys, DiscKeyRight, KeysGenuine, KeyedMode, Entered
      <3>3. client'[h].keyed <=> lib'[h].p_disc_key # ZeroKey
        BY <3>1, <1>1, <1>9, <1>10 DEF HandleInv, SameKeys
      <3>4. Place(h)'
        BY <3>1, <1>2, <1>5, Zenon DEF Place, HasCache
      <3> QED BY <2>1, <3>2, <3>3, <3>4, <1>5 DEF HandleInv
    <2>2. CASE k # h
      BY <2>2, <1>5, <1>9, <1>10, OthersHandleKept DEF Inv
    <2> QED BY <2>1, <2>2
  <1>13. KeyedDirsGenuine' /\ KeyedNotGarbled'
    BY <1>10, QuietStep DEF Inv, KeyedDirsGenuine
  <1> QED BY <1>3, <1>11, <1>12, <1>13 DEF Inv

LEMMA ForgetInv ==
    ASSUME Inv, NEW h \in Handles, Forget(h)
    PROVE  Inv'
  <1> DEFINE new == NewInstance(lib[h].disc, "KEY")
  <1>1. lib[h] \in Instances
    BY DEF Inv, KeyTypes
  <1>2. new \in Instances /\ DiscKeyRight(new)
    BY <1>1 DEF NewInstance, Instances, NoFiles, DiscKeySet, DiscKeyRight
  <1>3. NewClient \in Clients /\ NewClient.entered = NoTitle /\ NewClient.keyed = FALSE
    BY DEF NewClient, Clients
  <1>4. lib' = [lib EXCEPT ![h] = new] /\ client' = [client EXCEPT ![h] = NewClient]
    BY DEF Forget
  <1> HIDE DEF new
  <1>5. lib'[h] = new /\ client'[h] = NewClient /\ pc'[h] = "closed"
    BY <1>4 DEF Inv, KeyTypes, CacheInv, CacheTypes, Forget, LeaveCache, Goto
  <1>6. CacheInv'
    BY LeaveCacheInv DEF Inv, Forget
  <1>7. KeyTypes'
    BY <1>2, <1>3, <1>4 DEF Inv, KeyTypes, Forget
  <1>8. ASSUME NEW k \in Handles PROVE HandleInv(k)'
    <2>1. CASE k = h
      BY <2>1, <1>2, <1>3, <1>5
      DEF HandleInv, KeysGenuine, Place, Entered, At, Opening
    <2>2. CASE k # h
      <3>1. /\ lib'[k] = lib[k] /\ client'[k] = client[k] /\ pc'[k] = pc[k]
            /\ psz_cachefile'[k] = psz_cachefile[k] /\ psz_block'[k] = psz_block[k]
        BY <1>4, <2>2 DEF Inv, KeyTypes, CacheInv, CacheTypes, Forget, LeaveCache, Goto
      <3> QED BY <3>1, OthersHandleKept DEF Inv
    <2> QED BY <2>1, <2>2
  <1>9. KeyedDirsGenuine' /\ KeyedNotGarbled'
    BY QuietStep DEF Inv, Forget, KeyedDirsGenuine
  <1> QED BY <1>6, <1>7, <1>8, <1>9 DEF Inv

\* Where dvdcss_title looks for a key file, and what it finds there.
LEMMA CacheLookUp ==
    ASSUME Inv, NEW h \in Handles, NEW b \in Blocks, At(h, "opened"),
           ~Wild(h, lib[h], b), lib[h].b_scrambled, lib[h].p_titles[b] = NoKey
    PROVE  /\ HasCache(h) => psz_cachefile[h][2] = DirOf(h) /\ DirOf(h) \in Subdirs
           /\ Cached(h)[b] \in TitleKeySet \cup {NoKey}
           /\ client[h].keyed => Cached(h)[b] \in Genuine(lib[h].disc, b)
  <1>1. lib[h] \in Instances /\ lib[h].disc \in Discs
    BY DEF Inv, KeyTypes, Instances
  <1>2. DirOf(h) \in Subdirs
    BY <1>1, SubdirsAssumption DEF DirOf, DiscKeySet
  <1>3. CASE ~HasCache(h)
    BY <1>3 DEF Cached, NoFiles, Genuine
  <1>4. CASE HasCache(h)
    <2>1. psz_block[h] # Unset
      BY <1>4 DEF Wild
    <2>2. PICK n \in Nat : psz_cachefile[h] = <<n, DirOf(h)>>
      BY <1>4, <2>1 DEF Inv, HandleInv, Place
    <2>3. psz_cachefile[h][2] = DirOf(h)
      BY <2>2
    <2>4. Cached(h)[b] = files[DirOf(h)][b]
      BY <1>4, <2>3 DEF Cached
    <2>5. files[DirOf(h)][b] \in TitleKeySet \cup {NoKey}
      BY <1>2 DEF Inv, KeyTypes
    <2>6. client[h].keyed => files[DirOf(h)][b] \in Genuine(lib[h].disc, b)
      BY <1>1 DEF Inv, KeyedDirsGenuine, DirOf, Genuine
    <2> QED BY <1>2, <2>3, <2>4, <2>5, <2>6
  <1> QED BY <1>3, <1>4

\* What a seek may learn, with a check of the key or without one.
LEMMA SeekOutcomes ==
    ASSUME Inv, NEW h \in Handles, NEW b \in Blocks, NEW flags, At(h, "opened"),
           ~(ChecksKey(lib[h], flags) /\ Wild(h, lib[h], b)),
           NEW r \in IF ChecksKey(lib[h], flags) THEN dvdcss_title(h, lib[h], b)
                                                 ELSE {Learned(lib[h], NoKey, 0)}
    PROVE  /\ ChecksKey(lib[h], flags) => TitleOutcome(lib[h], b, r)
           /\ ~ChecksKey(lib[h], flags) => r.lib = lib[h] /\ r.key = NoKey
           /\ r.lib \in Instances /\ DiscKeyRight(r.lib)
           /\ r.lib.disc = lib[h].disc /\ r.lib.b_scrambled = lib[h].b_scrambled
           /\ r.lib.cursor \in {lib[h].cursor, -1}
           /\ r.key \in TitleKeySet \cup {NoKey}
           /\ r.key # NoKey => lib[h].b_scrambled /\ lib[h].p_titles[b] = NoKey
                                /\ ~Wild(h, lib[h], b)
           /\ client[h].keyed =>
                 /\ KeyedMode(r.lib)
                 /\ r.key \in Genuine(lib[h].disc, b)
                 /\ \A c \in Blocks : r.lib.p_titles[c] \in Genuine(lib[h].disc, c)
  <1> DEFINE l == lib[h]
  <1>1. l \in Instances /\ DiscKeyRight(l) /\ KeysGenuine(h)
    BY DEF Inv, KeyTypes, HandleInv
  <1>2. CASE ~ChecksKey(l, flags)
    <2>1. r.lib = l /\ r.key = NoKey
      BY <1>2 DEF Learned
    <2> QED BY <1>1, <1>2, <2>1 DEF KeysGenuine, Genuine
  <1>3. CASE ChecksKey(l, flags)
    <2>1. ~Wild(h, l, b) /\ r \in dvdcss_title(h, l, b)
      BY <1>3
    <2>2. l.b_scrambled /\ l.p_titles[b] = NoKey =>
              /\ Cached(h)[b] \in TitleKeySet \cup {NoKey}
              /\ client[h].keyed => Cached(h)[b] \in Genuine(l.disc, b)
      BY <2>1, CacheLookUp
    <2> HIDE DEF l
    <2>3. TitleOutcome(l, b, r)
      BY <1>1, <2>1, <2>2, TitleOutcomes
    <2>4. ASSUME client[h].keyed PROVE GenuineOutcome(l, b, r) /\ KeyedMode(l)
      <3>1. KeyedMode(l) /\ l.p_titles[b] \in Genuine(l.disc, b)
        BY <1>1, <2>4 DEF KeysGenuine, l
      <3> QED BY <1>1, <2>1, <2>2, <2>4, <3>1, TitleOutcomes
    <2>5. ASSUME client[h].keyed, NEW c \in Blocks
          PROVE  r.lib.p_titles[c] \in Genuine(l.disc, c)
      <3>1. CASE c = b
        BY <3>1, <2>4, <2>5 DEF GenuineOutcome
      <3>2. CASE c # b
        BY <3>2, <2>3, <2>5, <1>1 DEF TitleOutcome, KeysGenuine, l
      <3> QED BY <3>1, <3>2
    <2>6. client[h].keyed => /\ KeyedMode(r.lib)
                             /\ r.key \in Genuine(l.disc, b)
      BY <2>3, <2>4 DEF TitleOutcome, GenuineOutcome
    <2>7. /\ r.lib \in Instances /\ DiscKeyRight(r.lib)
          /\ r.lib.cursor \in {l.cursor, -1}
          /\ r.lib.disc = l.disc /\ r.lib.b_scrambled = l.b_scrambled
          /\ r.key \in TitleKeySet \cup {NoKey}
          /\ r.key # NoKey => l.b_scrambled /\ l.p_titles[b] = NoKey
      BY <2>3 DEF TitleOutcome
    <2> QED BY <1>3, <2>1, <2>3, <2>5, <2>6, <2>7 DEF l
  <1> QED BY <1>2, <1>3

\* What is saved keeps the directories that show a disc key genuine: a handle that
\* writes there had the key.
LEMMA SavesGenuine ==
    ASSUME Inv, NEW h \in Handles, NEW b \in Blocks, NEW key \in TitleKeySet \cup {NoKey},
           At(h, "opened"), Saves(h, b, key),
           key # NoKey => /\ lib[h].b_scrambled /\ lib[h].p_titles[b] = NoKey
                          /\ ~Wild(h, lib[h], b),
           client[h].keyed => key \in Genuine(lib[h].disc, b)
    PROVE  KeyedDirsGenuine' /\ files' \in [Subdirs -> [Blocks -> TitleKeySet \cup {NoKey}]]
  <1>1. CASE ~HasCache(h) \/ key = NoKey
    BY <1>1 DEF Saves, Inv, KeyTypes, KeyedDirsGenuine
  <1>2. CASE HasCache(h) /\ key # NoKey
    <2>1. psz_cachefile[h][2] = DirOf(h) /\ DirOf(h) \in Subdirs
      BY <1>2, CacheLookUp
    <2>2. files' = [files EXCEPT ![DirOf(h)][b] = key]
      BY <1>2, <2>1 DEF Saves
    <2>3. files \in [Subdirs -> [Blocks -> TitleKeySet \cup {NoKey}]]
      BY DEF Inv, KeyTypes
    <2>4. files' \in [Subdirs -> [Blocks -> TitleKeySet \cup {NoKey}]]
      BY <2>1, <2>2, <2>3
    <2>5. ASSUME NEW d \in Discs, NEW c \in Blocks
          PROVE  files'[<<Volume[d], DiscKey[d]>>][c] \in {NoKey, ZeroKey, Secret[d][TitleOf[c]]}
      <3> DEFINE dir == <<Volume[d], DiscKey[d]>>
      <3>1. files[dir][c] \in {NoKey, ZeroKey, Secret[d][TitleOf[c]]} /\ dir \in Subdirs
        BY SubdirsAssumption DEF Inv, KeyedDirsGenuine, DiscKeySet
      <3>2. CASE dir = DirOf(h) /\ c = b
        <4>1. lib[h].disc \in Discs
          BY DEF Inv, KeyTypes, Instances
        <4>2. client[h].keyed /\ DiscKey[lib[h].disc] = DiscKey[d]
          <5>1. dir[2] = DiscKey[d] /\ DirOf(h)[2] = dir[2]
            BY <3>2
          <5>2. DiscKey[d] \notin {ZeroKey, NoKey}
            BY KeysAssumption
          <5> QED BY <5>1, <5>2 DEF DirOf
        <4>3. lib[h].disc = d
          BY <4>1, <4>2, KeysAssumption
        <4>4. key \in {NoKey, ZeroKey, Secret[d][TitleOf[b]]}
          BY <4>2, <4>3 DEF Genuine
        <4>5. files'[dir][c] = key
          BY <2>1, <2>2, <2>3, <3>1, <3>2
        <4> QED BY <3>2, <4>4, <4>5
      <3>3. CASE ~(dir = DirOf(h) /\ c = b)
        <4>1. files'[dir][c] = files[dir][c]
          <5> HIDE DEF dir
          <5> QED BY <2>1, <2>2, <2>3, <3>1, <3>3
        <4> QED BY <4>1, <3>1
      <3> QED BY <3>2, <3>3
    <2> QED BY <2>4, <2>5 DEF KeyedDirsGenuine
  <1> QED BY <1>1, <1>2

LEMMA SeekInv ==
    ASSUME Inv, NEW h \in Handles, NEW b \in Blocks,
           NEW flags \in {"NOFLAGS", "MPEG", "KEY"}, Seek(h, b, flags)
    PROVE  Inv'
  <1> DEFINE l == lib[h]
  <1>1. /\ At(h, "opened") /\ ~(ChecksKey(l, flags) /\ Wild(h, l, b))
        /\ flags = "MPEG" => client[h].entered = TitleOf[b]
        /\ out' = NoOutput
        /\ UNCHANGED cachevars
    BY DEF Seek, MaySeek
  <1>2. PICK r \in IF ChecksKey(l, flags) THEN dvdcss_title(h, l, b)
                                          ELSE {Learned(l, NoKey, 0)} :
          /\ Saves(h, b, r.key)
          /\ \/ /\ Refuses(r)
                /\ lib' = [lib EXCEPT ![h] = r.lib]
                /\ client' = [client EXCEPT ![h] = Enters(@, b, flags, FALSE)]
             \/ /\ ~Refuses(r)
                /\ \E p \in pf_seek(h, b) :
                      /\ lib' = [lib EXCEPT ![h] = [r.lib EXCEPT !.cursor = p]]
                      /\ client' = [client EXCEPT ![h] = Enters(@, b, flags, p = b)]
    BY DEF Seek
  <1>3. /\ ChecksKey(l, flags) => TitleOutcome(l, b, r)
        /\ ~ChecksKey(l, flags) => r.lib = l /\ r.key = NoKey
        /\ r.lib \in Instances /\ DiscKeyRight(r.lib)
        /\ r.lib.disc = l.disc /\ r.lib.b_scrambled = l.b_scrambled
        /\ r.key \in TitleKeySet \cup {NoKey}
        /\ r.key # NoKey => l.b_scrambled /\ l.p_titles[b] = NoKey /\ ~Wild(h, l, b)
        /\ client[h].keyed =>
              /\ KeyedMode(r.lib)
              /\ r.key \in Genuine(l.disc, b)
              /\ \A c \in Blocks : r.lib.p_titles[c] \in Genuine(l.disc, c)
    BY <1>1, SeekOutcomes
  <1>4. PICK ok \in BOOLEAN :
          /\ lib'[h] \in Instances /\ SameKeys(lib'[h], r.lib)
          /\ lib' = [lib EXCEPT ![h] = lib'[h]]
          /\ client' = [client EXCEPT ![h] = Enters(@, b, flags, ok)]
          /\ ok => ~Refuses(r)
    <2>1. lib \in [Handles -> Instances] /\ b \in Int
      BY BlocksAreNumbers DEF Inv, KeyTypes
    <2>2. CASE /\ Refuses(r)
               /\ lib' = [lib EXCEPT ![h] = r.lib]
               /\ client' = [client EXCEPT ![h] = Enters(@, b, flags, FALSE)]
      <3>1. lib'[h] = r.lib
        BY <2>1, <2>2
      <3> QED BY <1>3, <2>2, <3>1 DEF SameKeys
    <2>3. CASE /\ ~Refuses(r)
               /\ \E p \in pf_seek(h, b) :
                     /\ lib' = [lib EXCEPT ![h] = [r.lib EXCEPT !.cursor = p]]
                     /\ client' = [client EXCEPT ![h] = Enters(@, b, flags, p = b)]
      <3>1. PICK p \in pf_seek(h, b) :
                     /\ lib' = [lib EXCEPT ![h] = [r.lib EXCEPT !.cursor = p]]
                     /\ client' = [client EXCEPT ![h] = Enters(@, b, flags, p = b)]
        BY <2>3
      <3>2. lib'[h] = [r.lib EXCEPT !.cursor = p]
        BY <2>1, <3>1
      <3>3. lib'[h] \in Instances /\ SameKeys(lib'[h], r.lib)
        BY <1>3, <2>1, <3>2, SeekPosition, MovedKeepsKeys
      <3>4. (p = b) \in BOOLEAN
        OBVIOUS
      <3> QED BY <2>3, <3>1, <3>2, <3>3, <3>4
    <2> QED BY <1>2, <2>2, <2>3
  <1>5. /\ client[h] \in Clients
        /\ client'[h] = Enters(client[h], b, flags, ok)
        /\ client'[h].keyed = client[h].keyed
        /\ client'[h].entered = IF flags # "KEY" THEN client[h].entered
                                ELSE IF ok THEN TitleOf[b] ELSE NoTitle
        /\ client'[h] \in Clients
    BY <1>4 DEF Inv, KeyTypes, Enters, Clients, Titles
  <1> HIDE DEF l
  <1>6. KeyedDirsGenuine' /\ files' \in [Subdirs -> [Blocks -> TitleKeySet \cup {NoKey}]]
    BY <1>1, <1>2, <1>3, SavesGenuine DEF l
  <1>7. KeyTypes'
    BY <1>4, <1>5, <1>6 DEF Inv, KeyTypes
  <1>8. CacheInv'
    BY <1>1 DEF Inv, CacheInv, CacheTypes, OnTheWay, Inside, Usable, At, Checked,
                CheckedSub, cachevars
  <1>9. ASSUME NEW k \in Handles PROVE HandleInv(k)'
    <2>1. CASE k = h
      <3>1. HandleInv(h) /\ DirOf(h)' = DirOf(h)
        BY <1>3, <1>4, <1>5 DEF Inv, DirOf, SameKeys, l
      <3>2. DiscKeyRight(lib[h])'
        BY <1>3, <1>4 DEF DiscKeyRight, SameKeys
      <3>3. KeysGenuine(h)'
        BY <1>3, <1>4, <1>5, <3>1
        DEF HandleInv, KeysGenuine, KeyedMode, SameKeys, l
      <3>4. Place(h)'
        BY <1>1, <3>1, Zenon DEF HandleInv, Place, HasCache, At, cachevars
      <3>5. Entered(h)'
        <4> SUFFICES ASSUME client'[h].entered # NoTitle, lib'[h].b_scrambled
                     PROVE  /\ lib'[h].p_title_key # NoKey
                            /\ \E c \in Blocks :
                                  /\ TitleOf[c] = client'[h].entered
                                  /\ lib'[h].p_titles[c] = lib'[h].p_title_key
          BY DEF Entered
        <4>1. l.b_scrambled
          BY <1>3, <1>4 DEF SameKeys
        <4>2. CASE ChecksKey(l, flags) /\ ~Refuses(r)
          <5>1. r.lib.p_titles[b] = r.lib.p_title_key /\ r.lib.p_title_key # NoKey
            BY <1>3, <4>1, <4>2 DEF TitleOutcome, Refuses
          <5>2. TitleOf[b] = client'[h].entered
            BY <1>1, <1>5, <4>2 DEF ChecksKey
          <5> QED BY <1>4, <5>1, <5>2 DEF SameKeys
        <4>3. CASE ~ChecksKey(l, flags) \/ Refuses(r)
          <5>1. client'[h].entered = client[h].entered
            BY <1>4, <1>5, <4>3 DEF ChecksKey
          <5>2. r.lib.p_titles = l.p_titles /\ r.lib.p_title_key = l.p_title_key
            BY <1>3, <4>3 DEF TitleOutcome, Refuses
          <5> QED BY <1>4, <3>1, <4>1, <5>1, <5>2 DEF HandleInv, Entered, SameKeys, l
        <4> QED BY <4>2, <4>3
      <3> QED BY <1>1, <2>1, <3>2, <3>3, <3>4, <3>5
          DEF HandleInv, Opening, At, cachevars
    <2>2. CASE k # h
      <3>1. /\ lib'[k] = lib[k] /\ client'[k] = client[k] /\ pc'[k] = pc[k]
            /\ psz_cachefile'[k] = psz_cachefile[k] /\ psz_block'[k] = psz_block[k]
        BY <1>1, <1>4, <2>2 DEF Inv, KeyTypes, cachevars
      <3> QED BY <3>1, OthersHandleKept DEF Inv
    <2> QED BY <2>1, <2>2
  <1> QED BY <1>1, <1>6, <1>7, <1>8, <1>9, QuietStep DEF Inv

\* Writing through a pointer that was never set leaves all that is known of the
\* others; nothing is said of the handle any more.
LEMMA SeekWildInv ==
    ASSUME Inv, NEW h \in Handles, NEW b, NEW flags, SeekWild(h, b, flags)
    PROVE  Inv'
  <1>1. /\ pc' = [pc EXCEPT ![h] = "undefined"] /\ out' = NoOutput
        /\ UNCHANGED <<dirs, psz_cache, psz_cachefile, psz_block, fill, lib, files, client>>
    BY DEF SeekWild, Goto
  <1>2. pc \in [Handles -> Labels]
    BY DEF Inv, CacheInv, CacheTypes
  <1>3. CacheInv'
    <2>1. CacheTypes'
      BY <1>1, <1>2 DEF Inv, CacheInv, CacheTypes, Labels
    <2>2. ASSUME NEW k \in Handles PROVE (OnTheWay(k) /\ Inside(k))'
      <3>1. CASE k = h
        BY <1>1, <1>2, <3>1 DEF Inv, CacheInv, OnTheWay, Inside, At
      <3>2. CASE k # h
        BY <1>1, <1>2, <3>2, OthersKept DEF Inv, CacheInv
      <3> QED BY <3>1, <3>2
    <2> QED BY <2>1, <2>2 DEF CacheInv
  <1>4. ASSUME NEW k \in Handles PROVE HandleInv(k)'
    <2>1. CASE k = h
      BY <1>1, <1>2, <2>1
      DEF Inv, HandleInv, DiscKeyRight, KeysGenuine, KeyedMode, Place, Entered, Opening, At
    <2>2. CASE k # h
      BY <1>1, <1>2, <2>2, OthersHandleKept DEF Inv
    <2> QED BY <2>1, <2>2
  <1> QED BY <1>1, <1>3, <1>4, QuietStep DEF Inv, KeyTypes, KeyedDirsGenuine

\* What the invariant says of keys does not depend on positions and results: it is
\* kept by every step that changes nothing else.
LEMMA PositionStep ==
    ASSUME Inv, NEW h \in Handles, NEW p \in Int, NEW failed \in BOOLEAN,
           lib' = [lib EXCEPT ![h] = [@ EXCEPT !.cursor = p]],
           client' = [client EXCEPT ![h] = [@ EXCEPT !.failed = failed]],
           UNCHANGED <<cachevars, files>>, KeyedNotGarbled'
    PROVE  Inv'
  <1>1. lib[h] \in Instances /\ client[h] \in Clients
    BY DEF Inv, KeyTypes
  <1>2. lib'[h] = [lib[h] EXCEPT !.cursor = p]
    BY DEF Inv, KeyTypes
  <1>3. lib'[h] \in Instances /\ SameKeys(lib'[h], lib[h])
    BY <1>1, <1>2, MovedKeepsKeys
  <1>4. /\ client'[h] \in Clients
        /\ client'[h].entered = client[h].entered /\ client'[h].keyed = client[h].keyed
    BY <1>1 DEF Inv, KeyTypes, Clients
  <1>5. KeyTypes'
    BY <1>3, <1>4 DEF Inv, KeyTypes
  <1>6. CacheInv'
    BY DEF Inv, CacheInv, CacheTypes, OnTheWay, Inside, Usable, At, Checked,
           CheckedSub, cachevars
  <1>7. ASSUME NEW k \in Handles PROVE HandleInv(k)'
    <2>1. CASE k = h
      BY <2>1, <1>3, <1>4, HandleKept DEF Inv, cachevars
    <2>2. CASE k # h
      <3>1. lib'[k] = lib[k] /\ client'[k] = client[k]
        BY <2>2 DEF Inv, KeyTypes
      <3> QED BY <3>1, OthersHandleKept DEF Inv, cachevars
    <2> QED BY <2>1, <2>2
  <1> QED BY <1>5, <1>6, <1>7 DEF Inv, KeyedDirsGenuine

LEMMA AheadIsFinite ==
    ASSUME NEW l, NEW n
    PROVE  Cardinality(Ahead(l, n)) \in Nat
  BY BlocksAssumption, FS_Subset, FS_CardinalityType DEF Ahead

\* The heart of the matter: inside the title it has entered, a handle that had its
\* disc key spoils a block only if the key in force is all zero.
LEMMA GarbledOnlyByZeroKey ==
    ASSUME Inv, NEW h \in Handles, NEW n, NEW decrypt \in BOOLEAN, NEW descramble,
           MayRead(h, n, decrypt), descramble => decrypt /\ lib[h].b_scrambled,
           client[h].keyed, NEW b \in Ahead(lib[h], n),
           Form(lib[h], b, descramble) = "garbled"
    PROVE  descramble /\ lib[h].p_title_key = ZeroKey
  <1> DEFINE l == lib[h]
  <1>1. b \in Blocks /\ l.disc \in Discs
    BY DEF Ahead, Inv, KeyTypes, Instances
  <1>2. descramble /\ l.p_title_key # TitleSecret(l, b)
    BY DEF Form
  <1>3. TitleOf[b] = client[h].entered /\ l.b_scrambled
    BY <1>2 DEF MayRead
  <1>4. client[h].entered # NoTitle
    BY <1>1, <1>3, TitlesAssumption DEF Titles
  <1>5. PICK c \in Blocks : TitleOf[c] = TitleOf[b] /\ l.p_titles[c] = l.p_title_key
    BY <1>3, <1>4 DEF Inv, HandleInv, Entered
  <1>6. l.p_title_key \in Genuine(l.disc, c) /\ l.p_title_key # NoKey
    BY <1>3, <1>4, <1>5 DEF Inv, HandleInv, KeysGenuine, Entered
  <1>7. Secret[l.disc][TitleOf[c]] = TitleSecret(l, b)
    BY <1>5 DEF TitleSecret
  <1> QED BY <1>2, <1>6, <1>7 DEF Genuine

LEMMA ReadFailsInv ==
    ASSUME Inv, NEW h \in Handles, NEW op, ReadFails(h, op)
    PROVE  Inv'
  <1>1. KeyedNotGarbled'
    BY DEF ReadFails, Output, KeyedNotGarbled
  <1>2. /\ lib' = [lib EXCEPT ![h] = [@ EXCEPT !.cursor = -1]]
        /\ client' = [client EXCEPT ![h] = [@ EXCEPT !.failed = TRUE]]
        /\ UNCHANGED <<cachevars, files>>
    BY DEF ReadFails
  <1>3. -1 \in Int /\ TRUE \in BOOLEAN
    OBVIOUS
  <1> QED BY <1>1, <1>2, <1>3, PositionStep

LEMMA DeliversInv ==
    ASSUME Inv, NEW h \in Handles, NEW n, NEW o, Delivers(h, n, o), o.to = h,
           "garbled" \in o.forms /\ client[h].keyed
               => o.op = "readv" /\ lib[h].p_title_key = ZeroKey
    PROVE  Inv'
  <1> DEFINE p == lib[h].cursor + Cardinality(Ahead(lib[h], n))
  <1>1. lib[h] \in Instances /\ lib[h].cursor \in Int /\ p \in Int
    BY AheadIsFinite DEF Inv, KeyTypes, Instances
  <1>2. /\ lib' = [lib EXCEPT ![h] = [@ EXCEPT !.cursor = p]]
        /\ client' = [client EXCEPT ![h] = [@ EXCEPT !.failed = o.i_ret < 0]]
        /\ UNCHANGED <<cachevars, files>> /\ out' = o
    BY DEF Delivers, Advanced
  <1>3. lib'[h].p_title_key = lib[h].p_title_key /\ client'[h].keyed = client[h].keyed
    BY <1>1, <1>2, MovedKeepsKeys DEF Inv, KeyTypes, SameKeys, Clients
  <1>4. KeyedNotGarbled'
    BY <1>2, <1>3 DEF KeyedNotGarbled
  <1>5. (o.i_ret < 0) \in BOOLEAN
    OBVIOUS
  <1> QED BY <1>1, <1>2, <1>4, <1>5, PositionStep

LEMMA ReadInv ==
    ASSUME Inv, NEW h \in Handles, NEW n, NEW decrypt \in BOOLEAN, Read(h, n, decrypt)
    PROVE  Inv'
  <1> DEFINE l == lib[h]
             descramble == decrypt /\ l.b_scrambled /\ UsesKey(l)
             o == Output(h, "read", Cardinality(Ahead(l, n)),
                         {Form(l, b, descramble) : b \in Ahead(l, n)})
  <1>1. MayRead(h, n, decrypt) /\ (Delivers(h, n, o) \/ ReadFails(h, "read"))
    BY DEF Read
  <1>2. CASE Delivers(h, n, o)
    <2>1. o.to = h /\ o.forms = {Form(l, b, descramble) : b \in Ahead(l, n)}
      BY DEF Output
    <2>2. ASSUME "garbled" \in o.forms, client[h].keyed PROVE FALSE
      <3>1. PICK b \in Ahead(l, n) : Form(l, b, descramble) = "garbled"
        BY <2>1, <2>2
      <3>2. descramble /\ l.p_title_key = ZeroKey
        BY <1>1, <2>2, <3>1, GarbledOnlyByZeroKey
      <3> QED BY <3>2 DEF UsesKey
    <2> HIDE DEF o
    <2> QED BY <1>2, <2>1, <2>2, DeliversInv
  <1>3. CASE ReadFails(h, "read")
    BY <1>3, ReadFailsInv
  <1> QED BY <1>1, <1>2, <1>3

LEMMA ReadvInv ==
    ASSUME Inv, NEW h \in Handles, NEW iov, NEW decrypt \in BOOLEAN, Readv(h, iov, decrypt)
    PROVE  Inv'
  <1> DEFINE l == lib[h]
             n == Total(iov)[Len(iov)] \div 2
             blocks == Ahead(l, n)
             descramble == decrypt /\ l.b_scrambled
             loop == Descrambling(iov, Cardinality(blocks))
             o0 == Output(h, "readv",
                          IF descramble /\ ~loop.ok THEN -1 ELSE Cardinality(blocks),
                          {Form(l, b, descramble) : b \in blocks})
             o == [o0 EXCEPT !.iov = iov, !.done = IF descramble THEN loop.done ELSE {}]
  <1>1. MayRead(h, n, decrypt) /\ (Delivers(h, n, o) \/ ReadFails(h, "readv"))
    BY DEF Readv
  <1>2. CASE Delivers(h, n, o)
    <2>1. /\ o.to = h /\ o.op = "readv"
          /\ o.forms = {Form(l, b, descramble) : b \in blocks}
      BY DEF Output
    <2>2. ASSUME "garbled" \in o.forms, client[h].keyed PROVE l.p_title_key = ZeroKey
      <3>1. PICK b \in blocks : Form(l, b, descramble) = "garbled"
        BY <2>1, <2>2
      <3> QED BY <1>1, <2>2, <3>1, GarbledOnlyByZeroKey
    <2> HIDE DEF o
    <2> QED BY <1>2, <2>1, <2>2, DeliversInv
  <1>3. CASE ReadFails(h, "readv")
    BY <1>3, ReadFailsInv
  <1> QED BY <1>1, <1>2, <1>3

\* Every step keeps the invariant.
LEMMA NextInv == Inv /\ [Next]_vars => Inv'
  <1> SUFFICES ASSUME Inv, [Next]_vars PROVE Inv'
    OBVIOUS
  <1>1. ASSUME NEW h \in Handles, Open(h) PROVE Inv'
    BY <1>1, OpenInv
  <1>2. ASSUME NEW h \in Handles, OpenCache(h) PROVE Inv'
    BY <1>2, OpenCacheInv
  <1>3. ASSUME NEW h \in Handles, Close(h) \/ Kill(h) PROVE Inv'
    BY <1>3, ForgetInv DEF Close, Kill
  <1>4. ASSUME NEW h \in Handles, NEW b \in Blocks, NEW flags \in {"NOFLAGS", "MPEG", "KEY"},
               Seek(h, b, flags) \/ SeekWild(h, b, flags)
        PROVE  Inv'
    BY <1>4, SeekInv, SeekWildInv
  <1>5. ASSUME NEW h \in Handles, NEW decrypt \in BOOLEAN, NEW n \in ReadSizes,
               Read(h, n, decrypt)
        PROVE  Inv'
    BY <1>5, ReadInv
  <1>6. ASSUME NEW h \in Handles, NEW decrypt \in BOOLEAN, NEW iov \in Iovecs,
               Readv(h, iov, decrypt)
        PROVE  Inv'
    BY <1>6, ReadvInv
  <1>7. CASE UNCHANGED vars
    BY <1>7
    DEF vars, cachevars, Inv, CacheInv, CacheTypes, OnTheWay, Inside, Usable, At, Checked,
        CheckedSub, KeyTypes, HandleInv, DiscKeyRight, KeysGenuine, KeyedMode, Place,
        DirOf, HasCache, Entered, KeyedDirsGenuine, KeyedNotGarbled
  <1> QED BY <1>1, <1>2, <1>3, <1>4, <1>5, <1>6, <1>7 DEF Next

(***************************************************************************)
(* Counting through the buffers of dvdcss_readv.                           *)
(***************************************************************************)
\* Induction over 0 .. L, for a set instead of a predicate: the numbers up to which
\* all are in T are 0 .. m - 1 for their cardinality m, and nothing can stop them at
\* a number before L.
LEMMA UpTo ==
    ASSUME NEW L \in Nat, NEW T, 0 \in T, \A k \in 0 .. L - 1 : k \in T => k + 1 \in T
    PROVE  \A k \in 0 .. L : k \in T
  <1> DEFINE U == {k \in 0 .. L : \A j \in 0 .. k : j \in T}
             m == Cardinality(U)
  <1>1. U \subseteq 0 .. L /\ 0 \in U
    OBVIOUS
  <1>2. \A i \in U : \A j \in 0 .. i : j \in U
    OBVIOUS
  <1>3. \A i \in U : i < L => i + 1 \in U
    <2> SUFFICES ASSUME NEW i \in U, i < L PROVE \A j \in 0 .. i + 1 : j \in T
      OBVIOUS
    <2>1. i \in 0 .. L - 1 /\ i \in T
      OBVIOUS
    <2>2. i + 1 \in T
      BY <2>1
    <2> QED BY <2>2
  <1> HIDE DEF U
  <1>4. IsFiniteSet(0 .. L) /\ Cardinality(0 .. L) = L + 1
    BY FS_Interval
  <1>5. IsFiniteSet(U) /\ m \in Nat
    BY <1>1, <1>4, FS_Subset, FS_CardinalityType
  <1> HIDE DEF m
  <1>6. ASSUME NEW i \in U PROVE i < m
    <2>1. i \in Nat /\ 0 .. i \subseteq U
      BY <1>1, <1>2
    <2>2. Cardinality(0 .. i) = i + 1
      BY <2>1, FS_Interval
    <2>3. i + 1 <= m
      BY <1>5, <2>1, <2>2, FS_Subset DEF m
    <2> QED BY <1>5, <2>1, <2>3
  <1>7. ASSUME NEW i \in 0 .. m - 1 PROVE i \in U
    <2> SUFFICES ASSUME i \notin U PROVE FALSE
      OBVIOUS
    <2>1. U \subseteq 0 .. i - 1
      BY <1>1, <1>2
    <2>2. i \in Nat /\ IsFiniteSet(0 .. i - 1) /\ Cardinality(0 .. i - 1) = i
      BY <1>5, FS_Interval, SMTT(20)
    <2>3. m <= i
      BY <2>1, <2>2, FS_Subset DEF m
    <2> QED BY <1>5, <2>2, <2>3
  <1>8. m > 0
    BY <1>1, <1>5, <1>6
  <1>9. m - 1 \in U /\ m - 1 <= L
    BY <1>1, <1>5, <1>7, <1>8
  <1>10. m - 1 = L
    <2>1. m - 1 < L => m \in U
      BY <1>3, <1>5, <1>9, SMTT(20)
    <2>2. m \notin U
      BY <1>5, <1>6
    <2> QED BY <1>5, <1>9, <2>1, <2>2
  <1> QED BY <1>7, <1>10, <1>9 DEF U

\* The sums of the lengths exist: those of the first k buffers can be continued.
SumsTo(iov, f, m) ==
    f = [k \in 0 .. m |-> IF k = 0 THEN 0 ELSE f[k - 1] + iov[k]]

LEMMA SumsExist ==
    ASSUME NEW iov \in Seq(Nat)
    PROVE  \E f : SumsTo(iov, f, Len(iov))
  <1> DEFINE T == {m \in 0 .. Len(iov) : \E f : SumsTo(iov, f, m)}
  <1>0. Len(iov) \in Nat
    OBVIOUS
  <1>1. 0 \in T
    <2>1. SumsTo(iov, [k \in 0 .. 0 |-> 0], 0)
      BY DEF SumsTo
    <2> QED BY <1>0, <2>1
  <1>2. ASSUME NEW m \in 0 .. Len(iov) - 1, m \in T PROVE m + 1 \in T
    <2>1. PICK f : SumsTo(iov, f, m)
      BY <1>2
    <2> DEFINE g == [k \in 0 .. m + 1 |-> IF k = m + 1 THEN f[m] + iov[m + 1] ELSE f[k]]
    <2>2. ASSUME NEW k \in 0 .. m + 1
          PROVE  g[k] = IF k = 0 THEN 0 ELSE g[k - 1] + iov[k]
      BY <2>1 DEF SumsTo
    <2> HIDE DEF g
    <2>3. g = [k \in 0 .. m + 1 |-> g[k]]
      BY DEF g
    <2>4. SumsTo(iov, g, m + 1)
      <3>1. [k \in 0 .. m + 1 |-> g[k]]
            = [k \in 0 .. m + 1 |-> IF k = 0 THEN 0 ELSE g[k - 1] + iov[k]]
        BY <2>2
      <3> QED BY <2>3, <3>1, Zenon DEF SumsTo
    <2>5. m + 1 \in 0 .. Len(iov)
      BY <1>0
    <2> QED BY <2>4, <2>5, Zenon
  <1> HIDE DEF T
  <1>3. \A m \in 0 .. Len(iov) : m \in T
    BY <1>0, <1>1, <1>2, UpTo
  <1>4. Len(iov) \in 0 .. Len(iov)
    BY <1>0
  <1> QED BY <1>3, <1>4, Zenon DEF T

LEMMA TotalRecursion ==
    ASSUME NEW iov \in Seq(Nat)
    PROVE  SumsTo(iov, Total(iov), Len(iov))
  <1>1. Total(iov) = CHOOSE f : SumsTo(iov, f, Len(iov))
    BY DEF Total, SumsTo
  <1> QED BY <1>1, SumsExist

LEMMA TotalFacts ==
    ASSUME NEW iov \in Seq(Nat)
    PROVE  /\ Total(iov)[0] = 0
           /\ \A k \in 1 .. Len(iov) : Total(iov)[k] = Total(iov)[k - 1] + iov[k]
           /\ \A k \in 0 .. Len(iov) : Total(iov)[k] \in Nat
  <1>1. Len(iov) \in Nat /\ SumsTo(iov, Total(iov), Len(iov))
    BY TotalRecursion
  <1> DEFINE S == Total(iov)
             T == {k \in 0 .. Len(iov) : S[k] \in Nat}
  <1>2. S[0] = 0 /\ \A k \in 1 .. Len(iov) : S[k] = S[k - 1] + iov[k]
    <2> HIDE DEF S
    <2>1. S = [k \in 0 .. Len(iov) |-> IF k = 0 THEN 0 ELSE S[k - 1] + iov[k]]
      BY <1>1 DEF SumsTo, S
    <2> QED BY <1>1, <2>1
  <1> HIDE DEF S
  <1>3. 0 \in T
    BY <1>1, <1>2
  <1>4. ASSUME NEW k \in 0 .. Len(iov) - 1, k \in T PROVE k + 1 \in T
    <2>1. k + 1 \in 1 .. Len(iov) /\ iov[k + 1] \in Nat
      BY <1>1
    <2>2. S[k + 1] = S[k] + iov[k + 1]
      BY <1>2, <2>1
    <2> QED BY <1>1, <1>4, <2>1, <2>2
  <1>5. \A k \in 0 .. Len(iov) : k \in T
    <2> HIDE DEF T
    <2> QED BY <1>1, <1>3, <1>4, UpTo
  <1> QED BY <1>2, <1>5 DEF S

LEMMA TotalGrows ==
    ASSUME NEW iov \in Seq(Nat), NEW a \in 0 .. Len(iov), NEW b \in a .. Len(iov)
    PROVE  Total(iov)[a] <= Total(iov)[b]
  <1> DEFINE S == Total(iov)
             T == {k \in 0 .. Len(iov) - a : S[a] <= S[a + k]}
  <1>1. Len(iov) \in Nat /\ Len(iov) - a \in Nat /\ a \in Nat
    OBVIOUS
  <1>2. /\ \A k \in 1 .. Len(iov) : S[k] = S[k - 1] + iov[k]
        /\ \A k \in 0 .. Len(iov) : S[k] \in Nat
    BY TotalFacts
  <1> HIDE DEF S
  <1>3. 0 \in T
    BY <1>1, <1>2
  <1>4. ASSUME NEW k \in 0 .. (Len(iov) - a) - 1, k \in T PROVE k + 1 \in T
    <2>1. a + k + 1 \in 1 .. Len(iov) /\ iov[a + k + 1] \in Nat
      BY <1>1
    <2>2. S[a + k + 1] = S[a + k] + iov[a + k + 1]
      BY <1>1, <1>2, <2>1
    <2>3. S[a] \in Nat /\ S[a + k] \in Nat
      BY <1>1, <1>2
    <2> QED BY <1>1, <1>4, <2>1, <2>2, <2>3
  <1>5. \A k \in 0 .. Len(iov) - a : k \in T
    <2> HIDE DEF T
    <2> QED BY <1>1, <1>3, <1>4, UpTo
  <1>6. b - a \in T
    BY <1>1, <1>5
  <1>7. a + (b - a) = b
    BY <1>1
  <1> QED BY <1>6, <1>7 DEF S

\* After a buffer with others behind it that are not all empty there is a next one,
\* and the sums say where it begins.
LEMMA NextOne ==
    ASSUME NEW iov \in Seq(Nat), NEW a \in 0 .. Len(iov),
           Total(iov)[a] # Total(iov)[Len(iov)]
    PROVE  \E j \in a + 1 .. Len(iov) :
              /\ iov[j] # 0 /\ \A k \in a + 1 .. j - 1 : iov[k] = 0
              /\ Total(iov)[j - 1] = Total(iov)[a]
  <1> DEFINE S == Total(iov)
             Next1(j) == /\ iov[j] # 0 /\ \A k \in a + 1 .. j - 1 : iov[k] = 0
                         /\ S[j - 1] = S[a]
             T == {m \in 0 .. Len(iov) - a :
                      \/ \E j \in a + 1 .. a + m : Next1(j)
                      \/ S[a + m] = S[a] /\ \A k \in a + 1 .. a + m : iov[k] = 0}
  <1>1. Len(iov) \in Nat /\ Len(iov) - a \in Nat /\ a \in Nat
    OBVIOUS
  <1>2. /\ \A k \in 1 .. Len(iov) : S[k] = S[k - 1] + iov[k]
        /\ \A k \in 0 .. Len(iov) : S[k] \in Nat
    BY TotalFacts
  <1> HIDE DEF S
  <1>3. 0 \in T
    BY <1>1
  <1>4. ASSUME NEW m \in 0 .. (Len(iov) - a) - 1, m \in T PROVE m + 1 \in T
    <2>1. m + 1 \in 0 .. Len(iov) - a /\ a + m + 1 \in 1 .. Len(iov)
          /\ iov[a + m + 1] \in Nat /\ a + (m + 1) = a + m + 1
          /\ (a + m + 1) - 1 = a + m
      BY <1>1
    <2>2. CASE \E j \in a + 1 .. a + m : Next1(j)
      <3>1. PICK j \in a + 1 .. a + m : Next1(j)
        BY <2>2
      <3>2. j \in a + 1 .. a + (m + 1)
        BY <1>1
      <3> HIDE DEF Next1
      <3> QED BY <2>1, <3>1, <3>2
    <2>3. CASE S[a + m] = S[a] /\ \A k \in a + 1 .. a + m : iov[k] = 0
      <3>1. CASE iov[a + m + 1] # 0
        <4>1. Next1(a + m + 1)
          BY <1>1, <2>1, <2>3, <3>1
        <4>2. a + m + 1 \in a + 1 .. a + (m + 1)
          BY <1>1
        <4> HIDE DEF Next1
        <4> QED BY <2>1, <4>1, <4>2
      <3>2. CASE iov[a + m + 1] = 0
        <4>1. S[a + m + 1] = S[a + m] + iov[a + m + 1] /\ S[a + m] \in Nat
          BY <1>1, <1>2, <2>1
        <4>2. S[a + (m + 1)] = S[a]
          BY <2>1, <2>3, <3>2, <4>1
        <4>3. \A k \in a + 1 .. a + (m + 1) : iov[k] = 0
          BY <1>1, <2>3, <3>2
        <4> QED BY <2>1, <4>2, <4>3
      <3> QED BY <3>1, <3>2
    <2> QED BY <1>4, <2>2, <2>3
  <1>5. \A m \in 0 .. Len(iov) - a : m \in T
    <2> HIDE DEF T
    <2> QED BY <1>1, <1>3, <1>4, UpTo
  <1>6. Len(iov) - a \in T /\ a + (Len(iov) - a) = Len(iov)
    <2>1. Len(iov) - a \in 0 .. Len(iov) - a /\ a + (Len(iov) - a) = Len(iov)
      BY <1>1
    <2> HIDE DEF T
    <2> QED BY <1>5, <2>1
  <1>7. S[a] # S[Len(iov)]
    BY DEF S
  <1>8. PICK j \in a + 1 .. Len(iov) : Next1(j)
    BY <1>6, <1>7
  <1> QED BY <1>8 DEF S

\* What it takes to be the place of one of the first n blocks.
LEMMA PlaceOfBlock ==
    ASSUME NEW iov \in Seq(Nat), NEW n \in Nat
    PROVE  /\ BlockPlaces(iov, n) \subseteq (1 .. Len(iov)) \X Nat
           /\ \A i \in 1 .. Len(iov), q \in Nat :
                 <<i, q>> \in BlockPlaces(iov, n)
                 <=> q < iov[i] /\ \E m \in 0 .. n - 1 : Total(iov)[i - 1] + q = 2 * m
  <1>1. Len(iov) \in Nat /\ DOMAIN iov = 1 .. Len(iov)
    OBVIOUS
  <1>2. BlockPlaces(iov, n) \subseteq (1 .. Len(iov)) \X Nat
    BY <1>1 DEF BlockPlaces
  <1>3. ASSUME NEW i \in 1 .. Len(iov), NEW q \in Nat, NEW m \in 0 .. n - 1,
               Total(iov)[i - 1] + q = 2 * m
        PROVE  q \in 0 .. 2 * n
    <2>1. i - 1 \in 0 .. Len(iov)
      BY <1>1
    <2>2. Total(iov)[i - 1] \in Nat
      BY <2>1, TotalFacts
    <2> QED BY <1>3, <2>2
  <1>4. ASSUME NEW i \in 1 .. Len(iov), NEW q \in Nat
        PROVE  <<i, q>> \in BlockPlaces(iov, n)
               <=> /\ q \in 0 .. 2 * n
                   /\ q < iov[i] /\ \E m \in 0 .. n - 1 : Total(iov)[i - 1] + q = 2 * m
    BY <1>1 DEF BlockPlaces
  <1> QED BY <1>2, <1>3, <1>4

\* Two blocks that begin at the same half block are one: a place in one buffer is
\* before all places in the buffers behind it.
LEMMA PlacesOrdered ==
    ASSUME NEW iov \in Seq(Nat), NEW u \in 1 .. Len(iov), NEW v \in 1 .. Len(iov),
           NEW x \in Nat, x < iov[u], u < v
    PROVE  /\ Total(iov)[u - 1] + x < Total(iov)[v - 1]
           /\ Total(iov)[u - 1] \in Nat /\ Total(iov)[v - 1] \in Nat
  <1> DEFINE a == Total(iov)[u - 1]
             b == Total(iov)[u]
             c == Total(iov)[v - 1]
             n == iov[u]
  <1>1. /\ u \in 0 .. Len(iov) /\ v - 1 \in u .. Len(iov)
        /\ u - 1 \in 0 .. Len(iov) /\ v - 1 \in 0 .. Len(iov)
    OBVIOUS
  <1>2. b <= c
    BY <1>1, TotalGrows
  <1>3. b = a + n /\ a \in Nat /\ c \in Nat /\ n \in Nat
    BY <1>1, TotalFacts, SMTT(20)
  <1>4. x < n
    OBVIOUS
  <1> HIDE DEF a, b, c, n
  <1>5. a + x < c
    BY <1>2, <1>3, <1>4
  <1> QED BY <1>3, <1>5 DEF a, c

LEMMA OnePlace ==
    ASSUME NEW iov \in Seq(Nat), NEW i \in 1 .. Len(iov), NEW j \in 1 .. Len(iov),
           NEW q \in Nat, NEW r \in Nat, q < iov[i], r < iov[j],
           Total(iov)[i - 1] + q = Total(iov)[j - 1] + r
    PROVE  i = j /\ q = r
  <1> DEFINE a == Total(iov)[i - 1]
             b == Total(iov)[j - 1]
  <1>1. a \in Nat /\ b \in Nat
    <2>1. i - 1 \in 0 .. Len(iov) /\ j - 1 \in 0 .. Len(iov)
      OBVIOUS
    <2> QED BY <2>1, TotalFacts
  <1>2. i < j => a + q < b
    BY PlacesOrdered
  <1>3. j < i => b + r < a
    BY PlacesOrdered
  <1>4. a + q = b + r
    OBVIOUS
  <1> HIDE DEF a, b
  <1>5. ~(i < j) /\ ~(j < i)
    BY <1>1, <1>2, <1>3, <1>4
  <1>6. i = j
    BY <1>5
  <1>7. q = r
    BY <1>1, <1>4, <1>6 DEF a, b
  <1> QED BY <1>6, <1>7

LEMMA OneMorePlace ==
    ASSUME NEW iov \in Seq(Nat), NEW k \in Nat, NEW i \in 1 .. Len(iov), NEW q \in Nat,
           q < iov[i], Total(iov)[i - 1] + q = 2 * k
    PROVE  /\ BlockPlaces(iov, k + 1) = BlockPlaces(iov, k) \cup {<<i, q>>}
           /\ <<i, q>> \notin BlockPlaces(iov, k)
  <1> DEFINE B(n) == BlockPlaces(iov, n)
  <1>1. k + 1 \in Nat
    OBVIOUS
  <1>2. <<i, q>> \notin B(k)
    BY PlaceOfBlock
  <1>3. <<i, q>> \in B(k + 1)
    <2>1. k \in 0 .. (k + 1) - 1
      OBVIOUS
    <2> QED BY <1>1, <2>1, PlaceOfBlock
  <1>4. ASSUME NEW j \in 1 .. Len(iov), NEW r \in Nat, <<j, r>> \in B(k)
        PROVE  <<j, r>> \in B(k + 1)
    <2>1. PICK m \in 0 .. k - 1 : Total(iov)[j - 1] + r = 2 * m
      BY <1>4, PlaceOfBlock
    <2>2. m \in 0 .. (k + 1) - 1 /\ r < iov[j]
      BY <1>4, PlaceOfBlock
    <2> QED BY <1>1, <2>1, <2>2, PlaceOfBlock
  <1>5. ASSUME NEW j \in 1 .. Len(iov), NEW r \in Nat, <<j, r>> \in B(k + 1)
        PROVE  <<j, r>> \in B(k) \cup {<<i, q>>}
    <2>1. PICK m \in 0 .. (k + 1) - 1 : Total(iov)[j - 1] + r = 2 * m
      BY <1>1, <1>5, PlaceOfBlock
    <2>2. r < iov[j]
      BY <1>1, <1>5, PlaceOfBlock
    <2>3. CASE m = k
      <3>1. Total(iov)[i - 1] + q = Total(iov)[j - 1] + r
        BY <2>1, <2>3
      <3>2. i = j /\ q = r
        BY <2>2, <3>1, OnePlace
      <3> QED BY <3>2
    <2>4. CASE m # k
      <3>1. m \in 0 .. k - 1
        BY <2>4
      <3> QED BY <2>1, <2>2, <3>1, PlaceOfBlock
    <2> QED BY <2>3, <2>4
  <1>6. B(k) \subseteq (1 .. Len(iov)) \X Nat /\ B(k + 1) \subseteq (1 .. Len(iov)) \X Nat
    BY <1>1, PlaceOfBlock
  <1> HIDE DEF B
  <1>7. B(k) \cup {<<i, q>>} \subseteq B(k + 1)
    <2>1. \A p \in B(k) : \E j \in 1 .. Len(iov), r \in Nat : p = <<j, r>>
      BY <1>6
    <2>2. B(k) \subseteq B(k + 1)
      BY <1>4, <2>1, Zenon
    <2> QED BY <1>3, <2>2
  <1>8. B(k + 1) \subseteq B(k) \cup {<<i, q>>}
    BY <1>5, <1>6
  <1>9. B(k + 1) = B(k) \cup {<<i, q>>}
    BY <1>7, <1>8, Zenon
  <1> QED BY <1>2, <1>9 DEF B

(***************************************************************************)
(* The loop of dvdcss_readv.                                               *)
(***************************************************************************)
LoopStates == [ok : BOOLEAN, i : Nat, left : Int, done : SUBSET (Nat \X Nat)]

\* The loop is in its buffer behind k blocks: what has passed by is even, and a rest
\* that is not is that of the first buffer or what one block has left of a later one.
Running(iov, i, left, k) ==
    /\ i \in 1 .. Len(iov)
    /\ left >= -1 /\ left <= iov[i]
    /\ Total(iov)[i] = left + 2 * k
    /\ iov[i] % 2 = left % 2
    /\ \A j \in 1 .. i - 1 : iov[j] % 2 = 0
    /\ left % 2 = 1 => IF i = 1 THEN k = 0 ELSE iov[i] = left + 2

\* The loop has refused a buffer behind c blocks.
Refused(iov, c) ==
    \E i \in DOMAIN iov : /\ iov[i] % 2 = 1
                          /\ \A j \in 1 .. i - 1 : iov[j] % 2 = 0
                          /\ 2 * c = IF i = 1 THEN 0 ELSE Total(iov)[i - 1] + 2

\* After k turns c blocks are descrambled where they lie: all, or those before a
\* buffer was refused.
Behind(iov, s, k, c) ==
    /\ s.done = BlockPlaces(iov, c)
    /\ IsFiniteSet(s.done) /\ Cardinality(s.done) = c
    /\ s.ok => c = k /\ Running(iov, s.i, s.left, k)
    /\ ~s.ok => Refused(iov, c)

LoopInv(iov, s, k) == s \in LoopStates /\ \E c \in 0 .. k : Behind(iov, s, k, c)

\* An odd rest is refused behind the right blocks.
LEMMA OddRefused ==
    ASSUME NEW iov \in Seq(Nat), NEW k \in Nat, NEW i, NEW left \in Int,
           Running(iov, i, left, k), left % 2 = 1
    PROVE  Refused(iov, k)
  <1> DEFINE a == Total(iov)[i - 1]
             b == Total(iov)[i]
             n == iov[i]
  <1>1. i \in 1 .. Len(iov) /\ i \in DOMAIN iov /\ n \in Nat
    BY DEF Running
  <1>2. b = a + n /\ a \in Nat /\ b = left + 2 * k
    <2>1. i - 1 \in 0 .. Len(iov)
      BY <1>1
    <2> QED BY <1>1, <2>1, TotalFacts DEF Running
  <1>3. n % 2 = 1 /\ \A j \in 1 .. i - 1 : iov[j] % 2 = 0
    BY DEF Running
  <1>4. 2 * k = IF i = 1 THEN 0 ELSE a + 2
    <2>1. IF i = 1 THEN k = 0 ELSE n = left + 2
      BY DEF Running
    <2> HIDE DEF a, b, n
    <2>2. i # 1 => 2 * k = a + 2
      BY <1>1, <1>2, <2>1
    <2> QED BY <2>1, <2>2
  <1> QED BY <1>1, <1>3, <1>4 DEF Refused

\* The turn that refuses a buffer.
LEMMA RefusingTurn ==
    ASSUME NEW iov \in Seq(Nat), NEW k \in Nat, NEW s, LoopInv(iov, s, k),
           ~s.ok \/ s.left % 2 = 1
    PROVE  LoopInv(iov, Turn(iov, s), k + 1)
  <1> DEFINE t == [s EXCEPT !.ok = FALSE]
  <1>1. Turn(iov, s) = t
    BY DEF Turn
  <1>2. s \in LoopStates
    BY DEF LoopInv
  <1>3. t \in LoopStates /\ t.ok = FALSE /\ t.done = s.done
    BY <1>2 DEF LoopStates
  <1>4. PICK c \in 0 .. k : Behind(iov, s, k, c)
    BY DEF LoopInv
  <1>5. Refused(iov, c)
    <2>1. CASE ~s.ok
      BY <1>4, <2>1 DEF Behind
    <2>2. CASE s.ok /\ s.left % 2 = 1
      <3>1. Running(iov, s.i, s.left, k) /\ c = k /\ s.left \in Int
        BY <1>2, <1>4, <2>2 DEF Behind, LoopStates
      <3> QED BY <2>2, <3>1, OddRefused
    <2>3. s.ok \in BOOLEAN
      BY <1>2 DEF LoopStates
    <2> QED BY <2>1, <2>2, <2>3
  <1> HIDE DEF t
  <1>6. Behind(iov, t, k + 1, c)
    BY <1>3, <1>4, <1>5 DEF Behind
  <1>7. c \in 0 .. k + 1
    OBVIOUS
  <1> QED BY <1>1, <1>3, <1>6, <1>7 DEF LoopInv

\* The buffer the next block is in, what is left of it there, and where that is.
NextPlace(iov, k, i, left) ==
    /\ i \in 1 .. Len(iov)
    /\ left \in Int /\ left > 0 /\ left <= iov[i]
    /\ Total(iov)[i - 1] + (iov[i] - left) = 2 * k
    /\ Total(iov)[i] = left + 2 * k
    /\ iov[i] % 2 = left % 2
    /\ \A j \in 1 .. i - 1 : iov[j] % 2 = 0
    /\ left % 2 = 1 => i # 1 /\ iov[i] = left

LEMMA SamePlace ==
    ASSUME NEW iov \in Seq(Nat), NEW k \in Nat, NEW i, NEW left \in Int,
           Running(iov, i, left, k), left % 2 = 0, left # 0
    PROVE  NextPlace(iov, k, i, left)
  <1> DEFINE a == Total(iov)[i - 1]
             b == Total(iov)[i]
             n == iov[i]
  <1>1. i \in 1 .. Len(iov) /\ n \in Nat
    BY DEF Running
  <1>2. b = a + n /\ a \in Nat /\ b = left + 2 * k
    <2>1. i - 1 \in 0 .. Len(iov)
      BY <1>1
    <2> QED BY <1>1, <2>1, TotalFacts DEF Running
  <1>3. /\ left >= -1 /\ left <= n /\ n % 2 = left % 2
        /\ \A j \in 1 .. i - 1 : iov[j] % 2 = 0
    BY DEF Running
  <1> HIDE DEF a, b, n
  <1>4. left > 0
    BY <1>3
  <1>5. a + (n - left) = 2 * k
    BY <1>1, <1>2
  <1> QED BY <1>1, <1>2, <1>3, <1>4, <1>5 DEF NextPlace, a, b, n

LEMMA OtherPlace ==
    ASSUME NEW iov \in Seq(Nat), NEW k \in Nat, NEW i, Running(iov, i, 0, k),
           2 * (k + 1) <= Total(iov)[Len(iov)]
    PROVE  LET j == CHOOSE j \in i + 1 .. Len(iov) :
                        iov[j] # 0 /\ \A m \in i + 1 .. j - 1 : iov[m] = 0
           IN  j # i /\ NextPlace(iov, k, j, iov[j])
  <1> DEFINE L == Len(iov)
             b == Total(iov)[i]
             c == Total(iov)[L]
             Candidate(j) == /\ j \in i + 1 .. L
                             /\ iov[j] # 0 /\ \A m \in i + 1 .. j - 1 : iov[m] = 0
             first == CHOOSE j \in i + 1 .. Len(iov) :
                          iov[j] # 0 /\ \A m \in i + 1 .. j - 1 : iov[m] = 0
  <1>1. L \in Nat /\ i \in 1 .. L /\ i \in Int /\ i \in 0 .. L
    BY DEF Running
  <1>2. b = 2 * k /\ b \in Nat /\ c \in Nat /\ 2 * (k + 1) <= c
    <2>1. b \in Nat /\ c \in Nat
      BY <1>1, TotalFacts
    <2>2. b = 0 + 2 * k /\ 2 * (k + 1) <= c
      BY DEF Running
    <2> HIDE DEF b, c
    <2> QED BY <2>1, <2>2
  <1>3. b # c
    <2> HIDE DEF b, c
    <2> QED BY <1>2
  <1>4. PICK j \in i + 1 .. L : /\ iov[j] # 0 /\ \A m \in i + 1 .. j - 1 : iov[m] = 0
                                /\ Total(iov)[j - 1] = b
    BY <1>1, <1>3, NextOne
  <1> DEFINE a == Total(iov)[j - 1]
             d == Total(iov)[j]
             n == iov[j]
  <1> HIDE DEF L
  <1>5. j \in 1 .. L /\ j \in Int /\ i < j /\ j - 1 \in 0 .. L
    BY <1>1, <1>4
  <1>6. first = j
    <2>1. Candidate(j)
      BY <1>4
    <2>2. ASSUME NEW x, Candidate(x) PROVE x = j
      <3>1. x \in Int /\ x \in i + 1 .. L
        BY <1>1, <2>2
      <3>2. x < j => iov[x] = 0
        BY <1>1, <1>4, <1>5, <3>1
      <3>3. j < x => iov[j] = 0
        BY <1>1, <1>5, <2>2, <3>1
      <3> QED BY <1>4, <1>5, <2>2, <3>1, <3>2, <3>3
    <2>3. first = CHOOSE x : Candidate(x)
      BY DEF L
    <2> HIDE DEF Candidate, first
    <2> QED BY <2>1, <2>2, <2>3
  <1>7. d = a + n /\ n \in Nat /\ n > 0 /\ a = 2 * k
    BY <1>2, <1>4, <1>5, TotalFacts DEF L
  <1>8. \A m \in 1 .. j - 1 : iov[m] % 2 = 0
    <2> SUFFICES ASSUME NEW m \in 1 .. j - 1 PROVE iov[m] % 2 = 0
      OBVIOUS
    <2>1. CASE m < i
      <3>1. m \in 1 .. i - 1
        BY <1>1, <2>1
      <3> QED BY <3>1 DEF Running
    <2>2. CASE m = i
      BY <2>2 DEF Running
    <2>3. CASE m > i
      <3>1. m \in i + 1 .. j - 1
        BY <1>1, <1>5, <2>3
      <3>2. iov[m] = 0
        BY <1>4, <3>1
      <3> QED BY <3>2
    <2> QED BY <1>1, <1>5, <2>1, <2>2, <2>3
  <1>9. a + (n - n) = 2 * k /\ d = n + 2 * k
    <2> HIDE DEF a, d, n
    <2> QED BY <1>7
  <1>10. n <= n /\ n % 2 = n % 2 /\ n \in Int
    <2> HIDE DEF n
    <2> QED BY <1>7
  <1>11. NextPlace(iov, k, j, n)
    <2>1. j \in 1 .. Len(iov) /\ j # 1
      BY <1>1, <1>5 DEF L
    <2>2. iov[j] = n /\ Total(iov)[j - 1] = a /\ Total(iov)[j] = d
      OBVIOUS
    <2> HIDE DEF a, d, n
    <2> QED BY <1>7, <1>8, <1>9, <1>10, <2>1, <2>2, Zenon DEF NextPlace
  <1> HIDE DEF first
  <1>12. first # i /\ NextPlace(iov, k, first, iov[first])
    BY <1>1, <1>5, <1>6, <1>11
  <1> QED BY <1>12 DEF first

\* What a block takes away.
LEMMA PlaceTaken ==
    ASSUME NEW iov \in Seq(Nat), NEW k \in Nat, NEW i, NEW left, NextPlace(iov, k, i, left)
    PROVE  /\ i \in 1 .. Len(iov) /\ i \in Nat /\ left \in Int
           /\ iov[i] - left \in Nat /\ iov[i] - left < iov[i]
           /\ Total(iov)[i - 1] + (iov[i] - left) = 2 * k
           /\ Running(iov, i, left - 2, k + 1)
  <1> DEFINE b == Total(iov)[i]
             n == iov[i]
  <1>1. i \in 1 .. Len(iov) /\ n \in Nat /\ i \in Nat
    BY SMTT(20) DEF NextPlace
  <1>2. left \in Int /\ left > 0 /\ left <= n /\ b = left + 2 * k /\ n % 2 = left % 2
    BY DEF NextPlace
  <1>3. left % 2 = 1 => i # 1 /\ n = left
    BY DEF NextPlace
  <1>4. \A j \in 1 .. i - 1 : iov[j] % 2 = 0
    BY DEF NextPlace
  <1>5. Total(iov)[i - 1] + (n - left) = 2 * k
    BY DEF NextPlace
  <1> HIDE DEF b, n
  <1>6. n - left \in Nat /\ n - left < n
    BY <1>1, <1>2
  <1>7. left - 2 >= -1 /\ left - 2 <= n /\ b = (left - 2) + 2 * (k + 1)
    BY <1>1, <1>2
  <1>8. (left - 2) % 2 = left % 2
    BY <1>2
  <1>9. (left - 2) % 2 = 1 => i # 1 /\ n = (left - 2) + 2
    BY <1>1, <1>2, <1>3, <1>8
  <1>10. Running(iov, i, left - 2, k + 1)
    BY <1>1, <1>2, <1>4, <1>7, <1>8, <1>9 DEF Running, b, n
  <1> QED BY <1>1, <1>2, <1>5, <1>6, <1>10 DEF n

\* The turn that descrambles a block.
LEMMA DescramblingTurn ==
    ASSUME NEW iov \in Seq(Nat), NEW k \in Nat, NEW s, LoopInv(iov, s, k),
           s.ok, s.left % 2 # 1, 2 * (k + 1) <= Total(iov)[Len(iov)]
    PROVE  LoopInv(iov, Turn(iov, s), k + 1)
  <1> DEFINE i == NextBuffer(iov, s)
             left == IF i = s.i THEN s.left ELSE iov[i]
             q == iov[i] - left
             t == [ok |-> TRUE, i |-> i, left |-> left - 2,
                   done |-> s.done \cup {<<i, iov[i] - left>>}]
  <1>1. Turn(iov, s) = t
    BY DEF Turn
  <1>2. s \in LoopStates /\ s.left \in Int /\ s.done \subseteq Nat \X Nat
    BY DEF LoopInv, LoopStates
  <1>3. s.left % 2 = 0
    BY <1>2
  <1>4. /\ s.done = BlockPlaces(iov, k) /\ IsFiniteSet(s.done)
        /\ Cardinality(s.done) = k /\ Running(iov, s.i, s.left, k)
    BY DEF LoopInv, Behind
  <1>5. NextPlace(iov, k, i, left)
    <2>1. CASE s.left # 0
      <3>1. i = s.i /\ left = s.left
        BY <2>1 DEF NextBuffer
      <3> QED BY <1>2, <1>3, <1>4, <2>1, <3>1, SamePlace
    <2>2. CASE s.left = 0
      <3>1. i = CHOOSE j \in s.i + 1 .. Len(iov) :
                    iov[j] # 0 /\ \A m \in s.i + 1 .. j - 1 : iov[m] = 0
        BY <2>2 DEF NextBuffer
      <3>2. Running(iov, s.i, 0, k)
        BY <1>4, <2>2
      <3>3. i # s.i /\ NextPlace(iov, k, i, iov[i])
        BY <3>1, <3>2, OtherPlace, SMTT(20)
      <3> QED BY <3>3
    <2> QED BY <2>1, <2>2
  <1> HIDE DEF i, left
  <1>6. /\ i \in 1 .. Len(iov) /\ i \in Nat /\ left \in Int
        /\ q \in Nat /\ q < iov[i] /\ Total(iov)[i - 1] + q = 2 * k
        /\ Running(iov, i, left - 2, k + 1)
    BY <1>5, PlaceTaken
  <1>7. /\ t.ok = TRUE /\ t.i = i /\ t.left = left - 2
        /\ t.done = s.done \cup {<<i, q>>}
    OBVIOUS
  <1> HIDE DEF q
  <1>8. /\ BlockPlaces(iov, k + 1) = s.done \cup {<<i, q>>}
        /\ <<i, q>> \notin s.done
    <2>1. /\ BlockPlaces(iov, k + 1) = BlockPlaces(iov, k) \cup {<<i, q>>}
          /\ <<i, q>> \notin BlockPlaces(iov, k)
      BY <1>6, OneMorePlace
    <2> QED BY <1>4, <2>1, Zenon
  <1>9. t \in LoopStates
    <2>1. s.done \cup {<<i, q>>} \in SUBSET (Nat \X Nat) /\ left - 2 \in Int
      BY <1>2, <1>6, SMTT(20)
    <2> QED BY <1>6, <2>1 DEF LoopStates, q
  <1> HIDE DEF t
  <1>10. IsFiniteSet(t.done) /\ Cardinality(t.done) = k + 1
    <2>1. /\ IsFiniteSet(s.done \cup {<<i, q>>})
          /\ Cardinality(s.done \cup {<<i, q>>}) = Cardinality(s.done) + 1
      BY <1>4, <1>8, FS_AddElement
    <2> QED BY <1>4, <1>7, <2>1
  <1>11. Behind(iov, t, k + 1, k + 1)
    BY <1>6, <1>7, <1>8, <1>10 DEF Behind
  <1>12. k + 1 \in 0 .. k + 1
    OBVIOUS
  <1> QED BY <1>1, <1>9, <1>11, <1>12 DEF LoopInv

\* Before the first turn.
FirstState(iov) == [ok |-> TRUE, i |-> 1, left |-> iov[1], done |-> {}]

LEMMA NoPlaces == ASSUME NEW iov \in Seq(Nat) PROVE BlockPlaces(iov, 0) = {}
  BY DEF BlockPlaces

LEMMA FirstTurn ==
    ASSUME NEW iov \in Seq(Nat), Len(iov) > 0
    PROVE  LoopInv(iov, FirstState(iov), 0)
  <1> DEFINE s == FirstState(iov)
             n == iov[1]
             b == Total(iov)[1]
  <1>1. 1 \in 1 .. Len(iov) /\ n \in Nat
    OBVIOUS
  <1>2. s.ok = TRUE /\ s.i = 1 /\ s.left = n /\ s.done = {}
    BY DEF FirstState
  <1>3. s \in LoopStates
    BY <1>1 DEF FirstState, LoopStates
  <1>4. b = n
    <2>1. b = Total(iov)[1 - 1] + n /\ Total(iov)[0] = 0
      BY <1>1, TotalFacts
    <2> HIDE DEF n, b
    <2> QED BY <1>1, <2>1
  <1>5. Running(iov, 1, n, 0)
    <2>1. n >= -1 /\ n <= n /\ b = n + 2 * 0
      <3> HIDE DEF n, b
      <3> QED BY <1>1, <1>4
    <2>2. \A j \in 1 .. 1 - 1 : iov[j] % 2 = 0
      OBVIOUS
    <2> QED BY <1>1, <2>1, <2>2 DEF Running
  <1> HIDE DEF s, n
  <1>6. Behind(iov, s, 0, 0)
    BY <1>2, <1>5, NoPlaces, FS_EmptySet DEF Behind
  <1>7. 0 \in 0 .. 0
    OBVIOUS
  <1> QED BY <1>3, <1>6, <1>7 DEF LoopInv, s

\* The turns exist, as the sums do.
TurnsTo(iov, f, m) ==
    f = [k \in 0 .. m |-> IF k = 0 THEN FirstState(iov) ELSE Turn(iov, f[k - 1])]

LEMMA TurnsExist ==
    ASSUME NEW iov, NEW n \in Nat
    PROVE  \E f : TurnsTo(iov, f, n)
  <1> DEFINE T == {m \in 0 .. n : \E f : TurnsTo(iov, f, m)}
  <1>1. 0 \in T
    <2>1. TurnsTo(iov, [k \in 0 .. 0 |-> FirstState(iov)], 0)
      BY DEF TurnsTo
    <2>2. 0 \in 0 .. n
      OBVIOUS
    <2> QED BY <2>1, <2>2, Zenon
  <1>2. ASSUME NEW m \in 0 .. n - 1, m \in T PROVE m + 1 \in T
    <2>1. PICK f : TurnsTo(iov, f, m)
      BY <1>2
    <2> DEFINE g == [k \in 0 .. m + 1 |-> IF k = m + 1 THEN Turn(iov, f[m]) ELSE f[k]]
    <2>2. ASSUME NEW k \in 0 .. m + 1
          PROVE  g[k] = IF k = 0 THEN FirstState(iov) ELSE Turn(iov, g[k - 1])
      BY <2>1 DEF TurnsTo
    <2> HIDE DEF g
    <2>3. g = [k \in 0 .. m + 1 |-> g[k]]
      BY DEF g
    <2>4. TurnsTo(iov, g, m + 1)
      <3>1. [k \in 0 .. m + 1 |-> g[k]]
            = [k \in 0 .. m + 1 |-> IF k = 0 THEN FirstState(iov) ELSE Turn(iov, g[k - 1])]
        BY <2>2
      <3> QED BY <2>3, <3>1, Zenon DEF TurnsTo
    <2>5. m + 1 \in 0 .. n
      OBVIOUS
    <2> QED BY <2>4, <2>5, Zenon
  <1> HIDE DEF T
  <1>3. \A m \in 0 .. n : m \in T
    BY <1>1, <1>2, UpTo
  <1>4. n \in 0 .. n
    OBVIOUS
  <1> QED BY <1>3, <1>4, Zenon DEF T

\* What the loop has done after m turns, if there is room for m blocks.
LEMMA LoopDone ==
    ASSUME NEW iov \in Seq(Nat), Len(iov) > 0, NEW n \in Nat,
           2 * n <= Total(iov)[Len(iov)]
    PROVE  LoopInv(iov, Descrambling(iov, n), n)
  <1> DEFINE t == CHOOSE f : TurnsTo(iov, f, n)
  <1>1. TurnsTo(iov, t, n)
    BY TurnsExist
  <1>2. Descrambling(iov, n) = t[n]
    BY DEF Descrambling, TurnsTo, FirstState
  <1> HIDE DEF t
  <1>3. t[0] = FirstState(iov) /\ \A k \in 1 .. n : t[k] = Turn(iov, t[k - 1])
    <2>1. t = [k \in 0 .. n |-> IF k = 0 THEN FirstState(iov) ELSE Turn(iov, t[k - 1])]
      BY <1>1, Zenon DEF TurnsTo
    <2> QED BY <2>1
  <1> DEFINE T == {k \in 0 .. n : LoopInv(iov, t[k], k)}
  <1>4. 0 \in T
    BY <1>3, FirstTurn
  <1>5. ASSUME NEW k \in 0 .. n - 1, k \in T PROVE k + 1 \in T
    <2>1. /\ k \in Nat /\ k + 1 \in 0 .. n /\ k + 1 \in 1 .. n /\ (k + 1) - 1 = k
          /\ LoopInv(iov, t[k], k)
      BY <1>5
    <2>2. t[k + 1] = Turn(iov, t[k])
      BY <1>3, <2>1
    <2>3. 2 * (k + 1) <= Total(iov)[Len(iov)]
      <3> DEFINE c == Total(iov)[Len(iov)]
      <3>1. c \in Nat
        <4>1. Len(iov) \in 0 .. Len(iov)
          OBVIOUS
        <4> QED BY <4>1, TotalFacts
      <3>2. 2 * n <= c
        OBVIOUS
      <3> HIDE DEF c
      <3>3. 2 * (k + 1) <= c
        BY <3>1, <3>2
      <3> QED BY <3>3 DEF c
    <2>4. LoopInv(iov, Turn(iov, t[k]), k + 1)
      BY <2>1, <2>3, RefusingTurn, DescramblingTurn
    <2> QED BY <2>1, <2>2, <2>4
  <1> HIDE DEF T
  <1>6. \A k \in 0 .. n : k \in T
    BY <1>4, <1>5, UpTo
  <1>7. n \in 0 .. n
    OBVIOUS
  <1> QED BY <1>2, <1>6, <1>7, Zenon DEF T

\* What dvdcss_readv delivers: blocks it has descrambled in place.
InPlace(iov, ret, done) ==
    LET n == Cardinality(done) IN
    /\ done = BlockPlaces(iov, n)
    /\ ret >= 0 => n \in {0, ret}
    /\ iov # <<>> /\ ret = -1 => Refused(iov, n)

LEMMA LoopInPlace ==
    ASSUME NEW iov \in Seq(Nat), iov # <<>>, NEW n \in Nat,
           2 * n <= Total(iov)[Len(iov)], NEW descramble \in BOOLEAN
    PROVE  LET loop == Descrambling(iov, n)
               ret == IF descramble /\ ~loop.ok THEN -1 ELSE n
               done == IF descramble THEN loop.done ELSE {}
           IN  InPlace(iov, ret, done) /\ done \subseteq Nat \X Nat
  <1> DEFINE loop == Descrambling(iov, n)
             ret == IF descramble /\ ~loop.ok THEN -1 ELSE n
             done == IF descramble THEN loop.done ELSE {}
  <1>1. CASE descramble
    <2>1. LoopInv(iov, loop, n)
      BY LoopDone
    <2> HIDE DEF loop
    <2>2. loop \in LoopStates
      BY <2>1 DEF LoopInv
    <2>3. PICK c \in 0 .. n : Behind(iov, loop, n, c)
      BY <2>1 DEF LoopInv
    <2>4. done = loop.done /\ done \subseteq Nat \X Nat /\ loop.ok \in BOOLEAN
      BY <1>1, <2>2 DEF LoopStates
    <2>5. Cardinality(done) = c /\ done = BlockPlaces(iov, c)
      BY <2>3, <2>4 DEF Behind
    <2>6. CASE loop.ok
      <3>1. ret = n /\ c = n
        BY <2>3, <2>6 DEF Behind
      <3>2. ret # -1
        BY <3>1
      <3> HIDE DEF ret, done
      <3>3. InPlace(iov, ret, done)
        BY <2>5, <3>1, <3>2 DEF InPlace
      <3> QED BY <2>4, <3>3 DEF ret, done, loop
    <2>7. CASE ~loop.ok
      <3>1. ret = -1 /\ Refused(iov, c)
        BY <1>1, <2>3, <2>7 DEF Behind
      <3>2. ~(ret >= 0)
        BY <3>1
      <3> HIDE DEF ret, done
      <3>3. InPlace(iov, ret, done)
        BY <2>5, <3>1, <3>2 DEF InPlace
      <3> QED BY <2>4, <3>3 DEF ret, done, loop
    <2> QED BY <2>4, <2>6, <2>7
  <1>2. CASE ~descramble
    <2>1. ret = n /\ done = {} /\ ret # -1
      BY <1>2
    <2>2. Cardinality(done) = 0 /\ done = BlockPlaces(iov, 0)
      BY <2>1, NoPlaces, FS_EmptySet
    <2> HIDE DEF done, ret
    <2>3. InPlace(iov, ret, done)
      BY <2>1, <2>2 DEF InPlace
    <2> QED BY <2>1, <2>3 DEF done, ret, loop
  <1> QED BY <1>1, <1>2

(***************************************************************************)
(* The rest of the types, and what is left of the promises.                *)
(***************************************************************************)
CursorsInside == \A h \in Handles : lib[h].cursor \in -1 .. Cardinality(Blocks)

CacheRest == CacheTypeOK /\ \A h \in Handles : Lasting(h)

OutputRight == out \in Outputs \cup {NoOutput} /\ ReadvInPlace

\* What holds besides Inv, and needs it.
Rest == CacheRest /\ CursorsInside /\ OutputRight

LEMMA SizeOfDisc == Cardinality(Blocks) \in Nat /\ Blocks = 0 .. Cardinality(Blocks) - 1
  BY BlocksAssumption, FS_CardinalityType

LEMMA QuietOutput == ASSUME out' = NoOutput PROVE OutputRight'
  BY DEF OutputRight, ReadvInPlace, NoOutput

\* A step that moves one handle.
LEMMA CursorMoved ==
    ASSUME Inv, CursorsInside, NEW h \in Handles, NEW l,
           lib' = [lib EXCEPT ![h] = l], l.cursor \in -1 .. Cardinality(Blocks)
    PROVE  CursorsInside'
  <1>1. lib \in [Handles -> Instances]
    BY DEF Inv, KeyTypes
  <1>2. lib'[h] = l /\ \A k \in Handles : k # h => lib'[k] = lib[k]
    BY <1>1
  <1> QED BY <1>2 DEF CursorsInside

LEMMA SeekInside ==
    ASSUME NEW h, NEW b \in Blocks \cup {0}, NEW p \in pf_seek(h, b)
    PROVE  p \in -1 .. Cardinality(Blocks) /\ p \in Int
  <1>1. p = b \/ p = -1
    BY DEF pf_seek, May
  <1> QED BY <1>1, SizeOfDisc

\* Nothing of init_cache changes.
LEMMA CacheRestKept ==
    ASSUME CacheRest, UNCHANGED cachevars
    PROVE  CacheRest'
  BY DEF CacheRest, CacheTypeOK, Lasting, cachevars

LEMMA InitRest == Init => Rest
  <1> SUFFICES ASSUME Init PROVE Rest
    OBVIOUS
  <1>1. CacheTypeOK
    BY DEF Init, CacheInit, CacheTypeOK, Labels, Paths
  <1>2. \A h \in Handles : Lasting(h)
    BY DEF Init, CacheInit, Lasting
  <1>3. CursorsInside
    <2>1. \A h \in Handles : lib[h].cursor = 0
      BY DEF Init, NewInstance
    <2>2. 0 \in -1 .. Cardinality(Blocks)
      BY SizeOfDisc
    <2> QED BY <2>1, <2>2 DEF CursorsInside
  <1>4. OutputRight
    BY DEF Init, OutputRight, ReadvInPlace, NoOutput
  <1> QED BY <1>1, <1>2, <1>3, <1>4 DEF Rest, CacheRest

LEMMA OpenRest ==
    ASSUME Inv, Rest, NEW h \in Handles, Open(h)
    PROVE  Rest'
  <1>1. PICK e \in Environments[h] : \E l \in Opened(h, e.disc, e.i_method, e.drive) :
          /\ lib' = [lib EXCEPT ![h] = l]
          /\ EnterCache(h, e.psz_cache)
    BY DEF Open
  <1>2. PICK l \in Opened(h, e.disc, e.i_method, e.drive) :
          lib' = [lib EXCEPT ![h] = l] /\ EnterCache(h, e.psz_cache)
    BY <1>1
  <1>3. /\ e.disc \in Discs /\ e.i_method \in {"KEY", "DISC", "TITLE"}
        /\ e.drive \in BOOLEAN /\ e.psz_cache \in Names \cup {Off}
    BY EnvironmentsAssumption
  <1>4. l.cursor = 0
    BY <1>3, OpenedOutcomes
  <1>5. CursorsInside'
    <2>1. l.cursor \in -1 .. Cardinality(Blocks)
      BY <1>4, SizeOfDisc
    <2> QED BY <1>2, <2>1, CursorMoved DEF Rest
  <1>6. CacheRest'
    BY <1>2, <1>3, EnterCacheRest DEF Rest, CacheRest
  <1>7. OutputRight'
    BY QuietOutput DEF Open
  <1> QED BY <1>5, <1>6, <1>7 DEF Rest

LEMMA OpenCacheRest ==
    ASSUME Inv, Rest, NEW h \in Handles, OpenCache(h)
    PROVE  Rest'
  <1> DEFINE sub == <<Volume[lib[h].disc], KeyShown(lib[h])>>
  <1>1. InitCache(h, sub) /\ pc[h] \in Opening
    BY InitCacheLabel DEF OpenCache, Opening
  <1>2. sub \in Subdirs
    BY <1>1, DirShown
  <1> HIDE DEF sub
  <1>3. CacheRest'
    BY <1>1, <1>2, InitCacheTypes, InitCacheLasting DEF Inv, CacheInv, Rest, CacheRest
  <1>4. PICK p \in pf_seek(h, 0) :
            lib' = IF pc'[h] = "opened" THEN [lib EXCEPT ![h].cursor = p] ELSE lib
    BY DEF OpenCache
  <1>5. p \in -1 .. Cardinality(Blocks) /\ p \in Int
    BY SeekInside
  <1>6. CursorsInside'
    <2>1. CASE lib' = lib
      BY <2>1 DEF Rest, CursorsInside
    <2>2. CASE lib' = [lib EXCEPT ![h] = [lib[h] EXCEPT !.cursor = p]]
      <3>1. [lib[h] EXCEPT !.cursor = p].cursor = p
        BY <1>5 DEF Inv, KeyTypes, Instances
      <3> QED BY <1>5, <2>2, <3>1, CursorMoved DEF Rest
    <2> QED BY <1>4, <2>1, <2>2
  <1>7. OutputRight'
    BY QuietOutput DEF OpenCache
  <1> QED BY <1>3, <1>6, <1>7 DEF Rest

LEMMA ForgetRest ==
    ASSUME Inv, Rest, NEW h \in Handles, Forget(h)
    PROVE  Rest'
  <1> DEFINE new == NewInstance(lib[h].disc, "KEY")
  <1>1. lib' = [lib EXCEPT ![h] = new] /\ new.cursor = 0
    BY DEF Forget, NewInstance
  <1> HIDE DEF new
  <1>2. CursorsInside'
    <2>1. new.cursor \in -1 .. Cardinality(Blocks)
      BY <1>1, SizeOfDisc
    <2> QED BY <1>1, <2>1, CursorMoved DEF Rest
  <1>3. CacheRest'
    BY LeaveCacheRest DEF Forget, Rest, CacheRest
  <1>4. OutputRight'
    BY QuietOutput DEF Forget
  <1> QED BY <1>2, <1>3, <1>4 DEF Rest

LEMMA SeekRest ==
    ASSUME Inv, Rest, NEW h \in Handles, NEW b \in Blocks, NEW flags, Seek(h, b, flags)
    PROVE  Rest'
  <1>1. /\ At(h, "opened") /\ ~(ChecksKey(lib[h], flags) /\ Wild(h, lib[h], b))
        /\ out' = NoOutput /\ UNCHANGED cachevars
    BY DEF Seek, MaySeek
  <1>2. PICK r \in IF ChecksKey(lib[h], flags) THEN dvdcss_title(h, lib[h], b)
                                               ELSE {Learned(lib[h], NoKey, 0)} :
          \/ lib' = [lib EXCEPT ![h] = r.lib]
          \/ \E p \in pf_seek(h, b) : lib' = [lib EXCEPT ![h] = [r.lib EXCEPT !.cursor = p]]
    BY DEF Seek
  <1>3. r.lib \in Instances /\ r.lib.cursor \in {lib[h].cursor, -1}
    BY <1>1, SeekOutcomes
  <1>4. CursorsInside'
    <2>1. CASE lib' = [lib EXCEPT ![h] = r.lib]
      <3>1. r.lib.cursor \in -1 .. Cardinality(Blocks)
        BY <1>3, SizeOfDisc DEF Rest, CursorsInside
      <3> QED BY <2>1, <3>1, CursorMoved DEF Rest
    <2>2. CASE \E p \in pf_seek(h, b) :
                  lib' = [lib EXCEPT ![h] = [r.lib EXCEPT !.cursor = p]]
      <3>1. PICK p \in pf_seek(h, b) :
                  lib' = [lib EXCEPT ![h] = [r.lib EXCEPT !.cursor = p]]
        BY <2>2
      <3>2. p \in -1 .. Cardinality(Blocks) /\ p \in Int
        BY SeekInside
      <3>3. [r.lib EXCEPT !.cursor = p].cursor = p
        BY <1>3, <3>2 DEF Instances
      <3> QED BY <3>1, <3>2, <3>3, CursorMoved DEF Rest
    <2> QED BY <1>2, <2>1, <2>2
  <1>5. CacheRest' /\ OutputRight'
    BY <1>1, CacheRestKept, QuietOutput DEF Rest
  <1> QED BY <1>4, <1>5 DEF Rest

LEMMA SeekWildRest ==
    ASSUME Rest, NEW h \in Handles, NEW b, NEW flags, SeekWild(h, b, flags)
    PROVE  Rest'
  <1>1. /\ pc' = [pc EXCEPT ![h] = "undefined"] /\ pc[h] = "opened" /\ out' = NoOutput
        /\ UNCHANGED <<dirs, psz_cache, psz_cachefile, psz_block, fill, lib>>
    BY DEF SeekWild, MaySeek, Goto, At
  <1>2. CacheTypeOK'
    BY <1>1 DEF Rest, CacheRest, CacheTypeOK, Labels
  <1>3. \A k \in Handles : Lasting(k)'
    BY <1>1 DEF Rest, CacheRest, CacheTypeOK, Lasting
  <1>4. CursorsInside' /\ OutputRight'
    BY <1>1, QuietOutput DEF Rest, CursorsInside
  <1> QED BY <1>2, <1>3, <1>4 DEF Rest, CacheRest

\* A read does not go beyond the end of the device.
LEMMA AheadInside ==
    ASSUME Inv, CursorsInside, NEW h \in Handles, NEW n
    PROVE  /\ lib[h].cursor + Cardinality(Ahead(lib[h], n)) \in -1 .. Cardinality(Blocks)
           /\ Cardinality(Ahead(lib[h], n)) \in 0 .. Cardinality(Blocks)
  <1> DEFINE size == Cardinality(Blocks)
             c == lib[h].cursor
             A == Ahead(lib[h], n)
  <1>1. size \in Nat /\ Blocks = 0 .. size - 1 /\ IsFiniteSet(Blocks)
    BY SizeOfDisc, BlocksAssumption
  <1>2. c \in -1 .. size
    BY DEF CursorsInside
  <1>3. A \subseteq Blocks /\ \A b \in A : b >= c
    BY DEF Ahead
  <1>4. Cardinality(A) \in Nat /\ Cardinality(A) <= size
    BY <1>1, <1>3, AheadIsFinite, FS_Subset
  <1> HIDE DEF size, c, A
  <1>5. c >= 0 => Cardinality(A) <= size - c
    <2> SUFFICES ASSUME c >= 0 PROVE Cardinality(A) <= size - c
      OBVIOUS
    <2>1. A \subseteq c .. size - 1
      <3> SUFFICES ASSUME NEW b \in A PROVE b \in c .. size - 1
        OBVIOUS
      <3>1. b \in 0 .. size - 1 /\ b >= c /\ c \in Int
        BY <1>1, <1>2, <1>3
      <3> QED BY <1>1, <3>1
    <2>2. IsFiniteSet(c .. size - 1) /\ Cardinality(c .. size - 1) = size - c
      <3>1. /\ c \in Int /\ size - 1 \in Int
            /\ (IF c > size - 1 THEN 0 ELSE (size - 1) - c + 1) = size - c
        BY <1>1, <1>2
      <3>2. /\ IsFiniteSet(c .. size - 1)
            /\ Cardinality(c .. size - 1) = IF c > size - 1 THEN 0 ELSE (size - 1) - c + 1
        BY <3>1, FS_Interval
      <3> QED BY <3>1, <3>2
    <2> DEFINE R == c .. size - 1
    <2>3. A \in SUBSET R /\ IsFiniteSet(R) /\ Cardinality(R) = size - c
      BY <2>1, <2>2
    <2> HIDE DEF R
    <2>4. Cardinality(A) <= Cardinality(R)
      BY <2>3, FS_Subset, Zenon
    <2> QED BY <2>3, <2>4
  <1>6. c + Cardinality(A) \in -1 .. size /\ Cardinality(A) \in 0 .. size
    BY <1>1, <1>2, <1>4, <1>5
  <1> QED BY <1>6 DEF size, c, A

\* Nor does it find more blocks than it was asked for.
LEMMA AheadAsAsked ==
    ASSUME Inv, NEW h \in Handles, NEW n \in Nat
    PROVE  Cardinality(Ahead(lib[h], n)) <= n
  <1> DEFINE c == lib[h].cursor
             A == Ahead(lib[h], n)
  <1>1. c \in Int
    BY DEF Inv, KeyTypes, Instances
  <1>2. A \subseteq c .. c + n - 1
    <2> SUFFICES ASSUME NEW b \in A PROVE b \in c .. c + n - 1
      OBVIOUS
    <2>1. b >= c /\ b < c + n /\ b \in Int
      BY BlocksAreNumbers DEF Ahead
    <2> HIDE DEF c
    <2> QED BY <1>1, <2>1
  <1> HIDE DEF c, A
  <1>3. IsFiniteSet(c .. c + n - 1) /\ Cardinality(c .. c + n - 1) = n
    BY <1>1, FS_Interval
  <1>4. Cardinality(A) <= n
    BY <1>2, <1>3, FS_Subset
  <1> QED BY <1>4 DEF A

LEMMA DeliversRest ==
    ASSUME Inv, Rest, NEW h \in Handles, NEW n, NEW o, Delivers(h, n, o),
           o \in Outputs, o.op = "readv" => InPlace(o.iov, o.i_ret, o.done)
    PROVE  Rest'
  <1> DEFINE p == lib[h].cursor + Cardinality(Ahead(lib[h], n))
             l == [lib[h] EXCEPT !.cursor = p]
  <1>1. lib' = [lib EXCEPT ![h] = l] /\ out' = o /\ UNCHANGED cachevars
    BY DEF Delivers, Advanced
  <1>2. p \in -1 .. Cardinality(Blocks)
    BY AheadInside DEF Rest
  <1>3. l.cursor = p
    BY DEF Inv, KeyTypes, Instances
  <1> HIDE DEF p, l
  <1>4. CursorsInside'
    BY <1>1, <1>2, <1>3, CursorMoved DEF Rest
  <1>5. OutputRight'
    BY <1>1 DEF OutputRight, ReadvInPlace, InPlace, Refused
  <1>6. CacheRest'
    BY <1>1, CacheRestKept DEF Rest
  <1> QED BY <1>4, <1>5, <1>6 DEF Rest

LEMMA NoneInNoBuffers == InPlace(<<>>, -1, {})
  <1>1. BlockPlaces(<<>>, 0) = {}
    BY DEF BlockPlaces
  <1> QED BY <1>1, FS_EmptySet DEF InPlace

LEMMA ReadFailsRest ==
    ASSUME Inv, Rest, NEW h \in Handles, NEW op \in {"read", "readv"}, ReadFails(h, op)
    PROVE  Rest'
  <1> DEFINE o == Output(h, op, -1, {})
             l == [lib[h] EXCEPT !.cursor = -1]
  <1>1. lib' = [lib EXCEPT ![h] = l] /\ out' = o /\ UNCHANGED cachevars
    BY DEF ReadFails
  <1>2. l.cursor = -1
    BY DEF Inv, KeyTypes, Instances
  <1>3. o \in Outputs /\ o.iov = <<>> /\ o.i_ret = -1 /\ o.done = {}
    BY SizeOfDisc DEF Output, Outputs
  <1> HIDE DEF o, l
  <1>4. CursorsInside'
    <2>1. l.cursor \in -1 .. Cardinality(Blocks)
      BY <1>2, SizeOfDisc
    <2> QED BY <1>1, <2>1, CursorMoved DEF Rest
  <1>5. OutputRight'
    <2>1. InPlace(o.iov, o.i_ret, o.done)
      BY <1>3, NoneInNoBuffers
    <2> QED BY <1>1, <1>3, <2>1 DEF OutputRight, ReadvInPlace, InPlace, Refused
  <1>6. CacheRest'
    BY <1>1, CacheRestKept DEF Rest
  <1> QED BY <1>4, <1>5, <1>6 DEF Rest

LEMMA FormsKnown ==
    ASSUME NEW l, NEW blocks, NEW descramble
    PROVE  {Form(l, b, descramble) : b \in blocks} \subseteq Forms
  BY DEF Form, Forms

LEMMA ReadRest ==
    ASSUME Inv, Rest, NEW h \in Handles, NEW n, NEW decrypt, Read(h, n, decrypt)
    PROVE  Rest'
  <1> DEFINE l == lib[h]
             descramble == decrypt /\ l.b_scrambled /\ UsesKey(l)
             forms == {Form(l, b, descramble) : b \in Ahead(l, n)}
             o == Output(h, "read", Cardinality(Ahead(l, n)), forms)
  <1>1. Delivers(h, n, o) \/ ReadFails(h, "read")
    BY DEF Read
  <1>2. CASE Delivers(h, n, o)
    <2>1. Cardinality(Ahead(l, n)) \in -1 .. Cardinality(Blocks) /\ forms \subseteq Forms
      BY AheadInside, FormsKnown, SizeOfDisc DEF Rest
    <2> HIDE DEF forms
    <2>2. o \in Outputs /\ o.op # "readv"
      BY <2>1 DEF Output, Outputs
    <2> HIDE DEF o
    <2> QED BY <1>2, <2>2, DeliversRest
  <1>3. CASE ReadFails(h, "read")
    BY <1>3, ReadFailsRest
  <1> QED BY <1>1, <1>2, <1>3

LEMMA ReadvRest ==
    ASSUME Inv, Rest, NEW h \in Handles, NEW iov \in Iovecs, NEW decrypt \in BOOLEAN,
           Readv(h, iov, decrypt)
    PROVE  Rest'
  <1> DEFINE l == lib[h]
             n == Total(iov)[Len(iov)] \div 2
             blocks == Ahead(l, n)
             m == Cardinality(blocks)
             descramble == decrypt /\ l.b_scrambled
             loop == Descrambling(iov, m)
             ret == IF descramble /\ ~loop.ok THEN -1 ELSE m
             done == IF descramble THEN loop.done ELSE {}
             forms == {Form(l, b, descramble) : b \in blocks}
             o == [Output(h, "readv", ret, forms) EXCEPT !.iov = iov, !.done = done]
  <1>1. Delivers(h, n, o) \/ ReadFails(h, "readv")
    BY DEF Readv
  <1>2. CASE Delivers(h, n, o)
    <2>1. iov \in Seq(Nat) /\ iov # <<>>
      BY IovecsAssumption
    <2>2. n \in Nat /\ 2 * n <= Total(iov)[Len(iov)]
      <3> DEFINE c == Total(iov)[Len(iov)]
      <3>1. c \in Nat
        <4>1. Len(iov) \in 0 .. Len(iov)
          BY <2>1
        <4> QED BY <2>1, <4>1, TotalFacts
      <3> HIDE DEF c
      <3>2. c \div 2 \in Nat /\ 2 * (c \div 2) <= c
        BY <3>1
      <3> QED BY <3>2 DEF c
    <2>3. m \in 0 .. Cardinality(Blocks) /\ m \in Nat /\ 2 * m <= Total(iov)[Len(iov)]
      <3> DEFINE c == Total(iov)[Len(iov)]
      <3>1. m \in 0 .. Cardinality(Blocks) /\ Cardinality(Blocks) \in Nat
        BY AheadInside, SizeOfDisc DEF Rest
      <3>2. m <= n
        BY <2>2, AheadAsAsked
      <3>3. c \in Nat
        <4>1. Len(iov) \in 0 .. Len(iov)
          BY <2>1
        <4> QED BY <2>1, <4>1, TotalFacts
      <3>4. 2 * n <= c
        BY <2>2
      <3> HIDE DEF c, m, n
      <3>5. m \in Nat /\ 2 * m <= c
        BY <2>2, <3>1, <3>2, <3>3, <3>4
      <3> QED BY <3>1, <3>5 DEF c
    <2>4. descramble \in BOOLEAN
      BY DEF Inv, KeyTypes, Instances
    <2>5. InPlace(iov, ret, done) /\ done \subseteq Nat \X Nat
      <3> HIDE DEF m, descramble
      <3> QED BY <2>1, <2>3, <2>4, LoopInPlace
    <2>6. ret \in -1 .. Cardinality(Blocks)
      BY <2>3, SizeOfDisc
    <2>7. forms \subseteq Forms
      BY FormsKnown
    <2> HIDE DEF ret, done, forms
    <2>8. o \in Outputs /\ o.iov = iov /\ o.i_ret = ret /\ o.done = done
      BY <2>5, <2>6, <2>7 DEF Output, Outputs
    <2> HIDE DEF o
    <2> QED BY <1>2, <2>5, <2>8, DeliversRest
  <1>3. CASE ReadFails(h, "readv")
    BY <1>3, ReadFailsRest
  <1> QED BY <1>1, <1>2, <1>3

LEMMA NextRest == Inv /\ Rest /\ [Next]_vars => Rest'
  <1> SUFFICES ASSUME Inv, Rest, [Next]_vars PROVE Rest'
    OBVIOUS
  <1>1. ASSUME NEW h \in Handles, Open(h) PROVE Rest'
    BY <1>1, OpenRest
  <1>2. ASSUME NEW h \in Handles, OpenCache(h) PROVE Rest'
    BY <1>2, OpenCacheRest
  <1>3. ASSUME NEW h \in Handles, Close(h) \/ Kill(h) PROVE Rest'
    BY <1>3, ForgetRest DEF Close, Kill
  <1>4. ASSUME NEW h \in Handles, NEW b \in Blocks, NEW flags \in {"NOFLAGS", "MPEG", "KEY"},
               Seek(h, b, flags) \/ SeekWild(h, b, flags)
        PROVE  Rest'
    BY <1>4, SeekRest, SeekWildRest
  <1>5. ASSUME NEW h \in Handles, NEW decrypt \in BOOLEAN, NEW n \in ReadSizes,
               Read(h, n, decrypt)
        PROVE  Rest'
    BY <1>5, ReadRest
  <1>6. ASSUME NEW h \in Handles, NEW decrypt \in BOOLEAN, NEW iov \in Iovecs,
               Readv(h, iov, decrypt)
        PROVE  Rest'
    BY <1>6, ReadvRest
  <1>7. CASE UNCHANGED vars
    BY <1>7, CacheRestKept DEF vars, Rest, CursorsInside, OutputRight, ReadvInPlace
  <1> QED BY <1>1, <1>2, <1>3, <1>4, <1>5, <1>6, <1>7 DEF Next

(***************************************************************************)
(* The theorems.                                                           *)
(***************************************************************************)
LEMMA SpecInv == Spec => []Inv
  BY InitInv, NextInv, PTL DEF Spec

\* For any PATH_MAX, any names, any handles and any interleaving of them, nothing
\* that is written to psz_cachefile lies behind its end (create_cache_subdir and
\* dvdcss_title, which use sprintf).
THEOREM CacheNameFits == Spec => []FitsBuffer
  <1>1. Inv => FitsBuffer
    BY InvGivesFitsBuffer DEF Inv
  <1> QED BY <1>1, SpecInv, PTL

\* A cache that is in use has its directories and a pointer to write names to, but
\* for names that are too long (init_cache).
THEOREM CacheInOrder == Spec => []CacheUsable
  <1>1. Inv => CacheUsable
    BY InvGivesCacheUsable DEF Inv
  <1> QED BY <1>1, SpecInv, PTL

\* A cache directory that shows a disc key never holds a wrong title key, whoever
\* shares the cache and whatever fails (create_cache_subdir, dvdcss_title).
THEOREM KeyedDirectoriesGenuine == Spec => []KeyedDirsGenuine
  <1>1. Inv => KeyedDirsGenuine
    BY DEF Inv
  <1> QED BY <1>1, SpecInv, PTL

\* Inside a title the key in force is one learned for that title, whatever has
\* failed before (dvdcss_seek, dvdcss_title).
THEOREM KeyAlwaysInPlace == Spec => []KeyInPlace
  <1>1. Inv => KeyInPlace
    BY DEF Inv, HandleInv, Entered, KeyInPlace
  <1> QED BY <1>1, SpecInv, PTL

\* A handle that had its disc key delivers no spoilt block, but by dvdcss_readv with
\* an all-zero key (dvdcss_read, dvdcss_readv).
THEOREM KeyedHandlesDeliver == Spec => []KeyedNotGarbled
  <1>1. Inv => KeyedNotGarbled
    BY DEF Inv
  <1> QED BY <1>1, SpecInv, PTL

LEMMA SpecRest == Spec => []Rest
  BY SpecInv, InitRest, NextRest, PTL DEF Spec

\* The variables keep their types; no call leaves a device behind its end, returns
\* more blocks than there are or a path that is none (dvdcss_s, dvdcss_read).
THEOREM TypesKept == Spec => []TypeOK
  <1>1. Inv /\ Rest => TypeOK
    BY DEF Inv, KeyTypes, Rest, CacheRest, CursorsInside, OutputRight, TypeOK
  <1> QED BY <1>1, SpecInv, SpecRest, PTL

\* A handle whose own calls do not fail gets its cache, however many others make the
\* same directories at the same time (exists_or_mkdir, create_cache_subdir).
THEOREM CacheAlwaysKept == Spec => []CacheKept
  <1>1. Rest => CacheKept
    BY LastingGivesCacheKept DEF Rest, CacheRest
  <1> QED BY <1>1, SpecRest, PTL

\* Blocks are descrambled where the device has put them, whatever buffers dvdcss_readv
\* is given: how many, of what lengths, empty or of an odd length (dvdcss_readv).
THEOREM ReadvAlwaysInPlace == Spec => []ReadvInPlace
  <1>1. Rest => ReadvInPlace
    BY DEF Rest, OutputRight
  <1> QED BY <1>1, SpecRest, PTL

=============================================================================
