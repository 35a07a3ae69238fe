-------------------------- MODULE CacheDirProofs --------------------------
(***************************************************************************)
(* Proofs about the way to the cache directory, for any PATH_MAX, any      *)
(* lengths of names and any number of handles.                             *)
(*                                                                         *)
(* The check of set_cache_directory is made once, on the bare name of the  *)
(* directory.  The invariant carries it along the steps that append to the *)
(* name: until init_cache is through, the buffer holds a name that has     *)
(* passed the check, alone or with one subdirectory.                       *)
(***************************************************************************)
EXTENDS CacheDir, TLAPS

\* A name that has passed the check, and the path of a subdirectory under one.
Checked(path) == \E n \in Nat : path = <<n>> /\ ~TooLong(n)
CheckedSub(path) == \E n \in Nat, s \in Subdirs : path = <<n, s>> /\ ~TooLong(n)

Usable(h) ==
    \/ /\ psz_block[h] # Unset
       /\ psz_cachefile[h] \in dirs
       /\ <<psz_cachefile[h][1]>> \in dirs
    \/ psz_cache[h] # Off /\ TooLong(psz_cache[h])

\* What holds of a handle at each label of init_cache.
OnTheWay(h) ==
    /\ At(h, "SetDirectory") => psz_cachefile[h] = <<>>
    /\ pc[h] \in {"StatDir", "MkDir"} =>
          psz_cachefile[h] = <<>> \/ Checked(psz_cachefile[h])
    /\ pc[h] \in {"Sectors", "StatSub"} =>
          Checked(psz_cachefile[h]) /\ psz_cachefile[h] \in dirs
    /\ At(h, "MkSub") =>
          CheckedSub(psz_cachefile[h]) /\ <<psz_cachefile[h][1]>> \in dirs
    /\ At(h, "opened") /\ psz_cachefile[h] # <<>> => Usable(h)

\* Nothing was written behind the end of the buffer, or will be.
Inside(h) ==
    /\ fill[h] <= PathMax
    /\ psz_block[h] # Unset => psz_block[h] + CACHE_FILENAME_LENGTH + 1 <= PathMax

\* The types the proofs need; CacheTypeOK has more.
CacheTypes ==
    /\ <<>> \notin dirs
    /\ pc \in [Handles -> Labels]
    /\ psz_cache \in [Handles -> Names \cup {Off}]
    /\ DOMAIN psz_cachefile = Handles
    /\ psz_block \in [Handles -> Nat \cup {Unset}]
    /\ fill \in [Handles -> Nat]

CacheInv == CacheTypes /\ \A h \in Handles : OnTheWay(h) /\ Inside(h)

USE DEF DISC_TITLE_LENGTH, MANUFACTURING_DATE_LENGTH, STRING_KEY_SIZE,
        CACHE_FILENAME_LENGTH, CACHE_TAG_SIZE

\* The invariant implies what is promised of the buffer and of the cache.
LEMMA InvGivesFitsBuffer == CacheInv => FitsBuffer
  BY DEF CacheInv, FitsBuffer, Inside

LEMMA InvGivesCacheUsable == CacheInv => CacheUsable
  BY DEF CacheInv, CacheUsable, OnTheWay, Usable, At

\* Initially no handle is on the way.
LEMMA CacheInitInv == CacheInit => CacheInv
  BY NamesAssumption, UnsetAssumption
  DEF CacheInit, CacheInv, CacheTypes, OnTheWay, Inside, At, Labels

\* What a step of one handle leaves alone keeps what is known of the others: the
\* directories only grow.
LEMMA OthersKept ==
    ASSUME NEW k \in Handles, OnTheWay(k), Inside(k), dirs \subseteq dirs',
           pc'[k] = pc[k], psz_cache'[k] = psz_cache[k],
           psz_cachefile'[k] = psz_cachefile[k], psz_block'[k] = psz_block[k],
           fill'[k] = fill[k]
    PROVE  OnTheWay(k)' /\ Inside(k)'
  BY DEF OnTheWay, Inside, Usable, At, Checked, CheckedSub

\* Entering and leaving init_cache.
LEMMA EnterCacheInv ==
    ASSUME CacheInv, NEW h \in Handles, NEW name \in Names \cup {Off}, EnterCache(h, name)
    PROVE  CacheInv'
  <1>1. CacheTypes'
    BY DEF CacheInv, CacheTypes, EnterCache, Goto, Labels
  <1>2. ASSUME NEW k \in Handles PROVE (OnTheWay(k) /\ Inside(k))'
    <2>1. CASE k = h
      BY <2>1, NamesAssumption, UnsetAssumption
      DEF CacheInv, CacheTypes, EnterCache, Goto, OnTheWay, Inside, At
    <2>2. CASE k # h
      BY <2>2, OthersKept DEF CacheInv, CacheTypes, EnterCache, Goto
    <2> QED BY <2>1, <2>2
  <1> QED BY <1>1, <1>2 DEF CacheInv

LEMMA LeaveCacheInv ==
    ASSUME CacheInv, NEW h \in Handles, LeaveCache(h)
    PROVE  CacheInv'
  <1>1. CacheTypes'
    BY DEF CacheInv, CacheTypes, LeaveCache, Goto, Labels
  <1>2. ASSUME NEW k \in Handles PROVE (OnTheWay(k) /\ Inside(k))'
    <2>1. CASE k = h
      BY <2>1, NamesAssumption, UnsetAssumption
      DEF CacheInv, CacheTypes, LeaveCache, Goto, OnTheWay, Inside, At
    <2>2. CASE k # h
      BY <2>2, OthersKept DEF CacheInv, CacheTypes, LeaveCache, Goto
    <2> QED BY <2>1, <2>2
  <1> QED BY <1>1, <1>2 DEF CacheInv

\* set_cache_directory: what it lets through has passed the check, and strncpy stays
\* inside the buffer when it does not.
LEMMA SetDirectoryInv ==
    ASSUME CacheInv, NEW h \in Handles, SetDirectory(h)
    PROVE  CacheInv'
  <1> DEFINE n == psz_cache[h]
  <1>1. n \in Nat \cup {Off} /\ PathMax \in Nat \ {0} /\ Off \notin Nat
    BY NamesAssumption DEF CacheInv, CacheTypes
  <1>2. n \in Nat => CutOff(n) \in Nat /\ CutOff(n) < PathMax /\ (~TooLong(n) => CutOff(n) = n)
    BY <1>1 DEF CutOff, TooLong
  <1>3. CacheTypes'
    <2>1. pc' \in [Handles -> Labels]
      <3>1. \E l \in Labels : Goto(h, l)
        BY Zenon DEF SetDirectory, Labels
      <3> QED BY <3>1 DEF CacheInv, CacheTypes, Goto
    <2>2. UNCHANGED <<dirs, psz_cache, psz_block>>
      BY Zenon DEF SetDirectory
    <2>3. DOMAIN psz_cachefile' = Handles /\ fill' \in [Handles -> Nat]
      BY <1>1, <1>2 DEF CacheInv, CacheTypes, SetDirectory, Written
    <2> QED BY <2>1, <2>2, <2>3 DEF CacheInv, CacheTypes
  <1>4. ASSUME NEW k \in Handles PROVE (OnTheWay(k) /\ Inside(k))'
    <2>1. CASE k = h
      <3>1. Inside(h)'
        BY <1>1, <1>2 DEF CacheInv, CacheTypes, SetDirectory, Written, Inside
      <3>2. ASSUME n = Off \/ n = 0 PROVE OnTheWay(h)'
        BY <3>2, <1>1 DEF CacheInv, CacheTypes, SetDirectory, Goto, OnTheWay, At
      <3>3. ASSUME n \notin {Off, 0}, ~TooLong(n) PROVE OnTheWay(h)'
        BY <3>3, <1>1, <1>2
        DEF CacheInv, CacheTypes, SetDirectory, Goto, OnTheWay, At, Checked
      <3>4. ASSUME n \notin {Off, 0}, TooLong(n) PROVE OnTheWay(h)'
        BY <3>4, <1>1
        DEF CacheInv, CacheTypes, SetDirectory, Goto, OnTheWay, At, Usable
      <3> QED BY <2>1, <3>1, <3>2, <3>3, <3>4
    <2>2. CASE k # h
      BY <2>2, OthersKept DEF CacheInv, CacheTypes, SetDirectory, Goto, Written
    <2> QED BY <2>1, <2>2
  <1> QED BY <1>3, <1>4 DEF CacheInv

LEMMA StatDirInv ==
    ASSUME CacheInv, NEW h \in Handles, StatDir(h)
    PROVE  CacheInv'
  <1>1. CacheTypes'
    BY DEF CacheInv, CacheTypes, StatDir, Goto, Labels
  <1>2. ASSUME NEW k \in Handles PROVE (OnTheWay(k) /\ Inside(k))'
    <2>1. CASE k = h
      BY <2>1 DEF CacheInv, CacheTypes, StatDir, Goto, OnTheWay, Inside, At, Checked
    <2>2. CASE k # h
      BY <2>2, OthersKept DEF CacheInv, CacheTypes, StatDir, Goto
    <2> QED BY <2>1, <2>2
  <1> QED BY <1>1, <1>2 DEF CacheInv

LEMMA MkDirInv ==
    ASSUME CacheInv, NEW h \in Handles, MkDir(h)
    PROVE  CacheInv'
  <1>1. CacheTypes'
    BY DEF CacheInv, CacheTypes, MkDir, MkDirDone, Disabled, Goto, Labels
  <1>2. ASSUME NEW k \in Handles PROVE (OnTheWay(k) /\ Inside(k))'
    <2>1. CASE k = h
      BY <2>1
      DEF CacheInv, CacheTypes, MkDir, MkDirDone, Disabled, Goto, OnTheWay, Inside, At, Checked
    <2>2. CASE k # h
      BY <2>2, OthersKept DEF CacheInv, CacheTypes, MkDir, Disabled, Goto
    <2> QED BY <2>1, <2>2
  <1> QED BY <1>1, <1>2 DEF CacheInv

LEMMA SectorsInv ==
    ASSUME CacheInv, NEW h \in Handles, Sectors(h)
    PROVE  CacheInv'
  <1>1. CacheTypes'
    BY DEF CacheInv, CacheTypes, Sectors, Disabled, Goto, Labels
  <1>2. ASSUME NEW k \in Handles PROVE (OnTheWay(k) /\ Inside(k))'
    <2>1. CASE k = h
      BY <2>1 DEF CacheInv, CacheTypes, Sectors, Disabled, Goto, OnTheWay, Inside, At, Checked
    <2>2. CASE k # h
      BY <2>2, OthersKept DEF CacheInv, CacheTypes, Sectors, Disabled, Goto
    <2> QED BY <2>1, <2>2
  <1> QED BY <1>1, <1>2 DEF CacheInv

\* The room a subdirectory takes, the "/" behind it and a key file included, is what
\* the check has asked for, but for two bytes that are left over.
LEMMA RoomForSub ==
    ASSUME NEW n \in Nat, NEW sub \in Subdirs, ~TooLong(n)
    PROVE  /\ TextLength[sub] \in Nat
           /\ n + 1 + TextLength[sub] + 1 + CACHE_FILENAME_LENGTH + 1 + 2 <= PathMax
  BY NamesAssumption, TextLengthAssumption DEF TooLong

LEMMA StatSubInv ==
    ASSUME CacheInv, NEW h \in Handles, NEW sub \in Subdirs, StatSub(h, sub)
    PROVE  CacheInv'
  <1>1. PICK n \in Nat : /\ psz_cachefile[h] = <<n>> /\ ~TooLong(n)
                         /\ psz_cachefile[h] \in dirs
    BY DEF CacheInv, StatSub, OnTheWay, At, Checked
  <1> DEFINE path == <<n, sub>>
  <1>2. /\ TextLength[sub] \in Nat /\ PathMax \in Nat /\ Unset \notin Nat
        /\ n + 1 + TextLength[sub] + 1 + CACHE_FILENAME_LENGTH + 1 + 2 <= PathMax
    BY <1>1, RoomForSub, NamesAssumption, UnsetAssumption
  <1>3. SubLength(h, sub) = n + 1 + TextLength[sub] /\ psz_cachefile[h][1] = n
    BY <1>1 DEF SubLength
  <1>4. psz_cachefile' = [psz_cachefile EXCEPT ![h] = path] /\ dirs' = dirs
    BY <1>3 DEF StatSub
  <1>5. CacheTypes'
    <2>1. pc' \in [Handles -> Labels]
      <3>1. \E l \in Labels : Goto(h, l)
        BY Zenon DEF StatSub, Enabled, Labels
      <3> QED BY <3>1 DEF CacheInv, CacheTypes, Goto
    <2>2. UNCHANGED <<dirs, psz_cache>>
      BY Zenon DEF StatSub
    <2>3. DOMAIN psz_cachefile' = Handles
      BY <1>4 DEF CacheInv, CacheTypes
    <2>4. psz_block' \in [Handles -> Nat \cup {Unset}]
      <3>1. psz_block' = psz_block
            \/ psz_block' = [psz_block EXCEPT ![h] = n + 1 + TextLength[sub] + 1]
        BY <1>3, Zenon DEF StatSub, Enabled
      <3> QED BY <3>1, <1>2 DEF CacheInv, CacheTypes
    <2>5. fill' \in [Handles -> Nat]
      BY <1>2, <1>3 DEF CacheInv, CacheTypes, StatSub, Enabled, Written
    <2> QED BY <2>1, <2>2, <2>3, <2>4, <2>5 DEF CacheInv, CacheTypes
  <1>6. ASSUME NEW k \in Handles PROVE (OnTheWay(k) /\ Inside(k))'
    <2>1. CASE k = h
      <3>1. Inside(h)'
        BY <1>2, <1>3 DEF CacheInv, CacheTypes, StatSub, Enabled, Written, Inside
      <3>2. psz_cachefile'[h] = path /\ path[1] = n /\ <<n>> \in dirs
        BY <1>1, <1>4 DEF CacheInv, CacheTypes
      <3>3. ASSUME path \in dirs, Enabled(h, sub) PROVE OnTheWay(h)'
        <4>1. psz_block'[h] # Unset /\ pc'[h] = "opened"
          BY <3>3, <1>2, <1>3 DEF Enabled, Goto, CacheInv, CacheTypes
        <4> QED BY <4>1, <3>2, <3>3, <1>4 DEF OnTheWay, At, Usable
      <3>4. ASSUME pc' = [pc EXCEPT ![h] = "MkSub"] PROVE OnTheWay(h)'
        BY <3>4, <3>2, <1>1, <1>4 DEF CacheInv, CacheTypes, OnTheWay, At, CheckedSub
      <3> QED BY <2>1, <3>1, <3>3, <3>4, <1>3 DEF StatSub, Goto
    <2>2. CASE k # h
      BY <2>2, <1>4, OthersKept DEF CacheInv, CacheTypes, StatSub, Enabled, Goto, Written
    <2> QED BY <2>1, <2>2
  <1> QED BY <1>5, <1>6 DEF CacheInv

LEMMA MkSubInv ==
    ASSUME CacheInv, NEW h \in Handles, NEW sub \in Subdirs, MkSub(h, sub)
    PROVE  CacheInv'
  <1>1. PICK n \in Nat, s \in Subdirs : /\ psz_cachefile[h] = <<n, s>> /\ ~TooLong(n)
                                        /\ <<psz_cachefile[h][1]>> \in dirs
    BY DEF CacheInv, MkSub, OnTheWay, At, CheckedSub
  <1>2. /\ TextLength[sub] \in Nat /\ PathMax \in Nat /\ Unset \notin Nat
        /\ n + 1 + TextLength[sub] + 1 + CACHE_FILENAME_LENGTH + 1 + 2 <= PathMax
    BY <1>1, RoomForSub, NamesAssumption, UnsetAssumption
  <1>3. SubLength(h, sub) = n + 1 + TextLength[sub] /\ psz_cachefile[h][1] = n
    BY <1>1 DEF SubLength
  <1>4. CacheTypes'
    <2>1. pc' \in [Handles -> Labels]
      <3>1. \E l \in Labels : Goto(h, l)
        BY Zenon DEF MkSub, Enabled, Disabled, Labels
      <3> QED BY <3>1 DEF CacheInv, CacheTypes, Goto
    <2>2. psz_cache' = psz_cache /\ <<>> \notin dirs'
      BY <1>1 DEF CacheInv, CacheTypes, MkSub
    <2>3. DOMAIN psz_cachefile' = Handles
      BY DEF CacheInv, CacheTypes, MkSub, Disabled
    <2>4. psz_block' \in [Handles -> Nat \cup {Unset}]
      <3>1. psz_block' = psz_block
            \/ psz_block' = [psz_block EXCEPT ![h] = n + 1 + TextLength[sub] + 1]
        BY <1>3, Zenon DEF MkSub, Enabled
      <3> QED BY <3>1, <1>2 DEF CacheInv, CacheTypes
    <2>5. fill' \in [Handles -> Nat]
      <3>1. fill' = fill \/ Written(h, n + 1 + TextLength[sub] + 2)
        <4>1. UNCHANGED fill \/ Written(h, SubLength(h, sub) + 2)
          BY Zenon DEF MkSub, Enabled
        <4> QED BY <4>1, <1>3
      <3>2. fill \in [Handles -> Nat]
        BY DEF CacheInv, CacheTypes
      <3>3. n + 1 + TextLength[sub] + 2 \in Nat
        BY <1>2
      <3> QED BY <3>1, <3>2, <3>3 DEF Written
    <2> QED BY <2>1, <2>2, <2>3, <2>4, <2>5 DEF CacheInv, CacheTypes
  <1>5. ASSUME NEW k \in Handles PROVE (OnTheWay(k) /\ Inside(k))'
    <2>1. CASE k = h
      <3>1. Inside(h)'
        BY <1>2, <1>3
        DEF CacheInv, CacheTypes, MkSub, MkDirDone, Enabled, Written, Disabled, Inside
      <3>2. ASSUME Enabled(h, sub), dirs' = dirs \cup {psz_cachefile[h]},
                   UNCHANGED psz_cachefile
            PROVE  OnTheWay(h)'
        <4>1. psz_block'[h] # Unset /\ pc'[h] = "opened"
          BY <3>2, <1>2, <1>3 DEF Enabled, Goto, CacheInv, CacheTypes
        <4> QED BY <4>1, <3>2, <1>1 DEF OnTheWay, At, Usable
      <3>3. ASSUME Disabled(h) PROVE OnTheWay(h)'
        BY <3>3 DEF CacheInv, CacheTypes, Disabled, Goto, OnTheWay, At
      <3> QED BY <2>1, <3>1, <3>2, <3>3 DEF MkSub, MkDirDone
    <2>2. CASE k # h
      BY <2>2, OthersKept
      DEF CacheInv, CacheTypes, MkSub, MkDirDone, Enabled, Disabled, Goto, Written
    <2> QED BY <2>1, <2>2
  <1> QED BY <1>4, <1>5 DEF CacheInv

\* Every step of init_cache keeps the invariant.
LEMMA InitCacheInv ==
    ASSUME CacheInv, NEW h \in Handles, NEW sub \in Subdirs, InitCache(h, sub)
    PROVE  CacheInv'
  BY SetDirectoryInv, StatDirInv, MkDirInv, SectorsInv, StatSubInv, MkSubInv DEF InitCache

\* Where a step of init_cache leads: to the subdirectory it was called with, and no
\* other handle anywhere else.
LEMMA InitCachePlace ==
    ASSUME CacheInv, NEW h \in Handles, NEW sub \in Subdirs, InitCache(h, sub),
           At(h, "SetDirectory") => psz_block[h] = Unset,
           At(h, "MkSub") => \E n \in Nat : psz_cachefile[h] = <<n, sub>>
    PROVE  /\ \/ At(h, "MkSub")'
              \/ At(h, "opened")' /\ psz_cachefile'[h] # <<>> /\ psz_block'[h] # Unset
              => \E n \in Nat : psz_cachefile'[h] = <<n, sub>>
           /\ ~At(h, "SetDirectory")'
           /\ \A k \in Handles : k # h => /\ pc'[k] = pc[k]
                                          /\ psz_cachefile'[k] = psz_cachefile[k]
                                          /\ psz_block'[k] = psz_block[k]
  <1> DEFINE Kept == \A k \in Handles : k # h => /\ pc'[k] = pc[k]
                                                 /\ psz_cachefile'[k] = psz_cachefile[k]
                                                 /\ psz_block'[k] = psz_block[k]
             Reached == \/ At(h, "MkSub")'
                        \/ /\ At(h, "opened")'
                           /\ psz_cachefile'[h] # <<>> /\ psz_block'[h] # Unset
             There == \E n \in Nat : psz_cachefile'[h] = <<n, sub>>
  <1>1. pc \in [Handles -> Labels] /\ DOMAIN psz_cachefile = Handles
        /\ psz_block \in [Handles -> Nat \cup {Unset}]
    BY DEF CacheInv, CacheTypes
  <1>2. ASSUME SetDirectory(h) PROVE Kept /\ ~Reached /\ ~At(h, "SetDirectory")'
    BY <1>1, <1>2 DEF SetDirectory, Goto, At
  <1>3. ASSUME StatDir(h) PROVE Kept /\ ~Reached /\ ~At(h, "SetDirectory")'
    BY <1>1, <1>3 DEF StatDir, Goto, At
  <1>4. ASSUME MkDir(h) PROVE Kept /\ ~Reached /\ ~At(h, "SetDirectory")'
    BY <1>1, <1>4 DEF MkDir, Disabled, Goto, At
  <1>5. ASSUME Sectors(h) PROVE Kept /\ ~Reached /\ ~At(h, "SetDirectory")'
    BY <1>1, <1>5 DEF Sectors, Disabled, Goto, At
  <1>6. ASSUME StatSub(h, sub) PROVE Kept /\ There /\ ~At(h, "SetDirectory")'
    <2>1. PICK n \in Nat : psz_cachefile[h] = <<n>>
      BY <1>6 DEF CacheInv, StatSub, OnTheWay, At, Checked
    <2>2. psz_cachefile[h][1] = n
      BY <2>1
    <2>3. psz_cachefile' = [psz_cachefile EXCEPT ![h] = <<n, sub>>]
      BY <1>6, <2>2 DEF StatSub
    <2>4. \E l \in {"opened", "MkSub"} : Goto(h, l)
      BY <1>6, Zenon DEF StatSub, Enabled
    <2>5. \E o : psz_block' = [psz_block EXCEPT ![h] = o]
      <3>1. psz_block' = psz_block \/ psz_block' = [psz_block EXCEPT ![h] = SubLength(h, sub) + 1]
        BY <1>6, Zenon DEF StatSub, Enabled
      <3>2. psz_block = [psz_block EXCEPT ![h] = psz_block[h]]
        BY <1>1
      <3> QED BY <3>1, <3>2
    <2> QED BY <1>1, <2>3, <2>4, <2>5 DEF Goto, At
  <1>7. ASSUME MkSub(h, sub)
        PROVE  Kept /\ (Reached => There) /\ ~At(h, "SetDirectory")'
    <2>1. CASE Disabled(h) /\ psz_block' = psz_block
      BY <1>1, <2>1 DEF Disabled, Goto, At
    <2>2. CASE Enabled(h, sub) /\ psz_cachefile' = psz_cachefile
      BY <1>1, <1>7, <2>2 DEF MkSub, Enabled, Goto, At
    <2> QED BY <1>7, <2>1, <2>2, Zenon DEF MkSub
  <1> QED BY <1>2, <1>3, <1>4, <1>5, <1>6, <1>7 DEF InitCache

\* The label of a handle that takes a step of init_cache.
LEMMA InitCacheLabel ==
    ASSUME NEW h \in Handles, NEW sub, InitCache(h, sub)
    PROVE  pc[h] \in {"SetDirectory", "StatDir", "MkDir", "Sectors", "StatSub", "MkSub"}
  BY Zenon DEF InitCache, SetDirectory, StatDir, MkDir, Sectors, StatSub, MkSub, At

(***************************************************************************)
(* The types, and that a cache is not lost on the way.                     *)
(***************************************************************************)
\* A handle that is past set_cache_directory has a name, if it was given one and none
\* of its own calls fails: no other handle can take it away.
Lasting(h) ==
    /\ pc[h] \notin {"closed", "SetDirectory"}
    /\ FileFaults[h] = {}
    /\ psz_cache[h] \notin {Off, 0}
    => psz_cachefile[h] # <<>>

LEMMA LastingGivesCacheKept == (\A h \in Handles : Lasting(h)) => CacheKept
  BY DEF Lasting, CacheKept, At

\* What a step of init_cache leaves alone: the other handles, and what the
\* environment says.
LEMMA InitCacheOthers ==
    ASSUME CacheTypes, NEW h \in Handles, NEW sub, InitCache(h, sub)
    PROVE  /\ psz_cache' = psz_cache
           /\ DOMAIN psz_cachefile' = Handles
           /\ \A k \in Handles : k # h => /\ pc'[k] = pc[k]
                                          /\ psz_cachefile'[k] = psz_cachefile[k]
  <1>1. psz_cache' = psz_cache
    BY Zenon DEF InitCache, SetDirectory, StatDir, MkDir, Sectors, StatSub, MkSub
  <1>2. \E l : Goto(h, l)
    BY Zenon DEF InitCache, SetDirectory, StatDir, MkDir, Sectors, StatSub, MkSub,
                 Disabled, Enabled
  <1>3. psz_cachefile' = psz_cachefile
        \/ \E path : psz_cachefile' = [psz_cachefile EXCEPT ![h] = path]
    BY Zenon DEF InitCache, SetDirectory, StatDir, MkDir, Sectors, StatSub, MkSub, Disabled
  <1> QED BY <1>1, <1>2, <1>3 DEF CacheTypes, Goto

\* A step of init_cache takes the name away only where one of its own calls fails.
LEMMA InitCacheLasting ==
    ASSUME CacheTypes, NEW h \in Handles, NEW sub, InitCache(h, sub),
           \A k \in Handles : Lasting(k)
    PROVE  \A k \in Handles : Lasting(k)'
  <1>1. /\ psz_cache' = psz_cache
        /\ \A k \in Handles : k # h => /\ pc'[k] = pc[k]
                                       /\ psz_cachefile'[k] = psz_cachefile[k]
    BY InitCacheOthers
  <1>2. SUFFICES ASSUME FileFaults[h] = {}, psz_cache[h] \notin {Off, 0}
                 PROVE  psz_cachefile'[h] # <<>>
    BY <1>1 DEF Lasting
  <1>3. DOMAIN psz_cachefile = Handles /\ pc \in [Handles -> Labels]
    BY DEF CacheTypes
  <1>4. CASE SetDirectory(h)
    <2>1. psz_cachefile' = [psz_cachefile EXCEPT ![h] = <<CutOff(psz_cache[h])>>]
      BY <1>2, <1>4, Zenon DEF SetDirectory
    <2> QED BY <1>3, <2>1
  <1>5. CASE pc[h] # "SetDirectory" /\ psz_cachefile' = psz_cachefile
    <2>1. pc[h] # "closed"
      BY InitCacheLabel
    <2> QED BY <1>2, <1>5, <2>1 DEF Lasting
  <1>6. CASE MkDir(h)
    <2>1. psz_cachefile[h] # <<>>
      BY <1>2, <1>6 DEF MkDir, Lasting, At
    <2> QED BY <1>2, <1>6, <2>1, Zenon DEF MkDir, MkDirDone
  <1>7. CASE Sectors(h)
    <2>1. psz_cachefile[h] # <<>>
      BY <1>2, <1>7 DEF Sectors, Lasting, At
    <2> QED BY <1>2, <1>7, <2>1, Zenon DEF Sectors
  <1>8. CASE StatSub(h, sub)
    BY <1>3, <1>8 DEF StatSub
  <1>9. CASE MkSub(h, sub)
    <2>1. psz_cachefile[h] # <<>>
      BY <1>2, <1>9 DEF MkSub, Lasting, At
    <2> QED BY <1>2, <1>9, <2>1, Zenon DEF MkSub, MkDirDone
  <1>10. StatDir(h) => pc[h] # "SetDirectory" /\ psz_cachefile' = psz_cachefile
    BY Zenon DEF StatDir, At
  <1> QED BY <1>4, <1>5, <1>6, <1>7, <1>8, <1>9, <1>10 DEF InitCache

\* Names and directories are paths: what is appended is one subdirectory, to a name
\* that was cut off at the end of the buffer.
LEMMA InitCacheTypes ==
    ASSUME CacheInv, CacheTypeOK, NEW h \in Handles, NEW sub \in Subdirs, InitCache(h, sub)
    PROVE  CacheTypeOK'
  <1>1. CacheTypes'
    BY InitCacheInv DEF CacheInv
  <1>2. psz_cachefile \in [Handles -> Paths] /\ dirs \subseteq Paths \ {<<>>}
    BY DEF CacheTypeOK
  <1>3. SUFFICES psz_cachefile' \in [Handles -> Paths] /\ dirs' \subseteq Paths \ {<<>>}
    BY <1>1 DEF CacheTypes, CacheTypeOK
  <1>4. <<>> \in Paths /\ psz_cachefile[h] \in Paths
    BY <1>2 DEF Paths
  <1>5. CASE SetDirectory(h)
    <2>1. psz_cache[h] \in Nat \cup {Off} /\ PathMax \in Nat \ {0}
      BY NamesAssumption DEF CacheTypeOK
    <2>2. dirs' = dirs
      BY <1>5 DEF SetDirectory
    <2>3. CASE psz_cachefile' = psz_cachefile
      BY <1>2, <2>2, <2>3
    <2>4. CASE /\ psz_cache[h] \notin {Off, 0}
               /\ psz_cachefile' = [psz_cachefile EXCEPT ![h] = <<CutOff(psz_cache[h])>>]
      <3>1. CutOff(psz_cache[h]) \in Lengths
        BY <2>1, <2>4 DEF CutOff, Lengths
      <3>2. <<CutOff(psz_cache[h])>> \in Paths
        BY <3>1 DEF Paths
      <3> QED BY <1>2, <2>2, <2>4, <3>2
    <2> QED BY <1>5, <2>3, <2>4, Zenon DEF SetDirectory
  <1>6. CASE StatDir(h)
    BY <1>2, <1>6 DEF StatDir
  <1>7. CASE MkDir(h)
    BY <1>2, <1>4, <1>7 DEF MkDir, MkDirDone, Disabled
  <1>8. CASE Sectors(h)
    BY <1>2, <1>4, <1>8 DEF Sectors, Disabled
  <1>9. CASE StatSub(h, sub)
    <2>1. PICK n \in Nat : psz_cachefile[h] = <<n>>
      BY <1>9 DEF CacheInv, StatSub, OnTheWay, At, Checked
    <2>2. n \in Lengths /\ psz_cachefile[h][1] = n
      BY <1>4, <2>1 DEF Paths
    <2>3. <<n, sub>> \in Paths
      BY <2>2 DEF Paths
    <2>4. psz_cachefile' = [psz_cachefile EXCEPT ![h] = <<n, sub>>] /\ dirs' = dirs
      BY <1>9, <2>2 DEF StatSub
    <2> QED BY <1>2, <2>3, <2>4
  <1>10. CASE MkSub(h, sub)
    BY <1>2, <1>4, <1>10 DEF MkSub, MkDirDone, Disabled
  <1> QED BY <1>5, <1>6, <1>7, <1>8, <1>9, <1>10 DEF InitCache

\* Entering and leaving.
LEMMA EnterCacheRest ==
    ASSUME CacheTypeOK, \A k \in Handles : Lasting(k), NEW h \in Handles,
           NEW name \in Names \cup {Off}, EnterCache(h, name)
    PROVE  CacheTypeOK' /\ \A k \in Handles : Lasting(k)'
  <1>1. <<>> \in Paths
    BY DEF Paths
  <1>2. CacheTypeOK'
    BY <1>1 DEF CacheTypeOK, EnterCache, Goto, Labels
  <1>3. \A k \in Handles : Lasting(k)'
    BY DEF CacheTypeOK, EnterCache, Goto, Lasting
  <1> QED BY <1>2, <1>3

LEMMA LeaveCacheRest ==
    ASSUME CacheTypeOK, \A k \in Handles : Lasting(k), NEW h \in Handles, LeaveCache(h)
    PROVE  CacheTypeOK' /\ \A k \in Handles : Lasting(k)'
  <1>1. <<>> \in Paths
    BY DEF Paths
  <1>2. CacheTypeOK'
    BY <1>1 DEF CacheTypeOK, LeaveCache, Goto, Labels
  <1>3. \A k \in Handles : Lasting(k)'
    BY DEF CacheTypeOK, LeaveCache, Goto, Lasting
  <1> QED BY <1>2, <1>3

=============================================================================
