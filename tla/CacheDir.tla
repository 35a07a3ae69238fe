----------------------------- MODULE CacheDir -----------------------------
(***************************************************************************)
(* init_cache: where a handle keeps its title keys on disk.                *)
(*                                                                         *)
(* dvdcss_open puts the name of the cache directory into psz_cachefile, a  *)
(* buffer of PATH_MAX bytes, makes the directory, appends a subdirectory   *)
(* named after the disc, makes that too, and lets psz_block point behind   *)
(* it; dvdcss_title will write the name of a key file there.  An empty     *)
(* psz_cachefile says that the handle has no cache.                        *)
(*                                                                         *)
(* Handles of several processes run this at the same time on one file      *)
(* system: to look for a directory and to make it are two system calls.  A *)
(* name is represented by its length; there is one name of each length.    *)
(* The tag file, which the library never reads, is left out.               *)
(***************************************************************************)
EXTENDS Integers, Sequences

CONSTANTS
    Handles,       \* the handles, of one or several processes
    PathMax,       \* PATH_MAX
    Names,         \* the lengths of the directory names (0: no home directory)
    Off,           \* the value "off" of DVDCSS_CACHE
    Subdirs,       \* the subdirectories discs may ask for
    TextLength,    \* [Subdirs -> length of "title-serial-key"]
    FileFaults,    \* [Handles -> what may go wrong: "mkdir", "sector"]
    Unset          \* what psz_block points to before it is set

DISC_TITLE_LENGTH == 32
MANUFACTURING_DATE_LENGTH == 16
STRING_KEY_SIZE == 10
CACHE_FILENAME_LENGTH == 10
CACHE_TAG_SIZE == 13               \* sizeof("CACHEDIR.TAG")

ASSUME NamesAssumption ==
    PathMax \in Nat \ {0} /\ Names \subseteq Nat /\ Off \notin Nat
ASSUME UnsetAssumption == Unset \notin Nat
ASSUME TextLengthAssumption ==
    TextLength \in [Subdirs -> 0 .. DISC_TITLE_LENGTH + 1
                                    + MANUFACTURING_DATE_LENGTH + 1 + STRING_KEY_SIZE]

VARIABLES
    dirs,          \* the directories that exist, as paths
    pc,            \* [Handles -> Labels]
    psz_cache,     \* [Handles -> Names \cup {Off}]: the environment of the process
    psz_cachefile, \* [Handles -> path]: empty, <<name>> or <<name, subdirectory>>
    psz_block,     \* [Handles -> offset in psz_cachefile, or Unset]
    fill           \* [Handles -> bytes of psz_cachefile that have been written to]

cachevars == <<dirs, pc, psz_cache, psz_cachefile, psz_block, fill>>

Labels == {"closed", "SetDirectory", "StatDir", "MkDir", "Sectors", "StatSub",
           "MkSub", "opened", "undefined"}

Lengths == 0 .. PathMax

Paths == {<<>>} \cup {<<n>> : n \in Lengths}
                \cup {<<n, s>> : n \in Lengths, s \in Subdirs}

CacheTypeOK ==
    /\ dirs \subseteq Paths \ {<<>>}
    /\ pc \in [Handles -> Labels]
    /\ psz_cache \in [Handles -> Names \cup {Off}]
    /\ psz_cachefile \in [Handles -> Paths]
    /\ psz_block \in [Handles -> Nat \cup {Unset}]
    /\ fill \in [Handles -> Nat]

CacheInit ==
    /\ dirs = {}
    /\ pc = [h \in Handles |-> "closed"]
    /\ psz_cache = [h \in Handles |-> Off]
    /\ psz_cachefile = [h \in Handles |-> <<>>]
    /\ psz_block = [h \in Handles |-> Unset]
    /\ fill = [h \in Handles |-> 0]

At(h, l) == pc[h] = l
Goto(h, l) == pc' = [pc EXCEPT ![h] = l]

\* dvdcss_open has come to the cache; psz_block is whatever malloc has left there.
EnterCache(h, name) ==
    /\ Goto(h, "SetDirectory")
    /\ psz_cache' = [psz_cache EXCEPT ![h] = name]
    /\ psz_cachefile' = [psz_cachefile EXCEPT ![h] = <<>>]
    /\ psz_block' = [psz_block EXCEPT ![h] = Unset]
    /\ fill' = [fill EXCEPT ![h] = 1]
    /\ UNCHANGED dirs

LeaveCache(h) ==
    /\ Goto(h, "closed")
    /\ psz_cache' = [psz_cache EXCEPT ![h] = Off]
    /\ psz_cachefile' = [psz_cachefile EXCEPT ![h] = <<>>]
    /\ psz_block' = [psz_block EXCEPT ![h] = Unset]
    /\ fill' = [fill EXCEPT ![h] = 0]
    /\ UNCHANGED dirs

\* Mutant: an error leaves the name in psz_cachefile.
NameStays(h) == Goto(h, "opened") /\ UNCHANGED psz_cachefile

\* The error paths: the handle has no cache.
Disabled(h) ==
    /\ Goto(h, "opened")
    /\ psz_cachefile' = [psz_cachefile EXCEPT ![h] = <<>>]

Written(h, n) == fill' = [fill EXCEPT ![h] = IF @ < n THEN n ELSE @]

\* Mutant: the room for the subdirectory is forgotten.
TooLongAlone(n) == n + 1 + CACHE_TAG_SIZE > PathMax

\* The directory leaves no room for the longest name that may follow.
TooLong(n) ==
    n + 1 + DISC_TITLE_LENGTH + 1 + MANUFACTURING_DATE_LENGTH + 1
      + STRING_KEY_SIZE + 1 + CACHE_TAG_SIZE > PathMax

\* strncpy, snprintf: a name is cut off at the end of the buffer.
CutOff(n) == IF n < PathMax THEN n ELSE PathMax - 1

\* set_cache_directory.  A name that is too long has been copied by then.
SetDirectory(h) ==
    LET n == psz_cache[h] IN
    /\ At(h, "SetDirectory")
    /\ \/ n = Off /\ Goto(h, "opened") /\ UNCHANGED <<psz_cachefile, fill>>
       \/ n = 0 /\ Goto(h, "StatDir") /\ UNCHANGED <<psz_cachefile, fill>>
       \/ /\ n \notin {Off, 0}
          /\ psz_cachefile' = [psz_cachefile EXCEPT ![h] = <<CutOff(n)>>]
          /\ Written(h, CutOff(n) + 1)
          /\ Goto(h, IF TooLong(n) THEN "opened" ELSE "StatDir")
    /\ UNCHANGED <<dirs, psz_cache, psz_block>>

(***************************************************************************)
(* init_cache_dir.                                                         *)
(***************************************************************************)
\* exists_or_mkdir: stat.
StatDir(h) ==
    /\ At(h, "StatDir")
    /\ Goto(h, IF psz_cachefile[h] \in dirs THEN "Sectors" ELSE "MkDir")
    /\ UNCHANGED <<dirs, psz_cache, psz_cachefile, psz_block, fill>>

\* Mutant: a directory that has come into being since stat is an error.
NobodyElse(path) == path # <<>> /\ path \notin dirs

\* mkdir succeeds, or fails with EEXIST, which is as good.
MkDirDone(path) == path # <<>>

MkDir(h) ==
    /\ At(h, "MkDir")
    /\ \/ /\ MkDirDone(psz_cachefile[h])
          /\ dirs' = dirs \cup {psz_cachefile[h]}
          /\ Goto(h, "Sectors")
          /\ UNCHANGED psz_cachefile
       \/ /\ ~MkDirDone(psz_cachefile[h]) \/ "mkdir" \in FileFaults[h]
          /\ Disabled(h)
          /\ UNCHANGED dirs
    /\ UNCHANGED <<psz_cache, psz_block, fill>>

(***************************************************************************)
(* create_cache_subdir, for the subdirectory sub.                          *)
(***************************************************************************)
\* Sectors 0 and 16 are read; there is no cache when that fails or when the first
\* is that of a VOB file.
Sectors(h) ==
    /\ At(h, "Sectors")
    /\ \/ Goto(h, "StatSub") /\ UNCHANGED psz_cachefile
       \/ "sector" \in FileFaults[h] /\ Disabled(h)
    /\ UNCHANGED <<dirs, psz_cache, psz_block, fill>>

\* The length of psz_cachefile with the subdirectory.
SubLength(h, sub) == psz_cachefile[h][1] + 1 + TextLength[sub]

\* A "/" is appended, and psz_block set behind it.
Enabled(h, sub) ==
    /\ Written(h, SubLength(h, sub) + 2)
    /\ psz_block' = [psz_block EXCEPT ![h] = SubLength(h, sub) + 1]
    /\ Goto(h, "opened")

StatSub(h, sub) ==
    LET path == <<psz_cachefile[h][1], sub>> IN
    /\ At(h, "StatSub")
    /\ psz_cachefile' = [psz_cachefile EXCEPT ![h] = path]
    /\ \/ path \in dirs /\ Enabled(h, sub)
       \/ /\ path \notin dirs
          /\ Written(h, SubLength(h, sub) + 1)
          /\ Goto(h, "MkSub")
          /\ UNCHANGED psz_block
    /\ UNCHANGED <<dirs, psz_cache>>

MkSub(h, sub) ==
    /\ At(h, "MkSub")
    /\ \/ /\ MkDirDone(psz_cachefile[h])
          /\ dirs' = dirs \cup {psz_cachefile[h]}
          /\ Enabled(h, sub)
          /\ UNCHANGED psz_cachefile
       \/ /\ ~MkDirDone(psz_cachefile[h]) \/ "mkdir" \in FileFaults[h]
          /\ Disabled(h)
          /\ UNCHANGED <<dirs, psz_block, fill>>
    /\ UNCHANGED psz_cache

InitCache(h, sub) ==
    SetDirectory(h) \/ StatDir(h) \/ MkDir(h) \/ Sectors(h) \/ StatSub(h, sub) \/ MkSub(h, sub)

(***************************************************************************)
(* Properties.                                                             *)
(***************************************************************************)
\* Whatever is appended to the name stays inside psz_cachefile, and so will the
\* name of a key file that dvdcss_title writes behind psz_block with sprintf: the
\* check made before anything was appended has left room for all of it.
FitsBuffer ==
    \A h \in Handles :
        /\ fill[h] <= PathMax
        /\ psz_block[h] # Unset => psz_block[h] + CACHE_FILENAME_LENGTH + 1 <= PathMax

\* A handle that has a cache has a pointer into it and its directories exist, on
\* every path through init_cache but one: a name that is too long stays in
\* psz_cachefile, and psz_block is never set.
CacheUsable ==
    \A h \in Handles :
        At(h, "opened") /\ psz_cachefile[h] # <<>>
            => \/ /\ psz_block[h] # Unset
                  /\ psz_cachefile[h] \in dirs
                  /\ <<psz_cachefile[h][1]>> \in dirs
               \/ psz_cache[h] # Off /\ TooLong(psz_cache[h])

\* A handle whose own calls do not fail gets the cache it was asked to use, however
\* the others that make the same directories interleave with it.
CacheKept ==
    \A h \in Handles :
        At(h, "opened") /\ FileFaults[h] = {} /\ psz_cache[h] \notin {Off, 0}
            => psz_cachefile[h] # <<>>

=============================================================================
