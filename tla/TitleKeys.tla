----------------------------- MODULE TitleKeys -----------------------------
(***************************************************************************)
(* dvdcss_title: the title keys a handle knows and the key cache on disk.  *)
(*                                                                         *)
(* Every handle keeps a list of title keys, sorted by the block they were  *)
(* asked for.  Handles of one disc share a cache directory with one file   *)
(* per block.  A call looks in the list, then in the file, and acquires    *)
(* the key from the disc (dvdcss_titlekey, module CssAuth) only if neither *)
(* has it; then it writes the file and extends the list.  One action is    *)
(* one system call with the code that follows it: two handles interleave   *)
(* between looking for a file, creating it and writing it.                 *)
(*                                                                         *)
(* A key is a sequence of KeyLen cells and its text in a file is these     *)
(* cells and the line end.  Cells stand for the 14 characters that are     *)
(* read back, so a file that one process has written over another's may    *)
(* mix their keys.                                                         *)
(***************************************************************************)
EXTENDS Integers, SequencesExt

CONSTANTS
    Handles,       \* the handles, of one or several processes
    Blocks,        \* the blocks a title key may be asked for
    KeyLen,        \* cells of a key (14 characters: PSZ_KEY_SIZE - 1)
    Learnable,     \* [Blocks -> set of keys dvdcss_titlekey may yield for it]
    Failures,      \* the calls that may fail: "open", "create", "write", ...
    NoFile,        \* there is no file of that name
    NoBlock,       \* no call is in progress
    NoKey          \* a key that has not been set

LineEnd == -1

ASSUME BlocksAssumption == Blocks \subseteq Int
ASSUME KeyLenAssumption == KeyLen \in Nat \ {0}
ASSUME LearnableAssumption ==
    \A b \in Blocks : \A k \in Learnable[b] : k \in Seq(Nat) /\ Len(k) = KeyLen
ASSUME NoBlockAssumption == NoBlock \notin Blocks
ASSUME NoFileAssumption == NoFile \notin Seq(Int)

VARIABLES
    files,         \* [Blocks -> contents or NoFile]: the cache directory
    pc,            \* [Handles -> Labels]
    p_titles,      \* [Handles -> sequence of [i_startlb, p_key]]: the linked list
    p_title_key,   \* [Handles -> key]: css.p_title_key, the key in force
    cached,        \* [Handles -> BOOLEAN]: psz_cachefile is not empty
    i_block,       \* [Handles -> block asked for]: the argument of the call
    p_key,         \* [Handles -> key]: the local p_title_key
    b_cache,       \* [Handles -> BOOLEAN]: whether the key is to be saved
    i_ret          \* [Handles -> {-1, 0}]: what the last call returned

local == <<i_block, p_key, b_cache>>
vars == <<files, pc, p_titles, p_title_key, cached, local, i_ret>>

Labels == {"closed", "ready", "ReadFile", "TitleKey", "CreateFile", "WriteFile", "Insert"}

Listed(p) == {p_titles[p][i].i_startlb : i \in DOMAIN p_titles[p]}

\* The key of a listed block (the first entry, should there be several).
KeyOf(p, b) ==
    LET i == CHOOSE i \in DOMAIN p_titles[p] :
                /\ p_titles[p][i].i_startlb = b
                /\ \A j \in 1 .. i - 1 : p_titles[p][j].i_startlb # b
    IN  p_titles[p][i].p_key

Entries == [i_startlb : Blocks, p_key : Seq(Int)]

\* The calls that have missed the list and know the block they are about, and
\* those of them that have a key.
Busy == {"ReadFile", "TitleKey", "CreateFile", "WriteFile", "Insert"}
HaveKey == {"CreateFile", "WriteFile", "Insert"}

TypeOK ==
    /\ files \in [Blocks -> Seq(Int) \cup {NoFile}]
    /\ pc \in [Handles -> Labels]
    /\ p_titles \in [Handles -> Seq(Entries)]
    /\ p_title_key \in [Handles -> Seq(Int) \cup {NoKey}]
    /\ p_key \in [Handles -> Seq(Int) \cup {NoKey}]
    /\ cached \in [Handles -> BOOLEAN]
    /\ b_cache \in [Handles -> BOOLEAN]
    /\ i_block \in [Handles -> Blocks \cup {NoBlock}]
    /\ i_ret \in [Handles -> {-1, 0}]
    /\ \A p \in Handles :
          /\ pc[p] \in Busy => i_block[p] \in Blocks
          /\ pc[p] \in HaveKey => p_key[p] \in Seq(Int)
    /\ \A b \in Blocks : files[b] # NoFile => Len(files[b]) <= KeyLen + 1

Init ==
    /\ files = [b \in Blocks |-> NoFile]
    /\ pc = [p \in Handles |-> "closed"]
    /\ p_titles = [p \in Handles |-> <<>>]
    /\ p_title_key = [p \in Handles |-> NoKey]
    /\ cached = [p \in Handles |-> FALSE]
    /\ i_block = [p \in Handles |-> NoBlock]
    /\ p_key = [p \in Handles |-> NoKey]
    /\ b_cache = [p \in Handles |-> FALSE]
    /\ i_ret = [p \in Handles |-> 0]

At(p, l) == pc[p] = l
Goto(p, l) == pc' = [pc EXCEPT ![p] = l]

Open(p) ==
    /\ At(p, "closed")
    /\ \E on \in BOOLEAN : cached' = [cached EXCEPT ![p] = on]
    /\ Goto(p, "ready")
    /\ UNCHANGED <<files, p_titles, p_title_key, local, i_ret>>

\* The handle's memory is gone; files stay as they are.
Forget(p) ==
    /\ Goto(p, "closed")
    /\ p_titles' = [p_titles EXCEPT ![p] = <<>>]
    /\ p_title_key' = [p_title_key EXCEPT ![p] = NoKey]
    /\ cached' = [cached EXCEPT ![p] = FALSE]
    /\ i_block' = [i_block EXCEPT ![p] = NoBlock]
    /\ p_key' = [p_key EXCEPT ![p] = NoKey]
    /\ b_cache' = [b_cache EXCEPT ![p] = FALSE]
    /\ i_ret' = [i_ret EXCEPT ![p] = 0]
    /\ UNCHANGED files

Close(p) == At(p, "ready") /\ Forget(p)

Kill(p) == "kill" \in Failures /\ pc[p] \notin {"closed", "ready"} /\ Forget(p)

(***************************************************************************)
(* The list.                                                               *)
(***************************************************************************)
\* Mutant: the walk stops one entry early.
WalkShort(list, b) ==
    CHOOSE i \in DOMAIN list :
        /\ \A j \in 2 .. i : list[j].i_startlb < b
        /\ i = Len(list) \/ list[i + 1].i_startlb >= b

\* Where the walk along p_next ends: before the first entry, other than the head,
\* that starts after the block.
WalkEnd(list, b) ==
    CHOOSE i \in DOMAIN list :
        /\ \A j \in 2 .. i : list[j].i_startlb <= b
        /\ i = Len(list) \/ list[i + 1].i_startlb > b

Hit(list, b) == list # <<>> /\ list[WalkEnd(list, b)].i_startlb = b

\* Mutant: the new entry becomes the head of the list.
SpotHead(list, b) == 0

\* How many entries the new one goes behind: the leading ones that start before it.
Spot(list, b) ==
    CHOOSE n \in 0 .. Len(list) :
        /\ \A j \in 1 .. n : list[j].i_startlb < b
        /\ n = Len(list) \/ list[n + 1].i_startlb >= b

(***************************************************************************)
(* dvdcss_title.                                                           *)
(***************************************************************************)
\* Mutant: a hit leaves the key in force as it is.
UseNothing(p, key) == UNCHANGED p_title_key

UseKey(p, key) == p_title_key' = [p_title_key EXCEPT ![p] = key]

Found(p, b) ==
    /\ UseKey(p, p_titles[p][WalkEnd(p_titles[p], b)].p_key)
    /\ i_ret' = [i_ret EXCEPT ![p] = 0]
    /\ UNCHANGED <<pc, b_cache>>

Title(p, b) ==
    /\ At(p, "ready")
    /\ i_block' = [i_block EXCEPT ![p] = b]
    /\ \/ Hit(p_titles[p], b) /\ Found(p, b)
       \/ /\ ~Hit(p_titles[p], b)
          /\ b_cache' = [b_cache EXCEPT ![p] = cached[p]]
          /\ Goto(p, IF cached[p] THEN "ReadFile" ELSE "TitleKey")
          /\ UNCHANGED <<p_title_key, i_ret>>
    /\ UNCHANGED <<files, p_titles, cached, p_key>>

\* The read returns as many characters as a key has.
HasKeyText(text) == text # NoFile /\ Len(text) >= KeyLen

\* The file is opened and read; without a key in it the call goes on to the disc.
ReadFile(p) ==
    /\ At(p, "ReadFile")
    /\ \/ /\ HasKeyText(files[i_block[p]])
          /\ p_key' = [p_key EXCEPT ![p] = SubSeq(files[i_block[p]], 1, KeyLen)]
          /\ b_cache' = [b_cache EXCEPT ![p] = FALSE]
          /\ Goto(p, "Insert")
       \/ /\ HasKeyText(files[i_block[p]]) => "open" \in Failures
          /\ Goto(p, "TitleKey")
          /\ UNCHANGED <<p_key, b_cache>>
    /\ UNCHANGED <<files, p_titles, p_title_key, cached, i_block, i_ret>>

\* dvdcss_titlekey: a key (all zero for a title that seems to have none), or a
\* failure, which leaves the key in force as it is.
TitleKey(p) ==
    /\ At(p, "TitleKey")
    /\ \/ /\ \E k \in Learnable[i_block[p]] : p_key' = [p_key EXCEPT ![p] = k]
          /\ Goto(p, IF b_cache[p] THEN "CreateFile" ELSE "Insert")
          /\ UNCHANGED i_ret
       \/ /\ "titlekey" \in Failures
          /\ i_ret' = [i_ret EXCEPT ![p] = -1]
          /\ Goto(p, "ready")
          /\ UNCHANGED p_key
    /\ UNCHANGED <<files, p_titles, p_title_key, cached, i_block, b_cache>>

\* Mutant: the file is opened with O_TRUNC.
Truncated(old) == <<>>

\* O_CREAT without O_TRUNC: what is in the file stays.
Created(old) == IF old = NoFile THEN <<>> ELSE old

CreateFile(p) ==
    /\ At(p, "CreateFile")
    /\ \/ /\ files' = [files EXCEPT ![i_block[p]] = Created(@)]
          /\ Goto(p, "WriteFile")
       \/ /\ "create" \in Failures
          /\ Goto(p, "Insert")
          /\ UNCHANGED files
    /\ UNCHANGED <<p_titles, p_title_key, cached, local, i_ret>>

\* Mutant: the text of the key is preceded by a line end.
TextShifted(key) == <<LineEnd>> \o key

Text(key) == Append(key, LineEnd)

\* Mutant: the file is opened with O_APPEND.
AppendTo(old, text, n) == old \o SubSeq(text, 1, n)

\* The first n cells of a text over what the file holds.
Overwrite(old, text, n) == SubSeq(text, 1, n) \o SubSeq(old, n + 1, Len(old))

\* One write; a short one is reported and forgotten.
WriteFile(p) ==
    /\ At(p, "WriteFile")
    /\ \E n \in 0 .. KeyLen + 1 :
          /\ n < KeyLen + 1 => "write" \in Failures
          /\ files' = [files EXCEPT ![i_block[p]] = Overwrite(@, Text(p_key[p]), n)]
    /\ Goto(p, "Insert")
    /\ UNCHANGED <<p_titles, p_title_key, cached, local, i_ret>>

Insert(p) ==
    /\ At(p, "Insert")
    /\ \/ /\ p_titles' = [p_titles EXCEPT ![p] =
                InsertAt(@, Spot(@, i_block[p]) + 1,
                         [i_startlb |-> i_block[p], p_key |-> p_key[p]])]
          /\ UseKey(p, p_key[p])
          /\ i_ret' = [i_ret EXCEPT ![p] = 0]
       \/ /\ "malloc" \in Failures
          /\ i_ret' = [i_ret EXCEPT ![p] = -1]
          /\ UNCHANGED <<p_titles, p_title_key>>
    /\ Goto(p, "ready")
    /\ UNCHANGED <<files, cached, local>>

Next ==
    \E p \in Handles :
        \/ Open(p) \/ Close(p) \/ Kill(p)
        \/ \E b \in Blocks : Title(p, b)
        \/ ReadFile(p) \/ TitleKey(p) \/ CreateFile(p) \/ WriteFile(p) \/ Insert(p)

Spec == Init /\ [][Next]_vars

(***************************************************************************)
(* Properties.                                                             *)
(***************************************************************************)
\* The list is strictly sorted by block: the walk of the next call relies on it,
\* and no block is listed twice.
ListSorted ==
    \A p \in Handles : \A i, j \in DOMAIN p_titles[p] :
        i < j => p_titles[p][i].i_startlb < p_titles[p][j].i_startlb

\* After a call that returned 0, the key in force is the one listed for its block.
KeyInForce ==
    \A p \in Handles :
        At(p, "ready") /\ i_block[p] # NoBlock /\ i_ret[p] = 0
            => /\ i_block[p] \in Listed(p)
               /\ p_title_key[p] = KeyOf(p, i_block[p])

\* Every listed key is one that dvdcss_titlekey yields for that block, although it
\* may have come from a file that other handles were writing, had half written, or
\* were killed over.
ListedKeysGenuine ==
    \A p \in Handles : \A i \in DOMAIN p_titles[p] :
        p_titles[p][i].p_key \in Learnable[p_titles[p][i].i_startlb]

\* A file that holds a key keeps it: no handle, however late it writes, makes it
\* shorter or exchanges the key.
KeptStep ==
    \A b \in Blocks :
        HasKeyText(files[b]) =>
            HasKeyText(files'[b]) /\ SubSeq(files'[b], 1, KeyLen) = SubSeq(files[b], 1, KeyLen)

FilesKept == [][KeptStep]_vars

\* To its user the handle is a table from blocks to keys.
table ==
    [p \in Handles |-> [b \in Blocks |-> IF b \in Listed(p) THEN KeyOf(p, b) ELSE NoKey]]

Table == INSTANCE KeyTable

TableSpec == Table!Spec

=============================================================================
