---------------------------- MODULE CrackTitle ----------------------------
(***************************************************************************)
(* CrackTitleKey: a title key is guessed from the blocks of the title.     *)
(*                                                                         *)
(* The blocks from i_pos on are read one after the other until the attack  *)
(* on a scrambled one succeeds, the title ends, or the loop gives up.  Each *)
(* thread cracks with a handle of its own, whose position is that of       *)
(* module BlockDevice; all of them count their successes in one file-scope *)
(* variable, i_success, which the calls reset, add to and judge the result *)
(* by.  An addition to it is a read and a write, each a step of its own.   *)
(* i_tries, which is only printed, is left out.                            *)
(*                                                                         *)
(* The attack (AttackPattern with RecoverTitleKey) is not modelled but by  *)
(* what it makes of a block, which is a property of the block.             *)
(***************************************************************************)
EXTENDS Integers

CONSTANTS
    Threads,       \* the threads that crack, each with a handle of its own
    DiscSize,      \* how many blocks the disc has
    Disc,          \* [0 .. DiscSize - 1 -> Kinds \cup Keys]: what the blocks hold
    Keys,          \* the title keys; such a block gives away its key
    Starts,        \* the blocks a title key may be asked for
    MaxLen,        \* the read limit of a call: 4718592 blocks
    MaxClean,      \* the loop gives up after so many unscrambled blocks: 2000
    MaxSuccess,    \* bounds the model: beyond it no call overlaps others
    Faults,        \* [Threads -> what may go wrong: "seek", "read", "open"]
    ZeroKey,       \* the key of five zero bytes
    Garbage        \* what an uninitialised key holds

\* A block that begins with no start code; an MPEG block that is not scrambled; a
\* scrambled one without a pattern; one with a pattern, but no key is recovered.
Kinds == {"nonmpeg", "clean", "nopattern", "norecovery"}

DiscBlocks == 0 .. DiscSize - 1

ASSUME DiscAssumption == DiscSize \in Nat /\ Disc \in [DiscBlocks -> Kinds \cup Keys]
ASSUME KeysAssumption == Keys \cap (Kinds \cup {ZeroKey, Garbage}) = {}
ASSUME StartsAssumption == Starts \subseteq Nat
ASSUME LimitsAssumption ==
    MaxLen \in Nat \ {0} /\ MaxClean \in Nat \ {0} /\ MaxSuccess \in Nat

VARIABLES
    i_success,     \* the statistics of all calls of the process
    dev,           \* [Threads -> [i_pos, off, opened]]: the handles' devices
    pc,            \* [Threads -> Labels]
    call,          \* [Threads -> Calls]: arguments and locals of the call
    i_ret,         \* [Threads -> {-1, 0, 1}]: what the last call returned
    overlapped,    \* [Threads -> BOOLEAN]: another call ran during the thread's
    astray         \* [Threads -> BOOLEAN]: a seek of the handle has failed

vars == <<i_success, dev, pc, call, i_ret, overlapped, astray>>

Labels == {"idle", "Seek", "Read", "Load", "Store", "Result"}

Calls == [start : Nat, i_pos : Nat, i_len : 0 .. MaxLen, i_reads : 0 .. MaxLen,
          i_encrypted : 0 .. MaxLen, b_stop_scanning : BOOLEAN,
          b_read_error : BOOLEAN, p_titlekey : Keys \cup {ZeroKey, Garbage},
          i_success : Nat]

TypeOK ==
    /\ i_success \in Nat
    /\ dev \in [Threads -> [i_pos : Int, off : Int, opened : BOOLEAN]]
    /\ pc \in [Threads -> Labels]
    /\ call \in [Threads -> Calls]
    /\ i_ret \in [Threads -> {-1, 0, 1}]
    /\ overlapped \in [Threads -> BOOLEAN]
    /\ astray \in [Threads -> BOOLEAN]
    /\ \A t \in Threads : call[t].i_encrypted <= call[t].i_reads + 1

\* p_titlekey is an array of dvdcss_titlekey that nothing has been written to.
NewCall(b) ==
    [start |-> b, i_pos |-> b, i_len |-> MaxLen, i_reads |-> 0, i_encrypted |-> 0,
     b_stop_scanning |-> FALSE, b_read_error |-> FALSE, p_titlekey |-> Garbage,
     i_success |-> 0]

Init ==
    /\ i_success = 0
    /\ dev = [t \in Threads |-> [i_pos |-> 0, off |-> 0, opened |-> TRUE]]
    /\ pc = [t \in Threads |-> "idle"]
    /\ call = [t \in Threads |-> NewCall(0)]
    /\ i_ret = [t \in Threads |-> -1]
    /\ overlapped = [t \in Threads |-> FALSE]
    /\ astray = [t \in Threads |-> FALSE]

At(t, l) == pc[t] = l
Goto(t, l) == pc' = [pc EXCEPT ![t] = l]
Running == {t \in Threads : ~At(t, "idle")}

\* The handle's device: a file of whole blocks.
Device(t) ==
    INSTANCE BlockDevice WITH
        BlockSize <- 1, Sizes <- {DiscSize}, Blocks <- Nat, MaxRead <- 1,
        Backends <- {"file"}, Callbacks <- {}, Torn <- FALSE, Careless <- TRUE,
        Faults <- Faults[t],
        backend <- "file", size <- DiscSize, i_pos <- dev[t].i_pos,
        off <- dev[t].off, opened <- dev[t].opened, op <- "seek", i_ret <- 0, from <- 0

Moved(t, r) == dev' = [dev EXCEPT ![t].i_pos = r.i_pos, ![t].off = r.off]

(***************************************************************************)
(* The call.                                                               *)
(***************************************************************************)
\* Mutant: the statistics go on from the last call.
KeepStatistics == UNCHANGED i_success

ResetStatistics == i_success' = 0

Start(t, b) ==
    /\ At(t, "idle")
    /\ i_success <= MaxSuccess \/ Running = {}
    /\ ResetStatistics
    /\ call' = [call EXCEPT ![t] = NewCall(b)]
    /\ overlapped' = [s \in Threads |->
            IF s = t THEN Running # {} ELSE overlapped[s] \/ s \in Running]
    /\ Goto(t, "Seek")
    /\ UNCHANGED <<dev, i_ret, astray>>

\* A seek that fails is reported, and the loop goes on.
Seek(t) ==
    /\ At(t, "Seek")
    /\ \E r \in Device(t)!pf_seek(dev[t].i_pos, dev[t].off, call[t].i_pos) :
          /\ Moved(t, r)
          /\ astray' = [astray EXCEPT ![t] = @ \/ r.i_ret # call[t].i_pos]
    /\ Goto(t, "Read")
    /\ UNCHANGED <<i_success, call, i_ret, overlapped>>

GoesOn(c) == ~c.b_stop_scanning /\ c.i_len > 0

\* Mutant: scrambled blocks do not count.
GivesUpAnyway(c) == c.i_reads >= MaxClean

GivesUp(c) == c.i_reads >= MaxClean /\ c.i_encrypted = 0

\* Mutant: blocks that are read do not count.
AdvancedUncounted(c) == [c EXCEPT !.i_pos = @ + 1, !.i_len = @ - 1]

Advanced(c) == [c EXCEPT !.i_pos = @ + 1, !.i_len = @ - 1, !.i_reads = @ + 1]

\* The block has been dealt with: the loop goes on behind it, or ends.
NextBlock(t, c) ==
    /\ call' = [call EXCEPT ![t] = Advanced(c)]
    /\ Goto(t, IF GoesOn(Advanced(c)) /\ ~GivesUp(Advanced(c)) THEN "Seek" ELSE "Result")

\* Mutant: every read error resets the drive.
NeverNoted(c) == c

ErrorNoted(c) == [c EXCEPT !.b_read_error = TRUE]

\* dvdcss_close_device, dvdcss_open_device, and the test of the loop.
ResetDrive(t, r) ==
    /\ ~call[t].b_read_error
    /\ \E ok \in BOOLEAN :
          /\ "open" \notin Faults[t] => ok
          /\ dev' = [dev EXCEPT ![t] = [i_pos |-> r.i_pos, off |-> 0, opened |-> ok]]
    /\ call' = [call EXCEPT ![t] = ErrorNoted(@)]
    /\ Goto(t, IF GoesOn(call[t]) THEN "Seek" ELSE "Result")

\* Mutant: every block is taken for one of the stream.
AnyBlock(block) == TRUE

IsMpeg(block) == block # "nonmpeg"

\* What is done with a block: nothing, if it is not scrambled; the attack fails at
\* once without a pattern; otherwise it sets the key and counts its success.
Attack(t, block) ==
    LET c == [call[t] EXCEPT !.i_encrypted = @ + 1] IN
    \/ block \notin Keys \cup {"nopattern", "norecovery"} /\ NextBlock(t, call[t])
    \/ block = "nopattern" /\ NextBlock(t, c)
    \/ /\ block \in Keys \cup {"norecovery"}
       /\ call' = [call EXCEPT ![t] =
             [c EXCEPT !.p_titlekey = IF block \in Keys THEN block ELSE ZeroKey]]
       /\ Goto(t, "Load")

\* dvdcss_read of one block; i_pos is unknown after an error.
Read(t) ==
    /\ At(t, "Read")
    /\ \E r \in Device(t)!pf_read(1) :
          \/ r.i_ret = 0 /\ Goto(t, "Result") /\ Moved(t, r) /\ UNCHANGED call
          \/ r.i_ret < 0 /\ ResetDrive(t, r)
          \/ /\ r.i_ret < 0
             /\ call[t].b_read_error
             /\ Goto(t, "Result") /\ Moved(t, r) /\ UNCHANGED call
          \/ /\ r.i_ret > 0
             /\ ~IsMpeg(Disc[dev[t].off])
             /\ Goto(t, "Result") /\ Moved(t, r) /\ UNCHANGED call
          \/ /\ r.i_ret > 0
             /\ IsMpeg(Disc[dev[t].off])
             /\ Attack(t, Disc[dev[t].off])
             /\ Moved(t, r)
    /\ UNCHANGED <<i_success, i_ret, overlapped, astray>>

\* i_success += ( res >= 0 ), whose two accesses other threads may come between.
Load(t) ==
    /\ At(t, "Load")
    /\ call' = [call EXCEPT ![t].i_success = i_success]
    /\ Goto(t, "Store")
    /\ UNCHANGED <<i_success, dev, i_ret, overlapped, astray>>

Store(t) ==
    LET res == call[t].p_titlekey # ZeroKey IN
    /\ At(t, "Store")
    /\ i_success' = call[t].i_success + IF res THEN 1 ELSE 0
    /\ NextBlock(t, [call[t] EXCEPT !.b_stop_scanning = res])
    /\ UNCHANGED <<dev, i_ret, overlapped, astray>>

Result(t) ==
    /\ At(t, "Result")
    /\ \/ /\ i_success > 0
          /\ i_ret' = [i_ret EXCEPT ![t] = 1]
          /\ UNCHANGED call
       \/ /\ ~(i_success > 0)
          /\ i_ret' = [i_ret EXCEPT ![t] =
                IF call[t].i_encrypted = 0 /\ call[t].i_reads > 0 THEN 0 ELSE -1]
          /\ call' = [call EXCEPT ![t].p_titlekey = ZeroKey]
    /\ Goto(t, "idle")
    /\ UNCHANGED <<i_success, dev, overlapped, astray>>

Proceeds(t) == Seek(t) \/ Read(t) \/ Load(t) \/ Store(t) \/ Result(t)

Next == \E t \in Threads : (\E b \in Starts : Start(t, b)) \/ Proceeds(t)

Spec == Init /\ [][Next]_vars

FairSpec == Spec /\ \A t \in Threads : WF_vars(Proceeds(t))

(***************************************************************************)
(* Properties.  They are about calls that no other call has overlapped:    *)
(* i_success is anyone's otherwise.                                        *)
(***************************************************************************)
\* The blocks of the title from b on.
Rest(b) == {c \in b .. DiscSize - 1 : \A d \in b .. c : Disc[d] # "nonmpeg"}

\* The result of a call that had i_success for itself, and a device that was
\* where the seeks had put it.
Returned(t) ==
    /\ At(t, "idle")
    /\ call[t].p_titlekey # Garbage
    /\ ~overlapped[t]
    /\ ~astray[t]

\* "i_success > 0 /* b_stop_scanning */": the count by which a call judges its
\* result says that the call itself has recovered a key, although the calls before
\* it have counted in it, unless another call ran at the same time.
SuccessIsOwn ==
    \A t \in Threads :
        At(t, "Result") /\ ~overlapped[t]
            => (i_success > 0 <=> call[t].b_stop_scanning)

\* A key that is handed over was recovered from a block of the title asked for,
\* also after a read error and a reset of the drive.
KeyOfTitle ==
    \A t \in Threads :
        Returned(t) /\ i_ret[t] = 1
            => \E b \in Rest(call[t].start) : Disc[b] \in Keys /\ Disc[b] = call[t].p_titlekey

\* A title is reported to be unencrypted, which dvdcss_title saves for good, only
\* after blocks of it have been seen and none was scrambled; and there was no more
\* of it, or a limit was reached, or the drive did not read on.
UnencryptedSeen ==
    \A t \in Threads :
        LET c == call[t] IN
        Returned(t) /\ i_ret[t] = 0
            => /\ c.i_reads > 0
               /\ \A b \in c.start .. c.start + c.i_reads - 1 : Disc[b] = "clean"
               /\ \/ c.start + c.i_reads \notin Rest(c.start)
                  \/ c.i_reads \in {MaxClean, MaxLen}
                  \/ c.b_read_error

\* The search fails only if no block within the limit gives the key away, or the
\* drive has failed to read.
NothingMissed ==
    \A t \in Threads :
        Returned(t) /\ i_ret[t] = -1 /\ ~call[t].b_read_error
            => \A b \in Rest(call[t].start) :
                  b < call[t].start + MaxLen => Disc[b] \notin Keys

\* Every call returns, whatever the drive fails to read and however often.
CrackReturns == \A t \in Threads : ~At(t, "idle") ~> At(t, "idle")

\* How many steps a call has before it at most: those for the block it is at, five for
\* each block it may still read, and five for the one read error it goes on after.
StepsForBlock == [idle |-> 0, Result |-> 1, Store |-> 2, Load |-> 3, Read |-> 4, Seek |-> 5]

StepsLeft(t) ==
    StepsForBlock[pc[t]]
    + IF pc[t] \in {"idle", "Result"} THEN 0
      ELSE 5 * (call[t].i_len + IF call[t].b_read_error THEN 0 ELSE 1)

\* Every step of a crack brings it nearer to its end, whatever the drive makes of its
\* seeks and reads and whatever the other threads count.
Descends == \A t \in Threads : Proceeds(t) => StepsLeft(t)' \in 0 .. StepsLeft(t) - 1

CrackDescends == [][Descends]_vars

=============================================================================
