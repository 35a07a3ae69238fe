---------------------------- MODULE BlockDevice ----------------------------
(***************************************************************************)
(* device.c: the block position of a handle, over a file descriptor (the   *)
(* libc functions) or over the application's callbacks (the stream         *)
(* functions).                                                             *)
(*                                                                         *)
(* dvdcss->i_pos remembers the block the device is at, so that a seek to   *)
(* it needs no system call; -1 stands for a position that is not known.    *)
(* The device has an offset of its own, in bytes.  A function of device.c  *)
(* is modelled by the set of its outcomes: i_pos, the offset and the value *)
(* it returns.                                                             *)
(***************************************************************************)
EXTENDS Integers

CONSTANTS
    BlockSize,     \* DVDCSS_BLOCK_SIZE, in bytes
    Sizes,         \* how many bytes the devices have that are read
    Blocks,        \* the blocks a caller seeks to
    MaxRead,       \* the largest number of blocks a caller asks for at once
    Backends,      \* the devices: "file", a descriptor; "stream"; "slow", a stream
                   \* that delivers less than it holds
    Callbacks,     \* the streams' callbacks: a subset of {"seek", "read", "readv"}
    Faults,        \* what may go wrong: "seek", "read", "open"
    Torn,          \* whether dvdcss_readv is used where it may end inside a block
    Careless       \* whether the caller reads on after a call that has failed,
                   \* as dvdcss_titlekey and CrackTitleKey do after a seek

ASSUME BlockSizeAssumption == BlockSize \in Nat \ {0}
ASSUME SizesAssumption == Sizes \subseteq Nat
ASSUME BlocksAssumption == Blocks \subseteq Nat
ASSUME MaxReadAssumption == MaxRead \in Nat
ASSUME BackendsAssumption == Backends \subseteq {"file", "stream", "slow"}
ASSUME FlagsAssumption == Torn \in BOOLEAN /\ Careless \in BOOLEAN

VARIABLES
    backend, size, \* the device, which stays what it is
    i_pos,         \* dvdcss->i_pos
    off,           \* the offset of the device
    opened,        \* whether i_fd is an open descriptor
    op, i_ret,     \* the last call and what it returned
    from           \* the offset that the blocks of the last read came from

device == <<backend, size>>
vars == <<device, i_pos, off, opened, op, i_ret, from>>

Init ==
    /\ backend \in Backends
    /\ size \in Sizes
    /\ i_pos = 0
    /\ off = 0
    /\ opened = TRUE
    /\ op = "open"
    /\ i_ret = 0
    /\ from = 0

Result(pos, o, ret) == [i_pos |-> pos, off |-> o, i_ret |-> ret]

\* Mutant: a failure leaves i_pos as it is.
KeepsPos(pos) == pos

\* Every failure of the device makes the position unknown.
AfterFailure(pos) == -1

(***************************************************************************)
(* Seek commands, from position pos and offset o.                          *)
(***************************************************************************)
libc_seek(pos, o, b) ==
    IF pos = b THEN {Result(b, o, b)}
    ELSE (IF opened /\ b >= 0 THEN {Result(b, b * BlockSize, b)} ELSE {})
         \cup (IF "seek" \in Faults \/ ~opened \/ b < 0
               THEN {Result(AfterFailure(pos), o, -1)} ELSE {})

\* A stream that cannot seek fails before it looks at anything.
stream_seek(pos, o, b) ==
    IF "seek" \notin Callbacks THEN {Result(pos, o, -1)} ELSE libc_seek(pos, o, b)

pf_seek(pos, o, b) ==
    IF backend = "file" THEN libc_seek(pos, o, b) ELSE stream_seek(pos, o, b)

(***************************************************************************)
(* Read commands.  A read that fails may have moved the offset.            *)
(***************************************************************************)
Available(n) ==
    IF size <= off THEN 0
    ELSE IF size - off < n * BlockSize THEN size - off ELSE n * BlockSize

Failed(n) == {Result(AfterFailure(i_pos), off + j, -1) : j \in 0 .. Available(n)}

\* All that was asked for has been read.
Complete(n) == {Result(i_pos + n, off + n * BlockSize, n)}

\* Mutant: the seek after a partial read starts from the first block.
FromZero(got) == got \div BlockSize

\* The block that follows the last whole one of a partial read.
Behind(got) == i_pos + got \div BlockSize

\* The device is moved to block b: i_pos is made unknown first, so that no seek
\* is spared.
Partial(got, b) ==
    {Result(r.i_pos, r.off, IF r.i_ret < 0 THEN r.i_ret ELSE got \div BlockSize) :
        r \in pf_seek(-1, off + got, b)}

\* read() is called until nothing more comes: only the end of the device stops it.
libc_read(n) ==
    (IF "read" \in Faults \/ ~opened THEN Failed(n) ELSE {})
    \cup (IF ~opened THEN {}
          ELSE IF Available(n) = n * BlockSize THEN Complete(n)
          ELSE Partial(Available(n), Behind(Available(n))))

\* What the device delivers at one go.
Delivered(n) == IF backend = "slow" THEN 0 .. Available(n) ELSE {Available(n)}

\* After a partial read the stream is moved to the block whose number is the
\* count of the blocks that were read.
stream_read(n) ==
    IF "read" \notin Callbacks THEN {Result(i_pos, off, -1)}
    ELSE (IF "read" \in Faults THEN Failed(n) ELSE {})
         \cup UNION {IF got = n * BlockSize THEN Complete(n)
                     ELSE Partial(got, got \div BlockSize) :
                        got \in Delivered(n)}

pf_read(n) == IF backend = "file" THEN libc_read(n) ELSE stream_read(n)

\* Both vectored reads round down and leave the offset where it is.
Scattered(n) ==
    (IF "read" \in Faults \/ ~opened THEN Failed(n) ELSE {})
    \cup (IF ~opened THEN {}
          ELSE {Result(Behind(got), off + got, got \div BlockSize) : got \in Delivered(n)})

pf_readv(n) ==
    IF backend = "file" \/ "readv" \in Callbacks THEN Scattered(n)
                                                  ELSE {Result(i_pos, off, -1)}

(***************************************************************************)
(* The calls.                                                              *)
(***************************************************************************)
Returns(call, r) ==
    /\ i_pos' = r.i_pos
    /\ off' = r.off
    /\ i_ret' = r.i_ret
    /\ op' = call
    /\ UNCHANGED opened

Seek ==
    /\ \E b \in Blocks : \E r \in pf_seek(i_pos, off, b) : Returns("seek", r)
    /\ UNCHANGED <<device, from>>

ReadsFrom(outcomes) ==
    /\ Careless \/ i_ret >= 0
    /\ \E r \in outcomes :
          /\ Returns("read", r)
          /\ from' = IF r.i_ret > 0 THEN off ELSE from
    /\ UNCHANGED device

Read == \E n \in 0 .. MaxRead : ReadsFrom(pf_read(n))

\* No read ends inside a block: the device delivers what it has, whole blocks.
WholeReads == backend # "slow" /\ size % BlockSize = 0

Readv == (Torn \/ WholeReads) /\ \E n \in 0 .. MaxRead : ReadsFrom(pf_readv(n))

\* CrackTitleKey resets the drive after a read that has failed.
Reopens == op = "read" /\ i_ret < 0

\* dvdcss_close_device, dvdcss_open_device: i_pos is not touched.
Reopen ==
    /\ backend = "file"
    /\ Reopens
    /\ opened' \in BOOLEAN
    /\ "open" \notin Faults => opened'
    /\ off' = 0
    /\ op' = "open"
    /\ UNCHANGED <<device, i_pos, i_ret, from>>

Next == Seek \/ Read \/ Readv \/ Reopen

Spec == Init /\ [][Next]_vars

(***************************************************************************)
(* Properties.                                                             *)
(***************************************************************************)
\* A position that is believed to be known is where the device is: the shortcut
\* of the next seek, "We are already in position", is right.
PosAgrees == i_pos # -1 => off = i_pos * BlockSize

\* To its user the handle is a cursor over the blocks: what a read delivers starts
\* where the previous call has left the cursor, after partial reads too.
cursor == IF i_pos = -1 \/ off = i_pos * BlockSize THEN i_pos ELSE -2
start == IF from % BlockSize = 0 THEN from \div BlockSize ELSE -2

Cursor == INSTANCE BlockCursor

CursorSpec == Cursor!Spec

\* The same of a handle on a descriptor.
FileCursor ==
    /\ backend = "file" => Cursor!Init
    /\ [][backend = "file" => Cursor!Next]_<<cursor, i_ret, start>>

=============================================================================
