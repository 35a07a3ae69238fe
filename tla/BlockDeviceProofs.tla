------------------------- MODULE BlockDeviceProofs -------------------------
(***************************************************************************)
(* For a caller that seeks again after a failure and uses dvdcss_readv     *)
(* only where no read ends inside a block, on devices of any size, with    *)
(* blocks of any size: dvdcss->i_pos agrees with the device's offset, and  *)
(* over a file descriptor the handle is the cursor of module BlockCursor.  *)
(***************************************************************************)
EXTENDS BlockDevice, TLAPS

\* What every outcome of a call keeps true of the position and the offset.
Outcome == [i_pos : Int, off : Nat, i_ret : Int]

Agrees(pos, o) ==
    /\ pos \in Int /\ pos >= -1
    /\ o \in Nat
    /\ pos # -1 => o = pos * BlockSize

Good(r) ==
    /\ r \in Outcome
    /\ Agrees(r.i_pos, r.off)
    /\ r.i_ret >= -1
    /\ r.i_ret >= 0 => r.i_pos >= 0

\* A caller that reads only after a success reads from a known position; a device
\* is reopened only when the position is not known.
Inv ==
    /\ size \in Nat
    /\ Agrees(i_pos, off)
    /\ opened \in BOOLEAN
    /\ i_ret \in Int
    /\ i_ret >= 0 => i_pos >= 0
    /\ backend = "file" /\ Reopens => i_pos = -1
    /\ from \in Nat

\* The fields of an outcome.
LEMMA ResultFields ==
    ASSUME NEW pos \in Int, NEW o \in Nat, NEW ret \in Int
    PROVE  /\ Result(pos, o, ret) \in Outcome
           /\ Result(pos, o, ret).i_pos = pos
           /\ Result(pos, o, ret).off = o
           /\ Result(pos, o, ret).i_ret = ret
BY DEF Result, Outcome

\* A seek lands on the block it returns, or leaves the position unknown or as it
\* was.
LEMMA SeekOutcome ==
    ASSUME NEW pos, NEW o, Agrees(pos, o), NEW b \in Int, opened \in BOOLEAN,
           NEW r \in pf_seek(pos, o, b)
    PROVE  /\ Good(r)
           /\ \/ r.i_ret = b /\ r.i_pos = b
              \/ r.i_ret = -1 /\ r.i_pos \in {pos, -1}
<1>1. pos \in Int /\ o \in Nat
  BY DEF Agrees
<1>2. CASE r = Result(b, o, b) /\ pos = b
  <2>1. r \in Outcome /\ r.i_pos = b /\ r.off = o /\ r.i_ret = b
    BY <1>1, <1>2, ResultFields
  <2> QED
    BY <2>1, <1>2 DEF Good, Agrees
<1>3. CASE r = Result(b, b * BlockSize, b) /\ b >= 0
  <2>1. b * BlockSize \in Nat
    BY <1>3, BlockSizeAssumption
  <2>2. r \in Outcome /\ r.i_pos = b /\ r.off = b * BlockSize /\ r.i_ret = b
    BY <2>1, <1>3, ResultFields
  <2> QED
    BY <2>1, <2>2, <1>3 DEF Good, Agrees
<1>4. CASE r \in {Result(-1, o, -1), Result(pos, o, -1)}
  <2>1. r \in Outcome /\ r.i_pos \in {-1, pos} /\ r.off = o /\ r.i_ret = -1
    BY <1>1, <1>4, ResultFields
  <2> QED
    BY <2>1 DEF Good, Agrees
<1>5. \/ r = Result(b, o, b) /\ pos = b
      \/ r = Result(b, b * BlockSize, b) /\ b >= 0
      \/ r \in {Result(-1, o, -1), Result(pos, o, -1)}
  <2>1. r \in libc_seek(pos, o, b) \/ r = Result(pos, o, -1)
    BY DEF pf_seek, stream_seek
  <2> QED
    BY <2>1 DEF libc_seek, AfterFailure
<1> QED
  BY <1>2, <1>3, <1>4, <1>5

\* What a read may find is a number of bytes, no more than were asked for.
LEMMA AvailableBytes ==
    ASSUME NEW n \in Nat, off \in Nat, size \in Nat
    PROVE  Available(n) \in Nat /\ Available(n) <= n * BlockSize
<1>1. n * BlockSize \in Nat
  BY BlockSizeAssumption
<1> QED
  BY <1>1 DEF Available

\* Whole blocks are counted by the division.
LEMMA WholeBlocks ==
    ASSUME NEW n \in Nat, NEW got \in Nat, got <= n * BlockSize
    PROVE  /\ got \div BlockSize \in 0 .. n
           /\ (n * BlockSize) \div BlockSize = n
           /\ (n * BlockSize) % BlockSize = 0
<1> DEFINE q == got \div BlockSize
<1>1. q \in Nat /\ q * BlockSize <= got
  BY BlockSizeAssumption
<1>2. q <= n
  <2>1. SUFFICES ASSUME q > n PROVE FALSE
    BY <1>1
  <2>2. q >= n + 1
    BY <2>1, <1>1
  <2>3. q * BlockSize >= (n + 1) * BlockSize
    BY <2>2, <1>1, BlockSizeAssumption
  <2>4. (n + 1) * BlockSize = n * BlockSize + BlockSize
    BY BlockSizeAssumption
  <2>5. n * BlockSize \in Nat /\ q * BlockSize \in Nat
    BY <1>1, BlockSizeAssumption
  <2> QED
    BY <1>1, <2>3, <2>4, <2>5, BlockSizeAssumption
<1>3. (n * BlockSize) \div BlockSize = n /\ (n * BlockSize) % BlockSize = 0
  BY BlockSizeAssumption
<1> QED
  BY <1>1, <1>2, <1>3

\* A read that fails leaves the position unknown or as it was.
LEMMA FailedOutcome ==
    ASSUME Agrees(i_pos, off), size \in Nat, NEW n \in Nat, NEW r,
           r \in Failed(n) \/ r = Result(i_pos, off, -1)
    PROVE  /\ Good(r) /\ r.i_ret = -1 /\ r.i_pos \in {i_pos, -1}
           /\ r \in Failed(n) => r.i_pos = -1
<1>1. i_pos \in Int /\ off \in Nat
  BY DEF Agrees
<1>2. CASE r \notin Failed(n)
  BY <1>1, <1>2, ResultFields DEF Good, Agrees
<1>3. CASE r \in Failed(n)
  <2>1. PICK j \in 0 .. Available(n) : r = Result(-1, off + j, -1)
    BY <1>3 DEF Failed, AfterFailure
  <2>2. off + j \in Nat
    BY <1>1, <2>1, AvailableBytes
  <2>3. r \in Outcome /\ r.i_pos = -1 /\ r.i_ret = -1
    BY <2>1, <2>2, ResultFields
  <2> QED
    BY <2>3 DEF Good, Agrees, Outcome
<1> QED
  BY <1>2, <1>3

\* A complete read moves position and offset by the same number of blocks.
LEMMA CompleteOutcome ==
    ASSUME Agrees(i_pos, off), i_pos >= 0, NEW n \in Nat, NEW r \in Complete(n)
    PROVE  Good(r) /\ r.i_ret = n /\ r.i_pos = i_pos + n
<1>1. i_pos \in Int /\ off \in Nat /\ off = i_pos * BlockSize
  BY DEF Agrees
<1>2. off + n * BlockSize = (i_pos + n) * BlockSize /\ off + n * BlockSize \in Nat
  BY <1>1, BlockSizeAssumption
<1>3. r = Result(i_pos + n, off + n * BlockSize, n)
  BY DEF Complete
<1>4. r \in Outcome /\ r.i_pos = i_pos + n /\ r.off = off + n * BlockSize /\ r.i_ret = n
  BY <1>1, <1>2, <1>3, ResultFields
<1> QED
  BY <1>1, <1>2, <1>4 DEF Good, Agrees

\* A partial read returns the whole blocks it got, with the device at block b, or
\* fails with the position unknown.
LEMMA PartialOutcome ==
    ASSUME Inv, NEW n \in Nat, NEW got \in Nat, got <= n * BlockSize,
           NEW b \in Nat, NEW r \in Partial(got, b)
    PROVE  /\ Good(r)
           /\ \/ r.i_ret = got \div BlockSize /\ r.i_pos = b
              \/ r.i_ret = -1 /\ r.i_pos = -1
<1>1. PICK s \in pf_seek(-1, off + got, b) :
        r = Result(s.i_pos, s.off, IF s.i_ret < 0 THEN s.i_ret ELSE got \div BlockSize)
  BY DEF Partial
<1>2. Agrees(-1, off + got) /\ opened \in BOOLEAN
  BY DEF Inv, Agrees
<1>3. /\ Good(s)
      /\ \/ s.i_ret = b /\ s.i_pos = b
         \/ s.i_ret = -1 /\ s.i_pos = -1
  BY <1>1, <1>2, SeekOutcome
<1>4. got \div BlockSize \in Nat
  BY WholeBlocks
<1>5. CASE s.i_ret = b /\ s.i_pos = b
  <2>1. r = Result(b, s.off, got \div BlockSize)
    BY <1>1, <1>5
  <2>2. s.off \in Nat /\ Agrees(b, s.off)
    BY <1>3, <1>5 DEF Good, Outcome
  <2>3. r \in Outcome /\ r.i_pos = b /\ r.off = s.off /\ r.i_ret = got \div BlockSize
    BY <2>1, <2>2, <1>4, ResultFields, SMTT(20)
  <2> QED
    BY <2>2, <2>3, <1>4 DEF Good
<1>6. CASE s.i_ret = -1 /\ s.i_pos = -1
  <2>1. r = Result(-1, s.off, -1)
    BY <1>1, <1>6
  <2>2. s.off \in Nat
    BY <1>3 DEF Good, Outcome
  <2>3. r \in Outcome /\ r.i_pos = -1 /\ r.i_ret = -1
    BY <2>1, <2>2, ResultFields
  <2> QED
    BY <2>3 DEF Good, Agrees, Outcome
<1> QED
  BY <1>3, <1>5, <1>6

\* libc_read advances the position by the blocks it returns, or fails.
LEMMA LibcReadOutcome ==
    ASSUME Inv, i_ret >= 0, NEW n \in Nat, NEW r \in libc_read(n)
    PROVE  /\ Good(r)
           /\ \/ r.i_ret \in 0 .. n /\ r.i_pos = i_pos + r.i_ret
              \/ r.i_ret = -1 /\ r.i_pos = -1
<1>1. Agrees(i_pos, off) /\ i_pos >= 0 /\ i_pos \in Nat /\ off \in Nat /\ size \in Nat
  BY DEF Inv, Agrees
<1>2. CASE r \in Failed(n)
  BY <1>1, <1>2, FailedOutcome
<1>3. CASE r \in Complete(n)
  <2>1. Good(r) /\ r.i_ret = n /\ r.i_pos = i_pos + n
    BY <1>1, <1>3, CompleteOutcome
  <2> QED
    BY <2>1
<1>4. CASE r \in Partial(Available(n), Behind(Available(n)))
  <2> DEFINE got == Available(n)
  <2>1. got \in Nat /\ got <= n * BlockSize
    BY <1>1, AvailableBytes
  <2>2. got \div BlockSize \in 0 .. n
    BY <2>1, WholeBlocks
  <2>3. Behind(got) = i_pos + got \div BlockSize /\ Behind(got) \in Nat
    BY <1>1, <2>2 DEF Behind
  <2>4. /\ Good(r)
        /\ \/ r.i_ret = got \div BlockSize /\ r.i_pos = Behind(got)
           \/ r.i_ret = -1 /\ r.i_pos = -1
    BY <1>4, <2>1, <2>3, PartialOutcome
  <2> QED
    BY <2>2, <2>3, <2>4
<1> QED
  BY <1>2, <1>3, <1>4 DEF libc_read

\* stream_read keeps the position and the offset together, whatever it delivers.
LEMMA StreamReadOutcome ==
    ASSUME Inv, i_ret >= 0, NEW n \in Nat, NEW r \in stream_read(n)
    PROVE  Good(r)
<1>1. Agrees(i_pos, off) /\ i_pos >= 0 /\ off \in Nat /\ size \in Nat
  BY DEF Inv, Agrees
<1>2. CASE r \in Failed(n) \/ r = Result(i_pos, off, -1)
  BY <1>1, <1>2, FailedOutcome
<1>3. ASSUME NEW got \in Delivered(n),
             r \in IF got = n * BlockSize THEN Complete(n)
                                         ELSE Partial(got, got \div BlockSize)
      PROVE  Good(r)
  <2>1. got \in Nat /\ got <= n * BlockSize
    <3>1. Available(n) \in Nat /\ Available(n) <= n * BlockSize
      BY <1>1, AvailableBytes
    <3>2. n * BlockSize \in Nat
      BY BlockSizeAssumption
    <3>3. got \in 0 .. Available(n)
      BY <1>3, <3>1 DEF Delivered
    <3> QED
      BY <3>1, <3>2, <3>3
  <2>2. got \div BlockSize \in Nat
    BY <2>1, WholeBlocks
  <2>3. CASE r \in Complete(n)
    BY <1>1, <2>3, CompleteOutcome
  <2>4. CASE r \in Partial(got, got \div BlockSize)
    BY <2>1, <2>2, <2>4, PartialOutcome
  <2> QED
    BY <1>3, <2>3, <2>4
<1>4. \/ r \in Failed(n) \/ r = Result(i_pos, off, -1)
      \/ \E got \in Delivered(n) :
            r \in IF got = n * BlockSize THEN Complete(n)
                                        ELSE Partial(got, got \div BlockSize)
  BY DEF stream_read
<1> QED
  BY <1>2, <1>3, <1>4

\* On a device of whole blocks, what is left behind a whole block is whole blocks.
LEMMA WholeAvailable ==
    ASSUME NEW n \in Nat, size \in Nat, size % BlockSize = 0,
           NEW k \in Nat, off = k * BlockSize
    PROVE  Available(n) % BlockSize = 0
<1>1. (n * BlockSize) % BlockSize = 0 /\ 0 % BlockSize = 0
  BY BlockSizeAssumption
<1>2. (size - off) % BlockSize = 0
  <2> DEFINE m == size \div BlockSize
  <2>1. m \in Nat /\ size = m * BlockSize
    BY BlockSizeAssumption
  <2> HIDE DEF m
  <2>2. size - off = (m - k) * BlockSize /\ m - k \in Int
    BY <2>1, BlockSizeAssumption
  <2>3. \A d \in Int : (d * BlockSize) % BlockSize = 0
    BY BlockSizeAssumption
  <2> QED
    BY <2>2, <2>3
<1> QED
  BY <1>1, <1>2 DEF Available

\* A vectored read that ends at a block's end advances position and offset alike.
LEMMA ReadvOutcome ==
    ASSUME Inv, i_ret >= 0, WholeReads, NEW n \in Nat, NEW r \in pf_readv(n)
    PROVE  /\ Good(r)
           /\ \/ r.i_ret \in 0 .. n /\ r.i_pos = i_pos + r.i_ret
              \/ r.i_ret = -1 /\ r.i_pos \in {i_pos, -1}
           /\ backend = "file" /\ r.i_ret = -1 => r.i_pos = -1
<1>1. /\ Agrees(i_pos, off) /\ i_pos \in Nat /\ size \in Nat
      /\ off \in Nat /\ off = i_pos * BlockSize
  BY DEF Inv, Agrees
<1>2. CASE r \in Failed(n) \/ (backend # "file" /\ r = Result(i_pos, off, -1))
  BY <1>1, <1>2, FailedOutcome
<1>3. CASE r = Result(Behind(Available(n)), off + Available(n), Available(n) \div BlockSize)
  <2> DEFINE got == Available(n)
             q == got \div BlockSize
  <2>1. got \in Nat /\ got <= n * BlockSize
    BY <1>1, AvailableBytes
  <2>2. q \in 0 .. n
    BY <2>1, WholeBlocks
  <2>3. got = q * BlockSize
    <3>1. got % BlockSize = 0
      BY <1>1, WholeAvailable DEF WholeReads
    <3> QED
      BY <2>1, <3>1, BlockSizeAssumption
  <2> HIDE DEF got, q
  <2>4. off + got = (i_pos + q) * BlockSize
    BY <1>1, <2>2, <2>3, BlockSizeAssumption
  <2>5. r = Result(i_pos + q, off + got, q)
    BY <1>3 DEF Behind, got, q
  <2>6. r \in Outcome /\ r.i_pos = i_pos + q /\ r.off = off + got /\ r.i_ret = q
    <3>1. i_pos + q \in Int /\ off + got \in Nat /\ q \in Int
      BY <1>1, <2>1, <2>2
    <3> QED
      BY <3>1, <2>5, ResultFields
  <2> QED
    BY <1>1, <2>1, <2>2, <2>4, <2>6 DEF Good, Agrees
<1>4. \/ r \in Failed(n) \/ (backend # "file" /\ r = Result(i_pos, off, -1))
      \/ \E got \in Delivered(n) :
            r = Result(Behind(got), off + got, got \div BlockSize)
  BY DEF pf_readv, Scattered
<1>5. Delivered(n) = {Available(n)}
  BY DEF WholeReads, Delivered
<1> QED
  BY <1>2, <1>3, <1>4, <1>5

\* One step of such a caller.
LEMMA InvStep ==
    ASSUME ~Careless, ~Torn, Inv, [Next]_vars
    PROVE  Inv'
<1>1. CASE Seek
  <2>1. PICK b \in Blocks : \E r \in pf_seek(i_pos, off, b) : Returns("seek", r)
    BY <1>1 DEF Seek
  <2>2. PICK r \in pf_seek(i_pos, off, b) : Returns("seek", r)
    BY <2>1
  <2>3. Good(r)
    BY <2>1, <2>2, SeekOutcome, BlocksAssumption DEF Inv
  <2>4. op' = "seek" /\ from' = from /\ UNCHANGED device
    BY <1>1, <2>2 DEF Seek, Returns
  <2> QED
    BY <2>2, <2>3, <2>4 DEF device, Returns, Inv, Good, Outcome, Agrees, Reopens
<1>2. ASSUME NEW n \in Nat, i_ret >= 0, NEW r, Good(r),
             backend = "file" /\ r.i_ret < 0 => r.i_pos = -1,
             Returns("read", r), UNCHANGED device,
             from' = IF r.i_ret > 0 THEN off ELSE from
      PROVE  Inv'
  <2>1. off \in Nat /\ from \in Nat
    BY DEF Inv, Agrees
  <2> QED
    BY <1>2, <2>1 DEF Returns, Inv, Good, Outcome, Agrees, Reopens, device
<1>3. CASE Read
  <2>1. PICK n \in 0 .. MaxRead : ReadsFrom(pf_read(n))
    BY <1>3 DEF Read
  <2>2. PICK r \in pf_read(n) :
          Returns("read", r) /\ from' = IF r.i_ret > 0 THEN off ELSE from
    BY <2>1 DEF ReadsFrom
  <2>3. i_ret >= 0 /\ n \in Nat /\ UNCHANGED device
    BY <2>1, MaxReadAssumption DEF ReadsFrom
  <2>4. Good(r)
    BY <2>2, <2>3, LibcReadOutcome, StreamReadOutcome DEF pf_read
  <2>5. backend = "file" /\ r.i_ret < 0 => r.i_pos = -1
    BY <2>2, <2>3, LibcReadOutcome DEF pf_read
  <2> QED
    BY <1>2, <2>2, <2>3, <2>4, <2>5
<1>4. CASE Readv
  <2>1. PICK n \in 0 .. MaxRead : WholeReads /\ ReadsFrom(pf_readv(n))
    BY <1>4 DEF Readv
  <2>2. PICK r \in pf_readv(n) :
          Returns("read", r) /\ from' = IF r.i_ret > 0 THEN off ELSE from
    BY <2>1 DEF ReadsFrom
  <2>3. i_ret >= 0 /\ n \in Nat /\ UNCHANGED device
    BY <2>1, MaxReadAssumption DEF ReadsFrom
  <2>4. Good(r) /\ (backend = "file" /\ r.i_ret < 0 => r.i_pos = -1)
    BY <2>1, <2>2, <2>3, ReadvOutcome DEF Good
  <2> QED
    BY <1>2, <2>2, <2>3, <2>4
<1>5. CASE Reopen
  <2>1. /\ i_pos' = i_pos /\ i_ret' = i_ret /\ off' = 0 /\ op' = "open"
        /\ opened' \in BOOLEAN /\ from' = from /\ size' = size
    BY <1>5 DEF Reopen, device
  <2>2. i_ret < 0 /\ i_pos = -1
    BY <1>5 DEF Reopen, Reopens, Inv
  <2> QED
    BY <2>1, <2>2 DEF Inv, Agrees, Reopens
<1>6. CASE UNCHANGED vars
  BY <1>6 DEF vars, device, Inv, Agrees, Reopens
<1> QED
  BY <1>1, <1>3, <1>4, <1>5, <1>6 DEF Next

\* dvdcss->i_pos agrees with the device after any sequence of seeks, reads and
\* device resets, whatever fails: the shortcut of libc_seek and stream_seek, "We
\* are already in position", is sound.
THEOREM PositionAgrees ==
    ASSUME ~Careless, ~Torn
    PROVE  Spec => []PosAgrees
<1>1. Init => Inv
  BY BlockSizeAssumption, SizesAssumption DEF Init, Inv, Agrees, Reopens
<1>2. Inv /\ [Next]_vars => Inv'
  BY InvStep
<1>3. Inv => PosAgrees
  BY DEF Inv, Agrees, PosAgrees
<1> QED
  BY <1>1, <1>2, <1>3, PTL DEF Spec

\* Over a file descriptor the handle implements the cursor: every seek, complete
\* or partial read, vectored read, failure and reset of the drive is a step of the
\* cursor or leaves it alone, so blocks are delivered from where the last call ended.
THEOREM ImplementsCursor ==
    ASSUME ~Careless, ~Torn
    PROVE  Spec => FileCursor
<1>1. Init => Inv /\ Cursor!Init
  <2> SUFFICES ASSUME Init PROVE Inv /\ Cursor!Init
    OBVIOUS
  <2>1. Inv
    BY BlockSizeAssumption, SizesAssumption DEF Init, Inv, Agrees, Reopens
  <2>2. 0 % BlockSize = 0 /\ 0 \div BlockSize = 0
    BY BlockSizeAssumption
  <2> QED
    BY <2>1, <2>2, BlockSizeAssumption DEF Init, Cursor!Init, cursor, start
<1>2. Inv /\ [Next]_vars => Inv'
  BY InvStep
<1>3. Inv /\ Inv' /\ [Next]_vars
        => [backend = "file" => Cursor!Next]_<<cursor, i_ret, start>>
  <2> SUFFICES ASSUME Inv, Inv', [Next]_vars, backend = "file"
               PROVE  Cursor!Next \/ UNCHANGED <<cursor, i_ret, start>>
    OBVIOUS
  <2>1. cursor = i_pos /\ cursor' = i_pos'
    BY DEF Inv, Agrees, cursor
  <2>2. CASE Seek
    <3>1. PICK b \in Blocks : \E r \in pf_seek(i_pos, off, b) : Returns("seek", r)
      BY <2>2 DEF Seek
    <3>2. PICK r \in pf_seek(i_pos, off, b) : Returns("seek", r)
      BY <3>1
    <3>3. \/ r.i_ret = b /\ r.i_pos = b
          \/ r.i_ret = -1 /\ r.i_pos \in {i_pos, -1}
      BY <3>1, <3>2, SeekOutcome, BlocksAssumption DEF Inv
    <3>4. start' = start
      BY <2>2 DEF Seek, start
    <3>5. Cursor!Seek(b)
      BY <2>1, <3>2, <3>3, <3>4 DEF Returns, Cursor!Seek, Cursor!Nowhere
    <3> QED
      BY <3>5 DEF Cursor!Next
  <2>3. ASSUME NEW n \in 0 .. MaxRead, NEW r, i_ret >= 0, Returns("read", r),
               from' = IF r.i_ret > 0 THEN off ELSE from,
               \/ r.i_ret \in 0 .. n /\ r.i_pos = i_pos + r.i_ret
               \/ r.i_ret = -1 /\ r.i_pos \in {i_pos, -1}
        PROVE  Cursor!Next
    <3>1. i_pos \in Nat /\ off = i_pos * BlockSize
      BY <2>3 DEF Inv, Agrees
    <3>2. off % BlockSize = 0 /\ off \div BlockSize = i_pos
      BY <3>1, WholeBlocks, BlockSizeAssumption
    <3>3. start' = IF r.i_ret > 0 THEN i_pos ELSE start
      BY <2>3, <3>2 DEF start
    <3>4. Cursor!Read(n)
      BY <2>1, <2>3, <3>1, <3>3 DEF Returns, Cursor!Read, Cursor!Nowhere
    <3> QED
      BY <3>4 DEF Cursor!Next
  <2>4. CASE Read
    <3>1. PICK n \in 0 .. MaxRead : ReadsFrom(libc_read(n))
      BY <2>4 DEF Read, pf_read
    <3>2. PICK r \in libc_read(n) :
            Returns("read", r) /\ from' = IF r.i_ret > 0 THEN off ELSE from
      BY <3>1 DEF ReadsFrom
    <3>3. i_ret >= 0 /\ n \in Nat
      BY <3>1, MaxReadAssumption DEF ReadsFrom
    <3>4. \/ r.i_ret \in 0 .. n /\ r.i_pos = i_pos + r.i_ret
          \/ r.i_ret = -1 /\ r.i_pos = -1
      BY <3>2, <3>3, LibcReadOutcome
    <3> QED
      BY <2>3, <3>2, <3>3, <3>4
  <2>5. CASE Readv
    <3>1. PICK n \in 0 .. MaxRead : WholeReads /\ ReadsFrom(pf_readv(n))
      BY <2>5 DEF Readv
    <3>2. PICK r \in pf_readv(n) :
            Returns("read", r) /\ from' = IF r.i_ret > 0 THEN off ELSE from
      BY <3>1 DEF ReadsFrom
    <3>3. i_ret >= 0 /\ n \in Nat
      BY <3>1, MaxReadAssumption DEF ReadsFrom
    <3>4. \/ r.i_ret \in 0 .. n /\ r.i_pos = i_pos + r.i_ret
          \/ r.i_ret = -1 /\ r.i_pos \in {i_pos, -1}
      BY <3>1, <3>2, <3>3, ReadvOutcome
    <3> QED
      BY <2>3, <3>2, <3>3, <3>4
  <2>6. CASE Reopen
    <3>1. i_pos' = i_pos /\ i_ret' = i_ret /\ from' = from
      BY <2>6 DEF Reopen
    <3> QED
      BY <2>1, <3>1 DEF start
  <2>7. CASE UNCHANGED vars
    BY <2>1, <2>7 DEF vars, start
  <2> QED
    BY <2>2, <2>4, <2>5, <2>6, <2>7 DEF Next
<1> QED
  BY <1>1, <1>2, <1>3, PTL DEF Spec, FileCursor

=============================================================================
