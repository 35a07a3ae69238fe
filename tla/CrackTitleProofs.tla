------------------------- MODULE CrackTitleProofs -------------------------
(***************************************************************************)
(* Proofs about CrackTitleKey, for any number of threads, any disc, any    *)
(* limits and any faults.                                                  *)
(*                                                                         *)
(* A call that no other has overlapped is the only one that runs, so that  *)
(* i_success is its own.  While no seek of its handle has failed the       *)
(* device is at the block the loop takes itself to be at; what the loop    *)
(* knows of the blocks behind it follows from there, and its result from   *)
(* that and from the way it has left the loop.                             *)
(***************************************************************************)
EXTENDS CrackTitle, TLAPS

InLoop == {"Seek", "Read", "Load", "Store"}
InAttack == {"Load", "Store"}

\* The blocks the loop has put behind it.
Behind(c) == c.start .. c.i_pos - 1

Passed(c) == \A b \in Behind(c) : b \in DiscBlocks /\ Disc[b] # "nonmpeg"
Keyless(c) == \A b \in Behind(c) : Disc[b] \notin Keys
Clean(c) == c.i_encrypted = 0 => \A b \in Behind(c) : Disc[b] = "clean"
TitleEnds(c) == c.i_pos \notin DiscBlocks \/ Disc[c.i_pos] = "nonmpeg"
Early(c) == c.i_encrypted = 0 => c.i_reads < MaxClean

\* The counters of a call belong together.
Counted(t) ==
    LET c == call[t] IN
    /\ c.i_reads + c.i_len = MaxLen
    /\ c.i_pos = c.start + c.i_reads
    /\ pc[t] \in InLoop => c.i_len > 0
    /\ c.i_encrypted <= c.i_reads + 1
    /\ pc[t] \notin InAttack => c.i_encrypted <= c.i_reads

\* A call that nothing has overlapped is alone, and i_success is its own.
Own(t) ==
    LET c == call[t] IN
    ~At(t, "idle") /\ ~overlapped[t] =>
        /\ \A s \in Threads \ {t} : At(s, "idle")
        /\ pc[t] \in InLoop => i_success = 0 /\ ~c.b_stop_scanning
        /\ At(t, "Store") => c.i_success = 0
        /\ At(t, "Result") => (i_success > 0 <=> c.b_stop_scanning)

\* The handle's device is where the handle takes it to be, and the loop.
Placed(t) ==
    ~astray[t] =>
        /\ dev[t].i_pos # -1 => dev[t].off = dev[t].i_pos
        /\ At(t, "Read") => dev[t].i_pos = call[t].i_pos /\ dev[t].off = call[t].i_pos

\* Why the loop has ended without a key.
Ended(c) ==
    \/ TitleEnds(c)
    \/ c.i_len = 0
    \/ c.b_read_error
    \/ c.i_encrypted = 0 /\ c.i_reads = MaxClean

\* What the loop knows of the title.
Knows(t) ==
    LET c == call[t] IN
    ~At(t, "idle") /\ ~overlapped[t] /\ ~astray[t] =>
        /\ Passed(c)
        /\ ~c.b_stop_scanning => Keyless(c) /\ Clean(c)
        /\ pc[t] \in InLoop => Early(c)
        /\ pc[t] \in InAttack =>
              /\ c.i_encrypted > 0
              /\ c.i_pos \in DiscBlocks
              /\ Disc[c.i_pos] \in Keys \cup {"norecovery"}
              /\ c.p_titlekey = IF Disc[c.i_pos] \in Keys THEN Disc[c.i_pos] ELSE ZeroKey
        /\ At(t, "Result") /\ c.b_stop_scanning =>
              c.i_reads > 0 /\ Disc[c.i_pos - 1] \in Keys /\ c.p_titlekey = Disc[c.i_pos - 1]
        /\ At(t, "Result") /\ ~c.b_stop_scanning => Ended(c)

\* What has been returned: the properties, for one thread.
Told(t) ==
    LET c == call[t] IN
    Returned(t) =>
        /\ i_ret[t] = 1
              => \E b \in Rest(c.start) : Disc[b] \in Keys /\ Disc[b] = c.p_titlekey
        /\ i_ret[t] = 0
              => /\ c.i_reads > 0
                 /\ \A b \in c.start .. c.start + c.i_reads - 1 : Disc[b] = "clean"
                 /\ \/ c.start + c.i_reads \notin Rest(c.start)
                    \/ c.i_reads \in {MaxClean, MaxLen}
                    \/ c.b_read_error
        /\ i_ret[t] = -1 /\ ~c.b_read_error
              => \A b \in Rest(c.start) : b < c.start + MaxLen => Disc[b] \notin Keys

Types ==
    /\ i_success \in Nat
    /\ dev \in [Threads -> [i_pos : Int, off : Int, opened : BOOLEAN]]
    /\ pc \in [Threads -> Labels]
    /\ call \in [Threads -> Calls]
    /\ i_ret \in [Threads -> {-1, 0, 1}]
    /\ overlapped \in [Threads -> BOOLEAN]
    /\ astray \in [Threads -> BOOLEAN]

ThreadInv(t) == Counted(t) /\ Own(t) /\ Placed(t) /\ Knows(t) /\ Told(t)

Inv == Types /\ \A t \in Threads : ThreadInv(t)

(***************************************************************************)
(* The device.                                                             *)
(***************************************************************************)
Outcomes == [i_pos : Int, off : Int, i_ret : Int]

LEMMA SeekOutcomes ==
    ASSUME NEW t \in Threads, NEW p \in Int, NEW o \in Int, NEW b \in Nat,
           NEW r \in Device(t)!pf_seek(p, o, b)
    PROVE  /\ r \in Outcomes
           /\ r.i_ret = b => r.i_pos = b /\ (r.off = b \/ (p = b /\ r.off = o))
           /\ r.i_ret # b => r.i_pos = -1
  <1>1. r \in Device(t)!libc_seek(p, o, b)
    BY DEF Device!pf_seek
  <1>2. CASE r = Device(t)!Result(b, o, b) /\ p = b
    BY <1>2 DEF Device!Result, Outcomes
  <1>3. CASE r = Device(t)!Result(b, b * 1, b)
    BY <1>3 DEF Device!Result, Outcomes
  <1>4. CASE r = Device(t)!Result(-1, o, -1)
    BY <1>4 DEF Device!Result, Outcomes
  <1> QED BY <1>1, <1>2, <1>3, <1>4 DEF Device!libc_seek, Device!AfterFailure

LEMMA ReadOutcomes ==
    ASSUME NEW t \in Threads, dev[t] \in [i_pos : Int, off : Int, opened : BOOLEAN],
           NEW r \in Device(t)!pf_read(1)
    PROVE  /\ r \in Outcomes
           /\ r.i_ret < 0 => r.i_pos = -1
           /\ r.i_ret = 0 => DiscSize <= dev[t].off /\ (r.i_pos # -1 => r.off = r.i_pos)
           /\ r.i_ret > 0 => /\ dev[t].off < DiscSize
                             /\ r.i_pos = dev[t].i_pos + 1
                             /\ r.off = dev[t].off + 1
  <1> DEFINE i == dev[t].i_pos
             o == dev[t].off
             n == Device(t)!Available(1)
  <1>1. DiscSize \in Nat /\ i \in Int /\ o \in Int
    BY DiscAssumption
  <1>2. n \in {0, 1} /\ (n = 0 <=> DiscSize <= o)
    BY <1>1 DEF Device!Available
  <1>3. CASE r \in Device(t)!Failed(1)
    BY <1>1, <1>2, <1>3 DEF Device!Failed, Device!Result, Device!AfterFailure, Outcomes
  <1>4. CASE n = 1 /\ r \in Device(t)!Complete(1)
    BY <1>1, <1>2, <1>4 DEF Device!Complete, Device!Result, Outcomes
  <1>5. CASE n = 0 /\ r \in Device(t)!Partial(0, i)
    BY <1>1, <1>2, <1>5
       DEF Device!Partial, Device!pf_seek, Device!libc_seek, Device!Result,
           Device!AfterFailure, Outcomes
  <1>6. Device(t)!Behind(0) = i
    BY <1>1 DEF Device!Behind
  <1> QED BY <1>2, <1>3, <1>4, <1>5, <1>6 DEF Device!pf_read, Device!libc_read

(***************************************************************************)
(* The bookkeeping of the loop.                                            *)
(***************************************************************************)
LEMMA Limits == MaxLen \in Nat /\ MaxLen > 0 /\ MaxClean \in Nat /\ MaxClean > 0 /\ DiscSize \in Nat
  BY LimitsAssumption, DiscAssumption

LEMMA NewCallFacts ==
    ASSUME NEW b \in Nat
    PROVE  /\ NewCall(b) \in Calls
           /\ NewCall(b).start = b /\ NewCall(b).i_pos = b
           /\ NewCall(b).i_len = MaxLen /\ NewCall(b).i_reads = 0
           /\ NewCall(b).i_encrypted = 0 /\ NewCall(b).b_stop_scanning = FALSE
           /\ NewCall(b).p_titlekey = Garbage
  BY Limits DEF NewCall, Calls

\* Nothing is behind a call that begins, and its counters belong together.
LEMMA NewCallKnown ==
    ASSUME NEW b \in Nat, NEW c, c = NewCall(b)
    PROVE  /\ Passed(c) /\ Keyless(c) /\ Clean(c) /\ Early(c)
           /\ c.i_reads + c.i_len = MaxLen /\ c.i_pos = c.start + c.i_reads
           /\ c.i_len > 0 /\ c.i_encrypted <= c.i_reads
           /\ c.i_encrypted <= c.i_reads + 1
  <1>1. /\ c.start = b /\ c.i_pos = b /\ c.i_len = MaxLen /\ c.i_reads = 0
        /\ c.i_encrypted = 0
    BY NewCallFacts
  <1>2. b .. b - 1 = {}
    OBVIOUS
  <1>3. Behind(c) = {}
    BY <1>1, <1>2 DEF Behind
  <1>4. Passed(c) /\ Keyless(c) /\ Clean(c)
    BY <1>3 DEF Passed, Keyless, Clean
  <1> QED BY <1>1, <1>4, Limits DEF Early

LEMMA AdvancedFacts ==
    ASSUME NEW c \in Calls, c.i_len > 0, c.i_reads + c.i_len = MaxLen
    PROVE  /\ Advanced(c) \in Calls
           /\ Advanced(c).start = c.start
           /\ Advanced(c).i_pos = c.i_pos + 1
           /\ Advanced(c).i_len = c.i_len - 1
           /\ Advanced(c).i_reads = c.i_reads + 1
           /\ Advanced(c).i_encrypted = c.i_encrypted
           /\ Advanced(c).b_stop_scanning = c.b_stop_scanning
           /\ Advanced(c).b_read_error = c.b_read_error
           /\ Advanced(c).p_titlekey = c.p_titlekey
           /\ Advanced(c).i_success = c.i_success
  <1>1. c.i_pos + 1 \in Nat /\ c.i_len - 1 \in 0 .. MaxLen /\ c.i_reads + 1 \in 0 .. MaxLen
    BY Limits DEF Calls
  <1> DEFINE p == c.i_pos + 1
             l == c.i_len - 1
             n == c.i_reads + 1
  <1>2. Advanced(c) = [c EXCEPT !.i_pos = p, !.i_len = l, !.i_reads = n]
    BY DEF Advanced
  <1>3. p \in Nat /\ l \in 0 .. MaxLen /\ n \in 0 .. MaxLen
    BY <1>1
  <1> HIDE DEF p, l, n
  <1>4. /\ Advanced(c) \in Calls
        /\ Advanced(c).i_pos = p /\ Advanced(c).i_len = l /\ Advanced(c).i_reads = n
    BY <1>2, <1>3 DEF Calls
  <1>5. /\ Advanced(c).start = c.start
        /\ Advanced(c).i_encrypted = c.i_encrypted
        /\ Advanced(c).b_stop_scanning = c.b_stop_scanning
        /\ Advanced(c).b_read_error = c.b_read_error
        /\ Advanced(c).p_titlekey = c.p_titlekey
        /\ Advanced(c).i_success = c.i_success
    BY <1>2 DEF Calls
  <1> QED BY <1>4, <1>5 DEF p, l, n

\* A block more behind the loop.
LEMMA BehindAdvanced ==
    ASSUME NEW c \in Calls, c.i_len > 0, c.i_reads + c.i_len = MaxLen,
           c.i_pos = c.start + c.i_reads
    PROVE  Behind(Advanced(c)) = Behind(c) \cup {c.i_pos}
  <1>1. c.start \in Nat /\ c.i_pos \in Nat /\ c.start <= c.i_pos
    BY Limits DEF Calls
  <1> QED BY <1>1, AdvancedFacts DEF Behind

\* Where the loop goes behind a block.
LEMMA NextLabel ==
    ASSUME Types, NEW t \in Threads, NEW c \in Calls, c.i_len > 0,
           c.i_reads + c.i_len = MaxLen, NextBlock(t, c)
    PROVE  /\ call' = [call EXCEPT ![t] = Advanced(c)] /\ call'[t] = Advanced(c)
           /\ pc'[t] \in {"Seek", "Result"}
           /\ \A s \in Threads \ {t} : pc'[s] = pc[s] /\ call'[s] = call[s]
           /\ pc' \in [Threads -> Labels] /\ call' \in [Threads -> Calls]
           /\ pc'[t] = "Seek" => /\ ~c.b_stop_scanning /\ c.i_len - 1 > 0
                                 /\ c.i_encrypted = 0 => c.i_reads + 1 < MaxClean
           /\ pc'[t] = "Result" /\ ~c.b_stop_scanning
                => \/ c.i_len - 1 = 0
                   \/ c.i_encrypted = 0 /\ c.i_reads + 1 >= MaxClean
  <1>1. Advanced(c) \in Calls
    BY AdvancedFacts
  <1>2. call' = [call EXCEPT ![t] = Advanced(c)]
    BY DEF NextBlock
  <1> DEFINE l == IF GoesOn(Advanced(c)) /\ ~GivesUp(Advanced(c)) THEN "Seek" ELSE "Result"
  <1>3. pc' = [pc EXCEPT ![t] = l] /\ l \in {"Seek", "Result"}
    BY DEF NextBlock, Goto
  <1>4. c.i_len \in Nat /\ c.i_reads \in Nat
    BY Limits DEF Calls
  <1>5. /\ l = "Seek" => /\ ~c.b_stop_scanning /\ c.i_len - 1 > 0
                         /\ c.i_encrypted = 0 => c.i_reads + 1 < MaxClean
        /\ l = "Result" /\ ~c.b_stop_scanning
             => \/ c.i_len - 1 = 0
                \/ c.i_encrypted = 0 /\ c.i_reads + 1 >= MaxClean
    BY <1>4, AdvancedFacts, Limits DEF GoesOn, GivesUp
  <1> HIDE DEF l
  <1> QED BY <1>1, <1>2, <1>3, <1>5 DEF Types, Labels

(***************************************************************************)
(* The other threads.                                                      *)
(***************************************************************************)
\* What a thread is to itself stays as it is.
Untouched(s) ==
    /\ pc'[s] = pc[s]
    /\ call'[s] = call[s]
    /\ dev'[s] = dev[s]
    /\ i_ret'[s] = i_ret[s]
    /\ astray'[s] = astray[s]

\* A step of one thread keeps the invariant of another one: if that one runs its call
\* has been overlapped.
LEMMA OthersKept ==
    ASSUME NEW s \in Threads, ThreadInv(s), Untouched(s),
           overlapped[s] => overlapped'[s],
           At(s, "idle") \/ overlapped'[s]
    PROVE  ThreadInv(s)'
  <1>1. Counted(s)'
    BY DEF ThreadInv, Counted, Untouched
  <1>2. Own(s)'
    BY DEF Own, At, Untouched
  <1>3. Placed(s)'
    BY DEF ThreadInv, Placed, At, Untouched
  <1>4. Knows(s)'
    BY DEF Knows, At, Untouched
  <1>5. Told(s)'
    BY DEF ThreadInv, Told, Returned, At, Untouched
  <1> QED BY <1>1, <1>2, <1>3, <1>4, <1>5 DEF ThreadInv

\* Inside a call all others are idle, or this one, and theirs, have been overlapped.
LEMMA OthersIdle ==
    ASSUME Inv, NEW t \in Threads, ~At(t, "idle"), NEW s \in Threads, s # t
    PROVE  At(s, "idle") \/ overlapped[s]
  BY DEF Inv, ThreadInv, Own

\* A step inside a call of thread t, which keeps the invariant of t.
LEMMA InsideCall ==
    ASSUME Inv, NEW t \in Threads, ~At(t, "idle"), UNCHANGED overlapped,
           \A s \in Threads \ {t} : Untouched(s), ThreadInv(t)', Types'
    PROVE  Inv'
  <1>1. ASSUME NEW s \in Threads PROVE ThreadInv(s)'
    <2>1. CASE s = t
      BY <2>1
    <2>2. CASE s # t
      BY <2>2, OthersIdle, OthersKept DEF Inv
    <2> QED BY <2>1, <2>2
  <1> QED BY <1>1 DEF Inv

(***************************************************************************)
(* The steps.                                                              *)
(***************************************************************************)
LEMMA InitInv == ASSUME Init PROVE Inv
  <1>1. NewCall(0) \in Calls /\ NewCall(0).p_titlekey = Garbage
    BY NewCallFacts
  <1>2. Types
    BY <1>1 DEF Init, Types, Labels
  <1>3. ASSUME NEW t \in Threads PROVE ThreadInv(t)
    <2>1. call[t] = NewCall(0) /\ pc[t] = "idle"
      BY DEF Init
    <2>2. Counted(t)
      BY <2>1, NewCallKnown DEF Counted
    <2>3. Own(t) /\ Knows(t)
      BY <2>1 DEF Own, Knows, At
    <2>4. Placed(t)
      BY <2>1 DEF Init, Placed, At
    <2>5. Told(t)
      BY <1>1, <2>1 DEF Told, Returned
    <2> QED BY <2>2, <2>3, <2>4, <2>5 DEF ThreadInv
  <1> QED BY <1>2, <1>3 DEF Inv

LEMMA StartInv ==
    ASSUME Inv, NEW t \in Threads, NEW b \in Starts, Start(t, b)
    PROVE  Inv'
  <1> DEFINE c == NewCall(b)
  <1>1. b \in Nat /\ c \in Calls
    BY StartsAssumption, NewCallFacts
  <1>2. /\ At(t, "idle") /\ i_success' = 0
        /\ call' = [call EXCEPT ![t] = c]
        /\ pc' = [pc EXCEPT ![t] = "Seek"]
        /\ overlapped' = [s \in Threads |->
               IF s = t THEN Running # {} ELSE overlapped[s] \/ s \in Running]
        /\ UNCHANGED <<dev, i_ret, astray>>
    BY DEF Start, ResetStatistics, Goto
  <1>3. call'[t] = c /\ pc'[t] = "Seek"
    BY <1>2 DEF Inv, Types
  <1>4. overlapped' \in [Threads -> BOOLEAN]
    BY <1>2 DEF Inv, Types
  <1>5. Types'
    BY <1>1, <1>2, <1>4 DEF Inv, Types, Labels
  <1>6. ThreadInv(t)'
    <2>1. Counted(t)'
      BY <1>1, <1>3, NewCallKnown DEF Counted
    <2>2. ASSUME ~overlapped'[t], NEW s \in Threads \ {t} PROVE At(s, "idle")'
      BY <1>2, <2>2 DEF At, Running, Inv, Types
    <2>3. Own(t)'
      BY <1>1, <1>2, <1>3, <2>2, NewCallFacts DEF Own, At
    <2>4. Placed(t)'
      BY <1>2, <1>3 DEF Inv, ThreadInv, Placed, At
    <2>5. Passed(c) /\ Keyless(c) /\ Clean(c) /\ Early(c)
      BY <1>1, NewCallKnown
    <2>6. Knows(t)'
      BY <1>3, <2>5 DEF Knows, At, InAttack
    <2>7. Told(t)'
      BY <1>3 DEF Told, Returned, At
    <2> QED BY <2>1, <2>3, <2>4, <2>6, <2>7 DEF ThreadInv
  <1>7. ASSUME NEW s \in Threads, s # t PROVE ThreadInv(s)'
    <2>1. Untouched(s)
      BY <1>2, <1>7 DEF Untouched, Inv, Types
    <2>2. overlapped'[s] = (overlapped[s] \/ ~At(s, "idle"))
      BY <1>2, <1>7 DEF Running
    <2> QED BY <2>1, <2>2, OthersKept DEF Inv, At
  <1> QED BY <1>5, <1>6, <1>7 DEF Inv

LEMMA SeekInv ==
    ASSUME Inv, NEW t \in Threads, Seek(t)
    PROVE  Inv'
  <1>1. /\ At(t, "Seek")
        /\ pc' = [pc EXCEPT ![t] = "Read"]
        /\ UNCHANGED <<i_success, call, i_ret, overlapped>>
    BY DEF Seek, Goto
  <1>2. PICK r \in Device(t)!pf_seek(dev[t].i_pos, dev[t].off, call[t].i_pos) :
            /\ dev' = [dev EXCEPT ![t].i_pos = r.i_pos, ![t].off = r.off]
            /\ astray' = [astray EXCEPT ![t] = @ \/ r.i_ret # call[t].i_pos]
    BY DEF Seek, Moved
  <1>3. dev[t] \in [i_pos : Int, off : Int, opened : BOOLEAN] /\ call[t].i_pos \in Nat
    BY DEF Inv, Types, Calls
  <1>4. /\ r.i_pos \in Int /\ r.off \in Int
        /\ r.i_ret = call[t].i_pos =>
              /\ r.i_pos = call[t].i_pos
              /\ r.off = call[t].i_pos
                 \/ (dev[t].i_pos = call[t].i_pos /\ r.off = dev[t].off)
        /\ r.i_ret # call[t].i_pos => r.i_pos = -1
    BY <1>3, SeekOutcomes DEF Outcomes
  <1>5. /\ dev'[t].i_pos = r.i_pos /\ dev'[t].off = r.off
        /\ dev' \in [Threads -> [i_pos : Int, off : Int, opened : BOOLEAN]]
        /\ \A s \in Threads \ {t} : dev'[s] = dev[s]
    BY <1>2, <1>4 DEF Inv, Types
  <1>6. astray' \in [Threads -> BOOLEAN] /\ \A s \in Threads \ {t} : astray'[s] = astray[s]
    BY <1>2 DEF Inv, Types
  <1>7. ~astray'[t] => ~astray[t] /\ r.i_ret = call[t].i_pos
    BY <1>2 DEF Inv, Types
  <1>8. pc'[t] = "Read" /\ \A s \in Threads \ {t} : pc'[s] = pc[s]
    BY <1>1 DEF Inv, Types
  <1>9. Types'
    BY <1>1, <1>5, <1>6 DEF Inv, Types, Labels
  <1>10. ThreadInv(t)'
    <2>1. ThreadInv(t) /\ pc[t] = "Seek"
      BY <1>1 DEF Inv, At
    <2>2. Counted(t)'
      BY <1>1, <1>8, <2>1 DEF ThreadInv, Counted, InLoop, InAttack
    <2>3. Own(t)'
      BY <1>1, <1>8, <2>1 DEF ThreadInv, Own, At, InLoop
    <2>4. Placed(t)'
      BY <1>1, <1>3, <1>4, <1>5, <1>7, <2>1 DEF ThreadInv, Placed
    <2>5. Knows(t)'
      BY <1>1, <1>7, <1>8, <2>1 DEF ThreadInv, Knows, At, InLoop, InAttack
    <2>6. Told(t)'
      BY <1>8 DEF Told, Returned, At
    <2> QED BY <2>2, <2>3, <2>4, <2>5, <2>6 DEF ThreadInv
  <1>11. \A s \in Threads \ {t} : Untouched(s)
    BY <1>1, <1>5, <1>6, <1>8 DEF Untouched
  <1>12. ~At(t, "idle") /\ UNCHANGED overlapped
    BY <1>1 DEF At
  <1> QED BY <1>9, <1>10, <1>11, <1>12, InsideCall

\* The device after a call of it.
LEMMA MovedFacts ==
    ASSUME Types, NEW t \in Threads, NEW r \in Outcomes, Moved(t, r)
    PROVE  /\ dev' \in [Threads -> [i_pos : Int, off : Int, opened : BOOLEAN]]
           /\ dev'[t].i_pos = r.i_pos /\ dev'[t].off = r.off
           /\ \A s \in Threads \ {t} : dev'[s] = dev[s]
  <1>1. r.i_pos \in Int /\ r.off \in Int
    BY DEF Outcomes
  <1>2. dev' = [dev EXCEPT ![t].i_pos = r.i_pos, ![t].off = r.off]
    BY DEF Moved
  <1> QED BY <1>1, <1>2 DEF Types

\* A read that ends the search.
LEMMA LeavesLoop ==
    ASSUME Inv, NEW t \in Threads, At(t, "Read"), Goto(t, "Result"),
           UNCHANGED <<call, i_success, i_ret, overlapped, astray>>,
           NEW r \in Outcomes, Moved(t, r),
           ~astray[t] /\ r.i_pos # -1 => r.off = r.i_pos,
           ~overlapped[t] /\ ~astray[t] => Ended(call[t])
    PROVE  Inv'
  <1>1. pc' = [pc EXCEPT ![t] = "Result"] /\ pc[t] = "Read"
    BY DEF Goto, At
  <1>2. /\ dev' \in [Threads -> [i_pos : Int, off : Int, opened : BOOLEAN]]
        /\ dev'[t].i_pos = r.i_pos /\ dev'[t].off = r.off
        /\ \A s \in Threads \ {t} : dev'[s] = dev[s]
    BY MovedFacts DEF Inv
  <1>3. /\ pc'[t] = "Result" /\ pc' \in [Threads -> Labels]
        /\ \A s \in Threads \ {t} : pc'[s] = pc[s]
    BY <1>1 DEF Inv, Types, Labels
  <1>4. Types'
    BY <1>2, <1>3 DEF Inv, Types
  <1>5. ThreadInv(t)'
    <2>1. ThreadInv(t)
      BY DEF Inv
    <2>2. Counted(t)'
      BY <1>1, <1>3, <2>1 DEF ThreadInv, Counted, InLoop, InAttack
    <2>3. Own(t)'
      BY <1>1, <1>3, <2>1 DEF ThreadInv, Own, At, InLoop
    <2>4. Placed(t)'
      BY <1>2, <1>3 DEF Placed, At
    <2>5. Knows(t)'
      BY <1>1, <1>3, <2>1 DEF ThreadInv, Knows, Own, At, InLoop, InAttack
    <2>6. Told(t)'
      BY <1>3 DEF Told, Returned, At
    <2> QED BY <2>2, <2>3, <2>4, <2>5, <2>6 DEF ThreadInv
  <1>6. \A s \in Threads \ {t} : Untouched(s)
    BY <1>2, <1>3 DEF Untouched
  <1>7. ~At(t, "idle")
    BY <1>1 DEF At
  <1> QED BY <1>4, <1>5, <1>6, <1>7, InsideCall

\* The loop goes behind a block, which it has learnt what c says from.
LEMMA BlockDone ==
    ASSUME Inv, NEW t \in Threads, pc[t] \in {"Read", "Store"},
           NEW c \in Calls, NextBlock(t, c),
           c.start = call[t].start, c.i_pos = call[t].i_pos,
           c.i_len = call[t].i_len, c.i_reads = call[t].i_reads,
           c.i_encrypted <= c.i_reads + 1,
           UNCHANGED <<i_ret, overlapped, astray>>, i_success' \in Nat,
           ~overlapped[t] => (IF c.b_stop_scanning THEN i_success' > 0 ELSE i_success' = 0),
           dev' \in [Threads -> [i_pos : Int, off : Int, opened : BOOLEAN]],
           \A s \in Threads \ {t} : dev'[s] = dev[s],
           ~astray[t] /\ dev'[t].i_pos # -1 => dev'[t].off = dev'[t].i_pos,
           ~overlapped[t] /\ ~astray[t] =>
               /\ c.i_pos \in DiscBlocks /\ Disc[c.i_pos] # "nonmpeg"
               /\ Clean(c) /\ Early(c)
               /\ c.b_stop_scanning => Disc[c.i_pos] \in Keys /\ c.p_titlekey = Disc[c.i_pos]
               /\ ~c.b_stop_scanning =>
                     /\ Disc[c.i_pos] \notin Keys
                     /\ c.i_encrypted = 0 => Disc[c.i_pos] = "clean"
    PROVE  Inv'
  <1> DEFINE d == Advanced(c)
  <1>1. ThreadInv(t) /\ ~At(t, "idle") /\ pc[t] \in InLoop
    BY DEF Inv, At, InLoop
  <1>2. /\ c.i_len > 0 /\ c.i_reads + c.i_len = MaxLen
        /\ c.i_pos = c.start + c.i_reads
    BY <1>1 DEF ThreadInv, Counted
  <1>3. /\ call'[t] = d
        /\ pc'[t] \in {"Seek", "Result"}
        /\ \A s \in Threads \ {t} : pc'[s] = pc[s] /\ call'[s] = call[s]
        /\ pc' \in [Threads -> Labels] /\ call' \in [Threads -> Calls]
        /\ pc'[t] = "Seek" => /\ ~c.b_stop_scanning /\ c.i_len - 1 > 0
                              /\ c.i_encrypted = 0 => c.i_reads + 1 < MaxClean
        /\ pc'[t] = "Result" /\ ~c.b_stop_scanning
             => \/ c.i_len - 1 = 0
                \/ c.i_encrypted = 0 /\ c.i_reads + 1 >= MaxClean
    BY <1>2, NextLabel DEF Inv
  <1>4. /\ d \in Calls /\ d.start = c.start /\ d.i_pos = c.i_pos + 1
        /\ d.i_len = c.i_len - 1 /\ d.i_reads = c.i_reads + 1
        /\ d.i_encrypted = c.i_encrypted /\ d.b_stop_scanning = c.b_stop_scanning
        /\ d.p_titlekey = c.p_titlekey
    BY <1>2, AdvancedFacts
  <1>5. Behind(d) = Behind(c) \cup {c.i_pos}
    BY <1>2, BehindAdvanced
  <1>6. Behind(c) = Behind(call[t])
    BY DEF Behind
  <1>7. /\ c.i_len \in Nat /\ c.i_reads \in Nat /\ c.start \in Nat /\ c.i_pos \in Nat
        /\ c.i_encrypted \in Nat
    BY Limits DEF Calls
  <1> HIDE DEF d
  <1>8. Types'
    BY <1>3 DEF Inv, Types
  <1>9. ThreadInv(t)'
    <2>1. Counted(t)'
      BY <1>2, <1>3, <1>4, <1>7, Limits DEF Counted, InLoop, InAttack
    <2>2. Own(t)'
      <3>1. ASSUME ~overlapped[t], NEW s \in Threads \ {t} PROVE At(s, "idle")'
        BY <1>1, <1>3, <3>1 DEF ThreadInv, Own, At
      <3>2. ~overlapped[t] /\ pc'[t] \in InLoop => i_success' = 0 /\ ~d.b_stop_scanning
        BY <1>3, <1>4 DEF InLoop
      <3>3. ~overlapped[t] => (i_success' > 0 <=> c.b_stop_scanning)
        OBVIOUS
      <3> QED BY <1>3, <1>4, <3>1, <3>2, <3>3 DEF Own, At
    <2>3. Placed(t)'
      BY <1>3 DEF Placed, At
    <2>4. Knows(t)'
      <3> SUFFICES ASSUME ~overlapped[t], ~astray[t]
                   PROVE  Knows(t)'
        BY DEF Knows
      <3>1. /\ c.i_pos \in DiscBlocks /\ Disc[c.i_pos] # "nonmpeg"
            /\ Clean(c) /\ Early(c)
            /\ c.b_stop_scanning => Disc[c.i_pos] \in Keys /\ c.p_titlekey = Disc[c.i_pos]
            /\ ~c.b_stop_scanning =>
                  /\ Disc[c.i_pos] \notin Keys
                  /\ c.i_encrypted = 0 => Disc[c.i_pos] = "clean"
        OBVIOUS
      <3>2. Passed(call[t]) /\ Keyless(call[t])
        BY <1>1 DEF ThreadInv, Knows, Own
      <3>3. Passed(d)
        BY <1>5, <1>6, <3>1, <3>2 DEF Passed
      <3>4. ~d.b_stop_scanning => Keyless(d)
        BY <1>4, <1>5, <1>6, <3>1, <3>2 DEF Keyless
      <3>5. ~d.b_stop_scanning => Clean(d)
        BY <1>4, <1>5, <3>1 DEF Clean
      <3>6. pc'[t] = "Seek" => Early(d)
        BY <1>3, <1>4 DEF Early
      <3>7. pc'[t] = "Result" /\ d.b_stop_scanning
              => d.i_reads > 0 /\ Disc[d.i_pos - 1] \in Keys /\ d.p_titlekey = Disc[d.i_pos - 1]
        <4>1. d.i_pos - 1 = c.i_pos /\ d.i_reads > 0
          BY <1>4, <1>7
        <4> QED BY <1>4, <3>1, <4>1
      <3>8. ASSUME pc'[t] = "Result", ~d.b_stop_scanning PROVE Ended(d)
        <4>1. \/ c.i_len - 1 = 0
              \/ c.i_encrypted = 0 /\ c.i_reads + 1 >= MaxClean
          BY <1>3, <1>4, <3>8
        <4>2. CASE c.i_len - 1 = 0
          BY <1>4, <4>2 DEF Ended
        <4>3. CASE c.i_encrypted = 0 /\ c.i_reads + 1 >= MaxClean
          <5>1. c.i_reads < MaxClean
            BY <3>1, <4>3 DEF Early
          <5>2. c.i_reads + 1 = MaxClean
            BY <1>7, <4>3, <5>1, Limits
          <5> QED BY <1>4, <4>3, <5>2 DEF Ended
        <4> QED BY <4>1, <4>2, <4>3
      <3> QED BY <1>3, <3>3, <3>4, <3>5, <3>6, <3>7, <3>8 DEF Knows, At, InLoop, InAttack
    <2>5. Told(t)'
      BY <1>3 DEF Told, Returned, At
    <2> QED BY <2>1, <2>2, <2>3, <2>4, <2>5 DEF ThreadInv
  <1>10. \A s \in Threads \ {t} : Untouched(s)
    BY <1>3 DEF Untouched
  <1> QED BY <1>1, <1>8, <1>9, <1>10, InsideCall

LEMMA LoadInv ==
    ASSUME Inv, NEW t \in Threads, Load(t)
    PROVE  Inv'
  <1> DEFINE c == [call[t] EXCEPT !.i_success = i_success]
  <1>1. /\ pc[t] = "Load" /\ pc' = [pc EXCEPT ![t] = "Store"]
        /\ call' = [call EXCEPT ![t] = c]
        /\ UNCHANGED <<i_success, dev, i_ret, overlapped, astray>>
    BY DEF Load, At, Goto
  <1>2. /\ c \in Calls /\ c.i_success = i_success
        /\ c.start = call[t].start /\ c.i_pos = call[t].i_pos /\ c.i_len = call[t].i_len
        /\ c.i_reads = call[t].i_reads /\ c.i_encrypted = call[t].i_encrypted
        /\ c.b_stop_scanning = call[t].b_stop_scanning
        /\ c.b_read_error = call[t].b_read_error /\ c.p_titlekey = call[t].p_titlekey
    BY DEF Inv, Types, Calls
  <1> HIDE DEF c
  <1>3. /\ call'[t] = c /\ pc'[t] = "Store"
        /\ pc' \in [Threads -> Labels] /\ call' \in [Threads -> Calls]
        /\ \A s \in Threads \ {t} : pc'[s] = pc[s] /\ call'[s] = call[s]
    BY <1>1, <1>2 DEF Inv, Types, Labels
  <1>4. Types'
    BY <1>1, <1>3 DEF Inv, Types
  <1>5. ThreadInv(t)'
    <2>1. ThreadInv(t)
      BY DEF Inv
    <2>2. Counted(t)'
      BY <1>1, <1>2, <1>3, <2>1 DEF ThreadInv, Counted, InLoop, InAttack
    <2>3. Own(t)'
      BY <1>1, <1>2, <1>3, <2>1 DEF ThreadInv, Own, At, InLoop
    <2>4. Placed(t)'
      BY <1>1, <1>3, <2>1 DEF ThreadInv, Placed, At
    <2>5. Knows(t)'
      BY <1>1, <1>2, <1>3, <2>1
         DEF ThreadInv, Knows, At, InLoop, InAttack, Passed, Keyless, Clean, Behind, Early
    <2>6. Told(t)'
      BY <1>3 DEF Told, Returned, At
    <2> QED BY <2>2, <2>3, <2>4, <2>5, <2>6 DEF ThreadInv
  <1>6. \A s \in Threads \ {t} : Untouched(s)
    BY <1>1, <1>3 DEF Untouched
  <1>7. ~At(t, "idle")
    BY <1>1 DEF At
  <1> QED BY <1>1, <1>4, <1>5, <1>6, <1>7, InsideCall

LEMMA StoppedFacts ==
    ASSUME NEW d \in Calls, NEW x \in BOOLEAN
    PROVE  LET c == [d EXCEPT !.b_stop_scanning = x] IN
           /\ c \in Calls /\ c.b_stop_scanning = x
           /\ c.start = d.start /\ c.i_pos = d.i_pos /\ c.i_len = d.i_len
           /\ c.i_reads = d.i_reads /\ c.i_encrypted = d.i_encrypted
           /\ c.p_titlekey = d.p_titlekey
  BY DEF Calls

LEMMA StoreInv ==
    ASSUME Inv, NEW t \in Threads, Store(t)
    PROVE  Inv'
  <1> DEFINE res == call[t].p_titlekey # ZeroKey
             c == [call[t] EXCEPT !.b_stop_scanning = res]
             n == IF res THEN 1 ELSE 0
  <1>1. /\ pc[t] = "Store" /\ i_success' = call[t].i_success + n
        /\ NextBlock(t, c)
        /\ UNCHANGED <<dev, i_ret, overlapped, astray>>
    BY DEF Store, At
  <1>2. res \in BOOLEAN /\ n \in {0, 1} /\ (res <=> n = 1)
    OBVIOUS
  <1>3. call[t] \in Calls
    BY DEF Inv, Types
  <1> HIDE DEF res, n
  <1>4. /\ c \in Calls
        /\ c.start = call[t].start /\ c.i_pos = call[t].i_pos /\ c.i_len = call[t].i_len
        /\ c.i_reads = call[t].i_reads /\ c.i_encrypted = call[t].i_encrypted
        /\ c.p_titlekey = call[t].p_titlekey
    BY <1>2, <1>3, StoppedFacts, Zenon
  <1>5. c.b_stop_scanning = res
    BY <1>2, <1>3, StoppedFacts, Zenon
  <1> HIDE DEF c
  <1>6. ThreadInv(t)
    BY DEF Inv
  <1>7. c.i_encrypted <= c.i_reads + 1
    BY <1>4, <1>6 DEF ThreadInv, Counted
  <1>8. i_success' \in Nat
    BY <1>1, <1>2, <1>3 DEF Calls
  <1>9. ~overlapped[t] => (IF c.b_stop_scanning THEN i_success' > 0 ELSE i_success' = 0)
    <2>1. ~overlapped[t] => call[t].i_success = 0
      BY <1>1, <1>6 DEF ThreadInv, Own, At
    <2> QED BY <1>1, <1>2, <1>5, <2>1
  <1>10. ASSUME ~overlapped[t], ~astray[t]
         PROVE  /\ c.i_pos \in DiscBlocks /\ Disc[c.i_pos] # "nonmpeg"
                /\ Clean(c) /\ Early(c)
                /\ c.b_stop_scanning => Disc[c.i_pos] \in Keys /\ c.p_titlekey = Disc[c.i_pos]
                /\ ~c.b_stop_scanning =>
                      /\ Disc[c.i_pos] \notin Keys
                      /\ c.i_encrypted = 0 => Disc[c.i_pos] = "clean"
    <2>1. /\ c.i_encrypted > 0 /\ c.i_pos \in DiscBlocks
          /\ Disc[c.i_pos] \in Keys \cup {"norecovery"}
          /\ c.p_titlekey = IF Disc[c.i_pos] \in Keys THEN Disc[c.i_pos] ELSE ZeroKey
      BY <1>1, <1>4, <1>6, <1>10 DEF ThreadInv, Knows, At, InAttack
    <2>2. Disc[c.i_pos] # "nonmpeg"
      BY <2>1, KeysAssumption DEF Kinds
    <2>3. c.b_stop_scanning <=> c.p_titlekey # ZeroKey
      BY <1>4, <1>5 DEF res
    <2>4. c.b_stop_scanning <=> Disc[c.i_pos] \in Keys
      BY <2>1, <2>3, KeysAssumption
    <2>5. Clean(c) /\ Early(c)
      BY <2>1 DEF Clean, Early
    <2> QED BY <2>1, <2>2, <2>4, <2>5
  <1>11. /\ dev' \in [Threads -> [i_pos : Int, off : Int, opened : BOOLEAN]]
         /\ \A s \in Threads \ {t} : dev'[s] = dev[s]
         /\ ~astray[t] /\ dev'[t].i_pos # -1 => dev'[t].off = dev'[t].i_pos
    BY <1>1, <1>6 DEF Inv, Types, ThreadInv, Placed
  <1>12. pc[t] \in {"Read", "Store"} /\ UNCHANGED <<i_ret, overlapped, astray>>
    BY <1>1
  <1> QED BY <1>4, <1>7, <1>8, <1>9, <1>10, <1>1, <1>11, <1>12, BlockDone

\* What is known when a block is read.
LEMMA AtRead ==
    ASSUME Inv, NEW t \in Threads, At(t, "Read")
    PROVE  /\ call[t] \in Calls /\ call[t].i_len > 0
           /\ call[t].i_reads + call[t].i_len = MaxLen
           /\ call[t].i_encrypted <= call[t].i_reads
           /\ ~astray[t] => dev[t].i_pos = call[t].i_pos /\ dev[t].off = call[t].i_pos
           /\ ~overlapped[t] => i_success = 0 /\ ~call[t].b_stop_scanning
           /\ ~overlapped[t] /\ ~astray[t] => /\ Passed(call[t]) /\ Keyless(call[t])
                                              /\ Clean(call[t]) /\ Early(call[t])
  <1>1. call[t] \in Calls /\ ThreadInv(t) /\ pc[t] = "Read"
    BY DEF Inv, Types, At
  <1>2. /\ call[t].i_len > 0 /\ call[t].i_reads + call[t].i_len = MaxLen
        /\ call[t].i_encrypted <= call[t].i_reads
    BY <1>1 DEF ThreadInv, Counted, InLoop, InAttack
  <1>3. ~overlapped[t] => i_success = 0 /\ ~call[t].b_stop_scanning
    BY <1>1 DEF ThreadInv, Own, InLoop, At
  <1>4. ~astray[t] => dev[t].i_pos = call[t].i_pos /\ dev[t].off = call[t].i_pos
    BY <1>1 DEF ThreadInv, Placed, At
  <1>5. ~overlapped[t] /\ ~astray[t] => /\ Passed(call[t]) /\ Keyless(call[t])
                                        /\ Clean(call[t]) /\ Early(call[t])
    BY <1>1, <1>3 DEF ThreadInv, Knows, InLoop, At
  <1> QED BY <1>1, <1>2, <1>3, <1>4, <1>5

LEMMA ErrorFacts ==
    ASSUME NEW c \in Calls
    PROVE  /\ ErrorNoted(c) \in Calls
           /\ ErrorNoted(c).start = c.start /\ ErrorNoted(c).i_pos = c.i_pos
           /\ ErrorNoted(c).i_len = c.i_len /\ ErrorNoted(c).i_reads = c.i_reads
           /\ ErrorNoted(c).i_encrypted = c.i_encrypted
           /\ ErrorNoted(c).b_stop_scanning = c.b_stop_scanning
           /\ ErrorNoted(c).b_read_error = TRUE
           /\ ErrorNoted(c).p_titlekey = c.p_titlekey
           /\ ErrorNoted(c).i_success = c.i_success
  BY DEF ErrorNoted, Calls

\* A read that fails for the first time.
LEMMA ResetInv ==
    ASSUME Inv, NEW t \in Threads, At(t, "Read"),
           NEW r \in Outcomes, r.i_pos = -1, ResetDrive(t, r),
           UNCHANGED <<i_success, i_ret, overlapped, astray>>
    PROVE  Inv'
  <1> DEFINE c == ErrorNoted(call[t])
             l == IF GoesOn(call[t]) THEN "Seek" ELSE "Result"
  <1>1. PICK ok \in BOOLEAN :
            dev' = [dev EXCEPT ![t] = [i_pos |-> r.i_pos, off |-> 0, opened |-> ok]]
    BY DEF ResetDrive
  <1>2. call' = [call EXCEPT ![t] = c] /\ pc' = [pc EXCEPT ![t] = l]
    BY DEF ResetDrive, Goto
  <1>3. call[t] \in Calls /\ ThreadInv(t) /\ pc[t] = "Read"
    BY DEF Inv, Types, At
  <1>4. /\ c \in Calls
        /\ c.start = call[t].start /\ c.i_pos = call[t].i_pos /\ c.i_len = call[t].i_len
        /\ c.i_reads = call[t].i_reads /\ c.i_encrypted = call[t].i_encrypted
        /\ c.b_stop_scanning = call[t].b_stop_scanning
        /\ c.b_read_error = TRUE /\ c.p_titlekey = call[t].p_titlekey
    BY <1>3, ErrorFacts
  <1>5. /\ l \in {"Seek", "Result"}
        /\ ~overlapped[t] => l = "Seek"
    BY AtRead DEF GoesOn
  <1> HIDE DEF c, l
  <1>6. /\ call'[t] = c /\ pc'[t] = l
        /\ pc' \in [Threads -> Labels] /\ call' \in [Threads -> Calls]
        /\ \A s \in Threads \ {t} : pc'[s] = pc[s] /\ call'[s] = call[s]
    BY <1>2, <1>4, <1>5 DEF Inv, Types, Labels
  <1>7. /\ dev' \in [Threads -> [i_pos : Int, off : Int, opened : BOOLEAN]]
        /\ dev'[t].i_pos = -1
        /\ \A s \in Threads \ {t} : dev'[s] = dev[s]
    BY <1>1 DEF Inv, Types
  <1>8. Types'
    BY <1>6, <1>7 DEF Inv, Types
  <1>9. ThreadInv(t)'
    <2>1. Counted(t)'
      BY <1>3, <1>4, <1>5, <1>6 DEF ThreadInv, Counted, InLoop, InAttack
    <2>2. Own(t)'
      <3>1. ~overlapped[t] => /\ \A s \in Threads \ {t} : At(s, "idle")'
                              /\ i_success = 0 /\ ~c.b_stop_scanning
        BY <1>3, <1>4, <1>6 DEF ThreadInv, Own, At, InLoop
      <3> QED BY <1>5, <1>6, <3>1 DEF Own, At
    <2>3. Placed(t)'
      BY <1>5, <1>6, <1>7 DEF Placed, At
    <2>4. Knows(t)'
      <3>1. ~overlapped[t] /\ ~astray[t] => Passed(c) /\ Keyless(c) /\ Clean(c) /\ Early(c)
        BY <1>4, AtRead DEF Passed, Keyless, Clean, Early, Behind
      <3> QED BY <1>5, <1>6, <3>1 DEF Knows, At, InAttack
    <2>5. Told(t)'
      BY <1>5, <1>6 DEF Told, Returned, At
    <2> QED BY <2>1, <2>2, <2>3, <2>4, <2>5 DEF ThreadInv
  <1>10. \A s \in Threads \ {t} : Untouched(s)
    BY <1>6, <1>7 DEF Untouched
  <1>11. ~At(t, "idle")
    BY <1>3 DEF At
  <1> QED BY <1>8, <1>9, <1>10, <1>11, InsideCall

LEMMA TriedFacts ==
    ASSUME NEW d \in Calls, d.i_len > 0, d.i_reads + d.i_len = MaxLen,
           d.i_encrypted <= d.i_reads
    PROVE  LET c == [d EXCEPT !.i_encrypted = @ + 1] IN
           /\ c \in Calls /\ c.i_encrypted > 0 /\ c.i_encrypted <= c.i_reads + 1
           /\ c.start = d.start /\ c.i_pos = d.i_pos /\ c.i_len = d.i_len
           /\ c.i_reads = d.i_reads /\ c.b_stop_scanning = d.b_stop_scanning
           /\ c.b_read_error = d.b_read_error
  <1> DEFINE n == d.i_encrypted + 1
  <1>1. n \in 0 .. MaxLen /\ n > 0 /\ n <= d.i_reads + 1
    BY Limits DEF Calls
  <1> HIDE DEF n
  <1>2. LET c == [d EXCEPT !.i_encrypted = n] IN
        /\ c \in Calls /\ c.i_encrypted = n
        /\ c.start = d.start /\ c.i_pos = d.i_pos /\ c.i_len = d.i_len
        /\ c.i_reads = d.i_reads /\ c.b_stop_scanning = d.b_stop_scanning
        /\ c.b_read_error = d.b_read_error
    BY <1>1 DEF Calls
  <1> QED BY <1>1, <1>2 DEF n

LEMMA KeySetFacts ==
    ASSUME NEW d \in Calls, NEW k \in Keys \cup {ZeroKey}
    PROVE  LET c == [d EXCEPT !.p_titlekey = k] IN
           /\ c \in Calls /\ c.p_titlekey = k
           /\ c.start = d.start /\ c.i_pos = d.i_pos /\ c.i_len = d.i_len
           /\ c.i_reads = d.i_reads /\ c.i_encrypted = d.i_encrypted
           /\ c.b_stop_scanning = d.b_stop_scanning
           /\ c.b_read_error = d.b_read_error
  BY DEF Calls

\* A block of the stream has been read.
LEMMA AttackInv ==
    ASSUME Inv, NEW t \in Threads, At(t, "Read"),
           NEW r \in Outcomes, Moved(t, r),
           dev[t].off < DiscSize, r.i_pos = dev[t].i_pos + 1, r.off = dev[t].off + 1,
           Disc[dev[t].off] # "nonmpeg", Attack(t, Disc[dev[t].off]),
           UNCHANGED <<i_success, i_ret, overlapped, astray>>
    PROVE  Inv'
  <1> DEFINE block == Disc[dev[t].off]
             c == [call[t] EXCEPT !.i_encrypted = @ + 1]
             k == IF block \in Keys THEN block ELSE ZeroKey
             d == [c EXCEPT !.p_titlekey = k]
  <1>1. /\ call[t] \in Calls /\ call[t].i_len > 0
        /\ call[t].i_reads + call[t].i_len = MaxLen
        /\ call[t].i_encrypted <= call[t].i_reads
    BY AtRead
  <1>2. /\ c \in Calls /\ c.i_encrypted > 0 /\ c.i_encrypted <= c.i_reads + 1
        /\ c.start = call[t].start /\ c.i_pos = call[t].i_pos /\ c.i_len = call[t].i_len
        /\ c.i_reads = call[t].i_reads /\ c.b_stop_scanning = call[t].b_stop_scanning
        /\ c.b_read_error = call[t].b_read_error
    BY <1>1, TriedFacts
  <1>3. /\ dev' \in [Threads -> [i_pos : Int, off : Int, opened : BOOLEAN]]
        /\ dev'[t].i_pos = r.i_pos /\ dev'[t].off = r.off
        /\ \A s \in Threads \ {t} : dev'[s] = dev[s]
    BY MovedFacts DEF Inv
  <1>4. ~astray[t] => dev'[t].off = dev'[t].i_pos
    BY <1>3, AtRead
  <1>5. ~astray[t] => /\ call[t].i_pos \in DiscBlocks
                      /\ block = Disc[call[t].i_pos]
                      /\ block \in Kinds \cup Keys
    BY <1>1, AtRead, DiscAssumption DEF DiscBlocks, Calls
  <1>6. block # "nonmpeg"
    OBVIOUS
  <1>7. /\ i_success \in Nat
        /\ pc[t] = "Read" /\ ThreadInv(t)
    BY DEF Inv, Types, At
  <1>8. /\ ~overlapped[t] => i_success = 0 /\ ~call[t].b_stop_scanning
        /\ ~overlapped[t] /\ ~astray[t] => /\ Passed(call[t]) /\ Keyless(call[t])
                                           /\ Clean(call[t]) /\ Early(call[t])
    BY AtRead
  <1>9. \/ block \notin Keys \cup {"nopattern", "norecovery"} /\ NextBlock(t, call[t])
        \/ block = "nopattern" /\ NextBlock(t, c)
        \/ /\ block \in Keys \cup {"norecovery"}
           /\ call' = [call EXCEPT ![t] = d]
           /\ pc' = [pc EXCEPT ![t] = "Load"]
    BY DEF Attack, Goto
  <1> HIDE DEF block, c, d, k
  <1>10. CASE block \notin Keys \cup {"nopattern", "norecovery"} /\ NextBlock(t, call[t])
    <2>1. ~astray[t] => block = "clean"
      BY <1>5, <1>6, <1>10 DEF Kinds
    <2>2. ~overlapped[t] /\ ~astray[t] =>
              /\ call[t].i_pos \in DiscBlocks /\ Disc[call[t].i_pos] # "nonmpeg"
              /\ Clean(call[t]) /\ Early(call[t])
              /\ ~call[t].b_stop_scanning
              /\ Disc[call[t].i_pos] \notin Keys /\ Disc[call[t].i_pos] = "clean"
      BY <1>5, <1>6, <1>8, <1>10, <2>1
    <2>3. call[t].i_encrypted <= call[t].i_reads + 1
      BY <1>1 DEF Calls
    <2>4. ~overlapped[t] => IF call[t].b_stop_scanning THEN i_success' > 0 ELSE i_success' = 0
      BY <1>8
    <2> QED BY <1>1, <1>3, <1>4, <1>7, <1>10, <2>2, <2>3, <2>4, BlockDone
  <1>11. CASE block = "nopattern" /\ NextBlock(t, c)
    <2>1. Clean(c) /\ Early(c)
      BY <1>2 DEF Clean, Early
    <2>2. block \notin Keys /\ c.i_encrypted # 0
      BY <1>2, <1>11, KeysAssumption DEF Kinds
    <2>3. ~overlapped[t] /\ ~astray[t] =>
              /\ c.i_pos \in DiscBlocks /\ Disc[c.i_pos] # "nonmpeg"
              /\ ~c.b_stop_scanning
              /\ Disc[c.i_pos] \notin Keys
      BY <1>2, <1>5, <1>6, <1>8, <2>2
    <2>4. ~overlapped[t] => IF c.b_stop_scanning THEN i_success' > 0 ELSE i_success' = 0
      BY <1>2, <1>8
    <2> QED BY <1>2, <1>3, <1>4, <1>7, <1>11, <2>1, <2>2, <2>3, <2>4, BlockDone
  <1>12. CASE /\ block \in Keys \cup {"norecovery"}
              /\ call' = [call EXCEPT ![t] = d]
              /\ pc' = [pc EXCEPT ![t] = "Load"]
    <2>1. k \in Keys \cup {ZeroKey}
      BY DEF k
    <2>2. /\ d \in Calls /\ d.p_titlekey = k
          /\ d.start = c.start /\ d.i_pos = c.i_pos /\ d.i_len = c.i_len
          /\ d.i_reads = c.i_reads /\ d.i_encrypted = c.i_encrypted
          /\ d.b_stop_scanning = c.b_stop_scanning
      BY <1>2, <2>1, KeySetFacts DEF d
    <2>3. /\ call'[t] = d /\ pc'[t] = "Load"
          /\ pc' \in [Threads -> Labels] /\ call' \in [Threads -> Calls]
          /\ \A s \in Threads \ {t} : pc'[s] = pc[s] /\ call'[s] = call[s]
      BY <1>12, <2>2 DEF Inv, Types, Labels
    <2>4. Types'
      BY <1>3, <2>3 DEF Inv, Types
    <2>5. Counted(t)'
      BY <1>2, <1>7, <2>2, <2>3 DEF ThreadInv, Counted, InLoop, InAttack
    <2>6. Own(t)'
      <3>1. ~overlapped[t] => \A s \in Threads \ {t} : At(s, "idle")'
        BY <1>7, <2>3 DEF ThreadInv, Own, At
      <3>2. ~overlapped[t] => i_success' = 0 /\ ~d.b_stop_scanning
        BY <1>2, <1>8, <2>2
      <3> QED BY <2>3, <3>1, <3>2 DEF Own, At
    <2>7. Placed(t)'
      BY <1>4, <2>3 DEF Placed, At
    <2>8. Knows(t)'
      <3> SUFFICES ASSUME ~overlapped[t], ~astray[t]
                   PROVE  Knows(t)'
        BY DEF Knows
      <3>1. Passed(d) /\ Keyless(d)
        BY <1>2, <1>8, <2>2 DEF Passed, Keyless, Behind
      <3>2. Clean(d) /\ Early(d)
        BY <1>2, <2>2 DEF Clean, Early
      <3>3. /\ d.i_encrypted > 0 /\ d.i_pos \in DiscBlocks
            /\ Disc[d.i_pos] \in Keys \cup {"norecovery"}
            /\ d.p_titlekey = IF Disc[d.i_pos] \in Keys THEN Disc[d.i_pos] ELSE ZeroKey
        BY <1>2, <1>5, <1>12, <2>2 DEF k
      <3> QED BY <2>3, <3>1, <3>2, <3>3 DEF Knows, At, InLoop, InAttack
    <2>9. Told(t)'
      BY <2>3 DEF Told, Returned, At
    <2>10. ThreadInv(t)'
      BY <2>5, <2>6, <2>7, <2>8, <2>9 DEF ThreadInv
    <2>11. \A s \in Threads \ {t} : Untouched(s)
      BY <1>3, <2>3 DEF Untouched
    <2>12. ~At(t, "idle")
      BY <1>7 DEF At
    <2> QED BY <2>4, <2>10, <2>11, <2>12, InsideCall
  <1> QED BY <1>9, <1>10, <1>11, <1>12

LEMMA ReadInv ==
    ASSUME Inv, NEW t \in Threads, Read(t)
    PROVE  Inv'
  <1>1. At(t, "Read") /\ UNCHANGED <<i_success, i_ret, overlapped, astray>>
    BY DEF Read
  <1>2. PICK r \in Device(t)!pf_read(1) :
            \/ r.i_ret = 0 /\ Goto(t, "Result") /\ Moved(t, r) /\ UNCHANGED call
            \/ r.i_ret < 0 /\ ResetDrive(t, r)
            \/ /\ r.i_ret < 0
               /\ call[t].b_read_error
               /\ Goto(t, "Result") /\ Moved(t, r) /\ UNCHANGED call
            \/ /\ r.i_ret > 0
               /\ ~IsMpeg(Disc[dev[t].off])
               /\ Goto(t, "Result") /\ Moved(t, r) /\ UNCHANGED call
            \/ /\ r.i_ret > 0
               /\ IsMpeg(Disc[dev[t].off])
               /\ Attack(t, Disc[dev[t].off])
               /\ Moved(t, r)
    BY DEF Read
  <1>3. dev[t] \in [i_pos : Int, off : Int, opened : BOOLEAN]
    BY DEF Inv, Types
  <1>4. /\ r \in Outcomes
        /\ r.i_ret < 0 => r.i_pos = -1
        /\ r.i_ret = 0 => DiscSize <= dev[t].off /\ (r.i_pos # -1 => r.off = r.i_pos)
        /\ r.i_ret > 0 => /\ dev[t].off < DiscSize
                          /\ r.i_pos = dev[t].i_pos + 1
                          /\ r.off = dev[t].off + 1
    BY <1>3, ReadOutcomes
  <1>5. ~astray[t] => dev[t].i_pos = call[t].i_pos /\ dev[t].off = call[t].i_pos
    BY <1>1, AtRead
  <1>6. CASE r.i_ret = 0 /\ Goto(t, "Result") /\ Moved(t, r) /\ UNCHANGED call
    <2>1. ~astray[t] => call[t].i_pos \notin DiscBlocks
      BY <1>3, <1>4, <1>5, <1>6, Limits DEF DiscBlocks
    <2>2. ~astray[t] => Ended(call[t])
      BY <2>1 DEF Ended, TitleEnds
    <2> QED BY <1>1, <1>4, <1>6, <2>2, LeavesLoop
  <1>7. CASE r.i_ret < 0 /\ ResetDrive(t, r)
    BY <1>1, <1>4, <1>7, ResetInv
  <1>8. CASE /\ r.i_ret < 0
             /\ call[t].b_read_error
             /\ Goto(t, "Result") /\ Moved(t, r) /\ UNCHANGED call
    <2>1. Ended(call[t])
      BY <1>8 DEF Ended
    <2> QED BY <1>1, <1>4, <1>8, <2>1, LeavesLoop
  <1>9. CASE /\ r.i_ret > 0
             /\ ~IsMpeg(Disc[dev[t].off])
             /\ Goto(t, "Result") /\ Moved(t, r) /\ UNCHANGED call
    <2>1. ~astray[t] => Ended(call[t])
      BY <1>5, <1>9 DEF Ended, TitleEnds, IsMpeg
    <2>2. ~astray[t] => r.off = r.i_pos
      BY <1>4, <1>5, <1>9
    <2> QED BY <1>1, <1>4, <1>9, <2>1, <2>2, LeavesLoop
  <1>10. CASE /\ r.i_ret > 0
              /\ IsMpeg(Disc[dev[t].off])
              /\ Attack(t, Disc[dev[t].off])
              /\ Moved(t, r)
    BY <1>1, <1>4, <1>10, AttackInv DEF IsMpeg
  <1> QED BY <1>2, <1>6, <1>7, <1>8, <1>9, <1>10

(***************************************************************************)
(* The result.                                                             *)
(***************************************************************************)
\* The title does not go beyond the block at which it ends.
LEMMA RestEnds ==
    ASSUME NEW c \in Calls, c.i_pos = c.start + c.i_reads, TitleEnds(c)
    PROVE  c.i_pos \notin Rest(c.start) /\ Rest(c.start) \subseteq Behind(c)
  <1>1. c.start \in Nat /\ c.i_pos \in Nat /\ c.start <= c.i_pos
    BY Limits DEF Calls
  <1>2. ASSUME NEW b \in Rest(c.start) PROVE b < c.i_pos
    <2>1. /\ b \in c.start .. DiscSize - 1
          /\ \A d \in c.start .. b : Disc[d] # "nonmpeg"
      BY DEF Rest
    <2>2. CASE b >= c.i_pos
      <3>1. c.i_pos \in c.start .. b /\ c.i_pos \in DiscBlocks
        BY <1>1, <2>1, <2>2, Limits DEF DiscBlocks
      <3> QED BY <2>1, <3>1 DEF TitleEnds
    <2> QED BY <1>1, <2>1, <2>2, Limits
  <1>3. ASSUME NEW b \in Rest(c.start) PROVE b \in Behind(c)
    <2>1. b \in c.start .. DiscSize - 1
      BY DEF Rest
    <2> QED BY <1>1, <1>2, <2>1, Limits DEF Behind
  <1> QED BY <1>1, <1>2, <1>3

\* A key that the loop stops at is one of the title.
LEMMA KeyFound ==
    ASSUME NEW c \in Calls, c.i_pos = c.start + c.i_reads, c.i_reads > 0,
           Passed(c), Disc[c.i_pos - 1] \in Keys, c.p_titlekey = Disc[c.i_pos - 1]
    PROVE  \E b \in Rest(c.start) : Disc[b] \in Keys /\ Disc[b] = c.p_titlekey
  <1>1. c.start \in Nat /\ c.i_pos \in Nat /\ c.start <= c.i_pos - 1
    BY Limits DEF Calls
  <1>2. c.i_pos - 1 \in Behind(c)
    BY <1>1 DEF Behind
  <1>3. c.i_pos - 1 \in DiscBlocks
    BY <1>2 DEF Passed
  <1>4. c.i_pos - 1 \in Rest(c.start)
    BY <1>1, <1>3, Limits DEF Rest, Passed, Behind, DiscBlocks
  <1> QED BY <1>4

LEMMA ResultInv ==
    ASSUME Inv, NEW t \in Threads, Result(t)
    PROVE  Inv'
  <1> DEFINE c == call[t]
             d == [c EXCEPT !.p_titlekey = ZeroKey]
             n == IF c.i_encrypted = 0 /\ c.i_reads > 0 THEN 0 ELSE -1
  <1>1. /\ pc[t] = "Result" /\ pc' = [pc EXCEPT ![t] = "idle"]
        /\ UNCHANGED <<i_success, dev, overlapped, astray>>
    BY DEF Result, At, Goto
  <1>2. \/ i_success > 0 /\ i_ret' = [i_ret EXCEPT ![t] = 1] /\ UNCHANGED call
        \/ /\ ~(i_success > 0)
           /\ i_ret' = [i_ret EXCEPT ![t] = n]
           /\ call' = [call EXCEPT ![t] = d]
    BY DEF Result
  <1>3. c \in Calls /\ ThreadInv(t)
    BY DEF Inv, Types
  <1>4. n \in {-1, 0} /\ (n = 0 <=> c.i_encrypted = 0 /\ c.i_reads > 0)
    OBVIOUS
  <1>5. /\ d \in Calls
        /\ d.start = c.start /\ d.i_pos = c.i_pos /\ d.i_len = c.i_len
        /\ d.i_reads = c.i_reads /\ d.i_encrypted = c.i_encrypted
        /\ d.b_read_error = c.b_read_error
    BY <1>3, KeySetFacts
  <1> HIDE DEF c, d, n
  <1>6. /\ pc'[t] = "idle" /\ pc' \in [Threads -> Labels]
        /\ \A s \in Threads \ {t} : pc'[s] = pc[s]
    BY <1>1 DEF Inv, Types, Labels
  <1>7. CASE i_success > 0 /\ i_ret' = [i_ret EXCEPT ![t] = 1] /\ UNCHANGED call
    <2>1. call'[t] = c /\ i_ret'[t] = 1 /\ i_ret' \in [Threads -> {-1, 0, 1}]
      BY <1>7 DEF Inv, Types, c
    <2>2. Types'
      BY <1>1, <1>6, <1>7, <2>1 DEF Inv, Types
    <2>3. Told(t)'
      <3> SUFFICES ASSUME ~overlapped[t], ~astray[t]
                   PROVE  \E b \in Rest(c.start) : Disc[b] \in Keys /\ Disc[b] = c.p_titlekey
        BY <1>1, <2>1 DEF Told, Returned
      <3>1. c.b_stop_scanning
        BY <1>1, <1>3, <1>7 DEF ThreadInv, Own, At, c
      <3>2. /\ Passed(c) /\ c.i_reads > 0
            /\ Disc[c.i_pos - 1] \in Keys /\ c.p_titlekey = Disc[c.i_pos - 1]
        BY <1>1, <1>3, <3>1 DEF ThreadInv, Knows, At, c
      <3>3. c.i_pos = c.start + c.i_reads
        BY <1>3 DEF ThreadInv, Counted, c
      <3> QED BY <1>3, <3>2, <3>3, KeyFound
    <2>4. Counted(t)'
      BY <1>1, <1>3, <1>6, <1>7 DEF ThreadInv, Counted, InLoop, InAttack
    <2>5. Own(t)' /\ Knows(t)'
      BY <1>6 DEF Own, Knows, At
    <2>6. Placed(t)'
      BY <1>1, <1>3, <1>6 DEF ThreadInv, Placed, At
    <2>7. ThreadInv(t)'
      BY <2>3, <2>4, <2>5, <2>6 DEF ThreadInv
    <2>8. \A s \in Threads \ {t} : Untouched(s)
      BY <1>1, <1>6, <1>7 DEF Untouched, Inv, Types
    <2>9. ~At(t, "idle")
      BY <1>1 DEF At
    <2> QED BY <1>1, <2>2, <2>7, <2>8, <2>9, InsideCall
  <1>8. CASE /\ ~(i_success > 0)
             /\ i_ret' = [i_ret EXCEPT ![t] = n]
             /\ call' = [call EXCEPT ![t] = d]
    <2>1. /\ call'[t] = d /\ call' \in [Threads -> Calls]
          /\ i_ret'[t] = n /\ i_ret' \in [Threads -> {-1, 0, 1}]
          /\ \A s \in Threads \ {t} : call'[s] = call[s] /\ i_ret'[s] = i_ret[s]
      BY <1>4, <1>5, <1>8 DEF Inv, Types
    <2>2. Types'
      BY <1>1, <1>6, <2>1 DEF Inv, Types
    <2>3. Told(t)'
      <3> SUFFICES ASSUME ~overlapped[t], ~astray[t]
                   PROVE  Told(t)'
        BY <1>1 DEF Told, Returned
      <3>1. ~c.b_stop_scanning
        BY <1>1, <1>3, <1>8 DEF ThreadInv, Own, At, c
      <3>2. Keyless(c) /\ Clean(c) /\ Ended(c)
        BY <1>1, <1>3, <3>1 DEF ThreadInv, Knows, At, c
      <3>3. c.i_pos = c.start + c.i_reads /\ c.i_reads + c.i_len = MaxLen
        BY <1>3 DEF ThreadInv, Counted, c
      <3>4. ASSUME n = 0
            PROVE  /\ c.i_reads > 0
                   /\ \A b \in c.start .. c.start + c.i_reads - 1 : Disc[b] = "clean"
                   /\ \/ c.start + c.i_reads \notin Rest(c.start)
                      \/ c.i_reads \in {MaxClean, MaxLen}
                      \/ c.b_read_error
        <4>1. c.i_encrypted = 0 /\ c.i_reads > 0
          BY <1>4, <3>4
        <4>2. \A b \in c.start .. c.start + c.i_reads - 1 : Disc[b] = "clean"
          <5>1. Behind(c) = c.start .. c.start + c.i_reads - 1
            <6>1. c.start \in Nat /\ c.i_reads \in Nat
              BY <1>3, Limits DEF Calls
            <6>2. c.i_pos - 1 = c.start + c.i_reads - 1
              BY <3>3, <6>1
            <6> QED BY <6>2 DEF Behind
          <5> QED BY <3>2, <4>1, <5>1 DEF Clean
        <4>3. CASE TitleEnds(c)
          BY <1>3, <3>3, <4>1, <4>2, <4>3, RestEnds
        <4>4. CASE c.i_len = 0
          BY <1>3, <3>3, <4>1, <4>2, <4>4, Limits DEF Calls
        <4> QED BY <3>2, <4>1, <4>2, <4>3, <4>4 DEF Ended
      <3>5. ASSUME n = -1, ~c.b_read_error, NEW b \in Rest(c.start), b < c.start + MaxLen
            PROVE  Disc[b] \notin Keys
        <4>1. CASE TitleEnds(c)
          BY <1>3, <3>2, <3>3, <4>1, RestEnds DEF Keyless
        <4>2. CASE c.i_len = 0
          <5>1. b \in c.start .. c.i_pos - 1
            BY <1>3, <3>3, <3>5, <4>2, Limits DEF Calls, Rest
          <5> QED BY <3>2, <5>1 DEF Keyless, Behind
        <4>3. CASE c.i_encrypted = 0 /\ c.i_reads = MaxClean
          <5>1. n = 0
            BY <1>4, <4>3, Limits
          <5> QED BY <3>5, <5>1
        <4> QED BY <3>2, <3>5, <4>1, <4>2, <4>3 DEF Ended
      <3>6. n # 1
        BY <1>4
      <3> QED BY <1>5, <2>1, <3>4, <3>5, <3>6 DEF Told
    <2>4. Counted(t)'
      <3>1. /\ c.i_reads + c.i_len = MaxLen /\ c.i_pos = c.start + c.i_reads
            /\ c.i_encrypted <= c.i_reads + 1 /\ c.i_encrypted <= c.i_reads
        BY <1>1, <1>3 DEF ThreadInv, Counted, InLoop, InAttack, c
      <3> QED BY <1>5, <1>6, <2>1, <3>1 DEF Counted, InLoop, InAttack
    <2>5. Own(t)' /\ Knows(t)'
      BY <1>6 DEF Own, Knows, At
    <2>6. Placed(t)'
      BY <1>1, <1>3, <1>6 DEF ThreadInv, Placed, At
    <2>7. ThreadInv(t)'
      BY <2>3, <2>4, <2>5, <2>6 DEF ThreadInv
    <2>8. \A s \in Threads \ {t} : Untouched(s)
      BY <1>1, <1>6, <2>1 DEF Untouched
    <2>9. ~At(t, "idle")
      BY <1>1 DEF At
    <2> QED BY <1>1, <2>2, <2>7, <2>8, <2>9, InsideCall
  <1> QED BY <1>2, <1>7, <1>8

LEMMA NextInv == ASSUME Inv, [Next]_vars PROVE Inv'
  <1>1. ASSUME NEW t \in Threads, (\E b \in Starts : Start(t, b)) \/ Proceeds(t)
        PROVE  Inv'
    BY <1>1, StartInv, SeekInv, ReadInv, LoadInv, StoreInv, ResultInv DEF Proceeds
  <1>2. CASE UNCHANGED vars
    <2>1. Types'
      BY <1>2 DEF Inv, Types, vars
    <2>2. ASSUME NEW t \in Threads PROVE ThreadInv(t)'
      <3>1. ThreadInv(t)
        BY DEF Inv
      <3>2. Counted(t)'
        BY <1>2, <3>1 DEF ThreadInv, Counted, vars
      <3>3. Own(t)'
        BY <1>2, <3>1 DEF ThreadInv, Own, At, vars
      <3>4. Placed(t)'
        BY <1>2, <3>1 DEF ThreadInv, Placed, At, vars
      <3>5. Knows(t)'
        BY <1>2, <3>1 DEF ThreadInv, Knows, At, vars
      <3>6. Told(t)'
        BY <1>2, <3>1 DEF ThreadInv, Told, Returned, At, vars
      <3> QED BY <3>2, <3>3, <3>4, <3>5, <3>6 DEF ThreadInv
    <2> QED BY <2>1, <2>2 DEF Inv
  <1> QED BY <1>1, <1>2 DEF Next

LEMMA Invariant == Spec => []Inv
  BY InitInv, NextInv, PTL DEF Spec

(***************************************************************************)
(* Theorems.                                                               *)
(***************************************************************************)
\* The counters of the loop stay within the limits of a call, 4718592 blocks, and
\* it never counts more scrambled blocks than it has read or is at.
THEOREM CrackTypes == Spec => []TypeOK
  <1>1. Inv => TypeOK
    BY DEF Inv, Types, TypeOK, ThreadInv, Counted
  <1> QED BY <1>1, Invariant, PTL

\* Whatever the calls before have left in i_success, and whatever any other thread
\* does between the calls, the test "i_success > 0" of a call that no other has
\* overlapped finds out whether that call itself has stopped at a key.
THEOREM CountIsOwn == Spec => []SuccessIsOwn
  <1>1. Inv => SuccessIsOwn
    BY DEF Inv, ThreadInv, Own, At, SuccessIsOwn
  <1> QED BY <1>1, Invariant, PTL

\* On any disc and under any faults of the drive, a key that such a call hands over
\* belongs to a block of the title asked for, unless a seek of the handle has failed.
THEOREM KeyIsOfTitle == Spec => []KeyOfTitle
  <1>1. Inv => KeyOfTitle
    BY DEF Inv, ThreadInv, Told, KeyOfTitle
  <1> QED BY <1>1, Invariant, PTL

\* "Unencrypted" is reported only of a title that has been looked at: up to its end,
\* to a limit, or to a read error.
THEOREM UnencryptedIsSeen == Spec => []UnencryptedSeen
  <1>1. Inv => UnencryptedSeen
    BY DEF Inv, ThreadInv, Told, UnencryptedSeen
  <1> QED BY <1>1, Invariant, PTL

\* A call that fails without a read error has missed no block that gives the key away.
THEOREM NothingIsMissed == Spec => []NothingMissed
  <1>1. Inv => NothingMissed
    BY DEF Inv, ThreadInv, Told, NothingMissed
  <1> QED BY <1>1, Invariant, PTL

(***************************************************************************)
(* Every crack comes to its end.                                           *)
(***************************************************************************)
\* What StepsLeft is computed from.
BlocksLeft(t) == call[t].i_len
ErrorsLeft(t) == IF call[t].b_read_error THEN 0 ELSE 1

StepsOf(t) ==
    /\ BlocksLeft(t) \in Nat /\ ErrorsLeft(t) \in {0, 1}
    /\ pc[t] \in {"idle", "Result"} => StepsLeft(t) = StepsForBlock[pc[t]]
    /\ pc[t] \in InLoop
          => StepsLeft(t) = StepsForBlock[pc[t]] + 5 * (BlocksLeft(t) + ErrorsLeft(t))

AllSteps == \A t \in Threads : StepsOf(t)

LEMMA LoopSteps == Types => AllSteps
  <1> SUFFICES ASSUME NEW t \in Threads, Types PROVE StepsOf(t)
    BY DEF AllSteps
  <1>1. call[t] \in Calls
    BY DEF Types
  <1>2. BlocksLeft(t) \in Nat
    BY <1>1, LimitsAssumption DEF BlocksLeft, Calls
  <1> QED BY <1>2 DEF StepsOf, ErrorsLeft, StepsLeft, StepsForBlock, InLoop, BlocksLeft

\* The same behind a step.
After(t, l, n, e) == pc'[t] = l /\ call'[t].i_len = n /\ call'[t].b_read_error = e

\* A call whose scrambled blocks are counted, but not yet the block itself.
Locals == [start : Nat, i_pos : Nat, i_len : 0 .. MaxLen, i_reads : 0 .. MaxLen,
           i_encrypted : Nat, b_stop_scanning : BOOLEAN, b_read_error : BOOLEAN,
           p_titlekey : Keys \cup {ZeroKey, Garbage}, i_success : Nat]

LEMMA BlockCounted ==
    ASSUME Types, NEW t \in Threads, NEW c \in Locals, NextBlock(t, c)
    PROVE  \E l \in {"Seek", "Result"} : After(t, l, c.i_len - 1, c.b_read_error)
  <1>1. call'[t] = Advanced(c)
    BY DEF NextBlock, Types
  <1>2. pc'[t] \in {"Seek", "Result"}
    BY DEF NextBlock, Goto, Types
  <1>3. Advanced(c).i_len = c.i_len - 1 /\ Advanced(c).b_read_error = c.b_read_error
    BY DEF Advanced, Locals
  <1> QED BY <1>1, <1>2, <1>3 DEF After

\* A step ends the loop, goes on in the body, counts the block, or notes the error.
LEMMA LoopMoves ==
    ASSUME Types, NEW t \in Threads, Proceeds(t)
    PROVE  LET n == call[t].i_len
               e == call[t].b_read_error
           IN \/ pc[t] = "Result" /\ pc'[t] = "idle"
              \/ pc[t] \in InLoop /\ pc'[t] = "Result"
              \/ pc[t] = "Seek" /\ After(t, "Read", n, e)
              \/ pc[t] = "Read" /\ After(t, "Load", n, e)
              \/ pc[t] = "Load" /\ After(t, "Store", n, e)
              \/ pc[t] \in {"Read", "Store"} /\ After(t, "Seek", n - 1, e)
              \/ pc[t] = "Read" /\ ~e /\ After(t, "Seek", n, TRUE)
  <1> DEFINE n == call[t].i_len
             e == call[t].b_read_error
  <1>1. call[t] \in Calls /\ call[t] \in Locals
    BY LimitsAssumption DEF Types, Calls, Locals
  <1>2. \A l : Goto(t, l) => pc'[t] = l
    BY DEF Goto, Types
  <1>3. ASSUME NEW c \in Locals, c.i_len = n, c.b_read_error = e, NextBlock(t, c)
        PROVE  pc'[t] = "Result" \/ After(t, "Seek", n - 1, e)
    BY <1>3, BlockCounted DEF After
  <1>4. CASE Seek(t)
    BY <1>2, <1>4 DEF Seek, At, After
  <1>5. CASE Read(t)
    <2>1. PICK r \in Device(t)!pf_read(1) :
             \/ pc'[t] = "Result"
             \/ ResetDrive(t, r)
             \/ Attack(t, Disc[dev[t].off])
      BY <1>2, <1>5, Zenon DEF Read
    <2>2. CASE ResetDrive(t, r)
      <3>1. ~e /\ call' = [call EXCEPT ![t] = ErrorNoted(@)] /\ pc'[t] \in {"Seek", "Result"}
        BY <1>2, <2>2 DEF ResetDrive
      <3>2. call'[t] = [call[t] EXCEPT !.b_read_error = TRUE]
        BY <3>1 DEF ErrorNoted, Types
      <3>3. call'[t].i_len = n /\ call'[t].b_read_error = TRUE
        BY <1>1, <3>2 DEF Calls
      <3> QED BY <1>5, <3>1, <3>3 DEF Read, At, InLoop, After
    <2>3. CASE Attack(t, Disc[dev[t].off])
      <3> DEFINE block == Disc[dev[t].off]
                 key == IF block \in Keys THEN block ELSE ZeroKey
                 c == [call[t] EXCEPT !.i_encrypted = @ + 1]
                 d == [c EXCEPT !.p_titlekey = key]
      <3>1. \/ NextBlock(t, call[t])
            \/ NextBlock(t, c)
            \/ call' = [call EXCEPT ![t] = d] /\ pc'[t] = "Load"
        BY <1>2, <2>3 DEF Attack
      <3>2. c.i_len = n /\ c.b_read_error = e /\ d.i_len = n /\ d.b_read_error = e
        BY <1>1 DEF Calls
      <3>3. c \in Locals
        BY <1>1 DEF Locals
      <3>4. call' = [call EXCEPT ![t] = d] => call'[t] = d
        BY DEF Types
      <3> QED BY <1>1, <1>3, <1>5, <3>1, <3>2, <3>3, <3>4 DEF Read, At, InLoop, After
    <2> QED BY <1>5, <2>1, <2>2, <2>3 DEF Read, At, InLoop
  <1>6. CASE Load(t)
    <2>1. call'[t] = [call[t] EXCEPT !.i_success = i_success]
      BY <1>6 DEF Load, Types
    <2>2. call'[t].i_len = n /\ call'[t].b_read_error = e
      BY <1>1, <2>1 DEF Calls
    <2> QED BY <1>2, <1>6, <2>2 DEF Load, At, After
  <1>7. CASE Store(t)
    <2> DEFINE res == call[t].p_titlekey # ZeroKey
               c == [call[t] EXCEPT !.b_stop_scanning = res]
    <2>1. c \in Locals /\ c.i_len = n /\ c.b_read_error = e
      BY <1>1 DEF Locals
    <2>2. NextBlock(t, c)
      BY <1>7 DEF Store
    <2> QED BY <1>3, <1>7, <2>1, <2>2 DEF Store, At, InLoop
  <1>8. CASE Result(t)
    BY <1>2, <1>8 DEF Result, At
  <1> QED BY <1>4, <1>5, <1>6, <1>7, <1>8 DEF Proceeds

LEMMA StepDescends ==
    ASSUME Types, AllSteps, AllSteps', NEW t \in Threads, Proceeds(t)
    PROVE  StepsLeft(t)' \in 0 .. StepsLeft(t) - 1
  <1> DEFINE l == pc[t]
             m == pc'[t]
             n == BlocksLeft(t)
             e == ErrorsLeft(t)
             k == BlocksLeft(t)'
             f == ErrorsLeft(t)'
  <1>1. /\ n \in Nat /\ e \in {0, 1}
        /\ l = "Result" => StepsLeft(t) = 1
        /\ l \in InLoop => StepsLeft(t) = StepsForBlock[l] + 5 * (n + e)
    BY DEF AllSteps, StepsOf, StepsForBlock
  <1>2. /\ k \in Nat /\ f \in {0, 1}
        /\ m = "idle" => StepsLeft(t)' = 0
        /\ m = "Result" => StepsLeft(t)' = 1
        /\ m \in InLoop => StepsLeft(t)' = StepsForBlock[m] + 5 * (k + f)
    BY DEF AllSteps, StepsOf, StepsForBlock, InLoop
  <1>4. \/ l = "Result" /\ m = "idle"
        \/ l \in InLoop /\ m = "Result"
        \/ /\ <<l, m>> \in {<<"Seek", "Read">>, <<"Read", "Load">>, <<"Load", "Store">>}
           /\ k = n /\ f = e
        \/ l \in {"Read", "Store"} /\ m = "Seek" /\ k = n - 1 /\ f = e
        \/ l = "Read" /\ m = "Seek" /\ k = n /\ e = 1 /\ f = 0
    BY LoopMoves DEF After, BlocksLeft, ErrorsLeft
  <1> HIDE DEF l, m, n, e, k, f
  <1>5. CASE l = "Result" /\ m = "idle"
    BY <1>1, <1>2, <1>5
  <1>6. CASE l \in InLoop /\ m = "Result"
    BY <1>1, <1>2, <1>6 DEF InLoop, StepsForBlock
  <1>7. CASE l \in {"Read", "Store"} /\ m = "Seek" /\ k = n - 1 /\ f = e
    BY <1>1, <1>2, <1>7 DEF InLoop, StepsForBlock
  <1>8. CASE l = "Read" /\ m = "Seek" /\ k = n /\ e = 1 /\ f = 0
    BY <1>1, <1>2, <1>8 DEF InLoop, StepsForBlock
  <1>9. CASE /\ <<l, m>> \in {<<"Seek", "Read">>, <<"Read", "Load">>, <<"Load", "Store">>}
             /\ k = n /\ f = e
    BY <1>1, <1>2, <1>9 DEF InLoop, StepsForBlock
  <1> QED BY <1>4, <1>5, <1>6, <1>7, <1>8, <1>9

\* However often the drive fails and whatever the other threads do: a crack ends, as
\* each step leaves fewer before it, of 5 * MaxLen + 10 at most.
THEOREM CracksDescend == Spec => CrackDescends
  <1>1. Inv => AllSteps
    BY LoopSteps DEF Inv
  <1>2. Inv /\ AllSteps /\ AllSteps' /\ [Next]_vars => [Descends]_vars
    BY StepDescends DEF Inv, Descends
  <1> QED BY <1>1, <1>2, Invariant, PTL DEF CrackDescends, Spec

=============================================================================
