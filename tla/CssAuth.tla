------------------------------ MODULE CssAuth ------------------------------
(***************************************************************************)
(* How css.c gets the disc key and the title keys from the drive: the      *)
(* authentication GetBusKey, dvdcss_disckey on dvdcss_open, and            *)
(* dvdcss_titlekey on a seek that asks for a key, with its fallbacks.      *)
(*                                                                         *)
(* Several hosts (processes, or handles of one process) share the drive    *)
(* of module Ioctl.  One action is one ioctl and the straight-line code    *)
(* that follows it, so two hosts interleave at every command.              *)
(***************************************************************************)
EXTENDS Integers, Ioctl

CONSTANTS
    Titles,        \* the blocks a title key is asked for
    Encrypted,     \* those of them whose title has a key
    Methods,       \* the access methods DVDCSS_METHOD selects
    HungSets,      \* the sets of AGIDs other programs may have left behind
    Crashes,       \* whether a host may be killed in the middle of a call
    NoTitle        \* no title key is being asked for

ASSUME EncryptedAssumption == Encrypted \subseteq Titles
ASSUME MethodsAssumption == Methods \subseteq {"KEY", "DISC", "TITLE"}
ASSUME NoTitleAssumption == NoTitle \notin Titles
ASSUME HungAssumption == \A hung \in HungSets : hung \subseteq Agids

VARIABLES
    pc,            \* the command the host issues next
    i_agid,        \* dvdcss->css.i_agid
    i_try,         \* i of the loop of GetBusKey: AGIDs invalidated so far
    p_challenge,   \* the drive's challenge as the host received it
    p_bus_key,     \* dvdcss->css.p_bus_key
    payload,       \* the key block just read, after the XOR with p_bus_key
    p_disc_key,    \* dvdcss->css.p_disc_key
    i_method,      \* dvdcss->i_method
    b_ioctls,      \* dvdcss->b_ioctls
    b_scrambled,   \* dvdcss->b_scrambled
    p_title_key,   \* dvdcss->css.p_title_key
    title,         \* the block of the title key that is being asked for
    caller,        \* who called GetBusKey: dvdcss_open, dvdcss_titlekey, or
                   \* dvdcss_titlekey's fallback through dvdcss_disckey
    i_ret          \* what the call in progress, or the last one, returns

session == <<i_agid, i_try, p_challenge, p_bus_key, payload>>
keys    == <<p_disc_key, i_method, p_title_key>>
setup   == <<b_ioctls, b_scrambled>>
call    == <<title, caller, i_ret>>

vars == <<drive, pc, session, keys, setup, call>>

Labels == {"closed", "Test", "ReportAgid", "InvalidateHung", "SendChallenge",
           "ReportKey1", "ReportChallenge", "SendKey2", "Abort",
           "ReadDiscKey", "DiscASF", "DiscAbort",
           "ReadTitleKey", "TitleASF", "TitleAbort", "Crack", "ready"}

Idle == {"closed", "ready"}

TypeOK ==
    /\ DriveTypeOK
    /\ pc \in [Hosts -> Labels]
    /\ i_agid \in [Hosts -> Agids]
    /\ i_try \in [Hosts -> 0 .. NAgids]
    /\ p_challenge \in [Hosts -> Nonces \cup {NoNonce}]
    /\ p_bus_key \in [Hosts -> Nonces \cup {NoNonce}]
    /\ payload \in [Hosts -> {"none", "good", "zero", "garbled"}]
    /\ p_disc_key \in [Hosts -> {"zero", "right", "wrong"}]
    /\ i_method \in [Hosts -> {"KEY", "DISC", "TITLE"}]
    /\ b_ioctls \in [Hosts -> BOOLEAN]
    /\ b_scrambled \in [Hosts -> BOOLEAN]
    /\ p_title_key \in [Hosts -> {"unset", "zero", "right", "wrong"}]
    /\ title \in [Hosts -> Titles \cup {NoTitle}]
    /\ caller \in [Hosts -> {"open", "title", "fallback"}]
    /\ i_ret \in [Hosts -> {-1, 0, 1}]

\* i_agid of a handle that has not authenticated yet is not initialised, but it
\* is overwritten before it is used: by ReportAgid or by the loop around it.
Init ==
    /\ \E hung \in HungSets : DriveInit(hung)
    /\ pc = [h \in Hosts |-> "closed"]
    /\ i_agid = [h \in Hosts |-> 0]
    /\ i_try = [h \in Hosts |-> 0]
    /\ p_challenge = [h \in Hosts |-> NoNonce]
    /\ p_bus_key = [h \in Hosts |-> NoNonce]
    /\ payload = [h \in Hosts |-> "none"]
    /\ p_disc_key = [h \in Hosts |-> "zero"]
    /\ i_method = [h \in Hosts |-> "TITLE"]
    /\ b_ioctls = [h \in Hosts |-> FALSE]
    /\ b_scrambled = [h \in Hosts |-> TRUE]
    /\ p_title_key = [h \in Hosts |-> "unset"]
    /\ title = [h \in Hosts |-> NoTitle]
    /\ caller = [h \in Hosts |-> "open"]
    /\ i_ret = [h \in Hosts |-> 0]

Goto(h, l) == pc' = [pc EXCEPT ![h] = l]
At(h, l) == pc[h] = l

\* Mutant: the failure of a command of GetBusKey goes unnoticed.
AlwaysProceed(h, ok, l) == Goto(h, l)

\* GetBusKey gives the session up when a command of it fails.
Proceed(h, ok, l) == Goto(h, IF ok THEN l ELSE "Abort")

\* Mutant: the call of ioctl_InvalidateAgid is missing.
InvalidateNothing(a) == UNCHANGED drive

\* Mutant: the call names the first AGID, whichever is meant.
InvalidateFirst(a) == \E ok \in BOOLEAN : ioctl_InvalidateAgid(0, ok)

\* Every error path, and the retry loop, ends the session of an AGID and ignores
\* whether that worked.
Invalidate(a) == \E ok \in BOOLEAN : ioctl_InvalidateAgid(a, ok)

(***************************************************************************)
(* dvdcss_open: the handle, dvdcss_test, and the call of dvdcss_disckey.   *)
(***************************************************************************)
\* The method comes from the environment; whether the target takes ioctls at all
\* (use_ioctls) depends on what was opened.
Open(h) ==
    /\ At(h, "closed")
    /\ \E m \in Methods, io \in BOOLEAN :
          /\ i_method' = [i_method EXCEPT ![h] = m]
          /\ b_ioctls' = [b_ioctls EXCEPT ![h] = io]
          /\ Goto(h, IF io THEN "Test" ELSE "ready")
    /\ b_scrambled' = [b_scrambled EXCEPT ![h] = TRUE]
    /\ p_disc_key' = [p_disc_key EXCEPT ![h] = "zero"]
    /\ caller' = [caller EXCEPT ![h] = "open"]
    /\ UNCHANGED <<drive, session, p_title_key, title, i_ret>>

StartGetBusKey(h) ==
    /\ Goto(h, "ReportAgid")
    /\ i_try' = [i_try EXCEPT ![h] = 0]

\* Only the copyright information changes what dvdcss_open does next: with or
\* without the region information, the disc counts as scrambled when it is.
Test(h) ==
    /\ At(h, "Test")
    /\ \/ /\ ioctl_ReadCopyright(FALSE)
          /\ b_ioctls' = [b_ioctls EXCEPT ![h] = FALSE]
          /\ Goto(h, "ready")
          /\ UNCHANGED <<b_scrambled, i_try>>
       \/ \E copyright \in BOOLEAN :
          /\ ioctl_ReadCopyright(TRUE)
          /\ b_scrambled' = [b_scrambled EXCEPT ![h] = copyright]
          /\ IF copyright THEN StartGetBusKey(h)
                          ELSE Goto(h, "ready") /\ UNCHANGED i_try
          /\ UNCHANGED b_ioctls
    /\ UNCHANGED <<i_agid, p_challenge, p_bus_key, payload, keys, call>>

(***************************************************************************)
(* GetBusKey.                                                              *)
(***************************************************************************)
\* Where dvdcss_disckey returns to, and with what.
DisckeyReturns(h, ret) ==
    /\ Goto(h, IF caller[h] = "open" THEN "ready" ELSE "Crack")
    /\ i_ret' = [i_ret EXCEPT ![h] = ret]

\* dvdcss_titlekey notes the failure and goes on to ask for the title key.
GetBusKeyFails(h) ==
    IF caller[h] = "title"
    THEN Goto(h, "ReadTitleKey") /\ i_ret' = [i_ret EXCEPT ![h] = -1]
    ELSE DisckeyReturns(h, -1)

\* Mutant: the retry loop runs once too often.
RetryOnceMore(h) == i_try[h] <= NAgids

MayRetry(h) == i_try[h] < NAgids

\* On a failure i_agid is what the platform's code copies back: the old value or 0.
ReportAgid(h) ==
    /\ At(h, "ReportAgid")
    /\ \E a \in Agids :
       \/ /\ ioctl_ReportAgid(h, a, TRUE)
          /\ i_agid' = [i_agid EXCEPT ![h] = a]
          /\ Goto(h, "SendChallenge")
          /\ UNCHANGED i_ret
       \/ /\ ioctl_ReportAgid(h, a, FALSE)
          /\ \E old \in {i_agid[h], 0} : i_agid' = [i_agid EXCEPT ![h] = old]
          /\ IF MayRetry(h)
             THEN Goto(h, "InvalidateHung") /\ UNCHANGED i_ret
             ELSE GetBusKeyFails(h)
    /\ UNCHANGED <<i_try, p_challenge, p_bus_key, payload, keys, setup, title, caller>>

\* Mutant: the retry loop does not count.
SameTry(h) == UNCHANGED i_try

NextTry(h) == i_try' = [i_try EXCEPT ![h] = @ + 1]

InvalidateHung(h) ==
    /\ At(h, "InvalidateHung")
    /\ i_agid' = [i_agid EXCEPT ![h] = i_try[h]]
    /\ Invalidate(i_try[h])
    /\ NextTry(h)
    /\ Goto(h, "ReportAgid")
    /\ UNCHANGED <<p_challenge, p_bus_key, payload, keys, setup, call>>

SendChallenge(h) ==
    /\ At(h, "SendChallenge")
    /\ \E ok \in BOOLEAN :
          /\ ioctl_SendChallenge(i_agid[h], ok)
          /\ Proceed(h, ok, "ReportKey1")
    /\ UNCHANGED <<session, keys, setup, call>>

\* The drive's key1 answers the constant challenge of every host; a drive whose
\* answer fits none of the 32 variants is the fault "Key1".
ReportKey1(h) ==
    /\ At(h, "ReportKey1")
    /\ \E ok \in BOOLEAN :
          /\ ioctl_ReportKey1(i_agid[h], ok)
          /\ \/ Proceed(h, ok, "ReportChallenge")
             \/ "Key1" \in Faults /\ Proceed(h, FALSE, "ReportChallenge")
    /\ UNCHANGED <<session, keys, setup, call>>

\* The drive draws its challenge at random: one that nobody holds.
FreshNonces ==
    Nonces \ ({nonce[a] : a \in Agids} \cup {p_challenge[h] : h \in Hosts}
                                       \cup {p_bus_key[h] : h \in Hosts})

ReportChallenge(h) ==
    /\ At(h, "ReportChallenge")
    /\ \E ok \in BOOLEAN, n \in FreshNonces :
          /\ ioctl_ReportChallenge(i_agid[h], n, ok)
          /\ p_challenge' = [p_challenge EXCEPT ![h] = IF ok THEN n ELSE NoNonce]
          /\ Proceed(h, ok, "SendKey2")
    /\ UNCHANGED <<i_agid, i_try, p_bus_key, payload, keys, setup, call>>

\* p_challenge is a local of GetBusKey: it is gone once the bus key is derived.
SendKey2(h) ==
    /\ At(h, "SendKey2")
    /\ \E ok \in BOOLEAN :
          /\ ioctl_SendKey2(i_agid[h], p_challenge[h], ok)
          /\ p_bus_key' = [p_bus_key EXCEPT ![h] = IF ok THEN p_challenge[h] ELSE @]
          /\ Proceed(h, ok, IF caller[h] = "title" THEN "ReadTitleKey"
                                                   ELSE "ReadDiscKey")
    /\ p_challenge' = [p_challenge EXCEPT ![h] = NoNonce]
    /\ UNCHANGED <<i_agid, i_try, payload, keys, setup, call>>

Abort(h) ==
    /\ At(h, "Abort")
    /\ Invalidate(i_agid[h])
    /\ GetBusKeyFails(h)
    /\ UNCHANGED <<session, keys, setup, title, caller>>

(***************************************************************************)
(* dvdcss_disckey, after GetBusKey.                                        *)
(***************************************************************************)
\* Mutant: the bytes of the bus key are taken in the wrong order.
UnhideUnreversed(h, plain) == IF plain = "zero" THEN plain ELSE "garbled"

\* The drive hides what it sends with the bus key of the session; XOR with
\* another bus key leaves garbage.
Unhide(h, plain) ==
    IF nonce[i_agid[h]] = p_bus_key[h] THEN plain ELSE "garbled"

ReadDiscKey(h) ==
    /\ At(h, "ReadDiscKey")
    /\ \/ /\ ioctl_ReadDiscKey(i_agid[h], TRUE)
          /\ payload' = [payload EXCEPT ![h] = Unhide(h, "good")]
          /\ Goto(h, "DiscASF")
          /\ UNCHANGED i_ret
       \/ /\ ioctl_ReadDiscKey(i_agid[h], FALSE)
          /\ DisckeyReturns(h, -1)
          /\ UNCHANGED payload
    /\ UNCHANGED <<i_agid, i_try, p_challenge, p_bus_key, keys, setup, title, caller>>

\* Mutant: the decrypted disc key is not compared with the key it should equal.
DecryptUnverified(h, key, ret) ==
    \/ key = (IF payload[h] = "good" THEN "right" ELSE "wrong") /\ ret = 0
    \/ key = "zero" /\ ret = -1

\* DecryptDiscKey checks its result against the block (whether any player key
\* fits is the disc's business); a garbled block fits none.
DecryptDiscKey(h, key, ret) ==
    \/ payload[h] = "good" /\ key = "right" /\ ret = 0
    \/ key = "zero" /\ ret = -1

\* CrackDiscKey reverses the hash in the block's first bytes.  It fails when its
\* tables cannot be allocated; if no candidate fits it still reports success.
CrackDiscKey(h, key, ret) ==
    \/ payload[h] = "good" /\ key = "right" /\ ret = 0
    \/ payload[h] = "garbled" /\ key = "wrong" /\ ret = 0
    \/ key = "zero" /\ ret = -1

DiscKey(h, key, ret) ==
    CASE i_method[h] = "KEY"   -> DecryptDiscKey(h, key, ret)
      [] i_method[h] = "DISC"  -> CrackDiscKey(h, key, ret)
      [] i_method[h] = "TITLE" -> key = "zero" /\ ret = 0

DiscASF(h) ==
    /\ At(h, "DiscASF")
    /\ \/ /\ ioctl_ReportASF(TRUE) /\ asf
          /\ \E key \in {"zero", "right", "wrong"}, ret \in {-1, 0} :
                /\ DiscKey(h, key, ret)
                /\ p_disc_key' = [p_disc_key EXCEPT ![h] = key]
                /\ i_method' = [i_method EXCEPT ![h] = IF ret = 0 THEN @ ELSE "TITLE"]
          /\ DisckeyReturns(h, 0)
       \/ /\ (ioctl_ReportASF(TRUE) /\ ~asf) \/ ioctl_ReportASF(FALSE)
          /\ Goto(h, "DiscAbort")
          /\ UNCHANGED <<p_disc_key, i_method, i_ret>>
    /\ payload' = [payload EXCEPT ![h] = "none"]
    /\ UNCHANGED <<drive, i_agid, i_try, p_challenge, p_bus_key, p_title_key,
                   setup, title, caller>>

DiscAbort(h) ==
    /\ At(h, "DiscAbort")
    /\ Invalidate(i_agid[h])
    /\ DisckeyReturns(h, -1)
    /\ UNCHANGED <<session, keys, setup, title, caller>>

(***************************************************************************)
(* dvdcss_titlekey, called by dvdcss_title for a key it does not have yet. *)
(***************************************************************************)
Title(h) ==
    /\ At(h, "ready")
    /\ b_scrambled[h]
    /\ \E t \in Titles : title' = [title EXCEPT ![h] = t]
    /\ caller' = [caller EXCEPT ![h] = "title"]
    /\ i_ret' = [i_ret EXCEPT ![h] = 0]
    /\ IF b_ioctls[h] /\ i_method[h] \in {"KEY", "DISC"}
       THEN StartGetBusKey(h)
       ELSE Goto(h, "Crack") /\ UNCHANGED i_try
    /\ UNCHANGED <<drive, i_agid, p_challenge, p_bus_key, payload, keys, setup>>

ReadTitleKey(h) ==
    /\ At(h, "ReadTitleKey")
    /\ LET haskey == title[h] \in Encrypted
       IN \/ /\ ioctl_ReadTitleKey(i_agid[h], haskey, TRUE)
             /\ payload' = [payload EXCEPT
                              ![h] = Unhide(h, IF haskey THEN "good" ELSE "zero")]
             /\ UNCHANGED i_ret
          \/ /\ ioctl_ReadTitleKey(i_agid[h], haskey, FALSE)
             /\ i_ret' = [i_ret EXCEPT ![h] = -1]
             /\ UNCHANGED payload
    /\ Goto(h, "TitleASF")
    /\ UNCHANGED <<i_agid, i_try, p_challenge, p_bus_key, keys, setup, title, caller>>

\* The call ends: dvdcss_title returns to its caller.
Return(h) ==
    /\ Goto(h, "ready")
    /\ title' = [title EXCEPT ![h] = NoTitle]

\* An all-zero title key means the title has none; every other one is decrypted
\* with whatever p_disc_key holds.
DecryptTitleKey(h) ==
    CASE payload[h] = "zero" -> "zero"
      [] payload[h] = "good" /\ p_disc_key[h] = "right" -> "right"
      [] OTHER -> "wrong"

\* "Read an unscrambled sector and reset the drive", then dvdcss_disckey again.
Fallback(h) ==
    /\ StartGetBusKey(h)
    /\ caller' = [caller EXCEPT ![h] = "fallback"]

TitleASF(h) ==
    /\ At(h, "TitleASF")
    /\ \/ /\ ioctl_ReportASF(TRUE) /\ i_ret[h] = 0
          /\ p_title_key' = [p_title_key EXCEPT ![h] = DecryptTitleKey(h)]
          /\ i_ret' = [i_ret EXCEPT ![h] = IF payload[h] = "zero" THEN 0 ELSE 1]
          /\ Return(h)
          /\ UNCHANGED <<i_try, caller>>
       \/ /\ \/ ioctl_ReportASF(FALSE)
             \/ ioctl_ReportASF(TRUE) /\ asf /\ i_ret[h] = -1
          /\ i_ret' = [i_ret EXCEPT ![h] = -1]
          /\ Goto(h, "TitleAbort")
          /\ UNCHANGED <<i_try, caller, title, p_title_key>>
       \/ /\ ioctl_ReportASF(TRUE) /\ ~asf /\ i_ret[h] = -1
          /\ Fallback(h)
          /\ UNCHANGED <<i_ret, title, p_title_key>>
    /\ payload' = [payload EXCEPT ![h] = "none"]
    /\ UNCHANGED <<drive, i_agid, p_challenge, p_bus_key, p_disc_key, i_method, setup>>

TitleAbort(h) ==
    /\ At(h, "TitleAbort")
    /\ Invalidate(i_agid[h])
    /\ Fallback(h)
    /\ UNCHANGED <<i_agid, p_challenge, p_bus_key, payload, keys, setup, title, i_ret>>

\* CrackTitleKey looks at the title's blocks only.  It finds the key, finds no
\* scrambled block (1, 0), or fails; a failure leaves p_title_key as it was.
Crack(h) ==
    /\ At(h, "Crack")
    /\ \/ /\ title[h] \in Encrypted
          /\ p_title_key' = [p_title_key EXCEPT ![h] = "right"]
          /\ i_ret' = [i_ret EXCEPT ![h] = 1]
       \/ /\ p_title_key' = [p_title_key EXCEPT ![h] = "zero"]
          /\ i_ret' = [i_ret EXCEPT ![h] = 0]
       \/ /\ i_ret' = [i_ret EXCEPT ![h] = -1]
          /\ UNCHANGED p_title_key
    /\ Return(h)
    /\ UNCHANGED <<drive, session, p_disc_key, i_method, setup, caller>>

(***************************************************************************)
(* The end of a handle: dvdcss_close frees it and tells the drive nothing. *)
(* A process that is killed leaves its authentication as it is.            *)
(***************************************************************************)
Forget(h) ==
    /\ Goto(h, "closed")
    /\ i_agid' = [i_agid EXCEPT ![h] = 0]
    /\ i_try' = [i_try EXCEPT ![h] = 0]
    /\ p_challenge' = [p_challenge EXCEPT ![h] = NoNonce]
    /\ p_bus_key' = [p_bus_key EXCEPT ![h] = NoNonce]
    /\ payload' = [payload EXCEPT ![h] = "none"]
    /\ p_disc_key' = [p_disc_key EXCEPT ![h] = "zero"]
    /\ i_method' = [i_method EXCEPT ![h] = "TITLE"]
    /\ b_ioctls' = [b_ioctls EXCEPT ![h] = FALSE]
    /\ b_scrambled' = [b_scrambled EXCEPT ![h] = TRUE]
    /\ p_title_key' = [p_title_key EXCEPT ![h] = "unset"]
    /\ title' = [title EXCEPT ![h] = NoTitle]
    /\ caller' = [caller EXCEPT ![h] = "open"]
    /\ i_ret' = [i_ret EXCEPT ![h] = 0]
    /\ UNCHANGED drive

Close(h) == At(h, "ready") /\ Forget(h)

Kill(h) == Crashes /\ pc[h] \notin Idle /\ Forget(h)

\* What the library does on its own once it has been called.
Step(h) ==
    \/ Test(h)
    \/ ReportAgid(h) \/ InvalidateHung(h) \/ SendChallenge(h) \/ ReportKey1(h)
    \/ ReportChallenge(h) \/ SendKey2(h) \/ Abort(h)
    \/ ReadDiscKey(h) \/ DiscASF(h) \/ DiscAbort(h)
    \/ ReadTitleKey(h) \/ TitleASF(h) \/ TitleAbort(h) \/ Crack(h)

Next == \E h \in Hosts : Open(h) \/ Title(h) \/ Step(h) \/ Close(h) \/ Kill(h)

\* The application may stop calling at any time, but a call that has begun runs
\* on: nothing in it waits for another host.
Spec == Init /\ [][Next]_vars /\ \A h \in Hosts : WF_vars(Step(h))

(***************************************************************************)
(* Properties.                                                             *)
(***************************************************************************)
\* The stage the drive's session must be at for the host's next command.
Expected ==
    [SendChallenge |-> "granted", ReportKey1 |-> "challenged",
     ReportChallenge |-> "key1", SendKey2 |-> "challenge",
     ReadDiscKey |-> "auth", ReadTitleKey |-> "auth"]

InSession(h) ==
    /\ pc[h] \in DOMAIN Expected
    /\ At(h, "ReadTitleKey") => i_ret[h] = 0

\* Between GetBusKey's first command and the read of a key, the AGID that the
\* host uses is still its own and at the stage its next command needs, and the
\* drive's challenge and bus key are the host's: no command can be refused, and
\* no key block can be unhidden with the bus key of another session.
OwnSession ==
    \A h \in Hosts : InSession(h) =>
        /\ holder[i_agid[h]] = h
        /\ stage[i_agid[h]] = Expected[pc[h]]
        /\ At(h, "SendKey2") => nonce[i_agid[h]] = p_challenge[h]
        /\ stage[i_agid[h]] = "auth" => nonce[i_agid[h]] = p_bus_key[h]

\* A key block that the code goes on to decrypt was unhidden with the bus key it
\* was hidden with, and the stored disc key is not a wrong one (one host).
KeysUnhidden ==
    \A h \in Hosts :
        /\ At(h, "DiscASF") => payload[h] = "good"
        /\ At(h, "TitleASF") /\ i_ret[h] = 0 => payload[h] \in {"good", "zero"}
        /\ p_disc_key[h] # "wrong"

\* dvdcss_titlekey hands over a wrong title key only when it has decrypted it
\* without a disc key, whatever command failed before it (one host).
WrongKeyStep ==
    \A h \in Hosts : p_title_key[h] # "wrong" /\ p_title_key'[h] = "wrong"
                        => p_disc_key[h] = "zero"

WrongKeyOnlyWithoutDiscKey == [][WrongKeyStep]_vars

\* With method KEY, a disc key that dvdcss_disckey has stored is right, even
\* if another host took the session over while the key was read.
DiscKeyVerified ==
    \A h \in Hosts : i_method[h] = "KEY" => p_disc_key[h] # "wrong"

\* When no call is in progress the host holds no AGID of the drive: every path
\* through dvdcss_disckey and dvdcss_titlekey has used it up or invalidated it.
AgidReleased ==
    \A h \in Hosts : pc[h] \in Idle => \A a \in Agids : holder[a] # h

\* A session is ended by the host it was granted to: no host's error path or
\* retry loop invalidates an AGID that another host is using.
EndsByHolder ==
    \A a \in Agids :
        stage[a] # "free" /\ stage'[a] = "free" /\ holder[a] \in Hosts
            => pc'[holder[a]] # pc[holder[a]]

OnlyHolderEndsSession == [][EndsByHolder]_vars

\* With the ioctls and a disc key method, a title that has a key is never
\* cracked: dvdcss_titlekey gets its key from the drive.
ClassicWaySuffices ==
    \A h \in Hosts :
        At(h, "Crack") /\ b_ioctls[h] /\ i_method[h] # "TITLE"
            => title[h] \notin Encrypted

\* However many AGIDs other programs have left behind, one is free as soon as
\* GetBusKey's loop has begun to invalidate them: the next request can be granted,
\* and no call fails for want of an AGID.
HungAgidsRecovered ==
    \A h \in Hosts :
        At(h, "ReportAgid") /\ i_try[h] > 0 => \E a \in Agids : stage[a] = "free"

\* Every call that has begun returns, whatever fails and whoever interferes.
CallReturns == \A h \in Hosts : pc[h] \notin Idle ~> pc[h] \in Idle

\* dvdcss_title: "Key is valid, we store it on disk".
StoredKeyValid == \A h \in Hosts : p_title_key[h] # "wrong"

\* How many steps a call has before it at most: those of the commands still to come,
\* of the retry loop, and of the second authentication that dvdcss_titlekey makes when
\* it has not got a key.
Remaining ==
    [DiscAbort |-> 2, TitleAbort |-> 2, DiscASF |-> 3, TitleASF |-> 3,
     ReadDiscKey |-> 4, ReadTitleKey |-> 4, Abort |-> 5, SendKey2 |-> 6,
     ReportChallenge |-> 7, ReportKey1 |-> 8, SendChallenge |-> 9,
     InvalidateHung |-> 9, ReportAgid |-> 10]

DisckeySteps == 10 + 2 * NAgids

StepsLeft(h) ==
    CASE pc[h] \in Idle -> 0
      [] At(h, "Crack") -> 1
      [] At(h, "Test") -> DisckeySteps + 1
      [] OTHER ->
            Remaining[pc[h]]
            + (IF pc[h] \in {"ReportAgid", "InvalidateHung"}
               THEN 2 * (NAgids - i_try[h]) ELSE 0)
            + (IF caller[h] = "title" THEN DisckeySteps ELSE 0)

\* Every command brings the call nearer to its end, whatever it answers and whatever
\* the other hosts do to the drive meanwhile: there is no way round in a circle, and
\* no host can keep another one in its retry loop.
Descends == \A h \in Hosts : Step(h) => StepsLeft(h)' \in 0 .. StepsLeft(h) - 1

CallDescends == [][Descends]_vars

=============================================================================
