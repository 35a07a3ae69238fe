------------------------------- MODULE Ioctl -------------------------------
(***************************************************************************)
(* The CSS commands of ioctl.c and the drive that answers them.            *)
(*                                                                         *)
(* Each operator ioctl_X is one call of the function of that name: a       *)
(* relation between the drive before and after the command, the arguments  *)
(* and `ok', whether the function returned a non-negative value.  The      *)
(* drive itself is external to the repository; it is modelled from what    *)
(* css.c and ioctl.c expect of it: a small pool of authentication grant    *)
(* IDs (AGIDs), one mutual authentication in progress per AGID, one        *)
(* authentication success flag (ASF) for the drive as a whole.             *)
(*                                                                         *)
(* Keys are abstracted to what tells them apart.  The host always sends    *)
(* the same challenge, so a session's bus key is a function of the         *)
(* challenge the drive draws in ioctl_ReportChallenge: that challenge, the *)
(* key2 that answers it and the bus key derived from it are one nonce.     *)
(***************************************************************************)
EXTENDS Naturals

CONSTANTS
    Hosts,     \* the processes that have the drive open
    NAgids,    \* how many AGIDs the drive has (GetBusKey counts on 4)
    Nonces,    \* the challenges a drive may draw
    NoNonce,   \* no challenge drawn or received
    Nobody,    \* the AGID has not been granted to any host that is known
    Faults     \* the commands that may fail although they are legal

ASSUME NAgidsAssumption == NAgids \in Nat \ {0}
ASSUME NoNonceAssumption == NoNonce \notin Nonces
ASSUME NobodyAssumption == Nobody \notin Hosts

VARIABLES
    stage,     \* [Agids -> Stages]: how far the authentication has come
    nonce,     \* the drive's challenge of the session, once it is drawn
    holder,    \* history: the host the AGID was granted to
    asf        \* the drive's authentication success flag

drive == <<stage, nonce, holder, asf>>

Agids == 0 .. NAgids - 1

Stages == {"free", "granted", "challenged", "key1", "challenge", "auth"}

DriveTypeOK ==
    /\ stage \in [Agids -> Stages]
    /\ nonce \in [Agids -> Nonces \cup {NoNonce}]
    /\ holder \in [Agids -> Hosts \cup {Nobody}]
    /\ asf \in BOOLEAN

(***************************************************************************)
(* A drive that has just been powered up, and one in which other programs  *)
(* have left authentications half done ("hung authentication processes").  *)
(***************************************************************************)
DriveInit(hung) ==
    /\ stage = [a \in Agids |-> IF a \in hung THEN "granted" ELSE "free"]
    /\ nonce = [a \in Agids |-> NoNonce]
    /\ holder = [a \in Agids |-> Nobody]
    /\ asf = FALSE

(***************************************************************************)
(* What a command does to the session of AGID a.                           *)
(***************************************************************************)
Release(a) ==
    /\ stage' = [stage EXCEPT ![a] = "free"]
    /\ nonce' = [nonce EXCEPT ![a] = NoNonce]
    /\ holder' = [holder EXCEPT ![a] = Nobody]

Advance(a, s) ==
    /\ stage' = [stage EXCEPT ![a] = s]
    /\ UNCHANGED <<nonce, holder, asf>>

Grant(h, a) ==
    /\ stage' = [stage EXCEPT ![a] = "granted"]
    /\ holder' = [holder EXCEPT ![a] = h]
    /\ UNCHANGED <<nonce, asf>>

(***************************************************************************)
(* The answer to a command: it is carried out, or refused because the      *)
(* session is not at the stage it needs, or it fails, in which case the    *)
(* host cannot tell whether the drive carried it out.                      *)
(***************************************************************************)
Answer(cmd, legal, ok, Done) ==
    \/ ok /\ legal /\ Done
    \/ ~ok /\ ~legal /\ UNCHANGED drive
    \/ ~ok /\ cmd \in Faults /\ UNCHANGED drive
    \/ ~ok /\ cmd \in Faults /\ legal /\ Done

\* The fault "LostAgid" is an answer that gets lost after the AGID was granted.
ioctl_ReportAgid(h, a, ok) ==
    \/ /\ ok \/ "LostAgid" \in Faults
       /\ stage[a] = "free"
       /\ Grant(h, a)
    \/ /\ ~ok
       /\ "ReportAgid" \in Faults \/ \A b \in Agids : stage[b] # "free"
       /\ UNCHANGED drive

ioctl_InvalidateAgid(a, ok) ==
    Answer("InvalidateAgid", TRUE, ok, Release(a) /\ UNCHANGED asf)

ioctl_SendChallenge(a, ok) ==
    Answer("SendChallenge", stage[a] = "granted", ok, Advance(a, "challenged"))

ioctl_ReportKey1(a, ok) ==
    Answer("ReportKey1", stage[a] = "challenged", ok, Advance(a, "key1"))

ioctl_ReportChallenge(a, n, ok) ==
    Answer("ReportChallenge", stage[a] = "key1", ok,
           /\ stage' = [stage EXCEPT ![a] = "challenge"]
           /\ nonce' = [nonce EXCEPT ![a] = n]
           /\ UNCHANGED <<holder, asf>>)

\* The drive accepts key2 when it answers the challenge it drew for this AGID;
\* a wrong key2 ends the session.
ioctl_SendKey2(a, key2, ok) ==
    \/ Answer("SendKey2", stage[a] = "challenge" /\ nonce[a] = key2, ok,
              /\ stage' = [stage EXCEPT ![a] = "auth"]
              /\ asf' = TRUE
              /\ UNCHANGED <<nonce, holder>>)
    \/ /\ ~ok
       /\ stage[a] = "challenge" /\ nonce[a] # key2
       /\ Release(a) /\ UNCHANGED asf

\* Reading the disc key ends the session.
ioctl_ReadDiscKey(a, ok) ==
    Answer("ReadDiscKey", stage[a] = "auth", ok, Release(a) /\ UNCHANGED asf)

\* So does reading a title key.  A title that has no key may be answered with a
\* failure; a region error (fault "Region") is one that clears ASF.
ioctl_ReadTitleKey(a, haskey, ok) ==
    \/ Answer("ReadTitleKey", stage[a] = "auth", ok, Release(a) /\ UNCHANGED asf)
    \/ /\ ~ok
       /\ stage[a] = "auth"
       /\ \/ ~haskey /\ asf' = asf
          \/ "Region" \in Faults /\ asf' = FALSE
       /\ UNCHANGED <<stage, nonce, holder>>

ioctl_ReportASF(ok) == (ok \/ "ReportASF" \in Faults) /\ UNCHANGED drive

\* The copyright information of the disc, the first command ever issued.
ioctl_ReadCopyright(ok) == (ok \/ "ReadCopyright" \in Faults) /\ UNCHANGED drive

=============================================================================
