--------------------------- MODULE CssAuthProofs ---------------------------
(***************************************************************************)
(* Proofs about CssAuth: type correctness for any number of hosts, and     *)
(* what a host that has the drive to itself can rely on.                   *)
(***************************************************************************)
EXTENDS CssAuth, TLAPS

\* The actions of the hosts, one by one.
LEMMA ActionSplit ==
    ASSUME NEW h \in Hosts,
           Open(h) \/ Title(h) \/ Step(h) \/ Close(h) \/ Kill(h)
    PROVE  \/ Open(h) \/ Test(h) \/ ReportAgid(h) \/ InvalidateHung(h)
           \/ SendChallenge(h) \/ ReportKey1(h) \/ ReportChallenge(h)
           \/ SendKey2(h) \/ Abort(h) \/ ReadDiscKey(h) \/ DiscASF(h)
           \/ DiscAbort(h) \/ Title(h) \/ ReadTitleKey(h) \/ TitleASF(h)
           \/ TitleAbort(h) \/ Crack(h) \/ Forget(h)
  BY DEF Step, Close, Kill

LEMMA DriveTypes ==
    ASSUME DriveTypeOK, NEW a \in Agids, NEW h \in Hosts
    PROVE  /\ Release(a) /\ UNCHANGED asf => DriveTypeOK'
           /\ Grant(h, a) => DriveTypeOK'
           /\ \A s \in Stages : Advance(a, s) => DriveTypeOK'
           /\ UNCHANGED drive => DriveTypeOK'
  BY DEF DriveTypeOK, Release, Grant, Advance, Stages, drive, Agids

\* Every command keeps the drive's state well formed.
LEMMA CommandTypes ==
    ASSUME DriveTypeOK, NEW a \in Agids, NEW h \in Hosts, NEW ok \in BOOLEAN
    PROVE  /\ ioctl_ReportAgid(h, a, ok) => DriveTypeOK'
           /\ ioctl_InvalidateAgid(a, ok) => DriveTypeOK'
           /\ ioctl_SendChallenge(a, ok) => DriveTypeOK'
           /\ ioctl_ReportKey1(a, ok) => DriveTypeOK'
           /\ \A n \in Nonces : ioctl_ReportChallenge(a, n, ok) => DriveTypeOK'
           /\ \A k : ioctl_SendKey2(a, k, ok) => DriveTypeOK'
           /\ ioctl_ReadDiscKey(a, ok) => DriveTypeOK'
           /\ \A k \in BOOLEAN : ioctl_ReadTitleKey(a, k, ok) => DriveTypeOK'
  <1>1. ioctl_ReportAgid(h, a, ok) => DriveTypeOK'
    BY DriveTypes DEF ioctl_ReportAgid
  <1>2. ioctl_InvalidateAgid(a, ok) => DriveTypeOK'
    BY DriveTypes DEF ioctl_InvalidateAgid, Answer
  <1>3. ioctl_SendChallenge(a, ok) => DriveTypeOK'
    BY DriveTypes DEF ioctl_SendChallenge, Answer, Stages
  <1>4. ioctl_ReportKey1(a, ok) => DriveTypeOK'
    BY DriveTypes DEF ioctl_ReportKey1, Answer, Stages
  <1>5. ASSUME NEW n \in Nonces, ioctl_ReportChallenge(a, n, ok)
        PROVE  DriveTypeOK'
    BY <1>5 DEF ioctl_ReportChallenge, Answer, DriveTypeOK, Stages, drive
  <1>6. ASSUME NEW k, ioctl_SendKey2(a, k, ok)
        PROVE  DriveTypeOK'
    BY <1>6 DEF ioctl_SendKey2, Answer, DriveTypeOK, Stages, Release, drive
  <1>7. ioctl_ReadDiscKey(a, ok) => DriveTypeOK'
    BY DriveTypes DEF ioctl_ReadDiscKey, Answer
  <1>8. ASSUME NEW k \in BOOLEAN, ioctl_ReadTitleKey(a, k, ok)
        PROVE  DriveTypeOK'
    <2>1. CASE Answer("ReadTitleKey", stage[a] = "auth", ok,
                      Release(a) /\ UNCHANGED asf)
      BY <2>1, DriveTypes DEF Answer
    <2>2. CASE asf' \in {asf, FALSE} /\ UNCHANGED <<stage, nonce, holder>>
      <3>1. asf' \in BOOLEAN
        BY <2>2, Zenon DEF DriveTypeOK
      <3> QED
        BY <2>2, <3>1 DEF DriveTypeOK
    <2> QED
      BY <1>8, <2>1, <2>2 DEF ioctl_ReadTitleKey
  <1> QED
    BY <1>1, <1>2, <1>3, <1>4, <1>5, <1>6, <1>7, <1>8

\* The retry loop of GetBusKey names an AGID the drive has: this is what TypeOK
\* lacks to be inductive.
LoopInv == \A h \in Hosts : At(h, "InvalidateHung") => i_try[h] < NAgids

TypeInv == TypeOK /\ LoopInv

LEMMA InitTypeInv == Init => TypeInv
  <1> SUFFICES ASSUME Init PROVE TypeInv
    OBVIOUS
  <1>1. 0 \in Agids
    BY NAgidsAssumption DEF Agids
  <1>2. DriveTypeOK
    BY DEF Init, DriveInit, DriveTypeOK, Stages
  <1>3. TypeOK
    BY <1>1, <1>2, NAgidsAssumption DEF TypeOK, Labels, Init
  <1> QED
    BY <1>3 DEF TypeInv, LoopInv, Init, At

LEMMA StepTypeOK == TypeInv /\ [Next]_vars => TypeOK'
  <1> SUFFICES ASSUME TypeOK, LoopInv, [Next]_vars
               PROVE  TypeOK'
    BY DEF TypeInv
  <1> USE DEF TypeOK, Goto, At, Labels
  <1>1. CASE UNCHANGED vars
    BY <1>1 DEF vars, drive, session, keys, setup, call, DriveTypeOK
  <1>2. ASSUME NEW h \in Hosts,
               Open(h) \/ Title(h) \/ Step(h) \/ Close(h) \/ Kill(h)
        PROVE  TypeOK'
    <2> USE DEF session, keys, setup, call
    <2>1. i_agid[h] \in Agids /\ 0 \in Agids
      BY NAgidsAssumption DEF Agids
    <2>2. CASE Open(h)
      BY <2>2, <2>1, MethodsAssumption, DriveTypes DEF Open
    <2>3. CASE Test(h)
      <3>1. DriveTypeOK'
        BY <2>3, <2>1, DriveTypes DEF Test, StartGetBusKey, ioctl_ReadCopyright
      <3>2. b_ioctls' \in [Hosts -> BOOLEAN]
        BY <2>3, NAgidsAssumption DEF Test, StartGetBusKey, ioctl_ReadCopyright
      <3>3. b_scrambled' \in [Hosts -> BOOLEAN]
        BY <2>3, NAgidsAssumption DEF Test, StartGetBusKey, ioctl_ReadCopyright
      <3>4. pc' \in [Hosts -> Labels]
        BY <2>3, NAgidsAssumption DEF Test, StartGetBusKey, ioctl_ReadCopyright
      <3>5. i_try' \in [Hosts -> 0 .. NAgids]
        BY <2>3, NAgidsAssumption DEF Test, StartGetBusKey, ioctl_ReadCopyright
      <3> QED
        BY <2>3, <3>1, <3>2, <3>3, <3>4, <3>5 DEF Test
    <2>4. CASE ReportAgid(h)
      <3>1. DriveTypeOK'
        BY <2>4, <2>1, CommandTypes DEF ReportAgid, GetBusKeyFails, DisckeyReturns, Agids
      <3>2. i_agid' \in [Hosts -> Agids]
        <4>1. \E a \in Agids : i_agid' = [i_agid EXCEPT ![h] = a]
          BY <2>1, <2>4, Zenon DEF ReportAgid
        <4> QED
          BY <4>1
      <3>3. pc' \in [Hosts -> Labels]
        <4>1. \E l \in Labels : Goto(h, l)
          BY <2>4, Zenon DEF ReportAgid, GetBusKeyFails, DisckeyReturns, Labels
        <4> QED
          BY <4>1
      <3>4. i_ret' \in [Hosts -> {-1, 0, 1}]
        <4>1. UNCHANGED i_ret \/ i_ret' = [i_ret EXCEPT ![h] = -1]
          BY <2>4, Zenon DEF ReportAgid, GetBusKeyFails, DisckeyReturns
        <4> QED
          BY <4>1
      <3> QED
        BY <2>4, <3>1, <3>2, <3>3, <3>4 DEF ReportAgid
    <2>5. CASE InvalidateHung(h)
      <3>0. i_try[h] \in Agids /\ i_try[h] + 1 \in 0 .. NAgids
        BY <2>5, NAgidsAssumption DEF InvalidateHung, LoopInv, Agids
      <3>1. DriveTypeOK'
        BY <2>5, <3>0, CommandTypes DEF InvalidateHung, Invalidate
      <3>2. i_agid' \in [Hosts -> Agids]
        BY <2>5, <3>0 DEF InvalidateHung
      <3>3. i_try' \in [Hosts -> 0 .. NAgids]
        BY <2>5, <3>0 DEF InvalidateHung, NextTry
      <3>4. pc' \in [Hosts -> Labels]
        BY <2>5, NAgidsAssumption DEF InvalidateHung, NextTry, Agids
      <3> QED
        BY <2>5, <3>1, <3>2, <3>3, <3>4 DEF InvalidateHung
    <2>6. CASE SendChallenge(h)
      BY <2>6, <2>1, CommandTypes DEF SendChallenge, Proceed
    <2>7. CASE ReportKey1(h)
      <3>1. DriveTypeOK'
        BY <2>7, <2>1, CommandTypes DEF ReportKey1
      <3>2. pc' \in [Hosts -> Labels]
        BY <2>7 DEF ReportKey1, Proceed
      <3> QED
        BY <2>7, <3>1, <3>2 DEF ReportKey1
    <2>8. CASE ReportChallenge(h)
      BY <2>8, <2>1, CommandTypes DEF ReportChallenge, Proceed, FreshNonces
    <2>9. CASE SendKey2(h)
      BY <2>9, <2>1, CommandTypes DEF SendKey2, Proceed
    <2>10. CASE Abort(h)
      <3>1. DriveTypeOK'
        BY <2>10, <2>1, CommandTypes DEF Abort, Invalidate, GetBusKeyFails, DisckeyReturns
      <3>2. pc' \in [Hosts -> Labels]
        BY <2>10 DEF Abort, Invalidate, GetBusKeyFails, DisckeyReturns
      <3>3. i_ret' \in [Hosts -> {-1, 0, 1}]
        BY <2>10 DEF Abort, Invalidate, GetBusKeyFails, DisckeyReturns
      <3> QED
        BY <2>10, <3>1, <3>2, <3>3 DEF Abort
    <2>11. CASE ReadDiscKey(h)
      <3>1. DriveTypeOK'
        BY <2>11, <2>1, CommandTypes, Zenon DEF ReadDiscKey
      <3>2. \/ UNCHANGED payload
            \/ payload' = [payload EXCEPT ![h] = Unhide(h, "good")]
        BY <2>11, Zenon DEF ReadDiscKey
      <3>3. payload' \in [Hosts -> {"none", "good", "zero", "garbled"}]
        BY <3>2 DEF Unhide
      <3>4. /\ \E l \in {"DiscASF", "ready", "Crack"} : Goto(h, l)
            /\ UNCHANGED i_ret \/ i_ret' = [i_ret EXCEPT ![h] = -1]
        BY <2>11, Zenon DEF ReadDiscKey, DisckeyReturns
      <3>5. pc' \in [Hosts -> Labels] /\ i_ret' \in [Hosts -> {-1, 0, 1}]
        BY <3>4 DEF Goto
      <3> QED BY <2>11, <3>1, <3>3, <3>5 DEF ReadDiscKey
    <2>12. CASE DiscASF(h)
      <3>1. DriveTypeOK'
        BY <2>12, <2>1, DriveTypes DEF DiscASF, DisckeyReturns
      <3>2. p_disc_key' \in [Hosts -> {"zero", "right", "wrong"}]
        BY <2>12 DEF DiscASF, DisckeyReturns
      <3>3. i_method' \in [Hosts -> {"KEY", "DISC", "TITLE"}]
        BY <2>12 DEF DiscASF, DisckeyReturns
      <3>4. pc' \in [Hosts -> Labels]
        <4>1. \E l \in Labels : Goto(h, l)
          BY <2>12, Zenon DEF DiscASF, DisckeyReturns, Labels
        <4> QED
          BY <4>1
      <3>5. i_ret' \in [Hosts -> {-1, 0, 1}]
        BY <2>12 DEF DiscASF, DisckeyReturns
      <3>6. payload' \in [Hosts -> {"none", "good", "zero", "garbled"}]
        BY <2>12 DEF DiscASF, DisckeyReturns
      <3> QED
        BY <2>12, <3>1, <3>2, <3>3, <3>4, <3>5, <3>6 DEF DiscASF
    <2>13. CASE DiscAbort(h)
      BY <2>13, <2>1, CommandTypes DEF DiscAbort, Invalidate, DisckeyReturns
    <2>14. CASE Title(h)
      <3>1. DriveTypeOK'
        BY <2>14, <2>1, DriveTypes DEF Title, StartGetBusKey
      <3>2. title' \in [Hosts -> Titles \cup {NoTitle}]
        BY <2>14, NAgidsAssumption DEF Title, StartGetBusKey
      <3>3. pc' \in [Hosts -> Labels]
        BY <2>14, NAgidsAssumption DEF Title, StartGetBusKey
      <3>4. i_try' \in [Hosts -> 0 .. NAgids]
        BY <2>14, NAgidsAssumption DEF Title, StartGetBusKey
      <3>5. caller' \in [Hosts -> {"open", "title", "fallback"}]
        BY <2>14, NAgidsAssumption DEF Title, StartGetBusKey
      <3>6. i_ret' \in [Hosts -> {-1, 0, 1}]
        BY <2>14, NAgidsAssumption DEF Title, StartGetBusKey
      <3> QED
        BY <2>14, <3>1, <3>2, <3>3, <3>4, <3>5, <3>6 DEF Title
    <2>15. CASE ReadTitleKey(h)
      <3>1. DriveTypeOK'
        <4>1. (title[h] \in Encrypted) \in BOOLEAN
          OBVIOUS
        <4> QED
          BY <2>15, <2>1, <4>1, CommandTypes, ZenonT(30) DEF ReadTitleKey
      <3>2. payload' \in [Hosts -> {"none", "good", "zero", "garbled"}]
        BY <2>15 DEF ReadTitleKey, Unhide
      <3>3. i_ret' \in [Hosts -> {-1, 0, 1}]
        BY <2>15 DEF ReadTitleKey, Unhide
      <3>4. pc' \in [Hosts -> Labels]
        BY <2>15 DEF ReadTitleKey, Unhide
      <3> QED
        BY <2>15, <3>1, <3>2, <3>3, <3>4 DEF ReadTitleKey
    <2>16. CASE TitleASF(h)
      <3>1. DriveTypeOK'
        BY <2>16, <2>1, DriveTypes DEF TitleASF, DecryptTitleKey, Return, Fallback, StartGetBusKey
      <3>2. p_title_key' \in [Hosts -> {"unset", "zero", "right", "wrong"}]
        BY <2>16, NAgidsAssumption DEF TitleASF, DecryptTitleKey, Return, Fallback, StartGetBusKey
      <3>3. i_ret' \in [Hosts -> {-1, 0, 1}]
        <4>1. \/ UNCHANGED i_ret
              \/ \E r \in {-1, 0, 1} : i_ret' = [i_ret EXCEPT ![h] = r]
          BY <2>16, Zenon DEF TitleASF
        <4> QED
          BY <4>1
      <3>4. title' \in [Hosts -> Titles \cup {NoTitle}]
        BY <2>16, NAgidsAssumption DEF TitleASF, DecryptTitleKey, Return, Fallback, StartGetBusKey
      <3>5. pc' \in [Hosts -> Labels]
        <4>1. \E l \in Labels : Goto(h, l)
          BY <2>16, Zenon DEF TitleASF, Return, Fallback, StartGetBusKey, Labels
        <4> QED
          BY <4>1
      <3>6. i_try' \in [Hosts -> 0 .. NAgids]
        <4>1. UNCHANGED i_try \/ i_try' = [i_try EXCEPT ![h] = 0]
          BY <2>16, Zenon DEF TitleASF, Fallback, StartGetBusKey
        <4> QED
          BY <4>1, NAgidsAssumption
      <3>7. caller' \in [Hosts -> {"open", "title", "fallback"}]
        BY <2>16, NAgidsAssumption DEF TitleASF, DecryptTitleKey, Return, Fallback, StartGetBusKey
      <3>8. payload' \in [Hosts -> {"none", "good", "zero", "garbled"}]
        BY <2>16, NAgidsAssumption DEF TitleASF, DecryptTitleKey, Return, Fallback, StartGetBusKey
      <3> QED
        BY <2>16, <3>1, <3>2, <3>3, <3>4, <3>5, <3>6, <3>7, <3>8 DEF TitleASF
    <2>17. CASE TitleAbort(h)
      <3>1. DriveTypeOK'
        BY <2>17, <2>1, CommandTypes DEF TitleAbort, Invalidate, Fallback, StartGetBusKey
      <3>2. pc' \in [Hosts -> Labels]
        BY <2>17, NAgidsAssumption DEF TitleAbort, Invalidate, Fallback, StartGetBusKey
      <3>3. i_try' \in [Hosts -> 0 .. NAgids]
        BY <2>17, NAgidsAssumption DEF TitleAbort, Invalidate, Fallback, StartGetBusKey
      <3>4. caller' \in [Hosts -> {"open", "title", "fallback"}]
        BY <2>17, NAgidsAssumption DEF TitleAbort, Invalidate, Fallback, StartGetBusKey
      <3> QED
        BY <2>17, <3>1, <3>2, <3>3, <3>4 DEF TitleAbort
    <2>18. CASE Crack(h)
      BY <2>18, <2>1, DriveTypes DEF Crack, Return
    <2>19. CASE Forget(h)
      BY <2>19, <2>1, DriveTypes, NAgidsAssumption DEF Forget, Agids
    <2> QED
      BY <1>2, ActionSplit, <2>2, <2>3, <2>4, <2>5, <2>6, <2>7, <2>8, <2>9, <2>10, <2>11, <2>12, <2>13, <2>14, <2>15, <2>16, <2>17, <2>18, <2>19
  <1> QED
    BY <1>1, <1>2 DEF Next

\* Only a failing ReportAgid with tries left enters the loop's body, and no host
\* touches the loop of another.
LEMMA StepLoopInv == TypeInv /\ [Next]_vars => LoopInv'
  <1> SUFFICES ASSUME TypeOK, LoopInv, [Next]_vars
               PROVE  LoopInv'
    BY DEF TypeInv
  <1> USE DEF TypeOK, Goto, At
  <1>1. CASE UNCHANGED vars
    BY <1>1 DEF vars, session, LoopInv
  <1>2. ASSUME NEW h \in Hosts,
               Open(h) \/ Title(h) \/ Step(h) \/ Close(h) \/ Kill(h)
        PROVE  LoopInv'
    <2> DEFINE Enters(l, try) ==
                 /\ pc' = [pc EXCEPT ![h] = l]
                 /\ i_try' = [i_try EXCEPT ![h] = try]
    <2>1. ASSUME NEW l, NEW try, Enters(l, try),
                 l = "InvalidateHung" => try < NAgids
          PROVE  LoopInv'
      BY <2>1 DEF LoopInv
    <2>2. i_try = [i_try EXCEPT ![h] = i_try[h]]
      OBVIOUS
    <2>3. CASE ReportAgid(h)
      <3>1. \E l \in Labels : Enters(l, i_try[h]) /\ (l = "InvalidateHung" => MayRetry(h))
        BY <2>2, <2>3, Zenon DEF ReportAgid, GetBusKeyFails, DisckeyReturns, Labels
      <3> QED
        BY <2>1, <3>1 DEF MayRetry
    <2> DEFINE Elsewhere == \E l \in Labels \ {"InvalidateHung"}, try \in 0 .. NAgids + 1 : Enters(l, try)
    <2>4. 0 \in 0 .. NAgids + 1 /\ i_try[h] \in 0 .. NAgids + 1 /\ i_try[h] + 1 \in 0 .. NAgids + 1
      BY NAgidsAssumption
    <2>5. CASE Open(h)
      <3>1. Elsewhere
        <4>1. \E l \in Labels \ {"InvalidateHung"} : Goto(h, l)
          BY <2>5, Zenon DEF Open, Labels
        <4>2. UNCHANGED i_try
          BY <2>5 DEF Open, session
        <4> QED
          BY <2>2, <2>4, <4>1, <4>2, Zenon
      <3> QED
        BY <2>1, <3>1
    <2>6. CASE Test(h)
      <3>1. Elsewhere
        BY <2>2, <2>4, <2>6, Zenon DEF Test, StartGetBusKey, Labels
      <3> QED
        BY <2>1, <3>1
    <2>7. CASE InvalidateHung(h)
      <3>1. Elsewhere
        BY <2>2, <2>4, <2>7, Zenon DEF InvalidateHung, NextTry, Labels
      <3> QED
        BY <2>1, <3>1
    <2>8. CASE SendChallenge(h)
      <3>1. Elsewhere
        BY <2>2, <2>4, <2>8, Zenon DEF SendChallenge, Proceed, session, Labels
      <3> QED
        BY <2>1, <3>1
    <2>9. CASE ReportKey1(h)
      <3>1. Elsewhere
        BY <2>2, <2>4, <2>9, Zenon DEF ReportKey1, Proceed, session, Labels
      <3> QED
        BY <2>1, <3>1
    <2>10. CASE ReportChallenge(h)
      <3>1. Elsewhere
        BY <2>2, <2>4, <2>10, Zenon DEF ReportChallenge, Proceed, Labels
      <3> QED
        BY <2>1, <3>1
    <2>11. CASE SendKey2(h)
      <3>1. Elsewhere
        BY <2>2, <2>4, <2>11, Zenon DEF SendKey2, Proceed, Labels
      <3> QED
        BY <2>1, <3>1
    <2>12. CASE Abort(h)
      <3>1. Elsewhere
        BY <2>2, <2>4, <2>12, Zenon DEF Abort, GetBusKeyFails, DisckeyReturns, session, Labels
      <3> QED
        BY <2>1, <3>1
    <2>13. CASE ReadDiscKey(h)
      <3>1. Elsewhere
        BY <2>2, <2>4, <2>13, Zenon DEF ReadDiscKey, DisckeyReturns, Labels
      <3> QED
        BY <2>1, <3>1
    <2>14. CASE DiscASF(h)
      <3>1. Elsewhere
        <4>1. \E l \in Labels \ {"InvalidateHung"} : Goto(h, l)
          BY <2>14, Zenon DEF DiscASF, DisckeyReturns, Labels
        <4>2. UNCHANGED i_try
          BY <2>14 DEF DiscASF, session
        <4> QED
          BY <2>2, <2>4, <4>1, <4>2, Zenon
      <3> QED
        BY <2>1, <3>1
    <2>15. CASE DiscAbort(h)
      <3>1. Elsewhere
        BY <2>2, <2>4, <2>15, Zenon DEF DiscAbort, DisckeyReturns, session, Labels
      <3> QED
        BY <2>1, <3>1
    <2>16. CASE Title(h)
      <3>1. Elsewhere
        BY <2>2, <2>4, <2>16, Zenon DEF Title, StartGetBusKey, Labels
      <3> QED
        BY <2>1, <3>1
    <2>17. CASE ReadTitleKey(h)
      <3>1. Elsewhere
        BY <2>2, <2>4, <2>17, Zenon DEF ReadTitleKey, Labels
      <3> QED
        BY <2>1, <3>1
    <2>18. CASE TitleASF(h)
      <3>1. Elsewhere
        BY <2>2, <2>4, <2>18, Zenon DEF TitleASF, Return, Fallback, StartGetBusKey, Labels
      <3> QED
        BY <2>1, <3>1
    <2>19. CASE TitleAbort(h)
      <3>1. Elsewhere
        BY <2>2, <2>4, <2>19, Zenon DEF TitleAbort, Fallback, StartGetBusKey, Labels
      <3> QED
        BY <2>1, <3>1
    <2>20. CASE Crack(h)
      <3>1. Elsewhere
        BY <2>2, <2>4, <2>20, Zenon DEF Crack, Return, session, Labels
      <3> QED
        BY <2>1, <3>1
    <2>21. CASE Forget(h)
      <3>1. Elsewhere
        BY <2>2, <2>4, <2>21, Zenon DEF Forget, Labels
      <3> QED
        BY <2>1, <3>1
    <2> QED
      BY <1>2, <2>3, ActionSplit, <2>5, <2>6, <2>7, <2>8, <2>9, <2>10, <2>11, <2>12, <2>13, <2>14, <2>15, <2>16, <2>17, <2>18, <2>19, <2>20, <2>21
  <1> QED
    BY <1>1, <1>2 DEF Next

\* The types of all variables, the AGIDs that are named to the drive among them,
\* for any number of hosts, AGIDs and faults.
THEOREM TypeCorrect == Spec => []TypeOK
  <1>1. Init => TypeInv
    BY InitTypeInv
  <1>2. TypeInv /\ [Next]_vars => TypeInv'
    BY StepTypeOK, StepLoopInv DEF TypeInv
  <1>3. TypeInv => TypeOK
    BY DEF TypeInv
  <1> QED
    BY <1>1, <1>2, <1>3, PTL DEF Spec

\* With method KEY the check in DecryptDiscKey is enough, for any number of hosts:
\* no other step stores a disc key or returns to method KEY with one.
LEMMA VerifiedStep ==
    ASSUME TypeOK, DiscKeyVerified, [Next]_vars
    PROVE  DiscKeyVerified'
  <1> USE DEF TypeOK
  <1>1. CASE UNCHANGED vars
    BY <1>1 DEF vars, keys, DiscKeyVerified
  <1>2. ASSUME NEW h \in Hosts,
               Open(h) \/ Title(h) \/ Step(h) \/ Close(h) \/ Kill(h)
        PROVE  DiscKeyVerified'
    <2>1. CASE UNCHANGED <<p_disc_key, i_method>>
      BY <2>1 DEF DiscKeyVerified
    <2>2. CASE Open(h) \/ Forget(h)
      <3>1. \E m : /\ i_method' = [i_method EXCEPT ![h] = m]
                   /\ p_disc_key' = [p_disc_key EXCEPT ![h] = "zero"]
        BY <2>2, Zenon DEF Open, Forget
      <3> QED
        BY <3>1 DEF DiscKeyVerified
    <2>3. CASE DiscASF(h) /\ ~UNCHANGED <<p_disc_key, i_method>>
      <3>1. PICK key \in {"zero", "right", "wrong"}, ret \in {-1, 0} :
               /\ DiscKey(h, key, ret)
               /\ p_disc_key' = [p_disc_key EXCEPT ![h] = key]
               /\ i_method' = [i_method EXCEPT ![h] = IF ret = 0 THEN @ ELSE "TITLE"]
        BY <2>3 DEF DiscASF
      <3>2. i_method[h] = "KEY" => key # "wrong"
        BY <3>1 DEF DiscKey, DecryptDiscKey
      <3>3. ret = 0 \/ i_method'[h] = "TITLE"
        BY <3>1
      <3> QED
        BY <3>1, <3>2, <3>3 DEF DiscKeyVerified
    <2> QED
      BY <1>2, <2>1, <2>2, <2>3, ActionSplit
         DEF Test, ReportAgid, InvalidateHung, SendChallenge, ReportKey1,
             ReportChallenge, SendKey2, Abort, ReadDiscKey, DiscAbort,
             Title, ReadTitleKey, TitleASF, TitleAbort, Crack, keys
  <1> QED
    BY <1>1, <1>2 DEF Next

\* A disc key stored with method KEY is right, whoever else uses the drive.
THEOREM DiscKeyAlwaysVerified == Spec => []DiscKeyVerified
  <1>1. Init => DiscKeyVerified
    BY DEF Init, DiscKeyVerified
  <1>2. TypeOK /\ DiscKeyVerified /\ [Next]_vars => DiscKeyVerified'
    BY VerifiedStep
  <1> QED
    BY <1>1, <1>2, TypeCorrect, PTL DEF Spec

=============================================================================
