-------------------------- MODULE CssAuthSoleHost --------------------------
(***************************************************************************)
(* What a host that has the drive to itself can rely on, whatever faults   *)
(* the commands have, whatever AGIDs were hung when it opened the drive    *)
(* and whenever it was killed before.                                      *)
(***************************************************************************)
EXTENDS CssAuthProofs

\* Outside the commands of a session there is nothing to show.
LEMMA NotInSession ==
    ASSUME NEW h, Hosts = {h}, ~InSession(h)'
    PROVE  OwnSession'
  BY DEF OwnSession

LEMMA InSessionLabels ==
    \A h : InSession(h) <=>
        \/ pc[h] \in {"SendChallenge", "ReportKey1", "ReportChallenge", "SendKey2",
                      "ReadDiscKey"}
        \/ pc[h] = "ReadTitleKey" /\ i_ret[h] = 0
  BY DEF InSession, Expected, At

\* A failing command leaves the session; the next label is outside it, or is
\* ReadTitleKey with the failure noted in i_ret.
LEMMA Outside ==
    ASSUME NEW h, Hosts = {h},
           \/ pc'[h] \in {"closed", "Test", "ReportAgid", "InvalidateHung", "Abort",
                          "DiscASF", "DiscAbort", "TitleASF", "TitleAbort", "Crack",
                          "ready"}
           \/ pc'[h] = "ReadTitleKey" /\ i_ret'[h] = -1
    PROVE  OwnSession'
  <1>1. ~InSession(h)'
    BY DEF InSession, Expected, At
  <1> QED
    BY <1>1, NotInSession

LEMMA FailureIsOutside ==
    ASSUME NEW h, Hosts = {h}, TypeOK, GetBusKeyFails(h) \/ \E r : DisckeyReturns(h, r)
    PROVE  OwnSession'
  <1>1. CASE \E r : DisckeyReturns(h, r)
    <2>1. \E l \in {"ready", "Crack"} : Goto(h, l)
      BY <1>1, Zenon DEF DisckeyReturns
    <2> QED
      BY <2>1, Outside DEF TypeOK, Goto
  <1>2. CASE GetBusKeyFails(h) /\ caller[h] = "title"
    <2>1. Goto(h, "ReadTitleKey") /\ i_ret' = [i_ret EXCEPT ![h] = -1]
      BY <1>2 DEF GetBusKeyFails
    <2> QED
      BY <2>1, Outside DEF TypeOK, Goto
  <1> QED
    BY <1>1, <1>2 DEF GetBusKeyFails

LEMMA SessionInit ==
    ASSUME NEW h, Hosts = {h}
    PROVE  Init => OwnSession
  BY DEF Init, OwnSession, InSession, Expected

LEMMA SessionStep ==
    ASSUME NEW h, Hosts = {h}, TypeOK, OwnSession,
           Open(h) \/ Title(h) \/ Step(h) \/ Close(h) \/ Kill(h)
    PROVE  OwnSession'
  <1> USE DEF TypeOK, DriveTypeOK, Goto, At
  <1>h. h \in Hosts
    OBVIOUS
  <1>0. CASE Abort(h) \/ DiscAbort(h)
    BY <1>0, FailureIsOutside DEF Abort, DiscAbort
  <1>1. CASE Open(h) \/ Test(h) \/ InvalidateHung(h)
    <2>1. \E l \in {"Test", "ready", "ReportAgid"} : Goto(h, l)
      BY <1>1, Zenon DEF Open, Test, InvalidateHung, StartGetBusKey
    <2> QED
      BY <1>h, <2>1, Outside
  <1>2. CASE ReadDiscKey(h)
    <2>1. Goto(h, "DiscASF") \/ DisckeyReturns(h, -1)
      BY <1>2 DEF ReadDiscKey
    <2> QED
      BY <1>h, <2>1, Outside, FailureIsOutside
  <1>10. CASE Title(h) \/ ReadTitleKey(h)
    <2>1. \E l \in {"Crack", "ReportAgid", "TitleASF"} : Goto(h, l)
      BY <1>10, Zenon DEF Title, ReadTitleKey, StartGetBusKey
    <2> QED
      BY <1>h, <2>1, Outside
  <1>3. CASE DiscASF(h)
    <2>1. \E l \in {"ready", "Crack", "DiscAbort"} : Goto(h, l)
      BY <1>3, Zenon DEF DiscASF, DisckeyReturns
    <2> QED
      BY <1>h, <2>1, Outside
  <1>4. CASE TitleASF(h) \/ TitleAbort(h)
    <2>1. \E l \in {"ready", "TitleAbort", "ReportAgid"} : Goto(h, l)
      BY <1>4, Zenon DEF TitleASF, TitleAbort, Return, Fallback, StartGetBusKey
    <2> QED
      BY <1>h, <2>1, Outside
  <1>5. CASE Crack(h) \/ Forget(h)
    <2>1. pc'[h] \in {"ready", "closed"}
      BY <1>h, <1>5 DEF Crack, Forget, Return
    <2> QED
      BY <2>1, Outside
  <1>6. CASE ReportAgid(h)
    <2>1. PICK a \in Agids :
             \/ /\ ioctl_ReportAgid(h, a, TRUE)
                /\ i_agid' = [i_agid EXCEPT ![h] = a]
                /\ Goto(h, "SendChallenge")
             \/ Goto(h, "InvalidateHung")
             \/ GetBusKeyFails(h)
      BY <1>6, Zenon DEF ReportAgid
    <2>2. CASE /\ ioctl_ReportAgid(h, a, TRUE)
               /\ i_agid' = [i_agid EXCEPT ![h] = a]
               /\ Goto(h, "SendChallenge")
      BY <1>h, <2>2 DEF ioctl_ReportAgid, Grant, OwnSession, InSession, Expected
    <2>3. CASE Goto(h, "InvalidateHung") \/ GetBusKeyFails(h)
      BY <1>h, <2>3, Outside, FailureIsOutside
    <2> QED
      BY <2>1, <2>2, <2>3
  <1>7. CASE SendChallenge(h) \/ ReportKey1(h)
    <2>1. CASE pc'[h] = "Abort"
      BY <2>1, Outside
    <2>2. CASE pc'[h] # "Abort"
      BY <1>h, <1>7, <2>2
         DEF SendChallenge, ReportKey1, Proceed, ioctl_SendChallenge, ioctl_ReportKey1,
             Answer, Advance, OwnSession, InSession, Expected, session
    <2> QED
      BY <2>1, <2>2
  <1>8. CASE ReportChallenge(h)
    <2>1. CASE pc'[h] = "Abort"
      BY <2>1, Outside
    <2>2. CASE pc'[h] # "Abort"
      BY <1>h, <1>8, <2>2
         DEF ReportChallenge, Proceed, ioctl_ReportChallenge, Answer, FreshNonces,
             OwnSession, InSession, Expected
    <2> QED
      BY <2>1, <2>2
  <1>9. CASE SendKey2(h)
    <2>1. CASE pc'[h] = "Abort"
      BY <2>1, Outside
    <2>2. CASE pc'[h] # "Abort"
      BY <1>h, <1>9, <2>2
         DEF SendKey2, Proceed, ioctl_SendKey2, Answer,
             OwnSession, InSession, Expected
    <2> QED
      BY <2>1, <2>2
  <1> QED
    BY <1>h, <1>0, <1>1, <1>2, <1>3, <1>4, <1>5, <1>6, <1>7, <1>8, <1>9, <1>10,
       ActionSplit

\* From the AGID's grant to the read of a key, the drive's session is the one the
\* host believes it to be.
THEOREM SoleHostOwnsSession ==
    ASSUME NEW h, Hosts = {h}
    PROVE  Spec => []OwnSession
  <1>1. Init => OwnSession
    BY SessionInit
  <1>2. TypeOK /\ OwnSession /\ [Next]_vars => OwnSession'
    <2> SUFFICES ASSUME TypeOK, OwnSession, [Next]_vars
                 PROVE  OwnSession'
      OBVIOUS
    <2>1. CASE UNCHANGED vars
      BY <2>1 DEF vars, drive, session, call, OwnSession, InSession, At
    <2>2. CASE Next
      BY <2>2, SessionStep DEF Next
    <2> QED
      BY <2>1, <2>2
  <1> QED
    BY <1>1, <1>2, TypeCorrect, PTL DEF Spec

\* Labels at which KeysUnhidden says nothing of the block.
LEMMA NoBlockInUse ==
    ASSUME NEW h, Hosts = {h}, TypeOK, KeysUnhidden,
           p_disc_key'[h] \in {p_disc_key[h], "zero", "right"},
           NEW l \in Labels \ {"DiscASF", "TitleASF"}, Goto(h, l)
    PROVE  KeysUnhidden'
  BY DEF TypeOK, KeysUnhidden, Goto, At

LEMMA UnhiddenStep ==
    ASSUME NEW h, Hosts = {h}, TypeOK, OwnSession, KeysUnhidden,
           Open(h) \/ Title(h) \/ Step(h) \/ Close(h) \/ Kill(h)
    PROVE  KeysUnhidden'
  <1> DEFINE Quiet == Labels \ {"DiscASF", "TitleASF"}
  <1>h. h \in Hosts
    OBVIOUS
  <1>1. ASSUME \E l \in Quiet : Goto(h, l),
               UNCHANGED p_disc_key
        PROVE  KeysUnhidden'
    BY <1>1, NoBlockInUse DEF TypeOK
  <1>2. CASE Test(h)
    <2>1. \E l \in Quiet : Goto(h, l)
      BY <1>2, Zenon DEF Test, StartGetBusKey, Labels
    <2>2. UNCHANGED p_disc_key
      BY <1>2 DEF Test, keys
    <2> QED
      BY <1>1, <2>1, <2>2
  <1>3. CASE ReportAgid(h)
    <2>1. \E l \in Quiet : Goto(h, l)
      BY <1>3, Zenon DEF ReportAgid, GetBusKeyFails, DisckeyReturns, Labels
    <2>2. UNCHANGED p_disc_key
      BY <1>3 DEF ReportAgid, keys
    <2> QED
      BY <1>1, <2>1, <2>2
  <1>4. CASE InvalidateHung(h)
    <2>1. \E l \in Quiet : Goto(h, l)
      BY <1>4, Zenon DEF InvalidateHung, Labels
    <2>2. UNCHANGED p_disc_key
      BY <1>4 DEF InvalidateHung, keys
    <2> QED
      BY <1>1, <2>1, <2>2
  <1>5. CASE SendChallenge(h)
    <2>1. \E l \in Quiet : Goto(h, l)
      BY <1>5, Zenon DEF SendChallenge, Proceed, Labels
    <2>2. UNCHANGED p_disc_key
      BY <1>5 DEF SendChallenge, keys
    <2> QED
      BY <1>1, <2>1, <2>2
  <1>6. CASE ReportKey1(h)
    <2>1. \E l \in Quiet : Goto(h, l)
      BY <1>6, Zenon DEF ReportKey1, Proceed, Labels
    <2>2. UNCHANGED p_disc_key
      BY <1>6 DEF ReportKey1, keys
    <2> QED
      BY <1>1, <2>1, <2>2
  <1>7. CASE ReportChallenge(h)
    <2>1. \E l \in Quiet : Goto(h, l)
      BY <1>7, Zenon DEF ReportChallenge, Proceed, Labels
    <2>2. UNCHANGED p_disc_key
      BY <1>7 DEF ReportChallenge, keys
    <2> QED
      BY <1>1, <2>1, <2>2
  <1>8. CASE SendKey2(h)
    <2>1. \E l \in Quiet : Goto(h, l)
      BY <1>8, Zenon DEF SendKey2, Proceed, Labels
    <2>2. UNCHANGED p_disc_key
      BY <1>8 DEF SendKey2, keys
    <2> QED
      BY <1>1, <2>1, <2>2
  <1>9. CASE Abort(h)
    <2>1. \E l \in Quiet : Goto(h, l)
      BY <1>9, Zenon DEF Abort, GetBusKeyFails, DisckeyReturns, Labels
    <2>2. UNCHANGED p_disc_key
      BY <1>9 DEF Abort, keys
    <2> QED
      BY <1>1, <2>1, <2>2
  <1>10. CASE DiscAbort(h)
    <2>1. \E l \in Quiet : Goto(h, l)
      BY <1>10, Zenon DEF DiscAbort, DisckeyReturns, Labels
    <2>2. UNCHANGED p_disc_key
      BY <1>10 DEF DiscAbort, keys
    <2> QED
      BY <1>1, <2>1, <2>2
  <1>11. CASE Title(h)
    <2>1. \E l \in Quiet : Goto(h, l)
      BY <1>11, Zenon DEF Title, StartGetBusKey, Labels
    <2>2. UNCHANGED p_disc_key
      BY <1>11 DEF Title, keys
    <2> QED
      BY <1>1, <2>1, <2>2
  <1>12. CASE TitleAbort(h)
    <2>1. \E l \in Quiet : Goto(h, l)
      BY <1>12, Zenon DEF TitleAbort, Fallback, StartGetBusKey, Labels
    <2>2. UNCHANGED p_disc_key
      BY <1>12 DEF TitleAbort, keys
    <2> QED
      BY <1>1, <2>1, <2>2
  <1>13. CASE Crack(h)
    <2>1. \E l \in Quiet : Goto(h, l)
      BY <1>13, Zenon DEF Crack, Return, Labels
    <2>2. UNCHANGED p_disc_key
      BY <1>13 DEF Crack, keys
    <2> QED
      BY <1>1, <2>1, <2>2
  <1>14. CASE TitleASF(h)
    <2>1. \E l \in Quiet : Goto(h, l)
      BY <1>14, Zenon DEF TitleASF, Return, Fallback, StartGetBusKey, Labels
    <2>2. UNCHANGED p_disc_key
      BY <1>14 DEF TitleASF, keys
    <2> QED
      BY <1>1, <2>1, <2>2
  <1>15. CASE Open(h) \/ Forget(h)
    <2>1. \E l \in {"Test", "ready", "closed"} : Goto(h, l)
      BY <1>15, Zenon DEF Open, Forget
    <2>2. p_disc_key'[h] = "zero"
      BY <1>h, <1>15 DEF Open, Forget, TypeOK
    <2> QED
      BY <2>1, <2>2, NoBlockInUse DEF Labels
  <1>16. CASE ReadDiscKey(h)
    <2>1. CASE DisckeyReturns(h, -1)
      <3>1. \E l \in {"ready", "Crack"} : Goto(h, l)
        BY <2>1, Zenon DEF DisckeyReturns
      <3> QED
        BY <1>16, <3>1, <1>1 DEF ReadDiscKey, keys, Labels
    <2>2. CASE payload' = [payload EXCEPT ![h] = Unhide(h, "good")] /\ Goto(h, "DiscASF")
      <3>1. Unhide(h, "good") = "good"
        BY <1>h, <1>16, <2>2
           DEF ReadDiscKey, OwnSession, InSession, Expected, At, Unhide
      <3> QED
        BY <1>h, <1>16, <2>2, <3>1 DEF ReadDiscKey, KeysUnhidden, At, Goto, TypeOK, keys
    <2> QED
      BY <1>16, <2>1, <2>2 DEF ReadDiscKey
  <1>17. CASE ReadTitleKey(h)
    <2>1. Goto(h, "TitleASF") /\ UNCHANGED p_disc_key
      BY <1>17 DEF ReadTitleKey, keys
    <2>2. CASE i_ret'[h] = -1
      BY <1>h, <2>1, <2>2 DEF KeysUnhidden, At, Goto, TypeOK
    <2>3. CASE i_ret'[h] = 0 \/ i_ret'[h] = 1
      <3>1. PICK plain \in {"good", "zero"} :
               payload' = [payload EXCEPT ![h] = Unhide(h, plain)] /\ UNCHANGED i_ret
        <4>1. i_ret' # [i_ret EXCEPT ![h] = -1]
          BY <1>h, <2>3 DEF TypeOK
        <4>2. /\ payload' = [payload EXCEPT ![h] =
                    Unhide(h, IF title[h] \in Encrypted THEN "good" ELSE "zero")]
              /\ UNCHANGED i_ret
          BY <1>17, <4>1, Zenon DEF ReadTitleKey
        <4> QED
          BY <4>2
      <3>2. i_ret[h] = 0 => Unhide(h, plain) = plain
        BY <1>h, <1>17 DEF ReadTitleKey, OwnSession, InSession, Expected, At, Unhide
      <3> QED
        BY <1>h, <2>1, <3>1, <3>2 DEF KeysUnhidden, At, Goto, TypeOK
    <2> QED
      BY <1>h, <1>17, <2>2, <2>3 DEF ReadTitleKey, TypeOK
  <1>18. CASE DiscASF(h)
    <2>1. \E l \in {"ready", "Crack", "DiscAbort"} : Goto(h, l)
      BY <1>18, Zenon DEF DiscASF, DisckeyReturns
    <2>2. CASE UNCHANGED p_disc_key
      BY <2>1, <2>2, <1>1 DEF Labels
    <2>3. CASE \E key \in {"zero", "right", "wrong"}, ret \in {-1, 0} :
                  DiscKey(h, key, ret) /\ p_disc_key' = [p_disc_key EXCEPT ![h] = key]
      <3>1. PICK key \in {"zero", "right", "wrong"}, ret \in {-1, 0} :
               DiscKey(h, key, ret) /\ p_disc_key' = [p_disc_key EXCEPT ![h] = key]
        BY <2>3
      <3>2. payload[h] = "good"
        BY <1>h, <1>18 DEF DiscASF, KeysUnhidden
      <3>3. key # "wrong"
        BY <1>h, <3>1, <3>2 DEF DiscKey, DecryptDiscKey, CrackDiscKey, TypeOK
      <3> QED
        BY <1>h, <2>1, <3>1, <3>3, NoBlockInUse DEF Labels, TypeOK
    <2> QED
      BY <1>18, <2>2, <2>3 DEF DiscASF
  <1> QED
    BY <1>h, ActionSplit, <1>2, <1>3, <1>4, <1>5, <1>6, <1>7, <1>8, <1>9, <1>10, <1>11, <1>12, <1>13, <1>14, <1>15, <1>16, <1>17, <1>18

LEMMA UnhiddenNext ==
    ASSUME NEW h, Hosts = {h}, TypeOK, OwnSession, KeysUnhidden, [Next]_vars
    PROVE  KeysUnhidden'
  <1>1. CASE UNCHANGED vars
    BY <1>1 DEF vars, session, keys, call, KeysUnhidden, At
  <1>2. CASE Next
    BY <1>2, UnhiddenStep DEF Next
  <1> QED
    BY <1>1, <1>2

\* No key block is unhidden with the bus key of another session.
THEOREM SoleHostUnhidesKeys ==
    ASSUME NEW h, Hosts = {h}
    PROVE  Spec => []KeysUnhidden
  <1>1. Init => KeysUnhidden
    BY DEF Init, KeysUnhidden, At
  <1>2. TypeOK /\ OwnSession /\ KeysUnhidden /\ [Next]_vars => KeysUnhidden'
    BY UnhiddenNext
  <1> QED
    BY <1>1, <1>2, TypeCorrect, SoleHostOwnsSession, PTL DEF Spec

\* Only the classic way of dvdcss_titlekey can store a wrong title key.
LEMMA WrongKeySource ==
    ASSUME NEW h, Hosts = {h}, TypeOK, KeysUnhidden, Next,
           p_title_key[h] # "wrong", p_title_key'[h] = "wrong"
    PROVE  p_disc_key[h] = "zero"
  <1> USE DEF TypeOK
  <1>h. h \in Hosts
    OBVIOUS
  <1>1. Open(h) \/ Title(h) \/ Step(h) \/ Close(h) \/ Kill(h)
    BY DEF Next
  <1>2. p_title_key' # p_title_key
    OBVIOUS
  <1>3. ~Crack(h) /\ ~Forget(h)
    BY <1>h DEF Crack, Forget
  <1>4. TitleASF(h)
    BY <1>1, <1>2, <1>3, <1>h, ActionSplit, Zenon
       DEF Open, Test, ReportAgid, InvalidateHung, SendChallenge, ReportKey1,
           ReportChallenge, SendKey2, Abort, ReadDiscKey, DiscASF, DiscAbort,
           Title, ReadTitleKey, TitleAbort, keys
  <1>5. /\ i_ret[h] = 0
        /\ p_title_key' = [p_title_key EXCEPT ![h] = DecryptTitleKey(h)]
    BY <1>2, <1>4, Zenon DEF TitleASF
  <1>6. DecryptTitleKey(h) = "wrong" /\ payload[h] \in {"good", "zero"}
    BY <1>h, <1>4, <1>5 DEF TitleASF, KeysUnhidden
  <1>7. p_disc_key[h] # "right"
    BY <1>6 DEF DecryptTitleKey
  <1> QED
    BY <1>h, <1>7 DEF KeysUnhidden

\* A wrong title key comes from a handle without a disc key, and from nowhere else.
THEOREM SoleHostWrongKey ==
    ASSUME NEW h, Hosts = {h}
    PROVE  Spec => WrongKeyOnlyWithoutDiscKey
  <1>1. TypeOK /\ KeysUnhidden /\ [Next]_vars => [WrongKeyStep]_vars
    BY WrongKeySource DEF WrongKeyStep
  <1> QED
    BY <1>1, TypeCorrect, SoleHostUnhidesKeys, PTL
       DEF Spec, WrongKeyOnlyWithoutDiscKey

\* Every way into ReportAgid but the retry loop's starts the count of the loop.
LEMMA RecoveredStep ==
    ASSUME NEW h, Hosts = {h}, "InvalidateAgid" \notin Faults, TypeInv,
           Open(h) \/ Title(h) \/ Step(h) \/ Close(h) \/ Kill(h)
    PROVE  HungAgidsRecovered'
  <1> USE DEF TypeInv, TypeOK, DriveTypeOK
  <1>h. h \in Hosts
    OBVIOUS
  <1>1. CASE Test(h) \/ Title(h) \/ TitleASF(h) \/ TitleAbort(h)
    <2>1. \/ StartGetBusKey(h)
          \/ \E l \in {"ready", "Crack", "TitleAbort"} : Goto(h, l)
      BY <1>1, Zenon DEF Test, Title, TitleASF, TitleAbort, Return, Fallback
    <2>2. pc'[h] = "ReportAgid" => i_try'[h] = 0
      BY <1>h, <2>1 DEF StartGetBusKey, Goto
    <2> QED BY <2>2 DEF HungAgidsRecovered, At
  <1>2. CASE InvalidateHung(h)
    <2>1. i_try[h] \in Agids
      BY <1>h, <1>2, NAgidsAssumption DEF LoopInv, InvalidateHung, Agids
    <2>2. stage'[i_try[h]] = "free"
      BY <1>2, <2>1 DEF InvalidateHung, Invalidate, ioctl_InvalidateAgid, Answer, Release
    <2> QED BY <2>1, <2>2 DEF HungAgidsRecovered
  <1>3. ASSUME \E l \in Labels \ {"ReportAgid"} : Goto(h, l)
        PROVE  HungAgidsRecovered'
    BY <1>h, <1>3 DEF HungAgidsRecovered, At, Goto
  <1>4. CASE Open(h) \/ Crack(h) \/ Forget(h) \/ SendChallenge(h) \/ ReportKey1(h)
    BY <1>3, <1>4, Zenon
       DEF Open, Crack, Return, Forget, SendChallenge, ReportKey1, Proceed, Labels
  <1>5. CASE ReportChallenge(h) \/ SendKey2(h) \/ ReadTitleKey(h) \/ ReadDiscKey(h)
    BY <1>3, <1>5, Zenon
       DEF ReportChallenge, SendKey2, ReadTitleKey, ReadDiscKey, Proceed, DisckeyReturns, Labels
  <1>6. CASE ReportAgid(h) \/ Abort(h) \/ DiscASF(h) \/ DiscAbort(h)
    BY <1>3, <1>6, Zenon
       DEF ReportAgid, Abort, DiscASF, DiscAbort, GetBusKeyFails, DisckeyReturns, Labels
  <1> QED
    BY <1>h, <1>1, <1>2, <1>4, <1>5, <1>6, ActionSplit

\* However many AGIDs were hung, GetBusKey's loop has freed one when it asks again.
THEOREM SoleHostRecoversAgids ==
    ASSUME NEW h, Hosts = {h}, "InvalidateAgid" \notin Faults
    PROVE  Spec => []HungAgidsRecovered
  <1>1. Init => TypeInv /\ HungAgidsRecovered
    BY InitTypeInv DEF Init, HungAgidsRecovered, At
  <1>2. TypeInv /\ HungAgidsRecovered /\ [Next]_vars => TypeInv' /\ HungAgidsRecovered'
    <2> SUFFICES ASSUME TypeInv, HungAgidsRecovered, [Next]_vars
                 PROVE  HungAgidsRecovered'
      BY StepTypeOK, StepLoopInv DEF TypeInv
    <2>1. CASE UNCHANGED vars
      BY <2>1 DEF vars, drive, session, HungAgidsRecovered, At
    <2>2. CASE Next
      BY <2>2, RecoveredStep DEF Next
    <2> QED
      BY <2>1, <2>2
  <1> QED
    BY <1>1, <1>2, PTL DEF Spec

=============================================================================
