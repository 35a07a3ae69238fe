-------------------------- MODULE CssAuthManyHosts --------------------------
(***************************************************************************)
(* What hosts that share a drive can rely on.                              *)
(*                                                                         *)
(* Any number of hosts, whose retry loops may take AGIDs from one another: *)
(* a host between two calls holds no AGID, and each call comes to its end. *)
(* Hosts for each of which the drive has an AGID: as long as no command    *)
(* fails, none ever takes another's session, or gets a wrong key.          *)
(***************************************************************************)
EXTENDS CssAuthProofs, FiniteSetTheorems

\* What a step of another host leaves alone.
Same(k) ==
    /\ pc'[k] = pc[k]
    /\ i_agid'[k] = i_agid[k]
    /\ i_try'[k] = i_try[k]
    /\ p_challenge'[k] = p_challenge[k]
    /\ p_bus_key'[k] = p_bus_key[k]
    /\ i_ret'[k] = i_ret[k]
    /\ caller'[k] = caller[k]
    /\ title'[k] = title[k]
    /\ b_ioctls'[k] = b_ioctls[k]
    /\ i_method'[k] = i_method[k]

StepOf(h) == Open(h) \/ Title(h) \/ Step(h) \/ Close(h) \/ Kill(h)

LEMMA OthersSame ==
    ASSUME TypeOK, NEW h \in Hosts, StepOf(h), NEW k \in Hosts, k # h
    PROVE  Same(k)
  <1> USE DEF Goto, session, keys, setup, call, TypeOK
  <1>1. CASE Open(h)
    BY <1>1 DEF Open, Same
  <1>2. CASE Test(h)
    <2>1. /\ \E l : Goto(h, l)
          /\ UNCHANGED i_try \/ i_try' = [i_try EXCEPT ![h] = 0]
          /\ UNCHANGED b_ioctls \/ b_ioctls' = [b_ioctls EXCEPT ![h] = FALSE]
      BY <1>2, Zenon DEF Test, StartGetBusKey
    <2>2. pc'[k] = pc[k] /\ i_try'[k] = i_try[k] /\ b_ioctls'[k] = b_ioctls[k]
      BY <2>1
    <2> QED BY <1>2, <2>2 DEF Test, Same
  <1>3. CASE ReportAgid(h)
    <2>1. /\ \E l : Goto(h, l)
          /\ \E a : i_agid' = [i_agid EXCEPT ![h] = a]
          /\ UNCHANGED i_ret \/ i_ret' = [i_ret EXCEPT ![h] = -1]
      BY <1>3, Zenon DEF ReportAgid, GetBusKeyFails, DisckeyReturns
    <2>2. pc'[k] = pc[k] /\ i_agid'[k] = i_agid[k] /\ i_ret'[k] = i_ret[k]
      BY <2>1
    <2> QED BY <1>3, <2>2 DEF ReportAgid, Same
  <1>4. CASE InvalidateHung(h)
    BY <1>4 DEF InvalidateHung, NextTry, Same
  <1>5. CASE SendChallenge(h) \/ ReportKey1(h)
    BY <1>5 DEF SendChallenge, ReportKey1, Proceed, Same
  <1>6. CASE ReportChallenge(h)
    BY <1>6 DEF ReportChallenge, Proceed, Same
  <1>7. CASE SendKey2(h)
    BY <1>7 DEF SendKey2, Proceed, Same
  <1>8. CASE Abort(h)
    BY <1>8 DEF Abort, GetBusKeyFails, DisckeyReturns, Same
  <1>9. CASE ReadDiscKey(h)
    <2>1. /\ \E l : Goto(h, l)
          /\ UNCHANGED i_ret \/ i_ret' = [i_ret EXCEPT ![h] = -1]
      BY <1>9, Zenon DEF ReadDiscKey, DisckeyReturns
    <2>2. pc'[k] = pc[k] /\ i_ret'[k] = i_ret[k]
      BY <2>1
    <2> QED BY <1>9, <2>2 DEF ReadDiscKey, Same
  <1>10. CASE DiscASF(h)
    <2>1. /\ \E l : Goto(h, l)
          /\ \/ UNCHANGED i_method
             \/ \E m : i_method' = [i_method EXCEPT ![h] = m]
          /\ UNCHANGED i_ret \/ i_ret' = [i_ret EXCEPT ![h] = 0]
      BY <1>10, Zenon DEF DiscASF, DisckeyReturns
    <2>2. pc'[k] = pc[k] /\ i_method'[k] = i_method[k] /\ i_ret'[k] = i_ret[k]
      BY <2>1
    <2> QED BY <1>10, <2>2 DEF DiscASF, Same
  <1>11. CASE DiscAbort(h)
    BY <1>11 DEF DiscAbort, DisckeyReturns, Same
  <1>12. CASE Title(h)
    BY <1>12 DEF Title, StartGetBusKey, Same
  <1>13. CASE ReadTitleKey(h)
    BY <1>13 DEF ReadTitleKey, Same
  <1>14. CASE TitleASF(h)
    <2>1. /\ \E l : Goto(h, l)
          /\ UNCHANGED i_try \/ i_try' = [i_try EXCEPT ![h] = 0]
          /\ UNCHANGED caller \/ caller' = [caller EXCEPT ![h] = "fallback"]
          /\ UNCHANGED title \/ title' = [title EXCEPT ![h] = NoTitle]
          /\ UNCHANGED i_ret \/ \E r : i_ret' = [i_ret EXCEPT ![h] = r]
      BY <1>14, Zenon DEF TitleASF, Return, Fallback, StartGetBusKey
    <2>2. /\ pc'[k] = pc[k] /\ i_try'[k] = i_try[k] /\ caller'[k] = caller[k]
          /\ title'[k] = title[k] /\ i_ret'[k] = i_ret[k]
      BY <2>1
    <2> QED BY <1>14, <2>2 DEF TitleASF, Same
  <1>15. CASE TitleAbort(h)
    BY <1>15 DEF TitleAbort, Fallback, StartGetBusKey, Same
  <1>16. CASE Crack(h)
    BY <1>16 DEF Crack, Return, Same
  <1>17. CASE Forget(h)
    BY <1>17 DEF Forget, Same
  <1> QED BY <1>1, <1>2, <1>3, <1>4, <1>5, <1>6, <1>7, <1>8, <1>9, <1>10, <1>11,
             <1>12, <1>13, <1>14, <1>15, <1>16, <1>17, ActionSplit DEF StepOf

(***************************************************************************)
(* Between two calls no AGID is held.                                      *)
(***************************************************************************)
\* The failures that leave an AGID behind do not happen: a grant or a release that
\* the host does not learn of, a disc key that is not read, a region error, a kill.
CleanedUp ==
    /\ ~Crashes
    /\ "LostAgid" \notin Faults /\ "InvalidateAgid" \notin Faults
    /\ "ReadDiscKey" \notin Faults /\ "Region" \notin Faults

HoldLabels == {"SendChallenge", "ReportKey1", "ReportChallenge", "SendKey2", "Abort",
               "ReadDiscKey", "ReadTitleKey", "TitleASF", "TitleAbort"}

\* A host that holds an AGID is on its way to use it up or to invalidate it: a key
\* block can be read, and where that may fail the drive's ASF stands, which leads to
\* the invalidation.
HeldBy(h, a) ==
    /\ i_agid[h] = a
    /\ pc[h] \in HoldLabels
    /\ At(h, "ReadDiscKey") => stage[a] = "auth"
    /\ At(h, "ReadTitleKey") => asf
    /\ At(h, "TitleASF") => asf /\ i_ret[h] = -1

HeldInv == \A h \in Hosts : \A a \in Agids : holder[a] = h => HeldBy(h, a)

\* What a command that grants nothing does to a session: it ends it, or leaves it
\* with its holder, and authenticated if it was.
Kept(a) ==
    holder'[a] \in Hosts =>
        holder'[a] = holder[a] /\ (stage[a] = "auth" => stage'[a] = "auth")

Gentle == (asf => asf') /\ \A a \in Agids : Kept(a)

LEMMA GentleSteps ==
    ASSUME DriveTypeOK, NEW a \in Agids
    PROVE  /\ UNCHANGED drive => Gentle
           /\ Release(a) /\ UNCHANGED asf => Gentle
           /\ \A s \in Stages : stage[a] # "auth" /\ Advance(a, s) => Gentle
  BY NobodyAssumption
     DEF Gentle, Kept, DriveTypeOK, drive, Release, Advance, Agids

LEMMA GentleCommands ==
    ASSUME DriveTypeOK, CleanedUp, NEW a \in Agids, NEW ok \in BOOLEAN
    PROVE  /\ ioctl_InvalidateAgid(a, ok) => Gentle
           /\ ioctl_SendChallenge(a, ok) => Gentle
           /\ ioctl_ReportKey1(a, ok) => Gentle
           /\ \A n : ioctl_ReportChallenge(a, n, ok) => Gentle
           /\ \A k : ioctl_SendKey2(a, k, ok) => Gentle
           /\ ioctl_ReadDiscKey(a, ok) => Gentle
           /\ \A haskey : ioctl_ReadTitleKey(a, haskey, ok) => Gentle
  <1>1. ioctl_InvalidateAgid(a, ok) => Gentle
    BY GentleSteps DEF ioctl_InvalidateAgid, Answer
  <1>2. ioctl_SendChallenge(a, ok) => Gentle
    BY GentleSteps DEF ioctl_SendChallenge, Answer, Stages
  <1>3. ioctl_ReportKey1(a, ok) => Gentle
    BY GentleSteps DEF ioctl_ReportKey1, Answer, Stages
  <1>4. ASSUME NEW n, ioctl_ReportChallenge(a, n, ok) PROVE Gentle
    <2>1. CASE UNCHANGED drive
      BY <2>1, GentleSteps
    <2>2. CASE /\ stage[a] = "key1"
               /\ stage' = [stage EXCEPT ![a] = "challenge"]
               /\ UNCHANGED <<holder, asf>>
      BY <2>2 DEF Gentle, Kept, DriveTypeOK
    <2> QED BY <1>4, <2>1, <2>2, Zenon DEF ioctl_ReportChallenge, Answer
  <1>5. ASSUME NEW k, ioctl_SendKey2(a, k, ok) PROVE Gentle
    <2>1. CASE UNCHANGED drive
      BY <2>1, GentleSteps
    <2>2. CASE /\ stage' = [stage EXCEPT ![a] = "auth"] /\ asf' = TRUE
               /\ UNCHANGED <<nonce, holder>>
      BY <2>2 DEF Gentle, Kept, DriveTypeOK
    <2>3. CASE Release(a) /\ UNCHANGED asf
      BY <2>3, GentleSteps
    <2> QED BY <1>5, <2>1, <2>2, <2>3, Zenon DEF ioctl_SendKey2, Answer
  <1>6. ioctl_ReadDiscKey(a, ok) => Gentle
    BY GentleSteps DEF ioctl_ReadDiscKey, Answer
  <1>7. ASSUME NEW haskey, ioctl_ReadTitleKey(a, haskey, ok) PROVE Gentle
    <2>1. CASE UNCHANGED drive
      BY <2>1, GentleSteps
    <2>2. CASE Release(a) /\ UNCHANGED asf
      BY <2>2, GentleSteps
    <2>3. \/ UNCHANGED drive
          \/ Release(a) /\ UNCHANGED asf
          \/ UNCHANGED <<stage, nonce, holder>> /\ asf' = asf
      BY <1>7, Zenon DEF ioctl_ReadTitleKey, Answer, CleanedUp
    <2> QED BY <2>1, <2>2, <2>3, GentleSteps DEF drive
  <1> QED BY <1>1, <1>2, <1>3, <1>4, <1>5, <1>6, <1>7

\* An invalidation that cannot fail.
LEMMA Invalidated ==
    ASSUME DriveTypeOK, CleanedUp, NEW a \in Agids, Invalidate(a)
    PROVE  Gentle /\ holder'[a] = Nobody
  BY GentleSteps DEF Invalidate, ioctl_InvalidateAgid, Answer, CleanedUp, Release, DriveTypeOK

\* Others keep what is said of them.
LEMMA HeldByOthers ==
    ASSUME HeldInv, NEW k \in Hosts, Same(k), NEW a \in Agids, holder'[a] = k,
           Kept(a), asf => asf'
    PROVE  HeldBy(k, a)'
  BY DEF HeldInv, HeldBy, Kept, Same, At

LEMMA HeldStep ==
    ASSUME TypeOK, HeldInv, NEW h \in Hosts, \A k \in Hosts \ {h} : Same(k), Gentle,
           \A a \in Agids : holder[a] = h /\ holder'[a] = h /\ HeldBy(h, a) => HeldBy(h, a)'
    PROVE  HeldInv'
  <1> SUFFICES ASSUME NEW k \in Hosts, NEW a \in Agids, holder'[a] = k
               PROVE  HeldBy(k, a)'
    BY DEF HeldInv
  <1>1. Kept(a) /\ (asf => asf') /\ holder[a] = k
    BY DEF Gentle, Kept
  <1>2. CASE k # h
    BY <1>1, <1>2, HeldByOthers
  <1>3. CASE k = h
    BY <1>1, <1>3 DEF HeldInv
  <1> QED BY <1>2, <1>3

\* A host that is not in a session holds nothing, and stays that way.
LEMMA IdleHost ==
    ASSUME TypeOK, HeldInv, NEW h \in Hosts, \A k \in Hosts \ {h} : Same(k), Gentle,
           pc[h] \notin HoldLabels
    PROVE  HeldInv'
  <1>1. \A a \in Agids : holder[a] # h
    BY DEF HeldInv, HeldBy
  <1> QED BY <1>1, HeldStep

\* A host that invalidates its AGID holds nothing afterwards.
LEMMA ReleasingHost ==
    ASSUME TypeOK, HeldInv, NEW h \in Hosts, \A k \in Hosts \ {h} : Same(k), Gentle,
           holder'[i_agid[h]] # h
    PROVE  HeldInv'
  <1>1. \A a \in Agids : holder[a] = h => a = i_agid[h]
    BY DEF HeldInv, HeldBy
  <1> QED BY <1>1, HeldStep

LEMMA HeldGrant ==
    ASSUME TypeOK, HeldInv, NEW h \in Hosts, \A k \in Hosts \ {h} : Same(k),
           pc[h] \notin HoldLabels, NEW a \in Agids, Grant(h, a),
           i_agid' = [i_agid EXCEPT ![h] = a], Goto(h, "SendChallenge")
    PROVE  HeldInv'
  <1> SUFFICES ASSUME NEW k \in Hosts, NEW b \in Agids, holder'[b] = k
               PROVE  HeldBy(k, b)'
    BY DEF HeldInv
  <1> USE DEF TypeOK, DriveTypeOK
  <1>1. \A c \in Agids : holder[c] # h
    BY DEF HeldInv, HeldBy
  <1>2. asf => asf'
    BY DEF Grant
  <1>3. CASE b = a
    <2>1. k = h
      BY <1>3 DEF Grant
    <2>2. i_agid'[h] = a /\ pc'[h] = "SendChallenge"
      BY DEF Goto
    <2> QED BY <1>3, <2>1, <2>2 DEF HeldBy, HoldLabels, At
  <1>4. CASE b # a
    <2>1. stage'[b] = stage[b] /\ holder'[b] = holder[b]
      BY <1>4 DEF Grant
    <2>2. k # h /\ Kept(b)
      BY <1>1, <2>1 DEF Kept
    <2> QED BY <1>2, <2>2, HeldByOthers
  <1> QED BY <1>3, <1>4

\* The commands of GetBusKey after the grant: the host stays in the session.
LEMMA HeldProceed ==
    ASSUME TypeOK, HeldInv, NEW h \in Hosts, \A k \in Hosts \ {h} : Same(k), Gentle,
           i_agid' = i_agid,
           pc'[h] \in {"SendChallenge", "ReportKey1", "ReportChallenge", "SendKey2", "Abort"}
    PROVE  HeldInv'
  <1> SUFFICES ASSUME NEW a \in Agids, holder[a] = h, HeldBy(h, a)
               PROVE  HeldBy(h, a)'
    BY HeldStep
  <1> QED BY DEF HeldBy, HoldLabels, At

LEMMA HeldSendKey2 ==
    ASSUME TypeOK, HeldInv, CleanedUp, NEW h \in Hosts, \A k \in Hosts \ {h} : Same(k),
           SendKey2(h)
    PROVE  HeldInv'
  <1> USE DEF TypeOK, DriveTypeOK
  <1>1. PICK ok \in BOOLEAN :
           /\ ioctl_SendKey2(i_agid[h], p_challenge[h], ok)
           /\ Proceed(h, ok, IF caller[h] = "title" THEN "ReadTitleKey" ELSE "ReadDiscKey")
    BY DEF SendKey2
  <1>2. Gentle /\ i_agid' = i_agid
    BY <1>1, GentleCommands DEF SendKey2
  <1>3. CASE ~ok
    BY <1>1, <1>2, <1>3, HeldProceed DEF Proceed, Goto
  <1>4. CASE ok
    <2>1. /\ stage' = [stage EXCEPT ![i_agid[h]] = "auth"]
          /\ asf' = TRUE
      BY <1>1, <1>4, Zenon DEF ioctl_SendKey2, Answer
    <2>2. pc'[h] \in {"ReadTitleKey", "ReadDiscKey"}
      BY <1>1, <1>4 DEF Proceed, Goto
    <2> SUFFICES ASSUME NEW a \in Agids, holder[a] = h, HeldBy(h, a)
                 PROVE  HeldBy(h, a)'
      BY <1>2, HeldStep
    <2> QED BY <1>2, <2>1, <2>2 DEF HeldBy, HoldLabels, At
  <1> QED BY <1>3, <1>4

LEMMA HeldReadKeys ==
    ASSUME TypeOK, HeldInv, CleanedUp, NEW h \in Hosts, \A k \in Hosts \ {h} : Same(k),
           ReadDiscKey(h) \/ ReadTitleKey(h)
    PROVE  HeldInv'
  <1> USE DEF TypeOK, DriveTypeOK
  <1>1. CASE ReadDiscKey(h)
    <2>1. PICK ok \in BOOLEAN : ioctl_ReadDiscKey(i_agid[h], ok)
      BY <1>1 DEF ReadDiscKey
    <2>2. Gentle
      BY <2>1, GentleCommands
    <2>3. holder'[i_agid[h]] = Nobody \/ (stage[i_agid[h]] # "auth" /\ UNCHANGED drive)
      <3>1. Release(i_agid[h]) \/ (stage[i_agid[h]] # "auth" /\ UNCHANGED drive)
        BY <2>1 DEF ioctl_ReadDiscKey, Answer, CleanedUp
      <3> QED BY <3>1 DEF Release
    <2>4. holder'[i_agid[h]] # h
      BY <1>1, <2>3, NobodyAssumption DEF HeldInv, HeldBy, ReadDiscKey, At, drive
    <2> QED BY <2>2, <2>4, ReleasingHost
  <1>2. CASE ReadTitleKey(h)
    <2>1. PICK ok \in BOOLEAN :
             /\ ioctl_ReadTitleKey(i_agid[h], title[h] \in Encrypted, ok)
             /\ ~ok => i_ret' = [i_ret EXCEPT ![h] = -1]
      BY <1>2, Zenon DEF ReadTitleKey
    <2>2. Gentle
      BY <2>1, GentleCommands
    <2>3. CASE ok
      <3>1. Release(i_agid[h])
        BY <2>1, <2>3, Zenon DEF ioctl_ReadTitleKey, Answer
      <3> QED BY <2>2, <3>1, ReleasingHost, NobodyAssumption DEF Release
    <2>4. CASE ~ok
      <3>1. i_ret'[h] = -1 /\ pc'[h] = "TitleASF" /\ i_agid' = i_agid
        BY <1>2, <2>1, <2>4 DEF ReadTitleKey, Goto
      <3>2. pc[h] = "ReadTitleKey"
        BY <1>2 DEF ReadTitleKey, At
      <3> SUFFICES ASSUME NEW a \in Agids, holder[a] = h, HeldBy(h, a)
                   PROVE  HeldBy(h, a)'
        BY <2>2, HeldStep
      <3> QED BY <2>2, <3>1, <3>2 DEF HeldBy, HoldLabels, At, Gentle
    <2> QED BY <2>3, <2>4
  <1> QED BY <1>1, <1>2

LEMMA HeldNext ==
    ASSUME TypeInv, HeldInv, CleanedUp, NEW h \in Hosts, StepOf(h)
    PROVE  HeldInv'
  <1> USE DEF TypeInv, TypeOK, DriveTypeOK
  <1>1. \A k \in Hosts \ {h} : Same(k)
    BY OthersSame
  <1>2. UNCHANGED drive => Gentle
    BY GentleSteps, NAgidsAssumption
  <1>3. CASE Open(h) \/ Test(h) \/ DiscASF(h) \/ Title(h) \/ Crack(h) \/ Close(h)
    <2>1. pc[h] \notin HoldLabels
      BY <1>3 DEF Open, Test, DiscASF, Title, Crack, Close, At, HoldLabels
    <2>2. UNCHANGED drive
      BY <1>3, Zenon DEF Open, Test, DiscASF, Title, Crack, Close, Forget, ioctl_ReadCopyright
    <2> QED BY <1>1, <1>2, <2>1, <2>2, IdleHost
  <1>4. CASE InvalidateHung(h)
    <2>1. i_try[h] \in Agids /\ pc[h] \notin HoldLabels
      BY <1>4, NAgidsAssumption DEF InvalidateHung, LoopInv, At, Agids, HoldLabels
    <2>2. Gentle
      BY <1>4, <2>1, Invalidated DEF InvalidateHung
    <2> QED BY <1>1, <2>1, <2>2, IdleHost
  <1>5. CASE DiscAbort(h) \/ Abort(h) \/ TitleAbort(h)
    <2>1. Invalidate(i_agid[h])
      BY <1>5, Zenon DEF DiscAbort, Abort, TitleAbort
    <2>2. Gentle /\ holder'[i_agid[h]] # h
      BY <2>1, Invalidated, NobodyAssumption
    <2> QED BY <1>1, <2>2, ReleasingHost
  <1>6. CASE ReportAgid(h)
    <2>1. PICK a \in Agids :
             \/ /\ ioctl_ReportAgid(h, a, TRUE)
                /\ i_agid' = [i_agid EXCEPT ![h] = a]
                /\ Goto(h, "SendChallenge")
             \/ ioctl_ReportAgid(h, a, FALSE)
      BY <1>6, Zenon DEF ReportAgid
    <2>2. pc[h] \notin HoldLabels
      BY <1>6 DEF ReportAgid, At, HoldLabels
    <2>3. CASE ioctl_ReportAgid(h, a, FALSE)
      <3>1. UNCHANGED drive
        BY <2>3 DEF ioctl_ReportAgid, CleanedUp
      <3> QED BY <1>1, <1>2, <2>2, <3>1, IdleHost
    <2>4. CASE /\ ioctl_ReportAgid(h, a, TRUE)
               /\ i_agid' = [i_agid EXCEPT ![h] = a]
               /\ Goto(h, "SendChallenge")
      <3>1. Grant(h, a)
        BY <2>4 DEF ioctl_ReportAgid
      <3> QED BY <1>1, <2>2, <2>4, <3>1, HeldGrant
    <2> QED BY <2>1, <2>3, <2>4
  <1>7. CASE SendChallenge(h) \/ ReportKey1(h)
    <2>1. Gentle
      BY <1>7, GentleCommands DEF SendChallenge, ReportKey1
    <2>2. i_agid' = i_agid
      BY <1>7 DEF SendChallenge, ReportKey1, session
    <2>3. \E l \in {"ReportKey1", "ReportChallenge", "Abort"} : Goto(h, l)
      BY <1>7, Zenon DEF SendChallenge, ReportKey1, Proceed
    <2> QED BY <1>1, <2>1, <2>2, <2>3, HeldProceed DEF Goto
  <1>8. CASE ReportChallenge(h)
    <2>1. Gentle
      BY <1>8, GentleCommands DEF ReportChallenge
    <2>2. i_agid' = i_agid
      BY <1>8 DEF ReportChallenge
    <2>3. \E l \in {"SendKey2", "Abort"} : Goto(h, l)
      BY <1>8, Zenon DEF ReportChallenge, Proceed
    <2> QED BY <1>1, <2>1, <2>2, <2>3, HeldProceed DEF Goto
  <1>9. CASE SendKey2(h)
    BY <1>1, <1>9, HeldSendKey2
  <1>10. CASE ReadDiscKey(h) \/ ReadTitleKey(h)
    BY <1>1, <1>10, HeldReadKeys
  <1>11. CASE TitleASF(h)
    <2>1. UNCHANGED drive /\ i_agid' = i_agid /\ pc[h] = "TitleASF"
      BY <1>11 DEF TitleASF, At
    <2>2. asf /\ i_ret[h] = -1 => Goto(h, "TitleAbort")
      BY <1>11 DEF TitleASF
    <2> SUFFICES ASSUME NEW a \in Agids, holder[a] = h, HeldBy(h, a)
                 PROVE  HeldBy(h, a)'
      BY <1>1, <1>2, <2>1, HeldStep
    <2> QED BY <2>1, <2>2 DEF HeldBy, HoldLabels, At, Goto
  <1>12. ~Kill(h)
    BY DEF CleanedUp, Kill
  <1> QED BY <1>3, <1>4, <1>5, <1>6, <1>7, <1>8, <1>9, <1>10, <1>11, <1>12, Zenon
             DEF StepOf, Step

\* Whatever else fails and whoever takes whose AGID, no host keeps one once its call
\* is over: dvdcss_disckey and dvdcss_titlekey leave nothing behind in the drive.
THEOREM ManyHostsReleaseAgids ==
    ASSUME CleanedUp
    PROVE  Spec => []AgidReleased
  <1>1. Init => TypeInv /\ HeldInv
    BY InitTypeInv, NobodyAssumption DEF Init, DriveInit, HeldInv, TypeInv, TypeOK
  <1>2. TypeInv /\ HeldInv /\ [Next]_vars => TypeInv' /\ HeldInv'
    <2> SUFFICES ASSUME TypeInv, HeldInv, [Next]_vars
                 PROVE  HeldInv'
      BY StepTypeOK, StepLoopInv DEF TypeInv
    <2>1. CASE UNCHANGED vars
      BY <2>1 DEF vars, drive, session, call, HeldInv, HeldBy, At
    <2>2. CASE Next
      BY <2>2, HeldNext DEF Next, StepOf
    <2> QED BY <2>1, <2>2
  <1>3. HeldInv => AgidReleased
    BY DEF HeldInv, HeldBy, AgidReleased, HoldLabels, Idle
  <1> QED BY <1>1, <1>2, <1>3, PTL DEF Spec

(***************************************************************************)
(* Enough AGIDs and no faults: nobody takes a session from anybody.        *)
(***************************************************************************)
\* The drive has an AGID for every host, nothing is left behind by other programs,
\* no host is killed and no command fails, but for the copyright information: a
\* medium without it is not a disc that is authenticated for.
Uncontended ==
    /\ IsFiniteSet(Hosts) /\ Cardinality(Hosts) <= NAgids
    /\ HungSets \subseteq {{}}
    /\ Faults \subseteq {"ReadCopyright"}
    /\ ~Crashes

\* A host holds its AGID until it has read the key, or, if the title has none, until
\* it has invalidated the AGID.
Needs ==
    [SendChallenge |-> "granted", ReportKey1 |-> "challenged",
     ReportChallenge |-> "key1", SendKey2 |-> "challenge",
     ReadDiscKey |-> "auth", ReadTitleKey |-> "auth",
     TitleASF |-> "auth", TitleAbort |-> "auth"]

Holding(h) ==
    /\ pc[h] \in DOMAIN Needs
    /\ At(h, "TitleASF") => i_ret[h] = -1

Owns(h) ==
    /\ holder[i_agid[h]] = h
    /\ stage[i_agid[h]] = Needs[pc[h]]
    /\ At(h, "SendKey2") => nonce[i_agid[h]] = p_challenge[h]
    /\ stage[i_agid[h]] = "auth" => nonce[i_agid[h]] = p_bus_key[h]

Authenticating ==
    {"ReportAgid", "SendChallenge", "ReportKey1", "ReportChallenge", "SendKey2"}

\* No error path is ever taken but the one of a title without a key.
Untroubled(h) ==
    /\ pc[h] \notin {"InvalidateHung", "Abort", "DiscAbort"}
    /\ pc[h] = "Test" => caller[h] = "open"
    /\ (pc[h] \in Authenticating /\ caller[h] = "title") \/ pc[h] = "ReadTitleKey"
           => i_ret[h] = 0
    /\ pc[h] = "TitleASF" => i_ret[h] \in {0, -1}
    /\ pc[h] = "DiscASF" => asf
    /\ pc[h] \in {"ReadDiscKey", "DiscASF"} => caller[h] # "title"

\* Only a title without a key is not read in the classic way.
Keyless(h) ==
    \/ caller[h] = "fallback"
    \/ pc[h] = "TitleASF" /\ i_ret[h] = -1
    \/ pc[h] = "TitleAbort"
    \/ pc[h] = "Crack" /\ b_ioctls[h] /\ i_method[h] # "TITLE"

HostInv(h) ==
    /\ Holding(h) => Owns(h)
    /\ Untroubled(h)
    /\ Keyless(h) => title[h] \notin Encrypted

\* Every session belongs to the host that holds its AGID, and to no other.
AgidInv(a) ==
    /\ stage[a] = "free" <=> holder[a] = Nobody
    /\ holder[a] \in Hosts => i_agid[holder[a]] = a /\ Holding(holder[a])
    /\ stage[a] = "auth" => asf

UncontendedInv == (\A h \in Hosts : HostInv(h)) /\ (\A a \in Agids : AgidInv(a))

\* At every request for an AGID one is free: as many as there are hosts could be
\* held, but the host that asks holds none.
LEMMA AgidLeft ==
    ASSUME TypeOK, Uncontended, UncontendedInv, NEW h \in Hosts, At(h, "ReportAgid")
    PROVE  \E a \in Agids : stage[a] = "free"
  <1> SUFFICES ASSUME \A a \in Agids : stage[a] # "free"
               PROVE  FALSE
    OBVIOUS
  <1> USE DEF TypeOK, DriveTypeOK
  <1>1. \A a \in Agids : holder[a] \in Hosts \ {h} /\ i_agid[holder[a]] = a
    <2> SUFFICES ASSUME NEW a \in Agids
                 PROVE  holder[a] \in Hosts \ {h} /\ i_agid[holder[a]] = a
      OBVIOUS
    <2>1. holder[a] \in Hosts /\ i_agid[holder[a]] = a /\ Holding(holder[a])
      BY DEF UncontendedInv, AgidInv
    <2>2. ~Holding(h)
      BY DEF Holding, Needs, At
    <2> QED BY <2>1, <2>2
  <1>2. IsFiniteSet(Agids) /\ Cardinality(Agids) = NAgids
    BY FS_Interval, NAgidsAssumption DEF Agids
  <1>3. IsFiniteSet(Hosts \ {h}) /\ Cardinality(Hosts \ {h}) = Cardinality(Hosts) - 1
    BY FS_RemoveElement DEF Uncontended
  <1>4. Cardinality(Hosts) \in Nat
    BY FS_CardinalityType DEF Uncontended
  <1>5. Cardinality(Hosts \ {h}) < Cardinality(Agids)
    BY <1>2, <1>3, <1>4, NAgidsAssumption DEF Uncontended
  <1>6. holder \in [Agids -> Hosts \ {h}]
    BY <1>1
  <1>7. PICK a \in Agids, b \in Agids : a # b /\ holder[a] = holder[b]
    BY <1>2, <1>3, <1>5, <1>6, FS_PigeonHole
  <1> QED BY <1>1, <1>7

\* A step of h that touches no other session than the one it holds, or one that is
\* free, keeps the invariant if it keeps it for h and for that session.
Touches(h, t) ==
    /\ \A a \in Agids \ {t} : /\ stage'[a] = stage[a]
                              /\ nonce'[a] = nonce[a]
                              /\ holder'[a] = holder[a]
    /\ asf => asf'
    /\ holder[t] \in {h, Nobody} /\ holder'[t] \in {h, Nobody}
    /\ \A a \in Agids : holder[a] = h => a = t

LEMMA OthersUntouched ==
    ASSUME TypeOK, NEW h \in Hosts, NEW t \in Agids, Touches(h, t),
           NEW k \in Hosts, k # h, Same(k), HostInv(k)
    PROVE  HostInv(k)'
  <1> USE DEF TypeOK, DriveTypeOK
  <1>1. Holding(k)' <=> Holding(k)
    BY DEF Holding, At, Same
  <1>2. (Keyless(k)' <=> Keyless(k)) /\ title'[k] = title[k]
    BY DEF Keyless, Same
  <1>3. asf => asf'
    BY DEF Touches
  <1>4. Untroubled(k) => Untroubled(k)'
    BY <1>3 DEF Untroubled, Same
  <1>5. ASSUME Owns(k) PROVE Owns(k)'
    <2>1. i_agid[k] # t /\ i_agid[k] \in Agids
      BY <1>5, NobodyAssumption DEF Owns, Touches
    <2>2. /\ stage'[i_agid[k]] = stage[i_agid[k]]
          /\ nonce'[i_agid[k]] = nonce[i_agid[k]]
          /\ holder'[i_agid[k]] = holder[i_agid[k]]
      BY <2>1 DEF Touches
    <2> QED BY <1>5, <2>2 DEF Owns, Same, At
  <1> QED BY <1>1, <1>2, <1>4, <1>5 DEF HostInv

LEMMA TouchStep ==
    ASSUME TypeOK, UncontendedInv, NEW h \in Hosts, \A k \in Hosts \ {h} : Same(k),
           NEW t \in Agids, Touches(h, t), pc'[h] # pc[h], HostInv(h)', AgidInv(t)'
    PROVE  UncontendedInv' /\ EndsByHolder
  <1> USE DEF TypeOK, DriveTypeOK
  <1>1. ASSUME NEW k \in Hosts PROVE HostInv(k)'
    BY <1>1, OthersUntouched DEF UncontendedInv
  <1>2. ASSUME NEW a \in Agids PROVE AgidInv(a)'
    <2>1. CASE a # t
      <3>1. /\ AgidInv(a) /\ (asf => asf')
            /\ stage'[a] = stage[a] /\ holder'[a] = holder[a] /\ holder[a] # h
        BY <2>1 DEF UncontendedInv, Touches
      <3>2. ASSUME holder[a] \in Hosts
            PROVE  /\ i_agid'[holder[a]] = a
                   /\ Holding(holder[a])'
        <4>1. Same(holder[a]) /\ i_agid[holder[a]] = a /\ Holding(holder[a])
          BY <3>1, <3>2 DEF AgidInv
        <4> QED BY <3>1, <4>1 DEF Same, Holding, At
      <3> QED BY <3>1, <3>2 DEF AgidInv
    <2> QED BY <2>1
  <1>3. ASSUME NEW a \in Agids, stage[a] # "free", stage'[a] = "free", holder[a] \in Hosts
        PROVE  holder[a] = h
    BY <1>3, NobodyAssumption DEF Touches
  <1> QED BY <1>1, <1>2, <1>3 DEF UncontendedInv, EndsByHolder

\* A step outside a session that sends the drive nothing.
LEMMA QuietStep ==
    ASSUME TypeOK, UncontendedInv, NEW h \in Hosts, \A k \in Hosts \ {h} : Same(k),
           UNCHANGED drive, ~Holding(h), ~Holding(h)', HostInv(h)'
    PROVE  UncontendedInv' /\ EndsByHolder
  <1> USE DEF TypeOK, DriveTypeOK
  <1>1. \A a \in Agids : holder[a] # h
    BY DEF UncontendedInv, AgidInv
  <1>2. ASSUME NEW k \in Hosts, k # h PROVE HostInv(k)'
    <2>1. HostInv(k) /\ Same(k)
      BY <1>2 DEF UncontendedInv
    <2> QED BY <2>1 DEF HostInv, Owns, Holding, Untroubled, Keyless, Same, At, drive
  <1>3. ASSUME NEW a \in Agids PROVE AgidInv(a)'
    <2>1. AgidInv(a) /\ (holder[a] \in Hosts => Same(holder[a]))
      BY <1>1 DEF UncontendedInv
    <2> QED BY <2>1 DEF AgidInv, Holding, Same, At, drive
  <1>4. EndsByHolder
    BY DEF EndsByHolder, drive
  <1> QED BY <1>2, <1>3, <1>4 DEF UncontendedInv

\* The steps that send the drive nothing and are not those of a session.
LEMMA QuietActions ==
    ASSUME TypeOK, Uncontended, UncontendedInv, NEW h \in Hosts,
           \A k \in Hosts \ {h} : Same(k),
           \/ Open(h) \/ Test(h) \/ Title(h) \/ DiscASF(h) \/ Crack(h) \/ Close(h)
           \/ TitleASF(h) /\ i_ret[h] = 0
    PROVE  UncontendedInv' /\ EndsByHolder
  <1> USE DEF TypeOK, Goto, At
  <1>1. HostInv(h) /\ NoTitle \notin Encrypted
    BY NoTitleAssumption, EncryptedAssumption DEF UncontendedInv
  <1>2. UNCHANGED drive
    BY Zenon DEF Open, Test, Title, DiscASF, Crack, Close, Forget, TitleASF, ioctl_ReadCopyright
  <1> DEFINE Quiet == ~Holding(h) /\ ~Holding(h)' /\ HostInv(h)'
  <1>3. CASE Open(h) \/ Close(h)
    <2>1. /\ pc[h] \in {"closed", "ready"} /\ pc'[h] \in {"Test", "ready", "closed"}
          /\ caller'[h] = "open"
      BY <1>3 DEF Open, Close, Forget
    <2> QED BY <1>1, <1>2, <2>1, QuietStep DEF Holding, HostInv, Untroubled, Keyless, Needs, Authenticating
  <1>4. CASE Test(h)
    <2>1. \E l \in {"ready", "ReportAgid"} : Goto(h, l)
      BY <1>4, Zenon DEF Test, StartGetBusKey
    <2>2. /\ pc[h] = "Test" /\ pc'[h] \in {"ready", "ReportAgid"}
          /\ caller' = caller /\ i_ret' = i_ret
      BY <1>4, <2>1 DEF Test, call
    <2> QED BY <1>1, <1>2, <2>2, QuietStep DEF Holding, HostInv, Untroubled, Keyless, Needs, Authenticating
  <1>5. CASE Title(h)
    <2>1. /\ pc[h] = "ready" /\ pc'[h] \in {"ReportAgid", "Crack"}
          /\ caller'[h] = "title" /\ i_ret'[h] = 0
      BY <1>5 DEF Title, StartGetBusKey
    <2>2. pc'[h] = "Crack" => ~b_ioctls'[h] \/ i_method'[h] = "TITLE"
      BY <1>5 DEF Title, StartGetBusKey, setup, keys
    <2> QED BY <1>1, <1>2, <2>1, <2>2, QuietStep DEF Holding, HostInv, Untroubled, Keyless, Needs, Authenticating
  <1>6. CASE DiscASF(h)
    <2>1. asf /\ caller[h] # "title" /\ pc[h] = "DiscASF"
      BY <1>1, <1>6 DEF DiscASF, HostInv, Untroubled
    <2>2. DisckeyReturns(h, 0)
      BY <1>6, <2>1, Zenon DEF DiscASF, ioctl_ReportASF, Uncontended
    <2>3. /\ pc'[h] = IF caller[h] = "open" THEN "ready" ELSE "Crack"
          /\ caller' = caller /\ title' = title
      BY <1>6, <2>2 DEF DiscASF, DisckeyReturns
    <2>4. Keyless(h)' => caller[h] = "fallback"
      BY <2>1, <2>3 DEF Keyless
    <2>5. title'[h] \in Encrypted => ~Keyless(h)'
      BY <1>1, <2>3, <2>4 DEF HostInv, Keyless
    <2> QED BY <1>2, <2>1, <2>3, <2>5, QuietStep DEF Holding, HostInv, Untroubled, Needs, Authenticating
  <1>7. CASE Crack(h) \/ (TitleASF(h) /\ i_ret[h] = 0)
    <2>1. Return(h)
      <3>1. TitleASF(h) => i_ret[h] # -1 /\ "ReportASF" \notin Faults
        BY <1>7 DEF Crack, TitleASF, Uncontended
      <3> QED BY <1>7, <3>1, Zenon DEF Crack, TitleASF, ioctl_ReportASF
    <2>2. pc[h] \in {"Crack", "TitleASF"} /\ (pc[h] = "TitleASF" => i_ret[h] = 0)
      BY <1>7 DEF Crack, TitleASF
    <2>3. pc'[h] = "ready" /\ title'[h] = NoTitle
      BY <2>1 DEF Return
    <2> QED BY <1>1, <1>2, <2>2, <2>3, QuietStep DEF Holding, HostInv, Untroubled, Needs, Authenticating
  <1> QED BY <1>3, <1>4, <1>5, <1>6, <1>7

\* A step of the session that h holds: the session stays with it, or is over.
LEMMA SessionStays ==
    ASSUME TypeOK, UncontendedInv, NEW h \in Hosts, \A k \in Hosts \ {h} : Same(k),
           Holding(h), NEW s \in Stages \ {"free"}, NEW n,
           stage' = [stage EXCEPT ![i_agid[h]] = s],
           nonce' = [nonce EXCEPT ![i_agid[h]] = n],
           holder' = holder, i_agid' = i_agid, asf => asf', s = "auth" => asf',
           pc'[h] # pc[h], Holding(h)', HostInv(h)'
    PROVE  UncontendedInv' /\ EndsByHolder
  <1> USE DEF TypeOK, DriveTypeOK
  <1>1. i_agid[h] \in Agids /\ holder[i_agid[h]] = h
    BY DEF UncontendedInv, HostInv, Owns
  <1>2. Touches(h, i_agid[h])
    BY <1>1 DEF Touches, UncontendedInv, AgidInv
  <1>3. AgidInv(i_agid[h])'
    BY <1>1, NobodyAssumption DEF AgidInv
  <1> QED BY <1>1, <1>2, <1>3, TouchStep

LEMMA SessionEnds ==
    ASSUME TypeOK, UncontendedInv, NEW h \in Hosts, \A k \in Hosts \ {h} : Same(k),
           Holding(h), Release(i_agid[h]), asf' = asf, i_agid' = i_agid,
           pc'[h] # pc[h], HostInv(h)'
    PROVE  UncontendedInv' /\ EndsByHolder
  <1> USE DEF TypeOK, DriveTypeOK
  <1>1. i_agid[h] \in Agids /\ holder[i_agid[h]] = h
    BY DEF UncontendedInv, HostInv, Owns
  <1>2. Touches(h, i_agid[h])
    BY <1>1 DEF Touches, UncontendedInv, AgidInv, Release
  <1>3. stage'[i_agid[h]] = "free" /\ holder'[i_agid[h]] = Nobody
    BY <1>1 DEF Release
  <1>4. AgidInv(i_agid[h])'
    BY <1>1, <1>3, NobodyAssumption DEF AgidInv
  <1> QED BY <1>1, <1>2, <1>4, TouchStep

LEMMA SessionBegins ==
    ASSUME TypeOK, Uncontended, UncontendedInv, NEW h \in Hosts,
           \A k \in Hosts \ {h} : Same(k), ReportAgid(h)
    PROVE  UncontendedInv' /\ EndsByHolder
  <1> USE DEF TypeOK, DriveTypeOK
  <1>1. \E b \in Agids : stage[b] = "free"
    BY AgidLeft DEF ReportAgid
  <1>2. PICK a \in Agids :
           \/ /\ ioctl_ReportAgid(h, a, TRUE)
              /\ i_agid' = [i_agid EXCEPT ![h] = a]
              /\ Goto(h, "SendChallenge")
              /\ UNCHANGED i_ret
           \/ ioctl_ReportAgid(h, a, FALSE)
    BY Zenon DEF ReportAgid
  <1>3. "LostAgid" \notin Faults /\ "ReportAgid" \notin Faults
    BY DEF Uncontended
  <1>4. /\ stage[a] = "free" /\ Grant(h, a)
        /\ i_agid' = [i_agid EXCEPT ![h] = a] /\ Goto(h, "SendChallenge") /\ UNCHANGED i_ret
    BY <1>1, <1>2, <1>3, Zenon DEF ioctl_ReportAgid
  <1>5. /\ i_agid'[h] = a /\ pc'[h] = "SendChallenge" /\ i_ret' = i_ret
        /\ caller' = caller /\ title' = title /\ pc[h] = "ReportAgid"
    BY <1>4 DEF Goto, ReportAgid, At
  <1>6. stage'[a] = "granted" /\ holder'[a] = h /\ asf' = asf
    BY <1>4 DEF Grant
  <1>7. HostInv(h)'
    <2>1. HostInv(h)
      BY DEF UncontendedInv
    <2>2. Owns(h)'
      BY <1>5, <1>6 DEF Owns, Needs, At
    <2>3. Untroubled(h)'
      BY <1>5, <2>1 DEF HostInv, Untroubled, Authenticating
    <2>4. Keyless(h)' => Keyless(h)
      BY <1>5 DEF Keyless
    <2> QED BY <1>5, <2>1, <2>2, <2>3, <2>4 DEF HostInv
  <1>8. ~Holding(h) /\ Holding(h)'
    BY <1>5 DEF Holding, Needs, At
  <1>9. holder[a] = Nobody /\ (\A b \in Agids : holder[b] # h)
    BY <1>4, <1>8 DEF UncontendedInv, AgidInv
  <1>10. Touches(h, a)
    BY <1>4, <1>9 DEF Grant, Touches
  <1>11. AgidInv(a)'
    BY <1>5, <1>6, <1>8, NobodyAssumption DEF AgidInv
  <1> QED BY <1>5, <1>7, <1>10, <1>11, TouchStep

\* The commands of GetBusKey that authenticate.
LEMMA Authenticates ==
    ASSUME TypeOK, Uncontended, UncontendedInv, NEW h \in Hosts,
           \A k \in Hosts \ {h} : Same(k),
           SendChallenge(h) \/ ReportKey1(h) \/ ReportChallenge(h) \/ SendKey2(h)
    PROVE  UncontendedInv' /\ EndsByHolder
  <1> USE DEF TypeOK, DriveTypeOK
  <1>1. HostInv(h) /\ h \in Hosts
    BY DEF UncontendedInv
  <1>2. Holding(h)
    BY DEF SendChallenge, ReportKey1, ReportChallenge, SendKey2, Holding, Needs, At
  <1>3. /\ i_agid[h] \in Agids /\ holder[i_agid[h]] = h
        /\ stage[i_agid[h]] = Needs[pc[h]]
        /\ At(h, "SendKey2") => nonce[i_agid[h]] = p_challenge[h]
    BY <1>1, <1>2 DEF HostInv, Owns
  <1>4. /\ "SendChallenge" \notin Faults /\ "ReportKey1" \notin Faults /\ "Key1" \notin Faults
        /\ "ReportChallenge" \notin Faults /\ "SendKey2" \notin Faults
    BY DEF Uncontended
  <1>5. i_agid' = i_agid /\ caller' = caller /\ i_ret' = i_ret /\ title' = title
    BY DEF SendChallenge, ReportKey1, ReportChallenge, SendKey2, session, call
  <1>6. nonce = [nonce EXCEPT ![i_agid[h]] = nonce[i_agid[h]]]
    BY <1>3
  <1> DEFINE Leads(s, n, l) ==
               /\ stage' = [stage EXCEPT ![i_agid[h]] = s]
               /\ nonce' = [nonce EXCEPT ![i_agid[h]] = n]
               /\ holder' = holder
               /\ asf => asf'
               /\ s = "auth" => asf'
               /\ l = "ReadDiscKey" => caller[h] # "title"
               /\ l = "ReadTitleKey" => caller[h] = "title"
               /\ pc[h] \in Authenticating \ {l}
               /\ pc'[h] = l
               /\ s = Needs[l]
               /\ l = "SendKey2" => n = p_challenge'[h]
               /\ s = "auth" => n = p_bus_key'[h]
  <1>7. ASSUME NEW s \in Stages \ {"free"}, NEW n,
               NEW l \in {"ReportKey1", "ReportChallenge", "SendKey2", "ReadTitleKey",
                          "ReadDiscKey"},
               Leads(s, n, l)
        PROVE  UncontendedInv' /\ EndsByHolder
    <2>1. Owns(h)'
      BY <1>3, <1>5, <1>7 DEF Owns, At
    <2>2. Untroubled(h)'
      BY <1>1, <1>5, <1>7 DEF HostInv, Untroubled, Authenticating
    <2>3. Keyless(h)' => Keyless(h)
      BY <1>5, <1>7 DEF Keyless
    <2>4. Holding(h)'
      BY <1>7 DEF Holding, Needs, At
    <2>5. HostInv(h)'
      BY <1>1, <1>5, <2>1, <2>2, <2>3 DEF HostInv
    <2> QED BY <1>2, <1>5, <1>7, <2>4, <2>5, SessionStays
  <1> HIDE DEF Leads
  <1>8. CASE SendChallenge(h)
    <2>1. stage[i_agid[h]] = "granted" /\ pc[h] = "SendChallenge"
      BY <1>3, <1>8 DEF SendChallenge, At, Needs
    <2>2. Advance(i_agid[h], "challenged") /\ Goto(h, "ReportKey1")
      BY <1>4, <1>8, <2>1, Zenon DEF SendChallenge, ioctl_SendChallenge, Answer, Proceed
    <2>3. Leads("challenged", nonce[i_agid[h]], "ReportKey1")
      BY <1>6, <2>1, <2>2 DEF Leads, Advance, Goto, Needs, Authenticating
    <2> QED BY <1>7, <2>3 DEF Stages
  <1>9. CASE ReportKey1(h)
    <2>1. stage[i_agid[h]] = "challenged" /\ pc[h] = "ReportKey1"
      BY <1>3, <1>9 DEF ReportKey1, At, Needs
    <2>2. Advance(i_agid[h], "key1") /\ Goto(h, "ReportChallenge")
      BY <1>4, <1>9, <2>1, Zenon DEF ReportKey1, ioctl_ReportKey1, Answer, Proceed
    <2>3. Leads("key1", nonce[i_agid[h]], "ReportChallenge")
      BY <1>6, <2>1, <2>2 DEF Leads, Advance, Goto, Needs, Authenticating
    <2> QED BY <1>7, <2>3 DEF Stages
  <1>10. CASE ReportChallenge(h)
    <2>1. stage[i_agid[h]] = "key1" /\ pc[h] = "ReportChallenge"
      BY <1>3, <1>10 DEF ReportChallenge, At, Needs
    <2>2. PICK ok \in BOOLEAN, n \in FreshNonces :
             /\ ioctl_ReportChallenge(i_agid[h], n, ok)
             /\ p_challenge' = [p_challenge EXCEPT ![h] = IF ok THEN n ELSE NoNonce]
             /\ Proceed(h, ok, "SendKey2")
      BY <1>10 DEF ReportChallenge
    <2>3. /\ ok
          /\ stage' = [stage EXCEPT ![i_agid[h]] = "challenge"]
          /\ nonce' = [nonce EXCEPT ![i_agid[h]] = n]
          /\ UNCHANGED <<holder, asf>>
      BY <1>4, <2>1, <2>2, Zenon DEF ioctl_ReportChallenge, Answer
    <2>4. p_challenge'[h] = n /\ pc'[h] = "SendKey2"
      BY <2>2, <2>3 DEF Proceed, Goto
    <2>5. Leads("challenge", n, "SendKey2")
      BY <2>1, <2>3, <2>4 DEF Leads, Needs, Authenticating
    <2> QED BY <1>7, <2>5 DEF Stages
  <1>11. CASE SendKey2(h)
    <2>1. /\ stage[i_agid[h]] = "challenge" /\ nonce[i_agid[h]] = p_challenge[h]
          /\ pc[h] = "SendKey2"
      BY <1>3, <1>11 DEF SendKey2, At, Needs
    <2>2. PICK ok \in BOOLEAN :
             /\ ioctl_SendKey2(i_agid[h], p_challenge[h], ok)
             /\ p_bus_key' = [p_bus_key EXCEPT ![h] = IF ok THEN p_challenge[h] ELSE @]
             /\ Proceed(h, ok, IF caller[h] = "title" THEN "ReadTitleKey" ELSE "ReadDiscKey")
      BY <1>11 DEF SendKey2
    <2>3. /\ ok
          /\ stage' = [stage EXCEPT ![i_agid[h]] = "auth"] /\ asf' = TRUE
          /\ UNCHANGED <<nonce, holder>>
      BY <1>4, <2>1, <2>2, Zenon DEF ioctl_SendKey2, Answer
    <2>4. /\ pc'[h] = IF caller[h] = "title" THEN "ReadTitleKey" ELSE "ReadDiscKey"
          /\ p_bus_key'[h] = nonce[i_agid[h]]
      BY <2>1, <2>2, <2>3 DEF Proceed, Goto
    <2>5. Leads("auth", nonce[i_agid[h]], IF caller[h] = "title" THEN "ReadTitleKey"
                                                                 ELSE "ReadDiscKey")
      BY <1>6, <2>1, <2>3, <2>4 DEF Leads, Needs, Authenticating
    <2> QED BY <1>7, <2>5 DEF Stages
  <1> QED BY <1>8, <1>9, <1>10, <1>11

\* Reading a key ends the session, unless the title has none.
LEMMA ReadsKeys ==
    ASSUME TypeOK, Uncontended, UncontendedInv, NEW h \in Hosts,
           \A k \in Hosts \ {h} : Same(k), ReadDiscKey(h) \/ ReadTitleKey(h)
    PROVE  UncontendedInv' /\ EndsByHolder
  <1> USE DEF TypeOK, DriveTypeOK
  <1>1. HostInv(h) /\ h \in Hosts
    BY DEF UncontendedInv
  <1>2. Holding(h)
    BY DEF ReadDiscKey, ReadTitleKey, Holding, Needs, At
  <1>3. /\ i_agid[h] \in Agids /\ holder[i_agid[h]] = h
        /\ stage[i_agid[h]] = "auth" /\ asf
    <2>1. Owns(h) /\ pc[h] \in {"ReadDiscKey", "ReadTitleKey"}
      BY <1>1, <1>2 DEF HostInv, ReadDiscKey, ReadTitleKey, At
    <2> QED BY <2>1 DEF Owns, Needs, UncontendedInv, AgidInv
  <1>4. "ReadDiscKey" \notin Faults /\ "ReadTitleKey" \notin Faults /\ "Region" \notin Faults
    BY DEF Uncontended
  <1>5. i_agid' = i_agid /\ caller' = caller /\ title' = title
    BY DEF ReadDiscKey, ReadTitleKey
  <1>6. CASE ReadDiscKey(h)
    <2>1. Release(i_agid[h]) /\ UNCHANGED asf /\ Goto(h, "DiscASF") /\ UNCHANGED i_ret
      BY <1>3, <1>4, <1>6, Zenon DEF ReadDiscKey, ioctl_ReadDiscKey, Answer
    <2>2. pc'[h] = "DiscASF" /\ pc[h] = "ReadDiscKey" /\ asf' = asf
      BY <1>6, <2>1 DEF Goto, ReadDiscKey, At
    <2>3. HostInv(h)'
      BY <1>1, <1>3, <1>5, <2>2
         DEF HostInv, Holding, Needs, Untroubled, Keyless, Authenticating
    <2> QED BY <1>2, <1>5, <2>1, <2>2, <2>3, SessionEnds
  <1>7. CASE ReadTitleKey(h)
    <2>1. Goto(h, "TitleASF") /\ At(h, "ReadTitleKey")
      BY <1>7 DEF ReadTitleKey
    <2>2. pc'[h] = "TitleASF" /\ pc[h] = "ReadTitleKey" /\ i_ret[h] = 0
      BY <1>1, <2>1 DEF Goto, At, HostInv, Untroubled
    <2>3. CASE Release(i_agid[h]) /\ UNCHANGED asf /\ UNCHANGED i_ret
      <3>1. HostInv(h)'
        BY <1>1, <1>5, <2>2, <2>3
           DEF HostInv, Holding, Needs, Untroubled, Keyless, Authenticating, At
      <3> QED BY <1>2, <1>5, <2>2, <2>3, <3>1, SessionEnds
    <2>4. CASE /\ title[h] \notin Encrypted
               /\ asf' = asf /\ UNCHANGED <<stage, nonce, holder>>
               /\ i_ret' = [i_ret EXCEPT ![h] = -1]
      <3>1. /\ stage' = [stage EXCEPT ![i_agid[h]] = "auth"]
            /\ nonce' = [nonce EXCEPT ![i_agid[h]] = nonce[i_agid[h]]]
            /\ i_ret'[h] = -1
        BY <1>3, <2>4
      <3>2. nonce[i_agid[h]] = p_bus_key[h] /\ p_bus_key' = p_bus_key
        BY <1>1, <1>2, <1>3, <1>7 DEF HostInv, Owns, ReadTitleKey
      <3>3. Owns(h)' /\ Holding(h)'
        BY <1>3, <1>5, <2>2, <2>4, <3>1, <3>2 DEF Owns, Holding, Needs, At
      <3>4. Untroubled(h)'
        BY <2>2, <3>1 DEF Untroubled, Authenticating
      <3>5. HostInv(h)'
        BY <1>5, <2>4, <3>3, <3>4 DEF HostInv
      <3>6. holder' = holder /\ asf' /\ "auth" \in Stages \ {"free"} /\ pc'[h] # pc[h]
        BY <1>3, <2>2, <2>4 DEF Stages
      <3> QED BY <1>2, <1>5, <3>1, <3>3, <3>5, <3>6, SessionStays
    <2> QED BY <1>3, <1>4, <1>7, <2>3, <2>4, Zenon
               DEF ReadTitleKey, ioctl_ReadTitleKey, Answer
  <1> QED BY <1>6, <1>7

\* A title without a key: the AGID is invalidated and the disc key is asked for again.
LEMMA GivesUp ==
    ASSUME TypeOK, Uncontended, UncontendedInv, NEW h \in Hosts,
           \A k \in Hosts \ {h} : Same(k),
           (TitleASF(h) /\ i_ret[h] = -1) \/ TitleAbort(h)
    PROVE  UncontendedInv' /\ EndsByHolder
  <1> USE DEF TypeOK, DriveTypeOK
  <1>1. HostInv(h) /\ h \in Hosts
    BY DEF UncontendedInv
  <1>2. Holding(h) /\ pc[h] \in {"TitleASF", "TitleAbort"}
    BY DEF TitleASF, TitleAbort, Holding, Needs, At
  <1>3. /\ i_agid[h] \in Agids /\ holder[i_agid[h]] = h
        /\ stage[i_agid[h]] = "auth" /\ asf
        /\ nonce[i_agid[h]] = p_bus_key[h]
        /\ title[h] \notin Encrypted
    <2>1. Owns(h) /\ title[h] \notin Encrypted
      BY <1>1, <1>2 DEF HostInv, Keyless, Holding, At
    <2> QED BY <1>2, <2>1 DEF Owns, Needs, UncontendedInv, AgidInv
  <1>4. CASE TitleASF(h) /\ i_ret[h] = -1
    <2>1. "ReportASF" \notin Faults /\ i_ret[h] # 0
      BY <1>4 DEF Uncontended
    <2>2. /\ Goto(h, "TitleAbort") /\ UNCHANGED <<title, caller>> /\ UNCHANGED drive
          /\ UNCHANGED <<i_agid, p_bus_key>>
      BY <1>3, <1>4, <2>1, Zenon DEF TitleASF, ioctl_ReportASF
    <2>3. /\ pc'[h] = "TitleAbort" /\ pc[h] = "TitleASF" /\ title' = title
          /\ i_agid' = i_agid /\ p_bus_key' = p_bus_key
          /\ stage' = stage /\ nonce' = nonce /\ holder' = holder /\ asf' = asf
      BY <1>4, <2>2 DEF TitleASF, Goto, At, drive
    <2>4. Owns(h)' /\ Holding(h)'
      BY <1>3, <2>3 DEF Owns, Holding, Needs, At
    <2>5. HostInv(h)'
      BY <1>3, <2>3, <2>4 DEF HostInv, Untroubled, Authenticating
    <2>6. /\ stage' = [stage EXCEPT ![i_agid[h]] = "auth"]
          /\ nonce' = [nonce EXCEPT ![i_agid[h]] = nonce[i_agid[h]]]
          /\ "auth" \in Stages \ {"free"}
      BY <1>3, <2>3 DEF Stages
    <2>7. pc'[h] # pc[h] /\ holder' = holder /\ i_agid' = i_agid /\ asf'
      BY <1>3, <2>3
    <2> QED BY <1>2, <2>4, <2>5, <2>6, <2>7, SessionStays, Zenon
  <1>5. CASE TitleAbort(h)
    <2>1. "InvalidateAgid" \notin Faults
      BY DEF Uncontended
    <2>2. /\ Release(i_agid[h]) /\ UNCHANGED asf
          /\ Goto(h, "ReportAgid") /\ caller' = [caller EXCEPT ![h] = "fallback"]
          /\ UNCHANGED <<i_agid, title>>
      BY <1>5, <2>1, Zenon
         DEF TitleAbort, Invalidate, ioctl_InvalidateAgid, Answer, Fallback, StartGetBusKey
    <2>3. /\ pc'[h] = "ReportAgid" /\ pc[h] = "TitleAbort" /\ caller'[h] = "fallback"
          /\ title' = title /\ i_agid' = i_agid /\ asf' = asf
      BY <1>5, <2>2 DEF TitleAbort, Goto, At
    <2>4. HostInv(h)'
      BY <1>3, <2>3 DEF HostInv, Holding, Needs, Untroubled, Authenticating
    <2> QED BY <1>2, <2>2, <2>3, <2>4, SessionEnds
  <1> QED BY <1>4, <1>5

LEMMA UncontendedNext ==
    ASSUME TypeOK, Uncontended, UncontendedInv, NEW h \in Hosts, StepOf(h)
    PROVE  UncontendedInv' /\ EndsByHolder
  <1>1. \A k \in Hosts \ {h} : Same(k)
    BY OthersSame
  <1>2. HostInv(h)
    BY DEF UncontendedInv
  <1>3. ~InvalidateHung(h) /\ ~Abort(h) /\ ~DiscAbort(h) /\ ~Kill(h)
    BY <1>2 DEF HostInv, Untroubled, InvalidateHung, Abort, DiscAbort, Kill, At, Uncontended
  <1>4. TitleASF(h) => i_ret[h] = 0 \/ i_ret[h] = -1
    BY <1>2 DEF HostInv, Untroubled, TitleASF, At
  <1>5. \/ Open(h) \/ Test(h) \/ Title(h) \/ DiscASF(h) \/ Crack(h) \/ Close(h)
        \/ ReportAgid(h)
        \/ SendChallenge(h) \/ ReportKey1(h) \/ ReportChallenge(h) \/ SendKey2(h)
        \/ ReadDiscKey(h) \/ ReadTitleKey(h) \/ TitleASF(h) \/ TitleAbort(h)
    BY <1>3, Zenon DEF StepOf, Step
  <1>6. CASE \/ Open(h) \/ Test(h) \/ Title(h) \/ DiscASF(h) \/ Crack(h) \/ Close(h)
             \/ TitleASF(h) /\ i_ret[h] = 0
    BY <1>1, <1>6, QuietActions
  <1>7. CASE ReportAgid(h)
    BY <1>1, <1>7, SessionBegins
  <1>8. CASE SendChallenge(h) \/ ReportKey1(h) \/ ReportChallenge(h) \/ SendKey2(h)
    BY <1>1, <1>8, Authenticates
  <1>9. CASE ReadDiscKey(h) \/ ReadTitleKey(h)
    BY <1>1, <1>9, ReadsKeys
  <1>10. CASE (TitleASF(h) /\ i_ret[h] = -1) \/ TitleAbort(h)
    BY <1>1, <1>10, GivesUp
  <1> QED BY <1>4, <1>5, <1>6, <1>7, <1>8, <1>9, <1>10, Zenon

LEMMA UncontendedAlways ==
    ASSUME Uncontended
    PROVE  /\ Init => UncontendedInv
           /\ TypeOK /\ UncontendedInv /\ [Next]_vars => UncontendedInv' /\ [EndsByHolder]_vars
  <1>1. ASSUME Init PROVE UncontendedInv
    <2> USE <1>1 DEF Init
    <2>1. DriveInit({})
      BY DEF Uncontended
    <2>2. \A h \in Hosts : HostInv(h)
      BY NoTitleAssumption, EncryptedAssumption
         DEF HostInv, Holding, Needs, Untroubled, Keyless, Authenticating
    <2>3. \A a \in Agids : AgidInv(a)
      BY <2>1, NobodyAssumption DEF AgidInv, DriveInit
    <2> QED BY <2>2, <2>3 DEF UncontendedInv
  <1>2. ASSUME TypeOK, UncontendedInv, [Next]_vars
        PROVE  UncontendedInv' /\ [EndsByHolder]_vars
    <2>1. CASE UNCHANGED vars
      <3>1. \A h \in Hosts : HostInv(h)'
        BY <1>2, <2>1
           DEF vars, drive, session, keys, setup, call, UncontendedInv, HostInv, Owns,
               Holding, Untroubled, Keyless, At
      <3>2. \A a \in Agids : AgidInv(a)'
        BY <1>2, <2>1 DEF vars, drive, session, call, UncontendedInv, AgidInv, Holding, At
      <3> QED BY <2>1, <3>1, <3>2 DEF UncontendedInv
    <2>2. CASE Next
      BY <1>2, <2>2, UncontendedNext DEF Next, StepOf
    <2> QED BY <1>2, <2>1, <2>2
  <1> QED BY <1>1, <1>2

\* With an AGID for each of them and a drive that does what it is told, the hosts do
\* not get into each other's way: every session is the one its host believes it is.
THEOREM UncontendedOwnSession ==
    ASSUME Uncontended
    PROVE  Spec => []OwnSession
  <1>1. /\ Init => UncontendedInv
        /\ TypeOK /\ UncontendedInv /\ [Next]_vars => UncontendedInv'
    BY UncontendedAlways
  <1>2. UncontendedInv => OwnSession
    <2> SUFFICES ASSUME UncontendedInv, NEW h \in Hosts, InSession(h)
                 PROVE  /\ holder[i_agid[h]] = h
                        /\ stage[i_agid[h]] = Expected[pc[h]]
                        /\ At(h, "SendKey2") => nonce[i_agid[h]] = p_challenge[h]
                        /\ stage[i_agid[h]] = "auth" => nonce[i_agid[h]] = p_bus_key[h]
      BY DEF OwnSession
    <2>1. Holding(h) /\ Needs[pc[h]] = Expected[pc[h]]
      BY DEF InSession, Expected, Holding, Needs, At
    <2> QED BY <2>1 DEF UncontendedInv, HostInv, Owns
  <1> QED BY <1>1, <1>2, TypeCorrect, PTL DEF Spec

\* No session is ended by another host than the one it was granted to.
THEOREM UncontendedSessionsEndByHolder ==
    ASSUME Uncontended
    PROVE  Spec => OnlyHolderEndsSession
  <1>1. /\ Init => UncontendedInv
        /\ TypeOK /\ UncontendedInv /\ [Next]_vars => UncontendedInv' /\ [EndsByHolder]_vars
    BY UncontendedAlways
  <1> QED BY <1>1, TypeCorrect, PTL DEF Spec, OnlyHolderEndsSession

\* A title that has a key gets it from the drive: the key is never cracked.
THEOREM UncontendedClassicWay ==
    ASSUME Uncontended
    PROVE  Spec => []ClassicWaySuffices
  <1>1. /\ Init => UncontendedInv
        /\ TypeOK /\ UncontendedInv /\ [Next]_vars => UncontendedInv'
    BY UncontendedAlways
  <1>2. UncontendedInv => ClassicWaySuffices
    BY DEF UncontendedInv, HostInv, Keyless, ClassicWaySuffices, At
  <1> QED BY <1>1, <1>2, TypeCorrect, PTL DEF Spec

(***************************************************************************)
(* Every call comes to its end.                                            *)
(***************************************************************************)
\* Who has called GetBusKey: title keys are read for dvdcss_titlekey only.
TitleLabels == {"ReadTitleKey", "TitleASF", "TitleAbort"}

CallerInv ==
    \A h \in Hosts :
        /\ pc[h] \in TitleLabels => caller[h] = "title"
        /\ pc[h] = "Test" => caller[h] # "title"

\* Where the code goes on, but for the retry loop and the fallback.
Below ==
    [Test |-> {"ready"},
     ReportAgid |-> {"SendChallenge", "ReadTitleKey", "Crack", "ready"},
     SendChallenge |-> {"ReportKey1", "Abort"},
     ReportKey1 |-> {"ReportChallenge", "Abort"},
     ReportChallenge |-> {"SendKey2", "Abort"},
     SendKey2 |-> {"ReadTitleKey", "ReadDiscKey", "Abort"},
     Abort |-> {"ReadTitleKey", "Crack", "ready"},
     ReadDiscKey |-> {"DiscASF", "Crack", "ready"},
     DiscASF |-> {"DiscAbort", "Crack", "ready"},
     DiscAbort |-> {"Crack", "ready"},
     ReadTitleKey |-> {"TitleASF"},
     TitleASF |-> {"TitleAbort", "ready"},
     Crack |-> {"ready"}]

Starts(h) == pc'[h] = "ReportAgid" /\ i_try'[h] = 0

GoesOn(h) ==
    /\ pc[h] \in DOMAIN Below
    /\ pc'[h] \in Below[pc[h]]
    /\ pc'[h] = "ReadTitleKey" => caller[h] = "title"
    /\ caller' = caller

Retries(h) ==
    /\ caller' = caller
    /\ \/ /\ pc[h] = "ReportAgid" /\ pc'[h] = "InvalidateHung"
          /\ i_try[h] < NAgids /\ i_try' = i_try
       \/ /\ pc[h] = "InvalidateHung" /\ pc'[h] = "ReportAgid"
          /\ i_try'[h] = i_try[h] + 1

FallsBack(h) ==
    /\ pc[h] \in {"TitleASF", "TitleAbort"}
    /\ Starts(h)
    /\ caller' = [caller EXCEPT ![h] = "fallback"]

Moves(h) ==
    \/ GoesOn(h) \/ Retries(h) \/ FallsBack(h)
    \/ pc[h] = "Test" /\ Starts(h) /\ caller' = caller

LEMMA StepMoves ==
    ASSUME TypeOK, NEW h \in Hosts, Step(h)
    PROVE  Moves(h)
  <1> USE DEF TypeOK, session, keys, setup, call
  <1>1. ASSUME NEW l, Goto(h, l) PROVE pc'[h] = l
    BY <1>1 DEF Goto
  <1>2. StartGetBusKey(h) => Starts(h)
    BY DEF StartGetBusKey, Starts, Goto
  <1>3. Fallback(h) => Starts(h) /\ caller' = [caller EXCEPT ![h] = "fallback"]
    BY <1>2 DEF Fallback
  <1>4. GetBusKeyFails(h)
        => \/ pc'[h] = "ReadTitleKey" /\ caller[h] = "title"
           \/ pc'[h] \in {"Crack", "ready"}
    BY DEF GetBusKeyFails, DisckeyReturns, Goto
  <1>5. \A ret : DisckeyReturns(h, ret) => pc'[h] \in {"Crack", "ready"}
    BY DEF DisckeyReturns, Goto
  <1>6. \A ok, l : Proceed(h, ok, l) => pc'[h] \in {l, "Abort"}
    BY DEF Proceed, Goto
  <1>7. CASE Test(h)
    <2>1. pc[h] = "Test" /\ caller' = caller /\ (pc'[h] = "ready" \/ Starts(h))
      BY <1>1, <1>2, <1>7, Zenon DEF Test, At
    <2> QED BY <2>1 DEF Moves, GoesOn, Below
  <1>8. CASE ReportAgid(h)
    <2>1. /\ pc[h] = "ReportAgid" /\ caller' = caller /\ i_try' = i_try
          /\ \/ pc'[h] = "SendChallenge"
             \/ pc'[h] = "InvalidateHung" /\ MayRetry(h)
             \/ GetBusKeyFails(h)
      BY <1>1, <1>8, Zenon DEF ReportAgid, At
    <2> QED BY <1>4, <2>1 DEF Moves, GoesOn, Below, Retries, MayRetry
  <1>9. CASE InvalidateHung(h)
    BY <1>1, <1>9 DEF InvalidateHung, NextTry, At, Moves, Retries
  <1>10. CASE SendChallenge(h) \/ ReportKey1(h) \/ ReportChallenge(h)
    <2>1. /\ caller' = caller
          /\ \/ pc[h] = "SendChallenge" /\ pc'[h] \in {"ReportKey1", "Abort"}
             \/ pc[h] = "ReportKey1" /\ pc'[h] \in {"ReportChallenge", "Abort"}
             \/ pc[h] = "ReportChallenge" /\ pc'[h] \in {"SendKey2", "Abort"}
      BY <1>6, <1>10, Zenon DEF SendChallenge, ReportKey1, ReportChallenge, At
    <2> QED BY <2>1 DEF Moves, GoesOn, Below
  <1>11. CASE SendKey2(h)
    <2>1. /\ caller' = caller /\ pc[h] = "SendKey2"
          /\ pc'[h] \in {IF caller[h] = "title" THEN "ReadTitleKey" ELSE "ReadDiscKey", "Abort"}
      BY <1>6, <1>11, Zenon DEF SendKey2, At
    <2> QED BY <2>1 DEF Moves, GoesOn, Below
  <1>12. CASE Abort(h)
    <2>1. caller' = caller /\ pc[h] = "Abort" /\ GetBusKeyFails(h)
      BY <1>12 DEF Abort, At
    <2> QED BY <1>4, <2>1 DEF Moves, GoesOn, Below
  <1>13. CASE ReadDiscKey(h)
    <2>1. caller' = caller /\ pc[h] = "ReadDiscKey" /\ pc'[h] \in {"DiscASF", "Crack", "ready"}
      BY <1>1, <1>5, <1>13, Zenon DEF ReadDiscKey, At
    <2> QED BY <2>1 DEF Moves, GoesOn, Below
  <1>14. CASE DiscASF(h) \/ DiscAbort(h)
    <2>1. /\ caller' = caller
          /\ \/ pc[h] = "DiscASF" /\ pc'[h] \in {"DiscAbort", "Crack", "ready"}
             \/ pc[h] = "DiscAbort" /\ pc'[h] \in {"Crack", "ready"}
      BY <1>1, <1>5, <1>14, Zenon DEF DiscASF, DiscAbort, At
    <2> QED BY <2>1 DEF Moves, GoesOn, Below
  <1>15. CASE ReadTitleKey(h) \/ Crack(h)
    <2>1. /\ caller' = caller
          /\ \/ pc[h] = "ReadTitleKey" /\ pc'[h] = "TitleASF"
             \/ pc[h] = "Crack" /\ pc'[h] = "ready"
      BY <1>1, <1>15, Zenon DEF ReadTitleKey, Crack, Return, At
    <2> QED BY <2>1 DEF Moves, GoesOn, Below
  <1>16. CASE TitleASF(h) \/ TitleAbort(h)
    <2>1. \/ /\ pc[h] = "TitleASF" /\ pc'[h] \in {"TitleAbort", "ready"}
             /\ caller' = caller
          \/ pc[h] \in {"TitleASF", "TitleAbort"} /\ Fallback(h)
      BY <1>1, <1>16, Zenon DEF TitleASF, TitleAbort, Return, At
    <2> QED BY <1>3, <2>1 DEF Moves, GoesOn, Below, FallsBack
  <1> QED
    BY <1>7, <1>8, <1>9, <1>10, <1>11, <1>12, <1>13, <1>14, <1>15, <1>16 DEF Step

LEMMA CallerStep ==
    ASSUME TypeOK, CallerInv, [Next]_vars
    PROVE  CallerInv'
  <1> USE DEF TypeOK
  <1>1. CASE UNCHANGED vars
    BY <1>1 DEF vars, session, call, CallerInv
  <1>2. ASSUME NEW h \in Hosts, StepOf(h) PROVE CallerInv'
    <2>1. ASSUME NEW k \in Hosts, k # h PROVE pc'[k] = pc[k] /\ caller'[k] = caller[k]
      BY <1>2, <2>1, OthersSame DEF Same
    <2>2. CASE Step(h)
      <3>1. Moves(h)
        BY <2>2, StepMoves
      <3>2. /\ pc'[h] \in TitleLabels => caller'[h] = "title"
            /\ pc'[h] # "Test"
        BY <3>1 DEF Moves, GoesOn, Below, Retries, FallsBack, Starts, CallerInv, TitleLabels
      <3> QED BY <2>1, <3>2 DEF CallerInv, TitleLabels
    <2>3. CASE Open(h)
      <3>1. pc'[h] \in {"Test", "ready"} /\ caller'[h] = "open"
        BY <2>3 DEF Open, Goto
      <3> QED BY <2>1, <3>1 DEF CallerInv, TitleLabels
    <2>4. CASE Title(h)
      <3>1. pc'[h] \in {"ReportAgid", "Crack"}
        BY <2>4 DEF Title, StartGetBusKey, Goto
      <3> QED BY <2>1, <3>1 DEF CallerInv, TitleLabels
    <2>5. CASE Forget(h)
      <3>1. pc'[h] = "closed"
        BY <2>5 DEF Forget, Goto
      <3> QED BY <2>1, <3>1 DEF CallerInv, TitleLabels
    <2> QED BY <1>2, <2>2, <2>3, <2>4, <2>5 DEF StepOf, Close, Kill
  <1> QED BY <1>1, <1>2 DEF Next, StepOf

LEMMA CallersInv == Spec => []CallerInv
  <1>1. Init => CallerInv
    <2>1. Init => \A h \in Hosts : pc[h] = "closed"
      BY DEF Init
    <2> QED BY <2>1 DEF CallerInv, TitleLabels
  <1>2. TypeOK /\ CallerInv /\ [Next]_vars => CallerInv'
    BY CallerStep
  <1> QED BY <1>1, <1>2, TypeCorrect, PTL DEF Spec

LEMMA StepDescends ==
    ASSUME TypeOK, CallerInv, NEW h \in Hosts, Step(h)
    PROVE  StepsLeft(h)' < StepsLeft(h)
  <1> DEFINE c == caller[h]
             n == i_try[h]
  <1>1. /\ NAgids \in Nat /\ n \in 0 .. NAgids
        /\ i_try'[h] \in Nat \/ ~Retries(h)
        /\ DisckeySteps = 10 + 2 * NAgids
    BY NAgidsAssumption DEF TypeOK, Retries, DisckeySteps
  <1>2. /\ pc[h] \in {"ReadTitleKey", "TitleASF", "TitleAbort"} => c = "title"
        /\ pc[h] = "Test" => c # "title"
    BY DEF CallerInv, TitleLabels
  <1>3. Moves(h)
    BY StepMoves
  <1>4. caller' = caller => caller'[h] = c
    OBVIOUS
  <1>5. FallsBack(h) => caller'[h] = "fallback"
    BY DEF FallsBack, TypeOK
  <1> HIDE DEF c, n
  <1>6. CASE GoesOn(h)
    <2> DEFINE l == pc[h]
               m == pc'[h]
               Rest(k) == IF k = "title" THEN DisckeySteps ELSE 0
    <2>1. l \in DOMAIN Below /\ m \in Below[l] /\ (m = "ReadTitleKey" => c = "title")
      BY <1>6 DEF GoesOn, c
    <2>2. /\ m = "ready" => StepsLeft(h)' = 0
          /\ m = "Crack" => StepsLeft(h)' = 1
          /\ m \notin {"ready", "Crack"} => StepsLeft(h)' = Remaining[m] + Rest(c)
      <3>1. caller'[h] = c /\ m \notin {"closed", "Test", "ReportAgid", "InvalidateHung"}
        BY <1>4, <1>6, <2>1 DEF GoesOn, Below
      <3>2. m \in DOMAIN Remaining \cup {"ready", "Crack"}
        BY <2>1 DEF Below, Remaining
      <3> QED BY <1>1, <3>1, <3>2 DEF StepsLeft, Remaining, Idle, At
    <2>3. /\ l = "Crack" => StepsLeft(h) = 1
          /\ l = "Test" => StepsLeft(h) = DisckeySteps + 1
          /\ l = "ReportAgid" => StepsLeft(h) = 10 + 2 * (NAgids - n) + Rest(c)
          /\ l \notin {"Crack", "Test", "ReportAgid"}
                => StepsLeft(h) = Remaining[l] + Rest(c)
      BY <2>1 DEF Below, StepsLeft, Remaining, Idle, At, c, n
    <2> HIDE DEF l, m
    <2> QED BY <1>1, <2>1, <2>2, <2>3 DEF Below, Remaining
  <1>7. CASE Retries(h)
    BY <1>1, <1>4, <1>7 DEF Retries, StepsLeft, Remaining, Idle, At, c, n
  <1>8. CASE FallsBack(h)
    <2>1. /\ pc[h] \in {"TitleASF", "TitleAbort"} /\ c = "title"
          /\ pc'[h] = "ReportAgid" /\ i_try'[h] = 0 /\ caller'[h] = "fallback"
      BY <1>2, <1>5, <1>8 DEF FallsBack, Starts
    <2>2. StepsLeft(h)' = 10 + 2 * NAgids
      BY <1>1, <2>1 DEF StepsLeft, Remaining, Idle, At
    <2>3. StepsLeft(h) > DisckeySteps
      BY <1>1, <2>1 DEF StepsLeft, Remaining, Idle, At, c
    <2> QED BY <1>1, <2>2, <2>3
  <1>9. CASE pc[h] = "Test" /\ Starts(h) /\ caller' = caller
    <2>1. /\ pc[h] = "Test" /\ pc'[h] = "ReportAgid"
          /\ i_try'[h] = 0 /\ caller'[h] # "title"
      BY <1>2, <1>4, <1>9 DEF Starts, c
    <2>2. StepsLeft(h)' = 10 + 2 * NAgids
      BY <1>1, <2>1 DEF StepsLeft, Remaining, Idle, At
    <2>3. StepsLeft(h) = DisckeySteps + 1
      BY <2>1 DEF StepsLeft, Idle, At
    <2> QED BY <1>1, <2>2, <2>3
  <1> QED BY <1>3, <1>6, <1>7, <1>8, <1>9 DEF Moves

\* No call has more than 20 + 4 * NAgids steps: that of a title without a key that
\* loses every AGID twice.
StepsBounded == \A h \in Hosts : StepsLeft(h) \in 0 .. 20 + 4 * NAgids

LEMMA BoundOfSteps == TypeOK => StepsBounded
  <1> SUFFICES ASSUME TypeOK, NEW h \in Hosts
               PROVE  StepsLeft(h) \in 0 .. 20 + 4 * NAgids
    BY DEF StepsBounded
  <1> DEFINE l == pc[h]
             tries == IF l \in {"ReportAgid", "InvalidateHung"}
                      THEN 2 * (NAgids - i_try[h]) ELSE 0
             again == IF caller[h] = "title" THEN DisckeySteps ELSE 0
             rest == Remaining[l]
  <1>1. NAgids \in Nat /\ i_try[h] \in 0 .. NAgids /\ l \in Labels
    BY NAgidsAssumption DEF TypeOK
  <1>2. tries \in 0 .. 2 * NAgids /\ again \in 0 .. 10 + 2 * NAgids
    BY <1>1 DEF DisckeySteps
  <1>3. CASE l \in Idle \cup {"Crack", "Test"}
    <2>1. StepsLeft(h) \in {0, 1, DisckeySteps + 1}
      BY <1>3 DEF StepsLeft, Idle, At
    <2> QED BY <1>1, <2>1 DEF DisckeySteps
  <1>4. CASE l \in DOMAIN Remaining
    <2>1. rest \in 0 .. 10
      BY <1>4 DEF Remaining
    <2>2. StepsLeft(h) = rest + tries + again
      BY <1>4 DEF StepsLeft, Idle, At, Remaining
    <2> HIDE DEF rest, tries, again
    <2> QED BY <1>1, <1>2, <2>1, <2>2
  <1>5. l \in Idle \cup {"Crack", "Test"} \cup DOMAIN Remaining
    BY <1>1 DEF Labels, Idle, Remaining
  <1> QED BY <1>3, <1>4, <1>5

\* However many hosts contend for the drive, whatever it refuses and fails to do: no
\* call of any host can go on for ever, as each step of it leaves fewer before it.
THEOREM CallsDescend == Spec => CallDescends
  <1>1. /\ TypeOK /\ StepsBounded /\ StepsBounded' /\ CallerInv /\ [Next]_vars
        => [Descends]_vars
    <2> SUFFICES ASSUME TypeOK, StepsBounded, StepsBounded', CallerInv, NEW h \in Hosts, Step(h)
                 PROVE  StepsLeft(h)' \in 0 .. StepsLeft(h) - 1
      BY DEF Descends
    <2>1. StepsLeft(h)' < StepsLeft(h)
      BY StepDescends
    <2>2. StepsLeft(h) \in Nat /\ StepsLeft(h)' \in Nat
      BY NAgidsAssumption DEF StepsBounded
    <2> QED BY <2>1, <2>2
  <1> QED BY <1>1, TypeCorrect, CallersInv, BoundOfSteps, PTL DEF Spec, CallDescends

(***************************************************************************)
(* The keys those hosts get are right.                                     *)
(***************************************************************************)
\* The handle reads title keys from the drive and decrypts them with a disc key.
UsesDiscKey(h) == b_ioctls[h] /\ b_scrambled[h] /\ i_method[h] # "TITLE"

\* A block is unhidden with the bus key it was hidden with; and dvdcss_titlekey is not
\* called in the classic way before dvdcss_disckey has stored the right disc key, which
\* it stores again after the fallback.
KeyInv(h) ==
    /\ At(h, "DiscASF") => payload[h] = "good"
    /\ At(h, "TitleASF") /\ i_ret[h] = 0 => payload[h] \in {"good", "zero"}
    /\ caller[h] = "title" /\ pc[h] \notin {"ready", "Crack"} => UsesDiscKey(h)
    /\ (pc[h] \in {"ready", "Crack"} \/ caller[h] # "open") /\ UsesDiscKey(h) => p_disc_key[h] = "right"
    /\ p_disc_key[h] # "wrong"
    /\ p_title_key[h] # "wrong"

\* What a step of another host leaves alone, too.
KeysSame(k) ==
    /\ payload'[k] = payload[k]
    /\ b_scrambled'[k] = b_scrambled[k]
    /\ p_disc_key'[k] = p_disc_key[k]
    /\ p_title_key'[k] = p_title_key[k]

LEMMA OthersKeysSame ==
    ASSUME TypeOK, NEW h \in Hosts, StepOf(h), NEW k \in Hosts, k # h
    PROVE  KeysSame(k)
  <1> USE DEF session, keys, setup, call, TypeOK
  <1>1. CASE Open(h) \/ Forget(h)
    BY <1>1 DEF Open, Forget, KeysSame
  <1>2. CASE Test(h)
    <2>1. UNCHANGED b_scrambled \/ \E v : b_scrambled' = [b_scrambled EXCEPT ![h] = v]
      BY <1>2, Zenon DEF Test
    <2>2. b_scrambled'[k] = b_scrambled[k]
      BY <2>1
    <2> QED BY <1>2, <2>2 DEF Test, KeysSame
  <1>3. CASE ReportAgid(h) \/ InvalidateHung(h) \/ SendChallenge(h) \/ ReportKey1(h)
             \/ ReportChallenge(h) \/ SendKey2(h) \/ Abort(h) \/ DiscAbort(h) \/ Title(h)
             \/ TitleAbort(h)
    <2>1. UNCHANGED <<payload, b_scrambled, p_disc_key, p_title_key>>
      BY <1>3, Zenon DEF ReportAgid, InvalidateHung, SendChallenge, ReportKey1,
             ReportChallenge, SendKey2, Abort, DiscAbort, Title, TitleAbort
    <2> QED BY <2>1 DEF KeysSame
  <1>4. CASE ReadDiscKey(h) \/ ReadTitleKey(h)
    <2>1. /\ UNCHANGED payload \/ \E v : payload' = [payload EXCEPT ![h] = v]
          /\ UNCHANGED <<b_scrambled, p_disc_key, p_title_key>>
      BY <1>4, Zenon DEF ReadDiscKey, ReadTitleKey
    <2> QED BY <2>1 DEF KeysSame
  <1>5. CASE DiscASF(h)
    <2>1. UNCHANGED p_disc_key \/ \E v : p_disc_key' = [p_disc_key EXCEPT ![h] = v]
      BY <1>5, Zenon DEF DiscASF
    <2>2. p_disc_key'[k] = p_disc_key[k]
      BY <2>1
    <2> QED BY <1>5, <2>2 DEF DiscASF, KeysSame
  <1>6. CASE TitleASF(h) \/ Crack(h)
    <2>1. /\ UNCHANGED p_title_key \/ \E v : p_title_key' = [p_title_key EXCEPT ![h] = v]
          /\ UNCHANGED payload \/ payload' = [payload EXCEPT ![h] = "none"]
          /\ UNCHANGED <<b_scrambled, p_disc_key>>
      BY <1>6, Zenon DEF TitleASF, Crack
    <2>2. p_title_key'[k] = p_title_key[k] /\ payload'[k] = payload[k]
      BY <2>1
    <2> QED BY <2>1, <2>2 DEF KeysSame
  <1> QED BY <1>1, <1>2, <1>3, <1>4, <1>5, <1>6, ActionSplit DEF StepOf

\* A command of GetBusKey changes no key, and is followed by another one or by the
\* read of a key.
LEMMA KeyInvKept ==
    ASSUME TypeOK, NEW h \in Hosts, KeyInv(h),
           UNCHANGED <<payload, b_ioctls, b_scrambled, i_method, p_disc_key, p_title_key>>,
           pc[h] \notin Idle \cup {"Crack"},
           pc'[h] \notin {"DiscASF", "TitleASF", "ready", "Crack"},
           caller' = caller \/ (caller[h] = "title" /\ caller'[h] = "fallback")
    PROVE  KeyInv(h)'
  BY DEF KeyInv, UsesDiscKey, Idle, At

LEMMA KeyStep ==
    ASSUME TypeOK, Uncontended, UncontendedInv, CallerInv, NEW h \in Hosts, KeyInv(h),
           StepOf(h)
    PROVE  KeyInv(h)'
  <1> USE DEF TypeOK, session, keys, setup, call
  <1>1. HostInv(h) /\ Untroubled(h)
    BY DEF UncontendedInv, HostInv
  <1>2. CASE Open(h) \/ Close(h)
    <2>1. /\ pc'[h] \in {"Test", "ready", "closed"} /\ caller'[h] = "open"
          /\ pc'[h] = "ready" => ~b_ioctls'[h]
          /\ p_disc_key'[h] # "wrong" /\ p_title_key'[h] # "wrong"
      BY <1>2 DEF Open, Close, Forget, Goto, KeyInv
    <2> QED BY <2>1 DEF KeyInv, UsesDiscKey, At
  <1>3. CASE Test(h)
    <2>1. caller[h] = "open" /\ caller' = caller /\ UNCHANGED <<p_disc_key, p_title_key>>
      BY <1>1, <1>3 DEF Test, Untroubled, At
    <2>2. \/ Goto(h, "ready") /\ b_ioctls' = [b_ioctls EXCEPT ![h] = FALSE]
          \/ Goto(h, "ready") /\ b_scrambled' = [b_scrambled EXCEPT ![h] = FALSE]
          \/ Goto(h, "ReportAgid")
      BY <1>3, Zenon DEF Test, StartGetBusKey
    <2>3. pc'[h] \in {"ready", "ReportAgid"} /\ (pc'[h] = "ready" => ~UsesDiscKey(h)')
      BY <2>2 DEF Goto, UsesDiscKey
    <2> QED BY <2>1, <2>3 DEF KeyInv, At
  <1>4. CASE SendChallenge(h) \/ ReportKey1(h) \/ ReportChallenge(h) \/ SendKey2(h)
    <2>1. \E l \in {"ReportKey1", "ReportChallenge", "SendKey2", "ReadTitleKey",
                    "ReadDiscKey", "Abort"} : Goto(h, l)
      BY <1>4, Zenon DEF SendChallenge, ReportKey1, ReportChallenge, SendKey2, Proceed
    <2>2. pc'[h] \notin {"DiscASF", "TitleASF", "ready", "Crack"} /\ pc[h] \notin Idle \cup {"Crack"}
      BY <1>4, <2>1
         DEF Goto, SendChallenge, ReportKey1, ReportChallenge, SendKey2, At, Idle
    <2>3. /\ UNCHANGED <<payload, b_ioctls, b_scrambled, i_method, p_disc_key, p_title_key>>
          /\ caller' = caller
      BY <1>4, Zenon DEF SendChallenge, ReportKey1, ReportChallenge, SendKey2
    <2> QED BY <2>2, <2>3, KeyInvKept
  <1>5. CASE ReportAgid(h)
    <2>1. "ReportAgid" \notin Faults /\ "LostAgid" \notin Faults
      BY DEF Uncontended
    <2>2. \E b \in Agids : stage[b] = "free"
      BY <1>5, AgidLeft DEF ReportAgid
    <2>3. Goto(h, "SendChallenge")
      BY <1>5, <2>1, <2>2, Zenon DEF ReportAgid, ioctl_ReportAgid
    <2>4. pc'[h] = "SendChallenge" /\ pc[h] = "ReportAgid"
      BY <1>5, <2>3 DEF ReportAgid, Goto, At
    <2> QED BY <1>5, <2>4, KeyInvKept DEF ReportAgid, Idle
  <1>6. ReadDiscKey(h) \/ ReadTitleKey(h) => Holding(h)
    BY DEF ReadDiscKey, ReadTitleKey, Holding, Needs, At
  <1>7. ReadDiscKey(h) \/ ReadTitleKey(h)
        => stage[i_agid[h]] = "auth" /\ nonce[i_agid[h]] = p_bus_key[h]
    <2>1. ReadDiscKey(h) \/ ReadTitleKey(h) => pc[h] \in {"ReadDiscKey", "ReadTitleKey"}
      BY DEF ReadDiscKey, ReadTitleKey, At
    <2>2. ReadDiscKey(h) \/ ReadTitleKey(h) => Owns(h)
      BY <1>1, <1>6 DEF HostInv
    <2> QED BY <2>1, <2>2 DEF Owns, Needs
  <1>8. CASE ReadDiscKey(h)
    <2>1. "ReadDiscKey" \notin Faults
      BY DEF Uncontended
    <2>2. payload' = [payload EXCEPT ![h] = Unhide(h, "good")] /\ Goto(h, "DiscASF")
      BY <1>7, <1>8, <2>1, Zenon DEF ReadDiscKey, ioctl_ReadDiscKey, Answer
    <2>3. payload'[h] = "good" /\ pc'[h] = "DiscASF" /\ pc[h] = "ReadDiscKey"
      BY <1>7, <1>8, <2>2 DEF Unhide, Goto, ReadDiscKey, At
    <2> QED BY <1>8, <2>3 DEF ReadDiscKey, KeyInv, UsesDiscKey, At
  <1>9. CASE ReadTitleKey(h)
    <2>1. \/ payload' = [payload EXCEPT ![h] = Unhide(h, "good")]
          \/ payload' = [payload EXCEPT ![h] = Unhide(h, "zero")]
          \/ i_ret' = [i_ret EXCEPT ![h] = -1]
      BY <1>9 DEF ReadTitleKey
    <2>2. payload'[h] \in {"good", "zero"} \/ i_ret'[h] = -1
      BY <1>7, <1>9, <2>1 DEF Unhide
    <2>3. pc'[h] = "TitleASF" /\ pc[h] = "ReadTitleKey"
      BY <1>9 DEF ReadTitleKey, Goto, At
    <2> QED BY <1>9, <2>2, <2>3 DEF ReadTitleKey, KeyInv, UsesDiscKey, At
  <1>10. CASE DiscASF(h)
    <2>1. asf /\ caller[h] # "title" /\ pc[h] = "DiscASF" /\ "ReportASF" \notin Faults
      BY <1>1, <1>10 DEF DiscASF, Untroubled, At, Uncontended
    <2>2. PICK key \in {"zero", "right", "wrong"}, ret \in {-1, 0} :
             /\ DiscKey(h, key, ret)
             /\ p_disc_key' = [p_disc_key EXCEPT ![h] = key]
             /\ i_method' = [i_method EXCEPT ![h] = IF ret = 0 THEN @ ELSE "TITLE"]
             /\ DisckeyReturns(h, 0)
      BY <1>10, <2>1, Zenon DEF DiscASF, ioctl_ReportASF
    <2>3. /\ payload[h] = "good"
          /\ pc'[h] \in {"ready", "Crack"} /\ caller' = caller
          /\ UNCHANGED <<b_ioctls, b_scrambled, p_title_key>>
      BY <1>10, <2>1, <2>2 DEF DiscASF, DisckeyReturns, Goto, KeyInv, At
    <2>4. /\ p_disc_key'[h] = key /\ (ret = -1 => i_method'[h] = "TITLE")
          /\ i_method[h] = "TITLE" => i_method'[h] = "TITLE"
      BY <2>2
    <2>5. key = "right" \/ (key = "zero" /\ (ret = -1 \/ i_method[h] = "TITLE"))
      BY <2>2, <2>3 DEF DiscKey, DecryptDiscKey, CrackDiscKey
    <2> QED BY <2>3, <2>4, <2>5 DEF KeyInv, UsesDiscKey, At
  <1>11. CASE Title(h)
    <2>1. /\ pc[h] = "ready" /\ pc'[h] \in {"ReportAgid", "Crack"} /\ b_scrambled[h]
          /\ UNCHANGED <<b_ioctls, b_scrambled, i_method, p_disc_key, p_title_key>>
          /\ pc'[h] = "ReportAgid" => b_ioctls[h] /\ i_method[h] # "TITLE"
      BY <1>11 DEF Title, StartGetBusKey, Goto, At
    <2> QED BY <2>1 DEF KeyInv, UsesDiscKey, At
  <1>12. CASE TitleASF(h)
    <2>1. /\ pc[h] = "TitleASF" /\ caller[h] = "title"
          /\ i_ret[h] \in {0, -1} /\ "ReportASF" \notin Faults
      BY <1>1, <1>12 DEF TitleASF, At, Untroubled, Uncontended, CallerInv, TitleLabels
    <2>2. UsesDiscKey(h) /\ p_disc_key[h] = "right"
      BY <2>1 DEF KeyInv
    <2>3. UNCHANGED <<b_ioctls, b_scrambled, i_method, p_disc_key>>
      BY <1>12 DEF TitleASF
    <2>4. \/ /\ i_ret[h] = 0 /\ Return(h)
             /\ p_title_key' = [p_title_key EXCEPT ![h] = DecryptTitleKey(h)]
          \/ Goto(h, "TitleAbort") /\ UNCHANGED <<p_title_key, caller>>
          \/ Fallback(h) /\ UNCHANGED p_title_key
      BY <1>12, <2>1, Zenon DEF TitleASF, ioctl_ReportASF
    <2>5. i_ret[h] = 0 => DecryptTitleKey(h) # "wrong"
      BY <2>1, <2>2 DEF DecryptTitleKey, KeyInv, At
    <2>6. p_title_key'[h] # "wrong" /\ pc'[h] \notin {"DiscASF", "TitleASF"}
      BY <2>4, <2>5 DEF KeyInv, Return, Fallback, StartGetBusKey, Goto
    <2> QED BY <2>2, <2>3, <2>6 DEF KeyInv, UsesDiscKey, At
  <1>13. CASE TitleAbort(h)
    <2>1. /\ pc[h] = "TitleAbort" /\ pc'[h] = "ReportAgid" /\ caller[h] = "title"
          /\ caller'[h] = "fallback"
      BY <1>13 DEF TitleAbort, Fallback, StartGetBusKey, Goto, At, CallerInv, TitleLabels
    <2>2. UNCHANGED <<b_ioctls, b_scrambled, i_method, p_disc_key, p_title_key>>
      BY <1>13 DEF TitleAbort
    <2> QED BY <2>1, <2>2 DEF KeyInv, UsesDiscKey, At
  <1>14. CASE Crack(h)
    <2>1. /\ pc[h] = "Crack" /\ Goto(h, "ready") /\ caller' = caller
          /\ UNCHANGED <<b_ioctls, b_scrambled, i_method, p_disc_key>>
      BY <1>14, Zenon DEF Crack, Return, At
    <2>2. p_title_key'[h] # "wrong"
      BY <1>14 DEF Crack, KeyInv
    <2>3. ~UsesDiscKey(h) \/ p_disc_key[h] = "right"
      BY <2>1 DEF KeyInv
    <2> QED BY <2>1, <2>2, <2>3 DEF KeyInv, UsesDiscKey, Goto, At
  <1>15. ~InvalidateHung(h) /\ ~Abort(h) /\ ~DiscAbort(h) /\ ~Kill(h)
    BY <1>1 DEF Untroubled, InvalidateHung, Abort, DiscAbort, Kill, At, Uncontended
  <1> QED
    BY <1>2, <1>3, <1>4, <1>5, <1>8, <1>9, <1>10, <1>11, <1>12, <1>13, <1>14, <1>15, Zenon
       DEF StepOf, Step

KeysInv == \A h \in Hosts : KeyInv(h)

LEMMA KeysAlways ==
    ASSUME Uncontended
    PROVE  /\ Init => KeysInv
           /\ TypeOK /\ UncontendedInv /\ CallerInv /\ KeysInv /\ [Next]_vars => KeysInv'
  <1>1. Init => KeysInv
    <2>1. Init => \A h \in Hosts :
             /\ pc[h] = "closed" /\ caller[h] = "open" /\ p_disc_key[h] = "zero"
             /\ p_title_key[h] = "unset"
      BY DEF Init
    <2> QED BY <2>1 DEF KeysInv, KeyInv, At
  <1>2. ASSUME TypeOK, UncontendedInv, CallerInv, KeysInv, [Next]_vars, NEW k \in Hosts
        PROVE  KeyInv(k)'
    <2>1. CASE UNCHANGED vars
      BY <1>2, <2>1 DEF vars, session, keys, setup, call, KeysInv, KeyInv, UsesDiscKey, At
    <2>2. ASSUME NEW h \in Hosts, StepOf(h) PROVE KeyInv(k)'
      <3>1. CASE k = h
        BY <1>2, <2>2, <3>1, KeyStep DEF KeysInv
      <3>2. CASE k # h
        BY <1>2, <2>2, <3>2, OthersSame, OthersKeysSame
           DEF KeysInv, KeyInv, UsesDiscKey, Same, KeysSame, At
      <3> QED BY <3>1, <3>2
    <2> QED BY <1>2, <2>1, <2>2 DEF Next, StepOf
  <1> QED BY <1>1, <1>2 DEF KeysInv

\* The title key that dvdcss_title stores is never a wrong one, whichever of the hosts
\* asks for it and by whichever method, also where the key of an earlier title is kept.
THEOREM UncontendedStoredKeyValid ==
    ASSUME Uncontended
    PROVE  Spec => []StoredKeyValid
  <1>1. /\ Init => UncontendedInv
        /\ TypeOK /\ UncontendedInv /\ [Next]_vars => UncontendedInv'
    BY UncontendedAlways
  <1>2. /\ Init => KeysInv
        /\ TypeOK /\ UncontendedInv /\ CallerInv /\ KeysInv /\ [Next]_vars => KeysInv'
    BY KeysAlways
  <1>3. KeysInv => StoredKeyValid
    BY DEF KeysInv, KeyInv, StoredKeyValid
  <1> QED BY <1>1, <1>2, <1>3, TypeCorrect, CallersInv, PTL DEF Spec

\* No key block is unhidden with the bus key of another session, and no wrong disc key
\* is stored, as long as the hosts do not get into each other's way.
THEOREM UncontendedKeysUnhidden ==
    ASSUME Uncontended
    PROVE  Spec => []KeysUnhidden
  <1>1. /\ Init => UncontendedInv
        /\ TypeOK /\ UncontendedInv /\ [Next]_vars => UncontendedInv'
    BY UncontendedAlways
  <1>2. /\ Init => KeysInv
        /\ TypeOK /\ UncontendedInv /\ CallerInv /\ KeysInv /\ [Next]_vars => KeysInv'
    BY KeysAlways
  <1>3. KeysInv => KeysUnhidden
    BY DEF KeysInv, KeyInv, KeysUnhidden
  <1> QED BY <1>1, <1>2, <1>3, TypeCorrect, CallersInv, PTL DEF Spec

=============================================================================
