---------------------------- MODULE DevicesProofs ----------------------------
(***************************************************************************)
(* Proofs about Devices, for any devices, codes and requests.              *)
(***************************************************************************)
EXTENDS Devices, TLAPS

(* A request about a device has found it: it is there, or was deleted      *)
(* since.  An update looks for the tenant's webhook if it set the lock.    *)
HoldsDevice(j) ==
    /\ todo[j] = "insert" => job[j].code \in Code
    /\ todo[j] \notin {"idle", "insert"} =>
          /\ job[j].device \in Device
          /\ Exists(job[j].device) \/ job[j].device \in deleted
    /\ todo[j] = "target" => job[j].lock # "keep"

JobsHold == \A j \in Job : HoldsDevice(j)

(* No identity is used again. *)
NoneReturns == \A d \in deleted : ~Exists(d)

TypeInv == DevicesTypeOK /\ JobsHold /\ NoneReturns

USE DEF Todo, DeviceStatus

-----------------------------------------------------------------------------
(* The type invariant *)

LEMMA TypeInit == DevicesInit => TypeInv
<1> SUFFICES ASSUME DevicesInit PROVE TypeInv
  OBVIOUS
<1>1. Nothing \in Held
  BY DEF Nothing, Held
<1> QED
  BY <1>1 DEF DevicesInit, TypeInv, DevicesTypeOK, JobsHold, HoldsDevice,
              NoneReturns

(* A request arrives with its device found, or with a code to register.    *)
LEMMA BeginTypes ==
    ASSUME TypeInv, NEW j \in Job, NEW s \in Todo \ {"target"},
           NEW h \in Held, Begin(j, s, h),
           s = "insert" => h.code \in Code,
           s \notin {"idle", "insert"} => h.device \in Device /\ Exists(h.device)
    PROVE  TypeInv'
BY DEF Begin, devices, news, history, TypeInv, DevicesTypeOK, JobsHold,
       HoldsDevice, NoneReturns, Exists

(* One goes on about the same device, or is done, and no row comes or goes. *)
LEMMA GoTypes ==
    ASSUME TypeInv, NEW j \in Job, todo[j] \notin {"idle", "insert"},
           NEW s \in Todo \ {"idle", "insert"}, Go(j, s),
           s = "target" => job[j].lock # "keep",
           UNCHANGED <<deviceCode, deleted>>
    PROVE  todo' \in [Job -> Todo] /\ job' \in [Job -> Held] /\ JobsHold'
BY DEF Go, TypeInv, DevicesTypeOK, JobsHold, HoldsDevice, Exists

LEMMA DoneTypes ==
    ASSUME TypeInv, NEW j \in Job, Done(j), UNCHANGED <<deviceCode, deleted>>
    PROVE  todo' \in [Job -> Todo] /\ job' \in [Job -> Held] /\ JobsHold'
<1>1. Nothing \in Held
  BY DEF Nothing, Held
<1> QED
  BY <1>1 DEF Done, TypeInv, DevicesTypeOK, JobsHold, HoldsDevice, Exists

LEMMA TypeNext == TypeInv /\ [DevicesNext]_devicesVars => TypeInv'
<1> SUFFICES ASSUME TypeInv, [DevicesNext]_devicesVars
             PROVE  TypeInv'
  OBVIOUS
<1> USE DEF devices, news, history
<1>0. ASSUME UNCHANGED <<deviceCode, deleted>>
      PROVE  NoneReturns'
  BY <1>0 DEF TypeInv, NoneReturns, Exists
<1>1. ASSUME NEW j \in Job, NEW c \in Code, Register(j, c)
      PROVE  TypeInv'
  <2> DEFINE h == [Nothing EXCEPT !.code = c]
  <2>1. h \in Held /\ h.code = c
    BY DEF Nothing, Held
  <2> QED
    BY <1>1, <2>1, BeginTypes DEF Register
<1>2. ASSUME NEW j \in Job, NEW d \in Device, RegisterInsert(j, d)
      PROVE  TypeInv'
  <2>1. job[j] \in Held /\ job[j].code \in Code
    BY <1>2 DEF RegisterInsert, TypeInv, DevicesTypeOK, JobsHold, HoldsDevice
  <2> DEFINE k == [job[j] EXCEPT !.device = d]
  <2>2. k \in Held /\ k.device = d
    BY <2>1 DEF Held
  <2>3. job' = [job EXCEPT ![j] = k] /\ todo' = [todo EXCEPT ![j] = "audit"]
    BY <1>2 DEF RegisterInsert, TypeInv, DevicesTypeOK
  <2>4. /\ deleted' = deleted /\ d \notin deleted
        /\ deviceCode' = [deviceCode EXCEPT ![d] = job[j].code]
    BY <1>2 DEF RegisterInsert
  <2>5. NoneReturns'
    BY <2>1, <2>4 DEF TypeInv, DevicesTypeOK, NoneReturns, Exists
  <2>6. \A e \in Device : Exists(e) => Exists(e)'
    BY <2>1, <2>4, CodeAssumption DEF TypeInv, DevicesTypeOK, Exists
  <2>7. Exists(d)'
    BY <2>1, <2>4, CodeAssumption DEF TypeInv, DevicesTypeOK, Exists
  <2>8. JobsHold'
    BY <2>2, <2>3, <2>4, <2>6, <2>7
    DEF TypeInv, DevicesTypeOK, JobsHold, HoldsDevice
  <2>9. DevicesTypeOK'
    BY <1>2, <2>1, <2>2, <2>3 DEF RegisterInsert, TypeInv, DevicesTypeOK
  <2> QED
    BY <2>5, <2>8, <2>9 DEF TypeInv
<1>3. ASSUME NEW j \in Job,
             RegisterAudit(j) \/ RemoveAudit(j)
      PROVE  TypeInv'
  BY <1>0, <1>3, DoneTypes DEF RegisterAudit, RemoveAudit, TypeInv, DevicesTypeOK
<1>4. ASSUME NEW j \in Job, NEW d \in Device, NEW l \in {"yes", "no", "keep"},
             NEW s \in DeviceStatus \cup {"keep"}, PatchFind(j, d, l, s)
      PROVE  TypeInv'
  <2> DEFINE h == [Nothing EXCEPT !.device = d, !.lock = l, !.status = s]
  <2>1. h \in Held /\ h.device = d
    BY DEF Nothing, Held
  <2> QED
    BY <1>4, <2>1, BeginTypes DEF PatchFind
<1>5. ASSUME NEW j \in Job, PatchWrite(j)
      PROVE  TypeInv'
  <2>1. job[j] \in Held /\ job[j].device \in Device /\ todo[j] = "patch"
    BY <1>5 DEF PatchWrite, TypeInv, DevicesTypeOK, JobsHold, HoldsDevice
  <2>2. PatchedStatus(j) \in DeviceStatus /\ PatchedLock(j) \in BOOLEAN
    BY <2>1 DEF PatchedStatus, PatchedLock, TypeInv, DevicesTypeOK, Held
  <2>3. UNCHANGED <<deviceCode, deleted, jobs, news>>
    BY <1>5 DEF PatchWrite
  <2>4. /\ connection' \in [Device -> DeviceStatus]
        /\ isLocked' \in [Device -> BOOLEAN]
    BY <1>5, <2>1, <2>2 DEF PatchWrite, TypeInv, DevicesTypeOK
  <2>5. Done(j) \/ Go(j, "patchAudit")
    BY <1>5 DEF PatchWrite
  <2>6. todo' \in [Job -> Todo] /\ job' \in [Job -> Held] /\ JobsHold'
    BY <2>1, <2>3, <2>5, GoTypes, DoneTypes
  <2>7. /\ late' \subseteq Job /\ misled' \subseteq Job
        /\ silent' \subseteq Device /\ mistold' \subseteq Device
    BY <1>5, <2>1
    DEF PatchWrite, PatchHistory, BeatsOf, TypeInv, DevicesTypeOK
  <2> QED
    BY <1>0, <2>3, <2>4, <2>6, <2>7 DEF TypeInv, DevicesTypeOK
<1>6. ASSUME NEW j \in Job, PatchAudit(j)
      PROVE  TypeInv'
  <2>1. todo' \in [Job -> Todo] /\ job' \in [Job -> Held] /\ JobsHold'
    BY <1>6, GoTypes, DoneTypes DEF PatchAudit
  <2> QED
    BY <1>0, <1>6, <2>1 DEF PatchAudit, TypeInv, DevicesTypeOK
<1>7. ASSUME NEW j \in Job, NEW k \in BOOLEAN, PatchTell(j, k)
      PROVE  TypeInv'
  <2>1. job[j].device \in Device
    BY <1>7 DEF PatchTell, TypeInv, JobsHold, HoldsDevice
  <2>2. todo' \in [Job -> Todo] /\ job' \in [Job -> Held] /\ JobsHold'
    BY <1>7, DoneTypes DEF PatchTell
  <2> QED
    BY <1>0, <1>7, <2>1, <2>2 DEF PatchTell, TypeInv, DevicesTypeOK
<1>8. ASSUME NEW j \in Job, NEW d \in Device, BeatFind(j, d)
      PROVE  TypeInv'
  <2> DEFINE h == [Nothing EXCEPT !.device = d, !.wasOffline = WasOffline(d)]
  <2>1. WasOffline(d) \in BOOLEAN
    BY DEF WasOffline
  <2>2. h \in Held /\ h.device = d
    BY <2>1 DEF Nothing, Held
  <2> QED
    BY <1>8, <2>2, BeginTypes DEF BeatFind, MayBeat
<1>9. ASSUME NEW j \in Job, BeatWrite(j)
      PROVE  TypeInv'
  <2>1. todo' \in [Job -> Todo] /\ job' \in [Job -> Held] /\ JobsHold'
    BY <1>9, GoTypes, DoneTypes DEF BeatWrite
  <2>2. /\ connection' \in [Device -> DeviceStatus]
        /\ silent' \subseteq Device
    BY <1>9 DEF BeatWrite, TypeInv, DevicesTypeOK, JobsHold, HoldsDevice
  <2> QED
    BY <1>0, <1>9, <2>1, <2>2 DEF BeatWrite, TypeInv, DevicesTypeOK
<1>10. ASSUME NEW j \in Job, BeatPublish(j)
       PROVE  TypeInv'
  <2>1. job[j].device \in Device
    BY <1>10 DEF BeatPublish, TypeInv, JobsHold, HoldsDevice
  <2>2. todo' \in [Job -> Todo] /\ job' \in [Job -> Held] /\ JobsHold'
    BY <1>10, DoneTypes DEF BeatPublish
  <2> QED
    BY <1>0, <1>10, <2>1, <2>2 DEF BeatPublish, TypeInv, DevicesTypeOK
<1>11. ASSUME NEW j \in Job, NEW d \in Device, RemoveFind(j, d)
       PROVE  TypeInv'
  <2> DEFINE h == [Nothing EXCEPT !.device = d]
  <2>1. h \in Held /\ h.device = d
    BY DEF Nothing, Held
  <2> QED
    BY <1>11, <2>1, BeginTypes DEF RemoveFind
<1>12. ASSUME NEW j \in Job, RemoveDelete(j)
       PROVE  TypeInv'
  <2> DEFINE d == job[j].device
  <2>1. d \in Device
    BY <1>12 DEF RemoveDelete, TypeInv, JobsHold, HoldsDevice
  <2>2. /\ deviceCode' = [deviceCode EXCEPT ![d] = NoCode]
        /\ deleted' = deleted \cup {d}
        /\ todo' = [todo EXCEPT ![j] = "deleteAudit"] /\ job' = job
    BY <1>12 DEF RemoveDelete, Go
  <2>3. \A e \in Device : Exists(e) \/ e \in deleted => Exists(e)' \/ e \in deleted'
    BY <2>1, <2>2 DEF TypeInv, DevicesTypeOK, Exists
  <2>4. JobsHold'
    BY <2>1, <2>2, <2>3 DEF TypeInv, DevicesTypeOK, JobsHold, HoldsDevice
  <2>5. NoneReturns'
    BY <2>1, <2>2 DEF TypeInv, DevicesTypeOK, NoneReturns, Exists
  <2>6. DevicesTypeOK'
    BY <1>12, <2>1, <2>2 DEF RemoveDelete, TypeInv, DevicesTypeOK
  <2> QED
    BY <2>4, <2>5, <2>6 DEF TypeInv
<1>13. ASSUME NEW j \in Job, Break(j)
       PROVE  TypeInv'
  <2>1. silent' \subseteq Device /\ mistold' \subseteq Device
    BY <1>13 DEF Break, TypeInv, DevicesTypeOK
  <2>2. todo' \in [Job -> Todo] /\ job' \in [Job -> Held] /\ JobsHold'
    BY <1>13, DoneTypes DEF Break
  <2> QED
    BY <1>0, <1>13, <2>1, <2>2 DEF Break, TypeInv, DevicesTypeOK
<1>14. CASE UNCHANGED devicesVars
  BY <1>14 DEF devicesVars, work, TypeInv, DevicesTypeOK, JobsHold,
               HoldsDevice, NoneReturns, Exists
<1>15. CASE Reload
  BY <1>15 DEF Reload, work, TypeInv, DevicesTypeOK, JobsHold, HoldsDevice,
               NoneReturns, Exists
<1>16. ASSUME NEW d \in Device, NewErp(d)
       PROVE  TypeInv'
  BY <1>16 DEF NewErp, work, TypeInv, DevicesTypeOK, JobsHold, HoldsDevice,
               NoneReturns, Exists
<1> QED
  BY <1>1, <1>2, <1>3, <1>4, <1>5, <1>6, <1>7, <1>8, <1>9, <1>10, <1>11,
     <1>12, <1>13, <1>14, <1>15, <1>16
  DEF DevicesNext, Serve

LEMMA TypeAlways == DevicesSpec => []TypeInv
BY TypeInit, TypeNext, PTL DEF DevicesSpec

(* DevicesTypeOK is an invariant of PosDeviceService. *)
THEOREM TypeCorrect == DevicesSpec => []DevicesTypeOK
BY TypeAlways, PTL DEF TypeInv

-----------------------------------------------------------------------------
(* Locked devices go silent *)

LEMMA SilencedInit == DevicesInit => SilencedOnceLocked
BY DEF DevicesInit, SilencedOnceLocked

(* What a request may do without waking a locked device. *)
LEMMA SilencedKept ==
    ASSUME TypeInv, SilencedOnceLocked, NEW j \in Job,
           \A i \in Job \ {j} : todo'[i] = todo[i] /\ job'[i] = job[i],
           \A d \in Device : Exists(d)' /\ isLocked'[d] =>
                                Exists(d) /\ isLocked[d],
           late \ {j} \subseteq late',
           todo'[j] # "beat"
    PROVE  SilencedOnceLocked'
<1> SUFFICES ASSUME NEW i \in Job, todo'[i] = "beat",
                    deviceCode'[job'[i].device] # NoCode,
                    isLocked'[job'[i].device]
             PROVE  i \in late'
  BY DEF SilencedOnceLocked, Exists
<1>1. i # j /\ todo[i] = "beat" /\ job'[i] = job[i]
  OBVIOUS
<1>2. job[i].device \in Device
  BY <1>1 DEF TypeInv, JobsHold, HoldsDevice
<1>3. Exists(job[i].device) /\ isLocked[job[i].device]
  BY <1>1, <1>2 DEF Exists
<1> QED
  BY <1>1, <1>3 DEF SilencedOnceLocked

LEMMA SilencedNext ==
    ASSUME TypeInv, SilencedOnceLocked, [DevicesNext]_devicesVars
    PROVE  SilencedOnceLocked'
<1> USE DEF devices, news, history
<1>1. ASSUME NEW j \in Job, NEW s \in Todo, NEW h, Begin(j, s, h), s # "beat"
      PROVE  SilencedOnceLocked'
  BY <1>1, SilencedKept DEF Begin, TypeInv, DevicesTypeOK, Exists
<1>2. ASSUME NEW j \in Job, Done(j), UNCHANGED <<deviceCode, isLocked>>,
             late \ {j} \subseteq late'
      PROVE  SilencedOnceLocked'
  BY <1>2, SilencedKept DEF Done, TypeInv, DevicesTypeOK, Exists
<1>3. ASSUME NEW j \in Job, NEW s \in Todo, Go(j, s), s # "beat",
             UNCHANGED <<deviceCode, isLocked>>, late \ {j} \subseteq late'
      PROVE  SilencedOnceLocked'
  BY <1>3, SilencedKept DEF Go, TypeInv, DevicesTypeOK, Exists
<1>4. ASSUME NEW j \in Job, NEW d \in Device, RegisterInsert(j, d)
      PROVE  SilencedOnceLocked'
  <2>1. \A e \in Device : Exists(e)' /\ isLocked'[e] => Exists(e) /\ isLocked[e]
    BY <1>4 DEF RegisterInsert, TypeInv, DevicesTypeOK, Exists
  <2> QED
    BY <1>4, <2>1, SilencedKept DEF RegisterInsert, TypeInv, DevicesTypeOK
<1>5. ASSUME NEW j \in Job, PatchWrite(j)
      PROVE  SilencedOnceLocked'
  <2> DEFINE d == job[j].device
  <2>1. d \in Device /\ job[j].lock \in {"yes", "no", "keep"}
    BY <1>5 DEF PatchWrite, TypeInv, DevicesTypeOK, JobsHold, HoldsDevice, Held
  <2>2. CASE ~Exists(d)
    BY <1>2, <1>5, <2>2 DEF PatchWrite
  <2>3. CASE Exists(d) /\ job[j].lock # "yes"
    <3>1. \A e \in Device : Exists(e)' /\ isLocked'[e] => Exists(e) /\ isLocked[e]
      BY <1>5, <2>1, <2>3
      DEF PatchWrite, PatchedLock, TypeInv, DevicesTypeOK, Exists
    <3>2. late' = late /\ Go(j, "patchAudit")
      BY <1>5, <2>3 DEF PatchWrite, PatchHistory
    <3> QED
      BY <3>1, <3>2, SilencedKept DEF Go, TypeInv, DevicesTypeOK
  <2>4. CASE Exists(d) /\ job[j].lock = "yes"
    <3>1. /\ isLocked' = [isLocked EXCEPT ![d] = PatchedLock(j)]
          /\ late' = late \cup BeatsOf(d)
          /\ todo' = [todo EXCEPT ![j] = "patchAudit"] /\ job' = job
          /\ deviceCode' = deviceCode
      BY <1>5, <2>4 DEF PatchWrite, PatchHistory, Go
    <3>2. ASSUME NEW i \in Job, todo'[i] = "beat",
                 deviceCode'[job'[i].device] # NoCode,
                 isLocked'[job'[i].device]
          PROVE  i \in late'
      <4>1. todo[i] = "beat" /\ job[i].device \in Device /\ Exists(job[i].device)
        BY <3>1, <3>2 DEF TypeInv, DevicesTypeOK, JobsHold, HoldsDevice, Exists
      <4>2. CASE job[i].device = d
        BY <3>1, <4>1, <4>2 DEF BeatsOf
      <4>3. CASE job[i].device # d
        <5>1. isLocked[job[i].device]
          BY <2>1, <3>1, <3>2, <4>1, <4>3 DEF TypeInv, DevicesTypeOK
        <5> QED
          BY <3>1, <4>1, <5>1 DEF SilencedOnceLocked
      <4> QED
        BY <4>2, <4>3
    <3> QED
      BY <3>2 DEF SilencedOnceLocked, Exists
  <2> QED
    BY <2>2, <2>3, <2>4
<1>6. ASSUME NEW j \in Job, NEW d \in Device, BeatFind(j, d)
      PROVE  SilencedOnceLocked'
  <2> DEFINE h == [Nothing EXCEPT !.device = d, !.wasOffline = WasOffline(d)]
  <2>1. h.device = d
    BY DEF Nothing
  <2>2. /\ todo' = [todo EXCEPT ![j] = "beat"] /\ job' = [job EXCEPT ![j] = h]
        /\ UNCHANGED <<deviceCode, isLocked, late>> /\ ~isLocked[d]
    BY <1>6 DEF BeatFind, MayBeat, Begin
  <2> HIDE DEF h
  <2>3. ASSUME NEW i \in Job, todo'[i] = "beat",
               deviceCode'[job'[i].device] # NoCode,
               isLocked'[job'[i].device]
        PROVE  i \in late'
    <3>1. i # j
      BY <2>1, <2>2, <2>3 DEF TypeInv, DevicesTypeOK
    <3>2. todo[i] = "beat" /\ job'[i] = job[i]
      BY <2>2, <2>3, <3>1 DEF TypeInv, DevicesTypeOK
    <3> QED
      BY <2>2, <2>3, <3>2 DEF SilencedOnceLocked, Exists
  <2> QED
    BY <2>3 DEF SilencedOnceLocked, Exists
<1>7. ASSUME NEW j \in Job, RemoveDelete(j)
      PROVE  SilencedOnceLocked'
  <2>1. job[j].device \in Device
    BY <1>7 DEF RemoveDelete, TypeInv, JobsHold, HoldsDevice
  <2>2. \A e \in Device : Exists(e)' /\ isLocked'[e] => Exists(e) /\ isLocked[e]
    BY <1>7, <2>1 DEF RemoveDelete, TypeInv, DevicesTypeOK, Exists
  <2> QED
    BY <1>7, <2>2, SilencedKept DEF RemoveDelete, Go, TypeInv, DevicesTypeOK
<1>8. ASSUME NEW j \in Job,
             \/ \E c \in Code : Register(j, c)
             \/ \E d \in Device : RemoveFind(j, d)
             \/ \E d \in Device, l \in {"yes", "no", "keep"},
                   s \in DeviceStatus \cup {"keep"} : PatchFind(j, d, l, s)
      PROVE  SilencedOnceLocked'
  BY <1>1, <1>8 DEF Register, RemoveFind, PatchFind
<1>9. ASSUME NEW j \in Job,
             \/ RegisterAudit(j) \/ RemoveAudit(j)
             \/ PatchAudit(j) \/ (\E k \in BOOLEAN : PatchTell(j, k))
             \/ BeatWrite(j) \/ BeatPublish(j) \/ Break(j)
      PROVE  SilencedOnceLocked'
  BY <1>2, <1>3, <1>9
  DEF RegisterAudit, RemoveAudit, PatchAudit, PatchTell, BeatWrite,
      BeatPublish, Break
<1>10. CASE UNCHANGED devicesVars
  BY <1>10 DEF devicesVars, work, SilencedOnceLocked, Exists
<1>11. CASE Reload \/ \E d \in Device : NewErp(d)
  BY <1>11 DEF Reload, NewErp, work, SilencedOnceLocked, Exists
<1> QED
  BY <1>4, <1>5, <1>6, <1>7, <1>8, <1>9, <1>10, <1>11 DEF DevicesNext, Serve

(* Only heartbeats let in before the lock still write the row of a device  *)
(* that is locked.                                                         *)
THEOREM SilencedCorrect == DevicesSpec => []SilencedOnceLocked
<1>1. TypeInv /\ SilencedOnceLocked /\ [DevicesNext]_devicesVars
        => SilencedOnceLocked'
  BY SilencedNext
<1> QED
  BY <1>1, SilencedInit, TypeAlways, PTL DEF DevicesSpec

-----------------------------------------------------------------------------
(* Devices that are ONLINE are shown *)

(* A heartbeat that read ONLINE will find it still so.                     *)
BeatsTrust ==
    \A j \in Job :
        /\ todo[j] = "beat" /\ ~job[j].wasOffline
        /\ Exists(job[j].device)
        /\ j \notin misled
        => connection[job[j].device] = "ONLINE"

OnlineInv == OnlineIsShown /\ BeatsTrust

LEMMA OnlineInit == DevicesInit => OnlineInv
BY DEF DevicesInit, OnlineInv, OnlineIsShown, BeatsTrust, Exists

(* What a request may do without hiding a device or misleading a           *)
(* heartbeat: j's own heartbeat aside, if it does not begin one.           *)
LEMMA OnlineKept ==
    ASSUME TypeInv, OnlineInv, NEW j \in Job,
           \A i \in Job \ {j} : todo'[i] = todo[i] /\ job'[i] = job[i],
           \A d \in Device :
              /\ Exists(d)' /\ connection'[d] = "ONLINE" =>
                    \/ Exists(d) /\ connection[d] = "ONLINE"
                    \/ d \in shownOnline' \cup silent'
                    \/ Publishing(j, d)'
              /\ d \in shownOnline \cup silent => d \in shownOnline' \cup silent'
              /\ Publishing(j, d) /\ Exists(d)' =>
                    d \in shownOnline' \cup silent',
           todo'[j] # "beat",
           misled \ {j} \subseteq misled',
           \A i \in Job \ {j} :
              /\ todo[i] = "beat" /\ ~job[i].wasOffline
              /\ Exists(job[i].device)'
              /\ i \notin misled'
              => /\ Exists(job[i].device)
                 /\ connection[job[i].device] = "ONLINE"
                       => connection'[job[i].device] = "ONLINE"
    PROVE  OnlineInv'
<1>1. ASSUME NEW d \in Device, Exists(d)', connection'[d] = "ONLINE"
      PROVE  \/ d \in shownOnline' \cup silent'
             \/ \E i \in Job : Publishing(i, d)'
  <2>1. CASE Exists(d) /\ connection[d] = "ONLINE"
    <3>1. d \in shownOnline \cup silent \/ \E i \in Job : Publishing(i, d)
      BY <2>1 DEF OnlineInv, OnlineIsShown
    <3>2. ASSUME NEW i \in Job, Publishing(i, d), i # j
          PROVE  Publishing(i, d)'
      BY <3>2 DEF Publishing
    <3> QED
      BY <1>1, <3>1, <3>2
  <2> QED
    BY <1>1, <2>1
<1>2. ASSUME NEW i \in Job, todo'[i] = "beat", ~job'[i].wasOffline,
             deviceCode'[job'[i].device] # NoCode, i \notin misled'
      PROVE  connection'[job'[i].device] = "ONLINE"
  <2>1. i # j /\ todo[i] = "beat" /\ job'[i] = job[i] /\ i \notin misled
    BY <1>2
  <2>2. Exists(job[i].device)'
    BY <1>2, <2>1 DEF Exists
  <2>3. Exists(job[i].device)
    BY <1>2, <2>1, <2>2
  <2>4. connection[job[i].device] = "ONLINE"
    BY <1>2, <2>1, <2>3 DEF OnlineInv, BeatsTrust
  <2> QED
    BY <1>2, <2>1, <2>2, <2>4
<1> QED
  BY <1>1, <1>2 DEF OnlineInv, OnlineIsShown, BeatsTrust, Exists

LEMMA OnlineNext ==
    ASSUME TypeInv, OnlineInv, [DevicesNext]_devicesVars
    PROVE  OnlineInv'
<1> USE DEF devices, news, history
<1>1. ASSUME NEW j \in Job, NEW s \in Todo, NEW h, Begin(j, s, h), s # "beat"
      PROVE  OnlineInv'
  BY <1>1, OnlineKept DEF Begin, Publishing, TypeInv, DevicesTypeOK, Exists
<1>2. ASSUME NEW j \in Job, todo[j] # "publish",
             Done(j) \/ \E s \in Todo \ {"beat"} : Go(j, s),
             UNCHANGED <<deviceCode, connection, shownOnline>>,
             silent \subseteq silent', misled \ {j} \subseteq misled'
      PROVE  OnlineInv'
  <2>1. /\ todo'[j] # "beat"
        /\ \A i \in Job \ {j} : todo'[i] = todo[i] /\ job'[i] = job[i]
    BY <1>2 DEF Done, Go, TypeInv, DevicesTypeOK
  <2> QED
    BY <1>2, <2>1, OnlineKept DEF Publishing, Exists
<1>3. ASSUME NEW j \in Job, NEW d \in Device, RegisterInsert(j, d)
      PROVE  OnlineInv'
  <2>1. /\ todo' = [todo EXCEPT ![j] = "audit"]
        /\ \A i \in Job \ {j} : job'[i] = job[i]
        /\ deviceCode' = [deviceCode EXCEPT ![d] = job[j].code]
        /\ connection' = [connection EXCEPT ![d] = "OFFLINE"]
        /\ UNCHANGED <<news, history>>
        /\ todo[j] = "insert" /\ ~Exists(d) /\ d \notin deleted
    BY <1>3 DEF RegisterInsert, TypeInv, DevicesTypeOK
  <2>2. ASSUME NEW i \in Job, todo[i] = "beat"
        PROVE  job[i].device \in Device /\ job[i].device # d
    BY <2>1, <2>2 DEF TypeInv, JobsHold, HoldsDevice
  <2>3. \A e \in Device \ {d} : connection'[e] = connection[e]
                                /\ (Exists(e)' => Exists(e))
    BY <2>1 DEF TypeInv, DevicesTypeOK, Exists
  <2>4. connection'[d] # "ONLINE"
    BY <2>1 DEF TypeInv, DevicesTypeOK
  <2>5. /\ todo'[j] # "beat" /\ \A e \in Device : ~Publishing(j, e)
        /\ \A i \in Job \ {j} : todo'[i] = todo[i]
    BY <2>1 DEF Publishing, TypeInv, DevicesTypeOK
  <2> QED
    BY <2>1, <2>2, <2>3, <2>4, <2>5, OnlineKept
<1>4. ASSUME NEW j \in Job, PatchWrite(j)
      PROVE  OnlineInv'
  <2> DEFINE d == job[j].device
  <2>1. d \in Device /\ todo[j] = "patch"
    BY <1>4 DEF PatchWrite, TypeInv, JobsHold, HoldsDevice
  <2>2. CASE ~Exists(d)
    BY <1>2, <1>4, <2>1, <2>2 DEF PatchWrite
  <2>3. CASE Exists(d)
    <3>1. /\ connection' = [connection EXCEPT ![d] = PatchedStatus(j)]
          /\ todo' = [todo EXCEPT ![j] = "patchAudit"] /\ job' = job
          /\ UNCHANGED <<deviceCode, shownOnline>>
          /\ silent \subseteq silent' /\ misled \subseteq misled'
          /\ job[j].status = "ONLINE" /\ connection[d] # "ONLINE"
                => d \in silent'
          /\ PatchedStatus(j) # "ONLINE" =>
                \A i \in BeatsOf(d) : ~job[i].wasOffline => i \in misled'
      BY <1>4, <2>3 DEF PatchWrite, PatchHistory, Go, BeatsOf
    <3>2. ASSUME NEW e \in Device, connection'[e] = "ONLINE"
          PROVE  connection[e] = "ONLINE" \/ e \in silent'
      BY <2>1, <3>1, <3>2 DEF PatchedStatus, TypeInv, DevicesTypeOK
    <3>3. ASSUME NEW i \in Job, todo[i] = "beat", ~job[i].wasOffline,
                 i \notin misled', connection[job[i].device] = "ONLINE"
          PROVE  connection'[job[i].device] = "ONLINE"
      <4>1. job[i].device \in Device
        BY <3>3 DEF TypeInv, JobsHold, HoldsDevice
      <4>2. CASE job[i].device = d
        BY <2>1, <3>1, <3>3, <4>2 DEF BeatsOf, TypeInv, DevicesTypeOK
      <4>3. CASE job[i].device # d
        BY <3>1, <3>3, <4>1, <4>3 DEF TypeInv, DevicesTypeOK
      <4> QED
        BY <4>2, <4>3
    <3>4. /\ todo'[j] # "beat" /\ \A e \in Device : ~Publishing(j, e)
          /\ \A i \in Job \ {j} : todo'[i] = todo[i] /\ job'[i] = job[i]
          /\ \A e : Exists(e)' <=> Exists(e)
      BY <2>1, <3>1 DEF Publishing, Exists, TypeInv, DevicesTypeOK
    <3> QED
      BY <3>1, <3>2, <3>3, <3>4, OnlineKept
  <2> QED
    BY <2>2, <2>3
<1>5. ASSUME NEW j \in Job, NEW d \in Device, BeatFind(j, d)
      PROVE  OnlineInv'
  <2> DEFINE h == [Nothing EXCEPT !.device = d, !.wasOffline = WasOffline(d)]
  <2>1. h.device = d /\ h.wasOffline = WasOffline(d)
    BY DEF Nothing
  <2>2. /\ todo[j] = "idle" /\ todo' = [todo EXCEPT ![j] = "beat"]
        /\ job' = [job EXCEPT ![j] = h]
        /\ UNCHANGED <<devices, news, history>>
    BY <1>5 DEF BeatFind, Begin
  <2>3. job'[j] = h /\ todo'[j] = "beat"
        /\ \A i \in Job \ {j} : todo'[i] = todo[i] /\ job'[i] = job[i]
    BY <2>2 DEF TypeInv, DevicesTypeOK
  <2> HIDE DEF h
  <2>4. \A e \in Device : ~Publishing(j, e)
    BY <2>2 DEF Publishing
  <2>5. \A i \in Job, e \in Device : Publishing(i, e) => Publishing(i, e)'
    BY <2>3, <2>4 DEF Publishing
  <2>6. OnlineIsShown'
    BY <2>2, <2>5 DEF OnlineInv, OnlineIsShown, Exists
  <2>7. ASSUME NEW i \in Job, todo'[i] = "beat", ~job'[i].wasOffline,
               deviceCode'[job'[i].device] # NoCode, i \notin misled'
        PROVE  connection'[job'[i].device] = "ONLINE"
    <3>1. CASE i = j
      BY <2>1, <2>2, <2>3, <2>7, <3>1 DEF WasOffline
    <3>2. CASE i # j
      BY <2>2, <2>3, <2>7, <3>2 DEF OnlineInv, BeatsTrust, Exists
    <3> QED
      BY <3>1, <3>2
  <2> QED
    BY <2>6, <2>7 DEF OnlineInv, BeatsTrust, Exists
<1>6. ASSUME NEW j \in Job, BeatWrite(j)
      PROVE  OnlineInv'
  <2>1. PICK d \in Device : d = job[j].device /\ todo[j] = "beat"
    BY <1>6 DEF BeatWrite, TypeInv, JobsHold, HoldsDevice
  <2>2. CASE ~Exists(d)
    BY <1>2, <1>6, <2>1, <2>2 DEF BeatWrite
  <2>3. CASE Exists(d)
    <3>1. /\ connection' = [connection EXCEPT ![d] = "ONLINE"]
          /\ todo' = [todo EXCEPT ![j] = "publish"] /\ job' = job
          /\ UNCHANGED <<deviceCode, shownOnline>>
          /\ misled' = misled \ {j} /\ silent \subseteq silent'
          /\ j \in misled => d \in silent'
      BY <1>6, <2>1, <2>3 DEF BeatWrite, Go
    <3>2. /\ todo'[j] = "publish" /\ job'[j] = job[j]
          /\ \A e \in Device : ~Publishing(j, e)
          /\ \A i \in Job \ {j} : todo'[i] = todo[i] /\ job'[i] = job[i]
          /\ \A e : Exists(e)' <=> Exists(e)
      BY <2>1, <3>1 DEF Publishing, Exists, TypeInv, DevicesTypeOK
    <3>3. \/ connection[d] = "ONLINE"
          \/ d \in silent'
          \/ Publishing(j, d)'
      BY <2>1, <2>3, <3>1, <3>2 DEF Publishing, OnlineInv, BeatsTrust
    <3>4. \A e \in Device :
             connection[e] = "ONLINE" \/ e = d => connection'[e] = "ONLINE"
      BY <3>1 DEF TypeInv, DevicesTypeOK
    <3>5. \A e \in Device : connection'[e] = "ONLINE"
                               => connection[e] = "ONLINE" \/ e = d
      BY <3>1 DEF TypeInv, DevicesTypeOK
    <3>6. \A e \in Device : connection'[e] = "ONLINE" =>
             \/ connection[e] = "ONLINE"
             \/ e \in silent'
             \/ Publishing(j, e)'
      BY <3>3, <3>5
    <3>7. \A i \in Job : todo[i] = "beat" => job[i].device \in Device
      BY DEF TypeInv, JobsHold, HoldsDevice
    <3> QED
      BY <3>1, <3>2, <3>4, <3>6, <3>7, OnlineKept
  <2> QED
    BY <2>2, <2>3
<1>7. ASSUME NEW j \in Job, BeatPublish(j)
      PROVE  OnlineInv'
  <2>1. /\ todo'[j] # "beat"
        /\ \A i \in Job \ {j} : todo'[i] = todo[i] /\ job'[i] = job[i]
        /\ \A d \in Device : ~Publishing(j, d)'
    BY <1>7 DEF BeatPublish, Done, Publishing, TypeInv, DevicesTypeOK
  <2>2. UNCHANGED <<deviceCode, connection, misled>>
    BY <1>7 DEF BeatPublish
  <2>3. \A d \in Device :
          /\ d \in shownOnline \cup silent => d \in shownOnline' \cup silent'
          /\ Publishing(j, d) /\ Exists(d)' => d \in shownOnline' \cup silent'
    BY <1>7 DEF BeatPublish, Publishing, Exists
  <2> QED
    BY <2>1, <2>2, <2>3, OnlineKept DEF Exists
<1>8. ASSUME NEW j \in Job, RemoveDelete(j)
      PROVE  OnlineInv'
  <2>1. /\ deviceCode' = [deviceCode EXCEPT ![job[j].device] = NoCode]
        /\ todo' = [todo EXCEPT ![j] = "deleteAudit"] /\ job' = job
        /\ UNCHANGED <<connection, news, history>> /\ todo[j] = "delete"
    BY <1>8 DEF RemoveDelete, Go
  <2>2. \A e \in Device : Exists(e)' => Exists(e)
    BY <2>1 DEF TypeInv, DevicesTypeOK, Exists
  <2>3. \A i \in Job : todo[i] = "beat" => job[i].device \in Device
    BY DEF TypeInv, JobsHold, HoldsDevice
  <2>4. /\ todo'[j] # "beat" /\ \A e \in Device : ~Publishing(j, e)
        /\ \A i \in Job \ {j} : todo'[i] = todo[i]
    BY <2>1 DEF Publishing, TypeInv, DevicesTypeOK
  <2> QED
    BY <2>1, <2>2, <2>3, <2>4, OnlineKept
<1>9. ASSUME NEW j \in Job, Break(j)
      PROVE  OnlineInv'
  <2>1. /\ todo'[j] # "beat"
        /\ \A i \in Job \ {j} : todo'[i] = todo[i] /\ job'[i] = job[i]
        /\ UNCHANGED <<deviceCode, connection, shownOnline>>
        /\ misled' = misled \ {j} /\ silent \subseteq silent'
        /\ \A d \in Device : Publishing(j, d) => d \in silent'
    BY <1>9 DEF Break, Done, TypeInv, DevicesTypeOK
  <2> QED
    BY <2>1, OnlineKept DEF Exists
<1>10. CASE Reload
  <2>1. /\ UNCHANGED <<devices, work, misled>>
        /\ shownOnline' = {d \in Device : Exists(d) /\ connection[d] = "ONLINE"}
    BY <1>10 DEF Reload
  <2> QED
    BY <2>1 DEF work, OnlineInv, OnlineIsShown, BeatsTrust, Exists
<1>11. ASSUME NEW j \in Job,
              \/ \E c \in Code : Register(j, c)
              \/ \E d \in Device : RemoveFind(j, d)
              \/ \E d \in Device, l \in {"yes", "no", "keep"},
                    s \in DeviceStatus \cup {"keep"} : PatchFind(j, d, l, s)
       PROVE  OnlineInv'
  BY <1>1, <1>11 DEF Register, RemoveFind, PatchFind
<1>12. ASSUME NEW j \in Job,
              \/ RegisterAudit(j) \/ RemoveAudit(j) \/ PatchAudit(j)
              \/ \E k \in BOOLEAN : PatchTell(j, k)
       PROVE  OnlineInv'
  BY <1>2, <1>12 DEF RegisterAudit, RemoveAudit, PatchAudit, PatchTell
<1>13. CASE UNCHANGED devicesVars \/ \E d \in Device : NewErp(d)
  BY <1>13 DEF devicesVars, NewErp, work, OnlineInv, OnlineIsShown,
               BeatsTrust, Publishing, Exists
<1> QED
  BY <1>3, <1>4, <1>5, <1>6, <1>7, <1>8, <1>9, <1>10, <1>11, <1>12, <1>13
  DEF DevicesNext, Serve

(* A dashboard shows every device that is ONLINE, or is about to hear of   *)
(* it, failures, hand-set statuses and misled heartbeats aside.            *)
THEOREM OnlineShownCorrect == DevicesSpec => []OnlineIsShown
<1>1. TypeInv /\ OnlineInv /\ [DevicesNext]_devicesVars => OnlineInv'
  BY OnlineNext
<1>2. DevicesSpec => []OnlineInv
  BY <1>1, OnlineInit, TypeAlways, PTL DEF DevicesSpec
<1> QED
  BY <1>2, PTL DEF OnlineInv

-----------------------------------------------------------------------------
(* What was sent last of a lock *)

Untold(d) == \E j \in Job : Telling(j, d)

(* Of a device that is not mistold one update at most has yet to tell what *)
(* it wrote, and what it wrote is what the row says.                       *)
OneTells(d) ==
    \A j \in Job : Telling(j, d) =>
        /\ job[j].lock = "yes" <=> isLocked[d]
        /\ \A i \in Job : Telling(i, d) => i = j

LockInv ==
    \A d \in Device :
        /\ d \notin mistold => /\ OneTells(d)
                               /\ ~Untold(d) => (d \in toldLocked <=> isLocked[d])
        /\ ~Exists(d) /\ d \notin deleted => d \notin toldLocked

LEMMA LockInit == DevicesInit => LockInv
BY DEF DevicesInit, LockInv, OneTells, Untold, Telling

LEMMA LockEnough == LockInv => LockIsTold
BY DEF LockInv, LockIsTold, Untold

(* A step that neither begins nor ends the telling of a lock.              *)
LEMMA LockKept ==
    ASSUME TypeInv, LockInv,
           \A j \in Job, d \in Device : Telling(j, d)' <=> Telling(j, d),
           \A j \in Job, d \in Device : Telling(j, d) => job'[j].lock = job[j].lock,
           \A d \in Device : ~Exists(d)' /\ d \notin deleted' =>
                                ~Exists(d) /\ d \notin deleted,
           UNCHANGED <<isLocked, toldLocked, mistold>>
    PROVE  LockInv'
BY DEF LockInv, OneTells, Untold

LEMMA LockNext ==
    ASSUME TypeInv, LockInv, TypeInv', [DevicesNext]_devicesVars
    PROVE  LockInv'
<1> USE DEF devices, news, history
<1>1. ASSUME NEW j \in Job, NEW s \in Todo \ {"patchAudit", "target"}, NEW h,
             Begin(j, s, h)
      PROVE  LockInv'
  <2>1. /\ todo'[j] = s /\ todo[j] = "idle"
        /\ \A i \in Job \ {j} : todo'[i] = todo[i] /\ job'[i] = job[i]
        /\ UNCHANGED <<devices, news, history>>
    BY <1>1 DEF Begin, TypeInv, DevicesTypeOK
  <2>2. \A i \in Job, d \in Device :
          /\ Telling(i, d)' <=> Telling(i, d)
          /\ Telling(i, d) => i # j
    BY <2>1 DEF Telling
  <2> QED
    BY <2>1, <2>2, LockKept DEF Exists
<1>2. ASSUME NEW j \in Job, \A d \in Device : ~Telling(j, d),
             Done(j) \/ \E s \in Todo \ {"patchAudit", "target"} : Go(j, s),
             UNCHANGED <<isLocked, toldLocked, mistold>>,
             \A d \in Device : ~Exists(d)' /\ d \notin deleted' =>
                                  ~Exists(d) /\ d \notin deleted
      PROVE  LockInv'
  <2>1. /\ todo'[j] \notin {"patchAudit", "target"}
        /\ \A i \in Job \ {j} : todo'[i] = todo[i] /\ job'[i] = job[i]
    BY <1>2 DEF Done, Go, TypeInv, DevicesTypeOK
  <2>2. \A i \in Job, d \in Device :
          /\ Telling(i, d)' <=> Telling(i, d)
          /\ Telling(i, d) => i # j
    BY <1>2, <2>1 DEF Telling
  <2> QED
    BY <1>2, <2>1, <2>2, LockKept
<1>3. ASSUME NEW j \in Job, NEW d \in Device, RegisterInsert(j, d)
      PROVE  LockInv'
  <2>1. /\ todo' = [todo EXCEPT ![j] = "audit"]
        /\ \A i \in Job \ {j} : job'[i] = job[i]
        /\ deviceCode' = [deviceCode EXCEPT ![d] = job[j].code]
        /\ isLocked' = [isLocked EXCEPT ![d] = FALSE]
        /\ UNCHANGED <<deleted, news, history>>
        /\ todo[j] = "insert" /\ ~Exists(d) /\ d \notin deleted
    BY <1>3 DEF RegisterInsert, TypeInv, DevicesTypeOK
  <2>2. /\ todo'[j] = "audit"
        /\ \A i \in Job \ {j} : todo'[i] = todo[i]
        /\ \A e \in Device \ {d} : isLocked'[e] = isLocked[e]
        /\ ~isLocked'[d]
    BY <2>1 DEF TypeInv, DevicesTypeOK
  <2>3. \A i \in Job, e \in Device :
          /\ Telling(i, e)' <=> Telling(i, e)
          /\ Telling(i, e) => i # j
    BY <2>1, <2>2 DEF Telling
  <2>4. \A i \in Job : ~Telling(i, d)
    BY <2>1 DEF Telling, TypeInv, JobsHold, HoldsDevice
  <2>5. \A e \in Device : ~Exists(e)' => ~Exists(e)
    <3>1. job[j].code \in Code
      BY <2>1 DEF TypeInv, JobsHold, HoldsDevice
    <3> QED
      BY <2>1, <3>1, CodeAssumption DEF TypeInv, DevicesTypeOK, Exists
  <2>6. d \notin toldLocked
    BY <2>1 DEF LockInv
  <2> QED
    BY <2>1, <2>2, <2>3, <2>4, <2>5, <2>6 DEF LockInv, OneTells, Untold
<1>4. ASSUME NEW j \in Job, PatchWrite(j)
      PROVE  LockInv'
  <2>1. PICK d \in Device :
          /\ d = job[j].device /\ todo[j] = "patch"
          /\ job[j].lock \in {"yes", "no", "keep"}
          /\ \A e \in Device : ~Telling(j, e)
    BY <1>4 DEF PatchWrite, Telling, TypeInv, DevicesTypeOK, JobsHold,
                HoldsDevice, Held
  <2>2. CASE ~Exists(d)
    BY <1>2, <1>4, <2>1, <2>2 DEF PatchWrite, Exists
  <2>3. CASE Exists(d)
    <3>1. /\ isLocked' = [isLocked EXCEPT ![d] = PatchedLock(j)]
          /\ todo' = [todo EXCEPT ![j] = "patchAudit"] /\ job' = job
          /\ UNCHANGED <<deviceCode, deleted, toldLocked>>
          /\ PatchHistory(j, d)
      BY <1>4, <2>1, <2>3 DEF PatchWrite, Go
    <3>2. /\ todo'[j] = "patchAudit"
          /\ \A i \in Job \ {j} : todo'[i] = todo[i]
          /\ \A e \in Device \ {d} : isLocked'[e] = isLocked[e]
          /\ isLocked'[d] = PatchedLock(j)
      BY <2>1, <3>1 DEF TypeInv, DevicesTypeOK
    <3>3. \A i \in Job \ {j}, e \in Device : Telling(i, e)' <=> Telling(i, e)
      BY <3>1, <3>2 DEF Telling
    <3>4. \A e \in Device : Telling(j, e)' <=> e = d /\ job[j].lock # "keep"
      BY <2>1, <3>1, <3>2 DEF Telling
    <3>5. \A e \in Device : (~Exists(e))' <=> ~Exists(e)
      BY <3>1 DEF Exists
    <3>6. CASE job[j].lock = "keep"
      <4>1. isLocked'[d] = isLocked[d] /\ mistold' = mistold
        BY <2>1, <3>1, <3>2, <3>6 DEF PatchedLock, PatchHistory
      <4>2. \A i \in Job, e \in Device : Telling(i, e)' <=> Telling(i, e)
        BY <2>1, <3>3, <3>4, <3>6
      <4>3. \A e \in Device : isLocked'[e] = isLocked[e]
        BY <3>2, <4>1
      <4> QED
        BY <3>1, <3>5, <4>1, <4>2, <4>3 DEF LockInv, OneTells, Untold
    <3>7. CASE job[j].lock # "keep"
      <4>1. mistold' = IF \E i \in Job \ {j} : Telling(i, d)
                       THEN mistold \cup {d} ELSE mistold \ {d}
        BY <3>1, <3>7 DEF PatchHistory
      <4>2. (job'[j].lock = "yes") <=> isLocked'[d]
        BY <2>1, <3>1, <3>2, <3>7 DEF PatchedLock
      <4>3. ASSUME d \notin mistold'
            PROVE  OneTells(d)' /\ Untold(d)'
        BY <2>1, <3>3, <3>4, <3>7, <4>1, <4>2, <4>3 DEF OneTells, Untold
      <4>4. ASSUME NEW e \in Device, e # d
            PROVE  /\ e \in mistold' <=> e \in mistold
                   /\ OneTells(e) => OneTells(e)'
                   /\ Untold(e)' <=> Untold(e)
                   /\ isLocked'[e] = isLocked[e]
        BY <2>1, <3>1, <3>2, <3>3, <3>4, <4>1, <4>4 DEF OneTells, Untold
      <4> QED
        BY <3>1, <3>5, <4>3, <4>4 DEF LockInv
    <3> QED
      BY <3>6, <3>7
  <2> QED
    BY <2>2, <2>3
<1>5. ASSUME NEW j \in Job, PatchAudit(j)
      PROVE  LockInv'
  <2>1. CASE job[j].lock = "keep"
    BY <1>2, <1>5, <2>1 DEF PatchAudit, Telling, Exists
  <2>2. CASE job[j].lock # "keep"
    <3>1. /\ todo' = [todo EXCEPT ![j] = "target"] /\ job' = job
          /\ todo[j] = "patchAudit"
          /\ UNCHANGED <<devices, news, history>>
      BY <1>5, <2>2 DEF PatchAudit, Go
    <3>2. \A i \in Job, d \in Device : Telling(i, d)' <=> Telling(i, d)
      BY <3>1 DEF Telling, TypeInv, DevicesTypeOK
    <3> QED
      BY <3>1, <3>2, LockKept DEF Exists
  <2> QED
    BY <2>1, <2>2
<1>6. ASSUME NEW j \in Job, NEW k \in BOOLEAN, PatchTell(j, k)
      PROVE  LockInv'
  <2>1. PICK d \in Device :
          d = job[j].device /\ (Exists(d) \/ d \in deleted)
    BY <1>6 DEF PatchTell, TypeInv, JobsHold, HoldsDevice
  <2>2. /\ todo[j] = "target"
        /\ todo'[j] = "idle"
        /\ \A i \in Job \ {j} : todo'[i] = todo[i] /\ job'[i] = job[i]
        /\ UNCHANGED devices
        /\ toldLocked' = IF ~k THEN toldLocked
                         ELSE IF job[j].lock = "yes" THEN toldLocked \cup {d}
                         ELSE toldLocked \ {d}
        /\ mistold' = IF k THEN mistold ELSE mistold \cup {d}
    BY <1>6, <2>1 DEF PatchTell, Done, TypeInv, DevicesTypeOK
  <2>3. \A i \in Job \ {j}, e \in Device : Telling(i, e)' <=> Telling(i, e)
    BY <2>2 DEF Telling
  <2>4. \A e \in Device : ~Telling(j, e)' /\ (Telling(j, e) => e = d)
    BY <2>1, <2>2 DEF Telling
  <2>5. ASSUME NEW e \in Device, e # d
        PROVE  /\ e \in mistold' <=> e \in mistold
               /\ e \in toldLocked' <=> e \in toldLocked
               /\ OneTells(e) => OneTells(e)'
               /\ Untold(e)' <=> Untold(e)
    BY <2>2, <2>3, <2>4, <2>5 DEF OneTells, Untold
  <2>6. ASSUME d \notin mistold'
        PROVE  OneTells(d)' /\ (d \in toldLocked' <=> isLocked'[d])
    <3>1. k /\ d \notin mistold
      BY <2>2, <2>6
    <3>2. job[j].lock # "keep"
      BY <2>2 DEF TypeInv, JobsHold, HoldsDevice
    <3>3. Telling(j, d)
      BY <2>1, <2>2, <3>2 DEF Telling
    <3>4. /\ job[j].lock = "yes" <=> isLocked[d]
          /\ \A i \in Job : Telling(i, d) => i = j
      BY <2>1, <3>1, <3>3 DEF LockInv, OneTells
    <3> QED
      BY <2>2, <2>3, <2>4, <3>1, <3>4 DEF OneTells
  <2> QED
    BY <2>1, <2>2, <2>5, <2>6 DEF LockInv, Exists
<1>7. ASSUME NEW j \in Job, RemoveDelete(j)
      PROVE  LockInv'
  <2>1. \A e \in Device : ~Exists(e)' /\ e \notin deleted' =>
                             ~Exists(e) /\ e \notin deleted
    BY <1>7 DEF RemoveDelete, TypeInv, DevicesTypeOK, Exists
  <2> QED
    BY <1>2, <1>7, <2>1 DEF RemoveDelete, Telling
<1>8. ASSUME NEW j \in Job, Break(j)
      PROVE  LockInv'
  <2>1. /\ todo'[j] = "idle"
        /\ \A i \in Job \ {j} : todo'[i] = todo[i] /\ job'[i] = job[i]
        /\ UNCHANGED <<devices, toldLocked>>
        /\ mistold \subseteq mistold'
        /\ \A d \in Device : Telling(j, d) => d \in mistold'
    BY <1>8 DEF Break, Done, TypeInv, DevicesTypeOK
  <2>2. \A i \in Job, d \in Device : Telling(i, d)' => Telling(i, d) /\ i # j
    BY <2>1 DEF Telling
  <2>3. \A i \in Job, d \in Device :
          Telling(i, d) /\ d \notin mistold' => Telling(i, d)' /\ i # j
    BY <2>1 DEF Telling
  <2> QED
    BY <2>1, <2>2, <2>3 DEF LockInv, OneTells, Untold, Exists
<1>9. ASSUME NEW j \in Job,
             \/ \E c \in Code : Register(j, c)
             \/ \E d \in Device : RemoveFind(j, d) \/ BeatFind(j, d)
             \/ \E d \in Device, l \in {"yes", "no", "keep"},
                   s \in DeviceStatus \cup {"keep"} : PatchFind(j, d, l, s)
      PROVE  LockInv'
  BY <1>1, <1>9 DEF Register, RemoveFind, BeatFind, PatchFind
<1>10. ASSUME NEW j \in Job,
              \/ RegisterAudit(j) \/ RemoveAudit(j)
              \/ BeatWrite(j) \/ BeatPublish(j)
       PROVE  LockInv'
  BY <1>2, <1>10
  DEF RegisterAudit, RemoveAudit, BeatWrite, BeatPublish, Telling, Exists
<1>11. CASE Reload \/ UNCHANGED devicesVars
  <2>1. UNCHANGED <<devices, todo, job, toldLocked, mistold>>
    BY <1>11 DEF Reload, devicesVars, work
  <2> QED
    BY <2>1, LockKept DEF Telling, Exists
<1>12. ASSUME NEW d \in Device, NewErp(d)
       PROVE  LockInv'
  <2>1. /\ UNCHANGED <<devices, todo, job>>
        /\ toldLocked' = toldLocked \ {d} /\ mistold' = mistold \cup {d}
    BY <1>12 DEF NewErp, work
  <2> QED
    BY <2>1 DEF LockInv, OneTells, Untold, Telling, Exists
<1> QED
  BY <1>3, <1>4, <1>5, <1>6, <1>7, <1>8, <1>9, <1>10, <1>11, <1>12
  DEF DevicesNext, Serve

(* What was sent last of a device's lock is what its row says, once it is  *)
(* told, crossings, failures and missing or changed addresses aside.       *)
THEOREM LockToldCorrect == DevicesSpec => []LockIsTold
<1>1. TypeInv /\ LockInv /\ TypeInv' /\ [DevicesNext]_devicesVars => LockInv'
  BY LockNext
<1>2. DevicesSpec => []LockInv
  BY <1>1, LockInit, TypeAlways, PTL DEF DevicesSpec
<1> QED
  BY <1>2, LockEnough, PTL
=============================================================================
