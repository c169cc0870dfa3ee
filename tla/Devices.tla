------------------------------- MODULE Devices -------------------------------
(***************************************************************************)
(* PosDeviceService: registering, changing and removing devices, and the   *)
(* heartbeats that the devices send, all run by concurrent requests.  Each *)
(* action is what a handler does from one await to the next; a request     *)
(* that a guard refuses (400, 404, 409) changes nothing, so its arrival    *)
(* and its first read are one action.                                      *)
(*                                                                         *)
(* A device has two locks: the flag isLocked, which stops heartbeats, and  *)
(* the status LOCKED, which does not and which a heartbeat replaces.       *)
(* lastSeenAt is left out: nothing reads it but listings.                  *)
(***************************************************************************)
EXTENDS Naturals

CONSTANTS
    Device,    \* identities (uuid) of rows of pos_devices
    Code,      \* device codes
    Job,       \* requests that can be in progress at the same time
    MaxJobs,   \* how many requests may arrive: a bound for the checker
    NoDevice, NoCode

ASSUME DeviceAssumption == NoDevice \notin Device
ASSUME CodeAssumption == NoCode \notin Code

VARIABLES
    deviceCode,  \* pos_devices.device_code, NoCode while there is no row
    connection,  \* pos_devices.status
    isLocked,    \* pos_devices.is_locked
    deleted,     \* identities whose row was deleted: none is used again
    todo,        \* what each request does next
    job,         \* what its handler holds
    jobs,        \* how many requests have arrived
    shownOnline, \* devices that a dashboard shows as ONLINE
    toldLocked,  \* devices of which device.locked was the last webhook sent
                 \* to the ERP that their tenant has now
    late,        \* history: heartbeats let in before their device was locked
    misled,      \* history: those that had read ONLINE before a patch to other
    silent,      \* history: devices that became ONLINE without a word
    mistold      \* history: devices whose last lock or unlock was not sent, or
                 \* perhaps not sent last, or sent to another ERP

devices == <<deviceCode, connection, isLocked, deleted>>
work == <<todo, job>>
news == <<shownOnline, toldLocked>>
history == <<late, misled, silent, mistold>>
devicesVars == <<devices, work, jobs, news, history>>

-----------------------------------------------------------------------------
DeviceStatus == {"ONLINE", "OFFLINE", "LOCKED"}

Todo == {"idle", "insert", "audit", "patch", "patchAudit", "target", "beat",
         "publish", "delete", "deleteAudit"}

(* dto.isLocked and dto.status of an update, either of which may be left   *)
(* out; wasOffline of a heartbeat; the code of a registration.             *)
Held == [device : Device \cup {NoDevice}, code : Code \cup {NoCode},
         lock : {"yes", "no", "keep"}, status : DeviceStatus \cup {"keep"},
         wasOffline : BOOLEAN]

Nothing == [device |-> NoDevice, code |-> NoCode, lock |-> "keep",
            status |-> "keep", wasOffline |-> FALSE]

DevicesInit ==
    /\ deviceCode = [d \in Device |-> NoCode]
    /\ connection = [d \in Device |-> "OFFLINE"]
    /\ isLocked = [d \in Device |-> FALSE]
    /\ deleted = {}
    /\ todo = [j \in Job |-> "idle"]
    /\ job = [j \in Job |-> Nothing]
    /\ jobs = 0
    /\ shownOnline = {}
    /\ toldLocked = {}
    /\ late = {}
    /\ misled = {}
    /\ silent = {}
    /\ mistold = {}

-----------------------------------------------------------------------------
Exists(d) == deviceCode[d] # NoCode

(* A request arrives, and its handler holds h. *)
Begin(j, next, h) ==
    /\ todo[j] = "idle"
    /\ jobs < MaxJobs
    /\ jobs' = jobs + 1
    /\ todo' = [todo EXCEPT ![j] = next]
    /\ job' = [job EXCEPT ![j] = h]
    /\ UNCHANGED <<devices, news, history>>

Go(j, next) == todo' = [todo EXCEPT ![j] = next] /\ UNCHANGED job

Done(j) ==
    /\ todo' = [todo EXCEPT ![j] = "idle"]
    /\ job' = [job EXCEPT ![j] = Nothing]

(* A heartbeat that will publish that d is online, and an update that will *)
(* send whether d is locked.                                               *)
Publishing(j, d) ==
    todo[j] = "publish" /\ job[j].wasOffline /\ job[j].device = d

Telling(j, d) ==
    todo[j] \in {"patchAudit", "target"} /\ job[j].lock # "keep"
                                         /\ job[j].device = d

-----------------------------------------------------------------------------
(* create; findByDeviceCode, then the insert under the UNIQUE constraint. *)
Register(j, c) ==
    /\ \A d \in Device : deviceCode[d] # c
    /\ Begin(j, "insert", [Nothing EXCEPT !.code = c])

RegisterInsert(j, d) ==
    /\ todo[j] = "insert"
    /\ ~Exists(d) /\ d \notin deleted
    /\ \A e \in Device : deviceCode[e] # job[j].code
    /\ deviceCode' = [deviceCode EXCEPT ![d] = job[j].code]
    /\ connection' = [connection EXCEPT ![d] = "OFFLINE"]
    /\ isLocked' = [isLocked EXCEPT ![d] = FALSE]
    /\ todo' = [todo EXCEPT ![j] = "audit"]
    /\ job' = [job EXCEPT ![j].device = d]
    /\ UNCHANGED <<deleted, jobs, news, history>>

(* The audit row, then device.registered. *)
RegisterAudit(j) ==
    /\ todo[j] = "audit"
    /\ Done(j)
    /\ UNCHANGED <<devices, jobs, news, history>>

-----------------------------------------------------------------------------
(* update *)

PatchFind(j, d, lock, status) ==
    /\ Exists(d)
    /\ Begin(j, "patch", [Nothing EXCEPT !.device = d, !.lock = lock,
                                         !.status = status])

PatchedStatus(j) == IF job[j].status = "keep" THEN connection[job[j].device]
                    ELSE job[j].status

PatchedLock(j) == IF job[j].lock = "keep" THEN isLocked[job[j].device]
                  ELSE job[j].lock = "yes"

BeatsOf(d) == {i \in Job : todo[i] = "beat" /\ job[i].device = d}

(* A patch publishes no status, and takes that of the row from heartbeats  *)
(* that have read it; one that locks is too late for those let in.  Two    *)
(* that set the lock may be told in either order, and what was told before *)
(* one that crosses no other does not matter.                              *)
PatchHistory(j, d) ==
    /\ late' = IF job[j].lock = "yes" THEN late \cup BeatsOf(d) ELSE late
    /\ misled' = IF PatchedStatus(j) = "ONLINE" THEN misled
                 ELSE misled \cup {i \in BeatsOf(d) : ~job[i].wasOffline}
    /\ silent' = IF job[j].status = "ONLINE" /\ connection[d] # "ONLINE"
                 THEN silent \cup {d} ELSE silent
    /\ mistold' = IF job[j].lock = "keep" THEN mistold
                  ELSE IF \E i \in Job \ {j} : Telling(i, d)
                  THEN mistold \cup {d} ELSE mistold \ {d}

PatchWrite(j) ==
    LET d == job[j].device
    IN /\ todo[j] = "patch"
       /\ IF ~Exists(d)
          THEN Done(j) /\ UNCHANGED <<connection, isLocked, history>>
          ELSE /\ connection' = [connection EXCEPT ![d] = PatchedStatus(j)]
               /\ isLocked' = [isLocked EXCEPT ![d] = PatchedLock(j)]
               /\ PatchHistory(j, d)
               /\ Go(j, "patchAudit")
       /\ UNCHANGED <<deviceCode, deleted, jobs, news>>

(* Mutant: if (dto.isLocked), which is not so of an unlock either. *)
PatchAuditTruthy(j) ==
    /\ todo[j] = "patchAudit"
    /\ IF job[j].lock # "yes" THEN Done(j) ELSE Go(j, "target")
    /\ UNCHANGED <<devices, jobs, news, history>>

PatchAudit(j) ==
    /\ todo[j] = "patchAudit"
    /\ IF job[j].lock = "keep" THEN Done(j) ELSE Go(j, "target")
    /\ UNCHANGED <<devices, jobs, news, history>>

(* The tenant's webhook is read, and device.locked or device.unlocked sent *)
(* if it is set and the tenant has not been removed.                       *)
PatchTell(j, hooked) ==
    LET d == job[j].device
    IN /\ todo[j] = "target"
       /\ toldLocked' = IF ~hooked THEN toldLocked
                        ELSE IF job[j].lock = "yes" THEN toldLocked \cup {d}
                        ELSE toldLocked \ {d}
       /\ mistold' = IF hooked THEN mistold ELSE mistold \cup {d}
       /\ Done(j)
       /\ UNCHANGED <<devices, jobs, shownOnline, late, misled, silent>>

-----------------------------------------------------------------------------
(* heartbeat *)

(* Mutant: the guard looks at the other lock. *)
MayBeatUnlessStatusLocked(d) == Exists(d) /\ connection[d] # "LOCKED"

MayBeat(d) == Exists(d) /\ ~isLocked[d]

(* Mutant: only OFFLINE is offline. *)
WasOfflineStrictly(d) == connection[d] = "OFFLINE"

WasOffline(d) == connection[d] # "ONLINE"

BeatFind(j, d) ==
    /\ MayBeat(d)
    /\ Begin(j, "beat", [Nothing EXCEPT !.device = d,
                                        !.wasOffline = WasOffline(d)])

BeatWrite(j) ==
    LET d == job[j].device
    IN /\ todo[j] = "beat"
       /\ IF ~Exists(d) THEN Done(j) /\ UNCHANGED connection
          ELSE /\ connection' = [connection EXCEPT ![d] = "ONLINE"]
               /\ Go(j, "publish")
       /\ late' = late \ {j}
       /\ misled' = misled \ {j}
       /\ silent' = IF j \in misled THEN silent \cup {d} ELSE silent
       /\ UNCHANGED <<deviceCode, isLocked, deleted, jobs, news, mistold>>

(* The row is read back, and then the change is published if the first     *)
(* read showed one.                                                        *)
BeatPublish(j) ==
    LET d == job[j].device
    IN /\ todo[j] = "publish"
       /\ IF Exists(d) /\ job[j].wasOffline
          THEN shownOnline' = shownOnline \cup {d} /\ silent' = silent \ {d}
          ELSE UNCHANGED <<shownOnline, silent>>
       /\ Done(j)
       /\ UNCHANGED <<devices, jobs, toldLocked, late, misled, mistold>>

(* The dashboard loads the list.  Between two loads it only hears events,  *)
(* of which device.offline is never published.                             *)
Reload ==
    /\ shownOnline' = {d \in Device : Exists(d) /\ connection[d] = "ONLINE"}
    /\ silent' = {}
    /\ UNCHANGED <<devices, work, jobs, toldLocked, late, misled, mistold>>

-----------------------------------------------------------------------------
(* remove, a hard delete *)

RemoveFind(j, d) ==
    Exists(d) /\ Begin(j, "delete", [Nothing EXCEPT !.device = d])

RemoveDelete(j) ==
    /\ todo[j] = "delete"
    /\ deviceCode' = [deviceCode EXCEPT ![job[j].device] = NoCode]
    /\ deleted' = deleted \cup {job[j].device}
    /\ Go(j, "deleteAudit")
    /\ UNCHANGED <<connection, isLocked, jobs, news, history>>

RemoveAudit(j) ==
    /\ todo[j] = "deleteAudit"
    /\ Done(j)
    /\ UNCHANGED <<devices, jobs, news, history>>

(* TenantService.update gives the tenant of d another ERP, which is told   *)
(* nothing of the devices until their next lock or unlock.                 *)
NewErp(d) ==
    /\ Exists(d)
    /\ toldLocked' = toldLocked \ {d}
    /\ mistold' = mistold \cup {d}
    /\ UNCHANGED <<devices, work, jobs, shownOnline, late, misled, silent>>

(* An await throws or the replica dies, and what the handler had yet to    *)
(* say is never said.                                                      *)
Break(j) ==
    /\ todo[j] # "idle"
    /\ late' = late \ {j}
    /\ misled' = misled \ {j}
    /\ silent' = silent \cup {d \in Device : Publishing(j, d)}
    /\ mistold' = mistold \cup {d \in Device : Telling(j, d)}
    /\ Done(j)
    /\ UNCHANGED <<devices, jobs, news>>

Serve(j) ==
    \/ \E c \in Code : Register(j, c)
    \/ \E d \in Device : \/ RegisterInsert(j, d)
                         \/ BeatFind(j, d) \/ RemoveFind(j, d)
    \/ \E d \in Device, lock \in {"yes", "no", "keep"},
          status \in DeviceStatus \cup {"keep"} : PatchFind(j, d, lock, status)
    \/ \E hooked \in BOOLEAN : PatchTell(j, hooked)
    \/ RegisterAudit(j) \/ PatchWrite(j) \/ PatchAudit(j)
    \/ BeatWrite(j) \/ BeatPublish(j)
    \/ RemoveDelete(j) \/ RemoveAudit(j)
    \/ Break(j)

DevicesNext ==
    \/ Reload
    \/ \E d \in Device : NewErp(d)
    \/ \E j \in Job : Serve(j)

DevicesSpec == DevicesInit /\ [][DevicesNext]_devicesVars

-----------------------------------------------------------------------------
(* The type invariant. *)
DevicesTypeOK ==
    /\ deviceCode \in [Device -> Code \cup {NoCode}]
    /\ connection \in [Device -> DeviceStatus]
    /\ isLocked \in [Device -> BOOLEAN]
    /\ deleted \subseteq Device
    /\ todo \in [Job -> Todo]
    /\ job \in [Job -> Held]
    /\ jobs \in Nat
    /\ shownOnline \subseteq Device
    /\ toldLocked \subseteq Device
    /\ late \subseteq Job
    /\ misled \subseteq Job
    /\ silent \subseteq Device
    /\ mistold \subseteq Device

(* A locked device goes silent: the only heartbeats that still write its   *)
(* row are those that had passed the guard before the lock was written, so *)
(* there is an end to them however often the device tries again.           *)
SilencedOnceLocked ==
    \A j \in Job :
        /\ todo[j] = "beat"
        /\ Exists(job[j].device)
        /\ isLocked[job[j].device]
        => j \in late

(* Only a heartbeat that finds its device not ONLINE publishes that it is. *)
(* Nevertheless, of heartbeats that overlap each other and updates one     *)
(* does, each time anew: a dashboard that has loaded the list, whenever    *)
(* that was, shows a device that is ONLINE as such, or is about to hear of *)
(* it.  Unless the heartbeat that was to publish failed, or the status was *)
(* set to ONLINE by hand, or by a heartbeat that had read ONLINE when a    *)
(* patch took it away; and that only until the next event or load.         *)
OnlineIsShown ==
    \A d \in Device :
        Exists(d) /\ connection[d] = "ONLINE" =>
            \/ d \in shownOnline \cup silent
            \/ \E j \in Job : Publishing(j, d)

(* What the tenant's ERP was sent last of a device, device.locked or       *)
(* device.unlocked, is what the row says, once all updates that set the    *)
(* lock have told it.  Unless the last two crossed between their writes    *)
(* and the webhooks, or the last one failed there or found no address, or  *)
(* the tenant has another ERP since; and the next one that crosses no      *)
(* other and is sent puts it right.  (How webhooks arrive, or do not, is   *)
(* in Tenants.)                                                            *)
LockIsTold ==
    \A d \in Device :
        /\ Exists(d)
        /\ d \notin mistold
        /\ ~ \E j \in Job : Telling(j, d)
        => (d \in toldLocked <=> isLocked[d])
=============================================================================
