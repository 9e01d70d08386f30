----------------------------- MODULE DbusDevice -----------------------------
(***************************************************************************)
(* The Device interface of hald's D-Bus object (src/hald/hald_dbus.c):     *)
(* the advisory lock (device_lock, device_unlock, the table                *)
(* services_with_locks and service_deleted), the privileged property       *)
(* writes (device_set_property, device_remove_property,                    *)
(* device_add_capability) and device_query_capability, together with the  *)
(* part of filter_function that handles the bus itself: Disconnected,      *)
(* which drops the connection and arms reinit_dbus, and ServiceDeleted.    *)
(*                                                                         *)
(* Each method call is one step of the single-threaded main loop.  A      *)
(* device is a GObject with a reference count: the device store holds one *)
(* reference while the device is in it, services_with_locks one per       *)
(* entry.  Only the lock keys and info.capabilities of the property store  *)
(* are kept; a property value is a boolean or a string, and a string is    *)
(* either a client's unique bus name or the lock reason.  The capability   *)
(* list is the space-separated string itself, a sequence of characters, *)
(* cut by snprintf to the MaxCapSize - 1 characters its buffer holds.     *)
(***************************************************************************)
EXTENDS Naturals, Sequences, FiniteSets

CONSTANTS
  Devices,      \* udis of the devices in the store at start (model values)
  Services,     \* unique bus names of the clients (model values)
  Privileged,   \* clients running as uid 0 or as hald's euid
  Caps,         \* capability names: non-empty strings without a space
  MaxCapSize,   \* MAX_CAP_SIZE, the size of device_add_capability's buffer
  Reason,       \* the reason string a client passes to Lock
  Absent,       \* no such property
  NULL,         \* a NULL pointer
  NoEntry,      \* no entry for a service in services_with_locks
  MaxOutages,   \* bound on the losses of hald's bus connection
  MaxWrites     \* bound on the privileged property writes

ASSUME /\ Privileged \subseteq Services
       /\ \A c \in Caps : c # <<>> /\ \A i \in DOMAIN c : c[i] # " "
       /\ MaxCapSize \in Nat \ {0}
       /\ MaxOutages \in Nat /\ MaxWrites \in Nat

LockKeys == {"info.locked", "info.locked.reason", "info.locked.dbus_service"}
Strings == Services \cup {Reason}
Values == BOOLEAN \cup Strings
\* The characters of the capability lists.
Chars == {" "} \cup UNION {{c[i] : i \in DOMAIN c} : c \in Caps}
\* A message of the bus to hald: ServiceDeleted for a client, or the local
\* Disconnected signal.
Signals == [kind : {"ServiceDeleted"}, svc : Services]
             \cup [kind : {"Disconnected"}]

VARIABLES
  present,     \* devices in the global or temporary device list
  refs,        \* GObject reference count of each device
  props,       \* props[d][k]: the value of lock key k of d, or Absent
  caps,        \* info.capabilities of each device, or Absent
  created,     \* services_with_locks has been created (is not NULL)
  table,       \* services_with_locks: service -> device or NoEntry
  alive,       \* clients still connected to the bus
  inbox,       \* messages of the bus queued for hald's filter_function
  link,        \* "up": hald is on the bus; "lost" after the bus dropped it
  timer,       \* reinit_dbus is armed
  outages,     \* history: losses of the bus connection
  added,       \* NewCapability signals sent for each device
  writes,      \* history: privileged property writes
  crash        \* "none", or the undefined behaviour that ended hald

vars == <<present, refs, props, caps, created, table, alive, inbox, link,
          timer, outages, added, writes, crash>>

-----------------------------------------------------------------------------
(* The property store.  A getter of the wrong type answers FALSE or NULL, *)
(* a setter fails on a property of another type.                          *)
GetBool(d, k) == props[d][k] \in BOOLEAN /\ props[d][k]
GetString(d, k) == IF props[d][k] \in Strings THEN props[d][k] ELSE NULL
SetOk(d, k, v) ==
  props[d][k] = Absent \/ (props[d][k] \in BOOLEAN) = (v \in BOOLEAN)
\* The lock keys of d after setting k to v, a failed set changing nothing.
Set(p, d, k, v) == IF SetOk(d, k, v) THEN [p EXCEPT ![d][k] = v] ELSE p
\* Mutant: the removal of info.locked is left out.
RemoveLockKeysKeepLocked(p, d) ==
  [p EXCEPT ![d] = [k \in LockKeys |-> IF k = "info.locked" THEN p[d][k] ELSE Absent]]
\* The lock keys of d after hal_device_property_remove of all three.
RemoveLockKeys(p, d) == [p EXCEPT ![d] = [k \in LockKeys |-> Absent]]

\* strstr(l, c) # NULL: c occurs in the string l.
Strstr(l, c) == \E i \in 0..(Len(l) - Len(c)) : SubSeq(l, i + 1, i + Len(c)) = c

(* device_query_capability: g_strsplit on spaces and strcmp with every    *)
(* token, i.e. c occurs in the list between two spaces or string ends.    *)
QueryCapability(d, c) ==
  LET l == caps[d] IN
  /\ l # Absent
  /\ \E i \in 0..(Len(l) - Len(c)) :
        /\ SubSeq(l, i + 1, i + Len(c)) = c
        /\ i = 0 \/ l[i] = " "
        /\ i + Len(c) = Len(l) \/ l[i + Len(c) + 1] = " "

\* snprintf (buf, MAX_CAP_SIZE, "%s %s", l, c): the joined string, cut to
\* the MaxCapSize - 1 characters before the terminating NUL.
JoinCaps(l, c) ==
  LET full == l \o <<" ">> \o c
  IN  SubSeq(full, 1, IF Len(full) < MaxCapSize THEN Len(full) ELSE MaxCapSize - 1)

\* Dereferencing device d, which is a use after free once it is finalized.
Deref(d) == IF refs[d] = 0 THEN "uaf" ELSE "none"

\* A client can reach hald: both are on the bus.
Calling(s) == crash = "none" /\ s \in alive /\ link = "up"

\* A privileged client writes a property of a device in the store.
Writing(s, d) ==
  /\ Calling(s) /\ s \in Privileged /\ d \in present
  /\ writes < MaxWrites /\ writes' = writes + 1

-----------------------------------------------------------------------------
(* The lock keys of d once device_lock has set them with owner name o.   *)
LockProps(d, o) ==
  Set(Set(Set(props, d, "info.locked", TRUE), d, "info.locked.reason", Reason),
      d, "info.locked.dbus_service", o)

(* g_hash_table_insert(services_with_locks, s, x) where x is d with r      *)
(* references taken: the value it replaces loses the table's reference.    *)
InsertEntry(s, d, r) ==
  /\ created' = TRUE
  /\ table' = [table EXCEPT ![s] = d]
  /\ refs' = [x \in Devices |-> refs[x] + (IF x = d THEN r ELSE 0)
                                       - (IF x = table[s] THEN 1 ELSE 0)]

(* Mutant: the lock is entered into services_with_locks without taking a  *)
(* reference on the device.                                                *)
DeviceLockNoRef(s, d) ==
  /\ Calling(s) /\ d \in present
  /\ ~GetBool(d, "info.locked")
  /\ props' = LockProps(d, s)
  /\ InsertEntry(s, d, 0)
  /\ crash' = Deref(d)
  /\ UNCHANGED <<present, caps, alive, inbox, link, timer, outages, added, writes>>

(* Mutant: info.locked.dbus_service is set to the device's udi instead of *)
(* the sender.                                                             *)
DeviceLockUdiOwner(s, d) ==
  /\ Calling(s) /\ d \in present
  /\ ~GetBool(d, "info.locked")
  /\ props' = LockProps(d, d)
  /\ InsertEntry(s, d, 1)
  /\ crash' = Deref(d)
  /\ UNCHANGED <<present, caps, alive, inbox, link, timer, outages, added, writes>>

(* device_lock: refused when info.locked is TRUE; otherwise the three     *)
(* lock keys are set (each set failing on a property of the other type)    *)
(* and g_hash_table_insert(services_with_locks, sender, ref(d)) replaces  *)
(* any earlier entry of the sender, unreffing its device.                  *)
DeviceLock(s, d) ==
  /\ Calling(s) /\ d \in present
  /\ ~GetBool(d, "info.locked")
  /\ props' = LockProps(d, s)
  /\ InsertEntry(s, d, 1)
  /\ crash' = Deref(d)
  /\ UNCHANGED <<present, caps, alive, inbox, link, timer, outages, added, writes>>

(* device_unlock by the client whose name is info.locked.dbus_service:    *)
(* the sender's entry of services_with_locks is removed, whichever device *)
(* it names, then the three lock keys.  A locked device without a string  *)
(* dbus_service makes strcmp read NULL.  Not locked, or locked by another *)
(* client, the call is refused and nothing changes.                        *)
DeviceUnlock(s, d) ==
  /\ Calling(s) /\ d \in present
  /\ GetBool(d, "info.locked")
  /\ GetString(d, "info.locked.dbus_service") \in {s, NULL}
  /\ IF GetString(d, "info.locked.dbus_service") = NULL
       THEN /\ crash' = "strcmp_null"
            /\ UNCHANGED <<props, table, refs>>
       ELSE /\ props' = RemoveLockKeys(props, d)
            /\ table' = [table EXCEPT ![s] = NoEntry]
            /\ refs' = IF created /\ table[s] # NoEntry
                         THEN [refs EXCEPT ![table[s]] = @ - 1] ELSE refs
            /\ crash' = Deref(d)
  /\ UNCHANGED <<present, caps, created, alive, inbox, link, timer, outages, added, writes>>

(* device_set_property by a privileged client on a lock key: the set     *)
(* either succeeds or fails with a type error.                            *)
DeviceSetProperty(s, d, k, v) ==
  /\ Writing(s, d)
  /\ props' = Set(props, d, k, v)
  /\ crash' = Deref(d)
  /\ UNCHANGED <<present, refs, caps, created, table, alive, inbox, link,
                 timer, outages, added>>

(* device_remove_property by a privileged client; NoSuchProperty when the *)
(* key is absent.                                                          *)
DeviceRemoveProperty(s, d, k) ==
  /\ Writing(s, d)
  /\ \/ /\ k \in LockKeys /\ props[d][k] # Absent
        /\ props' = [props EXCEPT ![d][k] = Absent]
        /\ UNCHANGED <<caps, added>>
     \/ /\ k = "info.capabilities" /\ caps[d] # Absent
        /\ caps' = [caps EXCEPT ![d] = Absent]
        /\ added' = [added EXCEPT ![d] = {}]
        /\ UNCHANGED props
  /\ crash' = Deref(d)
  /\ UNCHANGED <<present, refs, created, table, alive, inbox, link, timer, outages>>

(* manager_send_signal_new_capability: the NewCapability signal for c is  *)
(* broadcast on the Manager object; added records the capabilities        *)
(* announced since info.capabilities was last removed.                     *)
SendNewCapability(d, c) == added' = [added EXCEPT ![d] = @ \cup {c}]

(* device_add_capability by a privileged client: info.capabilities is    *)
(* set to the name when unset, and the name is appended after a space     *)
(* unless strstr finds it in the list.                                     *)
DeviceAddCapability(s, d, c) ==
  /\ Writing(s, d)
  /\ caps' = [caps EXCEPT ![d] = IF @ = Absent THEN c
                                 ELSE IF Strstr(@, c) THEN @ ELSE JoinCaps(@, c)]
  /\ SendNewCapability(d, c)
  /\ crash' = Deref(d)
  /\ UNCHANGED <<present, refs, props, created, table, alive, inbox, link,
                 timer, outages>>

(* service_deleted, run by filter_function for a ServiceDeleted signal    *)
(* once services_with_locks exists: the device of the service's entry, if *)
(* any, loses its lock keys and the entry is removed.                     *)
ServiceDeleted(s) ==
  /\ created /\ table[s] # NoEntry
  /\ props' = RemoveLockKeys(props, table[s])
  /\ table' = [table EXCEPT ![s] = NoEntry]
  /\ refs' = [refs EXCEPT ![table[s]] = @ - 1]
  /\ crash' = Deref(table[s])

(* filter_function on the head of hald's incoming queue: Disconnected     *)
(* unrefs the connection and arms reinit_dbus in 3 s; ServiceDeleted is   *)
(* passed to service_deleted when services_with_locks exists.              *)
FilterFunction ==
  /\ crash = "none" /\ inbox # <<>>
  /\ inbox' = Tail(inbox)
  /\ \/ /\ Head(inbox).kind = "Disconnected"
        /\ timer' = TRUE
        /\ UNCHANGED <<props, table, refs, crash>>
     \/ /\ Head(inbox).kind = "ServiceDeleted"
        /\ IF created /\ table[Head(inbox).svc] # NoEntry
             THEN ServiceDeleted(Head(inbox).svc)
             ELSE UNCHANGED <<props, table, refs, crash>>
        /\ UNCHANGED timer
  /\ UNCHANGED <<present, caps, created, alive, link, outages, added, writes>>

(* reinit_dbus once the bus is back: hald_dbus_init gets a new connection, *)
(* acquires its name and adds the ServiceDeleted match; the timeout source *)
(* is removed.  services_with_locks is kept as it was.                     *)
ReinitDbus ==
  /\ crash = "none" /\ timer /\ link = "lost"
  /\ link' = "up" /\ timer' = FALSE
  /\ UNCHANGED <<present, refs, props, caps, created, table, alive, inbox,
                 outages, added, writes, crash>>

-----------------------------------------------------------------------------
(* The environment.  A client leaves the bus; the bus daemon sends         *)
(* ServiceDeleted to hald only while hald is connected.                    *)
ClientExit(s) ==
  /\ crash = "none" /\ s \in alive
  /\ alive' = alive \ {s}
  /\ inbox' = IF link = "up"
                THEN Append(inbox, [kind |-> "ServiceDeleted", svc |-> s])
                ELSE inbox
  /\ UNCHANGED <<present, refs, props, caps, created, table, link, timer,
                 outages, added, writes, crash>>

(* The bus drops hald's connection: libdbus queues the local Disconnected *)
(* after what was already received.                                        *)
BusLost ==
  /\ crash = "none" /\ link = "up" /\ outages < MaxOutages
  /\ link' = "lost" /\ outages' = outages + 1
  /\ inbox' = Append(inbox, [kind |-> "Disconnected"])
  /\ UNCHANGED <<present, refs, props, caps, created, table, alive, timer,
                 added, writes, crash>>

(* A device leaves the store on unplug; the store drops its reference.     *)
DeviceGone(d) ==
  /\ crash = "none" /\ d \in present
  /\ present' = present \ {d}
  /\ refs' = [refs EXCEPT ![d] = @ - 1]
  /\ UNCHANGED <<props, caps, created, table, alive, inbox, link, timer,
                 outages, added, writes, crash>>

-----------------------------------------------------------------------------
Init ==
  /\ present = Devices
  /\ refs = [d \in Devices |-> 1]
  /\ props = [d \in Devices |-> [k \in LockKeys |-> Absent]]
  /\ caps \in [Devices -> {Absent} \cup Caps]
  /\ created = FALSE
  /\ table = [s \in Services |-> NoEntry]
  /\ alive = Services
  /\ inbox = <<>>
  /\ link = "up"
  /\ timer = FALSE
  /\ outages = 0
  /\ added = [d \in Devices |-> {}]
  /\ writes = 0
  /\ crash = "none"

Next ==
  \/ \E s \in Services, d \in Devices :
        \/ DeviceLock(s, d)
        \/ DeviceUnlock(s, d)
        \/ \E k \in LockKeys, v \in Values : DeviceSetProperty(s, d, k, v)
        \/ \E k \in LockKeys \cup {"info.capabilities"} :
              DeviceRemoveProperty(s, d, k)
        \/ \E c \in Caps : DeviceAddCapability(s, d, c)
  \/ FilterFunction
  \/ ReinitDbus
  \/ \E s \in Services : ClientExit(s)
  \/ BusLost
  \/ \E d \in Devices : DeviceGone(d)

(* The main loop dispatches the connection's queued messages, and the     *)
(* reinit_dbus timeout fires every 3 s until the bus accepts hald again.  *)
Fairness ==
  /\ WF_vars(FilterFunction)
  /\ WF_vars(ReinitDbus)

Spec == Init /\ [][Next]_vars /\ Fairness

-----------------------------------------------------------------------------
TypeOK ==
  /\ present \subseteq Devices
  /\ refs \in [Devices -> Nat]
  /\ props \in [Devices -> [LockKeys -> Values \cup {Absent}]]
  /\ caps \in [Devices -> {Absent} \cup Seq(Chars)]
  /\ created \in BOOLEAN
  /\ table \in [Services -> Devices \cup {NoEntry}]
  /\ alive \subseteq Services
  /\ inbox \in Seq(Signals)
  /\ link \in {"up", "lost"} /\ timer \in BOOLEAN
  /\ outages \in 0..MaxOutages
  /\ added \in [Devices -> SUBSET Caps]
  /\ writes \in 0..MaxWrites
  /\ crash \in {"none", "uaf", "strcmp_null"}

\* Client s holds the advisory lock of device d.
LockedBy(d, s) ==
  /\ d \in present
  /\ GetBool(d, "info.locked")
  /\ GetString(d, "info.locked.dbus_service") = s

(* No method call and no ServiceDeleted touches a finalized device: the   *)
(* reference services_with_locks takes in device_lock keeps a locked      *)
(* device alive after it leaves the store, and the reference dropped when *)
(* an entry is replaced or removed is always one the table took.          *)
NoUseAfterFinalize == crash # "uaf"

(* device_unlock passes info.locked.dbus_service to strcmp without a NULL *)
(* check (hald_dbus.c:1508).  Lock, Unlock and ServiceDeleted always set  *)
(* or remove the three lock keys together, so only a privileged client's *)
(* SetProperty or RemoveProperty on a lock key can leave a locked device  *)
(* without a string owner: no sequence of unprivileged calls, exits and   *)
(* bus outages crashes hald there.                                         *)
UnlockCrashNeedsPrivilegedWrite ==
  crash = "strcmp_null" => writes > 0

(* A lock whose holder has left the bus is eventually released: the      *)
(* ServiceDeleted handler is hald's only way to undo the lock of a client  *)
(* that exited without Unlock.                                             *)
LockReleasedAfterOwnerExit ==
  \A s \in Services, d \in Devices :
     (s \notin alive /\ LockedBy(d, s)) ~> (~LockedBy(d, s) \/ crash # "none")

=============================================================================
