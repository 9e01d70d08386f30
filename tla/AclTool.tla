------------------------------ MODULE AclTool ------------------------------
(***************************************************************************)
(* hal-acl-tool (tools/hal-acl-tool.c): the helper hald runs, through      *)
(* hald-runner, on device add (--add-device), device remove                *)
(* (--remove-device), ConsoleKit session changes (--reconfigure) and its  *)
(* own start (--remove-all).  Each invocation takes a flock on            *)
(* /var/lib/hal/acl-list, reads the ACLs recorded there, works out what to *)
(* grant and revoke, runs setfacl and writes the new list with            *)
(* g_file_set_contents, which writes a new file and renames it over the   *)
(* old one.  Several invocations may run at once: hald-runner starts each  *)
(* Run as soon as it is asked.                                             *)
(*                                                                         *)
(* An ACL entry <<d, u>> is one line "device type id" of the list; users  *)
(* and groups are both principals here.  The seats and sessions that       *)
(* hald exports in CK_* variables are one state per user.  The file is    *)
(* its current contents and an inode number that each rename advances;     *)
(* a flock belongs to the inode it was taken on.                           *)
(***************************************************************************)
EXTENDS Naturals, FiniteSets

CONSTANTS
  Procs,        \* hal-acl-tool processes that may be alive at once
  Devices,      \* device files under access control (access_control.file)
  Users,        \* uids and gids that may be granted access
  Policy,       \* [Devices -> {"local", "active", "none"}]: the grant_local_session
                \* and grant_local_active_session properties
  Names,        \* the names and numbers grant_user and grant_group may list
  IdOf,         \* [Names -> Users \cup {NoId}]: what strtol, getpwnam_r or
                \* getgrnam_r make of each
  NoId,         \* (uid_t) -1: a name the password or group file lacks
  GrantList,    \* [Devices -> SUBSET Names]: grant_user and grant_group
  NoProc,       \* no flock holder
  MaxRuns,      \* bound on invocations of the tool
  MaxHotplug,   \* bound on device removals and additions
  SetfaclFails, \* whether setfacl may fail on existing files or not run
  MaxKills      \* bound on invocations killed (hald-runner's timeout or Kill)

ASSUME /\ Policy \in [Devices -> {"local", "active", "none"}]
       /\ NoId \notin Users
       /\ IdOf \in [Names -> Users \cup {NoId}]
       /\ GrantList \in [Devices -> SUBSET Names]
       /\ NoProc \notin Procs
       /\ MaxRuns \in Nat /\ MaxHotplug \in Nat
       /\ SetfaclFails \in BOOLEAN /\ MaxKills \in Nat

Entry == Devices \X Users
Ops == {"add", "remove", "reconfigure", "removeall"}
SessionStates == {"none", "local", "active"}   \* no local session, inactive, active
Inodes == 0..MaxRuns

VARIABLES
  present,    \* device files that exist (and devices hald holds)
  sessions,   \* each user's session on a local seat, as ConsoleKit reports it
  disk,       \* ACL entries set on existing device files
  list,       \* contents of /var/lib/hal/acl-list
  ino,        \* the inode the path /var/lib/hal/acl-list names
  owner,      \* the process holding the flock of each inode
  pc,         \* each process's place in main
  fd,         \* the inode each process opened in acl_lock
  job,        \* each process's command line and environment
  plan,       \* the changes acl_compute_changes worked out
  runs,       \* invocations so far
  hotplug,    \* device removals and additions so far
  kills,      \* invocations killed so far
  faults      \* history: "revoke_failed" (a setfacl -x failed on an
              \* existing file), "killed" (between setfacl and the write),
              \* "stale_lock" (changes computed under the flock of an inode
              \* the path no longer names), "readded" (--remove-device run
              \* for a device whose node exists again)

vars == <<present, sessions, disk, list, ino, owner, pc, fd, job, plan, runs, hotplug,
          kills, faults>>

NoJob == [op |-> "removeall", devs |-> {}, env |-> [u \in Users |-> "none"]]
NoPlan == [rem |-> {}, add |-> {}, new |-> {}, onlyList |-> FALSE]

-----------------------------------------------------------------------------
(* visit_seats_and_sessions: the sessions the CK_* variables name, as     *)
(* pairs of the session's uid and whether it is active; sessions on a seat  *)
(* that is not local are not granted anything and are left out.            *)
Sessions(env) == {<<u, env[u] = "active">> : u \in {v \in Users : env[v] # "none"}}

(* util_name_to_uid, util_name_to_gid: an entry that strtol cannot read   *)
(* whole is looked up by name, giving -1 when there is no such user or      *)
(* group.                                                                  *)
NameToId(n) == IdOf[n]

(* afd_grant_to_uid_from_userlist, afd_grant_to_gid_from_grouplist: the    *)
(* ids of the entries of grant_user and grant_group, an unknown name       *)
(* skipped with a warning.                                                 *)
Extra(d) == {NameToId(n) : n \in GrantList[d]} \ {NoId}

(* acl_device_added_visitor: a session on a local seat is granted the      *)
(* device if the device grants every local session, or only active ones   *)
(* and the session is active; grant_user and grant_group add their ids     *)
(* (afd_grant_to_uid_from_userlist, afd_grant_to_gid_from_grouplist).      *)
Wanted(d, env) ==
  Extra(d) \cup {s[1] : s \in {s \in Sessions(env) :
                                 \/ Policy[d] = "local"
                                 \/ Policy[d] = "active" /\ s[2]}}

(* The ACLs an invocation wants for the devices devs, under the sessions   *)
(* in its environment.  --remove-device sets no policy: nobody.            *)
WantedEntries(j, devs) ==
  IF j.op = "remove" THEN {}
  ELSE {e \in Entry : e[1] \in devs /\ e[2] \in Wanted(e[1], j.env)}

(* acl_remove_all: every entry of the list l is tagged remove and the     *)
(* changes are applied to the files as well as the list.                  *)
RemoveAllChanges(l) == [rem |-> l, add |-> {}, new |-> {}, onlyList |-> FALSE]

(* acl_compute_changes over the current list l for the devices devs: an   *)
(* entry of one of them that is not wanted is tagged remove, a wanted one  *)
(* not in l is added.  The new list is l without the tagged entries, with  *)
(* the added ones; --remove-device only updates the list.                  *)
ComputeChanges(j, devs, l) ==
  IF j.op = "removeall" THEN RemoveAllChanges(l)
  ELSE LET rem == {e \in l : e[1] \in devs} \ WantedEntries(j, devs)
           add == WantedEntries(j, devs) \ l
       IN [rem |-> rem, add |-> add, new |-> (l \ rem) \cup add,
           onlyList |-> j.op = "remove"]

(* A process is started for a command; its environment is the sessions   *)
(* hald exports when it asks hald-runner to run it (a conjunct that        *)
(* follows the sessions' assignment of the action it is part of).          *)
Spawn(op, devs) ==
  /\ runs < MaxRuns
  /\ \E p \in Procs :
       /\ pc[p] = "idle"
       /\ pc' = [pc EXCEPT ![p] = "open"]
       /\ job' = [job EXCEPT ![p] = [op |-> op, devs |-> devs, env |-> sessions']]
  /\ runs' = runs + 1

-----------------------------------------------------------------------------
(* acl_lock: open("/var/lib/hal/acl-list", O_CREAT | O_RDWR) gives the     *)
(* file the path names now.                                                *)
AclLockOpen(p) ==
  /\ pc[p] = "open"
  /\ fd' = [fd EXCEPT ![p] = ino]
  /\ pc' = [pc EXCEPT ![p] = "flock"]
  /\ UNCHANGED <<present, sessions, disk, list, ino, owner, job, plan, runs, hotplug,
                 kills, faults>>

(* acl_lock: flock(fd, LOCK_EX) blocks until no one holds that inode's    *)
(* lock.                                                                   *)
AclLockFlock(p) ==
  /\ pc[p] = "flock"
  /\ owner[fd[p]] = NoProc
  /\ owner' = [owner EXCEPT ![fd[p]] = p]
  /\ pc' = [pc EXCEPT ![p] = "compute"]
  /\ UNCHANGED <<present, sessions, disk, list, ino, fd, job, plan, runs, hotplug,
                 kills, faults>>

(* The command's body up to acl_apply_changes: get_current_acl_list reads *)
(* the file the path names now, and the changes are worked out.           *)
(* --reconfigure asks hald for the devices with access_control now and    *)
(* does nothing if there are none.                                         *)
AclCompute(p) ==
  /\ pc[p] = "compute"
  /\ LET j == job[p]
         devs == IF j.op = "reconfigure" THEN present ELSE j.devs
     IN IF j.op = "reconfigure" /\ devs = {}
          THEN /\ pc' = [pc EXCEPT ![p] = "unlock"]
               /\ UNCHANGED plan
          ELSE /\ plan' = [plan EXCEPT ![p] = ComputeChanges(j, devs, list)]
               /\ pc' = [pc EXCEPT ![p] = "apply"]
  /\ faults' = faults \cup {f \in {"stale_lock", "readded"} :
                               \/ f = "stale_lock" /\ fd[p] # ino
                               \/ f = "readded" /\ job[p].op = "remove"
                                                /\ job[p].devs \cap present # {}}
  /\ UNCHANGED <<present, sessions, disk, list, ino, owner, fd, job, runs, hotplug, kills>>

AclSetfacl(p) ==
  /\ pc[p] = "apply"
  /\ LET c == plan[p]
         ops == IF c.onlyList THEN {} ELSE c.rem \cup c.add
     IN \/ /\ ops = {} \/ ~SetfaclFails
           /\ disk' = IF c.onlyList THEN disk
                      ELSE (disk \ c.rem) \cup {e \in c.add : e[1] \in present}
           /\ pc' = [pc EXCEPT ![p] = "write"]
           /\ UNCHANGED faults
        \/ /\ ops # {} /\ SetfaclFails
           /\ pc' = [pc EXCEPT ![p] = "unlock"]
           /\ UNCHANGED <<disk, faults>>
        \/ /\ ops # {} /\ SetfaclFails
           /\ \E failed \in SUBSET {e \in ops : e[1] \in present} \ {{}} :
                /\ disk' = (disk \ (c.rem \ failed)) \cup {e \in c.add \ failed : e[1] \in present}
                /\ faults' = IF failed \cap c.rem # {} THEN faults \cup {"revoke_failed"}
                             ELSE faults
           /\ pc' = [pc EXCEPT ![p] = "write"]
  /\ UNCHANGED <<present, sessions, list, ino, owner, fd, job, plan, runs, hotplug, kills>>

(* acl_apply_changes, "success": g_file_set_contents writes the list      *)
(* computed from what was read to a new file renamed over                  *)
(* /var/lib/hal/acl-list.                                                  *)
AclWriteList(p) ==
  /\ pc[p] = "write"
  /\ list' = plan[p].new
  /\ ino' = ino + 1
  /\ pc' = [pc EXCEPT ![p] = "unlock"]
  /\ UNCHANGED <<present, sessions, disk, owner, fd, job, plan, runs, hotplug,
                 kills, faults>>

(* acl_unlock: the flock is released and the file closed.                *)
AclUnlock(p) ==
  /\ pc[p] = "unlock"
  /\ owner' = [owner EXCEPT ![fd[p]] = NoProc]
  /\ pc' = [pc EXCEPT ![p] = "idle"]
  /\ UNCHANGED <<present, sessions, disk, list, ino, fd, job, plan, runs, hotplug,
                 kills, faults>>

-----------------------------------------------------------------------------
(* The environment.  udev removes a device file, with its ACLs, and hald   *)
(* runs --remove-device for it.                                            *)
DeviceRemoved(d) ==
  /\ d \in present /\ hotplug < MaxHotplug
  /\ present' = present \ {d}
  /\ disk' = {e \in disk : e[1] # d}
  /\ hotplug' = hotplug + 1
  /\ UNCHANGED <<sessions, list, ino, owner, fd, plan, kills, faults>>
  /\ Spawn("remove", {d})

(* A device file is created, without ACLs, and hald runs --add-device.    *)
DeviceAdded(d) ==
  /\ d \notin present /\ hotplug < MaxHotplug
  /\ present' = present \cup {d}
  /\ hotplug' = hotplug + 1
  /\ UNCHANGED <<sessions, disk, list, ino, owner, fd, plan, kills, faults>>
  /\ Spawn("add", {d})

(* A session starts, ends or changes activity; hald runs --reconfigure.   *)
SessionChanged(u, s) ==
  /\ sessions[u] # s
  /\ sessions' = [sessions EXCEPT ![u] = s]
  /\ UNCHANGED <<present, disk, list, ino, owner, fd, plan, hotplug, kills, faults>>
  /\ Spawn("reconfigure", {})

(* hald-runner kills the process (its Run timed out, or hald asked Kill   *)
(* for the device): the kernel closes its file and so drops its flock.    *)
Killed(p) ==
  /\ pc[p] # "idle" /\ kills < MaxKills
  /\ pc' = [pc EXCEPT ![p] = "idle"]
  /\ owner' = IF owner[fd[p]] = p THEN [owner EXCEPT ![fd[p]] = NoProc] ELSE owner
  /\ kills' = kills + 1
  /\ faults' = IF pc[p] = "write" THEN faults \cup {"killed"} ELSE faults
  /\ UNCHANGED <<present, sessions, disk, list, ino, fd, job, plan, runs, hotplug>>

(* hald starts again and runs --remove-all.                               *)
HaldStart ==
  /\ UNCHANGED <<present, sessions, disk, list, ino, owner, fd, plan, hotplug, kills, faults>>
  /\ Spawn("removeall", {})

Init ==
  /\ present = Devices
  /\ sessions = [u \in Users |-> "none"]
  /\ disk = {}
  /\ list = {}
  /\ ino = 0
  /\ owner = [i \in Inodes |-> NoProc]
  /\ pc = [p \in Procs |-> "idle"]
  /\ fd = [p \in Procs |-> 0]
  /\ job = [p \in Procs |-> NoJob]
  /\ plan = [p \in Procs |-> NoPlan]
  /\ runs = 0
  /\ hotplug = 0
  /\ kills = 0
  /\ faults = {}

Next ==
  \/ \E p \in Procs :
        AclLockOpen(p) \/ AclLockFlock(p) \/ AclCompute(p) \/ AclSetfacl(p)
          \/ AclWriteList(p) \/ AclUnlock(p) \/ Killed(p)
  \/ \E d \in Devices : DeviceRemoved(d) \/ DeviceAdded(d)
  \/ \E u \in Users, s \in SessionStates : SessionChanged(u, s)
  \/ HaldStart

Spec == Init /\ [][Next]_vars

-----------------------------------------------------------------------------
TypeOK ==
  /\ present \subseteq Devices
  /\ sessions \in [Users -> SessionStates]
  /\ disk \subseteq Entry /\ list \subseteq Entry
  /\ ino \in Inodes /\ owner \in [Inodes -> Procs \cup {NoProc}]
  /\ pc \in [Procs -> {"idle", "open", "flock", "compute", "apply", "write", "unlock"}]
  /\ faults \subseteq {"revoke_failed", "killed", "stale_lock", "readded"}
  /\ fd \in [Procs -> Inodes]

(* hal keeps a record of every ACL it has set on a device file, so that a  *)
(* later --reconfigure or --remove-all can revoke it, except in four       *)
(* ways: a setfacl -x that fails on an existing file while the list is    *)
(* written without the entry (hal-acl-tool.c:210), a tool killed between  *)
(* setfacl and g_file_set_contents (hal-acl-tool.c:221), changes computed *)
(* under the flock of an inode that a rename has already replaced         *)
(* (hal-acl-tool.c:987), and a --remove-device that runs after the device *)
(* was added again and drops the new node's entries from the list         *)
(* (hal-acl-tool.c:861).  Between its setfacl and its write an   *)
(* invocation's grants are on the files and not yet in the list.         *)
Writing == {q \in Procs : pc[q] = "write"}
=============================================================================
