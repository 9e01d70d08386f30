---------------------------- MODULE CalloutQueue ----------------------------
(***************************************************************************)
(* The callout queue of hald (src/hald/callout.c) together with its        *)
(* SIGCHLD reaper.                                                         *)
(*                                                                         *)
(* hal_callout_device/_capability/_property scan a directory and append   *)
(* one Callout per matching script to the global FIFO pending_callouts;    *)
(* process_next_callout spawns the head when no callout is active.  The   *)
(* SIGCHLD handler writes one byte into a pipe; iochn_data reads one byte  *)
(* and loops on waitpid(-1, WNOHANG), finishing the active callout when   *)
(* its pid is reaped.                                                      *)
(*                                                                         *)
(* The main-loop handlers are atomic with respect to each other.  The      *)
(* operating system (a child terminating, the SIGCHLD handler running) is  *)
(* asynchronous, so each iteration of the waitpid loop is its own step.   *)
(* Scripts, environments and devices are abstracted: a callout is its      *)
(* triggering event, its script and its last_of_device flag.               *)
(***************************************************************************)
EXTENDS Naturals, Sequences, FiniteSets, SequencesExt

CONSTANTS
  Scripts,        \* names of executable *.hal scripts (model values)
  Listings,       \* possible matching-script enumerations of a directory
  DirMissing,     \* a callout directory that does not exist or cannot be opened
  Pids,           \* process ids the kernel may hand out to hald's children
  OtherChildren,  \* pids of children of hald that are not callouts (hald-runner)
  None,           \* active_callout == NULL
  MaxEvents,      \* bound on the number of triggering events
  SpawnCanFail    \* whether g_spawn_async may fail

ASSUME /\ Listings \subseteq Seq(Scripts)
       /\ \A l \in Listings : \A i, j \in 1..Len(l) : i # j => l[i] # l[j]
       /\ OtherChildren \subseteq Pids
       /\ MaxEvents \in Nat \ {0}
       /\ SpawnCanFail \in BOOLEAN

Kinds == {"device", "capability", "property"}
Events == 1..MaxEvents

\* A Callout: the event that created it, its script and last_of_device.
Callouts == [ev : Events, script : Scripts, last : BOOLEAN]

VARIABLES
  queue,       \* pending_callouts
  active,      \* active_callout: None or [c |-> callout, pid |-> pid]
  proc,        \* kernel state of each pid as a child of hald
  sigPending,  \* a SIGCHLD has been raised and not yet handled
  pipeBytes,   \* unread bytes in unix_signal_pipe_fds
  installed,   \* have_installed_sigchild_handler
  reaping,     \* iochn_data is inside its waitpid loop
  crashed,     \* hald dereferenced a NULL active_callout
  evKind,      \* history: the kind of each triggering event so far
  enqueued,    \* history: every callout appended, in order
  attempted,   \* history: every callout popped for spawning, in order
  ended,       \* history: callouts whose spawn failed or whose pid was reaped
  failed,      \* history: callouts whose spawn failed
  finished     \* history: hal_device_callouts_finished calls per event

vars == <<queue, active, proc, sigPending, pipeBytes, installed, reaping,
          crashed, evKind, enqueued, attempted, ended, failed, finished>>

nEvents == Len(evKind)

FreePids(pr) == {p \in Pids \ OtherChildren : pr[p] = "free"}

-----------------------------------------------------------------------------
(* Mutant: last_of_device set on the first matching script.             *)
NewCalloutsLastFirst(e, listing) ==
  [i \in 1..Len(listing) |-> [ev |-> e, script |-> listing[i], last |-> i = 1]]

(* Mutant: last_of_device never set.                                       *)
NewCalloutsNoLast(e, listing) ==
  [i \in 1..Len(listing) |-> [ev |-> e, script |-> listing[i], last |-> FALSE]]

(* The Callouts one directory scan creates: one per matching script, in    *)
(* enumeration order, the last one flagged last_of_device.                 *)
NewCallouts(e, listing) ==
  [i \in 1..Len(listing) |->
     [ev |-> e, script |-> listing[i], last |-> i = Len(listing)]]

(* Mutant: process_next_callout without the active_callout != NULL check. *)
ProcessNextCalloutNoActiveCheck(act, q, pr, done) ==
  /\ installed' = TRUE /\ ended' = done /\ failed' = failed
  /\ IF q = <<>>
       THEN /\ active' = act /\ queue' = q /\ proc' = pr /\ UNCHANGED attempted
       ELSE /\ \E p \in FreePids(pr) :
                 /\ active' = [c |-> Head(q), pid |-> p]
                 /\ proc' = [pr EXCEPT ![p] = "running"]
            /\ queue' = Tail(q)
            /\ attempted' = Append(attempted, Head(q))

(* process_next_callout, called with active_callout = act, the queue q,   *)
(* the process table pr and the ended set done.  It installs the SIGCHLD  *)
(* handler on first use, returns at once if a callout is active, and      *)
(* otherwise pops callouts until one spawns or the queue is empty: the    *)
(* first k pops fail to spawn and are discarded.                          *)
ProcessNextCallout(act, q, pr, done) ==
  /\ installed' = TRUE
  /\ IF act # None
       THEN /\ active' = act /\ queue' = q /\ proc' = pr /\ ended' = done
            /\ UNCHANGED <<attempted, failed>>
       ELSE \E k \in (IF SpawnCanFail THEN 0..Len(q) ELSE {0}) :
              /\ ended' = done \cup {q[i] : i \in 1..k}
              /\ failed' = failed \cup {q[i] : i \in 1..k}
              /\ \/ /\ k = Len(q)
                    /\ active' = None /\ proc' = pr /\ queue' = <<>>
                    /\ attempted' = attempted \o q
                 \/ /\ k < Len(q)
                    /\ \E p \in FreePids(pr) :
                         /\ active' = [c |-> q[k+1], pid |-> p]
                         /\ proc' = [pr EXCEPT ![p] = "running"]
                    /\ queue' = SubSeq(q, k + 2, Len(q))
                    /\ attempted' = attempted \o SubSeq(q, 1, k + 1)

MainLoopIdle == ~reaping /\ ~crashed

(* Mutant: add_pending_callout prepends instead of appending.             *)
EnqueueAndProcessPrepend(k, listing) ==
  LET cs == NewCallouts(nEvents + 1, listing)
  IN /\ evKind' = Append(evKind, k)
     /\ enqueued' = enqueued \o cs
     /\ ProcessNextCallout(active, cs \o queue, proc, ended)

(* Mutant: the scan appends callouts but does not restart the queue.      *)
EnqueueAndProcessNoKick(k, listing) ==
  LET cs == NewCallouts(nEvents + 1, listing)
  IN /\ evKind' = Append(evKind, k)
     /\ enqueued' = enqueued \o cs
     /\ queue' = queue \o cs
     /\ UNCHANGED <<active, proc, installed, attempted, ended, failed>>

(* The common part of the three scans: a new event e of kind k appends    *)
(* the callouts of listing and calls process_next_callout.                *)
EnqueueAndProcess(k, listing) ==
  LET cs == NewCallouts(nEvents + 1, listing)
  IN /\ evKind' = Append(evKind, k)
     /\ enqueued' = enqueued \o cs
     /\ ProcessNextCallout(active, queue \o cs, proc, ended)

-----------------------------------------------------------------------------
(* hal_callout_device: a missing directory or no matching script means    *)
(* no callout is queued and callouts_finished is emitted at once.         *)
HalCalloutDevice(listing) ==
  /\ MainLoopIdle /\ nEvents < MaxEvents
  /\ \/ /\ listing \notin {DirMissing, <<>>}
        /\ EnqueueAndProcess("device", listing)
        /\ UNCHANGED finished
     \/ /\ listing \in {DirMissing, <<>>}
        /\ evKind' = Append(evKind, "device")
        /\ finished' = [finished EXCEPT ![nEvents + 1] = @ + 1]
        /\ UNCHANGED <<queue, active, proc, installed, enqueued, attempted, ended, failed>>
  /\ UNCHANGED <<sigPending, pipeBytes, reaping, crashed>>

(* hal_callout_capability and hal_callout_property: a missing directory   *)
(* returns quietly; otherwise process_next_callout runs even when no      *)
(* script matched, and nothing is emitted for zero matches.               *)
ScanOther(k, listing) ==
  /\ MainLoopIdle /\ nEvents < MaxEvents
  /\ \/ /\ listing = DirMissing
        /\ evKind' = Append(evKind, k)
        /\ UNCHANGED <<queue, active, proc, installed, enqueued, attempted, ended, failed>>
     \/ /\ listing # DirMissing
        /\ EnqueueAndProcess(k, listing)
  /\ UNCHANGED <<sigPending, pipeBytes, reaping, crashed, finished>>

HalCalloutCapability(listing) == ScanOther("capability", listing)
HalCalloutProperty(listing) == ScanOther("property", listing)

-----------------------------------------------------------------------------
(* Mutant: the pipe is read without waiting for it to be readable.        *)
IochnDataUnguarded ==
  /\ MainLoopIdle
  /\ pipeBytes' = pipeBytes - 1
  /\ reaping' = TRUE
  /\ UNCHANGED <<queue, active, proc, sigPending, installed, crashed, evKind,
                 enqueued, attempted, ended, failed, finished>>

(* iochn_data: the pipe is readable; read one byte and enter the loop.    *)
IochnData ==
  /\ MainLoopIdle /\ pipeBytes > 0
  /\ pipeBytes' = pipeBytes - 1
  /\ reaping' = TRUE
  /\ UNCHANGED <<queue, active, proc, sigPending, installed, crashed, evKind,
                 enqueued, attempted, ended, failed, finished>>

(* One iteration of the waitpid loop that reaps pid p.  With no active     *)
(* callout the pid comparison dereferences NULL; a pid other than the     *)
(* active one ends the loop; the active pid finishes the callout, emits   *)
(* callouts_finished if it is last_of_device, and starts the next one.    *)
ReapChild(p) ==
  /\ reaping /\ ~crashed /\ proc[p] = "zombie"
  /\ LET reaped == [proc EXCEPT ![p] = "free"] IN
     \/ /\ active = None
        /\ crashed' = TRUE /\ proc' = reaped
        /\ UNCHANGED <<queue, active, installed, reaping, attempted, ended, failed, finished>>
     \/ /\ active # None /\ active.pid # p
        /\ reaping' = FALSE /\ proc' = reaped
        /\ UNCHANGED <<queue, active, installed, crashed, attempted, ended, failed, finished>>
     \/ /\ active # None /\ active.pid = p
        /\ finished' = IF active.c.last
                         THEN [finished EXCEPT ![active.c.ev] = @ + 1]
                         ELSE finished
        /\ ProcessNextCallout(None, queue, reaped, ended \cup {active.c})
        /\ UNCHANGED <<reaping, crashed>>
  /\ UNCHANGED <<sigPending, pipeBytes, evKind, enqueued>>

(* waitpid returns 0 (no zombie) or -1 (no child): leave the loop.        *)
ReapNone ==
  /\ reaping /\ ~crashed
  /\ \A p \in Pids : proc[p] # "zombie"
  /\ reaping' = FALSE
  /\ UNCHANGED <<queue, active, proc, sigPending, pipeBytes, installed, crashed,
                 evKind, enqueued, attempted, ended, failed, finished>>

-----------------------------------------------------------------------------
(* The environment: a child of hald terminates and becomes a zombie,      *)
(* raising SIGCHLD.  Children other than callouts are only considered     *)
(* once hald's own handler is installed; before that GLib's child watch    *)
(* owns them.                                                              *)
ChildExit(p) ==
  /\ ~crashed /\ proc[p] = "running"
  /\ p \in OtherChildren => installed
  /\ proc' = [proc EXCEPT ![p] = "zombie"]
  /\ sigPending' = TRUE
  /\ UNCHANGED <<queue, active, pipeBytes, installed, reaping, crashed, evKind,
                 enqueued, attempted, ended, failed, finished>>

(* handle_sigchld: pending SIGCHLDs are not queued, so one run of the     *)
(* handler answers all of them with one byte.                             *)
HandleSigchld ==
  /\ ~crashed /\ sigPending
  /\ sigPending' = FALSE
  /\ pipeBytes' = IF installed THEN pipeBytes + 1 ELSE pipeBytes
  /\ UNCHANGED <<queue, active, proc, installed, reaping, crashed, evKind,
                 enqueued, attempted, ended, failed, finished>>

(* No event is left to trigger within the bound: the main loop waits.     *)
Terminating ==
  /\ ~crashed /\ nEvents = MaxEvents
  /\ UNCHANGED vars

-----------------------------------------------------------------------------
Init ==
  /\ queue = <<>>
  /\ active = None
  /\ proc = [p \in Pids |-> IF p \in OtherChildren THEN "running" ELSE "free"]
  /\ sigPending = FALSE
  /\ pipeBytes = 0
  /\ installed = FALSE
  /\ reaping = FALSE
  /\ crashed = FALSE
  /\ evKind = <<>>
  /\ enqueued = <<>>
  /\ attempted = <<>>
  /\ ended = {}
  /\ failed = {}
  /\ finished = [e \in Events |-> 0]

Next ==
  \/ \E l \in Listings \cup {DirMissing} :
        HalCalloutDevice(l) \/ HalCalloutCapability(l) \/ HalCalloutProperty(l)
  \/ IochnData
  \/ \E p \in Pids : ReapChild(p)
  \/ ReapNone
  \/ \E p \in Pids : ChildExit(p)
  \/ HandleSigchld
  \/ Terminating

(* The active callout's script terminates: an assumption on the helper    *)
(* scripts, since the queue has no timeout.                               *)
CalloutExits == active # None /\ ChildExit(active.pid)

(* The main loop keeps dispatching ready sources and the kernel delivers  *)
(* signals; callout scripts terminate.                                     *)
Fairness ==
  /\ WF_vars(IochnData)
  /\ \A p \in Pids : WF_vars(ReapChild(p))
  /\ WF_vars(ReapNone)
  /\ WF_vars(HandleSigchld)
  /\ WF_vars(CalloutExits)

Spec == Init /\ [][Next]_vars /\ Fairness

-----------------------------------------------------------------------------
TypeOK ==
  /\ queue \in Seq(Callouts)
  /\ active \in {None} \cup [c : Callouts, pid : Pids]
  /\ proc \in [Pids -> {"free", "running", "zombie"}]
  /\ sigPending \in BOOLEAN /\ installed \in BOOLEAN
  /\ reaping \in BOOLEAN /\ crashed \in BOOLEAN
  /\ pipeBytes \in Nat
  /\ evKind \in Seq(Kinds) /\ nEvents <= MaxEvents
  /\ enqueued \in Seq(Callouts) /\ attempted \in Seq(Callouts)
  /\ ended \subseteq Callouts /\ failed \subseteq ended
  /\ finished \in [Events -> Nat]

(* At most one callout runs at a time: a child of hald that is a callout   *)
(* (running or not yet reaped) is always the one in active_callout, so    *)
(* process_next_callout never spawns while an earlier callout's process   *)
(* has not been reaped.                                                    *)
SingleFlight ==
  \A p \in Pids \ OtherChildren :
     proc[p] # "free" => active # None /\ active.pid = p

(* Callouts are started in the order they were appended: across events   *)
(* FIFO and within an event in directory-enumeration order, spawn          *)
(* failures included.                                                      *)
FifoStart == IsPrefix(attempted, enqueued)

(* hal_device_callouts_finished is emitted at most once per event, and    *)
(* only once every callout of that event has been reaped or has failed    *)
(* to spawn.                                                               *)
CompletionSafe ==
  \A e \in 1..nEvents :
     /\ finished[e] <= 1
     /\ finished[e] = 1 =>
          \A i \in DOMAIN enqueued : enqueued[i].ev = e => enqueued[i] \in ended

(* iochn_data never compares a reaped pid against a NULL active_callout.  *)
NoNullActiveDeref == ~crashed

(* Spawn failures do not stall the queue: every appended callout is       *)
(* eventually popped and handed to g_spawn_async.                          *)
EveryCalloutAttempted ==
  \A n \in 1..(MaxEvents * Cardinality(Scripts)) :
     (Len(enqueued) >= n) ~> (Len(attempted) >= n)

(* Every device event eventually gets its callouts_finished unless the    *)
(* spawn of its last callout failed: failures of earlier callouts, and    *)
(* of other events' callouts, never cost an event its completion.          *)
DeviceEventCompletesUnlessLastFailed ==
  \A e \in Events :
     (e <= nEvents /\ evKind[e] = "device")
       ~> (finished[e] > 0 \/ \E c \in failed : c.ev = e /\ c.last)

-----------------------------------------------------------------------------
(* The queue seen as the executor of CalloutExecutor: the callouts         *)
(* appended so far, the pending queue, the callout of active_callout and   *)
(* the callouts reaped or dropped on a spawn failure.                      *)
Executor == INSTANCE CalloutExecutor
              WITH submitted <- enqueued,
                   pending <- queue,
                   running <- IF active = None THEN None ELSE active.c,
                   done <- ended

(* The queue, the SIGCHLD handler, the self-pipe and the waitpid loop      *)
(* together implement the executor: every step of them is a submission,   *)
(* a completion or invisible, and a running callout's end is always        *)
(* noticed, however SIGCHLDs coalesce and pids are reused.                  *)
ImplementsExecutor == Executor!Spec

=============================================================================
