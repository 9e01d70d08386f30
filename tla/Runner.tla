------------------------------- MODULE Runner -------------------------------
(***************************************************************************)
(* The runner client of hald (src/hald/hald_runner.c): the private D-Bus   *)
(* server hald-runner connects to, the list running_processes of helpers   *)
(* started with Start and the callbacks that StartedProcessExited fires,   *)
(* the asynchronous Run whose reply comes back through a DBusPendingCall,  *)
(* the blocking RunSync, Kill and KillAll, and the device references the   *)
(* client takes and drops.                                                 *)
(*                                                                         *)
(* hald-runner itself is not in this repository: its side (starting a     *)
(* process, its exit, the reply to a Run) is the environment, as are the   *)
(* callers' callbacks.  A device is a GObject: refs counts its references, *)
(* one held by the device store while inStore, one per pending Run; when   *)
(* the last goes its finalizer calls runner_device_finalized.              *)
(* The blocking calls use dbus_connection_send_with_reply_and_block, which *)
(* returns the one reply and leaves every other incoming message queued,   *)
(* so they are one step each and do not drain inbox.                       *)
(***************************************************************************)
EXTENDS Naturals, Sequences, FiniteSets, SequencesExt

CONSTANTS
  Devices,   \* device objects (model values)
  Pids,      \* process ids hald-runner may hand out (model values)
  MaxReqs    \* bound on the number of Start, Run and RunSync calls

ASSUME MaxReqs \in Nat \ {0}

Reqs == 1..MaxReqs
Kinds == {"start", "run", "sync"}
\* The ways undefined behaviour ends hald.
Crashes == {"none", "double_free", "null_cb", "use_after_free"}

\* A RunningProcess of running_processes (cb is non-NULL: Start only
\* registers a process when it is given a callback).
Records == [pid : Pids, dev : Devices, req : Reqs]
\* A message queued on runner_connection for hald's main loop.
Msgs == [type : {"exited"}, pid : Pids] \cup [type : {"reply"}, req : Reqs]

VARIABLES
  server,             \* runner_server # NULL
  conn,               \* runner_connection: "none" (NULL), "live", "dead"
  inStore,            \* the device store holds the device
  refs,               \* reference count of each device
  finalized,          \* the device has been finalized
  running_processes,  \* sequence of Records, head first
  procs,              \* hald-runner: processes started with Start, alive
  runs,               \* hald-runner: Run requests not yet answered
  pending,            \* HelperData of Run calls awaiting their reply
  inbox,              \* messages on runner_connection not yet dispatched
  reqs,               \* history: the calls made, [kind, dev, cb]
  exited,             \* history: Start requests whose process has exited
  fired,              \* history: callbacks invoked, per request
  delivered,          \* history: [req, dead, early] for each callback
  crash               \* how hald crashed, or "none"

vars == <<server, conn, inStore, refs, finalized, running_processes, procs,
          runs, pending, inbox, reqs, exited, fired, delivered, crash>>

-----------------------------------------------------------------------------
\* running_processes_remove_device: every record of device d is freed.
RemoveDevice(rp, d) == SelectSeq(rp, LAMBDA x : x.dev # d)

\* Mutant: the count is decremented whatever its value.
UnrefUnchecked(d) ==
  /\ refs' = [refs EXCEPT ![d] = @ - 1]
  /\ IF refs[d] = 1
       THEN /\ finalized' = [finalized EXCEPT ![d] = TRUE]
            /\ running_processes' = RemoveDevice(running_processes, d)
       ELSE UNCHANGED <<finalized, running_processes>>
  /\ UNCHANGED crash

\* Mutant: the finalizer does not call runner_device_finalized.
UnrefNoFinalizeHook(d) ==
  IF refs[d] = 0
    THEN crash' = "use_after_free" /\ UNCHANGED <<refs, finalized, running_processes>>
    ELSE /\ refs' = [refs EXCEPT ![d] = @ - 1]
         /\ IF refs[d] = 1
              THEN finalized' = [finalized EXCEPT ![d] = TRUE]
              ELSE UNCHANGED finalized
         /\ UNCHANGED <<running_processes, crash>>

\* g_object_unref of device d: the last reference finalizes it, and the
\* finalizer calls runner_device_finalized; unreferencing a finalized
\* device is a use after free.
Unref(d) ==
  IF refs[d] = 0
    THEN crash' = "use_after_free" /\ UNCHANGED <<refs, finalized, running_processes>>
    ELSE /\ refs' = [refs EXCEPT ![d] = @ - 1]
         /\ IF refs[d] = 1
              THEN /\ finalized' = [finalized EXCEPT ![d] = TRUE]
                   /\ running_processes' = RemoveDevice(running_processes, d)
              ELSE UNCHANGED <<finalized, running_processes>>
         /\ UNCHANGED crash

\* Invoking the callback of request r for device d.
Fire(r, d, early) ==
  /\ fired' = [fired EXCEPT ![r] = @ + 1]
  /\ delivered' = delivered \cup {[req |-> r, dead |-> finalized[d], early |-> early]}

\* The error path of Run and RunSync calls cb without checking it.
FailCallback(r, d, cb) ==
  IF cb THEN Fire(r, d, FALSE) /\ UNCHANGED crash
        ELSE crash' = "null_cb" /\ UNCHANGED <<fired, delivered>>

(* add_first_part: the message gets the udi, the device's properties and   *)
(* hald's environment, then the argv g_shell_parse_argv makes of the       *)
(* command line; a command line it cannot parse (an unbalanced quote)      *)
(* fails the call before anything is sent.  The call reaches hald-runner   *)
(* only if it was built and the connection is live.                        *)
Sent(parsed) == parsed /\ conn = "live"

(* handle_connection: the new connection becomes runner_connection only   *)
(* while runner_connection is NULL; a later one is ignored.                *)
HandleConnection == conn' = IF conn = "none" THEN "live" ELSE conn

\* A call may be made for a device the store holds.
CanCall(d) ==
  /\ crash = "none" /\ server /\ inStore[d] /\ ~finalized[d]
  /\ Len(reqs) < MaxReqs

-----------------------------------------------------------------------------
(* hald_runner_start_runner: running_processes is emptied, the server is   *)
(* created and hald-runner spawned, then the main loop is iterated until   *)
(* runner_connection is non-NULL (HandleConnection).                       *)
StartRunner ==
  /\ crash = "none" /\ ~server
  /\ server' = TRUE
  /\ running_processes' = <<>>
  /\ HandleConnection
  /\ UNCHANGED <<inStore, refs, finalized, procs, runs, pending, inbox, reqs,
                 exited, fired, delivered, crash>>

(* hald_runner_stop_runner: the records are freed, Shutdown is sent and   *)
(* the server disconnected; runner_connection keeps its value.  The       *)
(* runner exits, its connection closes, and libdbus completes every Run   *)
(* still awaiting a reply with an error reply.                            *)
StopRunner ==
  /\ crash = "none" /\ server
  /\ server' = FALSE
  /\ running_processes' = <<>>
  /\ conn' = IF conn = "live" THEN "dead" ELSE conn
  /\ procs' = {} /\ runs' = {}
  /\ inbox' = inbox \o SetToSeq({[type |-> "reply", req |-> r] : r \in runs})
  /\ UNCHANGED <<inStore, refs, finalized, pending, reqs, exited, fired,
                 delivered, crash>>

(* hald_runner_start: a blocking Start; over a live connection hald-runner *)
(* starts the process with a pid no live process of its has, and when cb   *)
(* is non-NULL the record is prepended.  Over a dead connection the call  *)
(* gets no reply and returns FALSE.                                        *)
Start(d, cb) ==
  /\ CanCall(d)
  /\ LET r == Len(reqs) + 1 IN
       /\ reqs' = Append(reqs, [kind |-> "start", dev |-> d, cb |-> cb])
       /\ \E parsed \in BOOLEAN :
          \/ /\ Sent(parsed)
             /\ \E p \in Pids \ {x.pid : x \in procs} :
                  LET rec == [pid |-> p, dev |-> d, req |-> r] IN
                    /\ procs' = procs \cup {rec}
                    /\ running_processes' = IF cb THEN <<rec>> \o running_processes
                                                  ELSE running_processes
          \/ /\ ~Sent(parsed)
             /\ UNCHANGED <<procs, running_processes>>
  /\ UNCHANGED <<server, conn, inStore, refs, finalized, runs, pending, inbox,
                 exited, fired, delivered, crash>>

(* hald-runner: a process it started exits and StartedProcessExited with  *)
(* its pid is queued on the connection.                                    *)
ProcExit(x) ==
  /\ x \in procs /\ conn = "live"
  /\ procs' = procs \ {x}
  /\ exited' = exited \cup {x.req}
  /\ inbox' = Append(inbox, [type |-> "exited", pid |-> x.pid])
  /\ UNCHANGED <<server, conn, inStore, refs, finalized, running_processes,
                 runs, pending, reqs, fired, delivered, crash>>

(* Mutant: the handler unlinks the head of the list, not the record.     *)
DispatchExitedUnlinkHead ==
  /\ crash = "none" /\ inbox # <<>> /\ Head(inbox).type = "exited"
  /\ inbox' = Tail(inbox)
  /\ LET hits == {i \in DOMAIN running_processes :
                    running_processes[i].pid = Head(inbox).pid}
     IN \/ /\ hits = {}
           /\ UNCHANGED <<inStore, refs, finalized, running_processes, fired,
                          delivered, crash>>
        \/ /\ hits # {}
           /\ LET rec == running_processes[Min(hits)] IN
                /\ Fire(rec.req, rec.dev, rec.req \notin exited)
                /\ running_processes' = Tail(running_processes)
                /\ UNCHANGED <<inStore, refs, finalized, crash>>
  /\ UNCHANGED <<server, conn, procs, runs, pending, reqs, exited>>

(* runner_server_message_handler, StartedProcessExited: the first record  *)
(* with the pid has its callback called, then is freed and unlinked.  The *)
(* callback may remove its device from the store; if that drops the last  *)
(* reference the finalizer frees every record of the device, this one     *)
(* included, before the handler frees it again.                           *)
DispatchExited ==
  /\ crash = "none" /\ inbox # <<>> /\ Head(inbox).type = "exited"
  /\ inbox' = Tail(inbox)
  /\ LET hits == {i \in DOMAIN running_processes :
                    running_processes[i].pid = Head(inbox).pid}
     IN \/ /\ hits = {}
           /\ UNCHANGED <<inStore, refs, finalized, running_processes, fired,
                          delivered, crash>>
        \/ /\ hits # {}
           /\ LET i == Min(hits)
                  rec == running_processes[i]
                  d == rec.dev
              IN /\ Fire(rec.req, d, rec.req \notin exited)
                 /\ \/ /\ running_processes' = RemoveAt(running_processes, i)
                       /\ UNCHANGED <<inStore, refs, finalized, crash>>
                    \/ /\ inStore[d]
                       /\ inStore' = [inStore EXCEPT ![d] = FALSE]
                       /\ refs' = [refs EXCEPT ![d] = @ - 1]
                       /\ IF refs[d] = 1
                            THEN /\ finalized' = [finalized EXCEPT ![d] = TRUE]
                                 /\ running_processes' = RemoveDevice(running_processes, d)
                                 /\ crash' = "double_free"
                            ELSE /\ running_processes' = RemoveAt(running_processes, i)
                                 /\ UNCHANGED <<finalized, crash>>
  /\ UNCHANGED <<server, conn, procs, runs, pending, reqs, exited>>

(* hald_runner_kill_device and hald_runner_kill_all: the device's records *)
(* are freed, then Kill or KillAll is sent and its reply awaited.  What    *)
(* hald-runner kills exits later through ProcExit.                         *)
DropDevice(d) ==
  /\ crash = "none" /\ server /\ inStore[d] /\ ~finalized[d]
  /\ running_processes' = RemoveDevice(running_processes, d)
  /\ UNCHANGED <<server, conn, inStore, refs, finalized, procs, runs, pending,
                 inbox, reqs, exited, fired, delivered, crash>>

KillDevice(d) == DropDevice(d)
KillAll(d) == DropDevice(d)

(* Mutant: the error path returns without calling cb.                     *)
RunMethodNoFailCallback(d, cb) ==
  /\ CanCall(d)
  /\ LET r == Len(reqs) + 1 IN
       /\ reqs' = Append(reqs, [kind |-> "run", dev |-> d, cb |-> cb])
       /\ \E parsed \in BOOLEAN :
          \/ /\ Sent(parsed)
             /\ runs' = runs \cup {r}
             /\ pending' = pending \cup {[req |-> r, dev |-> d, cb |-> cb]}
             /\ refs' = [refs EXCEPT ![d] = @ + 1]
             /\ UNCHANGED <<fired, delivered, crash>>
          \/ /\ ~Sent(parsed)
             /\ UNCHANGED <<runs, pending, refs, fired, delivered, crash>>
  /\ UNCHANGED <<server, conn, inStore, finalized, running_processes, procs,
                 inbox, exited>>

(* Mutant: the HelperData does not take a reference on the device.       *)
RunMethodNoRef(d, cb) ==
  /\ CanCall(d)
  /\ LET r == Len(reqs) + 1 IN
       /\ reqs' = Append(reqs, [kind |-> "run", dev |-> d, cb |-> cb])
       /\ \E parsed \in BOOLEAN :
          \/ /\ Sent(parsed)
             /\ runs' = runs \cup {r}
             /\ pending' = pending \cup {[req |-> r, dev |-> d, cb |-> cb]}
             /\ UNCHANGED <<refs, fired, delivered, crash>>
          \/ /\ ~Sent(parsed)
             /\ FailCallback(r, d, cb)
             /\ UNCHANGED <<runs, pending, refs>>
  /\ UNCHANGED <<server, conn, inStore, finalized, running_processes, procs,
                 inbox, exited>>

(* hald_runner_run_method: Run is sent with a pending call.  Over a live   *)
(* connection the HelperData takes a reference on the device; over a dead *)
(* one libdbus returns no pending call and cb is called with FAILED.       *)
RunMethod(d, cb) ==
  /\ CanCall(d)
  /\ LET r == Len(reqs) + 1 IN
       /\ reqs' = Append(reqs, [kind |-> "run", dev |-> d, cb |-> cb])
       /\ \E parsed \in BOOLEAN :
          \/ /\ Sent(parsed)
             /\ runs' = runs \cup {r}
             /\ pending' = pending \cup {[req |-> r, dev |-> d, cb |-> cb]}
             /\ refs' = [refs EXCEPT ![d] = @ + 1]
             /\ UNCHANGED <<fired, delivered, crash>>
          \/ /\ ~Sent(parsed)
             /\ FailCallback(r, d, cb)
             /\ UNCHANGED <<runs, pending, refs>>
  /\ UNCHANGED <<server, conn, inStore, finalized, running_processes, procs,
                 inbox, exited>>

(* hald-runner answers Run request r (its process ended or timed out).    *)
RunnerReplies(r) ==
  /\ r \in runs /\ conn = "live"
  /\ runs' = runs \ {r}
  /\ inbox' = Append(inbox, [type |-> "reply", req |-> r])
  /\ UNCHANGED <<server, conn, inStore, refs, finalized, running_processes,
                 procs, pending, reqs, exited, fired, delivered, crash>>

(* Mutant: process_reply lacks its "goto out" and a well-formed reply     *)
(* falls through into the malformed branch, calling cb a second time.     *)
DispatchReplyFallThrough ==
  /\ crash = "none" /\ inbox # <<>> /\ Head(inbox).type = "reply"
  /\ inbox' = Tail(inbox)
  /\ \E hd \in pending :
       /\ hd.req = Head(inbox).req
       /\ pending' = pending \ {hd}
       /\ IF hd.cb
            THEN /\ fired' = [fired EXCEPT ![hd.req] = @ + 2]
                 /\ delivered' = delivered \cup {[req |-> hd.req, dead |-> finalized[hd.dev],
                                                  early |-> FALSE]}
            ELSE UNCHANGED <<fired, delivered>>
       /\ Unref(hd.dev)
  /\ UNCHANGED <<server, conn, inStore, procs, runs, reqs, exited>>

(* call_notify and process_reply: the pending call's HelperData gets the  *)
(* reply; cb is called when non-NULL (with FAILED for a malformed reply,  *)
(* which takes the same steps), then the device is unreferenced and the   *)
(* HelperData freed.                                                       *)
DispatchReply ==
  /\ crash = "none" /\ inbox # <<>> /\ Head(inbox).type = "reply"
  /\ inbox' = Tail(inbox)
  /\ \E hd \in pending :
       /\ hd.req = Head(inbox).req
       /\ pending' = pending \ {hd}
       /\ IF hd.cb THEN Fire(hd.req, hd.dev, FALSE) ELSE UNCHANGED <<fired, delivered>>
       /\ Unref(hd.dev)
  /\ UNCHANGED <<server, conn, inStore, procs, runs, reqs, exited>>

(* hald_runner_run_sync: Run is sent and its reply awaited.  The HelperData *)
(* stores the device without taking a reference, and process_reply drops  *)
(* one.  Over a dead connection cb is called with FAILED.                  *)
RunSync(d, cb) ==
  /\ CanCall(d)
  /\ LET r == Len(reqs) + 1 IN
       /\ reqs' = Append(reqs, [kind |-> "sync", dev |-> d, cb |-> cb])
       /\ \E parsed \in BOOLEAN :
          \/ /\ Sent(parsed)
             /\ IF cb THEN Fire(r, d, FALSE) ELSE UNCHANGED <<fired, delivered>>
             /\ Unref(d)
          \/ /\ ~Sent(parsed)
             /\ FailCallback(r, d, cb)
             /\ UNCHANGED <<refs, finalized, running_processes>>
  /\ UNCHANGED <<server, conn, inStore, procs, runs, pending, inbox, exited>>

(* The device store drops device d (its removal); the finalizer runs when *)
(* no Run holds a reference.                                               *)
DeviceRemoved(d) ==
  /\ crash = "none" /\ inStore[d] /\ ~finalized[d]
  /\ inStore' = [inStore EXCEPT ![d] = FALSE]
  /\ Unref(d)
  /\ UNCHANGED <<server, conn, procs, runs, pending, inbox, reqs, exited,
                 fired, delivered>>

(* Any further use of a device the store holds but that was finalized.    *)
UseFinalized(d) ==
  /\ crash = "none" /\ inStore[d] /\ finalized[d]
  /\ crash' = "use_after_free"
  /\ UNCHANGED <<server, conn, inStore, refs, finalized, running_processes,
                 procs, runs, pending, inbox, reqs, exited, fired, delivered>>

-----------------------------------------------------------------------------
Init ==
  /\ server = FALSE
  /\ conn = "none"
  /\ inStore = [d \in Devices |-> TRUE]
  /\ refs = [d \in Devices |-> 1]
  /\ finalized = [d \in Devices |-> FALSE]
  /\ running_processes = <<>>
  /\ procs = {} /\ runs = {} /\ pending = {}
  /\ inbox = <<>>
  /\ reqs = <<>>
  /\ exited = {}
  /\ fired = [r \in Reqs |-> 0]
  /\ delivered = {}
  /\ crash = "none"

Next ==
  \/ StartRunner
  \/ StopRunner
  \/ \E d \in Devices, cb \in BOOLEAN :
       Start(d, cb) \/ RunMethod(d, cb) \/ RunSync(d, cb)
  \/ \E x \in procs : ProcExit(x)
  \/ DispatchExited
  \/ \E d \in Devices : KillDevice(d) \/ KillAll(d) \/ DeviceRemoved(d)
                        \/ UseFinalized(d)
  \/ \E r \in Reqs : RunnerReplies(r)
  \/ DispatchReply

(* hald's main loop dispatches what is queued on the connection, and      *)
(* hald-runner answers every Run: it kills a helper at the Run's timeout. *)
Fairness ==
  /\ WF_vars(DispatchExited)
  /\ WF_vars(DispatchReply)
  /\ \A r \in Reqs : WF_vars(RunnerReplies(r))

Spec == Init /\ [][Next]_vars /\ Fairness

-----------------------------------------------------------------------------
TypeOK ==
  /\ server \in BOOLEAN
  /\ conn \in {"none", "live", "dead"}
  /\ inStore \in [Devices -> BOOLEAN]
  /\ refs \in [Devices -> Nat]
  /\ finalized \in [Devices -> BOOLEAN]
  /\ running_processes \in Seq(Records)
  /\ procs \subseteq Records
  /\ runs \subseteq Reqs
  /\ pending \subseteq [req : Reqs, dev : Devices, cb : BOOLEAN]
  /\ inbox \in Seq(Msgs)
  /\ reqs \in Seq([kind : Kinds, dev : Devices, cb : BOOLEAN])
  /\ Len(reqs) <= MaxReqs
  /\ exited \subseteq Reqs
  /\ fired \in [Reqs -> Nat]
  /\ delivered \subseteq [req : Reqs, dead : BOOLEAN, early : BOOLEAN]
  /\ crash \in Crashes

Alive == crash = "none"

(* No callback runs twice: a process's exit is reported once through     *)
(* running_processes, and a Run's reply once through its pending call,    *)
(* also when stop_runner completes the calls still awaiting a reply.      *)
CallbackAtMostOnce ==
  Alive => \A r \in Reqs : fired[r] <= 1

(* A callback is given a finalized device only if a RunSync was made for  *)
(* that device: a pending Run holds a reference, and finalizing a device   *)
(* drops its running_processes records (runner_device_finalized), so a    *)
(* Start callback never outlives its device.  RunSync's missing reference  *)
(* (hald_runner.c:803) lets a later Run reply call back on a device the    *)
(* store dropped; that callback is checked here also in the step whose     *)
(* unreference then crashes.                                               *)
CallbackOnFinalizedOnlyAfterRunSync ==
  \A x \in delivered :
    x.dead => \E r \in DOMAIN reqs : reqs[r].kind = "sync"
                                     /\ reqs[r].dev = reqs[x.req].dev

(* Every record of running_processes can still be answered: while the     *)
(* runner is up, some live process of hald-runner has its pid or an exit   *)
(* for its pid is queued; otherwise its callback could never run.         *)
RecordsAnswerable ==
  (Alive /\ server /\ conn = "live") =>
    \A i \in DOMAIN running_processes :
      \/ \E x \in procs : x.pid = running_processes[i].pid
      \/ \E j \in DOMAIN inbox : inbox[j] = [type |-> "exited",
                                            pid |-> running_processes[i].pid]

(* Every Run or RunSync given a callback gets it called (spec section    *)
(* 4.3: on reply, or with FAILED on a transport failure).                 *)
RunCallbackEventually ==
  \A r \in Reqs :
    (r <= Len(reqs) /\ reqs[r].kind # "start" /\ reqs[r].cb)
      ~> (fired[r] = 1 \/ ~Alive)

(* A Start callback reports the exit of the process it was registered    *)
(* for, not of an earlier process whose pid hald-runner handed out again. *)
StartCallbackAfterExit ==
  \A x \in delivered : ~x.early

(* A device the store still holds is finalized only if a RunSync was      *)
(* made for it: hald_runner_run_sync stores the device in its HelperData   *)
(* without taking a reference (hald_runner.c:803) and process_reply drops  *)
(* one (hald_runner.c:651), while Run takes the one it drops.              *)
StoreDeviceFinalizedOnlyAfterRunSync ==
  \A d \in Devices :
    inStore[d] /\ finalized[d] =>
      \E r \in DOMAIN reqs : reqs[r].kind = "sync" /\ reqs[r].dev = d

=============================================================================
