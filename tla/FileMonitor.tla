----------------------------- MODULE FileMonitor -----------------------------
(***************************************************************************)
(* The inotify file monitor of hald (src/hald/linux/hal-file-monitor.c).   *)
(*                                                                         *)
(* A notify (FileMonitorNotify) is registered for a path with an event    *)
(* mask; notifies of one path share a watch (FileInotifyWatch) found       *)
(* through path_to_watch and, by the kernel's watch descriptor, through   *)
(* wd_to_watch.  inotify_data_pending reads the kernel's events and        *)
(* handle_inotify_event queues one FileMonitorEventInfo per event, holding *)
(* a pointer to the watch; emit_events_in_idle, an idle source, later      *)
(* walks each queued event's watch->notifies and calls the notify          *)
(* functions.  The callbacks are the callers' code: one may remove its own *)
(* notify.                                                                 *)
(*                                                                         *)
(* Each loop of the two main-loop callbacks is one step per iteration:    *)
(* while buf (the events read) or cursor (the emit loop's position) is     *)
(* busy no other callback of the main loop runs.  The kernel (its watches, *)
(* their masks and the event queue kq) is the environment.                 *)
(***************************************************************************)
EXTENDS Naturals, Integers, Sequences, FiniteSets, SequencesExt

CONSTANTS
  Paths,        \* watched paths (model values)
  NoPath,       \* a watch's path after g_free and = NULL
  Masks,        \* the event masks callers register
  MaxWatches,   \* bound on FileInotifyWatch allocations
  MaxNotifies,  \* bound on notify ids (serial)
  MaxWds,       \* bound on kernel watch descriptors
  MaxFsEvents   \* bound on file-system events

ASSUME NoPath \notin Paths

Events == {"create", "delete", "change"}     \* HalFileMonitorEvent
\* What the kernel reports; "ignored" is IN_IGNORED.
KEvents == {"create", "delete", "change", "delete_self", "ignored"}
Wids == 1..MaxWatches
Ids == 1..MaxNotifies
Wds == 1..MaxWds

VARIABLES
  initialized,  \* priv->initialized_inotify
  watch,        \* watch structs: state, path, wd and notifies list
  p2w,          \* path_to_watch (0: no entry)
  w2w,          \* wd_to_watch (0: no entry)
  notifyTab,    \* priv->notifies: live entries, their watch and mask
  serial,       \* priv->serial
  events,       \* priv->notify_events
  idle,         \* priv->events_idle_id # 0
  buf,          \* events read by inotify_data_pending, not yet handled
  cursor,       \* emit_events_in_idle's current event and link
  kernel,       \* kernel: wd of each watched path (0: none)
  kmask,        \* kernel: mask of each watched path
  nextWd,       \* kernel: next watch descriptor
  kq,           \* kernel: events not yet read
  nFs,          \* number of file-system events so far
  removed,      \* history: notify ids removed
  delivered,    \* history: [id, ev, stale] of each notify call
  crash         \* how hald crashed, or "none"

vars == <<initialized, watch, p2w, w2w, notifyTab, serial, events, idle, buf,
          cursor, kernel, kmask, nextWd, kq, nFs, removed, delivered, crash>>

NoCursor == [on |-> FALSE, w |-> 1, ev |-> "create", cur |-> 0, phase |-> "visit"]

Busy == buf # <<>> \/ cursor.on

KEntry == [wd : Wds, k : KEvents]
WatchRec == [state : {"unused", "live", "released", "freed"},
             path : Paths \cup {NoPath}, wd : Wds \cup {-1}, notifies : Seq(Ids)]
NotifyRec == [live : BOOLEAN, watch : 0..MaxWatches, mask : SUBSET Events]

-----------------------------------------------------------------------------
(* The kernel side of inotify_rm_watch: a watch with descriptor wd is     *)
(* dropped and IN_IGNORED queued for it; any other wd (-1, or one the      *)
(* kernel already dropped) is EINVAL and changes nothing.                  *)
RmWatch(wd) ==
  IF \E p \in Paths : kernel[p] = wd
    THEN LET p == CHOOSE p \in Paths : kernel[p] = wd IN
         /\ kernel' = [kernel EXCEPT ![p] = 0]
         /\ kmask' = [kmask EXCEPT ![p] = {}]
         /\ kq' = Append(kq, [wd |-> wd, k |-> "ignored"])
    ELSE UNCHANGED <<kernel, kmask, kq>>

(* monitor_release_watch on the watch record ww: its list is freed, its    *)
(* path freed and set to NULL, its wd set to -1.                           *)
Released(ww) == [ww EXCEPT !.notifies = <<>>, !.path = NoPath, !.wd = -1,
                           !.state = "released"]

(* file_monitor_remove_watch for watch w, except its own record: both     *)
(* tables lose their entry and the kernel watch is removed.  The          *)
(* path_to_watch lookup hashes watch->path with g_str_hash, which          *)
(* dereferences a NULL path: hald crashes.                                 *)
RemoveWatch(w) ==
  LET ww == watch[w] IN
  IF ww.path = NoPath
    THEN /\ crash' = "null_path"
         /\ UNCHANGED <<p2w, w2w, kernel, kmask, kq>>
    ELSE /\ p2w' = [p2w EXCEPT ![ww.path] = 0]
         /\ w2w' = [w2w EXCEPT ![ww.wd] = 0]
         /\ RmWatch(ww.wd)
         /\ UNCHANGED crash

(* Mutant: remove_notify leaves the id on its watch's list.              *)
RemoveNotifyOpKeepLink(id) ==
  IF ~notifyTab[id].live
    THEN UNCHANGED <<notifyTab, removed, watch, p2w, w2w, kernel, kmask, kq, crash>>
    ELSE /\ notifyTab' = [notifyTab EXCEPT ![id].live = FALSE]
         /\ removed' = removed \cup {id}
         /\ UNCHANGED <<watch, p2w, w2w, kernel, kmask, kq, crash>>

(* file_monitor_remove_notify(id): a no-op for an id not in the table;    *)
(* otherwise the notify is stolen from the table and its id removed from   *)
(* its watch's list; a watch left with no notify is removed and freed.     *)
RemoveNotifyOp(id) ==
  IF ~notifyTab[id].live
    THEN UNCHANGED <<notifyTab, removed, watch, p2w, w2w, kernel, kmask, kq, crash>>
    ELSE LET w == notifyTab[id].watch
             rest == Remove(watch[w].notifies, id)
         IN /\ notifyTab' = [notifyTab EXCEPT ![id].live = FALSE]
            /\ removed' = removed \cup {id}
            /\ IF watch[w].state = "freed"
                 THEN /\ crash' = "uaf"
                      /\ UNCHANGED <<watch, p2w, w2w, kernel, kmask, kq>>
               ELSE IF rest = <<>>
                 THEN /\ RemoveWatch(w)
                      /\ watch' = [watch EXCEPT ![w] =
                                     [Released(watch[w]) EXCEPT !.state = "freed"]]
                 ELSE /\ watch' = [watch EXCEPT ![w].notifies = rest]
                      /\ UNCHANGED <<p2w, w2w, kernel, kmask, kq, crash>>

-----------------------------------------------------------------------------
(* our_event_mask_to_inotify_mask: the inotify events a mask of          *)
(* HalFileMonitorEvents asks the kernel for (a move into or out of the     *)
(* directory is reported as a create or a delete, so it is one of those).  *)
InotifyMask(mask) ==
  UNION {CASE e = "create" -> {"create"}
           [] e = "delete" -> {"delete", "delete_self"}
           [] e = "change" -> {"change"} : e \in mask}

(* inotify_add_watch with IN_MASK_ADD: the path's existing wd, or a new    *)
(* one.                                                                    *)
WdFor(p) == IF kernel[p] = 0 THEN nextWd ELSE kernel[p]

(* The watch record path_to_watch holds for p, or a new one (g_new0) with  *)
(* the path and wd and no notifies.                                        *)
WatchFor(p) ==
  IF p2w[p] # 0 THEN watch[p2w[p]]
  ELSE [state |-> "live", path |-> p, wd |-> WdFor(p), notifies |-> <<>>]

(* file_monitor_add_watch_for_path(p, mask) for the watch slot w: the      *)
(* kernel watch is added or its mask widened; a watch new to              *)
(* path_to_watch is entered in both tables under its wd.  A failing        *)
(* inotify_add_watch (no wd left) returns NULL and is not taken here.      *)
AddWatchForPath(p, mask, w) ==
  /\ kernel[p] = 0 => nextWd <= MaxWds
  /\ kernel' = [kernel EXCEPT ![p] = WdFor(p)]
  /\ kmask' = [kmask EXCEPT ![p] = @ \cup InotifyMask(mask)]
  /\ nextWd' = IF kernel[p] = 0 THEN nextWd + 1 ELSE nextWd
  /\ p2w' = [p2w EXCEPT ![p] = w]
  /\ w2w' = IF p2w[p] # 0 THEN w2w ELSE [w2w EXCEPT ![WdFor(p)] = w]

(* file_monitor_add_notify_for_path: the watch is added, then a notify     *)
(* taking the serial as id is entered in the table and prepended to the    *)
(* watch's list.                                                           *)
AddNotifyForPath(p, mask) ==
  /\ serial <= MaxNotifies
  /\ p2w[p] = 0 => \E w \in Wids : watch[w].state = "unused"
  /\ LET w == IF p2w[p] # 0 THEN p2w[p]
              ELSE CHOOSE v \in Wids : watch[v].state = "unused"
     IN /\ AddWatchForPath(p, mask, w)
        /\ watch' = [watch EXCEPT ![w] = [WatchFor(p) EXCEPT !.notifies = <<serial>> \o @]]
        /\ notifyTab' = [notifyTab EXCEPT ![serial] =
                           [live |-> TRUE, watch |-> w, mask |-> mask]]
        /\ serial' = serial + 1

(* hal_file_monitor_add_notify(p, mask), called by the monitor's user:     *)
(* nothing unless inotify is set up.                                       *)
AddNotify(p, mask) ==
  /\ crash = "none" /\ ~Busy /\ initialized
  /\ AddNotifyForPath(p, mask)
  /\ UNCHANGED <<initialized, events, idle, buf, cursor, kq, nFs, removed,
                 delivered, crash>>

(* hal_file_monitor_remove_notify(id), called by the monitor's user.      *)
RemoveNotify(id) ==
  /\ crash = "none" /\ ~Busy /\ initialized
  /\ notifyTab[id].live
  /\ RemoveNotifyOp(id)
  /\ UNCHANGED <<initialized, serial, events, idle, buf, cursor, nextWd, nFs,
                 delivered>>

-----------------------------------------------------------------------------
(* The kernel: a change at a watched path is reported if the watch's mask  *)
(* covers it.                                                              *)
FsEvent(p, e) ==
  /\ crash = "none" /\ nFs < MaxFsEvents
  /\ kernel[p] # 0 /\ e \in kmask[p]
  /\ kq' = Append(kq, [wd |-> kernel[p], k |-> e])
  /\ nFs' = nFs + 1
  /\ UNCHANGED <<initialized, watch, p2w, w2w, notifyTab, serial, events, idle,
                 buf, cursor, kernel, kmask, nextWd, removed, delivered, crash>>

(* The kernel: the watched path itself is deleted (and may be created      *)
(* again): IN_DELETE_SELF if the mask covers deletes, then IN_IGNORED, and *)
(* the kernel drops the watch.                                             *)
PathDeleted(p) ==
  /\ crash = "none" /\ nFs < MaxFsEvents
  /\ kernel[p] # 0
  /\ kq' = kq \o (IF "delete_self" \in kmask[p]
                    THEN <<[wd |-> kernel[p], k |-> "delete_self"]>> ELSE <<>>)
              \o <<[wd |-> kernel[p], k |-> "ignored"]>>
  /\ kernel' = [kernel EXCEPT ![p] = 0]
  /\ kmask' = [kmask EXCEPT ![p] = {}]
  /\ nFs' = nFs + 1
  /\ UNCHANGED <<initialized, watch, p2w, w2w, notifyTab, serial, events, idle,
                 buf, cursor, nextWd, removed, delivered, crash>>

-----------------------------------------------------------------------------
(* inotify_data_pending: read() returns the complete events that fit the   *)
(* buffer, a nonempty prefix of the kernel's queue (one event of at most   *)
(* NAME_MAX bytes always fits DEFAULT_NOTIFY_BUFLEN, so the buffer-growth  *)
(* and error_cancel branches are not reached).                             *)
InotifyDataPending ==
  /\ crash = "none" /\ ~Busy /\ initialized
  /\ kq # <<>>
  /\ \E n \in 1..Len(kq) :
        /\ buf' = SubSeq(kq, 1, n)
        /\ kq' = SubSeq(kq, n + 1, Len(kq))
  /\ UNCHANGED <<initialized, watch, p2w, w2w, notifyTab, serial, events, idle,
                 cursor, kernel, kmask, nextWd, nFs, removed, delivered, crash>>

(* The HalFileMonitorEvent handle_inotify_event makes of a kernel event.  *)
EventOf(k) ==
  CASE k = "create" -> "create"
    [] k \in {"delete", "delete_self"} -> "delete"
    [] k = "change" -> "change"
    [] k = "ignored" -> "none"

(* queue_watch_event and file_monitor_queue_event: the event is pushed on *)
(* notify_events with its watch, and the idle emitter is added unless one  *)
(* is pending.                                                             *)
QueueWatchEvent(w, ev) ==
  /\ events' = Append(events, [w |-> w, ev |-> ev])
  /\ idle' = TRUE

(* Mutant: the event is queued without the test for NONE.               *)
HandleEventQueueAll ==
  /\ crash = "none" /\ buf # <<>>
  /\ buf' = Tail(buf)
  /\ LET e == Head(buf)
         w == w2w[e.wd]
     IN IF w = 0
          THEN UNCHANGED <<watch, p2w, w2w, events, idle, kernel, kmask, kq, crash>>
          ELSE /\ QueueWatchEvent(w, EventOf(e.k))
               /\ IF e.k = "ignored"
                    THEN /\ RemoveWatch(w)
                         /\ watch' = [watch EXCEPT ![w] = Released(@)]
                    ELSE UNCHANGED <<watch, p2w, w2w, kernel, kmask, kq, crash>>
  /\ UNCHANGED <<initialized, notifyTab, serial, cursor, nextWd, nFs, removed,
                 delivered>>

(* Mutant: on IN_IGNORED the watch is removed from the tables but not     *)
(* released.                                                               *)
HandleEventNoRelease ==
  /\ crash = "none" /\ buf # <<>>
  /\ buf' = Tail(buf)
  /\ LET e == Head(buf)
         w == w2w[e.wd]
         ev == EventOf(e.k)
     IN IF w = 0
          THEN UNCHANGED <<watch, p2w, w2w, events, idle, kernel, kmask, kq, crash>>
          ELSE /\ IF ev = "none" THEN UNCHANGED <<events, idle>>
                                  ELSE QueueWatchEvent(w, ev)
               /\ IF e.k = "ignored"
                    THEN RemoveWatch(w) /\ UNCHANGED watch
                    ELSE UNCHANGED <<watch, p2w, w2w, kernel, kmask, kq, crash>>
  /\ UNCHANGED <<initialized, notifyTab, serial, cursor, nextWd, nFs, removed,
                 delivered>>

(* One iteration of the loop over the buffer: the wd is looked up in       *)
(* wd_to_watch and, if found, handle_inotify_event queues the event with   *)
(* a pointer to the watch (file_monitor_queue_event adds the idle source   *)
(* if there is none) and, on IN_IGNORED, removes and releases the watch    *)
(* without freeing it.                                                     *)
HandleEvent ==
  /\ crash = "none" /\ buf # <<>>
  /\ buf' = Tail(buf)
  /\ LET e == Head(buf)
         w == w2w[e.wd]
         ev == EventOf(e.k)
     IN IF w = 0
          THEN UNCHANGED <<watch, p2w, w2w, events, idle, kernel, kmask, kq, crash>>
          ELSE /\ IF ev = "none" THEN UNCHANGED <<events, idle>>
                                  ELSE QueueWatchEvent(w, ev)
               /\ IF e.k = "ignored"
                    THEN /\ RemoveWatch(w)
                         /\ watch' = [watch EXCEPT ![w] = Released(@)]
                    ELSE UNCHANGED <<watch, p2w, w2w, kernel, kmask, kq, crash>>
  /\ UNCHANGED <<initialized, notifyTab, serial, cursor, nextWd, nFs, removed,
                 delivered>>

-----------------------------------------------------------------------------
(* The while loop of emit_events_in_idle pops the next event and reads its *)
(* watch's notifies list; a freed watch is a use after free.               *)
PopEvent ==
  IF events = <<>>
    THEN /\ cursor' = NoCursor
         /\ UNCHANGED <<events, crash>>
    ELSE LET e == Head(events)
             ww == watch[e.w]
         IN /\ events' = Tail(events)
            /\ IF ww.state = "freed"
                 THEN /\ crash' = "uaf"
                      /\ cursor' = NoCursor
                 ELSE /\ cursor' = [on |-> TRUE, w |-> e.w, ev |-> e.ev, phase |-> "visit",
                                    cur |-> IF ww.notifies = <<>> THEN 0
                                            ELSE Head(ww.notifies)]
                      /\ UNCHANGED crash

(* emit_events_in_idle starts: the idle id is cleared.                    *)
EmitEventsInIdle ==
  /\ crash = "none" /\ ~Busy /\ idle
  /\ idle' = FALSE
  /\ PopEvent
  /\ UNCHANGED <<initialized, watch, p2w, w2w, notifyTab, serial, buf, kernel,
                 kmask, nextWd, kq, nFs, removed, delivered>>

(* Mutant: the emitter handles one event per idle call (if for while).   *)
EmitNextEventIf ==
  /\ crash = "none" /\ cursor.on /\ cursor.cur = 0
  /\ cursor' = NoCursor
  /\ UNCHANGED <<initialized, watch, p2w, w2w, notifyTab, serial, events, idle,
                 buf, kernel, kmask, nextWd, kq, nFs, removed, delivered, crash>>

(* The end of an event's list: the event is freed and the next one popped. *)
EmitNextEvent ==
  /\ crash = "none" /\ cursor.on /\ cursor.cur = 0
  /\ PopEvent
  /\ UNCHANGED <<initialized, watch, p2w, w2w, notifyTab, serial, idle, buf,
                 kernel, kmask, nextWd, kq, nFs, removed, delivered>>

(* The body of the for loop for link l: the id is looked up in the table;  *)
(* a notify whose mask covers the event is called.  The callback is the   *)
(* user's code and may call hal_file_monitor_remove_notify for any id.     *)
EmitVisit ==
  /\ crash = "none" /\ cursor.on /\ cursor.cur # 0 /\ cursor.phase = "visit"
  /\ cursor' = [cursor EXCEPT !.phase = "next"]
  /\ LET n == notifyTab[cursor.cur] IN
     IF ~n.live \/ cursor.ev \notin n.mask
       THEN UNCHANGED <<watch, p2w, w2w, notifyTab, kernel, kmask, kq, removed,
                        delivered, crash>>
       ELSE /\ delivered' = delivered \cup
                 {[id |-> cursor.cur, ev |-> cursor.ev, stale |-> cursor.cur \in removed]}
            /\ \/ UNCHANGED <<watch, p2w, w2w, notifyTab, kernel, kmask, kq,
                              removed, crash>>
               \/ \E i \in Ids : notifyTab[i].live /\ RemoveNotifyOp(i)
  /\ UNCHANGED <<initialized, serial, events, idle, buf, nextWd, nFs>>

(* l = l->next, read after the callback: the link is freed if its id was   *)
(* removed from the list, and the list with the watch if the watch was.    *)
EmitAdvance ==
  /\ crash = "none" /\ cursor.on /\ cursor.phase = "next"
  /\ LET l == watch[cursor.w].notifies IN
     IF watch[cursor.w].state = "freed" \/ cursor.cur \notin Range(l)
       THEN /\ crash' = "uaf"
            /\ UNCHANGED cursor
       ELSE LET i == CHOOSE j \in DOMAIN l : l[j] = cursor.cur IN
            /\ cursor' = [cursor EXCEPT !.cur = IF i = Len(l) THEN 0 ELSE l[i + 1],
                                        !.phase = "visit"]
            /\ UNCHANGED crash
  /\ UNCHANGED <<initialized, watch, p2w, w2w, notifyTab, serial, events, idle,
                 buf, kernel, kmask, nextWd, kq, nFs, removed, delivered>>

-----------------------------------------------------------------------------
(* hal_file_monitor_init: serial 1, empty tables and queue; setup_inotify  *)
(* either succeeds or leaves the monitor uninitialized.                    *)
Init ==
  /\ initialized \in BOOLEAN
  /\ watch = [w \in Wids |-> [state |-> "unused", path |-> NoPath, wd |-> -1,
                              notifies |-> <<>>]]
  /\ p2w = [p \in Paths |-> 0]
  /\ w2w = [d \in Wds |-> 0]
  /\ notifyTab = [i \in Ids |-> [live |-> FALSE, watch |-> 0, mask |-> {}]]
  /\ serial = 1
  /\ events = <<>>
  /\ idle = FALSE
  /\ buf = <<>>
  /\ cursor = NoCursor
  /\ kernel = [p \in Paths |-> 0]
  /\ kmask = [p \in Paths |-> {}]
  /\ nextWd = 1
  /\ kq = <<>>
  /\ nFs = 0
  /\ removed = {}
  /\ delivered = {}
  /\ crash = "none"

Next ==
  \/ \E p \in Paths, m \in Masks : AddNotify(p, m)
  \/ \E i \in Ids : RemoveNotify(i)
  \/ \E p \in Paths, e \in Events : FsEvent(p, e)
  \/ \E p \in Paths : PathDeleted(p)
  \/ InotifyDataPending
  \/ HandleEvent
  \/ EmitEventsInIdle
  \/ EmitNextEvent
  \/ EmitVisit
  \/ EmitAdvance

(* The GLib main loop dispatches every ready source: the read callback,   *)
(* its loop and the idle emitter run to completion.                        *)
Fairness ==
  /\ WF_vars(InotifyDataPending)
  /\ WF_vars(HandleEvent)
  /\ WF_vars(EmitEventsInIdle)
  /\ WF_vars(EmitNextEvent)
  /\ WF_vars(EmitVisit)
  /\ WF_vars(EmitAdvance)

Spec == Init /\ [][Next]_vars /\ Fairness

-----------------------------------------------------------------------------
TypeOK ==
  /\ initialized \in BOOLEAN
  /\ watch \in [Wids -> WatchRec]
  /\ p2w \in [Paths -> 0..MaxWatches]
  /\ w2w \in [Wds -> 0..MaxWatches]
  /\ notifyTab \in [Ids -> NotifyRec]
  /\ serial \in 1..MaxNotifies + 1
  /\ events \in Seq([w : Wids, ev : Events])
  /\ idle \in BOOLEAN
  /\ buf \in Seq(KEntry) /\ kq \in Seq(KEntry)
  /\ cursor \in [on : BOOLEAN, w : Wids, ev : Events, cur : 0..MaxNotifies,
                 phase : {"visit", "next"}]
  /\ kernel \in [Paths -> 0..MaxWds] /\ kmask \in [Paths -> SUBSET KEvents]
  /\ nextWd \in 1..MaxWds + 1 /\ nFs \in 0..MaxFsEvents
  /\ removed \subseteq Ids
  /\ delivered \subseteq [id : Ids, ev : Events, stale : BOOLEAN]
  /\ crash \in {"none", "uaf", "null_path"}

(* The table of notifies and the watches' id lists agree: a registered     *)
(* notify of a watch still in use is on that watch's list, every id on a   *)
(* live watch's list is a registered notify of that watch, and no          *)
(* registered notify points at a freed watch (remove_notify, add_notify    *)
(* and handle_inotify_event's IN_IGNORED branch each update both).         *)
WatchNotifyConsistent ==
  crash = "none" =>
    /\ \A id \in Ids :
         notifyTab[id].live =>
           /\ watch[notifyTab[id].watch].state # "freed"
           /\ watch[notifyTab[id].watch].state = "live" =>
                id \in Range(watch[notifyTab[id].watch].notifies)
    /\ \A w \in Wids :
         watch[w].state = "live" =>
           \A id \in Range(watch[w].notifies) :
              notifyTab[id].live /\ notifyTab[id].watch = w

\* An IN_IGNORED for descriptor wd is queued in the kernel or in the buffer.
IgnoredPending(wd) == \E e \in Range(kq \o buf) : e.wd = wd /\ e.k = "ignored"

(* The kernel's events for a registered notify's path reach it: its watch *)
(* is live, holds the kernel's descriptor for the path, and wd_to_watch   *)
(* maps that descriptor back to it.  The exception is a path deleted      *)
(* while its IN_IGNORED is still unread.  This includes a path watched     *)
(* again in that window: add_watch finds the stale watch in path_to_watch  *)
(* (hal-file-monitor.c:220) and never enters the kernel's new descriptor  *)
(* in wd_to_watch, so the events of the new kernel watch are dropped.      *)
NotifyRoutedUnlessRewatched ==
  crash = "none" =>
    \A id \in Ids :
      LET w == notifyTab[id].watch
          ww == watch[w]
      IN  notifyTab[id].live /\ ww.state = "live" =>
            \/ kernel[ww.path] = ww.wd /\ w2w[ww.wd] = w
            \/ kernel[ww.path] # ww.wd /\ IgnoredPending(ww.wd)

(* Every queued event is eventually taken off the queue by the idle        *)
(* emitter: queue_event schedules the idle source whenever one is not      *)
(* pending, and emit_events_in_idle drains the whole queue.                *)
EventsEventuallyEmitted ==
  (events # <<>>) ~> (events = <<>> \/ crash # "none")

(* The idle emitter never reads a watch, or a link of a watch's list,     *)
(* that remove_notify has freed.                                           *)
NoUseAfterFree == crash # "uaf"

=============================================================================
