---------------------------- MODULE AtomicUpdate ----------------------------
(***************************************************************************)
(* The property-change batcher of hald (src/hald/hald_dbus.c):             *)
(* device_property_atomic_update_begin/_end and                            *)
(* device_send_signal_property_modified.                                   *)
(*                                                                         *)
(* Outside a batch every change is broadcast at once as a PropertyModified *)
(* signal with one update.  Inside a batch (atomic_count > 0) the change   *)
(* is pushed on the head of the list pending_updates_head; when the       *)
(* outermost end brings the counter back to zero the list is walked from   *)
(* its head, one signal per device, entries already sent having their udi *)
(* set to NULL.  Each change carries a serial number (its position in the *)
(* call history) so that properties can follow it; the added/removed flags *)
(* travel with the key unchanged and are left out.                         *)
(***************************************************************************)
EXTENDS Naturals, Sequences, FiniteSets, SequencesExt

CONSTANTS
  Devices,    \* udis of devices (model values)
  Keys,       \* property keys (model values)
  NULL,       \* a udi freed and set to NULL by the flush
  MaxDepth,   \* bound on atomic_count
  MaxSends    \* bound on the number of property changes

ASSUME MaxDepth \in Nat \ {0} /\ MaxSends \in Nat \ {0} /\ NULL \notin Devices

\* One queued or sent update: device, key and serial number.
Updates == [udi : Devices \cup {NULL}, key : Keys, id : 1..MaxSends]
\* A PropertyModified signal: the device and its updates in signal order.
Signals == [udi : Devices, updates : Seq([key : Keys, id : 1..MaxSends])]

VARIABLES
  atomic_count,   \* nesting depth of atomic updates
  pending,        \* pending_updates_head as a sequence, head first
  emitted,        \* PropertyModified signals broadcast, in order
  nSends,         \* history: number of calls to send_signal_property_modified
  crashed         \* hald called strcmp on a NULL udi

vars == <<atomic_count, pending, emitted, nSends, crashed>>

-----------------------------------------------------------------------------
(* Mutant: the flush does not mark entries it has sent.                 *)
RECURSIVE FlushFromNoMark(_)
FlushFromNoMark(l) ==
  IF l = <<>> THEN [signals |-> <<>>, crash |-> FALSE]
  ELSE LET same(u) == u.udi = Head(l).udi
           sel == SelectSeq(l, same)
           sig == [udi |-> Head(l).udi,
                   updates |-> [i \in 1..Len(sel) |-> [key |-> sel[i].key, id |-> sel[i].id]]]
           rest == FlushFromNoMark(Tail(l))
       IN [signals |-> <<sig>> \o rest.signals, crash |-> rest.crash]

(* The walk of the flush in device_property_atomic_update_end over the    *)
(* list l.  An entry whose udi is NULL was already sent and is skipped.    *)
(* For any other entry h the counting loop compares h's udi with the udi   *)
(* of every later entry, which is undefined (a crash of the build) when    *)
(* one of them is NULL; otherwise one signal carries every entry with h's  *)
(* udi, in list order, and the later ones are marked NULL.                 *)
RECURSIVE FlushFrom(_)
FlushFrom(l) ==
  IF l = <<>> THEN [signals |-> <<>>, crash |-> FALSE]
  ELSE LET h == Head(l)
           t == Tail(l)
           same(u) == u.udi = h.udi
           entry(u) == [key |-> u.key, id |-> u.id]
           marked == [i \in DOMAIN t |->
                        IF same(t[i]) THEN [t[i] EXCEPT !.udi = NULL] ELSE t[i]]
       IN IF h.udi = NULL THEN FlushFrom(t)
          ELSE IF \E i \in DOMAIN t : t[i].udi = NULL
          THEN [signals |-> <<>>, crash |-> TRUE]
          ELSE LET sig == [udi |-> h.udi,
                           updates |-> [i \in 1..Len(SelectSeq(l, same)) |->
                                          entry(SelectSeq(l, same)[i])]]
                   rest == FlushFrom(marked)
               IN [signals |-> <<sig>> \o rest.signals, crash |-> rest.crash]

-----------------------------------------------------------------------------
(* device_property_atomic_update_begin                                     *)
AtomicUpdateBegin ==
  /\ ~crashed /\ atomic_count < MaxDepth
  /\ atomic_count' = atomic_count + 1
  /\ UNCHANGED <<pending, emitted, nSends, crashed>>

(* Mutant: the counter is decremented without the clamp at zero.         *)
AtomicUpdateEndNoClamp ==
  /\ ~crashed
  /\ atomic_count' = atomic_count - 1
  /\ IF atomic_count' = 0 /\ pending # <<>>
       THEN LET f == FlushFrom(pending)
            IN /\ emitted' = emitted \o f.signals
               /\ crashed' = f.crash
               /\ pending' = IF f.crash THEN pending ELSE <<>>
       ELSE UNCHANGED <<pending, emitted, crashed>>
  /\ UNCHANGED nSends

(* Mutant: the flush condition is tested before the decrement.            *)
AtomicUpdateEndCheckFirst ==
  /\ ~crashed
  /\ atomic_count' = IF atomic_count - 1 < 0 THEN 0 ELSE atomic_count - 1
  /\ IF atomic_count = 0 /\ pending # <<>>
       THEN LET f == FlushFrom(pending)
            IN /\ emitted' = emitted \o f.signals
               /\ crashed' = f.crash
               /\ pending' = IF f.crash THEN pending ELSE <<>>
       ELSE UNCHANGED <<pending, emitted, crashed>>
  /\ UNCHANGED nSends

(* Mutant: the list head is not reset after the flush.                     *)
AtomicUpdateEndNoReset ==
  /\ ~crashed
  /\ atomic_count' = IF atomic_count - 1 < 0 THEN 0 ELSE atomic_count - 1
  /\ IF atomic_count' = 0 /\ pending # <<>>
       THEN LET f == FlushFrom(pending)
            IN /\ emitted' = emitted \o f.signals
               /\ crashed' = f.crash
               /\ UNCHANGED pending
       ELSE UNCHANGED <<pending, emitted, crashed>>
  /\ UNCHANGED nSends

(* device_property_atomic_update_end: decrement, clamp at zero, and flush  *)
(* when the counter is zero and updates are pending.                       *)
AtomicUpdateEnd ==
  /\ ~crashed
  /\ atomic_count' = IF atomic_count - 1 < 0 THEN 0 ELSE atomic_count - 1
  /\ IF atomic_count' = 0 /\ pending # <<>>
       THEN LET f == FlushFrom(pending)
            IN /\ emitted' = emitted \o f.signals
               /\ crashed' = f.crash
               /\ pending' = IF f.crash THEN pending ELSE <<>>
       ELSE UNCHANGED <<pending, emitted, crashed>>
  /\ UNCHANGED nSends

(* device_send_signal_property_modified for device d and key k: queued at  *)
(* the head of the list inside a batch, broadcast at once outside one.     *)
SendPropertyModified(d, k) ==
  /\ ~crashed /\ nSends < MaxSends
  /\ nSends' = nSends + 1
  /\ LET u == [udi |-> d, key |-> k, id |-> nSends + 1] IN
       IF atomic_count > 0
         THEN /\ pending' = <<u>> \o pending
              /\ UNCHANGED emitted
         ELSE /\ emitted' = Append(emitted,
                                   [udi |-> d, updates |-> <<[key |-> k, id |-> u.id]>>])
              /\ UNCHANGED pending
  /\ UNCHANGED <<atomic_count, crashed>>

(* Every change has been made: hald goes on with its main loop.           *)
Terminating ==
  /\ ~crashed /\ nSends = MaxSends /\ atomic_count = 0
  /\ UNCHANGED vars

Init ==
  /\ atomic_count = 0
  /\ pending = <<>>
  /\ emitted = <<>>
  /\ nSends = 0
  /\ crashed = FALSE

Next ==
  \/ AtomicUpdateBegin
  \/ AtomicUpdateEnd
  \/ \E d \in Devices, k \in Keys : SendPropertyModified(d, k)
  \/ Terminating

Spec == Init /\ [][Next]_vars

-----------------------------------------------------------------------------
TypeOK ==
  /\ atomic_count \in 0..MaxDepth
  /\ pending \in Seq(Updates)
  /\ emitted \in Seq(Signals)
  /\ nSends \in 0..MaxSends
  /\ crashed \in BOOLEAN

(* Number of times change n appears in a broadcast signal or in the list. *)
Occurrences(n) ==
  Cardinality({<<i, j>> \in (DOMAIN emitted) \X (1..MaxSends) :
                 j \in DOMAIN emitted[i].updates /\ emitted[i].updates[j].id = n})
  + Cardinality({i \in DOMAIN pending : pending[i].id = n})

(* Every property change reaches the bus exactly once or is still queued: *)
(* the flush neither drops an update nor sends one twice, whatever the     *)
(* nesting of begin/end and the interleaving of devices.                   *)
NoUpdateLostOrDuplicated ==
  ~crashed => \A n \in 1..nSends : Occurrences(n) = 1

(* No change is left queued once the outermost batch has ended.          *)
PendingOnlyInsideBatch ==
  (~crashed /\ atomic_count = 0) => pending = <<>>

(* A flush coalesces: the signals one step broadcasts name distinct       *)
(* devices, one PropertyModified per device per batch.                     *)
OneSignalPerDevice ==
  [][LET new == SubSeq(emitted', Len(emitted) + 1, Len(emitted'))
     IN \A i, j \in DOMAIN new : i # j => new[i].udi # new[j].udi]_vars

(* Some device's changes are not contiguous in the list l: a change of    *)
(* another device lies between two of them.                               *)
Interleaved(l) ==
  \E i, j, k \in DOMAIN l :
     i < j /\ j < k /\ l[i].udi = l[k].udi /\ l[j].udi # l[i].udi

(* The flush of device_property_atomic_update_end compares a udi it has    *)
(* already freed and set to NULL exactly when the batch it flushes has a  *)
(* device's changes separated by another device's: it crashes on every     *)
(* such batch and on no other.  (apm.c, the only caller of the batcher in  *)
(* this repository, changes one device per batch.)                         *)
FlushCrashesIffInterleaved ==
  [][(crashed' # crashed \/ (pending # <<>> /\ pending' = <<>>))
       => (crashed' <=> Interleaved(pending))]_vars
=============================================================================
