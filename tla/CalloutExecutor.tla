--------------------------- MODULE CalloutExecutor ---------------------------
(***************************************************************************)
(* What hald's callout queue promises its callers (spec section 4): the    *)
(* callouts of every event are run one at a time, in the order they were   *)
(* submitted; a callout that cannot be started is dropped, and the next    *)
(* one is tried at once; the running one eventually ends.  Processes,      *)
(* pids, SIGCHLD and the self-pipe are not visible at this level.          *)
(***************************************************************************)
EXTENDS Naturals, Sequences, SequencesExt

CONSTANTS
  Callouts,   \* the callouts that can be submitted
  None        \* no callout is running

VARIABLES
  submitted,  \* every callout ever submitted, in submission order
  pending,    \* submitted, not yet started or dropped
  running,    \* the callout being run, or None
  done        \* callouts that ended or were dropped

vars == <<submitted, pending, running, done>>

(* With nothing running, the head of q is tried: the first k entries      *)
(* cannot be started and are dropped, the next one starts, or q runs out.  *)
(* d is the set of finished callouts before the attempt.                   *)
Dispatch(q, d) ==
  \E k \in 0..Len(q) :
     /\ done' = d \cup {q[i] : i \in 1..k}
     /\ IF k = Len(q)
          THEN running' = None /\ pending' = <<>>
          ELSE running' = q[k + 1] /\ pending' = SubSeq(q, k + 2, Len(q))

(* A batch of callouts, possibly empty, is appended; the queue is started *)
(* if nothing runs.                                                        *)
Submit ==
  /\ IsPrefix(submitted, submitted')
  /\ LET q == pending \o SubSeq(submitted', Len(submitted) + 1, Len(submitted'))
     IN IF running # None
          THEN pending' = q /\ UNCHANGED <<running, done>>
          ELSE Dispatch(q, done)

(* The running callout ends and the next one is tried.                    *)
Complete ==
  /\ running # None
  /\ UNCHANGED submitted
  /\ Dispatch(pending, done \cup {running})

Init ==
  /\ submitted = <<>>
  /\ pending = <<>>
  /\ running = None
  /\ done = {}

Next == Submit \/ Complete

Spec == Init /\ [][Next]_vars /\ WF_vars(Complete)

=============================================================================
