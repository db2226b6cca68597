-------------------------- MODULE CandidateStream ---------------------------
(***************************************************************************)
(* stream.ts: the keeper's source of candidate ticks, a WebSocket with a    *)
(* server-sent-events loop as fallback.  Time is the fallback threshold     *)
(* passing; the back-off between attempts only delays them.                 *)
(***************************************************************************)
EXTENDS Naturals

CONSTANT MaxLoops       \* bound on SSE loops

VARIABLES
  ws,             \* the latest socket
  orphans,        \* earlier sockets that were not closed when it was opened
  reconnectTimer, \* set?
  downSince,      \* "up" (0), or down for less or more than sseFallbackSec
  sseActive,
  sseLoops,       \* sseLoop calls that have not returned
  stopped

vars == <<ws, orphans, reconnectTimer, downSince, sseActive, sseLoops, stopped>>

Socket == {"none", "connecting", "open", "failing", "closing", "closed"}
Alive == Socket \ {"none", "closed"}

-----------------------------------------------------------------------------
(* open(): the constructor may throw, which only schedules another try.    *)
open(constructed) ==
  IF constructed
  THEN /\ ws' = "connecting"
       /\ orphans' = orphans + (IF ws \in Alive THEN 1 ELSE 0)
       /\ reconnectTimer' = FALSE
  ELSE /\ reconnectTimer' = TRUE
       /\ UNCHANGED <<ws, orphans>>

onOpen ==
  /\ ws = "connecting"
  /\ ws' = "open"
  /\ downSince' = "up"
  /\ sseActive' = FALSE
  /\ UNCHANGED <<orphans, reconnectTimer, sseLoops, stopped>>

(* The socket emits error before close.                                    *)
onError ==
  /\ ws \in {"connecting", "open"}
  /\ ws' = "failing"
  /\ UNCHANGED <<orphans, reconnectTimer, downSince, sseActive, sseLoops, stopped>>

onClose ==
  /\ ws \in {"open", "failing", "closing"}
  /\ ws' = "closed"
  /\ IF stopped
     THEN UNCHANGED <<reconnectTimer, downSince>>
     ELSE /\ downSince' = IF downSince = "up" THEN "recent" ELSE downSince
          /\ reconnectTimer' = TRUE
  /\ UNCHANGED <<orphans, sseActive, sseLoops, stopped>>

ThresholdPasses ==
  /\ downSince = "recent"
  /\ downSince' = "past"
  /\ UNCHANGED <<ws, orphans, reconnectTimer, sseActive, sseLoops, stopped>>

(* The reconnect timer: start the fallback when it is due, then try again. *)
reconnect(constructed) ==
  LET fallback == ~sseActive /\ downSince = "past"
  IN  /\ reconnectTimer
      /\ sseActive' = (sseActive \/ fallback)
      /\ fallback => sseLoops < MaxLoops
      /\ sseLoops' = sseLoops + (IF fallback THEN 1 ELSE 0)
      /\ open(constructed)
      /\ UNCHANGED <<downSince, stopped>>

(* sseLoop leaves its loop only when the stop signal is set.               *)
sseLoopReturns ==
  /\ sseLoops > 0
  /\ stopped
  /\ sseLoops' = sseLoops - 1
  /\ UNCHANGED <<ws, orphans, reconnectTimer, downSince, sseActive, stopped>>

stop ==
  /\ ~stopped
  /\ stopped' = TRUE
  /\ reconnectTimer' = FALSE
  /\ ws' = IF ws \in Alive THEN "closing" ELSE ws
  /\ UNCHANGED <<orphans, downSince, sseActive, sseLoops>>

Init ==
  /\ \/ ws = "connecting" /\ reconnectTimer = FALSE
     \/ ws = "none" /\ reconnectTimer = TRUE
  /\ orphans = 0
  /\ downSince = "up"
  /\ sseActive = FALSE
  /\ sseLoops = 0
  /\ stopped = FALSE

(* A stream that was stopped and has nothing left to do.                    *)
Stopped ==
  /\ ws = "closed" /\ stopped = TRUE
  /\ orphans = 0 /\ sseLoops = 0
  /\ reconnectTimer = FALSE /\ sseActive = FALSE
  /\ downSince = "up"

Next ==
  \/ onOpen \/ onError \/ onClose
  \/ ThresholdPasses
  \/ \E constructed \in BOOLEAN : reconnect(constructed)
  \/ sseLoopReturns
  \/ stop

(* Timers fire, a started connection opens or fails, a failed one closes,  *)
(* time passes, and the constructor does not throw for ever.               *)
Fairness ==
  /\ WF_vars(onOpen \/ onError)
  /\ WF_vars(ws # "open" /\ onClose)
  /\ WF_vars(ThresholdPasses)
  /\ WF_vars(reconnect(TRUE))

Spec == Init /\ [][Next]_vars /\ Fairness

-----------------------------------------------------------------------------
(* Properties                                                              *)

(* connectCandidates: a new socket is opened only when the last one is     *)
(* closed, so no forgotten socket goes on delivering ticks.                *)
OneSocket == orphans = 0

(* connectCandidates: the keeper is never left without a source of ticks:  *)
(* until it is stopped, again and again the socket is open or an SSE loop  *)
(* runs, whatever fails.                                                   *)
NeverBlindForLong == []<>(stopped \/ ws = "open" \/ sseLoops > 0)
=============================================================================
