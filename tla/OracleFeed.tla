----------------------------- MODULE OracleFeed -----------------------------
(***************************************************************************)
(* feed.ts: the web client's one shared connection to the oracle, an        *)
(* EventSource with a REST poll beside it while it is down.  Every REST     *)
(* call is in flight until it answers, and the page may unmount and mount   *)
(* again meanwhile.  What the calls carry is CandleSet's.                   *)
(***************************************************************************)
EXTENDS Naturals

CONSTANTS
  MaxFaults,      \* bound on failing calls and connections
  MaxCalls        \* bound on bootstraps, and on polls, in flight at once

VARIABLES
  mounted,        \* listeners.size > 0
  source,         \* none, connecting, open, "retrying" (the browser reconnects) or
                  \* "fatal" (the browser gave up)
  pollTimer,
  watchdogTimer,  \* and healthTimer: they are set and cleared together
  retryTimer,
  strays,         \* retry timeouts that run although retryTimer is another or null
  boots,          \* bootstraps in flight
  polls,          \* polls in flight
  syncing,        \* a resync is in flight
  connection,
  faults

vars == <<mounted, source, pollTimer, watchdogTimer, retryTimer, strays, boots, polls,
          syncing, connection, faults>>

fails(ok) ==
  /\ ok \/ faults < MaxFaults
  /\ faults' = IF ok THEN faults ELSE faults + 1

-----------------------------------------------------------------------------
(* Mutant: a timeout that does not look for listeners.                      *)
retryAnyway(stray) ==
  /\ IF stray THEN strays > 0 ELSE retryTimer
  /\ boots < MaxCalls
  /\ retryTimer' = FALSE
  /\ strays' = IF stray /\ ~retryTimer THEN strays - 1 ELSE strays
  /\ connection' = "connecting" /\ boots' = boots + 1
  /\ UNCHANGED <<mounted, source, pollTimer, watchdogTimer, polls, syncing, faults>>

-----------------------------------------------------------------------------
(* subscribe and unsubscribe: the first and the last listener.              *)
start ==
  IF source # "none" \/ pollTimer \/ retryTimer
  THEN UNCHANGED <<connection, boots>>
  ELSE connection' = "connecting" /\ boots' = boots + 1

subscribe ==
  /\ ~mounted /\ boots < MaxCalls
  /\ mounted' = TRUE
  /\ start
  /\ UNCHANGED <<source, pollTimer, watchdogTimer, retryTimer, strays, polls, syncing, faults>>

stop ==
  /\ mounted
  /\ mounted' = FALSE
  /\ source' = "none"
  /\ pollTimer' = FALSE /\ watchdogTimer' = FALSE /\ retryTimer' = FALSE
  /\ connection' = "idle"
  /\ UNCHANGED <<strays, boots, polls, syncing, faults>>

-----------------------------------------------------------------------------
(* bootstrap, which fails when every one of its requests does.              *)
tornDown == ~mounted

openStream == IF source = "none" THEN "connecting" ELSE source

bootstrapped(ok) ==
  /\ boots > 0
  /\ fails(ok)
  /\ boots' = boots - 1
  /\ IF tornDown
     THEN UNCHANGED <<source, watchdogTimer, retryTimer, strays, connection>>
     ELSE IF ok
     THEN /\ source' = openStream
          /\ watchdogTimer' = TRUE
          /\ UNCHANGED <<retryTimer, strays, connection>>
     ELSE /\ connection' = "down"
          /\ retryTimer' = TRUE
          /\ strays' = IF retryTimer THEN strays + 1 ELSE strays
          /\ UNCHANGED <<source, watchdogTimer>>
  /\ UNCHANGED <<mounted, pollTimer, polls, syncing>>

(* The timeout clears retryTimer, whichever timeout that is.                *)
retry(stray) ==
  /\ IF stray THEN strays > 0 ELSE retryTimer
  /\ boots < MaxCalls
  /\ retryTimer' = FALSE
  /\ strays' = IF stray /\ ~retryTimer THEN strays - 1 ELSE strays
  /\ IF mounted
     THEN connection' = "connecting" /\ boots' = boots + 1
     ELSE UNCHANGED <<connection, boots>>
  /\ UNCHANGED <<mounted, source, pollTimer, watchdogTimer, polls, syncing, faults>>

-----------------------------------------------------------------------------
(* The EventSource's events; those of a closed source are ignored.          *)
onopen ==
  /\ source \in {"connecting", "retrying"}
  /\ source' = "open"
  /\ connection' = "live"
  /\ syncing' = TRUE
  /\ pollTimer' = FALSE
  /\ UNCHANGED <<mounted, watchdogTimer, retryTimer, strays, boots, polls, faults>>

onerror(fatal) ==
  /\ source \in {"connecting", "open", "retrying"}
  /\ fails(FALSE)
  /\ source' = IF fatal THEN "fatal" ELSE "retrying"
  /\ connection' = "polling"
  /\ pollTimer' = TRUE
  /\ UNCHANGED <<mounted, watchdogTimer, retryTimer, strays, boots, polls, syncing>>

(* The watchdog on a silent stream that is called live.                     *)
watchdog ==
  /\ watchdogTimer /\ connection = "live" /\ ~syncing
  /\ syncing' = TRUE
  /\ UNCHANGED <<mounted, source, pollTimer, watchdogTimer, retryTimer, strays, boots, polls,
                 connection, faults>>

resynced ==
  /\ syncing
  /\ syncing' = FALSE
  /\ UNCHANGED <<mounted, source, pollTimer, watchdogTimer, retryTimer, strays, boots, polls,
                 connection, faults>>

-----------------------------------------------------------------------------
(* The poll, and the probe of the stream after one that succeeds.           *)
poll ==
  /\ pollTimer /\ polls < MaxCalls
  /\ polls' = polls + 1
  /\ UNCHANGED <<mounted, source, pollTimer, watchdogTimer, retryTimer, strays, boots, syncing,
                 connection, faults>>

reprovisionStream == IF pollTimer THEN "connecting" ELSE source

pollAnswered(ok) ==
  /\ polls > 0
  /\ fails(ok)
  /\ polls' = polls - 1
  /\ IF ~mounted
     THEN UNCHANGED <<source, connection>>
     ELSE IF ok
     THEN /\ connection' = IF connection = "down" THEN "polling" ELSE connection
          /\ source' = reprovisionStream
     ELSE connection' = "down" /\ UNCHANGED source
  /\ UNCHANGED <<mounted, pollTimer, watchdogTimer, retryTimer, strays, boots, syncing>>

-----------------------------------------------------------------------------
Init ==
  /\ mounted = FALSE
  /\ source = "none"
  /\ pollTimer = FALSE /\ watchdogTimer = FALSE /\ retryTimer = FALSE
  /\ strays = 0 /\ boots = 0 /\ polls = 0
  /\ syncing = FALSE
  /\ connection = "idle"
  /\ faults = 0

Bootstrapping == \E ok \in BOOLEAN : bootstrapped(ok)

Polling == poll \/ \E ok \in BOOLEAN : pollAnswered(ok)

Connecting == onopen \/ \E fatal \in BOOLEAN : onerror(fatal)

Next ==
  \/ subscribe \/ stop
  \/ Bootstrapping \/ Polling \/ Connecting
  \/ \E stray \in BOOLEAN : retry(stray)
  \/ watchdog \/ resynced

(* Timers fire, REST calls answer, a source that is connecting opens or     *)
(* fails, and the faults end.                                               *)
Fairness ==
  /\ WF_vars(Bootstrapping)
  /\ WF_vars(retry(FALSE))
  /\ WF_vars(poll)
  /\ WF_vars(\E ok \in BOOLEAN : pollAnswered(ok))
  /\ WF_vars(source # "open" /\ Connecting)

Spec == Init /\ [][Next]_vars /\ Fairness

-----------------------------------------------------------------------------
(* Properties                                                               *)

(* OracleFeedStore.stop: without a listener there is neither a stream nor a *)
(* timer the store has in a field, whatever answers after the teardown.     *)
(* `strays', which are in none, may still run.                              *)
TornDownIsQuiet ==
  ~mounted => source = "none" /\ ~pollTimer /\ ~watchdogTimer /\ ~retryTimer

(* OracleFeedStore: what still answers or fires after the teardown, a stray *)
(* retry timeout included, starts nothing: no bootstrap, poll, resync or    *)
(* timer until the next listener.                                           *)
TeardownStartsNothing ==
  [][~mounted /\ ~mounted' =>
       /\ boots' <= boots /\ polls' <= polls /\ strays' <= strays
       /\ syncing' => syncing]_vars

(* OracleFeedStore: a mounted feed gets its stream when the oracle answers  *)
(* again, also from a source the browser has given up and after failed      *)
(* bootstraps.                                                              *)
StreamComesBack == []<>(~mounted \/ source = "open")
=============================================================================
