------------------------------ MODULE WsStream ------------------------------
(***************************************************************************)
(* A market data stream process (upbit_market_data_stream.py,              *)
(* okx_market_data_stream.py) with its WebSocket client: the main thread   *)
(* runs one session after the other, a watchdog thread per session closes  *)
(* a silent one, and SIGTERM runs the stop request inside the main thread, *)
(* at whatever step it is.                                                 *)
(*                                                                         *)
(* pc names what the main thread has done of run_forever:                  *)
(*   check       about to look at stop_event                               *)
(*   built       the WebSocketApp exists                                   *)
(*   registering inside _active_app_lock, to register it                   *)
(*   registered  the app is the active one                                 *)
(*   watched     the watchdog thread runs                                  *)
(*   connecting  inside app.run_forever, which has set keep_running        *)
(*   opening     inside on_open, after connected = True                    *)
(*   open        the session reads messages                                *)
(*   closed      app.run_forever returned                                  *)
(*   clearing    inside _active_app_lock, to clear the active app          *)
(*   delay       sleeping before the next session                          *)
(*   done        run_forever returned                                      *)
(***************************************************************************)
EXTENDS Naturals

CONSTANTS
  Venues,       \* a subset of {"okx", "upbit"}
  MaxIdle,      \* max_idle_sec, in ticks
  Faults,       \* {"payload", "disk"}: a callback raises, a health write raises
  MaxFaults,    \* bound: faults in a behaviour
  MaxSignals,   \* bound: SIGTERMs in a behaviour
  MaxChanges    \* bound: changes of the peer's behaviour

ASSUME WsStreamAssumption ==
  /\ Venues \subseteq {"okx", "upbit"}
  /\ MaxIdle \in Nat \ {0}
  /\ Faults \subseteq {"payload", "disk"}
  /\ {MaxFaults, MaxSignals, MaxChanges} \subseteq Nat

VARIABLES
  venue,      \* the exchange of this process
  pc,         \* the main thread
  hung,       \* is the main thread waiting for a lock it holds itself?
  stop,       \* stop_event
  keep,       \* keep_running of the session's app
  active,     \* is the session's app the active one?
  connected,  \* self.connected
  idle,       \* age of the last message or, before the first, of the session
  watch,      \* the session's watchdog thread: "off", "on", "closing", or "dead"
  peer,       \* the exchange: "sends" data, "answers" pings only, "gone", "hangs_up"
  quiet,      \* observer: ticks without a message in this session
  fresh,      \* observer: has the session begun or had a message since its
              \* watchdog found it silent?
  asked,      \* observer: where the first stop request found the main thread
  signals, faults, changes

vars == <<venue, pc, hung, stop, keep, active, connected, idle, watch, peer,
          quiet, fresh, asked, signals, faults, changes>>
bounds == <<asked, signals, faults, changes>>

Init ==
  /\ venue \in Venues
  /\ pc = "check" /\ hung = FALSE /\ stop = FALSE
  /\ keep = TRUE /\ active = FALSE /\ connected = FALSE
  /\ idle = MaxIdle /\ watch = "off"
  /\ peer = "sends" /\ quiet = 0 /\ fresh = FALSE /\ asked = "never"
  /\ signals = 0 /\ faults = 0 /\ changes = 0

Fault(kind) == kind \in Faults /\ faults < MaxFaults /\ faults' = faults + 1

-----------------------------------------------------------------------------
(* The main thread                                                         *)

At(l) == pc = l /\ ~hung

\* while not self.stop_event.is_set(), and the app of the next session
Check ==
  /\ At("check")
  /\ IF stop THEN pc' = "done" /\ UNCHANGED keep
             ELSE pc' = "built" /\ keep' = TRUE
  /\ UNCHANGED <<venue, hung, stop, active, connected, idle, watch, peer, quiet, fresh,
                 bounds>>

LockToRegister ==
  /\ At("built") /\ pc' = "registering"
  /\ UNCHANGED <<venue, hung, stop, keep, active, connected, idle, watch, peer,
                 quiet, fresh, bounds>>

Register ==
  /\ At("registering") /\ pc' = "registered"
  /\ active' = TRUE
  /\ UNCHANGED <<venue, hung, stop, keep, connected, idle, watch, peer, quiet, fresh,
                 bounds>>

StartWatchdog ==
  /\ At("registered") /\ pc' = "watched"
  /\ watch' = "on"
  /\ UNCHANGED <<venue, hung, stop, keep, active, connected, idle, peer, quiet, fresh,
                 bounds>>

\* app.run_forever sets keep_running before it connects.
Connect ==
  /\ At("watched") /\ pc' = "connecting"
  /\ keep' = TRUE
  /\ UNCHANGED <<venue, hung, stop, active, connected, idle, watch, peer, quiet, fresh,
                 bounds>>

ConnectFails ==
  /\ At("connecting") /\ pc' = "closed"
  /\ connected' = FALSE
  /\ UNCHANGED <<venue, hung, stop, keep, active, idle, watch, peer, quiet, fresh, bounds>>

\* on_open, its first assignment
Opening ==
  /\ At("connecting") /\ pc' = "opening"
  /\ connected' = TRUE
  /\ peer' = "sends" /\ quiet' = 0
  /\ UNCHANGED <<venue, hung, stop, keep, active, idle, watch, fresh, bounds>>

\* Variant: the time of the last message survives the session.
OpenedUnreset ==
  /\ At("opening") /\ pc' = "open"
  /\ fresh' = TRUE
  /\ UNCHANGED <<venue, hung, stop, keep, active, connected, idle, watch, peer,
                 quiet, bounds>>

\* on_open, the other assignments, the subscription and the health record
Opened ==
  /\ At("opening") /\ pc' = "open"
  /\ idle' = 0 /\ fresh' = TRUE
  /\ UNCHANGED <<venue, hung, stop, keep, active, connected, watch, peer, quiet,
                 bounds>>

\* A message of any kind; OKX answers the "ping" text of the watchdog.
Receive ==
  /\ At("open") /\ keep
  /\ \/ peer = "sends"
     \/ peer = "answers" /\ venue = "okx" /\ watch \in {"on", "closing"} /\ connected
  /\ idle' = 0 /\ quiet' = 0 /\ fresh' = TRUE
  /\ UNCHANGED <<venue, pc, hung, stop, keep, active, connected, watch, peer,
                 bounds>>

\* A message whose handler raises: the library calls on_error and reads on.
CallbackRaises ==
  /\ At("open") /\ keep /\ peer = "sends" /\ Fault("payload")
  /\ connected' = FALSE
  /\ idle' = 0 /\ quiet' = 0 /\ fresh' = TRUE
  /\ UNCHANGED <<venue, pc, hung, stop, keep, active, watch, peer, asked, signals,
                 changes>>

\* The session ends because it was closed, because the peer hangs up or, on
\* Upbit, because the library's own ping is not answered.
SessionEnds ==
  /\ At("open") /\ pc' = "closed"
  /\ ~keep \/ peer = "hangs_up" \/ (peer = "gone" /\ venue = "upbit")
  /\ connected' = FALSE
  /\ UNCHANGED <<venue, hung, stop, keep, active, idle, watch, peer, quiet, fresh, bounds>>

\* Variant: a session's end leaves its watchdog running.
LockToClearWatched ==
  /\ At("closed") /\ pc' = "clearing"
  /\ UNCHANGED <<venue, hung, stop, keep, active, connected, idle, watch, peer,
                 quiet, fresh, bounds>>

\* finally: session_stop.set()
LockToClear ==
  /\ At("closed") /\ pc' = "clearing"
  /\ watch' = "off"
  /\ UNCHANGED <<venue, hung, stop, keep, active, connected, idle, peer, quiet, fresh,
                 bounds>>

Clear ==
  /\ At("clearing") /\ active' = FALSE
  /\ pc' = "delay"
  /\ UNCHANGED <<venue, hung, stop, keep, connected, idle, watch, peer, quiet, fresh,
                 bounds>>

\* A stopped client leaves the loop, another one sleeps and begins again.
Delay ==
  /\ At("delay")
  /\ pc' = IF stop THEN "done" ELSE "check"
  /\ UNCHANGED <<venue, hung, stop, keep, active, connected, idle, watch, peer,
                 quiet, fresh, bounds>>

Main ==
  \/ Check \/ LockToRegister \/ Register \/ StartWatchdog \/ Connect
  \/ ConnectFails \/ Opening \/ Opened \/ SessionEnds
  \/ LockToClear \/ Clear \/ Delay

-----------------------------------------------------------------------------
(* The watchdog thread                                                     *)

WatchdogStops ==
  /\ watch = "on" /\ stop
  /\ watch' = "off"
  /\ UNCHANGED <<venue, pc, hung, stop, keep, active, connected, idle, peer,
                 quiet, fresh, bounds>>

Idle == connected /\ idle >= MaxIdle

\* The watchdog finds the session silent; it reports stale_reconnect first.
FindIdle ==
  /\ watch = "on" /\ Idle
  /\ watch' = "closing" /\ fresh' = FALSE
  /\ UNCHANGED <<venue, pc, hung, stop, keep, active, connected, idle, peer, quiet,
                 bounds>>

\* Variant: the watchdog reports the silence and ends without closing.
CloseIdleReported ==
  /\ watch = "closing" /\ watch' = "off"
  /\ UNCHANGED <<venue, pc, hung, stop, keep, active, connected, idle, peer, quiet,
                 fresh, bounds>>

\* The report is written: the watchdog closes the app of its own session and
\* ends, without another look at the time of the last message.
CloseIdle ==
  /\ watch = "closing"
  /\ keep' = FALSE /\ watch' = "off"
  /\ UNCHANGED <<venue, pc, hung, stop, active, connected, idle, peer, quiet, fresh,
                 bounds>>

\* Writing the health file raises in the watchdog thread, which nothing catches:
\* a heartbeat, or the report of the silence.
WatchdogDies ==
  /\ watch \in {"on", "closing"} /\ Fault("disk")
  /\ watch' = "dead"
  /\ UNCHANGED <<venue, pc, hung, stop, keep, active, connected, idle, peer,
                 quiet, fresh, asked, signals, changes>>

-----------------------------------------------------------------------------
(* SIGTERM, the exchange and time                                          *)

\* Variant: the request sets the event and leaves the session open.
SigTermUnclosing ==
  /\ signals < MaxSignals /\ pc # "done" /\ ~hung
  /\ signals' = signals + 1
  /\ asked' = IF stop THEN asked ELSE pc
  /\ stop' = TRUE
  /\ UNCHANGED <<venue, pc, hung, keep, active, connected, idle, watch, peer, quiet,
                 fresh, faults, changes>>

\* _request_stop runs between two steps of the main thread.  The lock is not
\* reentrant: inside a locked section the handler waits for its own thread.
SigTerm ==
  /\ signals < MaxSignals /\ pc # "done" /\ ~hung
  /\ signals' = signals + 1
  /\ asked' = IF stop THEN asked ELSE pc
  /\ stop' = TRUE
  /\ hung' = (pc \in {"registering", "clearing"})
  /\ keep' = (keep /\ ~(active /\ ~hung'))
  /\ UNCHANGED <<venue, pc, active, connected, idle, watch, peer, quiet, faults,
                 fresh, changes>>

PeerChanges ==
  /\ pc = "open" /\ changes < MaxChanges
  /\ changes' = changes + 1
  /\ \E next \in {"answers", "gone", "hangs_up"} \ {peer} : peer' = next
  /\ peer \in {"sends", "answers"}
  /\ UNCHANGED <<venue, pc, hung, stop, keep, active, connected, idle, watch,
                 quiet, fresh, asked, signals, faults>>

Tick ==
  /\ idle' = IF idle < MaxIdle THEN idle + 1 ELSE idle
  /\ quiet' = IF quiet < MaxIdle THEN quiet + 1 ELSE quiet
  /\ UNCHANGED <<venue, pc, hung, stop, keep, active, connected, watch, peer,
                 fresh, bounds>>

Next ==
  \/ Main \/ Receive \/ CallbackRaises
  \/ WatchdogStops \/ FindIdle \/ CloseIdle \/ WatchdogDies
  \/ SigTerm \/ PeerChanges \/ Tick

Spec == Init /\ [][Next]_vars

\* Threads are scheduled, time passes, and a connection is accepted or refused.
FairSpec ==
  Spec /\ WF_vars(Main) /\ WF_vars(Tick)
       /\ WF_vars(FindIdle) /\ WF_vars(CloseIdle) /\ WF_vars(WatchdogStops)
-----------------------------------------------------------------------------
(* Properties                                                              *)

Locations ==
  {"check", "built", "registering", "registered", "watched", "connecting",
   "opening", "open", "closed", "clearing", "delay", "done"}

\* The type invariant.  Beyond ranges: a watchdog runs only beside a session,
\* and an app is active from its registration until it is cleared.
TypeOK ==
  /\ venue \in Venues /\ pc \in Locations
  /\ hung \in BOOLEAN /\ stop \in BOOLEAN /\ keep \in BOOLEAN
  /\ active \in BOOLEAN /\ connected \in BOOLEAN
  /\ active <=> pc \in {"registered", "watched", "connecting", "opening", "open",
                        "closed", "clearing"}
  /\ connected => pc \in {"opening", "open"}
  /\ watch \in {"off", "on", "closing", "dead"} /\ fresh \in BOOLEAN
  /\ watch # "off" => pc \in {"watched", "connecting", "opening", "open", "closed"}
  /\ peer \in {"sends", "answers", "gone", "hangs_up"}
  /\ idle \in 0..MaxIdle /\ quiet \in 0..MaxIdle
  /\ asked \in Locations \cup {"never"} /\ (stop <=> asked # "never")
  /\ signals \in 0..MaxSignals /\ faults \in 0..MaxFaults
  /\ changes \in 0..MaxChanges

\* An open session the watchdog closes has had no message for the idle limit,
\* whatever the session before it went through, or its first message came after
\* the watchdog found it silent and before it closed it: the code does not look
\* again after its report.
NoHealthyClose ==
  [][CloseIdle /\ pc = "open" /\ ~fresh => quiet >= MaxIdle]_vars

\* No longer able to notice silence: its watchdog died, or a callback's error
\* marked the living session as not connected.
Crippled == watch = "dead" \/ ~connected

\* Upbit's client has the library ping the peer, whatever its watchdog does.
Pinged == venue = "upbit" /\ peer = "gone"

\* A session whose peer is gone ends, on Upbit also one whose peer only answers
\* pings, unless it was asked to stop or is crippled.  A crippled session ends
\* only where the library's ping goes unanswered.
SilenceNoticed ==
  (pc = "open" /\ (peer = "gone" \/ (peer = "answers" /\ venue = "upbit")))
    ~> (pc # "open" \/ stop \/ (Crippled /\ ~Pinged))

\* Locations between the look at stop_event and app.run_forever, and those that
\* hold the lock: a request there does not end the session that follows.
Deaf == {"built", "registering", "registered", "watched", "clearing"}

\* A stop request that finds the main thread anywhere else ends the client,
\* whether it waits for messages, opens a session or sleeps, unless a second
\* request comes while it holds the lock.
StopEndsSession == (stop /\ asked \notin Deaf) ~> (pc = "done" \/ hung)
=============================================================================
