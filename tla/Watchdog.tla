------------------------------ MODULE Watchdog ------------------------------
(***************************************************************************)
(* The processes of the system and who starts and stops them: operators    *)
(* through bot_manager.py, and the auto-recovery watchdog, which restarts  *)
(* what its health report finds unhealthy, within a cooldown and an hourly *)
(* limit.  Nothing locks: start_program and handle_stop look at the        *)
(* process list and the PID files and act on what they saw.                *)
(***************************************************************************)
EXTENDS Integers, FiniteSets

CONSTANTS
  Programs,     \* RECOVERABLE_PROGRAMS
  Handlers,     \* programs with a SIGTERM handler, which may outlive it
  Unlogged,     \* programs healthy whatever their log: the Telegram listener
  Operators,    \* callers of bot_manager.py: consoles, launchd, the listener
  Watcher,      \* the watchdog as a caller
  Cooldown,     \* cooldown_sec, in ticks
  MaxRestarts,  \* max_restarts_per_hour
  Hour,         \* the window of the limit, in ticks
  MaxLogAge,    \* max_log_age_sec, in ticks
  Faults,       \* the kinds of fault that may happen
  MaxPids,      \* bound: processes started
  MaxFaults,    \* bound: faults
  MaxNow        \* bound: the clock

ASSUME WatchdogAssumption ==
  /\ Handlers \subseteq Programs /\ Unlogged \subseteq Programs
  /\ Watcher \notin Operators
  /\ Cooldown \in Nat /\ MaxRestarts \in Nat /\ Hour \in Nat /\ MaxLogAge \in Nat
  /\ Programs # {}
  /\ Faults \subseteq {"die", "hang", "watcher"}
  /\ MaxPids \in Nat /\ MaxFaults \in Nat /\ MaxNow \in Nat

Callers == Operators \cup {Watcher}
Pids == 1..MaxPids
NoPid == 0

VARIABLES
  now,        \* the clock
  spawned,    \* processes started so far
  live,       \* the running processes of each program
  hung,       \* running processes that do nothing any more
  stopping,   \* running processes that were sent SIGTERM
  children,   \* the processes the watchdog is the parent of
  zombies,    \* its children that ended and were not waited for
  pidfile,    \* the PID file of each program
  lastLog,    \* when each program last wrote its log or heartbeat
  call,       \* what each caller does in bot_manager
  up,         \* is the watchdog running?
  stage,      \* what the watchdog does
  targets,    \* the recovery targets left of its round
  lastRound,  \* when its round began: now_ts in run_once
  memo,       \* the recovery state in its memory
  disk,       \* the recovery state in state.json
  recoveries, \* observer: the rounds in which it recorded a recovery
  unwritten,  \* observer: the rounds it died in, their state not written
  raced,      \* observer: programs two callers were about to start at once
  astray,     \* observer: programs whose PID file two callers were about to
              \* change at once, or whose start the watchdog's death cut off
  faults

processes == <<spawned, live, hung, stopping, children, zombies>>
watchdog == <<up, stage, targets, lastRound, memo, disk>>
overlaps == <<raced, astray>>
observers == <<recoveries, unwritten, overlaps>>
vars == <<now, processes, pidfile, lastLog, call, watchdog, observers, faults>>

NoCall(p) == [step |-> "idle", prog |-> p, pid |-> NoPid]
Anything == CHOOSE p \in Programs : TRUE

\* No recovery yet: its time is 0 in the code, long before any round.
NoRecovery == [last |-> -Cooldown, restarts |-> {}]

Init ==
  /\ now = 0 /\ spawned = 0
  /\ live = [p \in Programs |-> {}]
  /\ hung = {} /\ stopping = {} /\ children = {} /\ zombies = {}
  /\ pidfile = [p \in Programs |-> NoPid]
  /\ lastLog = [p \in Programs |-> 0]
  /\ call = [c \in Callers |-> NoCall(Anything)]
  /\ up = TRUE /\ stage = "sleep" /\ targets = {} /\ lastRound = 0
  /\ memo = [p \in Programs |-> NoRecovery]
  /\ disk = [p \in Programs |-> NoRecovery]
  /\ recoveries = [p \in Programs |-> {}]
  /\ unwritten = {} /\ raced = {} /\ astray = {} /\ faults = 0

Running == UNION {live[p] : p \in Programs}
Fault(kind) == kind \in Faults /\ faults < MaxFaults /\ faults' = faults + 1

\* os.kill(pid, 0) finds a zombie alive.
IsPidAlive(pid) == pid \in Running \cup zombies

-----------------------------------------------------------------------------
(* bot_manager.py, one caller at a time in each step                       *)

\* list_managed_processes forgets the PID files of ended processes.  Running
\* ps makes the watchdog's subprocess module wait for its ended children.
ListProcesses(c) ==
  /\ pidfile' = [p \in Programs |-> IF pidfile[p] \in Running THEN pidfile[p] ELSE NoPid]
  /\ zombies' = IF c = Watcher THEN {} ELSE zombies

Step(c, step) == call' = [call EXCEPT ![c].step = step]
Return(c) == call' = [call EXCEPT ![c] = NoCall(@.prog)]
At(c, step) == call[c].step = step

\* Is another caller at one of these steps for the same program?
Beside(c, steps) ==
  \E d \in Callers \ {c} : call[d].prog = call[c].prog /\ call[d].step \in steps

\* Observed where a caller finds its program not running and goes on: whether
\* another one already did, and has not acted yet.
Observe(set, c, steps) ==
  IF Beside(c, steps) THEN set \cup {call[c].prog} ELSE set \ {call[c].prog}
Enters(c) == astray' = Observe(astray, c, {"spawn", "record", "remove"})
EntersStart(c) == Enters(c) /\ raced' = Observe(raced, c, {"spawn"})

\* Variant: without the look for running processes.
LookUnchecked(c) ==
  /\ At(c, "look")
  /\ ListProcesses(c)
  /\ Step(c, "spawn") /\ EntersStart(c)
  /\ UNCHANGED <<now, spawned, live, hung, stopping, children, lastLog, watchdog,
                 recoveries, unwritten, faults>>

\* start_program: what runs already is not started again.
Look(c) ==
  /\ At(c, "look")
  /\ ListProcesses(c)
  /\ IF live[call[c].prog] # {}
     THEN Return(c) /\ UNCHANGED overlaps
     ELSE Step(c, "spawn") /\ EntersStart(c)
  /\ UNCHANGED <<now, spawned, live, hung, stopping, children, lastLog, watchdog,
                 recoveries, unwritten, faults>>

Spawn(c) ==
  LET p == call[c].prog
      pid == spawned + 1
  IN  /\ At(c, "spawn")
      /\ spawned < MaxPids /\ spawned' = pid
      /\ live' = [live EXCEPT ![p] = @ \cup {pid}]
      /\ \E t \in {lastLog[p], now} : lastLog' = [lastLog EXCEPT ![p] = t]
      /\ call' = [call EXCEPT ![c] = [step |-> "record", prog |-> p, pid |-> pid]]
      /\ UNCHANGED <<now, hung, stopping, children, zombies, pidfile, watchdog,
                     observers, faults>>

\* A child that ended before start_program returns is waited for at once.
WritePidFile(c) ==
  /\ At(c, "record")
  /\ pidfile' = [pidfile EXCEPT ![call[c].prog] = call[c].pid]
  /\ children' = IF c = Watcher THEN children \cup ({call[c].pid} \cap Running)
                                ELSE children
  /\ Return(c)
  /\ UNCHANGED <<now, spawned, live, hung, stopping, zombies, lastLog, watchdog,
                 observers, faults>>

\* A process listing has one entry for each program, whatever copies run.
Listed(p) == IF live[p] = {} THEN {{}} ELSE {{pid} : pid \in live[p]}

\* handle_stop: SIGTERM to what is listed; without a handler it ends the process.
Signal(c) ==
  LET p == call[c].prog
  IN  /\ At(c, "signal")
      /\ pidfile' = [q \in Programs |-> IF pidfile[q] \in Running THEN pidfile[q] ELSE NoPid]
      /\ \E listed \in Listed(p) :
           IF p \in Handlers
           THEN /\ stopping' = stopping \cup listed
                /\ zombies' = IF c = Watcher THEN {} ELSE zombies
                /\ UNCHANGED live
           ELSE /\ live' = [live EXCEPT ![p] = @ \ listed]
                /\ zombies' = (IF c = Watcher THEN {} ELSE zombies) \cup (listed \cap children)
                /\ UNCHANGED stopping
      /\ Step(c, "check")
      /\ UNCHANGED <<now, spawned, hung, children, lastLog, watchdog, observers, faults>>

\* Variant: the PID file goes whatever is left running.
CheckNothing(c) ==
  /\ At(c, "check")
  /\ ListProcesses(c)
  /\ Step(c, "remove") /\ Enters(c)
  /\ UNCHANGED <<now, spawned, live, hung, stopping, children, lastLog, watchdog,
                 recoveries, unwritten, raced, faults>>

\* After wait_for_exit: with something left the PID file stays, and so does it.
Check(c) ==
  /\ At(c, "check")
  /\ ListProcesses(c)
  /\ IF live[call[c].prog] # {}
     THEN Return(c) /\ UNCHANGED astray
     ELSE Step(c, "remove") /\ Enters(c)
  /\ UNCHANGED <<now, spawned, live, hung, stopping, children, lastLog, watchdog,
                 recoveries, unwritten, raced, faults>>

RemovePidFile(c) ==
  /\ At(c, "remove")
  /\ pidfile' = [pidfile EXCEPT ![call[c].prog] = NoPid]
  /\ Return(c)
  /\ UNCHANGED <<now, processes, lastLog, watchdog, observers, faults>>

Manager(c) ==
  Look(c) \/ Spawn(c) \/ WritePidFile(c) \/ Signal(c) \/ Check(c) \/ RemovePidFile(c)

\* An operator starts or stops a program.
Command(c) ==
  /\ At(c, "idle")
  /\ \E p \in Programs, step \in {"look", "signal"} :
       call' = [call EXCEPT ![c] = [NoCall(p) EXCEPT !.step = step]]
  /\ UNCHANGED <<now, processes, pidfile, lastLog, watchdog, observers, faults>>

-----------------------------------------------------------------------------
(* tools/auto_recovery_watchdog.py                                         *)

\* build_health_report: alive by its PID file, and with a fresh log or heartbeat
Healthy(p) ==
  /\ pidfile[p] # NoPid /\ IsPidAlive(pidfile[p])
  /\ p \in Unlogged \/ now - lastLog[p] <= MaxLogAge

BeginRound ==
  /\ up /\ stage = "sleep" /\ now > lastRound
  /\ targets' = {p \in Programs : ~Healthy(p)}
  /\ memo' = disk
  /\ lastRound' = now
  /\ stage' = "round"
  /\ UNCHANGED <<now, processes, pidfile, lastLog, call, up, disk, observers, faults>>

\* Variant: restarts are counted for ever.
PrunedNever(times, ts) == times

\* _prune_recent_restarts
Pruned(times, ts) == {t \in times : ts - t <= Hour}

CanRecover(p) ==
  /\ lastRound - memo[p].last >= Cooldown
  /\ Cardinality(Pruned(memo[p].restarts, lastRound)) < MaxRestarts

\* The cooldown or the hourly limit refuses, and the target is skipped.
Skip(p) ==
  /\ stage = "round" /\ p \in targets
  /\ ~CanRecover(p)
  /\ memo' = [memo EXCEPT ![p].restarts = Pruned(@, lastRound)]
  /\ targets' = targets \ {p}
  /\ UNCHANGED <<now, processes, pidfile, lastLog, call, up, stage, lastRound, disk,
                 observers, faults>>

RestartStops(p) ==
  /\ stage = "round" /\ p \in targets
  /\ CanRecover(p)
  /\ stage' = "stop"
  /\ call' = [call EXCEPT ![Watcher] = [NoCall(p) EXCEPT !.step = "signal"]]
  /\ UNCHANGED <<now, processes, pidfile, lastLog, up, targets, lastRound, memo, disk,
                 observers, faults>>

\* Whatever stop_func returned, start_func follows.
RestartStarts ==
  /\ stage = "stop" /\ At(Watcher, "idle")
  /\ stage' = "start"
  /\ call' = [call EXCEPT ![Watcher].step = "look"]
  /\ UNCHANGED <<now, processes, pidfile, lastLog, up, targets, lastRound, memo, disk,
                 observers, faults>>

Recovered(p) == pidfile[p] # NoPid /\ IsPidAlive(pidfile[p])

\* Variant: last_recovery_ts is not set.
RecoveryWithoutTime(item, ts) ==
  [last |-> item.last, restarts |-> Pruned(item.restarts, ts) \cup {ts}]

\* _record_recovery_attempt for "recovered"
RecordRecovery(item, ts) ==
  [last |-> ts, restarts |-> Pruned(item.restarts, ts) \cup {ts}]

\* Variant: start_func is not waited for.
VerifyAtOnce ==
  LET p == call[Watcher].prog
  IN  /\ stage = "start"
      /\ stage' = "round"
      /\ targets' = targets \ {p}
      /\ IF Recovered(p)
         THEN /\ memo' = [memo EXCEPT ![p] = RecordRecovery(@, lastRound)]
              /\ recoveries' = [recoveries EXCEPT ![p] = @ \cup {lastRound}]
         ELSE /\ memo' = [memo EXCEPT ![p].restarts = Pruned(@, lastRound)]
              /\ UNCHANGED recoveries
      /\ UNCHANGED <<now, processes, pidfile, lastLog, call, up, lastRound, disk,
                     unwritten, overlaps, faults>>

\* A second after start_func, the PID file decides about the result.
Verify ==
  LET p == call[Watcher].prog
  IN  /\ stage = "start" /\ At(Watcher, "idle")
      /\ stage' = "round"
      /\ targets' = targets \ {p}
      /\ IF Recovered(p)
         THEN /\ memo' = [memo EXCEPT ![p] = RecordRecovery(@, lastRound)]
              /\ recoveries' = [recoveries EXCEPT ![p] = @ \cup {lastRound}]
         ELSE /\ memo' = [memo EXCEPT ![p].restarts = Pruned(@, lastRound)]
              /\ UNCHANGED recoveries
      /\ UNCHANGED <<now, processes, pidfile, lastLog, call, up, lastRound, disk,
                     unwritten, overlaps, faults>>

WriteState ==
  /\ stage = "round" /\ targets = {}
  /\ disk' = memo
  /\ stage' = "sleep"
  /\ UNCHANGED <<now, processes, pidfile, lastLog, call, up, targets, lastRound, memo,
                 observers, faults>>

Round ==
  \/ BeginRound \/ RestartStarts \/ Verify \/ WriteState
  \/ \E p \in Programs : Skip(p) \/ RestartStops(p)

-----------------------------------------------------------------------------
(* Processes, faults and time                                              *)

\* The watchdog's ended children stay zombies until it waits for them.
Ends(p, pid) ==
  /\ live' = [live EXCEPT ![p] = @ \ {pid}]
  /\ zombies' = zombies \cup ({pid} \cap children)
  /\ UNCHANGED <<now, spawned, hung, stopping, children, pidfile, lastLog, call,
                 watchdog, observers>>

\* A process fails, or its SIGTERM handler is done.
Exit(p) ==
  \E pid \in live[p] :
    /\ Ends(p, pid)
    /\ \/ pid \in stopping /\ UNCHANGED faults
       \/ Fault("die")

Hang(p) ==
  /\ Fault("hang")
  /\ \E pid \in live[p] : hung' = hung \cup {pid}
  /\ UNCHANGED <<now, spawned, live, stopping, children, zombies, pidfile, lastLog,
                 call, watchdog, observers>>

\* The watchdog dies; its children get a parent that waits for them.
WatcherDies ==
  /\ up /\ Fault("watcher")
  /\ up' = FALSE /\ stage' = "sleep" /\ targets' = {}
  /\ call' = [call EXCEPT ![Watcher] = NoCall(Anything)]
  /\ children' = {} /\ zombies' = {}
  /\ unwritten' = IF stage = "sleep" THEN unwritten ELSE unwritten \cup {lastRound}
  /\ astray' = IF At(Watcher, "record") THEN astray \cup {call[Watcher].prog} ELSE astray
  /\ UNCHANGED <<now, spawned, live, hung, stopping, pidfile, lastLog, lastRound, memo,
                 disk, recoveries, raced>>

WatcherStarts ==
  /\ ~up /\ up' = TRUE
  /\ UNCHANGED <<now, processes, pidfile, lastLog, call, stage, targets, lastRound,
                 memo, disk, observers, faults>>

\* A tick is at least the watchdog's interval: it begins a round in each.
Tick ==
  /\ now < MaxNow /\ now' = now + 1
  /\ up => lastRound = now
  /\ lastLog' = [p \in Programs |-> IF live[p] \ hung # {} THEN now + 1 ELSE lastLog[p]]
  /\ UNCHANGED <<processes, pidfile, call, watchdog, observers, faults>>

Next ==
  \/ \E c \in Callers : Manager(c)
  \/ \E c \in Operators : Command(c)
  \/ Round
  \/ \E p \in Programs : Exit(p) \/ Hang(p)
  \/ WatcherDies \/ WatcherStarts \/ Tick

Spec == Init /\ [][Next]_vars

\* The watchdog is scheduled and time passes.
FairSpec == Spec /\ WF_vars(Round) /\ WF_vars(Manager(Watcher)) /\ WF_vars(Tick)
-----------------------------------------------------------------------------
(* Properties                                                              *)

Items == [last : Int, restarts : SUBSET Nat]
Steps == {"idle", "look", "spawn", "record", "signal", "check", "remove"}

\* The type invariant; between restarts the watchdog is in no call of bot_manager.
TypeOK ==
  /\ now \in Nat /\ lastRound \in 0..now
  /\ spawned \in 0..MaxPids
  /\ live \in [Programs -> SUBSET (1..spawned)]
  /\ hung \subseteq 1..spawned /\ stopping \subseteq 1..spawned
  /\ children \subseteq 1..spawned /\ zombies \subseteq 1..spawned
  /\ pidfile \in [Programs -> 0..spawned]
  /\ lastLog \in [Programs -> Nat]
  /\ call \in [Callers -> [step : Steps, prog : Programs, pid : 0..spawned]]
  /\ up \in BOOLEAN /\ stage \in {"sleep", "round", "stop", "start"}
  /\ targets \subseteq Programs
  /\ memo \in [Programs -> Items] /\ disk \in [Programs -> Items]
  /\ recoveries \in [Programs -> SUBSET Nat] /\ unwritten \subseteq Nat
  /\ raced \subseteq Programs /\ astray \subseteq Programs /\ faults \in Nat
  /\ stage \in {"sleep", "round"} => At(Watcher, "idle")

\* A program runs at most once, whatever operators, the watchdog, its death and
\* slow ends of processes do to it, but for one case: start_program let a second
\* caller through while a first one had looked (466) and not yet started (485).
OneCopy == \A p \in Programs \ raced : Cardinality(live[p]) <= 1

\* A running program is named by its PID file as soon as no caller is about to
\* write it: the health report and the watchdog know a program by that file only.
\* The exception are two callers that both found the program not running, one at
\* least to start it, and the watchdog's death between start and file.
PidFileKept ==
  \A p \in Programs \ astray :
    (\A c \in Callers : ~(At(c, "record") /\ call[c].prog = p))
      => live[p] = {} \/ pidfile[p] \in live[p]

Limited(times) ==
  \A t \in times :
    /\ \A s \in times : s < t => t - s >= Cooldown
    /\ Cardinality({s \in times : s <= t /\ t - s <= Hour}) <= MaxRestarts

\* Recorded recoveries of a program are a cooldown apart and at most
\* max_restarts_per_hour in any hour, whatever operators do and however often the
\* watchdog starts anew.  Its death takes the recoveries of the one round it dies
\* in out of the count (run_once writes the state after all targets), none of an
\* earlier one.  Restarts that failed are not recorded and keep no limit (192).
RecoveriesLimited == \A p \in Programs : Limited(recoveries[p] \ unwritten)

\* A program that does not run is started again, as long as the watchdog runs
\* and the modelled time leaves it the hour the limit may cost.
DownIsRestarted ==
  \A p \in Programs :
    live[p] = {} /\ now + MaxLogAge + Hour + 2 <= MaxNow ~> live[p] # {} \/ ~up
=============================================================================
