--------------------------- MODULE WatchdogProofs ---------------------------
(***************************************************************************)
(* For any programs, operators, limits, faults and number of steps: what   *)
(* the watchdog records stays within its limits, and programs run once and *)
(* keep their PID files but where two callers met between look and act.    *)
(***************************************************************************)
EXTENDS Watchdog, FiniteSetTheorems, TLAPS

CallRecords == [step : Steps, prog : Programs, pid : 0..spawned]

-----------------------------------------------------------------------------
(* Types                                                                   *)

LEMMA NoCallTyped ==
  ASSUME NEW p \in Programs, NEW n \in Nat
  PROVE  /\ NoCall(p) \in [step : Steps, prog : Programs, pid : 0..n]
         /\ NoCall(p).step = "idle" /\ NoCall(p).prog = p
  BY DEF NoCall, Steps, NoPid

LEMMA AnythingTyped == Anything \in Programs
  BY WatchdogAssumption DEF Anything

LEMMA InitTyped == Init => TypeOK
<1>. SUFFICES ASSUME Init PROVE TypeOK
  OBVIOUS
<1>1. call \in [Callers -> [step : Steps, prog : Programs, pid : 0..0]]
  BY AnythingTyped, NoCallTyped DEF Init
<1>2. NoRecovery \in Items
  BY WatchdogAssumption DEF NoRecovery, Items
<1>3. At(Watcher, "idle")
  BY AnythingTyped, NoCallTyped DEF Init, At, Callers
<1>4. spawned = 0 /\ MaxPids \in Nat
  BY WatchdogAssumption DEF Init
<1>5. /\ live \in [Programs -> SUBSET (1..spawned)]
      /\ hung \subseteq 1..spawned /\ stopping \subseteq 1..spawned
      /\ children \subseteq 1..spawned /\ zombies \subseteq 1..spawned
  BY DEF Init
<1>6. /\ pidfile \in [Programs -> 0..spawned] /\ lastLog \in [Programs -> Nat]
      /\ memo \in [Programs -> Items] /\ disk \in [Programs -> Items]
      /\ recoveries \in [Programs -> SUBSET Nat]
  BY <1>2, <1>4 DEF Init, NoPid
<1>7. now \in Nat /\ lastRound \in 0..now /\ spawned \in 0..MaxPids /\ faults \in Nat
  BY <1>4 DEF Init
<1>8. /\ up \in BOOLEAN /\ targets \subseteq Programs
      /\ unwritten \subseteq Nat /\ raced \subseteq Programs /\ astray \subseteq Programs
      /\ stage \in {"sleep", "round", "stop", "start"}
  BY DEF Init
<1>. QED
  BY <1>1, <1>3, <1>4, <1>5, <1>6, <1>7, <1>8 DEF TypeOK

LEMMA StepTyped ==
  ASSUME TypeOK, NEW c \in Callers, NEW step \in Steps, Step(c, step)
  PROVE  /\ call' \in [Callers -> CallRecords]
         /\ \A d \in Callers : d # c => call'[d] = call[d]
         /\ call'[c].step = step
         /\ \A d \in Callers : call'[d].prog = call[d].prog /\ call'[d].pid = call[d].pid
  BY DEF TypeOK, Step, CallRecords

LEMMA ReturnTyped ==
  ASSUME TypeOK, NEW c \in Callers, Return(c)
  PROVE  /\ call' \in [Callers -> CallRecords]
         /\ \A d \in Callers : d # c => call'[d] = call[d]
         /\ call'[c].step = "idle"
         /\ \A d \in Callers : call'[d].prog = call[d].prog
<1>1. call[c].prog \in Programs /\ spawned \in Nat
  BY DEF TypeOK
<1>2. NoCall(call[c].prog) \in CallRecords
  BY <1>1, NoCallTyped DEF CallRecords
<1>. QED
  BY <1>1, <1>2, NoCallTyped DEF TypeOK, Return, CallRecords

LEMMA ListingTyped ==
  ASSUME TypeOK, NEW c \in Callers, ListProcesses(c)
  PROVE  /\ pidfile' \in [Programs -> 0..spawned]
         /\ zombies' \subseteq zombies
  BY DEF TypeOK, ListProcesses, NoPid

LEMMA ObservedTyped ==
  ASSUME TypeOK, NEW c \in Callers, NEW set \in SUBSET Programs, NEW steps
  PROVE  Observe(set, c, steps) \subseteq Programs
  BY DEF TypeOK, Observe

\* What a caller of the process manager does; the watchdog calls it during a
\* restart only.
LEMMA ManagerTyped ==
  ASSUME TypeOK, NEW c \in Callers, Manager(c)
  PROVE  TypeOK'
<1>1. CASE Look(c)
  <2>1. call' \in [Callers -> CallRecords] /\ \A d \in Callers : d # c => call'[d] = call[d]
    BY <1>1, StepTyped, ReturnTyped DEF Look, Steps
  <2>2. ~At(c, "idle")
    BY <1>1 DEF Look, At
  <2>3. raced' \subseteq Programs /\ astray' \subseteq Programs
    BY <1>1, ObservedTyped DEF Look, EntersStart, Enters, overlaps, TypeOK
  <2>. QED
    BY <1>1, <2>1, <2>2, <2>3, ListingTyped
       DEF Look, TypeOK, CallRecords, watchdog, At, Callers
<1>2. CASE Spawn(c)
  <2>. DEFINE p == call[c].prog
              pid == spawned + 1
  <2>1. p \in Programs /\ spawned \in Nat /\ pid \in 1..MaxPids /\ spawned' = pid
    BY <1>2, WatchdogAssumption DEF Spawn, TypeOK
  <2>2. 0..spawned \subseteq 0..pid /\ 1..spawned \subseteq 1..pid /\ pid \in 1..pid
    BY <2>1
  <2>3. call' \in [Callers -> [step : Steps, prog : Programs, pid : 0..pid]]
    <3>1. call \in [Callers -> [step : Steps, prog : Programs, pid : 0..pid]]
      BY <2>2 DEF TypeOK
    <3>. QED
      BY <1>2, <2>1, <2>2, <3>1 DEF Spawn, Steps
  <2>4. live' \in [Programs -> SUBSET (1..pid)]
    BY <1>2, <2>1, <2>2 DEF Spawn, TypeOK
  <2>5. ~At(c, "idle") /\ \A d \in Callers : d # c => call'[d] = call[d]
    BY <1>2 DEF Spawn, At, TypeOK
  <2>6. lastLog' \in [Programs -> Nat]
    BY <1>2, <2>1 DEF Spawn, TypeOK
  <2>7. pidfile' \in [Programs -> 0..pid]
    BY <1>2, <2>2 DEF Spawn, TypeOK
  <2>8. /\ hung' \subseteq 1..pid /\ stopping' \subseteq 1..pid
        /\ children' \subseteq 1..pid /\ zombies' \subseteq 1..pid
    BY <1>2, <2>2 DEF Spawn, TypeOK
  <2>9. stage \in {"sleep", "round"} => At(Watcher, "idle")'
    BY <2>5 DEF TypeOK, At, Callers
  <2>. QED
    BY <1>2, <2>1, <2>3, <2>4, <2>6, <2>7, <2>8, <2>9
       DEF Spawn, TypeOK, watchdog, observers, overlaps
<1>3. CASE WritePidFile(c)
  <2>1. call' \in [Callers -> CallRecords] /\ \A d \in Callers : d # c => call'[d] = call[d]
    BY <1>3, ReturnTyped DEF WritePidFile
  <2>2. ~At(c, "idle")
    BY <1>3 DEF WritePidFile, At
  <2>3. Running \subseteq 1..spawned
    BY DEF Running, TypeOK
  <2>4. children' \subseteq 1..spawned
    BY <1>3, <2>3 DEF WritePidFile, TypeOK
  <2>5. pidfile' \in [Programs -> 0..spawned]
    BY <1>3 DEF WritePidFile, TypeOK
  <2>6. stage \in {"sleep", "round"} => At(Watcher, "idle")'
    BY <2>1, <2>2 DEF TypeOK, At, Callers
  <2>. QED
    BY <1>3, <2>1, <2>4, <2>5, <2>6
       DEF WritePidFile, TypeOK, CallRecords, watchdog, observers, overlaps
<1>4. CASE Signal(c)
  <2>. DEFINE p == call[c].prog
  <2>1. call' \in [Callers -> CallRecords] /\ \A d \in Callers : d # c => call'[d] = call[d]
    BY <1>4, StepTyped DEF Signal, Steps
  <2>2. ~At(c, "idle")
    BY <1>4 DEF Signal, At
  <2>3. p \in Programs /\ live[p] \subseteq 1..spawned
    BY DEF TypeOK
  <2>4. pidfile' \in [Programs -> 0..spawned]
    BY <1>4 DEF Signal, TypeOK, NoPid
  <2>5. live' \in [Programs -> SUBSET (1..spawned)] /\ stopping' \subseteq 1..spawned
        /\ zombies' \subseteq 1..spawned
    <3>1. PICK listed \in Listed(p) :
            \/ UNCHANGED live /\ stopping' = stopping \cup listed /\ zombies' \subseteq zombies
            \/ /\ live' = [live EXCEPT ![p] = @ \ listed] /\ UNCHANGED stopping
               /\ zombies' \subseteq zombies \cup listed
      BY <1>4 DEF Signal
    <3>2. listed \subseteq 1..spawned
      BY <2>3, <3>1 DEF Listed
    <3>3. live' \in [Programs -> SUBSET (1..spawned)]
      BY <2>3, <3>1 DEF TypeOK
    <3>4. stopping' \subseteq 1..spawned /\ zombies' \subseteq 1..spawned
      BY <3>1, <3>2 DEF TypeOK
    <3>. QED
      BY <3>3, <3>4
  <2>6. stage \in {"sleep", "round"} => At(Watcher, "idle")'
    BY <2>1, <2>2 DEF TypeOK, At, Callers
  <2>. QED
    BY <1>4, <2>1, <2>4, <2>5, <2>6 DEF Signal, TypeOK, CallRecords, watchdog, observers, overlaps
<1>5. CASE Check(c)
  <2>1. call' \in [Callers -> CallRecords] /\ \A d \in Callers : d # c => call'[d] = call[d]
    BY <1>5, StepTyped, ReturnTyped DEF Check, Steps
  <2>2. ~At(c, "idle")
    BY <1>5 DEF Check, At
  <2>3. astray' \subseteq Programs
    BY <1>5, ObservedTyped DEF Check, Enters, TypeOK
  <2>. QED
    BY <1>5, <2>1, <2>2, <2>3, ListingTyped
       DEF Check, TypeOK, CallRecords, watchdog, At, Callers
<1>6. CASE RemovePidFile(c)
  <2>1. call' \in [Callers -> CallRecords] /\ \A d \in Callers : d # c => call'[d] = call[d]
    BY <1>6, ReturnTyped DEF RemovePidFile
  <2>2. ~At(c, "idle")
    BY <1>6 DEF RemovePidFile, At
  <2>. QED
    BY <1>6, <2>1, <2>2
       DEF RemovePidFile, TypeOK, CallRecords, processes, watchdog, observers, overlaps, At, Callers, NoPid
<1>. QED
  BY <1>1, <1>2, <1>3, <1>4, <1>5, <1>6 DEF Manager

LEMMA RoundTyped ==
  ASSUME TypeOK, Round
  PROVE  TypeOK'
<1>w. Watcher \in Callers
  BY DEF Callers
<1>n. /\ now \in Nat /\ lastRound \in Nat /\ Hour \in Nat /\ Cooldown \in Nat
      /\ spawned \in Nat
  BY WatchdogAssumption DEF TypeOK
<1>p. ASSUME NEW item \in Items PROVE Pruned(item.restarts, lastRound) \in SUBSET Nat
  BY DEF Items, Pruned
<1>1. CASE BeginRound
  <2>1. lastRound' \in 0..now' /\ targets' \subseteq Programs /\ stage' = "round"
    BY <1>1, <1>n DEF BeginRound
  <2>2. At(Watcher, "idle")' /\ memo' \in [Programs -> Items]
    BY <1>1 DEF BeginRound, TypeOK, At
  <2>. QED
    BY <1>1, <2>1, <2>2 DEF BeginRound, TypeOK, processes, observers, overlaps
<1>2. CASE RestartStarts
  <2>1. call' \in [Callers -> CallRecords]
    BY <1>2, <1>w DEF RestartStarts, TypeOK, CallRecords, Steps
  <2>. QED
    BY <1>2, <2>1 DEF RestartStarts, TypeOK, CallRecords, processes, observers, overlaps
<1>3. CASE Verify
  <2>. DEFINE p == call[Watcher].prog
  <2>1. p \in Programs /\ memo[p] \in Items
    BY <1>w DEF TypeOK
  <2>2. RecordRecovery(memo[p], lastRound) \in Items
    BY <2>1, <1>n, <1>p DEF RecordRecovery, Items
  <2>3. [memo[p] EXCEPT !.restarts = Pruned(@, lastRound)] \in Items
    BY <2>1, <1>p DEF Items
  <2>4. memo' \in [Programs -> Items] /\ recoveries' \in [Programs -> SUBSET Nat]
    BY <1>3, <1>n, <2>1, <2>2, <2>3 DEF Verify, TypeOK
  <2>. QED
    BY <1>3, <2>4 DEF Verify, TypeOK, processes, overlaps, At
<1>4. CASE WriteState
  BY <1>4 DEF WriteState, TypeOK, processes, observers, overlaps, At
<1>5. ASSUME NEW p \in Programs, Skip(p) PROVE TypeOK'
  <2>1. [memo[p] EXCEPT !.restarts = Pruned(@, lastRound)] \in Items
    BY <1>p DEF Items, TypeOK
  <2>2. memo' \in [Programs -> Items]
    BY <1>5, <2>1 DEF Skip, TypeOK
  <2>. QED
    BY <1>5, <2>2 DEF Skip, TypeOK, processes, observers, overlaps, At
<1>6. ASSUME NEW p \in Programs, RestartStops(p) PROVE TypeOK'
  <2>1. [NoCall(p) EXCEPT !.step = "signal"] \in CallRecords
    BY <1>n DEF NoCall, CallRecords, Steps, NoPid
  <2>2. call' \in [Callers -> CallRecords]
    BY <1>6, <2>1 DEF RestartStops, TypeOK, CallRecords
  <2>. QED
    BY <1>6, <2>2 DEF RestartStops, TypeOK, CallRecords, processes, observers, overlaps
<1>. QED
  BY <1>1, <1>2, <1>3, <1>4, <1>5, <1>6 DEF Round

LEMMA NextTyped ==
  ASSUME TypeOK, [Next]_vars
  PROVE  TypeOK'
<1>n. /\ now \in Nat /\ spawned \in Nat /\ faults \in Nat
  BY DEF TypeOK
<1>f. ASSUME NEW kind, Fault(kind) PROVE faults' \in Nat
  BY <1>f, <1>n DEF Fault
<1>1. ASSUME NEW c \in Operators, Command(c) PROVE TypeOK'
  <2>1. c \in Callers /\ c # Watcher
    BY WatchdogAssumption DEF Callers
  <2>2. PICK p \in Programs, step \in {"look", "signal"} :
          call' = [call EXCEPT ![c] = [NoCall(p) EXCEPT !.step = step]]
    BY <1>1 DEF Command
  <2>3. [NoCall(p) EXCEPT !.step = step] \in CallRecords
    BY <1>n DEF NoCall, CallRecords, Steps, NoPid
  <2>4. call' \in [Callers -> CallRecords] /\ call'[Watcher] = call[Watcher]
    BY <2>1, <2>2, <2>3 DEF TypeOK, CallRecords
  <2>. QED
    BY <1>1, <2>4 DEF Command, TypeOK, CallRecords, processes, watchdog, observers, overlaps, At
<1>2. ASSUME NEW p \in Programs, Exit(p) PROVE TypeOK'
  <2>1. PICK pid \in live[p] : Ends(p, pid) /\ (faults' = faults \/ Fault("die"))
    BY <1>2 DEF Exit
  <2>2. live' \in [Programs -> SUBSET (1..spawned)] /\ zombies' \subseteq 1..spawned
    BY <2>1 DEF Ends, TypeOK
  <2>. QED
    BY <2>1, <2>2, <1>f, <1>n DEF Ends, TypeOK, watchdog, observers, overlaps, At
<1>3. ASSUME NEW p \in Programs, Hang(p) PROVE TypeOK'
  <2>1. hung' \subseteq 1..spawned
    BY <1>3 DEF Hang, TypeOK
  <2>. QED
    BY <1>3, <2>1, <1>f DEF Hang, TypeOK, watchdog, observers, overlaps, At
<1>4. CASE WatcherDies
  <2>1. call' \in [Callers -> CallRecords] /\ At(Watcher, "idle")'
    BY <1>4, <1>n, AnythingTyped, NoCallTyped
       DEF WatcherDies, TypeOK, CallRecords, Callers, At
  <2>2. unwritten' \subseteq Nat /\ astray' \subseteq Programs
    BY <1>4 DEF WatcherDies, TypeOK, Callers
  <2>. QED
    BY <1>4, <2>1, <2>2, <1>f DEF WatcherDies, TypeOK, CallRecords
<1>5. CASE WatcherStarts
  BY <1>5 DEF WatcherStarts, TypeOK, processes, observers, overlaps, At
<1>6. CASE Tick
  <2>1. now' \in Nat /\ lastRound \in 0..now'
    BY <1>6, <1>n DEF Tick, TypeOK
  <2>2. lastLog' \in [Programs -> Nat]
    BY <1>6, <1>n DEF Tick, TypeOK
  <2>. QED
    BY <1>6, <2>1, <2>2 DEF Tick, TypeOK, processes, watchdog, observers, overlaps, At
<1>7. CASE UNCHANGED vars
  BY <1>7 DEF vars, TypeOK, processes, watchdog, observers, overlaps, At
<1>. QED
  BY <1>1, <1>2, <1>3, <1>4, <1>5, <1>6, <1>7, ManagerTyped, RoundTyped DEF Next

\* Every variable keeps its type, and the watchdog is inside the process manager
\* only while it restarts a program.
THEOREM WatchdogTypeCorrect == Spec => []TypeOK
<1>. QED
  BY InitTyped, NextTyped, PTL DEF Spec

-----------------------------------------------------------------------------
(* The limits                                                              *)

\* What an item of the recovery state knows of a recovery at t.
Knows(item, t) == t <= item.last /\ (lastRound - t <= Hour => t \in item.restarts)

\* Counted restarts are past rounds, so there are finitely many.
PastRounds ==
  \A p \in Programs :
    /\ recoveries[p] \subseteq 0..lastRound
    /\ memo[p].restarts \subseteq 0..lastRound
    /\ disk[p].restarts \subseteq 0..lastRound

\* A round recovers a program once.
OnceARound ==
  stage # "sleep" => \A p \in targets : lastRound \notin recoveries[p]

\* The recoveries of the rounds the watchdog did not die in.
Kept(p) == recoveries[p] \ unwritten

\* The file knows every kept recovery but those of the round going on, and the
\* memory knows them all.
DiskKnows ==
  \A p \in Programs : \A t \in Kept(p) :
    stage = "sleep" \/ t # lastRound => Knows(disk[p], t)

MemoKnows ==
  stage # "sleep" => \A p \in Programs : \A t \in Kept(p) : Knows(memo[p], t)

\* A restart goes on only for a target the limits let through.
RestartAllowed ==
  stage \in {"stop", "start"} =>
    /\ call[Watcher].prog \in targets
    /\ CanRecover(call[Watcher].prog)

LimitInv ==
  TypeOK /\ PastRounds /\ OnceARound /\ DiskKnows /\ MemoKnows /\ RestartAllowed
    /\ RecoveriesLimited

LEMMA NumbersTyped ==
  ASSUME TypeOK
  PROVE  /\ now \in Nat /\ lastRound \in Nat /\ Hour \in Nat /\ Cooldown \in Nat
         /\ MaxRestarts \in Nat /\ Watcher \in Callers
  BY WatchdogAssumption DEF TypeOK, Callers

LEMMA InitLimited == Init => LimitInv
<1>. SUFFICES ASSUME Init PROVE LimitInv
  OBVIOUS
<1>1. PastRounds
  BY DEF Init, PastRounds, NoRecovery
<1>2. OnceARound /\ DiskKnows /\ MemoKnows /\ RestartAllowed
  BY DEF Init, OnceARound, DiskKnows, MemoKnows, RestartAllowed, Kept
<1>3. RecoveriesLimited
  BY DEF Init, RecoveriesLimited, Limited
<1>. QED
  BY <1>1, <1>2, <1>3, InitTyped DEF LimitInv

\* A step that leaves the watchdog's data alone.
LEMMA LimitUntouched ==
  ASSUME LimitInv, TypeOK', UNCHANGED <<stage, targets, lastRound, memo, disk,
         recoveries, unwritten>>, call'[Watcher].prog = call[Watcher].prog
  PROVE  LimitInv'
<1>1. PastRounds' /\ OnceARound' /\ RecoveriesLimited'
  BY DEF LimitInv, PastRounds, OnceARound, RecoveriesLimited, Limited
<1>2. DiskKnows' /\ MemoKnows'
  BY DEF LimitInv, DiskKnows, MemoKnows, Kept, Knows
<1>3. RestartAllowed'
  BY DEF LimitInv, RestartAllowed, CanRecover, Pruned
<1>. QED
  BY <1>1, <1>2, <1>3 DEF LimitInv

\* Another recovery keeps the limits when the cooldown and the count of those
\* the item knows allow it.
LEMMA LimitedExtends ==
  ASSUME TypeOK, NEW item, NEW times, NEW ts \in Nat, Limited(times),
         times \subseteq 0..ts, ts \notin times, ts = lastRound,
         item.restarts \subseteq 0..ts, item.last \in Int,
         \A t \in times : Knows(item, t),
         ts - item.last >= Cooldown,
         Cardinality(Pruned(item.restarts, ts)) < MaxRestarts
  PROVE  Limited(times \cup {ts})
<1>. DEFINE new == times \cup {ts}
            Window(set, t) == {s \in set : s <= t /\ t - s <= Hour}
<1>n. Hour \in Nat /\ Cooldown \in Nat /\ MaxRestarts \in Nat
  BY NumbersTyped
<1>1. \A t \in times : t \in Nat /\ t < ts
  OBVIOUS
<1>2. ASSUME NEW t \in times
      PROVE  /\ \A s \in new : s < t => t - s >= Cooldown
             /\ Cardinality(Window(new, t)) <= MaxRestarts
  <2>1. Window(new, t) = Window(times, t)
    BY <1>1
  <2>2. \A s \in new : s < t => s \in times
    BY <1>1
  <2>. QED
    BY <2>1, <2>2 DEF Limited
<1>3. \A s \in new : s < ts => ts - s >= Cooldown
  <2>. SUFFICES ASSUME NEW s \in times PROVE ts - s >= Cooldown
    OBVIOUS
  <2>1. s <= item.last /\ s \in Nat
    BY <1>1 DEF Knows
  <2>. QED
    BY <2>1, <1>n
<1>4. Cardinality(Window(new, ts)) <= MaxRestarts
  <2>. DEFINE old == Window(times, ts)
              known == Pruned(item.restarts, ts)
  <2>1. Window(new, ts) = old \cup {ts}
    BY <1>1, <1>n
  <2>2. old \subseteq known
    BY <1>1 DEF Knows, Pruned
  <2>f. 0 \in Int /\ ts \in Int
    OBVIOUS
  <2>3. IsFiniteSet(0..ts) /\ known \in SUBSET (0..ts)
    BY <2>f, FS_Interval DEF Pruned
  <2>4. IsFiniteSet(known)
    BY <2>3, FS_Subset
  <2>5. IsFiniteSet(old) /\ Cardinality(old) <= Cardinality(known)
    BY <2>2, <2>4, FS_Subset
  <2>6. Cardinality(old) \in Nat /\ Cardinality(known) \in Nat
    BY <2>4, <2>5, FS_CardinalityType
  <2>7. ts \notin old
    OBVIOUS
  <2>8. Cardinality(old \cup {ts}) = Cardinality(old) + 1
    BY <2>5, <2>7, FS_AddElement
  <2>9. Cardinality(known) < MaxRestarts
    OBVIOUS
  <2>. HIDE DEF old, known, Window, new
  <2>. QED
    BY <2>1, <2>5, <2>6, <2>8, <2>9, <1>n
<1>. QED
  BY <1>2, <1>3, <1>4 DEF Limited

\* Fewer recoveries keep the limits too.
LEMMA LimitedShrinks ==
  ASSUME TypeOK, NEW times, NEW fewer, Limited(times), fewer \subseteq times,
         times \subseteq 0..lastRound
  PROVE  Limited(fewer)
<1>. DEFINE Window(set, t) == {s \in set : s <= t /\ t - s <= Hour}
<1>1. ASSUME NEW t \in fewer PROVE Cardinality(Window(fewer, t)) <= MaxRestarts
  <2>1. Window(fewer, t) \subseteq Window(times, t) /\ Window(times, t) \subseteq 0..lastRound
    OBVIOUS
  <2>n. 0 \in Int /\ lastRound \in Int
    BY NumbersTyped
  <2>f. IsFiniteSet(0..lastRound)
    BY <2>n, FS_Interval
  <2>2. IsFiniteSet(Window(times, t))
    BY <2>1, <2>f, FS_Subset
  <2>3. /\ IsFiniteSet(Window(fewer, t))
        /\ Cardinality(Window(fewer, t)) <= Cardinality(Window(times, t))
    BY <2>1, <2>2, FS_Subset
  <2>4. Cardinality(Window(fewer, t)) \in Nat /\ Cardinality(Window(times, t)) \in Nat
    BY <2>2, <2>3, FS_CardinalityType
  <2>5. Cardinality(Window(times, t)) <= MaxRestarts
    BY DEF Limited
  <2>. HIDE DEF Window
  <2>. QED
    BY <2>3, <2>4, <2>5, NumbersTyped
<1>. QED
  BY <1>1 DEF Limited

LEMMA VerifyLimited ==
  ASSUME LimitInv, TypeOK', Verify
  PROVE  LimitInv'
<1>. DEFINE p == call[Watcher].prog
<1>n. /\ lastRound \in Nat /\ Hour \in Nat /\ Cooldown \in Nat /\ Watcher \in Callers
      /\ 0 <= Hour
  BY NumbersTyped DEF LimitInv
<1>1. /\ p \in targets /\ CanRecover(p) /\ p \in Programs
      /\ lastRound \notin recoveries[p] /\ memo[p].last \in Int
  <2>1. stage \in {"stop", "start"}
    BY DEF Verify
  <2>2. p \in targets /\ CanRecover(p)
    BY <2>1 DEF LimitInv, RestartAllowed
  <2>3. lastRound \notin recoveries[p]
    BY <2>1, <2>2 DEF LimitInv, OnceARound
  <2>4. p \in Programs /\ memo[p] \in Items
    BY <1>n DEF LimitInv, TypeOK
  <2>. QED
    BY <2>2, <2>3, <2>4 DEF Items
<1>u. /\ stage = "start" /\ stage' = "round" /\ targets' = targets \ {p}
      /\ UNCHANGED <<call, lastRound, disk, unwritten>>
  BY DEF Verify
<1>3. CASE Recovered(p)
  <2>. DEFINE item == RecordRecovery(memo[p], lastRound)
  <2>1. memo' = [memo EXCEPT ![p] = item]
    BY <1>3 DEF Verify
  <2>2. recoveries' = [recoveries EXCEPT ![p] = @ \cup {lastRound}]
    BY <1>3 DEF Verify
  <2>3. item.last = lastRound /\ item.restarts = Pruned(memo[p].restarts, lastRound) \cup {lastRound}
    BY DEF RecordRecovery
  <2>. HIDE DEF item
  <2>4. /\ \A q \in Programs : memo'[q] = IF q = p THEN item ELSE memo[q]
        /\ \A q \in Programs :
             recoveries'[q] = IF q = p THEN recoveries[q] \cup {lastRound} ELSE recoveries[q]
    BY <2>1, <2>2, <1>1 DEF LimitInv, TypeOK
  <2>k. \A q \in Programs :
          /\ q # p => Kept(q)' = Kept(q)
          /\ Kept(q)' = Kept(q) \/ Kept(q)' = Kept(q) \cup {lastRound}
    BY <2>4, <1>u DEF Kept
  <2>5. PastRounds'
    <3>1. lastRound \in 0..lastRound /\ Pruned(memo[p].restarts, lastRound) \subseteq memo[p].restarts
      BY <1>n DEF Pruned
    <3>2. item.restarts \subseteq 0..lastRound
      BY <3>1, <2>3, <1>1 DEF LimitInv, PastRounds
    <3>. QED
      BY <3>1, <3>2, <2>4, <1>u DEF LimitInv, PastRounds
  <2>6. OnceARound'
    BY <2>4, <1>u DEF LimitInv, OnceARound, TypeOK
  <2>7. DiskKnows'
    <3>. SUFFICES ASSUME NEW q \in Programs, NEW t \in Kept(q)', t # lastRound
                  PROVE  Knows(disk[q], t)'
      BY <1>u DEF DiskKnows
    <3>1. t \in Kept(q)
      BY <2>k
    <3>. QED
      BY <3>1, <1>u DEF LimitInv, DiskKnows, Knows
  <2>8. MemoKnows'
    <3>. SUFFICES ASSUME NEW q \in Programs, NEW t \in Kept(q)'
                  PROVE  Knows(memo[q], t)'
      BY <1>u DEF MemoKnows
    <3>1. CASE t = lastRound /\ q = p
      BY <3>1, <2>3, <2>4, <1>u, <1>n DEF Knows
    <3>2. CASE t \in Kept(q)
      <4>1. Knows(memo[q], t) /\ t \in 0..lastRound
        BY <3>2, <1>u, <1>1 DEF LimitInv, MemoKnows, PastRounds, Kept
      <4>2. memo'[q] = memo[q] \/ (q = p /\ memo'[q] = item)
        BY <2>4
      <4>. QED
        BY <4>1, <4>2, <2>3, <1>u, <1>n DEF Knows, Pruned
    <3>. QED
      BY <3>1, <3>2, <2>k
  <2>9. RecoveriesLimited'
    <3>. SUFFICES ASSUME NEW q \in Programs PROVE Limited(Kept(q)')
      BY DEF RecoveriesLimited, Limited, Kept
    <3>1. Limited(Kept(q)) /\ TypeOK
      BY DEF LimitInv, RecoveriesLimited, Kept
    <3>2. CASE Kept(q)' = Kept(q)
      BY <3>1, <3>2
    <3>3. CASE q = p /\ Kept(q)' = Kept(q) \cup {lastRound}
      <4>1. /\ Kept(q) \subseteq 0..lastRound /\ memo[q].restarts \subseteq 0..lastRound
            /\ lastRound \notin Kept(q) /\ memo[q].last \in Int
        BY <3>3, <1>1 DEF LimitInv, PastRounds, Kept
      <4>2. \A t \in Kept(q) : Knows(memo[q], t)
        BY <1>u DEF LimitInv, MemoKnows
      <4>3. /\ lastRound - memo[q].last >= Cooldown
            /\ Cardinality(Pruned(memo[q].restarts, lastRound)) < MaxRestarts
        BY <3>3, <1>1 DEF CanRecover
      <4>4. Limited(Kept(q) \cup {lastRound})
        BY <3>1, <4>1, <4>2, <4>3, <1>n, LimitedExtends
      <4>. QED
        BY <4>4, <3>3
    <3>. QED
      BY <3>2, <3>3, <2>k
  <2>. QED
    BY <2>5, <2>6, <2>7, <2>8, <2>9, <1>u DEF LimitInv, RestartAllowed
<1>4. CASE ~Recovered(p)
  <2>. DEFINE item == [memo[p] EXCEPT !.restarts = Pruned(@, lastRound)]
  <2>1. memo' = [memo EXCEPT ![p] = item] /\ recoveries' = recoveries
    BY <1>4 DEF Verify
  <2>2. item.last = memo[p].last /\ item.restarts = Pruned(memo[p].restarts, lastRound)
    BY <1>1 DEF LimitInv, TypeOK, Items
  <2>. HIDE DEF item
  <2>3. \A q \in Programs : memo'[q] = IF q = p THEN item ELSE memo[q]
    BY <2>1, <1>1 DEF LimitInv, TypeOK
  <2>4. PastRounds'
    BY <2>1, <2>2, <2>3, <1>u DEF LimitInv, PastRounds, Pruned
  <2>5. OnceARound' /\ DiskKnows' /\ RecoveriesLimited'
    BY <2>1, <1>u DEF LimitInv, OnceARound, DiskKnows, Kept, Knows, RecoveriesLimited, Limited
  <2>6. MemoKnows'
    BY <2>1, <2>2, <2>3, <1>u DEF LimitInv, MemoKnows, Kept, Knows, Pruned
  <2>. QED
    BY <2>4, <2>5, <2>6, <1>u DEF LimitInv, RestartAllowed
<1>. QED
  BY <1>3, <1>4

LEMMA RoundLimited ==
  ASSUME LimitInv, TypeOK', Round
  PROVE  LimitInv'
<1>n. /\ now \in Nat /\ lastRound \in Nat /\ Hour \in Nat /\ Watcher \in Callers
  BY NumbersTyped DEF LimitInv
<1>1. CASE BeginRound
  <2>1. /\ stage = "sleep" /\ stage' = "round" /\ now > lastRound /\ lastRound' = now
        /\ memo' = disk /\ UNCHANGED <<disk, recoveries, unwritten>>
    BY <1>1 DEF BeginRound, observers
  <2>2. \A p \in Programs : \A t \in recoveries[p] : t \in Nat /\ t < now
    BY <2>1, <1>n DEF LimitInv, PastRounds
  <2>k. \A p \in Programs : Kept(p)' = Kept(p) /\ Kept(p) \subseteq recoveries[p]
    BY <2>1 DEF Kept
  <2>3. PastRounds'
    BY <2>1, <1>n DEF LimitInv, PastRounds
  <2>4. OnceARound'
    BY <2>1, <2>2, <1>n DEF OnceARound, LimitInv, TypeOK
  <2>5. \A p \in Programs : \A t \in Kept(p) : Knows(disk[p], t)'
    <3>. SUFFICES ASSUME NEW p \in Programs, NEW t \in Kept(p)
                  PROVE  Knows(disk[p], t)'
      OBVIOUS
    <3>1. Knows(disk[p], t)
      BY <2>1 DEF LimitInv, DiskKnows
    <3>. QED
      BY <3>1, <2>1, <2>2, <2>k, <1>n DEF Knows
  <2>6. DiskKnows' /\ MemoKnows'
    BY <2>1, <2>5, <2>k DEF DiskKnows, MemoKnows, Knows
  <2>. QED
    BY <2>1, <2>3, <2>4, <2>6 DEF LimitInv, RestartAllowed, RecoveriesLimited, Limited
<1>2. CASE RestartStarts
  <2>1. /\ stage = "stop" /\ stage' = "start"
        /\ UNCHANGED <<targets, lastRound, memo, disk, recoveries, unwritten>>
    BY <1>2 DEF RestartStarts, observers
  <2>2. call'[Watcher].prog = call[Watcher].prog
    BY <1>2, <1>n DEF RestartStarts, LimitInv, TypeOK
  <2>3. PastRounds' /\ OnceARound' /\ RecoveriesLimited'
    BY <2>1 DEF LimitInv, PastRounds, OnceARound, RecoveriesLimited, Limited
  <2>4. DiskKnows' /\ MemoKnows'
    BY <2>1 DEF LimitInv, DiskKnows, MemoKnows, Kept, Knows
  <2>5. RestartAllowed'
    BY <2>1, <2>2 DEF LimitInv, RestartAllowed, CanRecover, Pruned
  <2>. QED
    BY <2>3, <2>4, <2>5 DEF LimitInv
<1>3. CASE Verify
  BY <1>3, VerifyLimited
<1>4. CASE WriteState
  <2>1. /\ stage = "round" /\ stage' = "sleep" /\ disk' = memo
        /\ UNCHANGED <<targets, lastRound, memo, recoveries, unwritten>>
    BY <1>4 DEF WriteState, observers
  <2>2. PastRounds' /\ OnceARound' /\ RecoveriesLimited' /\ RestartAllowed' /\ MemoKnows'
    BY <2>1 DEF LimitInv, PastRounds, OnceARound, RecoveriesLimited, Limited,
                RestartAllowed, MemoKnows, Kept
  <2>3. DiskKnows'
    BY <2>1 DEF LimitInv, MemoKnows, DiskKnows, Kept, Knows
  <2>. QED
    BY <2>2, <2>3 DEF LimitInv
<1>5. ASSUME NEW p \in Programs, Skip(p) PROVE LimitInv'
  <2>. DEFINE item == [memo[p] EXCEPT !.restarts = Pruned(@, lastRound)]
  <2>1. /\ stage = "round" /\ targets' = targets \ {p} /\ memo' = [memo EXCEPT ![p] = item]
        /\ UNCHANGED <<stage, lastRound, disk, recoveries, unwritten>>
    BY <1>5 DEF Skip, observers
  <2>2. item.last = memo[p].last /\ item.restarts = Pruned(memo[p].restarts, lastRound)
    BY DEF LimitInv, TypeOK, Items
  <2>. HIDE DEF item
  <2>3. \A q \in Programs : memo'[q] = IF q = p THEN item ELSE memo[q]
    BY <2>1 DEF LimitInv, TypeOK
  <2>4. PastRounds'
    BY <2>1, <2>2, <2>3 DEF LimitInv, PastRounds, Pruned
  <2>5. OnceARound' /\ DiskKnows' /\ RecoveriesLimited' /\ RestartAllowed'
    BY <2>1 DEF LimitInv, OnceARound, DiskKnows, Kept, Knows, RecoveriesLimited, Limited,
                RestartAllowed
  <2>6. MemoKnows'
    BY <2>1, <2>2, <2>3 DEF LimitInv, MemoKnows, Kept, Knows, Pruned
  <2>. QED
    BY <2>4, <2>5, <2>6 DEF LimitInv
<1>6. ASSUME NEW p \in Programs, RestartStops(p) PROVE LimitInv'
  <2>1. /\ stage = "round" /\ stage' = "stop" /\ p \in targets /\ CanRecover(p)
        /\ UNCHANGED <<targets, lastRound, memo, disk, recoveries, unwritten>>
    BY <1>6 DEF RestartStops, observers
  <2>2. call'[Watcher].prog = p
    BY <1>6, <1>n DEF RestartStops, LimitInv, TypeOK, NoCall
  <2>3. PastRounds' /\ OnceARound' /\ RecoveriesLimited'
    BY <2>1 DEF LimitInv, PastRounds, OnceARound, RecoveriesLimited, Limited
  <2>4. DiskKnows' /\ MemoKnows'
    BY <2>1 DEF LimitInv, DiskKnows, MemoKnows, Kept, Knows
  <2>5. RestartAllowed'
    BY <2>1, <2>2 DEF RestartAllowed, CanRecover, Pruned
  <2>. QED
    BY <2>3, <2>4, <2>5 DEF LimitInv
<1>. QED
  BY <1>1, <1>2, <1>3, <1>4, <1>5, <1>6 DEF Round

LEMMA NextLimited ==
  ASSUME LimitInv, [Next]_vars
  PROVE  LimitInv'
<1>n. /\ lastRound \in Nat /\ Watcher \in Callers /\ TypeOK /\ TypeOK'
  BY NumbersTyped, NextTyped DEF LimitInv
<1>1. ASSUME NEW c \in Callers, Manager(c) PROVE LimitInv'
  <2>1. UNCHANGED <<stage, targets, lastRound, memo, disk, recoveries, unwritten>>
    BY <1>1 DEF Manager, Look, Spawn, WritePidFile, Signal, Check, RemovePidFile,
                watchdog, observers, overlaps
  <2>2. call'[Watcher].prog = call[Watcher].prog
    <3>1. CASE Spawn(c)
      BY <3>1, <1>n DEF Spawn, TypeOK
    <3>2. CASE ~Spawn(c)
      <4>1. \/ Return(c)
            \/ \E step \in Steps : Step(c, step)
        BY <1>1, <3>2 DEF Manager, Look, WritePidFile, Signal, Check, RemovePidFile, Steps
      <4>. QED
        BY <4>1, <1>n, StepTyped, ReturnTyped
    <3>. QED
      BY <3>1, <3>2
  <2>. QED
    BY <2>1, <2>2, <1>n, LimitUntouched
<1>2. ASSUME NEW c \in Operators, Command(c) PROVE LimitInv'
  <2>1. call'[Watcher] = call[Watcher]
    BY <1>2, <1>n, WatchdogAssumption DEF Command, TypeOK, Callers
  <2>. QED
    BY <1>2, <2>1, <1>n, LimitUntouched DEF Command, watchdog, observers, overlaps
<1>3. CASE Round
  BY <1>3, <1>n, RoundLimited
<1>4. ASSUME NEW p \in Programs, Exit(p) \/ Hang(p) PROVE LimitInv'
  BY <1>4, <1>n, LimitUntouched DEF Exit, Ends, Hang, watchdog, observers, overlaps
<1>5. CASE WatcherDies
  <2>1. /\ stage' = "sleep" /\ targets' = {}
        /\ UNCHANGED <<lastRound, memo, disk, recoveries>>
        /\ unwritten' = IF stage = "sleep" THEN unwritten ELSE unwritten \cup {lastRound}
    BY <1>5 DEF WatcherDies
  <2>2. PastRounds' /\ OnceARound' /\ MemoKnows' /\ RestartAllowed'
    BY <2>1 DEF LimitInv, PastRounds, OnceARound, MemoKnows, RestartAllowed
  <2>3. \A p \in Programs : \A t \in Kept(p)' :
          t \in Kept(p) /\ (stage = "sleep" \/ t # lastRound)
    BY <2>1 DEF Kept
  <2>4. RecoveriesLimited'
    <3>. SUFFICES ASSUME NEW p \in Programs PROVE Limited(Kept(p)')
      BY DEF RecoveriesLimited, Limited, Kept
    <3>1. Limited(Kept(p)) /\ Kept(p) \subseteq 0..lastRound /\ Kept(p)' \subseteq Kept(p)
      BY <2>3 DEF LimitInv, RecoveriesLimited, PastRounds, Kept
    <3>. QED
      BY <3>1, <1>n, LimitedShrinks
  <2>5. DiskKnows'
    BY <2>1, <2>3 DEF LimitInv, DiskKnows, Knows
  <2>. QED
    BY <2>2, <2>4, <2>5, <1>n DEF LimitInv
<1>6. CASE WatcherStarts
  BY <1>6, <1>n, LimitUntouched DEF WatcherStarts, observers
<1>7. CASE Tick
  BY <1>7, <1>n, LimitUntouched DEF Tick, watchdog, observers, overlaps
<1>8. CASE UNCHANGED vars
  BY <1>8, <1>n, LimitUntouched DEF vars, watchdog, observers, overlaps
<1>. QED
  BY <1>1, <1>2, <1>3, <1>4, <1>5, <1>6, <1>7, <1>8 DEF Next

\* The recoveries the watchdog records keep the cooldown and the hourly limit,
\* whatever operators, failures and restarts of the watchdog do meanwhile; its death
\* takes out of the count the recoveries of the round it cuts off and no others.
THEOREM RecoveriesAlwaysLimited == Spec => []RecoveriesLimited
<1>1. LimitInv => RecoveriesLimited
  BY DEF LimitInv
<1>. QED
  BY <1>1, InitLimited, NextLimited, PTL DEF Spec

-----------------------------------------------------------------------------
(* One copy of a program                                                   *)

\* At most one process, without a word on its number.
Single(p) == live[p] = {} \/ \E pid \in live[p] : live[p] = {pid}

\* A caller about to start a program is the only one, and the program still
\* does not run.
StartsAlone ==
  \A c \in Callers :
    At(c, "spawn") /\ call[c].prog \notin raced
      => live[call[c].prog] = {} /\ ~Beside(c, {"spawn"})

CopyInv == TypeOK /\ StartsAlone /\ \A p \in Programs \ raced : Single(p)

LEMMA InitCopies == Init => CopyInv
<1>. SUFFICES ASSUME Init PROVE CopyInv
  OBVIOUS
<1>1. \A c \in Callers : call[c].step = "idle"
  BY AnythingTyped, NoCallTyped DEF Init
<1>. QED
  BY <1>1, InitTyped DEF Init, CopyInv, StartsAlone, Single, At

\* Fewer processes, and no caller newly about to start one.
LEMMA CopiesShrink ==
  ASSUME CopyInv, TypeOK', raced' = raced,
         \A p \in Programs : live'[p] \subseteq live[p],
         \A d \in Callers : call'[d] = call[d] \/ call'[d].step # "spawn"
  PROVE  CopyInv'
<1>1. \A p \in Programs : Single(p) => Single(p)'
  BY DEF Single
<1>2. StartsAlone'
  <2>. SUFFICES ASSUME NEW c \in Callers, At(c, "spawn")', call'[c].prog \notin raced
                PROVE  live'[call'[c].prog] = {} /\ ~Beside(c, {"spawn"})'
    BY DEF StartsAlone
  <2>1. call'[c] = call[c] /\ call[c].prog \in Programs /\ At(c, "spawn")
    BY DEF At, CopyInv, TypeOK
  <2>2. live[call[c].prog] = {} /\ ~Beside(c, {"spawn"})
    BY <2>1 DEF CopyInv, StartsAlone
  <2>3. ASSUME NEW d \in Callers \ {c}, call'[d].prog = call'[c].prog, call'[d].step = "spawn"
        PROVE  FALSE
    BY <2>1, <2>2, <2>3 DEF Beside
  <2>. QED
    BY <2>1, <2>2, <2>3 DEF Beside
<1>. QED
  BY <1>1, <1>2 DEF CopyInv

\* start_program found the program not running and goes on.
LEMMA LookCopies ==
  ASSUME CopyInv, TypeOK', NEW c \in Callers, UNCHANGED live, live[call[c].prog] = {},
         Step(c, "spawn"), EntersStart(c)
  PROVE  CopyInv'
<1>. DEFINE p == call[c].prog
<1>1. /\ call'[c].step = "spawn" /\ call'[c].prog = p /\ p \in Programs
      /\ \A d \in Callers : d # c => call'[d] = call[d]
  BY StepTyped DEF Steps, CopyInv, TypeOK
<1>2. /\ \A q : q # p => (q \in raced' <=> q \in raced)
      /\ p \notin raced' => ~Beside(c, {"spawn"})
  BY DEF EntersStart, Observe
<1>3. \A q \in Programs \ raced' : Single(q)'
  BY <1>2 DEF CopyInv, Single
<1>4. ASSUME NEW d \in Callers, At(d, "spawn")', call'[d].prog \notin raced'
      PROVE  live'[call'[d].prog] = {} /\ ~Beside(d, {"spawn"})'
  <2>1. CASE d = c
    BY <1>1, <1>2, <1>4, <2>1 DEF Beside
  <2>2. CASE d # c
    <3>1. call'[d] = call[d] /\ At(d, "spawn")
      BY <1>1, <1>4, <2>2 DEF At
    <3>2. call[d].prog # p
      <4>. SUFFICES ASSUME call[d].prog = p PROVE FALSE
        OBVIOUS
      <4>1. Beside(c, {"spawn"})
        BY <3>1, <2>2 DEF Beside, At
      <4>. QED
        BY <4>1, <3>1, <1>2, <1>4
    <3>3. call[d].prog \notin raced
      BY <3>1, <3>2, <1>2, <1>4
    <3>4. live[call[d].prog] = {} /\ ~Beside(d, {"spawn"})
      BY <3>1, <3>3 DEF CopyInv, StartsAlone
    <3>. QED
      BY <3>1, <3>2, <3>4, <1>1 DEF Beside
  <2>. QED
    BY <2>1, <2>2
<1>. QED
  BY <1>3, <1>4 DEF CopyInv, StartsAlone

LEMMA SpawnCopies ==
  ASSUME CopyInv, TypeOK', NEW c \in Callers, Spawn(c)
  PROVE  CopyInv'
<1>. DEFINE p == call[c].prog
            pid == spawned + 1
<1>1. /\ p \in Programs /\ raced' = raced /\ At(c, "spawn")
      /\ \A q \in Programs : live'[q] = IF q = p THEN live[p] \cup {pid} ELSE live[q]
      /\ call'[c] = [step |-> "record", prog |-> p, pid |-> pid]
      /\ \A d \in Callers : d # c => call'[d] = call[d]
  BY DEF Spawn, CopyInv, TypeOK, observers, overlaps
<1>2. p \notin raced => live[p] = {} /\ ~Beside(c, {"spawn"})
  BY <1>1 DEF CopyInv, StartsAlone
<1>3. \A q \in Programs \ raced' : Single(q)'
  BY <1>1, <1>2 DEF CopyInv, Single
<1>4. ASSUME NEW d \in Callers, At(d, "spawn")', call'[d].prog \notin raced'
      PROVE  live'[call'[d].prog] = {} /\ ~Beside(d, {"spawn"})'
  <2>1. d # c /\ call'[d] = call[d] /\ call[d].prog \in Programs /\ At(d, "spawn")
    BY <1>1, <1>4 DEF At, CopyInv, TypeOK
  <2>2. live[call[d].prog] = {} /\ ~Beside(d, {"spawn"})
    BY <2>1, <1>1, <1>4 DEF CopyInv, StartsAlone
  <2>3. call[d].prog # p
    BY <2>1, <2>2, <1>1 DEF Beside, At
  <2>. QED
    BY <2>1, <2>2, <2>3, <1>1 DEF Beside
<1>. QED
  BY <1>3, <1>4 DEF CopyInv, StartsAlone

\* What the callers do inside the process manager, for both invariants: only a
\* start makes processes, and a listing keeps the PID file of what runs.
LEMMA ManagerSteps ==
  ASSUME TypeOK, NEW c \in Callers, Manager(c)
  PROVE  /\ \A d \in Callers : d # c => call'[d] = call[d]
         /\ UNCHANGED <<recoveries, unwritten>>
         /\ ~Spawn(c) => /\ \A p \in Programs : live'[p] \subseteq live[p]
                         /\ call'[c].prog = call[c].prog
<1>1. CASE Spawn(c)
  BY <1>1 DEF Spawn, TypeOK, observers
<1>2. CASE ~Spawn(c)
  <2>1. \/ Return(c)
        \/ \E step \in Steps : Step(c, step)
    BY <1>2 DEF Manager, Look, WritePidFile, Signal, Check, RemovePidFile, Steps
  <2>2. /\ \A d \in Callers : d # c => call'[d] = call[d]
        /\ call'[c].prog = call[c].prog
    BY <2>1, StepTyped, ReturnTyped
  <2>3. CASE Signal(c)
    BY <2>2, <2>3, <1>2 DEF Signal, TypeOK, observers
  <2>4. CASE ~Signal(c)
    BY <2>2, <2>4, <1>2
       DEF Manager, Look, WritePidFile, Check, RemovePidFile, processes, observers
  <2>. QED
    BY <2>3, <2>4
<1>. QED
  BY <1>1, <1>2

\* The steps of the watchdog outside the process manager begin its calls only.
LEMMA RoundSteps ==
  ASSUME TypeOK, Round
  PROVE  /\ UNCHANGED <<live, pidfile, unwritten, overlaps>>
         /\ \A d \in Callers :
              \/ call'[d] = call[d]
              \/ call[d].step # "record" /\ call'[d].step \in {"look", "signal"}
<1>1. UNCHANGED <<live, pidfile, unwritten, overlaps>>
  BY DEF Round, BeginRound, RestartStarts, Verify, WriteState, Skip, RestartStops,
         processes, observers
<1>2. CASE RestartStarts
  BY <1>1, <1>2 DEF RestartStarts, TypeOK, At
<1>3. ASSUME NEW p \in Programs, RestartStops(p)
      PROVE  \A d \in Callers :
               \/ call'[d] = call[d]
               \/ call[d].step # "record" /\ call'[d].step = "signal"
  BY <1>3 DEF RestartStops, TypeOK, At, NoCall
<1>4. CASE BeginRound \/ Verify \/ WriteState \/ \E p \in Programs : Skip(p)
  BY <1>1, <1>4 DEF BeginRound, Verify, WriteState, Skip
<1>. QED
  BY <1>1, <1>2, <1>3, <1>4 DEF Round

\* Everything else: commands, ends of processes, faults, time.
LEMMA OtherSteps ==
  ASSUME TypeOK,
         \/ \E c \in Operators : Command(c)
         \/ \E p \in Programs : Exit(p) \/ Hang(p)
         \/ WatcherDies \/ WatcherStarts \/ Tick \/ UNCHANGED vars
  PROVE  /\ UNCHANGED <<pidfile, raced>>
         /\ \A p \in Programs : live'[p] \subseteq live[p]
         /\ astray \subseteq astray'
         /\ \A d \in Callers :
              \/ call'[d] = call[d]
              \/ /\ call'[d].step \in {"idle", "look", "signal"}
                 /\ call[d].step = "record" => call[d].prog \in astray'
<1>1. ASSUME NEW c \in Operators, Command(c)
      PROVE  /\ UNCHANGED <<pidfile, live, overlaps>>
             /\ \A d \in Callers :
                  \/ call'[d] = call[d]
                  \/ call[d].step # "record" /\ call'[d].step \in {"look", "signal"}
  BY <1>1 DEF Command, Callers, TypeOK, At, NoCall, processes, observers
<1>2. ASSUME NEW p \in Programs, Exit(p)
      PROVE  /\ UNCHANGED <<pidfile, overlaps, call>>
             /\ \A q \in Programs : live'[q] \subseteq live[q]
  BY <1>2 DEF Exit, Ends, TypeOK, observers
<1>3. CASE WatcherDies
  <2>1. /\ UNCHANGED <<pidfile, live, raced>>
        /\ astray' = IF At(Watcher, "record") THEN astray \cup {call[Watcher].prog} ELSE astray
        /\ call' = [call EXCEPT ![Watcher] = NoCall(Anything)]
    BY <1>3 DEF WatcherDies
  <2>2. \A d \in Callers : d # Watcher => call'[d] = call[d]
    BY <2>1 DEF TypeOK
  <2>3. call'[Watcher].step = "idle"
    BY <2>1, AnythingTyped, NoCallTyped DEF TypeOK, Callers
  <2>. QED
    BY <2>1, <2>2, <2>3 DEF At
<1>4. CASE (\E p \in Programs : Hang(p)) \/ WatcherStarts \/ Tick \/ UNCHANGED vars
  BY <1>4 DEF Hang, WatcherStarts, Tick, vars, processes, observers, overlaps
<1>. QED
  BY <1>1, <1>2, <1>3, <1>4 DEF overlaps

LEMMA NextCopies ==
  ASSUME CopyInv, [Next]_vars
  PROVE  CopyInv'
<1>t. TypeOK /\ TypeOK'
  BY NextTyped DEF CopyInv
<1>1. ASSUME NEW c \in Callers, Manager(c) PROVE CopyInv'
  <2>1. CASE Look(c) /\ live[call[c].prog] = {}
    BY <2>1, <1>t, LookCopies DEF Look
  <2>2. CASE Spawn(c)
    BY <2>2, <1>t, SpawnCopies
  <2>3. CASE \/ Look(c) /\ live[call[c].prog] # {}
             \/ WritePidFile(c) \/ Signal(c) \/ Check(c) \/ RemovePidFile(c)
    <3>1. raced' = raced /\ ~Spawn(c)
      BY <2>3 DEF Look, WritePidFile, Signal, Check, RemovePidFile, Spawn, At, observers,
                  overlaps
    <3>2. call'[c].step # "spawn"
      <4>1. Return(c) \/ \E step \in Steps \ {"spawn"} : Step(c, step)
        BY <2>3 DEF Look, WritePidFile, Signal, Check, RemovePidFile, Steps
      <4>. QED
        BY <4>1, <1>t, StepTyped, ReturnTyped
    <3>. QED
      BY <1>1, <3>1, <3>2, <1>t, ManagerSteps, CopiesShrink
  <2>. QED
    BY <1>1, <2>1, <2>2, <2>3 DEF Manager
<1>2. CASE Round
  BY <1>2, <1>t, RoundSteps, CopiesShrink DEF overlaps
<1>3. CASE \/ \E c \in Operators : Command(c)
           \/ \E p \in Programs : Exit(p) \/ Hang(p)
           \/ WatcherDies \/ WatcherStarts \/ Tick \/ UNCHANGED vars
  BY <1>3, <1>t, OtherSteps, CopiesShrink
<1>. QED
  BY <1>1, <1>2, <1>3 DEF Next

LEMMA CopiesCounted == CopyInv => OneCopy
<1>. SUFFICES ASSUME CopyInv, NEW p \in Programs \ raced PROVE Cardinality(live[p]) <= 1
  BY DEF OneCopy
<1>1. CASE live[p] = {}
  BY <1>1, FS_EmptySet
<1>2. CASE live[p] # {}
  <2>1. PICK pid \in live[p] : live[p] = {pid}
    BY <1>2 DEF CopyInv, Single
  <2>2. Cardinality({pid}) = 1
    BY FS_Singleton
  <2>. QED
    BY <2>1, <2>2
<1>. QED
  BY <1>1, <1>2

\* Whatever operators and the watchdog start and stop, and wherever the watchdog
\* dies: a program runs at most once, unless two callers of start_program met
\* between its look at the process list and its start.
THEOREM OneCopyAlways == Spec => []OneCopy
<1>1. CopyInv /\ [Next]_vars => CopyInv'
  BY NextCopies
<1>. QED
  BY <1>1, InitCopies, CopiesCounted, PTL DEF Spec

-----------------------------------------------------------------------------
(* PID files                                                               *)

\* From what a caller saw to what it does about the program and its PID file.
Acts == {"spawn", "record", "remove"}

\* A caller at work on a program is the only one, and what it saw still holds.
ActsAlone ==
  \A c \in Callers :
    LET p == call[c].prog
    IN  call[c].step \in Acts /\ p \notin astray
          => /\ ~Beside(c, Acts)
             /\ At(c, "spawn") \/ At(c, "remove") => live[p] = {}
             /\ At(c, "record") => live[p] \subseteq {call[c].pid}

\* A running program has its PID file, or a caller is about to write it.
FileNames ==
  \A p \in Programs \ astray :
    \/ live[p] = {}
    \/ pidfile[p] \in live[p]
    \/ \E c \in Callers : At(c, "record") /\ call[c].prog = p

FileInv ==
  TypeOK /\ ActsAlone /\ FileNames /\ \A p \in Programs \ astray : Single(p)

LEMMA InitFiles == Init => FileInv
<1>. SUFFICES ASSUME Init PROVE FileInv
  OBVIOUS
<1>1. \A c \in Callers : call[c].step = "idle"
  BY AnythingTyped, NoCallTyped DEF Init
<1>. QED
  BY <1>1, InitTyped DEF Init, FileInv, ActsAlone, Acts, FileNames, Single

\* Fewer processes, and callers where they were or done.
LEMMA FilesShrink ==
  ASSUME FileInv, TypeOK', astray \subseteq astray',
         \A p \in Programs : live'[p] \subseteq live[p],
         \A p \in Programs \ astray : pidfile[p] \in live[p] => pidfile'[p] = pidfile[p],
         \A d \in Callers :
           \/ call'[d] = call[d]
           \/ /\ call'[d].step \notin Acts
              /\ call[d].step = "record" => call[d].prog \in astray'
  PROVE  FileInv'
<1>1. \A p \in Programs \ astray' : Single(p)'
  BY DEF FileInv, Single
<1>2. ASSUME NEW c \in Callers, call'[c].step \in Acts, call'[c].prog \notin astray'
      PROVE  /\ ~Beside(c, Acts)'
             /\ At(c, "spawn")' \/ At(c, "remove")' => live'[call'[c].prog] = {}
             /\ At(c, "record")' => live'[call'[c].prog] \subseteq {call'[c].pid}
  <2>1. call'[c] = call[c] /\ call[c].prog \in Programs
    BY <1>2 DEF FileInv, TypeOK
  <2>2. /\ ~Beside(c, Acts)
        /\ At(c, "spawn") \/ At(c, "remove") => live[call[c].prog] = {}
        /\ At(c, "record") => live[call[c].prog] \subseteq {call[c].pid}
    BY <2>1, <1>2 DEF FileInv, ActsAlone
  <2>3. ~Beside(c, Acts)'
    BY <2>1, <2>2 DEF Beside
  <2>. QED
    BY <2>1, <2>2, <2>3 DEF At
<1>3. ASSUME NEW p \in Programs \ astray', live'[p] # {},
             ~\E c \in Callers : At(c, "record")' /\ call'[c].prog = p
      PROVE  pidfile'[p] \in live'[p]
  <2>1. ~\E c \in Callers : At(c, "record") /\ call[c].prog = p
    BY <1>3 DEF At
  <2>2. pidfile[p] \in live[p]
    BY <1>3, <2>1 DEF FileInv, FileNames
  <2>3. PICK pid \in live[p] : live[p] = {pid}
    BY <2>2 DEF FileInv, Single
  <2>. QED
    BY <1>3, <2>2, <2>3
<1>4. ActsAlone'
  BY <1>2 DEF ActsAlone
<1>5. FileNames'
  BY <1>3 DEF FileNames
<1>. QED
  BY <1>1, <1>4, <1>5 DEF FileInv

\* A caller found the program not running and goes on to start it or to remove
\* its PID file.
LEMMA EnterFiles ==
  ASSUME FileInv, TypeOK', NEW c \in Callers, NEW step \in {"spawn", "remove"},
         UNCHANGED live, live[call[c].prog] = {}, ~At(c, "record"),
         \A q \in Programs : pidfile[q] \in live[q] => pidfile'[q] = pidfile[q],
         Step(c, step), Enters(c)
  PROVE  FileInv'
<1>. DEFINE p == call[c].prog
<1>1. /\ call'[c].step = step /\ call'[c].prog = p /\ p \in Programs
      /\ \A d \in Callers : d # c => call'[d] = call[d]
  BY StepTyped DEF Steps, FileInv, TypeOK
<1>2. /\ \A q : q # p => (q \in astray' <=> q \in astray)
      /\ p \notin astray' => ~Beside(c, Acts)
  BY DEF Enters, Observe, Acts
<1>3. \A q \in Programs \ astray' : Single(q)'
  BY <1>2 DEF FileInv, Single
<1>4. ASSUME NEW d \in Callers, call'[d].step \in Acts, call'[d].prog \notin astray'
      PROVE  /\ ~Beside(d, Acts)'
             /\ At(d, "spawn")' \/ At(d, "remove")' => live'[call'[d].prog] = {}
             /\ At(d, "record")' => live'[call'[d].prog] \subseteq {call'[d].pid}
  <2>1. CASE d = c
    BY <1>1, <1>2, <1>4, <2>1 DEF Beside, At
  <2>2. CASE d # c
    <3>1. call'[d] = call[d]
      BY <1>1, <2>2
    <3>2. call[d].prog # p
      <4>. SUFFICES ASSUME call[d].prog = p PROVE FALSE
        OBVIOUS
      <4>1. Beside(c, Acts)
        BY <3>1, <2>2, <1>4 DEF Beside
      <4>. QED
        BY <4>1, <3>1, <1>2, <1>4
    <3>3. call[d].prog \notin astray
      BY <3>1, <3>2, <1>2, <1>4
    <3>4. /\ ~Beside(d, Acts)
          /\ At(d, "spawn") \/ At(d, "remove") => live[call[d].prog] = {}
          /\ At(d, "record") => live[call[d].prog] \subseteq {call[d].pid}
      BY <3>1, <3>3, <1>4 DEF FileInv, ActsAlone
    <3>5. ~Beside(d, Acts)'
      BY <3>1, <3>2, <3>4, <1>1 DEF Beside
    <3>. QED
      BY <3>1, <3>4, <3>5 DEF At
  <2>. QED
    BY <2>1, <2>2
<1>5. FileNames'
  <2>. SUFFICES ASSUME NEW q \in Programs \ astray', live[q] # {},
                       ~\E d \in Callers : At(d, "record")' /\ call'[d].prog = q
                PROVE  pidfile'[q] \in live[q]
    BY DEF FileNames
  <2>1. q # p /\ q \notin astray
    BY <1>2
  <2>2. ~\E d \in Callers : At(d, "record") /\ call[d].prog = q
    BY <1>1 DEF At
  <2>. QED
    BY <2>1, <2>2 DEF FileInv, FileNames
<1>6. ActsAlone'
  BY <1>4 DEF ActsAlone
<1>. QED
  BY <1>3, <1>5, <1>6 DEF FileInv

LEMMA SpawnFiles ==
  ASSUME FileInv, TypeOK', NEW c \in Callers, Spawn(c)
  PROVE  FileInv'
<1>. DEFINE p == call[c].prog
            pid == spawned + 1
<1>1. /\ p \in Programs /\ UNCHANGED <<astray, pidfile>> /\ At(c, "spawn")
      /\ \A q \in Programs : live'[q] = IF q = p THEN live[p] \cup {pid} ELSE live[q]
      /\ call'[c] = [step |-> "record", prog |-> p, pid |-> pid]
      /\ \A d \in Callers : d # c => call'[d] = call[d]
  BY DEF Spawn, FileInv, TypeOK, observers, overlaps
<1>2. p \notin astray => live[p] = {} /\ ~Beside(c, Acts)
  BY <1>1 DEF FileInv, ActsAlone, At, Acts
<1>3. \A q \in Programs \ astray' : Single(q)'
  BY <1>1, <1>2 DEF FileInv, Single
<1>4. ASSUME NEW d \in Callers, call'[d].step \in Acts, call'[d].prog \notin astray'
      PROVE  /\ ~Beside(d, Acts)'
             /\ At(d, "spawn")' \/ At(d, "remove")' => live'[call'[d].prog] = {}
             /\ At(d, "record")' => live'[call'[d].prog] \subseteq {call'[d].pid}
  <2>1. CASE d = c
    BY <1>1, <1>2, <1>4, <2>1 DEF Beside, At
  <2>2. CASE d # c
    <3>1. call'[d] = call[d] /\ call[d].prog \in Programs
      BY <1>1, <2>2 DEF FileInv, TypeOK
    <3>2. /\ ~Beside(d, Acts)
          /\ At(d, "spawn") \/ At(d, "remove") => live[call[d].prog] = {}
          /\ At(d, "record") => live[call[d].prog] \subseteq {call[d].pid}
      BY <3>1, <1>1, <1>4 DEF FileInv, ActsAlone
    <3>3. call[d].prog # p
      BY <3>2, <2>2, <1>1 DEF Beside, Acts, At
    <3>4. ~Beside(d, Acts)'
      BY <3>1, <3>2, <3>3, <1>1 DEF Beside
    <3>. QED
      BY <3>1, <3>2, <3>3, <3>4, <1>1 DEF At
  <2>. QED
    BY <2>1, <2>2
<1>5. FileNames'
  <2>1. At(c, "record")' /\ call'[c].prog = p
    BY <1>1 DEF At
  <2>2. \A d \in Callers : At(d, "record") => At(d, "record")' /\ call'[d].prog = call[d].prog
    BY <1>1 DEF At
  <2>. QED
    BY <1>1, <2>1, <2>2 DEF FileInv, FileNames
<1>6. ActsAlone'
  BY <1>4 DEF ActsAlone
<1>. QED
  BY <1>3, <1>5, <1>6 DEF FileInv

LEMMA WritePidFileFiles ==
  ASSUME FileInv, TypeOK', NEW c \in Callers, WritePidFile(c)
  PROVE  FileInv'
<1>. DEFINE p == call[c].prog
<1>1. /\ p \in Programs /\ UNCHANGED <<astray, live>> /\ At(c, "record")
      /\ \A q \in Programs : pidfile'[q] = IF q = p THEN call[c].pid ELSE pidfile[q]
      /\ call'[c].step = "idle"
      /\ \A d \in Callers : d # c => call'[d] = call[d]
  BY ReturnTyped DEF WritePidFile, FileInv, TypeOK, observers, overlaps
<1>2. p \notin astray => live[p] \subseteq {call[c].pid}
  BY <1>1 DEF FileInv, ActsAlone, At, Acts
<1>3. \A q \in Programs \ astray' : Single(q)'
  BY <1>1 DEF FileInv, Single
<1>4. ASSUME NEW d \in Callers, call'[d].step \in Acts, call'[d].prog \notin astray'
      PROVE  /\ ~Beside(d, Acts)'
             /\ At(d, "spawn")' \/ At(d, "remove")' => live'[call'[d].prog] = {}
             /\ At(d, "record")' => live'[call'[d].prog] \subseteq {call'[d].pid}
  <2>1. d # c /\ call'[d] = call[d]
    BY <1>1, <1>4 DEF Acts
  <2>2. /\ ~Beside(d, Acts)
        /\ At(d, "spawn") \/ At(d, "remove") => live[call[d].prog] = {}
        /\ At(d, "record") => live[call[d].prog] \subseteq {call[d].pid}
    BY <2>1, <1>1, <1>4 DEF FileInv, ActsAlone
  <2>3. ~Beside(d, Acts)'
    BY <2>1, <2>2, <1>1 DEF Beside, Acts
  <2>. QED
    BY <2>1, <2>2, <2>3, <1>1 DEF At
<1>5. FileNames'
  <2>. SUFFICES ASSUME NEW q \in Programs \ astray, live[q] # {},
                       ~\E d \in Callers : At(d, "record")' /\ call'[d].prog = q
                PROVE  pidfile'[q] \in live[q]
    BY <1>1 DEF FileNames
  <2>1. CASE q = p
    BY <2>1, <1>1, <1>2
  <2>2. CASE q # p
    <3>1. ~\E d \in Callers : At(d, "record") /\ call[d].prog = q
      BY <2>2, <1>1 DEF At
    <3>. QED
      BY <2>2, <3>1, <1>1 DEF FileInv, FileNames
  <2>. QED
    BY <2>1, <2>2
<1>6. ActsAlone'
  BY <1>4 DEF ActsAlone
<1>. QED
  BY <1>3, <1>5, <1>6 DEF FileInv

LEMMA ManagerFiles ==
  ASSUME FileInv, TypeOK', NEW c \in Callers, Manager(c)
  PROVE  FileInv'
<1>. DEFINE p == call[c].prog
<1>t. TypeOK /\ p \in Programs
  BY DEF FileInv, TypeOK
<1>l. ASSUME NEW q \in Programs, pidfile[q] \in live[q] PROVE pidfile[q] \in Running
  BY <1>l DEF Running
<1>1. CASE (Look(c) \/ Check(c)) /\ live[p] = {}
  <2>1. /\ UNCHANGED live /\ Enters(c) /\ ~At(c, "record")
        /\ \E step \in {"spawn", "remove"} : Step(c, step)
    BY <1>1 DEF Look, Check, EntersStart, At
  <2>2. \A q \in Programs : pidfile[q] \in live[q] => pidfile'[q] = pidfile[q]
    BY <1>1, <1>l DEF Look, Check, ListProcesses
  <2>. QED
    BY <1>1, <2>1, <2>2, EnterFiles
<1>2. CASE Spawn(c)
  BY <1>2, SpawnFiles
<1>3. CASE WritePidFile(c)
  BY <1>3, WritePidFileFiles
<1>4. CASE (Look(c) \/ Check(c)) /\ live[p] # {}
  <2>1. astray' = astray /\ ~At(c, "record") /\ Return(c) /\ ~Spawn(c)
    BY <1>4 DEF Look, Check, Spawn, overlaps, At
  <2>2. \A q \in Programs : pidfile[q] \in live[q] => pidfile'[q] = pidfile[q]
    BY <1>4, <1>l DEF Look, Check, ListProcesses
  <2>3. call'[c].step = "idle"
    BY <2>1, <1>t, ReturnTyped
  <2>. QED
    BY <2>1, <2>2, <2>3, <1>t, ManagerSteps, FilesShrink DEF Acts, At
<1>5. CASE Signal(c)
  <2>1. /\ astray' = astray /\ ~At(c, "record") /\ ~Spawn(c)
        /\ \A q \in Programs : pidfile[q] \in live[q] => pidfile'[q] = pidfile[q]
    BY <1>5, <1>l DEF Signal, Spawn, observers, overlaps, At
  <2>2. call'[c].step = "check"
    BY <1>5, <1>t, StepTyped DEF Signal, Steps
  <2>. QED
    BY <2>1, <2>2, <1>t, ManagerSteps, FilesShrink DEF Acts, At
<1>6. CASE RemovePidFile(c)
  <2>1. /\ astray' = astray /\ ~At(c, "record") /\ ~Spawn(c)
        /\ p \notin astray => live[p] = {}
    BY <1>6 DEF RemovePidFile, Spawn, observers, overlaps, At, FileInv, ActsAlone, Acts
  <2>2. \A q \in Programs \ astray : pidfile[q] \in live[q] => pidfile'[q] = pidfile[q]
    BY <1>6, <2>1, <1>t DEF RemovePidFile, TypeOK
  <2>3. call'[c].step = "idle"
    BY <1>6, <1>t, ReturnTyped DEF RemovePidFile
  <2>. QED
    BY <2>1, <2>2, <2>3, <1>t, ManagerSteps, FilesShrink DEF Acts, At
<1>. QED
  BY <1>1, <1>2, <1>3, <1>4, <1>5, <1>6 DEF Manager

LEMMA NextFiles ==
  ASSUME FileInv, [Next]_vars
  PROVE  FileInv'
<1>t. TypeOK /\ TypeOK'
  BY NextTyped DEF FileInv
<1>1. ASSUME NEW c \in Callers, Manager(c) PROVE FileInv'
  BY <1>1, <1>t, ManagerFiles
<1>2. CASE Round
  BY <1>2, <1>t, RoundSteps, FilesShrink DEF overlaps, Acts
<1>3. CASE \/ \E c \in Operators : Command(c)
           \/ \E p \in Programs : Exit(p) \/ Hang(p)
           \/ WatcherDies \/ WatcherStarts \/ Tick \/ UNCHANGED vars
  BY <1>3, <1>t, OtherSteps, FilesShrink DEF Acts
<1>. QED
  BY <1>1, <1>2, <1>3 DEF Next

\* And its PID file names it unless a caller is about to write that file, two
\* callers that found it not running met, or the watchdog died within a start.
THEOREM PidFileAlwaysKept == Spec => []PidFileKept
<1>1. FileInv /\ [Next]_vars => FileInv'
  BY NextFiles
<1>2. FileInv => PidFileKept
  BY DEF FileInv, FileNames, PidFileKept
<1>. QED
  BY <1>1, <1>2, InitFiles, PTL DEF Spec

=============================================================================
