----------------------------- MODULE UpbitRest ------------------------------
(***************************************************************************)
(* Upbit REST calls: call_upbit_with_retry around a request, each attempt  *)
(* behind UpbitSharedGroupRateLimiter, which spaces the requests of every  *)
(* process on the host through one lock file per rate-limit group.         *)
(*                                                                         *)
(* The clock is the host's monotonic clock; it starts again at a reboot,   *)
(* the lock files stay.                                                    *)
(***************************************************************************)
EXTENDS Integers

CONSTANTS
  Procs,        \* callers: the processes that use the Upbit REST interface
  Groups,       \* rate-limit groups
  MinInterval,  \* UPBIT_MIN_INTERVAL_SEC, in ticks
  RetryCount,   \* upbit_request_retry_count
  RetryDelay,   \* upbit_request_retry_delay_sec, in ticks
  Nobody,       \* no process
  MaxNow,       \* bound: the clock
  MaxReboots    \* bound: reboots

ASSUME RestAssumption ==
  /\ Groups # {}
  /\ MinInterval \in [Groups -> Nat]
  /\ RetryCount \in Nat /\ RetryDelay \in Nat
  /\ Nobody \notin Procs
  /\ MaxNow \in Nat /\ MaxReboots \in Nat

VARIABLES
  now,      \* the monotonic clock
  file,     \* the content of each lock file, Empty when it does not parse
  lock,     \* who holds the flock of each group
  call,     \* what each process is doing
  granted,  \* observer: when the last request of a group was let through
  reboots

vars == <<now, file, lock, call, granted, reboots>>

Empty == -1

\* The stages of throttle between flock and unlock
Locked == {"locked", "sleeping", "granted", "truncated", "written"}
Stages == Locked \cup {"idle", "throttle", "sending", "backoff"}

\* A group without a request since the boot may let one through at once.
NoGrant == [g \in Groups |-> -MinInterval[g]]

Idle(g) == [stage |-> "idle", group |-> g, attempt |-> 0, wake |-> 0, at |-> 0]
IdleCalls == [p \in Procs |-> Idle(CHOOSE g \in Groups : TRUE)]

Init ==
  /\ now = 0
  /\ file = [g \in Groups |-> Empty]
  /\ lock = [g \in Groups |-> Nobody]
  /\ call = IdleCalls
  /\ granted = NoGrant
  /\ reboots = 0

Goes(p, stage) == call' = [call EXCEPT ![p].stage = stage]
Ends(p) == call' = [call EXCEPT ![p] = Idle(call[p].group)]
Unlock(p) == lock' = [lock EXCEPT ![call[p].group] = Nobody]

-----------------------------------------------------------------------------
(* throttle                                                                *)

Begin(p) ==
  /\ call[p].stage = "idle"
  /\ \E g \in Groups : call' = [call EXCEPT ![p] = [Idle(g) EXCEPT !.stage = "throttle"]]
  /\ UNCHANGED <<now, file, lock, granted, reboots>>

\* Variant: LOCK_SH for LOCK_EX.
AcquireShared(p) ==
  /\ call[p].stage = "throttle"
  /\ lock' = [lock EXCEPT ![call[p].group] = p]
  /\ Goes(p, "locked")
  /\ UNCHANGED <<now, file, granted, reboots>>

Acquire(p) ==
  /\ call[p].stage = "throttle"
  /\ lock[call[p].group] = Nobody
  /\ lock' = [lock EXCEPT ![call[p].group] = p]
  /\ Goes(p, "locked")
  /\ UNCHANGED <<now, file, granted, reboots>>

\* Variant: whatever the file holds is waited for.
AnyRecent(last, interval) == last # Empty

\* A time beyond the next interval is left from before a reboot.
Recent(last, interval) == last # Empty /\ last <= now + interval

\* Reads the last request's time and sleeps for what is left of the interval.
Look(p) ==
  LET g == call[p].group
  IN  /\ call[p].stage = "locked"
      /\ IF Recent(file[g], MinInterval[g]) /\ file[g] + MinInterval[g] > now
         THEN call' = [call EXCEPT ![p].stage = "sleeping",
                                   ![p].wake = file[g] + MinInterval[g]]
         ELSE call' = [call EXCEPT ![p].stage = "granted", ![p].at = now]
      /\ UNCHANGED <<now, file, lock, granted, reboots>>

Wake(p) ==
  /\ call[p].stage = "sleeping" /\ now >= call[p].wake
  /\ call' = [call EXCEPT ![p].stage = "granted", ![p].wake = 0, ![p].at = now]
  /\ UNCHANGED <<now, file, lock, granted, reboots>>

Truncate(p) ==
  /\ call[p].stage = "granted"
  /\ file' = [file EXCEPT ![call[p].group] = Empty]
  /\ Goes(p, "truncated")
  /\ UNCHANGED <<now, lock, granted, reboots>>

WriteTime(p) ==
  /\ call[p].stage = "truncated"
  /\ file' = [file EXCEPT ![call[p].group] = call[p].at]
  /\ Goes(p, "written")
  /\ UNCHANGED <<now, lock, granted, reboots>>

Release(p) ==
  /\ call[p].stage = "written"
  /\ Unlock(p)
  /\ granted' = [granted EXCEPT ![call[p].group] = call[p].at]
  /\ call' = [call EXCEPT ![p].stage = "sending", ![p].at = 0]
  /\ UNCHANGED <<now, file, reboots>>

\* Variant: without the finally clause.
LimiterFailsLocked(p) ==
  /\ call[p].stage \in Locked
  /\ Ends(p)
  /\ UNCHANGED <<now, file, lock, granted, reboots>>

\* The file system raises: finally unlocks, and the call raises.
LimiterFails(p) ==
  /\ call[p].stage \in Locked
  /\ Unlock(p)
  /\ Ends(p)
  /\ UNCHANGED <<now, file, granted, reboots>>

-----------------------------------------------------------------------------
(* call_upbit_with_retry                                                   *)

\* func returns, or raises what is not retried.
Finish(p) ==
  /\ call[p].stage = "sending"
  /\ Ends(p)
  /\ UNCHANGED <<now, file, lock, granted, reboots>>

\* Variant: one attempt too many.
RetryTooOften(p) ==
  /\ call[p].stage = "sending"
  /\ IF call[p].attempt <= RetryCount
     THEN call' = [call EXCEPT ![p].stage = "backoff", ![p].attempt = @ + 1,
                               ![p].wake = now + RetryDelay * (call[p].attempt + 1)]
     ELSE Ends(p)
  /\ UNCHANGED <<now, file, lock, granted, reboots>>

\* A retryable error: a longer sleep after every attempt, until the last one.
Retry(p) ==
  /\ call[p].stage = "sending"
  /\ IF call[p].attempt < RetryCount
     THEN call' = [call EXCEPT ![p].stage = "backoff", ![p].attempt = @ + 1,
                               ![p].wake = now + RetryDelay * (call[p].attempt + 1)]
     ELSE Ends(p)
  /\ UNCHANGED <<now, file, lock, granted, reboots>>

TryAgain(p) ==
  /\ call[p].stage = "backoff" /\ now >= call[p].wake
  /\ call' = [call EXCEPT ![p].stage = "throttle", ![p].wake = 0]
  /\ UNCHANGED <<now, file, lock, granted, reboots>>

-----------------------------------------------------------------------------
(* The host                                                                *)

\* A process dies: the kernel drops its flock, the file stays as it is.
Die(p) ==
  /\ call[p].stage # "idle"
  /\ lock' = [g \in Groups |-> IF lock[g] = p THEN Nobody ELSE lock[g]]
  /\ Ends(p)
  /\ UNCHANGED <<now, file, granted, reboots>>

Tick ==
  /\ now < MaxNow
  /\ now' = now + 1
  /\ UNCHANGED <<file, lock, call, granted, reboots>>

Reboot ==
  /\ reboots < MaxReboots /\ reboots' = reboots + 1
  /\ now' = 0
  /\ lock' = [g \in Groups |-> Nobody]
  /\ call' = IdleCalls
  /\ granted' = NoGrant
  /\ UNCHANGED file

-----------------------------------------------------------------------------
Throttle(p) ==
  Acquire(p) \/ Look(p) \/ Wake(p) \/ Truncate(p) \/ WriteTime(p) \/ Release(p)

Next ==
  \/ \E p \in Procs :
       \/ Begin(p) \/ Throttle(p) \/ LimiterFails(p)
       \/ Finish(p) \/ Retry(p) \/ TryAgain(p) \/ Die(p)
  \/ Tick \/ Reboot

Spec == Init /\ [][Next]_vars

\* A process that holds a lock is scheduled, and time passes.
FairSpec == Spec /\ (\A p \in Procs : WF_vars(Throttle(p))) /\ WF_vars(Tick)
-----------------------------------------------------------------------------
(* Properties                                                              *)

CallRecords ==
  [stage : Stages, group : Groups, attempt : 0..RetryCount, wake : Nat, at : Nat]

\* The type invariant.
TypeOK ==
  /\ now \in Nat
  /\ file \in [Groups -> Nat \cup {Empty}]
  /\ lock \in [Groups -> Procs \cup {Nobody}]
  /\ call \in [Procs -> CallRecords]
  /\ granted \in [Groups -> Int]
  /\ reboots \in Nat

\* Whatever process let the last request of a group through, the next one is
\* let through a full interval later, also when processes died or failed with
\* the file half written; a reboot starts anew.
IntervalKept ==
  [][\A p \in Procs :
       LET g == call[p].group
       IN  call[p].stage = "written" /\ call'[p].stage = "sending"
             => granted'[g] >= granted[g] + MinInterval[g]]_vars

\* No process sleeps under the lock for more than two intervals, whatever a
\* previous boot left in the file: all others wait for it.
SleepBounded ==
  \A p \in Procs :
    call[p].stage = "sleeping"
      => call[p].wake <= now + 2 * MinInterval[call[p].group]

\* A lock taken is given back, although its holder sleeps, fails or dies, unless
\* it sleeps past the last tick of the model.
LockReleased ==
  \A g \in Groups, p \in Procs :
    lock[g] = p ~> lock[g] # p \/ call[p].wake > MaxNow
=============================================================================
