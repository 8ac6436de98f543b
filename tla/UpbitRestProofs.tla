--------------------------- MODULE UpbitRestProofs ---------------------------
(***************************************************************************)
(* For any number of processes, groups and intervals: requests of a group  *)
(* keep their interval and no process sleeps long under a lock.            *)
(***************************************************************************)
EXTENDS UpbitRest, TLAPS

\* Who works in throttle holds the lock of its group.
LockInv == \A p \in Procs : call[p].stage \in Locked => lock[call[p].group] = p

\* What the file says of the last request let through since the boot: its time
\* or a later one, or, when it is empty, that the interval is over.
FileInv ==
  \A g \in Groups :
    \/ granted[g] = -MinInterval[g]
    \/ /\ granted[g] >= 0
       /\ file[g] = Empty => granted[g] + MinInterval[g] <= now
       /\ file[g] # Empty => granted[g] <= file[g] /\ file[g] <= now

SleepInv ==
  \A p \in Procs : call[p].stage = "sleeping" =>
    /\ call[p].wake >= granted[call[p].group] + MinInterval[call[p].group]
    /\ call[p].wake <= now + 2 * MinInterval[call[p].group]

GrantInv ==
  \A p \in Procs : call[p].stage \in {"granted", "truncated", "written"} =>
    /\ call[p].at >= granted[call[p].group] + MinInterval[call[p].group]
    /\ call[p].at <= now
    /\ call[p].stage = "written" => file[call[p].group] = call[p].at

IInv == TypeOK /\ LockInv /\ FileInv /\ SleepInv /\ GrantInv

-----------------------------------------------------------------------------
LEMMA IdleTyped == \A g \in Groups : Idle(g) \in CallRecords /\ Idle(g).stage = "idle"
  BY RestAssumption DEF Idle, CallRecords, Stages, Locked

LEMMA IdleCallsTyped ==
  /\ IdleCalls \in [Procs -> CallRecords]
  /\ \A p \in Procs : IdleCalls[p].stage = "idle"
<1>1. (CHOOSE g \in Groups : TRUE) \in Groups
  BY RestAssumption
<1>. QED
  BY <1>1, IdleTyped DEF IdleCalls

LEMMA InitInv == Init => IInv
<1>. SUFFICES ASSUME Init PROVE IInv
  OBVIOUS
<1>1. TypeOK
  BY IdleCallsTyped, RestAssumption DEF Init, TypeOK, NoGrant
<1>2. LockInv /\ SleepInv /\ GrantInv
  BY IdleCallsTyped DEF Init, LockInv, SleepInv, GrantInv, Locked
<1>3. FileInv
  BY DEF Init, FileInv, NoGrant
<1>. QED
  BY <1>1, <1>2, <1>3 DEF IInv

\* A step in which only p's call changes: to a stage outside the lock.
LEMMA Leaves ==
  ASSUME IInv, NEW p \in Procs, NEW c \in CallRecords, c.stage \notin Locked,
         call' = [call EXCEPT ![p] = c],
         \/ UNCHANGED lock /\ call[p].stage \notin Locked
         \/ Unlock(p) /\ call[p].stage \in Locked
         \/ lock' = [g \in Groups |-> IF lock[g] = p THEN Nobody ELSE lock[g]],
         UNCHANGED <<now, file, granted, reboots>>
  PROVE  IInv'
<1>. USE RestAssumption
<1>1. call' \in [Procs -> CallRecords] /\ call'[p] = c
  BY DEF IInv, TypeOK
<1>2. \A q \in Procs \ {p} : call'[q] = call[q] /\ call[q].group \in Groups
  BY DEF IInv, TypeOK, CallRecords
<1>3. TypeOK'
  BY <1>1 DEF IInv, TypeOK, Unlock
<1>4. LockInv'
  <2>1. SUFFICES ASSUME NEW q \in Procs, call'[q].stage \in Locked
                 PROVE  lock'[call'[q].group] = q
    BY DEF LockInv
  <2>2. q # p /\ lock[call[q].group] = q
    BY <1>1, <1>2, <2>1 DEF IInv, LockInv
  <2>3. call[p].stage \in Locked => call[p].group # call[q].group
    BY <2>2 DEF IInv, LockInv
  <2>. QED
    BY <1>2, <2>2, <2>3 DEF IInv, TypeOK, Unlock
<1>5. FileInv'
  BY DEF IInv, FileInv
<1>6. SleepInv'
  BY <1>1, <1>2 DEF IInv, SleepInv, Locked
<1>7. GrantInv'
  BY <1>1, <1>2 DEF IInv, GrantInv, Locked
<1>. QED
  BY <1>3, <1>4, <1>5, <1>6, <1>7 DEF IInv

\* p is the only process in throttle's critical section of its group.
LEMMA Alone ==
  ASSUME IInv, NEW p \in Procs, NEW q \in Procs \ {p},
         call[p].stage \in Locked, call[q].stage \in Locked
  PROVE  call[p].group # call[q].group
  BY DEF IInv, LockInv

LEMMA AcquireInv ==
  ASSUME IInv, NEW p \in Procs, Acquire(p)
  PROVE  IInv'
<1>. USE RestAssumption
<1>. DEFINE g == call[p].group
<1>1. g \in Groups /\ call[p] \in CallRecords
  BY DEF IInv, TypeOK, CallRecords
<1>2. call'[p] = [call[p] EXCEPT !.stage = "locked"] /\ call'[p].stage = "locked"
      /\ call'[p].group = g /\ call'[p] \in CallRecords
  BY <1>1 DEF IInv, TypeOK, Acquire, Goes, CallRecords, Stages, Locked
<1>3. \A q \in Procs \ {p} : call'[q] = call[q]
  BY DEF IInv, TypeOK, Acquire, Goes
<1>4. TypeOK'
  <2>1. call' \in [Procs -> CallRecords]
    BY <1>2 DEF IInv, TypeOK, Acquire, Goes
  <2>. QED
    BY <2>1, <1>1 DEF IInv, TypeOK, Acquire
<1>5. LockInv'
  <2>1. SUFFICES ASSUME NEW q \in Procs \ {p}, call[q].stage \in Locked
                 PROVE  lock'[call[q].group] = q
    <3>1. lock'[g] = p
      BY <1>1 DEF Acquire, IInv, TypeOK
    <3>. QED
      BY <1>2, <1>3, <3>1 DEF LockInv
  <2>2. lock[call[q].group] = q /\ call[q].group \in Groups
    BY <2>1 DEF IInv, LockInv, TypeOK, CallRecords
  <2>. QED
    BY <2>2, <1>1 DEF Acquire, IInv, TypeOK
<1>6. FileInv'
  BY DEF IInv, FileInv, Acquire
<1>7. SleepInv'
  BY <1>2, <1>3 DEF IInv, SleepInv, Acquire
<1>8. GrantInv'
  BY <1>2, <1>3 DEF IInv, GrantInv, Acquire
<1>. QED
  BY <1>4, <1>5, <1>6, <1>7, <1>8 DEF IInv

\* A step of p inside the critical section that leaves lock, group and observer
\* alone keeps everything that is said of the others.
LEMMA Inside ==
  ASSUME IInv, NEW p \in Procs, call[p].stage \in Locked,
         NEW c \in CallRecords, c.stage \in Locked, c.group = call[p].group,
         call' = [call EXCEPT ![p] = c],
         UNCHANGED <<now, lock, granted, reboots>>,
         \A g \in Groups \ {call[p].group} : file'[g] = file[g],
         file' \in [Groups -> Nat \cup {Empty}]
  PROVE  /\ TypeOK' /\ LockInv'
         /\ call'[p] = c
         /\ \A q \in Procs \ {p} :
              /\ call'[q] = call[q]
              /\ call[q].stage \in Locked => file'[call[q].group] = file[call[q].group]
<1>1. call' \in [Procs -> CallRecords] /\ call'[p] = c
  BY DEF IInv, TypeOK
<1>2. \A q \in Procs \ {p} : call'[q] = call[q] /\ call[q].group \in Groups
  BY DEF IInv, TypeOK, CallRecords
<1>3. TypeOK'
  BY <1>1 DEF IInv, TypeOK
<1>4. LockInv'
  BY <1>1, <1>2 DEF IInv, LockInv
<1>5. \A q \in Procs \ {p} :
        call[q].stage \in Locked => file'[call[q].group] = file[call[q].group]
  BY <1>2, Alone
<1>. QED
  BY <1>1, <1>2, <1>3, <1>4, <1>5

LEMMA LookInv ==
  ASSUME IInv, NEW p \in Procs, Look(p)
  PROVE  IInv'
<1>. USE RestAssumption
<1>. DEFINE g == call[p].group
            r == Recent(file[g], MinInterval[g]) /\ file[g] + MinInterval[g] > now
            c == IF r THEN [call[p] EXCEPT !.stage = "sleeping",
                                           !.wake = file[g] + MinInterval[g]]
                 ELSE [call[p] EXCEPT !.stage = "granted", !.at = now]
<1>1. g \in Groups /\ call[p] \in CallRecords /\ MinInterval[g] \in Nat /\ now \in Nat
      /\ file[g] \in Nat \cup {Empty} /\ call[p].stage \in Locked /\ granted[g] \in Int
  BY DEF IInv, TypeOK, CallRecords, Look, Locked
<1>2. r => file[g] \in Nat /\ file[g] + MinInterval[g] \in Nat
  BY <1>1 DEF Recent, Empty
<1>3. c \in CallRecords /\ c.group = g /\ c.stage \in Locked
  BY <1>1, <1>2 DEF CallRecords, Stages, Locked
<1>4. call' = [call EXCEPT ![p] = c]
  BY DEF Look, IInv, TypeOK
<1>5. /\ TypeOK' /\ LockInv' /\ call'[p] = c
      /\ \A q \in Procs \ {p} : call'[q] = call[q]
  BY <1>1, <1>3, <1>4, Inside DEF Look, IInv, TypeOK
<1>6. FileInv'
  BY DEF IInv, FileInv, Look
<1>7. granted[g] = -MinInterval[g] \/
        /\ granted[g] >= 0
        /\ file[g] = Empty => granted[g] + MinInterval[g] <= now
        /\ file[g] # Empty => granted[g] <= file[g] /\ file[g] <= now
  BY <1>1 DEF IInv, FileInv
<1>8. r => /\ c.stage = "sleeping" /\ c.wake = file[g] + MinInterval[g]
           /\ c.wake >= granted[g] + MinInterval[g] /\ c.wake <= now + 2 * MinInterval[g]
  <2>1. r => c.stage = "sleeping" /\ c.wake = file[g] + MinInterval[g]
    BY <1>1 DEF CallRecords
  <2>2. r => file[g] # Empty /\ file[g] <= now + MinInterval[g]
    BY DEF Recent
  <2>3. r => granted[g] <= file[g]
    BY <1>1, <1>2, <1>7, <2>2
  <2>. QED
    BY <1>1, <1>2, <2>1, <2>2, <2>3
<1>9. ~r => /\ c.stage = "granted" /\ c.at = now
            /\ c.at >= granted[g] + MinInterval[g]
  <2>1. ~r => c.stage = "granted" /\ c.at = now
    BY <1>1 DEF CallRecords
  <2>2. ~r => \/ file[g] = Empty
              \/ file[g] \in Nat /\ file[g] > now + MinInterval[g]
              \/ file[g] \in Nat /\ file[g] + MinInterval[g] <= now
    BY <1>1 DEF Recent
  <2>. QED
    BY <1>1, <1>7, <2>1, <2>2
<1>10. SleepInv'
  <2>1. \A q \in Procs \ {p} : call'[q].stage = "sleeping" =>
          /\ call'[q].wake >= granted'[call'[q].group] + MinInterval[call'[q].group]
          /\ call'[q].wake <= now' + 2 * MinInterval[call'[q].group]
    BY <1>5 DEF IInv, SleepInv, Look
  <2>2. call'[p].stage = "sleeping" =>
          /\ call'[p].wake >= granted'[call'[p].group] + MinInterval[call'[p].group]
          /\ call'[p].wake <= now' + 2 * MinInterval[call'[p].group]
    BY <1>3, <1>5, <1>8, <1>9 DEF Look
  <2>. QED
    BY <2>1, <2>2 DEF SleepInv
<1>11. GrantInv'
  <2>1. \A q \in Procs \ {p} : call'[q].stage \in {"granted", "truncated", "written"} =>
          /\ call'[q].at >= granted'[call'[q].group] + MinInterval[call'[q].group]
          /\ call'[q].at <= now'
          /\ call'[q].stage = "written" => file'[call'[q].group] = call'[q].at
    BY <1>5 DEF IInv, GrantInv, Look
  <2>2. call'[p].stage \in {"granted", "truncated", "written"} =>
          /\ call'[p].at >= granted'[call'[p].group] + MinInterval[call'[p].group]
          /\ call'[p].at <= now'
          /\ call'[p].stage # "written"
    BY <1>1, <1>3, <1>5, <1>8, <1>9 DEF Look
  <2>. QED
    BY <2>1, <2>2 DEF GrantInv
<1>. QED
  BY <1>5, <1>6, <1>10, <1>11 DEF IInv

\* The other processes' parts of the invariant, when the group's observer and
\* what they read of the files stay.
LEMMA WakeInv ==
  ASSUME IInv, NEW p \in Procs, Wake(p)
  PROVE  IInv'
<1>. USE RestAssumption
<1>. DEFINE g == call[p].group
            c == [call[p] EXCEPT !.stage = "granted", !.wake = 0, !.at = now]
<1>1. g \in Groups /\ call[p] \in CallRecords /\ MinInterval[g] \in Nat /\ now \in Nat
      /\ call[p].stage \in Locked /\ granted[g] \in Int /\ call[p].wake \in Nat
  BY DEF IInv, TypeOK, CallRecords, Wake, Locked
<1>2. c \in CallRecords /\ c.group = g /\ c.stage = "granted" /\ c.at = now
      /\ c.stage \in Locked
  BY <1>1 DEF CallRecords, Stages, Locked
<1>3. call' = [call EXCEPT ![p] = c]
  BY DEF Wake, IInv, TypeOK
<1>4. /\ TypeOK' /\ LockInv' /\ call'[p] = c
      /\ \A q \in Procs \ {p} : call'[q] = call[q]
  BY <1>1, <1>2, <1>3, Inside DEF Wake, IInv, TypeOK
<1>5. FileInv'
  BY DEF IInv, FileInv, Wake
<1>6. now >= granted[g] + MinInterval[g]
  <2>1. call[p].wake >= granted[g] + MinInterval[g] /\ now >= call[p].wake
    BY DEF IInv, SleepInv, Wake
  <2>. QED
    BY <1>1, <2>1
<1>7. SleepInv'
  BY <1>2, <1>4 DEF IInv, SleepInv, Wake
<1>8. GrantInv'
  <2>1. \A q \in Procs \ {p} : call'[q].stage \in {"granted", "truncated", "written"} =>
          /\ call'[q].at >= granted'[call'[q].group] + MinInterval[call'[q].group]
          /\ call'[q].at <= now'
          /\ call'[q].stage = "written" => file'[call'[q].group] = call'[q].at
    BY <1>4 DEF IInv, GrantInv, Wake
  <2>2. /\ call'[p].at >= granted'[call'[p].group] + MinInterval[call'[p].group]
        /\ call'[p].at <= now' /\ call'[p].stage # "written"
    <3>1. call'[p].at = now /\ call'[p].group = g /\ call'[p].stage = "granted"
      BY <1>2, <1>4
    <3>2. granted' = granted /\ now' = now
      BY DEF Wake
    <3>. QED
      BY <1>1, <1>6, <3>1, <3>2
  <2>. QED
    BY <2>1, <2>2 DEF GrantInv
<1>. QED
  BY <1>4, <1>5, <1>7, <1>8 DEF IInv

LEMMA TruncateInv ==
  ASSUME IInv, NEW p \in Procs, Truncate(p)
  PROVE  IInv'
<1>. USE RestAssumption
<1>. DEFINE g == call[p].group
            c == [call[p] EXCEPT !.stage = "truncated"]
<1>1. g \in Groups /\ call[p] \in CallRecords /\ MinInterval[g] \in Nat /\ now \in Nat
      /\ call[p].stage \in Locked /\ granted[g] \in Int /\ call[p].at \in Nat
  BY DEF IInv, TypeOK, CallRecords, Truncate, Locked
<1>2. c \in CallRecords /\ c.group = g /\ c.stage = "truncated" /\ c.at = call[p].at
      /\ c.stage \in Locked
  BY <1>1 DEF CallRecords, Stages, Locked
<1>3. call' = [call EXCEPT ![p] = c]
  BY DEF Truncate, Goes, IInv, TypeOK
<1>4. /\ file' \in [Groups -> Nat \cup {Empty}] /\ file'[g] = Empty
      /\ \A h \in Groups \ {g} : file'[h] = file[h]
  BY <1>1 DEF Truncate, IInv, TypeOK
<1>5. /\ TypeOK' /\ LockInv' /\ call'[p] = c
      /\ \A q \in Procs \ {p} :
           /\ call'[q] = call[q]
           /\ call[q].stage \in Locked => file'[call[q].group] = file[call[q].group]
  BY <1>1, <1>2, <1>3, <1>4, Inside DEF Truncate
<1>6. call[p].at >= granted[g] + MinInterval[g] /\ call[p].at <= now
  BY DEF IInv, GrantInv, Truncate
<1>7. FileInv'
  <2>1. granted[g] + MinInterval[g] <= now
    BY <1>1, <1>6
  <2>. QED
    BY <1>4, <2>1 DEF IInv, FileInv, Truncate
<1>8. SleepInv'
  BY <1>2, <1>5 DEF IInv, SleepInv, Truncate
<1>9. GrantInv'
  <2>1. \A q \in Procs \ {p} : call'[q].stage \in {"granted", "truncated", "written"} =>
          /\ call'[q].at >= granted'[call'[q].group] + MinInterval[call'[q].group]
          /\ call'[q].at <= now'
          /\ call'[q].stage = "written" => file'[call'[q].group] = call'[q].at
    BY <1>5 DEF IInv, GrantInv, Truncate, Locked
  <2>2. /\ call'[p].at >= granted'[call'[p].group] + MinInterval[call'[p].group]
        /\ call'[p].at <= now' /\ call'[p].stage # "written"
    BY <1>2, <1>5, <1>6 DEF Truncate
  <2>. QED
    BY <2>1, <2>2 DEF GrantInv
<1>. QED
  BY <1>5, <1>7, <1>8, <1>9 DEF IInv

LEMMA WriteTimeInv ==
  ASSUME IInv, NEW p \in Procs, WriteTime(p)
  PROVE  IInv'
<1>. USE RestAssumption
<1>. DEFINE g == call[p].group
            c == [call[p] EXCEPT !.stage = "written"]
<1>1. g \in Groups /\ call[p] \in CallRecords /\ MinInterval[g] \in Nat /\ now \in Nat
      /\ call[p].stage \in Locked /\ granted[g] \in Int /\ call[p].at \in Nat
  BY DEF IInv, TypeOK, CallRecords, WriteTime, Locked
<1>2. c \in CallRecords /\ c.group = g /\ c.stage = "written" /\ c.at = call[p].at
      /\ c.stage \in Locked
  BY <1>1 DEF CallRecords, Stages, Locked
<1>3. call' = [call EXCEPT ![p] = c]
  BY DEF WriteTime, Goes, IInv, TypeOK
<1>4. /\ file' \in [Groups -> Nat \cup {Empty}] /\ file'[g] = call[p].at
      /\ \A h \in Groups \ {g} : file'[h] = file[h]
  BY <1>1 DEF WriteTime, IInv, TypeOK
<1>5. /\ TypeOK' /\ LockInv' /\ call'[p] = c
      /\ \A q \in Procs \ {p} :
           /\ call'[q] = call[q]
           /\ call[q].stage \in Locked => file'[call[q].group] = file[call[q].group]
  BY <1>1, <1>2, <1>3, <1>4, Inside DEF WriteTime
<1>6. call[p].at >= granted[g] + MinInterval[g] /\ call[p].at <= now
  BY DEF IInv, GrantInv, WriteTime
<1>7. FileInv'
  <2>1. granted[g] <= call[p].at /\ call[p].at # Empty
    BY <1>1, <1>6 DEF Empty
  <2>. QED
    BY <1>4, <1>6, <2>1 DEF IInv, FileInv, WriteTime
<1>8. SleepInv'
  BY <1>2, <1>5 DEF IInv, SleepInv, WriteTime
<1>9. GrantInv'
  <2>1. \A q \in Procs \ {p} : call'[q].stage \in {"granted", "truncated", "written"} =>
          /\ call'[q].at >= granted'[call'[q].group] + MinInterval[call'[q].group]
          /\ call'[q].at <= now'
          /\ call'[q].stage = "written" => file'[call'[q].group] = call'[q].at
    BY <1>5 DEF IInv, GrantInv, WriteTime, Locked
  <2>2. /\ call'[p].at >= granted'[call'[p].group] + MinInterval[call'[p].group]
        /\ call'[p].at <= now' /\ file'[call'[p].group] = call'[p].at
    BY <1>2, <1>4, <1>5, <1>6 DEF WriteTime
  <2>. QED
    BY <2>1, <2>2 DEF GrantInv
<1>. QED
  BY <1>5, <1>7, <1>8, <1>9 DEF IInv

\* The release is the step that lets a request through: the observer moves to a
\* time at least an interval after the previous one.
LEMMA ReleaseInv ==
  ASSUME IInv, NEW p \in Procs, Release(p)
  PROVE  /\ IInv'
         /\ granted'[call[p].group] >= granted[call[p].group] + MinInterval[call[p].group]
<1>. USE RestAssumption
<1>. DEFINE g == call[p].group
            c == [call[p] EXCEPT !.stage = "sending", !.at = 0]
<1>1. g \in Groups /\ call[p] \in CallRecords /\ MinInterval[g] \in Nat /\ now \in Nat
      /\ call[p].stage \in Locked /\ granted[g] \in Int /\ call[p].at \in Nat
  BY DEF IInv, TypeOK, CallRecords, Release, Locked
<1>2. c \in CallRecords /\ c.group = g /\ c.stage = "sending"
  BY <1>1 DEF CallRecords, Stages, Locked
<1>3. call' = [call EXCEPT ![p] = c]
  BY DEF Release, IInv, TypeOK
<1>4. call' \in [Procs -> CallRecords] /\ call'[p] = c
      /\ \A q \in Procs \ {p} : call'[q] = call[q]
  BY <1>2, <1>3 DEF IInv, TypeOK
<1>5. granted' \in [Groups -> Int] /\ granted'[g] = call[p].at
      /\ \A h \in Groups \ {g} : granted'[h] = granted[h]
  BY <1>1 DEF Release, IInv, TypeOK
<1>6. /\ call[p].at >= granted[g] + MinInterval[g] /\ call[p].at <= now
      /\ file[g] = call[p].at
  BY DEF IInv, GrantInv, Release
<1>7. TypeOK'
  BY <1>4, <1>5 DEF IInv, TypeOK, Release, Unlock
<1>8. \A q \in Procs \ {p} : call[q].stage \in Locked =>
        /\ call[q].group \in Groups \ {g}
        /\ lock[call[q].group] = q
  BY <1>1, Alone DEF IInv, LockInv, TypeOK, CallRecords
<1>9. LockInv'
  <2>1. \A q \in Procs \ {p} : call[q].stage \in Locked => lock'[call[q].group] = q
    BY <1>1, <1>8 DEF Release, Unlock, IInv, TypeOK
  <2>. QED
    BY <1>2, <1>4, <2>1 DEF LockInv, Locked
<1>10. FileInv'
  <2>1. /\ granted'[g] >= 0 /\ file'[g] # Empty
        /\ granted'[g] <= file'[g] /\ file'[g] <= now'
    BY <1>1, <1>5, <1>6 DEF Release, Empty
  <2>. QED
    BY <1>5, <2>1 DEF IInv, FileInv, Release
<1>11. SleepInv'
  BY <1>2, <1>4, <1>5, <1>8 DEF IInv, SleepInv, Release, Locked
<1>12. GrantInv'
  BY <1>2, <1>4, <1>5, <1>8 DEF IInv, GrantInv, Release, Locked
<1>. QED
  BY <1>5, <1>6, <1>7, <1>9, <1>10, <1>11, <1>12 DEF IInv

LEMMA RetryInv ==
  ASSUME IInv, NEW p \in Procs, Retry(p)
  PROVE  IInv'
<1>. USE RestAssumption
<1>1. call[p] \in CallRecords /\ call[p].group \in Groups /\ call[p].stage \notin Locked
      /\ now \in Nat /\ call[p].attempt \in 0..RetryCount
  BY DEF IInv, TypeOK, CallRecords, Retry, Locked
<1>2. CASE call[p].attempt < RetryCount
  <2>1. PICK w \in Nat : w = now + RetryDelay * (call[p].attempt + 1)
    <3>1. RetryDelay * (call[p].attempt + 1) \in Nat
      BY <1>1
    <3>. QED
      BY <1>1, <3>1
  <2>. DEFINE c == [call[p] EXCEPT !.stage = "backoff", !.attempt = @ + 1, !.wake = w]
  <2>2. c \in CallRecords /\ c.stage \notin Locked
    <3>1. call[p].attempt + 1 \in 0..RetryCount
      BY <1>1, <1>2
    <3>2. "backoff" \in Stages /\ "backoff" \notin Locked
      BY DEF Stages, Locked
    <3>3. c \in CallRecords
      BY <1>1, <3>1, <3>2 DEF CallRecords
    <3>4. c.stage = "backoff"
      BY <1>1 DEF CallRecords
    <3>. QED
      BY <3>2, <3>3, <3>4
  <2>3. call' = [call EXCEPT ![p] = c]
    BY <1>2, <2>1 DEF Retry, IInv, TypeOK
  <2>. QED
    BY <1>1, <2>2, <2>3, Leaves DEF Retry
<1>3. CASE ~(call[p].attempt < RetryCount)
  BY <1>1, <1>3, IdleTyped, Leaves DEF Retry, Ends, Locked
<1>. QED
  BY <1>2, <1>3

LEMMA BeginInv ==
  ASSUME IInv, NEW p \in Procs, Begin(p)
  PROVE  IInv'
<1>1. PICK g \in Groups : call' = [call EXCEPT ![p] = [Idle(g) EXCEPT !.stage = "throttle"]]
  BY DEF Begin
<1>2. [Idle(g) EXCEPT !.stage = "throttle"] \in CallRecords
      /\ [Idle(g) EXCEPT !.stage = "throttle"].stage = "throttle"
  BY RestAssumption DEF Idle, CallRecords, Stages
<1>. QED
  BY <1>1, <1>2, Leaves DEF Begin, Locked

LEMMA TryAgainInv ==
  ASSUME IInv, NEW p \in Procs, TryAgain(p)
  PROVE  IInv'
<1>. DEFINE c == [call[p] EXCEPT !.stage = "throttle", !.wake = 0]
<1>. USE RestAssumption
<1>1. c \in CallRecords /\ c.stage \notin Locked
  <2>1. call[p] \in CallRecords
    BY DEF IInv, TypeOK
  <2>2. c \in CallRecords /\ c.stage = "throttle"
    BY <2>1 DEF CallRecords, Stages
  <2>. QED
    BY <2>2 DEF Locked
<1>2. call' = [call EXCEPT ![p] = c] /\ call[p].stage \notin Locked
  BY DEF TryAgain, IInv, TypeOK, Locked
<1>. QED
  BY <1>1, <1>2, Leaves DEF TryAgain

LEMMA EndsInv ==
  ASSUME IInv, NEW p \in Procs, LimiterFails(p) \/ Finish(p) \/ Die(p)
  PROVE  IInv'
<1>1. call[p].group \in Groups
  BY DEF IInv, TypeOK, CallRecords
<1>2. Idle(call[p].group) \in CallRecords /\ Idle(call[p].group).stage \notin Locked
  BY <1>1, IdleTyped DEF Locked
<1>3. call' = [call EXCEPT ![p] = Idle(call[p].group)]
  BY DEF LimiterFails, Finish, Die, Ends
<1>. QED
  BY <1>2, <1>3, Leaves DEF LimiterFails, Finish, Die, Locked

LEMMA HostInv ==
  ASSUME IInv, Tick \/ Reboot
  PROVE  IInv'
<1>. USE RestAssumption
<1>1. CASE Tick
  <2>1. TypeOK' /\ LockInv' /\ now' = now + 1
    BY <1>1 DEF IInv, TypeOK, LockInv, Tick
  <2>2. FileInv'
    BY <1>1 DEF IInv, FileInv, TypeOK, Tick
  <2>3. SleepInv'
    <3>1. \A p \in Procs : call[p].wake \in Nat /\ MinInterval[call[p].group] \in Nat
      BY DEF IInv, TypeOK, CallRecords
    <3>. QED
      BY <1>1, <3>1 DEF IInv, SleepInv, TypeOK, Tick
  <2>4. GrantInv'
    <3>1. \A p \in Procs : call[p].at \in Nat
      BY DEF IInv, TypeOK, CallRecords
    <3>. QED
      BY <1>1, <3>1 DEF IInv, GrantInv, TypeOK, Tick
  <2>. QED
    BY <2>1, <2>2, <2>3, <2>4 DEF IInv
<1>2. CASE Reboot
  <2>1. TypeOK'
    BY <1>2, IdleCallsTyped DEF IInv, TypeOK, Reboot, NoGrant
  <2>2. LockInv' /\ SleepInv' /\ GrantInv'
    BY <1>2, IdleCallsTyped DEF Reboot, LockInv, SleepInv, GrantInv, Locked
  <2>3. FileInv'
    BY <1>2 DEF Reboot, FileInv, NoGrant
  <2>. QED
    BY <2>1, <2>2, <2>3 DEF IInv
<1>. QED
  BY <1>1, <1>2

LEMMA StutterInv == IInv /\ UNCHANGED vars => IInv'
  BY DEF IInv, TypeOK, LockInv, FileInv, SleepInv, GrantInv, vars

LEMMA NextInv == IInv /\ [Next]_vars => IInv'
<1>. SUFFICES ASSUME IInv, [Next]_vars PROVE IInv'
  OBVIOUS
<1>1. CASE Tick \/ Reboot
  BY <1>1, HostInv
<1>2. CASE UNCHANGED vars
  BY <1>2, StutterInv
<1>3. ASSUME NEW p \in Procs,
             \/ Begin(p) \/ Throttle(p) \/ LimiterFails(p)
             \/ Finish(p) \/ Retry(p) \/ TryAgain(p) \/ Die(p)
      PROVE  IInv'
  BY <1>3, BeginInv, AcquireInv, LookInv, WakeInv, TruncateInv, WriteTimeInv,
     ReleaseInv, EndsInv, RetryInv, TryAgainInv DEF Throttle
<1>. QED
  BY <1>1, <1>2, <1>3 DEF Next

LEMMA Invariant == Spec => []IInv
  BY InitInv, NextInv, PTL DEF Spec

\* Every variable keeps its type, and no call is attempted more often than
\* call_upbit_with_retry allows.
THEOREM RestTypeCorrect == Spec => []TypeOK
<1>1. IInv => TypeOK
  BY DEF IInv
<1>. QED
  BY <1>1, Invariant, PTL

\* However many processes share the lock files, requests of a group are let
\* through at least an interval apart, across failures and deaths (throttle).
THEOREM IntervalAlwaysKept == Spec => IntervalKept
<1>. DEFINE Kept ==
       \A p \in Procs :
         LET g == call[p].group
         IN  call[p].stage = "written" /\ call'[p].stage = "sending"
               => granted'[g] >= granted[g] + MinInterval[g]
<1>1. IInv /\ [Next]_vars => [Kept]_vars
  <2>. SUFFICES ASSUME IInv, Next, NEW p \in Procs,
                       call[p].stage = "written", call'[p].stage = "sending"
                PROVE  granted'[call[p].group]
                         >= granted[call[p].group] + MinInterval[call[p].group]
    OBVIOUS
  <2>1. Release(p)
    <3>1. call'[p] # call[p]
      OBVIOUS
    <3>2. ~Tick /\ ~Reboot
      BY <3>1, IdleCallsTyped DEF Tick, Reboot
    <3>3. PICK q \in Procs :
            \/ Begin(q) \/ Throttle(q) \/ LimiterFails(q)
            \/ Finish(q) \/ Retry(q) \/ TryAgain(q) \/ Die(q)
      BY <3>2 DEF Next
    <3>4. q = p
      BY <3>1, <3>3 DEF IInv, TypeOK, Begin, Throttle, Acquire, Look, Wake, Truncate,
         WriteTime, Release, LimiterFails, Finish, Retry, TryAgain, Die, Goes, Ends
    <3>5. LimiterFails(p) \/ Die(p) => call'[p].stage = "idle"
      BY IdleTyped DEF LimiterFails, Die, Ends, IInv, TypeOK, CallRecords
    <3>. QED
      BY <3>3, <3>4, <3>5 DEF Begin, Throttle, Acquire, Look, Wake, Truncate,
         WriteTime, Finish, Retry, TryAgain
  <2>. QED
    BY <2>1, ReleaseInv
<1>. QED
  BY <1>1, Invariant, PTL DEF Spec, IntervalKept

\* No process sleeps more than two intervals while it holds a lock.
THEOREM SleepAlwaysBounded == Spec => []SleepBounded
<1>1. IInv => SleepBounded
  BY DEF IInv, SleepInv, SleepBounded
<1>. QED
  BY <1>1, Invariant, PTL
=============================================================================
