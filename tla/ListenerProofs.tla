--------------------------- MODULE ListenerProofs ---------------------------
(***************************************************************************)
(* Theorems about Listener, for any programs and any number of faults,     *)
(* updates and incidents.                                                  *)
(***************************************************************************)
EXTENDS Listener, Integers, SequenceTheorems, WellFoundedInduction, TLAPS

LEMMA BoundsTyped == MaxFaults \in Nat /\ MaxUpdates \in Nat /\ MaxIncidents \in Nat
BY ListenerAssumption, Zenon

LEMMA SelfIsProgram == Self \in Programs
BY DEF Programs

-----------------------------------------------------------------------------
(* Files of incidents                                                      *)

\* Ids given out later do not make a file wrong.
LEMMA FileGrowsOld ==
  ASSUME NEW f, NEW n \in Nat, NEW m \in Nat, n <= m, IsFile(f, n)
  PROVE  IsFile(f, m)
<1>1. \A i \in 1..Len(f) : f[i] \in Incidents
  BY ElementOfSeq DEF IsFile
<1>2. \A i \in 1..Len(f) : f[i].id \in Nat
  BY <1>1, BoundsTyped DEF Incidents
<1> QED
  BY <1>2 DEF IsFile

LEMMA TornFile ==
  ASSUME NEW n \in Nat
  PROVE  IsFile(<<>>, n)
BY DEF IsFile

\* A new incident has an id that no other one has.
LEMMA FileWithNew ==
  ASSUME NEW f, NEW n \in 0..MaxIncidents, n < MaxIncidents, NEW p \in Programs,
         IsFile(f, n)
  PROVE  LET new == [id |-> n + 1, prog |-> p, status |-> "open"]
         IN  IsFile(Append(f, new), n + 1)
<1> DEFINE new == [id |-> n + 1, prog |-> p, status |-> "open"]
           g == Append(f, new)
<1>1. new \in Incidents
  BY BoundsTyped DEF Incidents, Statuses
<1>2. /\ g \in Seq(Incidents) /\ Len(g) = Len(f) + 1 /\ Len(f) \in Nat
      /\ \A i \in 1..Len(f) : g[i] = f[i]
      /\ g[Len(f) + 1] = new
  BY <1>1, AppendProperties DEF IsFile
<1>3. \A i \in 1..Len(f) : f[i].id \in Nat /\ f[i].id <= n
  <2>1. \A i \in 1..Len(f) : f[i] \in Incidents
    BY ElementOfSeq DEF IsFile
  <2> QED
    BY <2>1, BoundsTyped DEF IsFile, Incidents
<1>4. new.id = n + 1
  OBVIOUS
<1> HIDE DEF new, g
<1>5. ASSUME NEW i \in 1..Len(g) PROVE g[i].id <= n + 1
  BY <1>2, <1>3, <1>4
<1>6. ASSUME NEW i \in 1..Len(g), NEW j \in 1..Len(g), i # j PROVE g[i].id # g[j].id
  <2>1. CASE i \in 1..Len(f) /\ j \in 1..Len(f)
    BY <1>2, <1>6, <2>1 DEF IsFile
  <2>2. CASE i = Len(f) + 1 /\ j \in 1..Len(f)
    BY <1>2, <1>3, <1>4, <2>2
  <2>3. CASE j = Len(f) + 1 /\ i \in 1..Len(f)
    BY <1>2, <1>3, <1>4, <2>3
  <2> QED
    BY <1>2, <1>6, <2>1, <2>2, <2>3
<1>7. IsFile(g, n + 1)
  BY <1>2, <1>5, <1>6 DEF IsFile
<1> QED
  BY <1>7 DEF g, new

\* What UpdateStatus writes back.
Restated(f, id, new) ==
  [i \in 1..Len(f) |-> IF f[i].id = id THEN [f[i] EXCEPT !.status = new] ELSE f[i]]

LEMMA FileRestated ==
  ASSUME NEW f, NEW n \in Nat, NEW id, NEW new \in Statuses, IsFile(f, n)
  PROVE  IsFile(Restated(f, id, new), n)
<1> DEFINE g == Restated(f, id, new)
<1>1. Len(f) \in Nat /\ \A i \in 1..Len(f) : f[i] \in Incidents
  BY ElementOfSeq, LenProperties DEF IsFile
<1>2. \A i \in 1..Len(f) : g[i] \in Incidents /\ g[i].id = f[i].id
  BY <1>1 DEF Restated, Incidents
<1>3. g \in Seq(Incidents) /\ Len(g) = Len(f)
  <2>1. g = [i \in 1..Len(f) |-> g[i]]
    BY DEF Restated
  <2> HIDE DEF g
  <2> QED
    BY <1>1, <1>2, <2>1, IsASeq
<1> HIDE DEF g
<1>4. IsFile(g, n)
  BY <1>2, <1>3 DEF IsFile
<1> QED
  BY <1>4 DEF g

-----------------------------------------------------------------------------
(* Type correctness                                                        *)

LEMMA InitTyped == Init => TypeOK
<1> SUFFICES ASSUME Init PROVE TypeOK
  OBVIOUS
<1>1. MailTyped
  BY BoundsTyped DEF Init, MailTyped
<1>2. StoreTyped
  <2>1. IsFile(<<>>, 0)
    BY TornFile
  <2>2. NoJob \in Jobs
    BY BoundsTyped DEF NoJob, Jobs
  <2>3. job \in [Programs -> Jobs] /\ \A p \in Programs : job[p].copy = <<>>
    BY <2>2 DEF Init, NoJob
  <2>4. /\ issued = 0 /\ file = <<>> /\ notified = {} /\ disturbed \in BOOLEAN
        /\ silenced = {}
    BY Zenon DEF Init
  <2> QED
    BY <2>1, <2>3, <2>4, BoundsTyped DEF StoreTyped
<1>3. CountsTyped
  <2>1. /\ up = Programs /\ status = "open" /\ complained = "none"
        /\ slotSaved \in BOOLEAN /\ dropped = {}
    BY Zenon DEF Init
  <2>2. /\ begun \in [1..MaxUpdates -> 0..2]
        /\ reports \in Nat /\ unsaved \in Nat /\ faults \in 0..MaxFaults
    BY BoundsTyped DEF Init
  <2> QED
    BY <2>1, <2>2 DEF CountsTyped, Statuses
<1> QED
  BY <1>1, <1>2, <1>3 DEF TypeOK

mail == <<updates, confirmed, saved, pc, offset, batch, current>>
counts == <<up, status, complained, slotSaved, begun, dropped, reports, unsaved, faults>>

\* Unchanged groups of variables stay typed.
LEMMA UnchangedTyped ==
  /\ MailTyped /\ UNCHANGED mail => MailTyped'
  /\ StoreTyped /\ UNCHANGED store => StoreTyped'
  /\ CountsTyped /\ UNCHANGED counts => CountsTyped'
<1>1. MailTyped /\ UNCHANGED mail => MailTyped'
  BY DEF MailTyped, mail
<1>2. StoreTyped /\ UNCHANGED store => StoreTyped'
  BY DEF StoreTyped, store
<1>3. CountsTyped /\ UNCHANGED counts => CountsTyped'
  BY DEF CountsTyped, counts
<1> QED
  BY <1>1, <1>2, <1>3

\* A program that read the file holds a file it may write back.
LEMMA LoadTyped ==
  ASSUME StoreTyped, NEW p \in Programs, NEW copy, NEW note \in 0..MaxIncidents,
         issued' \in issued..MaxIncidents, IsFile(copy, issued'), Load(p, copy, note),
         UNCHANGED <<file, notified, disturbed, silenced>>
  PROVE  StoreTyped'
<1> DEFINE new == [step |-> "loaded", copy |-> copy, note |-> note, stale |-> Torn]
<1>1. new \in Jobs
  BY Zenon DEF Jobs, IsFile, Torn
<1>2. job' = [job EXCEPT ![p] = new]
  BY DEF Load
<1>3. issued \in Nat /\ issued' \in Nat /\ issued <= issued' /\ issued' \in 0..MaxIncidents
  BY BoundsTyped DEF StoreTyped
<1>4. new.copy = copy
  OBVIOUS
<1> HIDE DEF new
<1>5. job' \in [Programs -> Jobs]
  BY <1>1, <1>2 DEF StoreTyped
<1>6. ASSUME NEW q \in Programs PROVE IsFile(job'[q].copy, issued')
  <2>1. job'[q] = IF q = p THEN new ELSE job[q]
    BY <1>2 DEF StoreTyped
  <2>2. IsFile(job[q].copy, issued')
    BY <1>3, FileGrowsOld DEF StoreTyped
  <2> QED
    BY <1>4, <2>1, <2>2
<1>7. IsFile(file', issued')
  BY <1>3, FileGrowsOld DEF StoreTyped
<1> QED
  BY <1>3, <1>5, <1>6, <1>7 DEF StoreTyped

LEMMA RegisterTyped ==
  ASSUME StoreTyped, NEW p \in Programs, RegisterIncident(p),
         UNCHANGED <<file, notified, disturbed, silenced>>
  PROVE  StoreTyped'
<1> DEFINE new == [id |-> issued + 1, prog |-> p, status |-> "open"]
<1>1. issued \in 0..MaxIncidents /\ IsFile(file, issued)
  BY DEF StoreTyped
<1>2. CASE Load(p, file, 0) /\ UNCHANGED issued
  BY <1>1, <1>2, LoadTyped, BoundsTyped
<1>3. CASE /\ issued # MaxIncidents /\ issued' = issued + 1
           /\ Load(p, Append(file, new), issued + 1)
  <2>1. IsFile(Append(file, new), issued + 1)
    BY <1>1, <1>3, FileWithNew, BoundsTyped
  <2>2. issued + 1 \in 0..MaxIncidents /\ issued' \in issued..MaxIncidents
    BY <1>1, <1>3, BoundsTyped
  <2> HIDE DEF new
  <2> QED
    BY <1>3, <2>1, <2>2, LoadTyped
<1> QED
  BY <1>2, <1>3, Zenon DEF RegisterIncident

LEMMA UpdateStatusTyped ==
  ASSUME StoreTyped, NEW id, NEW new \in Statuses, UpdateStatus(id, new),
         UNCHANGED <<file, issued, notified, disturbed, silenced>>
  PROVE  StoreTyped'
<1>1. issued \in 0..MaxIncidents /\ issued \in Nat /\ IsFile(file, issued)
  BY BoundsTyped DEF StoreTyped
<1>2. IsFile(Restated(file, id, new), issued)
  BY <1>1, FileRestated
<1>3. Load(Self, Restated(file, id, new), 0)
  BY DEF UpdateStatus, Restated
<1> QED
  BY <1>1, <1>2, <1>3, LoadTyped, SelfIsProgram, BoundsTyped

LEMMA EndsTyped ==
  ASSUME StoreTyped, NEW p \in Programs, Ends(p)
  PROVE  StoreTyped'
<1>1. NoJob \in Jobs /\ NoJob.copy = <<>>
  BY BoundsTyped DEF NoJob, Jobs
<1>2. job' = [job EXCEPT ![p] = NoJob] /\ UNCHANGED <<file, issued, notified, silenced>>
  BY DEF Ends
<1>3. disturbed' \in BOOLEAN
  BY DEF Ends, StoreTyped
<1>4. job' \in [Programs -> Jobs]
  BY <1>1, <1>2 DEF StoreTyped
<1>5. ASSUME NEW q \in Programs PROVE IsFile(job'[q].copy, issued)
  <2>1. job'[q] = IF q = p THEN NoJob ELSE job[q]
    BY <1>2 DEF StoreTyped
  <2>2. IsFile(<<>>, issued)
    BY TornFile, BoundsTyped DEF StoreTyped
  <2> QED
    BY <1>1, <2>1, <2>2 DEF StoreTyped
<1> QED
  BY <1>2, <1>3, <1>4, <1>5 DEF StoreTyped

LEMMA TruncateTyped ==
  ASSUME TypeOK, NEW p \in Programs, Truncate(p)
  PROVE  TypeOK'
<1>1. StoreTyped'
  <2>1. /\ file' = <<>> /\ job' = [job EXCEPT ![p].step = "truncated"]
        /\ UNCHANGED <<issued, notified, disturbed, silenced>>
    BY DEF Truncate
  <2>2. IsFile(<<>>, issued)
    BY TornFile, BoundsTyped DEF TypeOK, StoreTyped
  <2>3. job' \in [Programs -> Jobs] /\ \A q \in Programs : job'[q].copy = job[q].copy
    BY <2>1 DEF TypeOK, StoreTyped, Jobs
  <2> QED
    BY <2>1, <2>2, <2>3 DEF TypeOK, StoreTyped
<1> QED
  BY <1>1, UnchangedTyped DEF Truncate, TypeOK, mail, counts, memory, slots, log

LEMMA WriteTyped ==
  ASSUME TypeOK, NEW p \in Programs, Write(p)
  PROVE  TypeOK'
<1>1. StoreTyped'
  <2> DEFINE Aside(q) == [job[q] EXCEPT !.stale = (job[q].step # "none")]
  <2>1. /\ file' = job[p].copy
        /\ disturbed' = (disturbed \/ job[p].stale)
        /\ silenced' = Silenced(p, job[p].copy)
        /\ notified' = IF job[p].note = 0 THEN notified
                       ELSE notified \cup {[id |-> job[p].note, prog |-> p]}
        /\ issued' = issued
    BY Zenon DEF Write
  <2>2. job' = [q \in Programs |-> IF q = p THEN NoJob ELSE Aside(q)]
    BY DEF Write
  <2>3. NoJob \in Jobs /\ NoJob.copy = <<>> /\ IsFile(<<>>, issued)
    BY TornFile, BoundsTyped DEF NoJob, Jobs, TypeOK, StoreTyped
  <2>4. ASSUME NEW q \in Programs PROVE Aside(q) \in Jobs /\ Aside(q).copy = job[q].copy
    <3>1. job[q] \in Jobs
      BY DEF TypeOK, StoreTyped
    <3>2. \A b \in BOOLEAN : /\ [job[q] EXCEPT !.stale = b] \in Jobs
                            /\ [job[q] EXCEPT !.stale = b].copy = job[q].copy
      BY <3>1 DEF Jobs
    <3>3. (job[q].step # "none") \in BOOLEAN
      BY Zenon
    <3> QED
      BY <3>2, <3>3, Zenon
  <2> HIDE DEF Aside
  <2>5. job' \in [Programs -> Jobs] /\ \A q \in Programs : IsFile(job'[q].copy, issued')
    BY <2>1, <2>2, <2>3, <2>4 DEF TypeOK, StoreTyped
  <2>6. notified' \subseteq [id : 1..MaxIncidents, prog : Programs]
    BY <2>1, BoundsTyped DEF TypeOK, StoreTyped, Jobs
  <2>7. disturbed' \in BOOLEAN
    BY <2>1, Zenon DEF TypeOK, StoreTyped
  <2>8. silenced' \subseteq Programs
    BY <2>1, Zenon DEF TypeOK, StoreTyped, Silenced
  <2> QED
    BY <2>1, <2>5, <2>6, <2>7, <2>8 DEF TypeOK, StoreTyped
<1> QED
  BY <1>1, UnchangedTyped DEF Write, TypeOK, mail, counts, memory, slots, log

LEMMA BotErrorTyped ==
  ASSUME TypeOK, NEW b \in Bots, BotError(b)
  PROVE  TypeOK'
<1>1. StoreTyped'
  BY RegisterTyped DEF BotError, TypeOK, Programs
<1> QED
  BY <1>1, UnchangedTyped DEF BotError, TypeOK, mail, counts, memory, slots, log

-----------------------------------------------------------------------------
(* Steps of the listener that leave the incident file alone                *)

LEMMA SmallestExists ==
  ASSUME NEW S \in SUBSET Nat, S # {}
  PROVE  \E n \in S : \A m \in S : n <= m
<1> DEFINE R == OpToRel(<, Nat)
<1>1. PICK n \in S : \A m \in S : ~(<<m, n>> \in R)
  <2> HIDE DEF R
  <2>1. IsWellFoundedOn(R, Nat)
    BY NatLessThanWellFounded DEF R
  <2> QED
    BY <2>1, WFMin
<1>2. \A m \in S : <<m, n>> \in R <=> m < n
  BY DEF OpToRel
<1>3. \A m \in S : ~(m < n)
  BY <1>1, <1>2
<1> HIDE DEF R
<1> QED
  BY <1>3

\* A batch is taken in the order of the updates.
LEMMA FirstIsSmallest ==
  ASSUME NEW S \in SUBSET Nat, S # {}
  PROVE  First(S) \in S /\ \A m \in S : First(S) <= m
BY SmallestExists, Zenon DEF First

LEMMA SequenceLength == MailTyped => Len(updates) \in Nat
BY LenProperties DEF MailTyped

LEMMA BatchTyped ==
  ASSUME MailTyped
  PROVE  batch \subseteq 1..Len(updates) /\ batch \in SUBSET Nat
BY SequenceLength DEF MailTyped

LEMMA PollTyped ==
  ASSUME TypeOK, Initialize \/ Poll \/ PollFails
  PROVE  TypeOK'
<1>1. Len(updates) \in Nat
  BY SequenceLength DEF TypeOK
<1>2. CASE Initialize
  <2>1. MailTyped'
    BY <1>1, <1>2 DEF Initialize, TypeOK, MailTyped, At
  <2>2. CountsTyped'
    <3>1. dropped' \subseteq 1..MaxUpdates
      <4>1. dropped' = dropped \/ dropped' = dropped \cup (confirmed..Len(updates))
        BY <1>2 DEF Initialize
      <4>2. confirmed..Len(updates) \subseteq 1..MaxUpdates
        BY <1>1, BoundsTyped DEF TypeOK, MailTyped
      <4> QED
        BY <4>1, <4>2 DEF TypeOK, CountsTyped
    <3>2. faults' \in 0..MaxFaults
      BY <1>2, BoundsTyped DEF Initialize, TypeOK, CountsTyped, Fault
    <3> QED
      BY <1>2, <3>1, <3>2 DEF Initialize, TypeOK, CountsTyped, slots
  <2> QED
    BY <1>2, <2>1, <2>2, UnchangedTyped DEF Initialize, TypeOK
<1>3. CASE Poll
  <2>1. MailTyped'
    BY <1>1, <1>3 DEF Poll, TypeOK, MailTyped, Larger
  <2> QED
    BY <1>3, <2>1, UnchangedTyped DEF Poll, TypeOK, counts, slots, log
<1>4. CASE PollFails
  <2>1. MailTyped'
    BY <1>1, <1>4 DEF PollFails, TypeOK, MailTyped
  <2>2. faults' \in 0..MaxFaults
    BY <1>4, BoundsTyped DEF PollFails, TypeOK, CountsTyped, Fault
  <2>3. CountsTyped'
    BY <1>4, <2>2 DEF PollFails, TypeOK, CountsTyped, slots, log
  <2> QED
    BY <1>4, <2>1, <2>3, UnchangedTyped DEF PollFails, TypeOK
<1> QED
  BY <1>2, <1>3, <1>4

LEMMA TakeTyped ==
  ASSUME TypeOK, TakeUpdate
  PROVE  TypeOK'
<1>1. Len(updates) \in Nat /\ First(batch) \in batch /\ batch \subseteq 1..Len(updates)
  BY SequenceLength, BatchTyped, FirstIsSmallest DEF TypeOK, TakeUpdate
<1>2. MailTyped'
  <2>1. /\ current' = First(batch) /\ batch' = batch \ {current'}
        /\ offset' = Larger(offset, current' + 1) /\ saved' = offset' /\ pc' = "handle"
        /\ UNCHANGED <<updates, confirmed>>
    BY DEF TakeUpdate, NextOffset
  <2>2. current' \in 1..Len(updates) /\ current' + 1 \in 0..Len(updates) + 1
    <3>1. \A b \in batch : b \in 1..Len(updates)
      BY <1>1
    <3>2. current' \in batch
      BY <1>1, <2>1, Zenon
    <3>3. current' \in 1..Len(updates)
      BY <3>1, <3>2, Zenon
    <3>4. Len(updates) \in Nat
      BY <1>1
    <3>5. \A n \in Nat : \A c \in 1..n : c + 1 \in 0..n + 1
      OBVIOUS
    <3> QED
      BY <3>3, <3>4, <3>5, Zenon
  <2>3. offset' \in 0..Len(updates) + 1
    BY <1>1, <2>1, <2>2 DEF TypeOK, MailTyped, Larger
  <2>4. saved' \in 0..Len(updates') + 1 /\ offset' \in 0..Len(updates') + 1
    BY <2>1, <2>3
  <2>5. batch' \subseteq confirmed'..Len(updates')
    BY <2>1 DEF TypeOK, MailTyped
  <2>6. current' \in 1..Len(updates')
    BY <2>1, <2>2
  <2>7. /\ updates' \in Seq(Requests) /\ Len(updates') <= MaxUpdates
        /\ confirmed' \in 1..Len(updates') + 1
    BY <2>1 DEF TypeOK, MailTyped
  <2> QED
    BY <2>1, <2>4, <2>5, <2>6, <2>7 DEF MailTyped
<1> QED
  BY <1>2, UnchangedTyped DEF TakeUpdate, TypeOK, counts, slots, log

LEMMA ReportsTyped ==
  ASSUME TypeOK, BatchDone \/ SendReport \/ NoReport \/ SaveSlot \/ ReportsFail
  PROVE  TypeOK'
<1>1. MailTyped'
  BY DEF BatchDone, SendReport, NoReport, SaveSlot, ReportsFail, TypeOK, MailTyped, memory
<1>2. UNCHANGED store
  BY DEF BatchDone, SendReport, NoReport, SaveSlot, ReportsFail
<1>3. slotSaved' \in BOOLEAN
  BY Zenon DEF BatchDone, SendReport, NoReport, SaveSlot, ReportsFail, slots, TypeOK,
     CountsTyped
<1>4. reports' \in Nat /\ unsaved' \in Nat
  BY DEF BatchDone, SendReport, NoReport, SaveSlot, ReportsFail, slots, TypeOK, CountsTyped
<1>5. UNCHANGED <<up, status, complained, begun, dropped>>
  BY DEF BatchDone, SendReport, NoReport, SaveSlot, ReportsFail, slots, memory, log
<1>6. faults' \in 0..MaxFaults
  BY BoundsTyped DEF BatchDone, SendReport, NoReport, SaveSlot, ReportsFail, Fault, TypeOK,
     CountsTyped
<1>7. CountsTyped'
  BY <1>3, <1>4, <1>5, <1>6 DEF TypeOK, CountsTyped
<1> QED
  BY <1>1, <1>2, <1>7, UnchangedTyped DEF TypeOK

\* A failing step before a handler begins: the update it meets is counted dropped.
LEMMA FailsTyped ==
  ASSUME TypeOK, TakeFails \/ HandleFails
  PROVE  TypeOK'
<1>1. Len(updates) \in Nat /\ Len(updates) <= MaxUpdates
  BY SequenceLength DEF TypeOK, MailTyped
<1>2. CASE TakeFails
  <2>1. First(batch) \in batch /\ batch \subseteq 1..Len(updates)
    BY <1>2, BatchTyped, FirstIsSmallest DEF TypeOK, TakeFails
  <2>2. First(batch) \in 1..Len(updates)
    BY <2>1, Zenon
  <2>3. /\ offset' = Larger(offset, First(batch) + 1) /\ saved' \in {saved, 0}
        /\ pc' = "failed" /\ batch' = batch \ {First(batch)}
        /\ dropped' = dropped \cup {First(batch)}
        /\ UNCHANGED <<up, updates, confirmed, current, status, complained, store, slots,
                       begun>>
    BY <1>2, Zenon DEF TakeFails, NextOffset
  <2> DEFINE f == First(batch)
  <2> HIDE DEF f
  <2>4. f \in 1..Len(updates) /\ offset' = Larger(offset, f + 1) /\ batch' = batch \ {f}
        /\ dropped' = dropped \cup {f}
    BY <2>2, <2>3 DEF f
  <2>5. offset' \in 0..Len(updates) + 1
    BY <1>1, <2>4 DEF TypeOK, MailTyped, Larger
  <2>6. MailTyped'
    <3>1. saved' \in 0..Len(updates) + 1
      BY <1>1, <2>3 DEF TypeOK, MailTyped
    <3>2. batch' \subseteq confirmed..Len(updates)
      BY <2>4 DEF TypeOK, MailTyped
    <3> QED
      BY <2>3, <2>5, <3>1, <3>2 DEF TypeOK, MailTyped
  <2>7. faults' \in 0..MaxFaults
    BY <1>2, BoundsTyped DEF TakeFails, Fault, TypeOK, CountsTyped
  <2>8. dropped' \subseteq 1..MaxUpdates
    BY <1>1, <2>4, BoundsTyped DEF TypeOK, CountsTyped
  <2>9. CountsTyped'
    BY <2>3, <2>7, <2>8 DEF TypeOK, CountsTyped, slots
  <2> QED
    BY <2>3, <2>6, <2>9, UnchangedTyped DEF TypeOK
<1>3. CASE HandleFails
  <2>1. pc = "handle" /\ pc' = "failed" /\ dropped' = dropped \cup {current}
        /\ current \in 1..Len(updates) /\ status' = "open"
        /\ UNCHANGED <<up, updates, confirmed, saved, offset, batch, complained, store,
                       slots, begun>>
    BY <1>3 DEF HandleFails, At, Settle, TypeOK, MailTyped
  <2>2. MailTyped'
    BY <2>1 DEF TypeOK, MailTyped
  <2>3. faults' \in 0..MaxFaults
    BY <1>3, BoundsTyped DEF HandleFails, Fault, TypeOK, CountsTyped
  <2>4. dropped' \subseteq 1..MaxUpdates
    BY <1>1, <2>1, BoundsTyped DEF TypeOK, CountsTyped
  <2>5. CountsTyped'
    BY <2>1, <2>3, <2>4 DEF TypeOK, CountsTyped, slots, Statuses
  <2> QED
    BY <2>1, <2>2, <2>5, UnchangedTyped DEF TypeOK
<1> QED
  BY <1>2, <1>3

\* A handler begins: the observer counts it for the update in hand.
LEMMA BeginTyped ==
  ASSUME TypeOK, pc = "handle", Begin
  PROVE  /\ begun' \in [1..MaxUpdates -> 0..2]
         /\ begun' = [begun EXCEPT ![current] = IF @ = 2 THEN 2 ELSE @ + 1]
         /\ current \in 1..MaxUpdates
<1>1. current \in 1..MaxUpdates
  BY SequenceLength, BoundsTyped DEF TypeOK, MailTyped
<1> QED
  BY <1>1 DEF TypeOK, CountsTyped, Begin

LEMMA HandleTyped ==
  ASSUME TypeOK, Answer \/ Decide
  PROVE  TypeOK'
<1>1. pc = "handle" /\ Begin /\ UNCHANGED store
  BY DEF Answer, Decide, At
<1>2. MailTyped'
  BY DEF Answer, Decide, Settle, TypeOK, MailTyped, At
<1>3. status' \in Statuses
  BY DEF Answer, Decide, Settle, Statuses, Wanted
<1>4. UNCHANGED <<up, complained, slotSaved, reports, unsaved, dropped, faults>>
  BY DEF Answer, Decide, slots
<1>5. CountsTyped'
  BY <1>1, <1>3, <1>4, BeginTyped DEF TypeOK, CountsTyped
<1> QED
  BY <1>1, <1>2, <1>5, UnchangedTyped DEF TypeOK

-----------------------------------------------------------------------------
(* Steps of the listener that restart programs or write incidents          *)

\* The update in hand.
LEMMA AsksTyped ==
  ASSUME TypeOK, current \in 1..Len(updates)
  PROVE  Asks \in Requests
BY ElementOfSeq DEF TypeOK, MailTyped, Asks

LEMMA TargetIsProgram ==
  ASSUME TypeOK, Has(file, Asks.id)
  PROVE  Target \in Programs
<1>1. \A i \in 1..Len(file) : file[i] \in Incidents
  BY ElementOfSeq DEF TypeOK, StoreTyped, IsFile
<1>2. PICK i \in 1..Len(file) : file[i].id = Asks.id
  BY DEF Has
<1> DEFINE found == CHOOSE j \in 1..Len(file) : file[j].id = Asks.id
<1>3. found \in 1..Len(file)
  BY <1>2, Zenon
<1> HIDE DEF found
<1>4. file[found] \in Incidents
  BY <1>1, <1>3
<1>5. file[found].prog \in Programs
  BY <1>4 DEF Incidents
<1> QED
  BY <1>5 DEF Target, found

LEMMA RestartTyped ==
  ASSUME TypeOK, StopTarget \/ StartTarget
  PROVE  TypeOK'
<1>1. CASE StopTarget
  <2>1. Target \in Programs /\ pc = "handle"
    BY <1>1, TargetIsProgram DEF StopTarget, At
  <2>2. StoreTyped'
    BY <1>1, <2>1, EndsTyped DEF StopTarget, TypeOK
  <2>3. MailTyped'
    BY <1>1, <2>1 DEF StopTarget, TypeOK, MailTyped, memory
  <2>4. CountsTyped'
    BY <1>1, <2>1, BeginTyped DEF StopTarget, TypeOK, CountsTyped, memory, slots
  <2> QED
    BY <2>2, <2>3, <2>4 DEF TypeOK
<1>2. CASE StartTarget
  <2>1. pc = "stopped" /\ pc' = "decide" /\ UNCHANGED store
        /\ UNCHANGED <<updates, confirmed, saved, offset, batch, current, complained,
                       slots, log>>
        /\ status' = "open"
    BY <1>2 DEF StartTarget, At, Wanted
  <2>2. PICK p \in {n.prog : n \in {m \in notified : m.id = Asks.id}} :
          \/ up' = up \cup {p} /\ UNCHANGED faults
          \/ up' = up /\ Fault("start")
    BY <1>2 DEF StartTarget
  <2>3. p \in Programs
    BY <2>2 DEF TypeOK, StoreTyped
  <2>4. up' \subseteq Programs /\ status' \in Statuses
    BY <2>1, <2>2, <2>3 DEF TypeOK, CountsTyped, Statuses
  <2>5. faults' \in 0..MaxFaults
    BY <2>2, BoundsTyped DEF TypeOK, CountsTyped, Fault
  <2>6. CountsTyped'
    BY <2>1, <2>4, <2>5 DEF TypeOK, CountsTyped, slots, log
  <2>7. MailTyped'
    BY <2>1 DEF TypeOK, MailTyped
  <2> QED
    BY <2>1, <2>6, <2>7, UnchangedTyped DEF TypeOK
<1> QED
  BY <1>1, <1>2

LEMMA UpdateIncidentTyped ==
  ASSUME TypeOK, UpdateIncident
  PROVE  TypeOK'
<1>1. StoreTyped'
  <2>1. UNCHANGED <<file, issued, notified, disturbed, silenced>>
    BY DEF UpdateIncident
  <2>2. CASE UpdateStatus(Asks.id, status)
    BY <2>1, <2>2, UpdateStatusTyped DEF TypeOK, CountsTyped
  <2>3. CASE UNCHANGED job
    BY <2>1, <2>3, UnchangedTyped DEF TypeOK, store
  <2> QED
    BY <2>2, <2>3, Zenon DEF UpdateIncident
<1>2. MailTyped'
  BY DEF UpdateIncident, Settle, TypeOK, MailTyped
<1>3. status' \in Statuses
  BY DEF UpdateIncident, Settle, Statuses
<1>4. CountsTyped'
  BY <1>3 DEF UpdateIncident, TypeOK, CountsTyped, slots, log
<1> QED
  BY <1>1, <1>2, <1>4 DEF TypeOK

LEMMA ComplainTyped ==
  ASSUME TypeOK, NEW loop \in {"listener", "report"}, Complain(loop),
         UNCHANGED <<file, notified, disturbed, silenced>>
  PROVE  StoreTyped' /\ complained' \in {"none", "listener", "report"}
<1>1. CASE UNCHANGED <<job, issued>>
  BY <1>1, UnchangedTyped DEF TypeOK, store, Complain
<1>2. CASE RegisterIncident(Self)
  BY <1>2, RegisterTyped, SelfIsProgram DEF TypeOK, Complain
<1> QED
  BY <1>1, <1>2, Zenon DEF Complain

LEMMA ReportErrorTyped ==
  ASSUME TypeOK, ReportError \/ ReportUnreported
  PROVE  TypeOK'
<1>1. PICK loop \in {"listener", "report"} : Complain(loop)
  BY Zenon DEF ReportError, ReportUnreported
<1>2. UNCHANGED <<file, notified, disturbed, silenced>>
  BY DEF ReportError, ReportUnreported
<1>3. StoreTyped' /\ complained' \in {"none", "listener", "report"}
  BY <1>1, <1>2, ComplainTyped
<1>4. MailTyped'
  BY DEF ReportError, ReportUnreported, TypeOK, MailTyped
<1>5. UNCHANGED <<up, status, slotSaved, reports, unsaved, begun, dropped, faults>>
  BY DEF ReportError, ReportUnreported, slots, log
<1>6. CountsTyped'
  BY <1>3, <1>5 DEF TypeOK, CountsTyped
<1> QED
  BY <1>3, <1>4, <1>6 DEF TypeOK

\* The incident file cannot be written.
LEMMA UpdateFailsTyped ==
  ASSUME TypeOK, UpdateFails
  PROVE  TypeOK'
<1>1. StoreTyped'
  BY EndsTyped, SelfIsProgram DEF UpdateFails, TypeOK
<1>2. MailTyped'
  BY DEF UpdateFails, TypeOK, MailTyped, memory
<1>3. faults' \in 0..MaxFaults
  BY BoundsTyped DEF UpdateFails, Fault, TypeOK, CountsTyped
<1>4. CountsTyped'
  BY <1>3 DEF UpdateFails, TypeOK, CountsTyped, memory, slots, log
<1> QED
  BY <1>1, <1>2, <1>4 DEF TypeOK

-----------------------------------------------------------------------------
(* Crashes, restarts and the operator                                      *)

LEMMA CrashTyped ==
  ASSUME TypeOK, Crash
  PROVE  TypeOK'
<1>1. StoreTyped'
  BY EndsTyped, SelfIsProgram DEF Crash, TypeOK
<1>2. MailTyped'
  BY SequenceLength DEF Crash, Forget, Settle, TypeOK, MailTyped
<1>3. dropped' \subseteq 1..MaxUpdates
  <2>1. dropped' = IF pc = "handle" THEN dropped \cup {current} ELSE dropped
    BY DEF Crash
  <2>2. pc = "handle" => current \in 1..MaxUpdates
    BY SequenceLength, BoundsTyped DEF TypeOK, MailTyped
  <2> QED
    BY <2>1, <2>2 DEF TypeOK, CountsTyped
<1>4. faults' \in 0..MaxFaults
  BY BoundsTyped DEF Crash, Fault, TypeOK, CountsTyped
<1>5. status' \in Statuses /\ up' \subseteq Programs /\ unsaved' \in Nat
  BY DEF Crash, Forget, Settle, Statuses, TypeOK, CountsTyped
<1>6. complained' = "none" /\ slotSaved' \in BOOLEAN
  BY Zenon DEF Crash, Forget, TypeOK, CountsTyped
<1>7. CountsTyped'
  BY <1>3, <1>4, <1>5, <1>6 DEF Crash, TypeOK, CountsTyped
<1> QED
  BY <1>1, <1>2, <1>7 DEF TypeOK

LEMMA RecoverTyped ==
  ASSUME TypeOK, NEW p \in Programs, Recover(p)
  PROVE  TypeOK'
<1>1. /\ up' = up \cup {p}
      /\ UNCHANGED <<updates, confirmed, saved, store, slots, log, faults>>
  BY DEF Recover
<1>2. CASE Forget
  <2>1. MailTyped'
    BY <1>1, <1>2, SequenceLength DEF Forget, Settle, TypeOK, MailTyped
  <2>2. complained' = "none"
    BY <1>2, Zenon DEF Forget
  <2>3. status' \in Statuses
    BY <1>2 DEF Forget, Settle, Statuses
  <2>4. CountsTyped'
    BY <1>1, <2>2, <2>3 DEF TypeOK, CountsTyped, slots, log
  <2> QED
    BY <1>1, <2>1, <2>4, UnchangedTyped DEF TypeOK
<1>3. CASE UNCHANGED <<pc, memory>>
  <2>1. MailTyped' /\ CountsTyped'
    BY <1>1, <1>3 DEF TypeOK, MailTyped, CountsTyped, memory, slots, log
  <2> QED
    BY <1>1, <2>1, UnchangedTyped DEF TypeOK
<1> QED
  BY <1>2, <1>3, Zenon DEF Recover

LEMMA OperatorTyped ==
  ASSUME TypeOK, Operator
  PROVE  TypeOK'
<1>1. PICK u \in Requests : Send(u)
  <2>1. CASE Send([kind |-> "command", id |-> 0])
    BY <2>1, BoundsTyped DEF Requests
  <2>2. CASE \E n \in notified, kind \in {"ignore", "fix", "restart"} :
               Send([kind |-> kind, id |-> n.id])
    BY <2>2, BoundsTyped DEF Requests, TypeOK, StoreTyped
  <2> QED
    BY <2>1, <2>2 DEF Operator
<1>2. /\ updates' = Append(updates, u) /\ Len(updates) < MaxUpdates
      /\ UNCHANGED <<up, confirmed, saved, pc, memory, store, slots, log, faults>>
  BY <1>1 DEF Send
<1>3. updates' \in Seq(Requests) /\ Len(updates') = Len(updates) + 1 /\ Len(updates) \in Nat
  BY <1>1, <1>2, AppendProperties, SequenceLength DEF TypeOK, MailTyped
<1>4. MailTyped'
  BY <1>2, <1>3, BoundsTyped DEF TypeOK, MailTyped, memory
<1> QED
  BY <1>2, <1>4, UnchangedTyped DEF TypeOK, counts, memory, slots, log

-----------------------------------------------------------------------------
LEMMA NextTyped == TypeOK /\ [Next]_vars => TypeOK'
<1> SUFFICES ASSUME TypeOK, [Next]_vars PROVE TypeOK'
  OBVIOUS
<1>1. CASE Listen
  BY <1>1, PollTyped, TakeTyped, ReportsTyped, HandleTyped, RestartTyped,
     UpdateIncidentTyped, ReportErrorTyped DEF Listen
<1>2. CASE UNCHANGED vars
  BY <1>2, UnchangedTyped DEF TypeOK, vars, mail, counts, memory, store, slots, log
<1>3. CASE DiskFails
  BY <1>3, FailsTyped, UpdateFailsTyped, ReportsTyped DEF DiskFails
<1> QED
  BY <1>1, <1>2, <1>3, PollTyped, CrashTyped, OperatorTyped, TruncateTyped, WriteTyped,
     RecoverTyped, BotErrorTyped DEF Next

\* Every variable keeps its type: no incident file has an id twice, a batch lies
\* above what is confirmed, and no offset is past the next update.
THEOREM ListenerTypeCorrect == Spec => []TypeOK
BY InitTyped, NextTyped, PTL DEF Spec

-----------------------------------------------------------------------------
(* No step of a bot moves the listener's offset                            *)

lines == <<updates, confirmed, saved, pc, offset, batch, current, slotSaved, reports,
           unsaved, begun, dropped, faults>>

\* The steps that are not the listener's own, its crash, its start or the operator's.
LEMMA StepCases ==
  ASSUME [Next]_vars
  PROVE  \/ Listen \/ PollFails \/ DiskFails \/ Crash \/ Operator
         \/ Self \notin up /\ Self \in up' /\ Recover(Self)
         \/ UNCHANGED lines /\ up \subseteq up'
<1>1. CASE UNCHANGED vars
  BY <1>1 DEF vars, lines, memory, slots, log
<1>2. ASSUME NEW p \in Programs, Truncate(p) \/ Write(p)
      PROVE  UNCHANGED lines /\ up \subseteq up'
  BY <1>2 DEF Truncate, Write, lines, memory, slots, log
<1>3. ASSUME NEW b \in Bots, BotError(b)
      PROVE  UNCHANGED lines /\ up \subseteq up'
  BY <1>3 DEF BotError, lines, memory, slots, log
<1>4. ASSUME NEW p \in Programs, Recover(p), p # Self
      PROVE  UNCHANGED lines /\ up \subseteq up'
  BY <1>4 DEF Recover, lines, memory, slots, log
<1>5. Recover(Self) => Self \notin up /\ Self \in up'
  BY DEF Recover
<1> QED
  BY <1>1, <1>2, <1>3, <1>4, <1>5, Zenon DEF Next

\* A listener that does not run was ended at its start or by its own restart.
Down == Self \notin up => pc \in {"boot", "stopped"}

LEMMA DownKept == TypeOK /\ Down /\ [Next]_vars => Down'
<1> SUFFICES ASSUME TypeOK, Down, [Next]_vars PROVE Down'
  OBVIOUS
<1>1. CASE Listen
  <2>1. CASE Initialize \/ Poll \/ TakeUpdate \/ BatchDone \/ Answer \/ Decide
             \/ UpdateIncident \/ ReportError \/ ReportUnreported \/ SendReport
             \/ NoReport \/ SaveSlot
    BY <2>1 DEF Initialize, Poll, TakeUpdate, BatchDone, Answer, Decide, UpdateIncident,
                ReportError, ReportUnreported, SendReport, NoReport, SaveSlot, At, Down
  <2>2. CASE StopTarget
    BY <2>2 DEF StopTarget, Down
  <2>3. CASE StartTarget
    BY <2>3 DEF StartTarget, At, Down
  <2> QED
    BY <1>1, <2>1, <2>2, <2>3 DEF Listen
<1>2. CASE PollFails \/ DiskFails \/ Operator
  <2>1. CASE PollFails \/ DiskFails
    BY <2>1 DEF PollFails, DiskFails, TakeFails, HandleFails, UpdateFails, ReportsFail, At, Down
  <2>2. CASE Operator
    BY <2>2 DEF Operator, Send, Down
  <2> QED
    BY <1>2, <2>1, <2>2
<1>3. CASE Crash
  BY <1>3 DEF Crash, Forget, Down
<1>4. CASE Self \notin up /\ Self \in up' /\ Recover(Self)
  BY <1>4 DEF Down
<1>5. CASE UNCHANGED lines /\ up \subseteq up'
  BY <1>5 DEF lines, Down
<1> QED
  BY <1>1, <1>2, <1>3, <1>4, <1>5, StepCases

-----------------------------------------------------------------------------
(* One report of a slot                                                    *)

\* Reports outnumber the unsaved ones by one at most, and only when the slot is
\* saved or about to be.
Reported ==
  /\ reports <= unsaved + 1
  /\ ~slotSaved /\ pc # "sent" => reports <= unsaved
  /\ pc = "sent" => ~slotSaved

LEMMA ReportedKept == TypeOK /\ Down /\ Reported /\ [Next]_vars => Reported'
<1> SUFFICES ASSUME TypeOK, Down, Reported, [Next]_vars PROVE Reported'
  OBVIOUS
<1>1. reports \in Nat /\ unsaved \in Nat /\ slotSaved \in BOOLEAN
  BY DEF TypeOK, CountsTyped
<1>2. CASE /\ pc # "sent" /\ pc' # "sent" /\ reports' = reports /\ unsaved' = unsaved
           /\ (slotSaved' <=> slotSaved)
  BY <1>2 DEF Reported
<1>3. CASE Listen
  <2>1. CASE Initialize \/ Poll \/ TakeUpdate \/ BatchDone \/ Answer \/ Decide \/ StopTarget
             \/ StartTarget \/ UpdateIncident \/ ReportError \/ ReportUnreported \/ NoReport
    <3>1. pc # "sent" /\ pc' # "sent"
      BY <2>1 DEF Initialize, Poll, TakeUpdate, BatchDone, Answer, Decide, StopTarget,
         StartTarget, UpdateIncident, ReportError, ReportUnreported, NoReport, At
    <3>2. UNCHANGED <<slotSaved, reports, unsaved>>
      BY <2>1 DEF Initialize, Poll, TakeUpdate, BatchDone, Answer, Decide, StopTarget,
         StartTarget, UpdateIncident, ReportError, ReportUnreported, NoReport, slots
    <3> QED
      BY <1>2, <3>1, <3>2
  <2>2. CASE SendReport
    BY <1>1, <2>2 DEF SendReport, At, Reported
  <2>3. CASE SaveSlot
    <3>1. /\ slotSaved' /\ pc' = "poll" /\ reports' = reports /\ unsaved' = unsaved
      BY <2>3, Zenon DEF SaveSlot
    <3> QED
      BY <1>1, <3>1 DEF Reported
  <2> QED
    BY <1>3, <2>1, <2>2, <2>3 DEF Listen
<1>4. CASE PollFails \/ TakeFails \/ HandleFails \/ UpdateFails
  BY <1>2, <1>4 DEF PollFails, TakeFails, HandleFails, UpdateFails, At, slots
<1>5. CASE ReportsFail \/ Crash
  <2>1. pc' # "sent" /\ reports' = reports
    BY <1>5 DEF ReportsFail, Crash, Forget
  <2>2. \/ pc # "sent" /\ (slotSaved' <=> slotSaved) /\ unsaved' = unsaved
        \/ pc = "sent" /\ (slotSaved' <=> slotSaved) /\ unsaved' = unsaved + 1
        \/ pc # "sent" /\ unsaved' = unsaved + 1
    BY <1>5 DEF ReportsFail, Crash, At
  <2> QED
    BY <1>1, <2>1, <2>2 DEF Reported
<1>6. CASE Self \notin up /\ Self \in up' /\ Recover(Self)
  BY <1>2, <1>6 DEF Recover, Forget, slots, Down
<1>7. CASE Operator \/ UNCHANGED lines
  <2>1. UNCHANGED <<pc, slotSaved, reports, unsaved>>
    BY <1>7 DEF Operator, Send, lines, slots
  <2> QED
    BY <2>1 DEF Reported
<1> QED
  BY <1>3, <1>4, <1>5, <1>6, <1>7, StepCases DEF DiskFails

\* The report of a slot is sent once, and again only as often as a crash or a disk
\* error kept its slot from the state file, for any number of updates and faults.
THEOREM SlotReportedOnce == Spec => []ReportOnce
<1>1. Init => Down /\ Reported
  BY SelfIsProgram DEF Init, Down, Reported
<1>2. TypeOK /\ Reported => ReportOnce
  BY DEF TypeOK, CountsTyped, Reported, ReportOnce
<1> QED
  BY <1>1, <1>2, InitTyped, NextTyped, DownKept, ReportedKept, PTL DEF Spec

-----------------------------------------------------------------------------
(* No update is passed over                                                *)

Done(u) == begun[u] > 0 \/ u \in dropped
Underway(u) == pc = "handle" /\ u = current

\* What the offset, the saved offset or the confirmed one has passed was met, and
\* so was what lies below an update of the batch and is not in the batch.
PassedAreMet ==
  /\ \A u \in 1..Len(updates) :
       u < offset \/ u < saved \/ u < confirmed => Done(u) \/ Underway(u)
  /\ \A b \in batch : \A u \in 1..b - 1 : u \in batch \/ Done(u) \/ Underway(u)

\* A step that loses sight of no update and moves no offset forward.
LEMMA MetKept ==
  ASSUME TypeOK, PassedAreMet, updates' = updates, confirmed' = confirmed,
         offset' \in {offset, 0}, saved' \in {saved, 0}, batch' \in {batch, {}},
         \A u \in 1..Len(updates) : Done(u) \/ Underway(u) => Done(u)' \/ Underway(u)'
  PROVE  PassedAreMet'
<1>1. Len(updates) \in Nat /\ batch \subseteq 1..Len(updates)
  BY SequenceLength, BatchTyped DEF TypeOK
<1>2. ASSUME NEW u \in 1..Len(updates), u < offset' \/ u < saved' \/ u < confirmed'
      PROVE  Done(u)' \/ Underway(u)'
  <2>1. ~(u < 0)
    BY <1>1
  <2>2. Done(u) \/ Underway(u)
    BY <1>2, <2>1 DEF PassedAreMet
  <2> QED
    BY <2>2
<1>3. ASSUME NEW b \in batch', NEW u \in 1..b - 1
      PROVE  u \in batch' \/ Done(u)' \/ Underway(u)'
  <2>1. batch' = batch /\ b \in batch
    BY <1>3
  <2>2. u \in 1..Len(updates)
    BY <1>1, <2>1
  <2>3. u \in batch \/ Done(u) \/ Underway(u)
    BY <2>1 DEF PassedAreMet
  <2> QED
    BY <2>1, <2>2, <2>3
<1> QED
  BY <1>2, <1>3, Zenon DEF PassedAreMet

LEMMA BegunKept ==
  ASSUME TypeOK, pc = "handle", Begin, UNCHANGED dropped, NEW u \in 1..Len(updates)
  PROVE  Done(u) \/ Underway(u) => Done(u)'
<1>1. /\ begun' = [begun EXCEPT ![current] = IF @ = 2 THEN 2 ELSE @ + 1]
      /\ current \in 1..MaxUpdates
  BY BeginTyped
<1>2. u \in 1..MaxUpdates
  BY SequenceLength, BoundsTyped DEF TypeOK, MailTyped
<1>3. begun \in [1..MaxUpdates -> 0..2]
  BY DEF TypeOK, CountsTyped
<1>4. begun[current] \in 0..2 /\ begun[u] \in 0..2
  BY <1>1, <1>2, <1>3
<1>5. begun'[u] = IF u = current THEN IF begun[current] = 2 THEN 2 ELSE begun[current] + 1
                  ELSE begun[u]
  BY <1>1, <1>2, <1>3
<1> QED
  BY <1>4, <1>5 DEF Done, Underway

LEMMA InitializeMet ==
  ASSUME TypeOK, PassedAreMet, Initialize
  PROVE  PassedAreMet'
<1>1. Len(updates) \in Nat /\ confirmed \in Nat /\ saved \in Nat
  BY SequenceLength DEF TypeOK, MailTyped
<1>2. /\ pc = "boot" /\ pc' = "poll" /\ dropped \subseteq dropped'
      /\ UNCHANGED <<updates, confirmed, batch, begun>>
  BY DEF Initialize, At
<1>3. \A u : Done(u) \/ Underway(u) => Done(u)'
  BY <1>2 DEF Done, Underway
<1>4. CASE saved > 0 /\ offset' = saved /\ saved' = saved
  <2>1. \A u \in 1..Len(updates) :
          u < offset' \/ u < saved' \/ u < confirmed => Done(u) \/ Underway(u)
    BY <1>4 DEF PassedAreMet
  <2> QED
    BY <1>2, <1>3, <2>1, Zenon DEF PassedAreMet
<1>5. CASE /\ saved' = offset' /\ dropped' = dropped \cup (confirmed..Len(updates))
  <2>1. \A u \in 1..Len(updates) : u \in dropped' \/ u < confirmed
    BY <1>1, <1>5
  <2>2. \A u \in 1..Len(updates) : Done(u)'
    BY <1>3, <2>1, <1>2 DEF PassedAreMet, Done, Underway
  <2> QED
    BY <1>2, <1>3, <2>2, Zenon DEF PassedAreMet
<1>6. CASE offset' = 0 /\ saved' = saved
  BY <1>2, <1>3, <1>6, MetKept
<1> QED
  BY <1>4, <1>5, <1>6 DEF Initialize

LEMMA PollMet ==
  ASSUME TypeOK, PassedAreMet, Poll
  PROVE  PassedAreMet'
<1>1. /\ Len(updates) \in Nat /\ confirmed \in Nat /\ offset \in Nat
  BY SequenceLength DEF TypeOK, MailTyped
<1>2. /\ pc = "poll" /\ pc' = "take"
      /\ confirmed' = Larger(confirmed, offset) /\ batch' = confirmed'..Len(updates)
      /\ UNCHANGED <<updates, saved, offset, begun, dropped>>
  BY DEF Poll, At, log
<1>3. \A u : Done(u) \/ Underway(u) <=> Done(u)' \/ Underway(u)'
  BY <1>2 DEF Done, Underway
<1>4. \A u \in 1..Len(updates) : u < confirmed' => u < confirmed \/ u < offset
  BY <1>1, <1>2 DEF Larger
<1>5. \A u \in 1..Len(updates) :
        u < offset \/ u < saved \/ u < confirmed' => Done(u)' \/ Underway(u)'
  BY <1>3, <1>4 DEF PassedAreMet
<1>6. ASSUME NEW b \in batch', NEW u \in 1..b - 1
      PROVE  u \in batch' \/ Done(u)' \/ Underway(u)'
  <2>1. confirmed' \in Nat
    BY <1>1, <1>2 DEF Larger
  <2>2. u \in 1..Len(updates) /\ (u \in batch' \/ u < confirmed')
    BY <1>1, <1>2, <2>1
  <2> QED
    BY <1>5, <2>2
<1> QED
  BY <1>2, <1>5, <1>6, Zenon DEF PassedAreMet

\* The offset that passes the first update of a batch passes no other one of it.
LEMMA Passing ==
  ASSUME TypeOK, batch # {}
  PROVE  LET c == First(batch)
             o == NextOffset(c)
         IN  /\ c \in batch /\ c \in 1..Len(updates) /\ \A u \in batch : c <= u
             /\ o \in Nat /\ o >= offset /\ o > c
             /\ \A u \in 1..Len(updates) : u < o => u < offset \/ u <= c
<1> DEFINE c == First(batch)
           o == NextOffset(c)
<1>1. batch \subseteq 1..Len(updates) /\ batch \in SUBSET Nat
  BY BatchTyped DEF TypeOK
<1>2. c \in batch /\ \A u \in batch : c <= u
  BY <1>1, FirstIsSmallest, Zenon
<1>3. c \in 1..Len(updates) /\ c \in Nat
  BY <1>1, <1>2, Zenon
<1>4. Len(updates) \in Nat /\ offset \in Nat
  BY SequenceLength DEF TypeOK, MailTyped
<1> HIDE DEF c
<1>5. /\ o \in Nat /\ o >= offset /\ o > c
      /\ \A u \in Nat : u < o => u < offset \/ u <= c
  BY <1>3, <1>4 DEF NextOffset, Larger
<1>6. \A u \in 1..Len(updates) : u \in Nat
  BY <1>4
<1> HIDE DEF o
<1>7. \A u \in 1..Len(updates) : u < o => u < offset \/ u <= c
  BY <1>5, <1>6
<1> QED
  BY <1>2, <1>3, <1>5, <1>7, Zenon DEF c, o

\* What TakeUpdate does to the offsets and the batch.
LEMMA Taking ==
  ASSUME TypeOK, TakeUpdate
  PROVE  /\ pc = "take" /\ pc' = "handle"
         /\ current' \in batch /\ current' \in 1..Len(updates)
         /\ \A u \in batch : current' <= u
         /\ batch' = batch \ {current'} /\ saved' = offset'
         /\ offset' \in Nat /\ offset' >= offset /\ offset' > current'
         /\ \A u \in 1..Len(updates) : u < offset' => u < offset \/ u <= current'
         /\ UNCHANGED <<updates, confirmed, begun, dropped, faults>>
<1>1. /\ pc = "take" /\ pc' = "handle" /\ current' = First(batch) /\ batch # {}
      /\ batch' = batch \ {current'} /\ saved' = offset'
      /\ offset' = NextOffset(current')
      /\ UNCHANGED <<updates, confirmed, begun, dropped, faults>>
  BY DEF TakeUpdate, At, log
<1> QED
  BY <1>1, Passing, Zenon

\* A step that passes the first update of the batch and meets it.
LEMMA PassOne ==
  ASSUME TypeOK, PassedAreMet, NEW c \in batch,
         \A u \in batch : c <= u,
         \A u \in 1..Len(updates) : u < offset' => u < offset \/ u <= c,
         batch' = batch \ {c}, saved' \in {offset', saved, 0},
         UNCHANGED <<updates, confirmed>>,
         \A u : Done(u) \/ Underway(u) \/ u = c => Done(u)' \/ Underway(u)'
  PROVE  PassedAreMet'
<1>1. Len(updates) \in Nat /\ batch \subseteq 1..Len(updates) /\ c \in 1..Len(updates)
  BY SequenceLength, BatchTyped DEF TypeOK
<1>2. ASSUME NEW u \in 1..Len(updates), u < c PROVE Done(u) \/ Underway(u)
  <2>1. c \in Nat
    BY <1>1
  <2>2. u \notin batch
    BY <1>1, <1>2, <2>1
  <2>3. u \in 1..c - 1
    BY <1>1, <1>2, <2>1
  <2> QED
    BY <2>2, <2>3, Zenon DEF PassedAreMet
<1>3. ASSUME NEW u \in 1..Len(updates), u < offset' \/ u < saved' \/ u < confirmed'
      PROVE  Done(u)' \/ Underway(u)'
  <2>1. u < offset \/ u < saved \/ u < confirmed \/ u = c \/ u < c
    BY <1>1, <1>3
  <2> QED
    BY <1>2, <2>1 DEF PassedAreMet
<1>4. ASSUME NEW b \in batch', NEW u \in 1..b - 1
      PROVE  u \in batch' \/ Done(u)' \/ Underway(u)'
  <2>1. u \in batch \/ Done(u) \/ Underway(u)
    BY DEF PassedAreMet
  <2> QED
    BY <2>1
<1> QED
  BY <1>3, <1>4, Zenon DEF PassedAreMet

LEMMA TakeMet ==
  ASSUME TypeOK, PassedAreMet, TakeUpdate \/ TakeFails
  PROVE  PassedAreMet'
<1>1. CASE TakeUpdate
  <2>1. /\ current' \in batch /\ \A u \in batch : current' <= u
        /\ pc = "take" /\ pc' = "handle"
        /\ batch' = batch \ {current'} /\ saved' = offset'
        /\ \A u \in 1..Len(updates) : u < offset' => u < offset \/ u <= current'
        /\ UNCHANGED <<updates, confirmed, begun, dropped>>
    BY <1>1, Taking
  <2>2. \A u : Done(u) \/ Underway(u) \/ u = current' => Done(u)' \/ Underway(u)'
    BY <2>1 DEF Done, Underway
  <2> QED
    BY <2>1, <2>2, PassOne
<1>2. CASE TakeFails
  <2> DEFINE c == First(batch)
  <2>1. /\ pc = "take" /\ pc' = "failed" /\ batch # {}
        /\ offset' = NextOffset(c) /\ saved' \in {saved, 0}
        /\ batch' = batch \ {c} /\ dropped' = dropped \cup {c}
        /\ UNCHANGED <<updates, confirmed, begun>>
    BY <1>2, Zenon DEF TakeFails, At
  <2>2. /\ c \in batch /\ \A u \in batch : c <= u
        /\ \A u \in 1..Len(updates) : u < offset' => u < offset \/ u <= c
    BY <2>1, Passing, Zenon
  <2> HIDE DEF c
  <2>3. \A u : Done(u) \/ Underway(u) \/ u = c => Done(u)' \/ Underway(u)'
    BY <2>1 DEF Done, Underway
  <2> QED
    BY <2>1, <2>2, <2>3, PassOne
<1> QED
  BY <1>1, <1>2

LEMMA SendMet ==
  ASSUME TypeOK, PassedAreMet, Operator
  PROVE  PassedAreMet'
<1>1. PICK u : updates' = Append(updates, u)
  BY DEF Operator, Send
<1>2. UNCHANGED <<confirmed, saved, pc, memory, log>>
  BY DEF Operator, Send
<1>3. Len(updates) \in Nat /\ Len(updates') = Len(updates) + 1
  BY <1>1, SequenceLength, AppendProperties DEF TypeOK, MailTyped, Operator, Send
<1>4. offset <= Len(updates) + 1 /\ saved <= Len(updates) + 1
      /\ confirmed <= Len(updates) + 1 /\ offset \in Nat /\ saved \in Nat /\ confirmed \in Nat
  BY <1>3 DEF TypeOK, MailTyped
<1>5. \A v \in 1..Len(updates') :
        v < offset \/ v < saved \/ v < confirmed => v \in 1..Len(updates)
  BY <1>3, <1>4
<1>6. UNCHANGED <<offset, batch, begun, dropped, current>>
  BY <1>2 DEF memory, log
<1> QED
  BY <1>2, <1>5, <1>6 DEF PassedAreMet, Done, Underway

LEMMA PassedAreMetKept == TypeOK /\ Down /\ PassedAreMet /\ [Next]_vars => PassedAreMet'
<1> SUFFICES ASSUME TypeOK, Down, PassedAreMet, [Next]_vars PROVE PassedAreMet'
  OBVIOUS
<1>1. ASSUME UNCHANGED <<updates, confirmed, saved, offset, begun, dropped>>,
             batch' \in {batch, {}}, pc # "handle"
      PROVE  PassedAreMet'
  <2>1. \A u : Done(u) \/ Underway(u) => Done(u)' \/ Underway(u)'
    BY <1>1 DEF Done, Underway
  <2> QED
    BY <1>1, <2>1, MetKept
<1>2. CASE Listen
  <2>1. CASE BatchDone \/ StartTarget \/ UpdateIncident \/ ReportError
             \/ ReportUnreported \/ SendReport \/ NoReport \/ SaveSlot
    <3>1. UNCHANGED <<updates, confirmed, saved, offset, begun, dropped>>
      BY <2>1 DEF BatchDone, StartTarget, UpdateIncident, ReportError, ReportUnreported,
         SendReport, NoReport, SaveSlot, memory, log
    <3>2. batch' \in {batch, {}} /\ pc # "handle"
      BY <2>1 DEF BatchDone, StartTarget, UpdateIncident, ReportError, ReportUnreported,
         SendReport, NoReport, SaveSlot, memory, At
    <3> QED
      BY <1>1, <3>1, <3>2
  <2>2. CASE Answer \/ Decide \/ StopTarget
    <3>1. pc = "handle" /\ Begin
          /\ UNCHANGED <<updates, confirmed, saved, offset, batch, dropped>>
      BY <2>2 DEF Answer, Decide, StopTarget, At, memory
    <3>2. \A u \in 1..Len(updates) : Done(u) \/ Underway(u) => Done(u)'
      BY <3>1, BegunKept
    <3> QED
      BY <3>1, <3>2, MetKept
  <2> QED
    BY <1>2, <2>1, <2>2, InitializeMet, PollMet, TakeMet, Zenon DEF Listen
<1>3. CASE PollFails \/ UpdateFails \/ ReportsFail
  <2>1. /\ UNCHANGED <<updates, confirmed, saved, offset, begun, dropped>>
        /\ batch' \in {batch, {}} /\ pc # "handle"
    BY <1>3 DEF PollFails, UpdateFails, ReportsFail, At, memory, log
  <2> QED
    BY <1>1, <2>1
<1>7. CASE HandleFails
  <2>1. /\ UNCHANGED <<updates, confirmed, saved, offset, batch, begun>>
        /\ dropped' = dropped \cup {current}
    BY <1>7 DEF HandleFails
  <2>2. \A u : Done(u) \/ Underway(u) => Done(u)'
    BY <2>1 DEF Done, Underway
  <2> QED
    BY <2>1, <2>2, MetKept
<1>4. CASE Crash
  <2>1. /\ UNCHANGED <<updates, confirmed, begun>> /\ offset' = 0 /\ batch' = {}
        /\ saved' \in {saved, 0} /\ dropped \subseteq dropped'
        /\ (pc = "handle" => current \in dropped')
    BY <1>4 DEF Crash, Forget
  <2>2. \A u : Done(u) \/ Underway(u) => Done(u)'
    BY <2>1 DEF Done, Underway
  <2> QED
    BY <2>1, <2>2, MetKept
<1>5. CASE Self \notin up /\ Recover(Self)
  <2>1. /\ UNCHANGED <<updates, confirmed, saved, begun, dropped>> /\ pc # "handle"
        /\ offset' = 0 /\ batch' = {}
    BY <1>5 DEF Recover, Forget, Down, log
  <2>2. \A u : Done(u) \/ Underway(u) => Done(u)'
    BY <2>1 DEF Done, Underway
  <2> QED
    BY <2>1, <2>2, MetKept
<1>6. CASE UNCHANGED lines
  BY <1>6 DEF lines, PassedAreMet, Done, Underway
<1> QED
  BY <1>2, <1>3, <1>4, <1>5, <1>6, <1>7, SendMet, TakeMet, StepCases DEF DiskFails

\* Every update the listener is past was handled, except those that waited at the
\* first start and the one that a crash, or a disk error the loop survives, met
\* between its offset and its handler: what a failed batch leaves is read again.
THEOREM NoUpdatePassedOver == Spec => []OnlyFailuresDrop
<1>1. Init => Down /\ PassedAreMet
  BY SelfIsProgram DEF Init, Down, PassedAreMet
<1>2. TypeOK /\ PassedAreMet => OnlyFailuresDrop
  BY DEF PassedAreMet, OnlyFailuresDrop, Done, Underway
<1> QED
  BY <1>1, <1>2, InitTyped, NextTyped, DownKept, PassedAreMetKept, PTL DEF Spec

-----------------------------------------------------------------------------
(* No update is handled twice                                              *)

\* The handler of an update began once, and no poll returns it again: it is
\* confirmed, or the offset in use is past it, or the offset file is torn and a
\* second fault would be needed to keep the next start from passing it over.
Behind(u) ==
  \/ u < confirmed
  \/ pc # "boot" /\ u < offset
  \/ pc = "boot" /\ (u < saved \/ (saved = 0 /\ faults = 1))

Settled(u) ==
  u <= Len(updates) /\ begun[u] = 1 /\ u \notin batch /\ ~Underway(u) /\ Behind(u)

\* The file holds the offset in use unless it could not be written, which is over
\* once another update is taken.
OffsetSaved ==
  /\ pc \in {"handle", "stopped", "decide"} => saved = offset
  /\ pc # "boot" /\ faults = 0 => saved = offset
  /\ pc = "handle" => current < offset /\ current \notin batch

HandledAreSettled == faults <= 1 => \A u \in 1..MaxUpdates : begun[u] > 0 => Settled(u)

LEMMA OffsetSavedKept ==
  TypeOK /\ Down /\ OffsetSaved /\ [Next]_vars => OffsetSaved'
<1> SUFFICES ASSUME TypeOK, Down, OffsetSaved, [Next]_vars PROVE OffsetSaved'
  OBVIOUS
<1>1. CASE Listen
  <2>1. CASE Initialize
    BY <2>1, BoundsTyped DEF Initialize, OffsetSaved, Fault, TypeOK, CountsTyped
  <2>2. CASE Poll \/ BatchDone \/ UpdateIncident \/ ReportError \/ ReportUnreported
             \/ SendReport \/ NoReport \/ SaveSlot \/ Answer
    <3>1. pc # "boot" /\ pc' \notin {"handle", "stopped", "decide"}
      BY <2>2 DEF Poll, BatchDone, UpdateIncident, ReportError, ReportUnreported, SendReport,
         NoReport, SaveSlot, Answer, At
    <3>2. UNCHANGED <<saved, offset, faults>>
      BY <2>2 DEF Poll, BatchDone, UpdateIncident, ReportError, ReportUnreported, SendReport,
         NoReport, SaveSlot, Answer, memory
    <3> QED
      BY <3>1, <3>2 DEF OffsetSaved
  <2>3. CASE Decide \/ StopTarget \/ StartTarget
    <3>1. pc \in {"handle", "stopped"} /\ pc' # "handle" /\ UNCHANGED <<saved, offset>>
      BY <2>3 DEF Decide, StopTarget, StartTarget, At, memory
    <3> QED
      BY <3>1 DEF OffsetSaved
  <2>4. CASE TakeUpdate
    <3>1. /\ current' \in 1..Len(updates) /\ offset' > current' /\ offset' \in Nat
          /\ batch' = batch \ {current'} /\ saved' = offset'
      BY <2>4, Taking
    <3>2. current' < offset' /\ current' \notin batch'
      BY <3>1, SequenceLength DEF TypeOK
    <3> QED
      BY <3>1, <3>2 DEF OffsetSaved
  <2> QED
    BY <1>1, <2>1, <2>2, <2>3, <2>4 DEF Listen
<1>2. CASE PollFails \/ DiskFails
  <2>1. faults' # 0
    BY <1>2, BoundsTyped DEF PollFails, DiskFails, TakeFails, HandleFails, UpdateFails,
       ReportsFail, Fault, TypeOK, CountsTyped
  <2>2. pc' \notin {"handle", "stopped", "decide"}
    BY <1>2 DEF PollFails, DiskFails, TakeFails, HandleFails, UpdateFails, ReportsFail
  <2> QED
    BY <2>1, <2>2 DEF OffsetSaved
<1>3. CASE Crash \/ (Self \notin up /\ Recover(Self))
  BY <1>3 DEF Crash, Recover, Forget, OffsetSaved
<1>4. CASE Operator \/ UNCHANGED lines
  <2>1. UNCHANGED <<pc, saved, offset, current, batch, faults>>
    BY <1>4 DEF Operator, Send, lines, memory
  <2> QED
    BY <2>1 DEF OffsetSaved
<1> QED
  BY <1>1, <1>2, <1>3, <1>4, StepCases, Zenon

\* A step that returns no update to a batch and takes no offset back.
LEMMA SettledKept ==
  ASSUME TypeOK, HandledAreSettled, begun' = begun, faults' \in {faults, faults + 1},
         updates' = updates, batch' \subseteq batch, pc' # "handle" \/ UNCHANGED <<pc, current>>,
         faults' <= 1 => \A u \in 1..Len(updates) : Behind(u) => Behind(u)'
  PROVE  HandledAreSettled'
<1> SUFFICES ASSUME faults' <= 1, NEW u \in 1..MaxUpdates, begun[u] > 0
             PROVE  Settled(u)'
  BY DEF HandledAreSettled
<1>1. faults \in Nat /\ faults <= 1
  BY BoundsTyped DEF TypeOK, CountsTyped
<1>2. Settled(u)
  BY <1>1 DEF HandledAreSettled
<1>3. u \in 1..Len(updates)
  BY <1>2, SequenceLength, BoundsTyped DEF Settled, TypeOK
<1>4. Behind(u)' /\ u \notin batch'
  BY <1>2, <1>3 DEF Settled
<1>5. ~Underway(u)'
  BY <1>2 DEF Settled, Underway
<1> QED
  BY <1>2, <1>4, <1>5 DEF Settled

LEMMA InitializeSettled ==
  ASSUME TypeOK, HandledAreSettled, Initialize
  PROVE  HandledAreSettled'
<1>1. /\ Len(updates) \in Nat /\ confirmed \in Nat /\ saved \in Nat /\ faults \in Nat
  BY SequenceLength, BoundsTyped DEF TypeOK, MailTyped, CountsTyped
<1>2. /\ pc = "boot" /\ pc' = "poll" /\ begun' = begun /\ updates' = updates
      /\ batch' = batch /\ confirmed' = confirmed
  BY DEF Initialize, At
<1>3. /\ faults' \in {faults, faults + 1}
      /\ faults' <= 1 => \A u \in 1..Len(updates) : Behind(u) => Behind(u)'
  <2>1. CASE saved > 0 /\ offset' = saved /\ saved' = saved /\ faults' = faults
    BY <1>1, <1>2, <2>1 DEF Behind
  <2>2. CASE /\ saved = 0 /\ offset' = (IF Len(updates) >= confirmed THEN Len(updates) + 1 ELSE 0)
             /\ faults' = faults
    <3>1. \A u \in 1..Len(updates) : u < confirmed \/ u < offset'
      BY <1>1, <2>2
    <3> QED
      BY <1>2, <2>2, <3>1 DEF Behind
  <2>3. CASE saved' = saved /\ faults' = faults + 1 /\ saved = 0
    <3>1. faults' <= 1 => faults # 1
      BY <1>1, <2>3
    <3> QED
      BY <1>1, <1>2, <2>3, <3>1 DEF Behind
  <2> QED
    BY <2>1, <2>2, <2>3 DEF Initialize, Fault
<1> QED
  BY <1>2, <1>3, SettledKept

LEMMA PollSettled ==
  ASSUME TypeOK, HandledAreSettled, Poll
  PROVE  HandledAreSettled'
<1>1. /\ Len(updates) \in Nat /\ confirmed \in Nat /\ offset \in Nat
      /\ pc = "poll" /\ pc' = "take"
      /\ confirmed' = Larger(confirmed, offset) /\ batch' = confirmed'..Len(updates)
      /\ UNCHANGED <<updates, saved, offset, begun, dropped, faults>>
  BY SequenceLength DEF Poll, At, log, TypeOK, MailTyped
<1>2. confirmed' \in Nat /\ confirmed' >= confirmed /\ confirmed' >= offset
  BY <1>1 DEF Larger
<1> SUFFICES ASSUME faults' <= 1, NEW u \in 1..MaxUpdates, begun[u] > 0
             PROVE  Settled(u)'
  BY <1>1 DEF HandledAreSettled
<1>3. Settled(u)
  BY <1>1 DEF HandledAreSettled
<1>4. u \in Nat /\ (u < confirmed \/ u < offset)
  BY <1>1, <1>3, BoundsTyped DEF Settled, Behind
<1>5. u < confirmed' /\ u \notin batch'
  BY <1>1, <1>2, <1>4
<1> QED
  BY <1>1, <1>3, <1>5 DEF Settled, Behind, Underway

LEMMA TakeSettled ==
  ASSUME TypeOK, HandledAreSettled, TakeUpdate \/ TakeFails
  PROVE  HandledAreSettled'
<1>1. \E c \in batch :
        /\ batch' = batch \ {c} /\ pc = "take" /\ pc' \in {"handle", "failed"}
        /\ pc' = "handle" => current' = c
        /\ offset' \in Nat /\ offset' >= offset
        /\ faults' \in {faults, faults + 1}
        /\ UNCHANGED <<updates, confirmed, begun>>
  <2>1. CASE TakeUpdate
    BY <2>1, Taking
  <2>2. CASE TakeFails
    <3>1. /\ batch # {} /\ batch' = batch \ {First(batch)} /\ pc = "take" /\ pc' = "failed"
          /\ offset' = NextOffset(First(batch)) /\ faults' = faults + 1
          /\ UNCHANGED <<updates, confirmed, begun>>
      BY <2>2, Zenon DEF TakeFails, At, Fault
    <3>2. First(batch) \in batch /\ offset' \in Nat /\ offset' >= offset
      BY <3>1, Passing, Zenon
    <3> QED
      BY <3>1, <3>2
  <2> QED
    BY <2>1, <2>2
<1>2. offset \in Nat /\ faults \in Nat
  BY SequenceLength, BoundsTyped DEF TypeOK, MailTyped, CountsTyped
<1> SUFFICES ASSUME faults' <= 1, NEW u \in 1..MaxUpdates, begun[u] > 0
             PROVE  Settled(u)'
  BY <1>1 DEF HandledAreSettled
<1>3. Settled(u)
  BY <1>1, <1>2 DEF HandledAreSettled
<1>4. u \in Nat /\ (u < confirmed' \/ u < offset')
  BY <1>1, <1>2, <1>3, BoundsTyped DEF Settled, Behind
<1>5. ~Underway(u)' /\ u \notin batch'
  BY <1>1, <1>3 DEF Settled, Underway
<1> QED
  BY <1>1, <1>3, <1>4, <1>5 DEF Settled, Behind

\* The handler of the update in hand never began before, and the saved offset is
\* already past it.
LEMMA BeginSettled ==
  ASSUME TypeOK, OffsetSaved, HandledAreSettled, pc = "handle",
         pc' \notin {"handle", "boot"}, Begin,
         UNCHANGED <<updates, confirmed, offset, batch, faults>>
  PROVE  HandledAreSettled'
<1>1. /\ begun' = [begun EXCEPT ![current] = IF @ = 2 THEN 2 ELSE @ + 1]
      /\ current \in 1..MaxUpdates
  BY BeginTyped
<1>2. begun \in [1..MaxUpdates -> 0..2]
  BY DEF TypeOK, CountsTyped
<1>3. /\ current \in 1..Len(updates) /\ current < offset /\ current \notin batch
  BY DEF OffsetSaved, TypeOK, MailTyped
<1> SUFFICES ASSUME faults' <= 1, NEW u \in 1..MaxUpdates, begun'[u] > 0
             PROVE  Settled(u)'
  BY DEF HandledAreSettled
<1>4. CASE u = current
  <2>1. ~Settled(current)
    BY DEF Settled, Underway
  <2>2. begun[current] = 0
    BY <1>1, <1>2, <2>1 DEF HandledAreSettled
  <2>3. begun'[current] = 1
    BY <1>1, <1>2, <2>2
  <2>4. current <= Len(updates)
    BY <1>3, SequenceLength DEF TypeOK
  <2> QED
    BY <1>3, <1>4, <2>3, <2>4 DEF Settled, Behind, Underway
<1>5. CASE u # current
  <2>1. begun'[u] = begun[u]
    BY <1>1, <1>2, <1>5
  <2>2. Settled(u)
    BY <2>1 DEF HandledAreSettled
  <2> QED
    BY <2>1, <2>2 DEF Settled, Behind, Underway
<1> QED
  BY <1>4, <1>5

LEMMA CrashSettled ==
  ASSUME TypeOK, OffsetSaved, HandledAreSettled, Crash
  PROVE  HandledAreSettled'
<1>1. /\ pc' = "boot" /\ batch' = {} /\ faults' = faults + 1
      /\ UNCHANGED <<updates, confirmed, begun>>
      /\ saved' \in {saved, 0}
  BY DEF Crash, Forget, Fault
<1>2. faults \in Nat
  BY BoundsTyped DEF TypeOK, CountsTyped
<1>3. faults' <= 1 => faults = 0 /\ faults' = 1
  BY <1>1, <1>2
<1>4. faults' <= 1 => \A u \in 1..Len(updates) : Behind(u) => Behind(u)'
  BY <1>1, <1>3 DEF Behind, OffsetSaved
<1> QED
  BY <1>1, <1>4, SettledKept

LEMMA SendSettled ==
  ASSUME TypeOK, HandledAreSettled, Operator
  PROVE  HandledAreSettled'
<1>1. PICK u : updates' = Append(updates, u)
  BY DEF Operator, Send
<1>2. UNCHANGED <<confirmed, saved, pc, memory, log, faults>>
  BY DEF Operator, Send
<1>3. Len(updates) \in Nat /\ Len(updates') = Len(updates) + 1
  BY <1>1, SequenceLength, AppendProperties DEF TypeOK, MailTyped
<1>4. \A v \in 1..MaxUpdates : v <= Len(updates) => v <= Len(updates')
  BY <1>3, BoundsTyped
<1>5. UNCHANGED <<offset, batch, begun, current>>
  BY <1>2 DEF memory, log
<1>6. \A v \in 1..MaxUpdates : Settled(v) => Settled(v)'
  BY <1>2, <1>4, <1>5 DEF Settled, Behind, Underway
<1> QED
  BY <1>2, <1>5, <1>6 DEF HandledAreSettled

LEMMA HandledAreSettledKept ==
  TypeOK /\ Down /\ OffsetSaved /\ HandledAreSettled /\ [Next]_vars => HandledAreSettled'
<1> SUFFICES ASSUME TypeOK, Down, OffsetSaved, HandledAreSettled, [Next]_vars
             PROVE  HandledAreSettled'
  OBVIOUS
<1>1. ASSUME UNCHANGED <<updates, confirmed, offset, begun>>, pc' \notin {"handle", "boot"},
             batch' \in {batch, {}}, faults' \in {faults, faults + 1}, pc # "boot"
      PROVE  HandledAreSettled'
  BY <1>1, SettledKept DEF Behind
<1>2. CASE Listen
  <2>1. CASE BatchDone \/ StartTarget \/ UpdateIncident \/ ReportError
             \/ ReportUnreported \/ SendReport \/ NoReport \/ SaveSlot
    <3>1. UNCHANGED <<updates, confirmed, offset, begun>>
      BY <2>1 DEF BatchDone, StartTarget, UpdateIncident, ReportError, ReportUnreported,
         SendReport, NoReport, SaveSlot, memory, log
    <3>2. batch' \in {batch, {}} /\ pc # "boot" /\ pc' \notin {"handle", "boot"}
      BY <2>1 DEF BatchDone, StartTarget, UpdateIncident, ReportError, ReportUnreported,
         SendReport, NoReport, SaveSlot, memory, At
    <3>3. faults' \in {faults, faults + 1}
      BY <2>1 DEF BatchDone, StartTarget, UpdateIncident, ReportError, ReportUnreported,
         SendReport, NoReport, SaveSlot, Fault
    <3> QED
      BY <1>1, <3>1, <3>2, <3>3
  <2>2. CASE Answer \/ Decide \/ StopTarget
    <3>1. /\ pc = "handle" /\ pc' \notin {"handle", "boot"} /\ Begin
          /\ UNCHANGED <<updates, confirmed, offset, batch, faults>>
      BY <2>2 DEF Answer, Decide, StopTarget, At, memory
    <3> QED
      BY <3>1, BeginSettled
  <2> QED
    BY <1>2, <2>1, <2>2, InitializeSettled, PollSettled, TakeSettled, Zenon DEF Listen
<1>3. CASE PollFails \/ HandleFails \/ UpdateFails \/ ReportsFail
  <2>1. UNCHANGED <<updates, confirmed, offset, begun>> /\ faults' = faults + 1
    BY <1>3 DEF PollFails, HandleFails, UpdateFails, ReportsFail, memory, log, Fault
  <2>2. batch' \in {batch, {}} /\ pc # "boot" /\ pc' \notin {"handle", "boot"}
    BY <1>3 DEF PollFails, HandleFails, UpdateFails, ReportsFail, At, memory
  <2> QED
    BY <1>1, <2>1, <2>2
<1>4. CASE Self \notin up /\ Recover(Self)
  <2>1. /\ UNCHANGED <<updates, confirmed, saved, begun, faults>>
        /\ pc \in {"boot", "stopped"} /\ pc' = "boot" /\ batch' = {}
    BY <1>4 DEF Recover, Forget, Down, log
  <2>2. \A u \in 1..Len(updates) : Behind(u) => Behind(u)'
    BY <2>1 DEF Behind, OffsetSaved
  <2> QED
    BY <2>1, <2>2, SettledKept
<1>5. CASE UNCHANGED lines
  BY <1>5 DEF lines, HandledAreSettled, Settled, Behind, Underway
<1> QED
  BY <1>2, <1>3, <1>4, <1>5, TakeSettled, CrashSettled, SendSettled, StepCases DEF DiskFails

\* No update is handled twice, whatever crash comes between its handling and the
\* next poll, as long as no second fault meets a torn offset file: the offset is
\* saved before the handler begins.
THEOREM UpdatesHandledOnce == Spec => []HandledOnce
<1>1. Init => Down /\ OffsetSaved /\ HandledAreSettled
  BY SelfIsProgram, BoundsTyped DEF Init, Down, OffsetSaved, HandledAreSettled
<1>2. TypeOK /\ HandledAreSettled => HandledOnce
  <2> SUFFICES ASSUME TypeOK, HandledAreSettled, NEW u \in 1..MaxUpdates
               PROVE  begun[u] <= 1 \/ faults > 1
    BY DEF HandledOnce
  <2>1. begun[u] \in 0..2 /\ faults \in Nat
    BY BoundsTyped DEF TypeOK, CountsTyped
  <2> QED
    BY <2>1 DEF HandledAreSettled, Settled
<1> QED
  BY <1>1, <1>2, InitTyped, NextTyped, DownKept, OffsetSavedKept, HandledAreSettledKept,
     PTL DEF Spec

-----------------------------------------------------------------------------
(* An ignored incident stays silent                                        *)

LEMMA LargestExists ==
  ASSUME NEW n \in Nat, NEW S \in SUBSET (1..n), S # {}
  PROVE  \E i \in S : \A j \in S : j <= i
<1> DEFINE T == {n - i : i \in S}
<1>1. T \in SUBSET Nat /\ T # {}
  <2>1. \A i \in S : n - i \in Nat
    OBVIOUS
  <2>2. T \in SUBSET Nat
    BY <2>1, Zenon
  <2> QED
    BY <2>2, Zenon
<1>2. PICK t \in T : \A m \in T : t <= m
  <2> HIDE DEF T
  <2> QED
    BY <1>1, SmallestExists
<1>3. PICK i \in S : t = n - i
  OBVIOUS
<1>4. \A j \in S : n - i <= n - j
  BY <1>2, <1>3
<1>5. ASSUME NEW j \in S PROVE j <= i
  <2>1. i \in Nat /\ j \in Nat /\ n - i <= n - j
    BY <1>4
  <2> HIDE DEF T
  <2> QED
    BY <2>1
<1> QED
  BY <1>5

Places(f, p) == {i \in 1..Len(f) : f[i].prog = p}
Highest(S) == IF S = {} THEN 0 ELSE CHOOSE i \in S : \A j \in S : j <= i

LEMMA LatestIsHighest ==
  ASSUME NEW f, NEW p
  PROVE  Latest(f, p) = Highest(Places(f, p))
BY Zenon DEF Latest, Places, Highest

\* The latest incident of a program is one of its incidents.
LEMMA LatestIsOne ==
  ASSUME NEW f, Len(f) \in Nat, NEW p, Latest(f, p) # 0
  PROVE  Latest(f, p) \in 1..Len(f)
<1>1. Places(f, p) # {}
  BY DEF Latest, Places
<1>2. \E i \in Places(f, p) : \A j \in Places(f, p) : j <= i
  BY <1>1, LargestExists DEF Places
<1>3. Latest(f, p) = CHOOSE i \in Places(f, p) : \A j \in Places(f, p) : j <= i
  BY <1>1, LatestIsHighest, Zenon DEF Highest
<1>4. Latest(f, p) \in Places(f, p)
  BY <1>2, <1>3, Zenon
<1> QED
  BY <1>4 DEF Places

Ignored(f, p) == Latest(f, p) # 0 /\ f[Latest(f, p)].status = "ignored"

\* An incident of one program changes nothing for another.
LEMMA IgnoredStays ==
  ASSUME NEW n \in Nat, NEW f, IsFile(f, n), NEW new \in Incidents, NEW q,
         new.prog # q, Ignored(f, q)
  PROVE  Ignored(Append(f, new), q)
<1> DEFINE g == Append(f, new)
<1>1. /\ Len(f) \in Nat /\ Len(g) = Len(f) + 1
      /\ \A i \in 1..Len(f) : g[i] = f[i]
      /\ g[Len(f) + 1] = new
  BY AppendProperties, LenProperties DEF IsFile
<1> HIDE DEF g
<1>2. Places(g, q) = Places(f, q)
  <2>1. \A i : i \in 1..Len(g) <=> i \in 1..Len(f) \/ i = Len(f) + 1
    BY <1>1
  <2> QED
    BY <1>1, <2>1 DEF Places
<1>3. Latest(g, q) = Highest(Places(g, q)) /\ Latest(f, q) = Highest(Places(f, q))
  BY LatestIsHighest
<1>4. Latest(g, q) = Latest(f, q)
  BY <1>2, <1>3, Zenon
<1>5. Latest(f, q) \in 1..Len(f)
  BY <1>1, LatestIsOne DEF Ignored
<1>6. Ignored(g, q)
  BY <1>1, <1>4, <1>5 DEF Ignored
<1> QED
  BY <1>6 DEF g

\* A program about to write a new incident holds it.
Notes ==
  \A q \in Programs : job[q].note # 0 =>
    /\ job[q].step # "none"
    /\ \E i \in 1..Len(job[q].copy) : job[q].copy[i].id = job[q].note
                                      /\ job[q].copy[i].prog = q

\* While no change was lost, the file and what is about to be written over it keep
\* the silenced programs ignored, except where the listener itself is changing a
\* status, and a silenced program that holds a new incident read too early.
FileKeepsSilence == ~Torn => \A p \in silenced : Ignored(file, p)
CopiesKeepSilence ==
  \A q \in Programs : job[q].step # "none" /\ ~job[q].stale =>
    (q = Self /\ job[q].note = 0) \/ \A p \in silenced : Ignored(job[q].copy, p)
SilencedAreLate == \A p \in silenced : job[p].note # 0 => job[p].stale
Silence == ~disturbed => FileKeepsSilence /\ CopiesKeepSilence /\ SilencedAreLate

\* The steps that touch the incident file.
Registers(p) ==
  /\ RegisterIncident(p) /\ job[p].step = "none"
  /\ UNCHANGED <<file, notified, disturbed, silenced>>
Restates ==
  /\ \E new \in Statuses : UpdateStatus(Asks.id, new)
  /\ job[Self].step = "none"
  /\ UNCHANGED <<file, issued, notified, disturbed, silenced>>

LEMMA StoreCases ==
  ASSUME TypeOK, [Next]_vars
  PROVE  \/ UNCHANGED store
         \/ Restates
         \/ \E p \in Programs : Registers(p) \/ Truncate(p) \/ Write(p) \/ Ends(p)
<1>1. CASE Listen
  <2>1. CASE Initialize \/ Poll \/ TakeUpdate \/ BatchDone \/ Answer \/ Decide \/ StartTarget
             \/ SendReport \/ NoReport \/ SaveSlot
    <3>1. UNCHANGED store
      BY <2>1, Zenon DEF Initialize, Poll, TakeUpdate, BatchDone, Answer, Decide,
         StartTarget, SendReport, NoReport, SaveSlot
    <3> QED
      BY <3>1
  <2>2. CASE StopTarget
    <3>1. Target \in Programs /\ Ends(Target)
      BY <2>2, TargetIsProgram DEF StopTarget
    <3> QED
      BY <3>1, Zenon
  <2>3. CASE UpdateIncident
    <3>1. job[Self].step = "none" /\ UNCHANGED <<file, issued, notified, disturbed, silenced>>
      BY <2>3 DEF UpdateIncident, At
    <3>2. UpdateStatus(Asks.id, status) \/ UNCHANGED job
      BY <2>3, Zenon DEF UpdateIncident
    <3>3. status \in Statuses
      BY DEF TypeOK, CountsTyped
    <3>4. CASE UNCHANGED job
      BY <3>1, <3>4 DEF store
    <3> QED
      BY <3>1, <3>2, <3>3, <3>4, Zenon DEF Restates
  <2>4. CASE ReportError \/ ReportUnreported
    <3>1. job[Self].step = "none" /\ UNCHANGED <<file, notified, disturbed, silenced>>
      BY <2>4 DEF ReportError, ReportUnreported, At
    <3>2. RegisterIncident(Self) \/ UNCHANGED <<job, issued>>
      BY <2>4, Zenon DEF ReportError, ReportUnreported, Complain
    <3>3. CASE UNCHANGED <<job, issued>>
      BY <3>1, <3>3 DEF store
    <3> QED
      BY <3>1, <3>2, <3>3, SelfIsProgram, Zenon DEF Registers
  <2> QED
    BY <1>1, <2>1, <2>2, <2>3, <2>4, Zenon DEF Listen
<1>2. CASE PollFails \/ DiskFails
  <2>1. CASE UpdateFails
    BY <2>1, SelfIsProgram DEF UpdateFails
  <2> QED
    BY <1>2, <2>1 DEF PollFails, DiskFails, TakeFails, HandleFails, ReportsFail
<1>3. CASE Crash
  BY <1>3, SelfIsProgram DEF Crash
<1>4. CASE Operator
  BY <1>4 DEF Operator, Send
<1>5. ASSUME NEW p \in Programs, Recover(p) PROVE UNCHANGED store
  BY <1>5 DEF Recover
<1>6. ASSUME NEW b \in Bots, BotError(b) PROVE Registers(b) /\ b \in Programs
  BY <1>6 DEF BotError, Registers, Programs
<1>7. CASE UNCHANGED vars
  BY <1>7 DEF vars
<1> QED
  BY <1>1, <1>2, <1>3, <1>4, <1>5, <1>6, <1>7, Zenon DEF Next

\* A step that loads one program's job leaves the other jobs and the file's state.
LEMMA LoadEffect ==
  ASSUME StoreTyped, NEW p \in Programs, NEW copy, NEW note, job[p].step = "none",
         Load(p, copy, note)
  PROVE  /\ Torn' <=> Torn
         /\ \A q \in Programs : q # p => job'[q] = job[q]
         /\ job'[p].step # "none" /\ job'[p].copy = copy /\ job'[p].note = note
         /\ job'[p].stale <=> Torn
<1> DEFINE new == [step |-> "loaded", copy |-> copy, note |-> note, stale |-> Torn]
<1>1. job' = [job EXCEPT ![p] = new] /\ job \in [Programs -> Jobs]
  BY DEF Load, StoreTyped
<1>2. /\ new.step = "loaded" /\ new.copy = copy /\ new.note = note
      /\ new.stale = Torn
  BY Zenon
<1> HIDE DEF new
<1>3. job'[p] = new /\ \A q \in Programs : q # p => job'[q] = job[q]
  BY <1>1
<1>4. Torn' <=> Torn
  BY <1>2, <1>3 DEF Torn
<1>5. job'[p].stale <=> Torn
  BY <1>2, <1>3, Zenon
<1> QED
  BY <1>2, <1>3, <1>4, <1>5

LEMMA RegistersSilent ==
  ASSUME TypeOK, Notes, Silence, NEW p \in Programs, Registers(p)
  PROVE  Notes' /\ Silence'
<1>1. /\ StoreTyped /\ job[p].step = "none" /\ RegisterIncident(p)
      /\ UNCHANGED <<file, notified, disturbed, silenced>>
      /\ issued \in 0..MaxIncidents /\ IsFile(file, issued)
  BY DEF Registers, TypeOK, StoreTyped
<1>2. ASSUME NEW copy, NEW note, Load(p, copy, note),
             note # 0 => \E i \in 1..Len(copy) : copy[i].id = note /\ copy[i].prog = p,
             ~disturbed /\ ~Torn => \A r \in silenced : Ignored(copy, r),
             ~disturbed /\ ~Torn /\ note # 0 => p \notin silenced
      PROVE  Notes' /\ Silence'
  <2>1. /\ Torn' <=> Torn
        /\ \A q \in Programs : q # p => job'[q] = job[q]
        /\ job'[p].step # "none" /\ job'[p].copy = copy /\ job'[p].note = note
        /\ job'[p].stale <=> Torn
    BY <1>1, <1>2, LoadEffect
  <2>2. Notes'
    BY <1>2, <2>1 DEF Notes
  <2>3. ~disturbed => FileKeepsSilence'
    BY <1>1, <2>1 DEF Silence, FileKeepsSilence, Ignored
  <2>4. ~disturbed => CopiesKeepSilence'
    BY <1>1, <1>2, <2>1 DEF Silence, CopiesKeepSilence, Ignored
  <2>5. ~disturbed => SilencedAreLate'
    <3>1. silenced \subseteq Programs
      BY <1>1 DEF StoreTyped
    <3> QED
      BY <1>1, <1>2, <2>1, <3>1 DEF Silence, SilencedAreLate
  <2> QED
    BY <1>1, <2>2, <2>3, <2>4, <2>5 DEF Silence
<1>3. CASE Load(p, file, 0)
  BY <1>2, <1>3 DEF Silence, FileKeepsSilence
<1>4. CASE \E fresh \in BOOLEAN :
             /\ ~Grouped(file, p, fresh) /\ issued # MaxIncidents
             /\ Load(p, Append(file, [id |-> issued + 1, prog |-> p, status |-> "open"]),
                     issued + 1)
  <2> DEFINE new == [id |-> issued + 1, prog |-> p, status |-> "open"]
             copy == Append(file, new)
  <2>1. new \in Incidents
    BY <1>1, <1>4, BoundsTyped DEF Incidents, Statuses
  <2>2. ~Ignored(file, p)
    BY <1>4 DEF Grouped, Ignored
  <2>3. /\ new.id = issued + 1 /\ new.prog = p /\ issued \in Nat
        /\ Len(copy) = Len(file) + 1 /\ copy[Len(file) + 1] = new /\ Len(file) \in Nat
    BY <1>1, <2>1, BoundsTyped, AppendProperties, LenProperties DEF IsFile
  <2>4. ~disturbed /\ ~Torn => \A r \in silenced : Ignored(file, r)
    BY DEF Silence, FileKeepsSilence
  <2>5. ~disturbed /\ ~Torn => \A r \in silenced : Ignored(copy, r)
    <3> SUFFICES ASSUME ~disturbed, ~Torn, NEW r \in silenced PROVE Ignored(copy, r)
      OBVIOUS
    <3>1. Ignored(file, r) /\ new.prog # r
      BY <2>2, <2>3, <2>4
    <3> HIDE DEF new
    <3> QED
      BY <1>1, <2>1, <2>3, <3>1, IgnoredStays
  <2>6. ~disturbed /\ ~Torn => p \notin silenced
    BY <2>2, <2>4
  <2>7. Load(p, copy, issued + 1)
    BY <1>4, Zenon
  <2> HIDE DEF new, copy
  <2>8. \E i \in 1..Len(copy) : copy[i].id = issued + 1 /\ copy[i].prog = p
    BY <2>3
  <2> QED
    BY <1>2, <2>5, <2>6, <2>7, <2>8
<1> QED
  BY <1>1, <1>3, <1>4, Zenon DEF RegisterIncident

LEMMA RestatesSilent ==
  ASSUME TypeOK, Notes, Silence, Restates
  PROVE  Notes' /\ Silence'
<1>1. /\ StoreTyped /\ job[Self].step = "none"
      /\ UNCHANGED <<file, issued, notified, disturbed, silenced>>
  BY DEF Restates, TypeOK
<1>2. PICK copy : Load(Self, copy, 0)
  BY Zenon DEF Restates, UpdateStatus
<1>3. /\ Torn' <=> Torn
      /\ \A q \in Programs : q # Self => job'[q] = job[q]
      /\ job'[Self].step # "none" /\ job'[Self].note = 0
  BY <1>1, <1>2, LoadEffect, SelfIsProgram
<1>4. Notes'
  BY <1>3 DEF Notes
<1>5. ~disturbed => FileKeepsSilence'
  BY <1>1, <1>3 DEF Silence, FileKeepsSilence, Ignored
<1>6. ~disturbed => CopiesKeepSilence'
  BY <1>1, <1>3 DEF Silence, CopiesKeepSilence, Ignored
<1>7. ~disturbed => SilencedAreLate'
  BY <1>1, <1>3 DEF Silence, SilencedAreLate, StoreTyped
<1> QED
  BY <1>1, <1>4, <1>5, <1>6, <1>7 DEF Silence

LEMMA TruncateSilent ==
  ASSUME TypeOK, Notes, Silence, NEW p \in Programs, Truncate(p)
  PROVE  Notes' /\ Silence'
<1>1. /\ job[p].step = "loaded" /\ job' = [job EXCEPT ![p].step = "truncated"]
      /\ UNCHANGED <<disturbed, silenced>> /\ job \in [Programs -> Jobs]
  BY DEF Truncate, TypeOK, StoreTyped
<1>2. ASSUME NEW q \in Programs
      PROVE  /\ job'[q].step # "none" <=> job[q].step # "none"
             /\ job'[q].copy = job[q].copy /\ job'[q].note = job[q].note
             /\ job'[q].stale <=> job[q].stale
  BY <1>1 DEF Jobs
<1>3. Torn'
  BY <1>1 DEF Torn, Jobs
<1>4. Notes'
  BY <1>2 DEF Notes
<1>5. ~disturbed => CopiesKeepSilence'
  BY <1>1, <1>2 DEF Silence, CopiesKeepSilence, Ignored
<1>6. ~disturbed => SilencedAreLate'
  BY <1>1, <1>2 DEF Silence, SilencedAreLate, TypeOK, StoreTyped
<1> QED
  BY <1>1, <1>3, <1>4, <1>5, <1>6 DEF Silence, FileKeepsSilence

LEMMA EndsSilent ==
  ASSUME TypeOK, Notes, Silence, NEW p \in Programs, Ends(p)
  PROVE  Notes' /\ Silence'
<1>1. /\ job' = [job EXCEPT ![p] = NoJob] /\ UNCHANGED <<file, silenced>>
      /\ job \in [Programs -> Jobs]
      /\ disturbed' <=> disturbed \/ job[p].step = "truncated"
  BY DEF Ends, TypeOK, StoreTyped
<1>2. /\ job'[p].step = "none" /\ job'[p].note = 0
      /\ \A q \in Programs : q # p => job'[q] = job[q]
  BY <1>1 DEF NoJob
<1>3. ~disturbed' => (Torn' <=> Torn)
  BY <1>1, <1>2 DEF Torn
<1>4. Notes'
  BY <1>2 DEF Notes
<1>5. ~disturbed' => FileKeepsSilence'
  BY <1>1, <1>3 DEF Silence, FileKeepsSilence, Ignored
<1>6. ~disturbed' => CopiesKeepSilence'
  BY <1>1, <1>2 DEF Silence, CopiesKeepSilence, Ignored
<1>7. ~disturbed' => SilencedAreLate'
  BY <1>1, <1>2 DEF Silence, SilencedAreLate, TypeOK, StoreTyped
<1> QED
  BY <1>1, <1>4, <1>5, <1>6, <1>7 DEF Silence

\* What a write leaves silenced, when nothing else changed the file since its read.
LEMMA WriteSilenced ==
  ASSUME TypeOK, Notes, Silence, NEW p \in Programs, job[p].step # "none",
         ~disturbed, ~job[p].stale, NEW r \in Silenced(p, job[p].copy)
  PROVE  Ignored(job[p].copy, r)
<1>1. CASE p = Self /\ job[p].note = 0
  <2>1. Silenced(p, job[p].copy) = {q \in Programs : Ignored(job[p].copy, q)}
    BY <1>1, Zenon DEF Silenced, Ignored
  <2> QED
    BY <2>1, Zenon
<1>2. CASE p # Self \/ job[p].note # 0
  <2>1. r \in silenced
    BY <1>2, Zenon DEF Silenced
  <2> QED
    BY <1>2, <2>1 DEF Silence, CopiesKeepSilence
<1> QED
  BY <1>1, <1>2

LEMMA WriteSilent ==
  ASSUME TypeOK, Notes, Silence, NEW p \in Programs, Write(p)
  PROVE  Notes' /\ Silence'
<1>1. /\ job[p].step = "truncated" /\ file' = job[p].copy
      /\ silenced' = Silenced(p, job[p].copy)
      /\ job \in [Programs -> Jobs]
  BY Zenon DEF Write, TypeOK, StoreTyped
<1>2. disturbed' <=> disturbed \/ job[p].stale
  BY DEF Write, TypeOK, StoreTyped, Jobs
<1> DEFINE Aside(q) == [job[q] EXCEPT !.stale = (job[q].step # "none")]
<1>3. job' = [q \in Programs |-> IF q = p THEN NoJob ELSE Aside(q)]
  BY DEF Write
<1>4. ASSUME NEW q \in Programs
      PROVE  /\ Aside(q).step = job[q].step /\ Aside(q).copy = job[q].copy
             /\ Aside(q).note = job[q].note
             /\ Aside(q).stale <=> job[q].step # "none"
  <2>1. job[q] \in Jobs
    BY <1>1
  <2>2. \A b \in BOOLEAN :
          /\ [job[q] EXCEPT !.stale = b].step = job[q].step
          /\ [job[q] EXCEPT !.stale = b].copy = job[q].copy
          /\ [job[q] EXCEPT !.stale = b].note = job[q].note
          /\ [job[q] EXCEPT !.stale = b].stale = b
    BY <2>1 DEF Jobs
  <2>3. (job[q].step # "none") \in BOOLEAN
    BY Zenon
  <2> QED
    BY <2>2, <2>3, Zenon
<1> HIDE DEF Aside
<1>5. job'[p].step = "none" /\ job'[p].note = 0
  BY <1>3 DEF NoJob
<1>6. ASSUME NEW q \in Programs, q # p
      PROVE  /\ job'[q].step = job[q].step /\ job'[q].copy = job[q].copy
             /\ job'[q].note = job[q].note
             /\ job'[q].stale <=> job[q].step # "none"
  BY <1>3, <1>4, <1>6, Zenon
<1>7. Notes'
  BY <1>5, <1>6 DEF Notes
<1>8. ~disturbed' => FileKeepsSilence'
  <2> SUFFICES ASSUME ~disturbed', NEW r \in silenced' PROVE Ignored(file', r)
    BY DEF FileKeepsSilence, Ignored
  <2>1. job[p].step # "none"
    BY <1>1
  <2> QED
    BY <1>1, <1>2, <2>1, WriteSilenced
<1>9. CopiesKeepSilence'
  BY <1>5, <1>6 DEF CopiesKeepSilence
<1>10. SilencedAreLate'
  <2>1. silenced' \subseteq Programs
    BY WriteTyped DEF TypeOK, StoreTyped
  <2> QED
    BY <1>5, <1>6, <2>1 DEF Notes, SilencedAreLate
<1> QED
  BY <1>7, <1>8, <1>9, <1>10 DEF Silence

LEMMA SilenceKept == TypeOK /\ Notes /\ Silence /\ [Next]_vars => Notes' /\ Silence'
<1> SUFFICES ASSUME TypeOK, Notes, Silence, [Next]_vars PROVE Notes' /\ Silence'
  OBVIOUS
<1>1. CASE UNCHANGED store
  BY <1>1 DEF store, Notes, Silence, FileKeepsSilence, CopiesKeepSilence, SilencedAreLate,
     Torn, Ignored
<1> QED
  BY <1>1, StoreCases, RegistersSilent, RestatesSilent, TruncateSilent, WriteSilent,
     EndsSilent

\* Only a write tells the operator of an incident, and it takes the program off the
\* silenced ones unless its read was too early.
LEMMA TellsUnsilenced ==
  ASSUME TypeOK, Notes, Silence, [Next]_vars, NEW n \in notified' \ notified,
         n.prog \in silenced
  PROVE  disturbed'
<1>1. CASE UNCHANGED store \/ Restates \/ \E p \in Programs : Registers(p) \/ Truncate(p) \/ Ends(p)
  <2>1. notified' = notified
    BY <1>1 DEF store, Restates, Registers, Truncate, Ends
  <2> QED
    BY <2>1
<1>2. ASSUME NEW p \in Programs, Write(p) PROVE disturbed'
  <2>1. notified' = IF job[p].note = 0 THEN notified
                    ELSE notified \cup {[id |-> job[p].note, prog |-> p]}
    BY <1>2, Zenon DEF Write
  <2>2. disturbed' <=> disturbed \/ job[p].stale
    BY <1>2 DEF Write, TypeOK, StoreTyped, Jobs
  <2>3. job[p].note # 0 /\ n.prog = p
    BY <2>1
  <2> QED
    BY <2>2, <2>3 DEF Silence, SilencedAreLate
<1> QED
  BY <1>1, <1>2, StoreCases, Zenon

\* A program whose latest incident the operator ignored is not reported again,
\* unless two programs changed the incident file at once or one died while writing
\* it: the file, and every copy about to be written over it, still hold it ignored.
THEOREM IgnoredIsNotReported == Spec => IgnoredStaysSilent
<1>1. Init => Notes /\ Silence
  BY DEF Init, Notes, Silence, FileKeepsSilence, CopiesKeepSilence, SilencedAreLate, NoJob
<1>2. TypeOK /\ Notes /\ Silence /\ [Next]_vars =>
        [\A n \in notified' \ notified : n.prog \in silenced => disturbed']_vars
  BY TellsUnsilenced
<1> QED
  BY <1>1, <1>2, InitTyped, NextTyped, SilenceKept, PTL DEF Spec, IgnoredStaysSilent
=============================================================================
