------------------------------ MODULE Listener ------------------------------
(***************************************************************************)
(* The Telegram command listener (reporting/telegram_command_listener.py)  *)
(* and the incident file it shares with the bots                           *)
(* (tools/incident_manager.py).  An error in a program becomes an incident *)
(* whose message carries buttons; the operator's presses come back as      *)
(* updates, which the listener takes one by one behind a saved offset.     *)
(* Each change of the incident file is a read, a truncation and a write,   *)
(* by any process, without a lock.  An incident is "ignored" or, whatever  *)
(* else its status is, "open".                                             *)
(*                                                                         *)
(* pc names the listener's step:                                           *)
(*   boot     before initialize_offset_if_needed                           *)
(*   poll     about to call getUpdates                                     *)
(*   take     about to take the next update of the batch                   *)
(*   handle   its offset is saved, its handler not begun                   *)
(*   stopped  restart_managed_program has stopped the target               *)
(*   decide   about to call update_incident_status                         *)
(*   failed   an exception left the batch                                  *)
(*   reports  about to look at the scheduled reports                       *)
(*   sent     a report is sent, its slot not saved                         *)
(*   unreported  an exception left the scheduled reports                   *)
(***************************************************************************)
EXTENDS Naturals, Sequences, FiniteSets

CONSTANTS
  Bots,         \* the programs beside the listener that report errors
  Faults,       \* {"crash", "torn", "poll", "start", "disk"}: "disk" is a log line
                \* or a file that cannot be written, an OSError the loop catches
  MaxFaults,    \* bound: faults in a behaviour
  MaxUpdates,   \* bound: updates sent to the bot
  MaxIncidents  \* bound: incidents registered

Self == "telegram"
Programs == Bots \cup {Self}

ASSUME ListenerAssumption ==
  /\ Self \notin Bots
  /\ Faults \subseteq {"crash", "torn", "poll", "start", "disk"}
  /\ {MaxFaults, MaxUpdates, MaxIncidents} \subseteq Nat

VARIABLES
  up,         \* the running programs
  updates,    \* the updates Telegram got, their ids being their positions
  confirmed,  \* the highest offset Telegram was asked for: below it all is gone
  saved,      \* the offset file, 0 when it is missing or unreadable
  pc, offset, \* the listener's step and its offset
  batch,      \* the ids of the batch not yet taken
  current,    \* the update being handled
  status,     \* the status the current update asks for
  complained, \* last_runtime_error: the loop of the error last reported
  file,       \* the incidents, <<>> when the file is torn
  job,        \* what each program does to the incident file
  issued,     \* incident ids given out
  slotSaved,  \* the report state file: was the report of this day's slot sent?
  notified,   \* the incidents the operator has a message with buttons of
  begun,      \* observer: how often the handler of each update began, at most 2
  dropped,    \* observer: updates passed over at the first start, and the ones
              \* a failure met after their offset and before their handler
  disturbed,  \* observer: was a change of the incident file lost?
  silenced,   \* observer: programs whose latest incident the operator ignored
  reports,    \* observer: complete reports sent
  unsaved,    \* observer: reports whose slot a failure kept from the state file
  faults

store == <<file, job, issued, notified, disturbed, silenced>>
memory == <<offset, batch, current, status, complained>>
slots == <<slotSaved, reports, unsaved>>
log == <<begun, dropped>>
vars == <<up, updates, confirmed, saved, pc, memory, store, slots, log, faults>>

NoJob == [step |-> "none", copy |-> <<>>, note |-> 0, stale |-> FALSE]

Init ==
  /\ up = Programs
  /\ updates = <<>> /\ confirmed = 1 /\ saved = 0
  /\ pc = "boot" /\ offset = 0 /\ batch = {} /\ current = 0
  /\ status = "open" /\ complained = "none"
  /\ file = <<>> /\ job = [p \in Programs |-> NoJob] /\ issued = 0
  /\ slotSaved = FALSE
  /\ notified = {} /\ begun = [u \in 1..MaxUpdates |-> 0] /\ dropped = {}
  /\ disturbed = FALSE /\ silenced = {} /\ reports = 0
  /\ unsaved = 0 /\ faults = 0

Fault(kind) == kind \in Faults /\ faults < MaxFaults /\ faults' = faults + 1
At(step) == pc = step /\ Self \in up /\ job[Self].step = "none"
Larger(a, b) == IF a >= b THEN a ELSE b

-----------------------------------------------------------------------------
(* The incident file                                                       *)

\* Where the latest incident of a program is, 0 when it has none.
Latest(incidents, p) ==
  LET at == {i \in 1..Len(incidents) : incidents[i].prog = p}
  IN  IF at = {} THEN 0 ELSE CHOOSE i \in at : \A j \in at : j <= i

\* A read while another program writes sees no incidents.
Torn == \E p \in Programs : job[p].step = "truncated"

Load(p, copy, note) ==
  job' = [job EXCEPT ![p] = [step |-> "loaded", copy |-> copy, note |-> note,
                             stale |-> Torn]]

\* Variant: an ignored incident is grouped only within the window, as others.
GroupedUnignored(incidents, p, fresh) ==
  LET i == Latest(incidents, p) IN i # 0 /\ fresh

\* register_incident adds to the latest incident when that is recent or ignored.
Grouped(incidents, p, fresh) ==
  LET i == Latest(incidents, p)
  IN  i # 0 /\ (incidents[i].status = "ignored" \/ fresh)

\* A new incident is told to the operator, a repeated one is not.  At the bound
\* every error is a repeated one.
RegisterIncident(p) ==
  \E fresh \in BOOLEAN :
    IF Grouped(file, p, fresh) \/ issued = MaxIncidents
      THEN Load(p, file, 0) /\ UNCHANGED issued
      ELSE /\ issued' = issued + 1
           /\ Load(p, Append(file, [id |-> issued + 1, prog |-> p, status |-> "open"]),
                   issued + 1)

UpdateStatus(id, new) ==
  Load(Self, [i \in 1..Len(file) |->
                IF file[i].id = id THEN [file[i] EXCEPT !.status = new] ELSE file[i]], 0)

Has(incidents, id) == \E i \in 1..Len(incidents) : incidents[i].id = id

Truncate(p) ==
  /\ p \in up /\ job[p].step = "loaded"
  /\ file' = <<>>
  /\ job' = [job EXCEPT ![p].step = "truncated"]
  /\ UNCHANGED <<up, updates, confirmed, saved, pc, memory, issued, notified,
                 disturbed, silenced, slots, log, faults>>

\* The programs whose latest incident is ignored after this write, as far as
\* the listener decided it.
Silenced(p, copy) ==
  IF p # Self \/ job[p].note # 0 THEN silenced \ {copy[i].prog : i \in {j \in 1..Len(copy) :
                                                       copy[j].id = job[p].note}}
  ELSE {q \in Programs : Latest(copy, q) # 0 /\ copy[Latest(copy, q)].status = "ignored"}

\* The write, after which a new incident is sent with its buttons.  A program
\* that read before this write will overwrite it.
Write(p) ==
  LET copy == job[p].copy IN
  /\ p \in up /\ job[p].step = "truncated"
  /\ file' = copy
  /\ disturbed' = (disturbed \/ job[p].stale)
  /\ silenced' = Silenced(p, copy)
  /\ notified' = IF job[p].note = 0 THEN notified
                 ELSE notified \cup {[id |-> job[p].note, prog |-> p]}
  /\ job' = [q \in Programs |-> IF q = p THEN NoJob
                                ELSE [job[q] EXCEPT !.stale = (job[q].step # "none")]]
  /\ UNCHANGED <<up, updates, confirmed, saved, pc, memory, issued, slots, log, faults>>

\* The end of a program, which may leave the file truncated.
Ends(p) ==
  /\ disturbed' = (disturbed \/ job[p].step = "truncated")
  /\ job' = [job EXCEPT ![p] = NoJob]
  /\ UNCHANGED <<file, issued, notified, silenced>>

\* An error in a bot's loop: notify_error_message
BotError(b) ==
  /\ b \in up /\ job[b].step = "none"
  /\ RegisterIncident(b)
  /\ UNCHANGED <<up, updates, confirmed, saved, pc, memory, file, notified, disturbed,
                 silenced, slots, log, faults>>

-----------------------------------------------------------------------------
(* The listener                                                            *)

\* initialize_offset_if_needed: without a saved offset the waiting updates are
\* passed over, unless the call fails, when none is.
Initialize ==
  /\ At("boot") /\ pc' = "poll"
  /\ \/ /\ saved > 0 /\ offset' = saved
        /\ UNCHANGED <<saved, dropped, faults>>
     \/ /\ saved = 0
        /\ offset' = (IF Len(updates) >= confirmed THEN Len(updates) + 1 ELSE 0)
        /\ saved' = offset'
        /\ dropped' = dropped \cup (confirmed..Len(updates))
        /\ UNCHANGED faults
     \/ /\ saved = 0 /\ offset' = 0 /\ Fault("poll")
        /\ UNCHANGED <<saved, dropped>>
  /\ UNCHANGED <<up, updates, confirmed, batch, current, status, complained, store,
                 slots, begun>>

\* getUpdates confirms what is below its offset and returns the rest.
Poll ==
  /\ At("poll") /\ pc' = "take"
  /\ confirmed' = Larger(confirmed, offset)
  /\ batch' = confirmed'..Len(updates)
  /\ UNCHANGED <<up, updates, saved, offset, current, status, complained, store,
                 slots, log, faults>>

PollFails ==
  /\ At("poll") /\ pc' = "take" /\ batch' = {}
  /\ Fault("poll")
  /\ UNCHANGED <<up, updates, confirmed, saved, offset, current, status, complained,
                 store, slots, log>>

First(ids) == CHOOSE u \in ids : \A v \in ids : u <= v
Last(ids) == CHOOSE u \in ids : \A v \in ids : v <= u

\* Variant: the offset of the whole batch is saved with its first update.
NextOffsetOfBatch(u) == Larger(offset, Last(batch) + 1)

\* Variant: the offset is not advanced before the update is handled.
NextOffsetLate(u) == Larger(offset, u)

\* Variant: the offset counts from the next update.
NextOffsetPast(u) == Larger(offset, u + 2)

\* offset = max(offset, update_id + 1)
NextOffset(u) == Larger(offset, u + 1)

TakeUpdate ==
  /\ At("take") /\ batch # {}
  /\ current' = First(batch)
  /\ batch' = batch \ {current'}
  /\ offset' = NextOffset(current') /\ saved' = offset'
  /\ pc' = "handle"
  /\ UNCHANGED <<up, updates, confirmed, status, complained, store, slots, log, faults>>

\* save_offset raises after the offset has advanced in memory, before it opened
\* the file or with the file truncated: the update is not handled.
TakeFails ==
  /\ At("take") /\ batch # {} /\ Fault("disk")
  /\ pc' = "failed"
  /\ offset' = NextOffset(First(batch)) /\ saved' \in {saved, 0}
  /\ batch' = batch \ {First(batch)}
  /\ dropped' = dropped \cup {First(batch)}
  /\ UNCHANGED <<up, updates, confirmed, current, status, complained, store, slots,
                 begun>>

BatchDone ==
  /\ At("take") /\ batch = {}
  /\ pc' = "reports"
  /\ UNCHANGED <<up, updates, confirmed, saved, memory, store, slots, log, faults>>

Asks == updates[current]
Target == file[CHOOSE i \in 1..Len(file) : file[i].id = Asks.id].prog
Settle == current' = 0 /\ status' = "open"
Begin == begun' = [begun EXCEPT ![current] = IF @ = 2 THEN 2 ELSE @ + 1]

\* A command is answered, whatever comes of the answer, or its answer cannot be
\* built or logged and raises.  The buttons of an incident the file does not hold,
\* and "detail", are answered too.
Answer ==
  /\ At("handle") /\ Begin
  /\ \/ Asks.kind = "command" /\ pc' \in {"take", "failed"}
     \/ Asks.kind # "command" /\ ~Has(file, Asks.id) /\ pc' = "take"
  /\ Settle
  /\ UNCHANGED <<up, updates, confirmed, saved, offset, batch, complained, store,
                 slots, dropped, faults>>

\* The log line that names the update raises before its handler begins.
HandleFails ==
  /\ At("handle") /\ Fault("disk") /\ pc' = "failed"
  /\ dropped' = dropped \cup {current}
  /\ Settle
  /\ UNCHANGED <<up, updates, confirmed, saved, offset, batch, complained, store,
                 slots, begun>>

Wanted(kind) == IF kind = "ignore" THEN "ignored" ELSE "open"

Decide ==
  /\ At("handle") /\ Asks.kind \in {"ignore", "fix"} /\ Has(file, Asks.id) /\ Begin
  /\ status' = Wanted(Asks.kind) /\ pc' = "decide"
  /\ UNCHANGED <<up, updates, confirmed, saved, offset, batch, current, complained,
                 store, slots, dropped, faults>>

\* restart_managed_program, bot_manager.py stop.  A listener that restarts
\* itself ends here.
StopTarget ==
  /\ At("handle") /\ Asks.kind = "restart" /\ Has(file, Asks.id) /\ Begin
  /\ up' = up \ {Target}
  /\ Ends(Target)
  /\ pc' = "stopped"
  /\ UNCHANGED <<updates, confirmed, saved, memory, slots, dropped, faults>>

\* bot_manager.py start, of the program the incident named when it was read
StartTarget ==
  /\ At("stopped")
  /\ \E p \in {n.prog : n \in {m \in notified : m.id = Asks.id}} :
       \/ up' = up \cup {p} /\ UNCHANGED faults
       \/ up' = up /\ Fault("start")
  /\ status' = Wanted("restart") /\ pc' = "decide"
  /\ UNCHANGED <<updates, confirmed, saved, offset, batch, current, complained, store,
                 slots, log>>

\* update_incident_status; an incident no longer there changes nothing.
UpdateIncident ==
  /\ At("decide") /\ pc' = "take"
  /\ IF Has(file, Asks.id) THEN UpdateStatus(Asks.id, status) ELSE UNCHANGED job
  /\ Settle
  /\ UNCHANGED <<up, updates, confirmed, saved, offset, batch, complained, file,
                 issued, notified, disturbed, silenced, slots, log, faults>>

\* The incident file cannot be written, before or after its truncation: the
\* exception ends the handler of a button as any other.
UpdateFails ==
  /\ pc = "take" /\ Self \in up /\ job[Self].step # "none" /\ Fault("disk")
  /\ pc' = "failed" /\ Ends(Self)
  /\ UNCHANGED <<up, updates, confirmed, saved, memory, slots, log>>

\* The handlers of run_listener: an error is reported unless it is the one that
\* was reported last.
Complain(loop) ==
  /\ complained' = loop
  /\ \/ complained = loop /\ UNCHANGED <<job, issued>>
     \/ RegisterIncident(Self)

ReportError ==
  /\ At("failed") /\ pc' = "reports" /\ batch' = {}
  /\ Complain("listener")
  /\ UNCHANGED <<up, updates, confirmed, saved, offset, current, status, file,
                 notified, disturbed, silenced, slots, log, faults>>

ReportUnreported ==
  /\ At("unreported") /\ pc' = "poll"
  /\ Complain("report")
  /\ UNCHANGED <<up, updates, confirmed, saved, offset, batch, current, status, file,
                 notified, disturbed, silenced, slots, log, faults>>

\* maybe_send_scheduled_reports in the slot's hour: all chunks are sent.
SendReport ==
  /\ At("reports") /\ ~slotSaved
  /\ reports' = reports + 1 /\ pc' = "sent"
  /\ UNCHANGED <<up, updates, confirmed, saved, memory, store, slotSaved, unsaved, log,
                 faults>>

\* It is not the hour, the slot was sent, or a chunk is not sent and the next
\* round tries again.
NoReport ==
  /\ At("reports") /\ pc' = "poll"
  /\ UNCHANGED <<up, updates, confirmed, saved, memory, store, slots, log, faults>>

\* Variant: the slot is kept in memory only.
SaveSlotForgotten ==
  /\ At("sent") /\ pc' = "poll"
  /\ UNCHANGED <<up, updates, confirmed, saved, memory, store, slots, log, faults>>

SaveSlot ==
  /\ At("sent") /\ pc' = "poll"
  /\ slotSaved' = TRUE
  /\ UNCHANGED <<up, updates, confirmed, saved, memory, store, reports, unsaved, log,
                 faults>>

\* The reports raise: before anything is sent, with the report sent and its slot
\* not saved, or while another slot of the hour is written into the same file.
ReportsFail ==
  /\ Fault("disk") /\ pc' = "unreported"
  /\ \/ At("reports") /\ UNCHANGED <<slotSaved, unsaved>>
     \/ At("sent") /\ unsaved' = unsaved + 1 /\ UNCHANGED slotSaved
     \/ At("reports") /\ slotSaved /\ slotSaved' = FALSE /\ unsaved' = unsaved + 1
  /\ UNCHANGED <<up, updates, confirmed, saved, memory, store, reports, log>>

Listen ==
  \/ Initialize \/ Poll \/ TakeUpdate \/ BatchDone \/ Answer \/ Decide
  \/ StopTarget \/ StartTarget \/ UpdateIncident
  \/ ReportError \/ ReportUnreported \/ SendReport \/ NoReport \/ SaveSlot

\* An OSError that run_listener catches
DiskFails == TakeFails \/ HandleFails \/ UpdateFails \/ ReportsFail

-----------------------------------------------------------------------------
(* Crashes and restarts, and the operator                                  *)

Forget ==
  /\ pc' = "boot" /\ offset' = 0 /\ batch' = {} /\ complained' = "none"
  /\ Settle

\* The listener dies; after a saved offset its update is lost, after a report the
\* slot is not saved.  A crash in write_text leaves an offset file that reads as 0,
\* or a report state file that holds no slot.
Crash ==
  /\ Self \in up /\ up' = up \ {Self}
  /\ \/ /\ Fault("crash") /\ UNCHANGED <<saved, slotSaved>>
        /\ unsaved' = IF pc = "sent" THEN unsaved + 1 ELSE unsaved
     \/ pc = "handle" /\ Fault("torn") /\ saved' = 0 /\ UNCHANGED <<slotSaved, unsaved>>
     \/ /\ pc = "reports" /\ slotSaved /\ Fault("torn") /\ UNCHANGED saved
        /\ slotSaved' = FALSE /\ unsaved' = unsaved + 1
  /\ dropped' = IF pc = "handle" THEN dropped \cup {current} ELSE dropped
  /\ Ends(Self) /\ Forget
  /\ UNCHANGED <<updates, confirmed, reports, begun>>

\* The auto-recovery watchdog or an operator starts what does not run.
Recover(p) ==
  /\ p \notin up /\ up' = up \cup {p}
  /\ IF p = Self
       THEN Forget
       ELSE UNCHANGED <<pc, memory>>
  /\ UNCHANGED <<updates, confirmed, saved, store, slots, log, faults>>

Send(update) ==
  /\ Len(updates) < MaxUpdates
  /\ updates' = Append(updates, update)
  /\ UNCHANGED <<up, confirmed, saved, pc, memory, store, slots, log, faults>>

Operator ==
  \/ Send([kind |-> "command", id |-> 0])
  \/ \E n \in notified, kind \in {"ignore", "fix", "restart"} :
       Send([kind |-> kind, id |-> n.id])

Next ==
  \/ Listen \/ PollFails \/ DiskFails \/ Crash \/ Operator
  \/ \E p \in Programs : Truncate(p) \/ Write(p) \/ Recover(p)
  \/ \E b \in Bots : BotError(b)

Spec == Init /\ [][Next]_vars

\* A running listener goes on; nothing else is promised.
FairSpec ==
  Spec /\ WF_vars(Listen \/ Truncate(Self) \/ Write(Self))
-----------------------------------------------------------------------------
(* Properties                                                              *)

Requests == [kind : {"command", "ignore", "fix", "restart"},
             id : 0..MaxIncidents]

Statuses == {"open", "ignored"}
Incidents == [id : 1..MaxIncidents, prog : Programs, status : Statuses]

\* No incident file has an id twice, or one that was not given out.
IsFile(f, last) ==
  /\ f \in Seq(Incidents)
  /\ \A i, j \in 1..Len(f) : i # j => f[i].id # f[j].id
  /\ \A i \in 1..Len(f) : f[i].id <= last

Jobs == [step : {"none", "loaded", "truncated"}, copy : Seq(Incidents),
         note : 0..MaxIncidents, stale : BOOLEAN]

\* A batch lies above what is confirmed, and no offset is past the next update.
MailTyped ==
  /\ updates \in Seq(Requests) /\ Len(updates) <= MaxUpdates
  /\ offset \in 0..Len(updates) + 1 /\ saved \in 0..Len(updates) + 1
  /\ confirmed \in 1..Len(updates) + 1
  /\ batch \subseteq confirmed..Len(updates)
  /\ pc \in {"boot", "poll", "take", "handle", "stopped", "decide", "failed",
             "reports", "sent", "unreported"}
  /\ pc \in {"handle", "stopped", "decide"} => current \in 1..Len(updates)

StoreTyped ==
  /\ issued \in 0..MaxIncidents
  /\ IsFile(file, issued)
  /\ job \in [Programs -> Jobs]
  /\ \A p \in Programs : IsFile(job[p].copy, issued)
  /\ notified \subseteq [id : 1..MaxIncidents, prog : Programs]
  /\ disturbed \in BOOLEAN /\ silenced \subseteq Programs

CountsTyped ==
  /\ up \subseteq Programs
  /\ status \in Statuses /\ complained \in {"none", "listener", "report"} /\ slotSaved \in BOOLEAN
  /\ begun \in [1..MaxUpdates -> 0..2] /\ dropped \subseteq 1..MaxUpdates
  /\ reports \in Nat /\ unsaved \in Nat /\ faults \in 0..MaxFaults

\* The type invariant.
TypeOK == MailTyped /\ StoreTyped /\ CountsTyped

\* No update is handled twice, whatever crash comes between its handling and the
\* next poll: a restart button stops a program once for each press.  (Two faults
\* do it: an offset file torn or not written, and a crash or a failing call.)
HandledOnce == \A u \in 1..MaxUpdates : begun[u] <= 1 \/ faults > 1

\* An update the listener is past was handled, except those that waited at the
\* first start and the one that a crash, or a disk error the loop survives, met
\* between its offset and its handler: an error in one update costs no other.
OnlyFailuresDrop ==
  \A u \in 1..Len(updates) :
    u < offset /\ ~(pc = "handle" /\ u = current) => begun[u] > 0 \/ u \in dropped

\* A program whose latest incident the operator ignored is not reported again,
\* unless two programs changed the incident file at once or one died while
\* writing it.
IgnoredStaysSilent ==
  [][\A n \in notified' \ notified : n.prog \in silenced => disturbed']_vars

\* The report of a slot is sent once, and again only as often as a crash or a disk
\* error kept a sent report's slot out of the state file.  (While the disk stays
\* full the report is sent in every round of the hour.)
ReportOnce == reports <= 1 + unsaved

\* An update that waits does not wait for ever: a listener that runs on comes to
\* have handled or passed over every update, also those behind one whose handler
\* raises.
Waiting == \E u \in 1..Len(updates) : begun[u] = 0 /\ u \notin dropped
UpdatesHandled == Waiting ~> ~Waiting \/ Self \notin up
=============================================================================
