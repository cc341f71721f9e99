-------------------------- MODULE RecordingManager --------------------------
(***************************************************************************)
(* The actor that keeps the recording schedules and runs the recorders     *)
(* (mirakc-core/src/recording/mod.rs).  Every handler runs to its end      *)
(* before the next one starts, so a handler is one action; the tuner       *)
(* manager, the EPG and the on-air trackers answer as they like.           *)
(*                                                                         *)
(* An optional value is a set with at most one element: schedules[p] = {}  *)
(* means that the map has no entry for program p.  Time is counted in      *)
(* ticks.  The records feature (config.recording.records-dir) is off.      *)
(***************************************************************************)
EXTENDS Integers, FiniteSets, FiniteSetsExt

CONSTANTS
    Programs,     \* programs somebody may want to record
    Services,
    ServiceOf,    \* program -> its service
    TypeOf,       \* program -> channel type of its service
    Starts,       \* start times the broadcaster announces
    Length,       \* duration of a program
    Prep,         \* PREP_SECS
    MaxDelay,     \* MAX_DELAY_HOURS
    Retain,       \* MAX_HISTORY_RETAIN_HOURS
    OnAir,        \* services with an on-air program tracker
    Rebooking,    \* a program may be booked while its old recorder stops
    DiskMayFail,  \* saving schedules.v1.json may fail
    MaxTime,      \* bound on the clock
    MaxMail,      \* bound on unhandled ProcessRecording messages
    MaxBookings,  \* bound on the schedules users add
    MaxRestarts   \* bound on crashes and restarts of the process

ASSUME RecordingAssumption ==
    /\ ServiceOf \in [Programs -> Services]
    /\ Starts \subseteq Nat
    /\ {Length, Prep, MaxDelay, Retain} \subseteq Nat
    /\ {MaxTime, MaxMail, MaxBookings, MaxRestarts} \subseteq Nat
    /\ OnAir \subseteq Services
    /\ {Rebooking, DiskMayFail} \subseteq BOOLEAN
    /\ IsFiniteSet(Programs)

(* The part of an EpgProgram that is looked at.  The EPG knows the start    *)
(* and the end of a program, a tracker may not know the end ("open").       *)
Program == [start : Starts, open : BOOLEAN]
EpgProgram == {i \in Program : ~i.open}

Pending == {"Scheduled", "Tracking", "Waiting", "Recording", "Rescheduling"}
Schedule == [state : Pending, start : Starts, open : BOOLEAN]
Done == [program : Programs, state : {"Finished", "Failed"}, start : Starts]
QueueItem == [program : Programs, start : Starts]
(* What has become of the recorder's task: it announces itself, writes the  *)
(* content, reports an I/O error if there was one, and announces its end.   *)
Recorder == [trigger : BOOLEAN, task : {"new", "writing", "failing", "failed", "ended"}]

VARIABLES
    now,        \* the clock
    schedules,  \* program -> its schedule, if there is one
    queue,      \* the schedules that wait for their start time
    history,    \* schedules that are done
    recorders,  \* program -> its recorder, if there is one
    timer,      \* when the timer sends ProcessRecording, if it is set
    mail,       \* number of unhandled ProcessRecording messages
    disk,       \* contents of schedules.v1.json; stale after a failed save
    bookings,   \* schedules users added so far
    restarts,   \* restarts so far
    out         \* events the last step emitted

vars == <<now, schedules, queue, history, recorders, timer, mail, disk, bookings, restarts, out>>

Event(kind, P) == {[kind |-> kind, program |-> p] : p \in P}
Emit(events) == out' = events

Init ==
    /\ now = 0
    /\ schedules = [p \in Programs |-> {}]
    /\ queue = {}
    /\ history = {}
    /\ recorders = [p \in Programs |-> {}]
    /\ timer = {}
    /\ mail = 0
    /\ disk = [schedules |-> schedules, history |-> {}, stale |-> FALSE]
    /\ bookings = 0
    /\ restarts = 0
    /\ out = {}

-----------------------------------------------------------------------------
(* Schedules, queue, timer and file.                                        *)

InState(sch, p, states) == \E s \in sch[p] : s.state \in states
IsRecording(p) == InState(schedules, p, {"Recording"})
InStates(states) == {p \in Programs : InState(schedules, p, states)}
WithState(s, state) == [s EXCEPT !.state = state]
MoveTo(sch, P, state) ==
    [p \in Programs |-> IF p \in P THEN {WithState(s, state) : s \in sch[p]} ELSE sch[p]]
Without(sch, P) == [p \in Programs |-> IF p \in P THEN {} ELSE sch[p]]
Archived(sch, P, state) ==
    UNION {{[program |-> p, state |-> state, start |-> s.start] : s \in sch[p]} : p \in P}

IsReady(s) == s.state \in {"Scheduled", "Tracking"}
QueueOf(sch) ==
    UNION {{[program |-> p, start |-> s.start] : s \in {x \in sch[p] : IsReady(x)}} : p \in Programs}
(* Fault: the timer waits for the last schedule.                            *)
TimerForLast(q) == IF q = {} THEN {} ELSE {Max({i.start : i \in q}) - Prep}
TimerFor(q) == IF q = {} THEN {} ELSE {Min({i.start : i \in q}) - Prep}

(* Fault: only the timer is set.                                            *)
SetTimerOnly == UNCHANGED queue /\ timer' = TimerFor(queue)
(* Fault: only the queue is rebuilt.                                        *)
RebuildQueueOnly == queue' = QueueOf(schedules') /\ UNCHANGED timer
(* rebuild_queue() and set_timer().                                         *)
Requeue == queue' = QueueOf(schedules') /\ timer' = TimerFor(queue')

(* save_schedules(): a failure is logged and otherwise ignored.             *)
Save ==
    \/ disk' = [schedules |-> schedules', history |-> history', stale |-> FALSE]
    \/ DiskMayFail /\ disk' = [disk EXCEPT !.stale = TRUE]

(* Fault: the stop trigger of the recorder is kept.                         *)
DropTriggersNot(P) == UNCHANGED recorders
(* stop_recorder(): drops the trigger, which ends the stream.               *)
DropTriggers(P) ==
    recorders' = [p \in Programs |->
        IF p \in P THEN {[r EXCEPT !.trigger = FALSE] : r \in recorders[p]} ELSE recorders[p]]

-----------------------------------------------------------------------------
(* update_schedule_by_onair_program() for the programs of one message: air  *)
(* maps the current and the next program to what the tracker says of them.  *)

OnairPrograms(service) ==
    LET own == {p \in Programs : ServiceOf[p] = service} IN
    UNION {[P -> Program] :
              P \in {Q \in SUBSET own : (service \in OnAir /\ Cardinality(Q) <= 2) \/ Q = {}}}

Tracked(s, i) ==
    [state |-> IF s.state = "Recording" THEN "Recording" ELSE "Tracking",
     start |-> i.start, open |-> i.open]
UpdateByOnair(sch, air) ==
    [p \in Programs |-> IF p \in DOMAIN air THEN {Tracked(s, air[p]) : s \in sch[p]} ELSE sch[p]]
Moved(sch, air) ==
    {p \in DOMAIN air : \E s \in sch[p] : s.state # "Recording" /\ s.start # air[p].start}

(* OnairProgramChanged.  The result for the next program overwrites the one *)
(* for the current program: only the last of them decides whether the queue *)
(* is rebuilt.  last = {} if that is a program nobody recorded.             *)
OnairProgramChanged(service) ==
    \E air \in OnairPrograms(service) :
    \E last \in {L \in SUBSET DOMAIN air : Cardinality(L) <= 1} :
        /\ \E p \in DOMAIN air : schedules[p] # {}
        /\ schedules' = UpdateByOnair(schedules, air)
        /\ Emit(Event("rescheduled", Moved(schedules, air)))
        /\ UNCHANGED <<now, history, recorders, mail, bookings, restarts>>
        /\ IF last \cap Moved(schedules, air) # {}
             THEN Requeue /\ Save
             ELSE UNCHANGED <<queue, timer, disk>>

-----------------------------------------------------------------------------
(* The requests of the users.                                               *)

(* add_schedule(): a second schedule of a program is refused.               *)
CanBook(p) ==
    /\ schedules[p] = {}
    /\ Rebooking \/ recorders[p] = {}
    /\ bookings < MaxBookings
Booked(p, i) ==
    [schedules EXCEPT ![p] = {[state |-> "Scheduled", start |-> i.start, open |-> i.open]}]

AddRecordingSchedule(p) == \E i \in EpgProgram, air \in OnairPrograms(ServiceOf[p]) :
    /\ CanBook(p)
    /\ schedules' = UpdateByOnair(Booked(p, i), air)
    /\ Requeue
    /\ Emit(Event("rescheduled", Moved(Booked(p, i), air)))
    /\ bookings' = bookings + 1
    /\ UNCHANGED <<now, history, recorders, mail, restarts>>
    /\ Save

RemoveRecordingSchedule(p) ==
    /\ schedules[p] # {}
    /\ schedules' = Without(schedules, {p})
    /\ DropTriggers(IF IsRecording(p) THEN {p} ELSE {})
    /\ Requeue
    /\ Emit({})
    /\ UNCHANGED <<now, history, mail, bookings, restarts>>
    /\ Save

RemoveAllSchedules ==
    /\ schedules' = Without(schedules, Programs)
    /\ DropTriggers(InStates({"Recording"}))
    /\ Requeue
    /\ Emit({})
    /\ UNCHANGED <<now, history, mail, bookings, restarts>>
    /\ Save

(* Removal by a tag spares what runs, waits or is about to start.           *)
Spared(p) == \E s \in schedules[p] :
    \/ s.state \in {"Tracking", "Waiting", "Recording"}
    \/ s.state = "Scheduled" /\ s.start - now <= Prep

(* Fault: the queue keeps the removed schedules.                            *)
RemoveTaggedFromMapOnly(tagged) ==
    /\ schedules' = Without(schedules, {p \in tagged : ~Spared(p)})
    /\ Emit({})
    /\ UNCHANGED <<now, queue, timer, history, recorders, mail, bookings, restarts>>
    /\ Save

RemoveTaggedSchedules(tagged) ==
    /\ schedules' = Without(schedules, {p \in tagged : ~Spared(p)})
    /\ Requeue
    /\ Emit({})
    /\ UNCHANGED <<now, history, recorders, mail, bookings, restarts>>
    /\ Save

DeleteRecordingHistory ==
    /\ history' = {}
    /\ Emit({})
    /\ UNCHANGED <<now, schedules, queue, recorders, timer, mail, bookings, restarts>>
    /\ Save

(* StopRecording only drops the trigger; the rest follows from the end of   *)
(* the stream.                                                              *)
StopRecording(p) ==
    /\ recorders[p] # {}
    /\ DropTriggers({p})
    /\ Emit({})
    /\ UNCHANGED <<now, schedules, queue, history, timer, mail, disk, bookings, restarts>>

-----------------------------------------------------------------------------
(* start_recording() for the programs P of sch: the tuner manager grants a  *)
(* stream ("ok"), has no tuner ("busy"), or something else fails.  A        *)
(* program with a recorder fails with AlreadyExists.                        *)

Outcomes(P) == {f \in [P -> {"ok", "busy", "error"}] :
                  \A p \in P : recorders[p] # {} => f[p] = "error"}
Ending(f, outcome) == {p \in DOMAIN f : f[p] = outcome}
Start(sch, f) ==
    MoveTo(MoveTo(Without(sch, Ending(f, "error")), Ending(f, "busy"), "Waiting"),
           Ending(f, "ok"), "Recording")
NewRecorders(f) ==
    [p \in Programs |->
        IF p \in Ending(f, "ok") THEN {[trigger |-> TRUE, task |-> "new"]} ELSE recorders[p]]
NotStarted(f) == Ending(f, "busy") \cup Ending(f, "error")

(* StartRecording: the queue and the timer are left alone.                  *)
StartRecording(p) == \E i \in EpgProgram, f \in Outcomes({p}) :
    /\ CanBook(p)
    /\ schedules' = Start(Booked(p, i), f)
    /\ recorders' = NewRecorders(f)
    /\ history' = history \cup Archived(Booked(p, i), Ending(f, "error"), "Failed")
    /\ Emit(Event("failed", NotStarted(f)))
    /\ bookings' = bookings + 1
    /\ UNCHANGED <<now, queue, timer, mail, restarts>>
    /\ Save

-----------------------------------------------------------------------------
(* The timer and ProcessRecording.                                          *)

Tick ==
    /\ now < MaxTime
    /\ now' = now + 1
    /\ Emit({})
    /\ UNCHANGED <<schedules, queue, history, recorders, timer, mail, disk, bookings, restarts>>

TimerExpires ==
    /\ \E t \in timer : t <= now
    /\ mail < MaxMail
    /\ timer' = {}
    /\ mail' = mail + 1
    /\ Emit({})
    /\ UNCHANGED <<now, schedules, queue, history, recorders, disk, bookings, restarts>>

(* maintain_schedules()                                                     *)
Expired == {p \in Programs : ~IsRecording(p) /\ \E s \in schedules[p] : s.start + MaxDelay <= now}
Over == {p \in InStates({"Scheduled", "Tracking", "Waiting"}) \ Expired :
           \E s \in schedules[p] : ~s.open /\ s.start + Length <= now}
GivenUp == Over \cap InStates({"Waiting"})
Maintained ==
    MoveTo(Without(schedules, Expired \cup GivenUp), Over \ GivenUp, "Rescheduling")
MaintainedQueue == IF Expired \cup Over = {} THEN queue ELSE QueueOf(Maintained)

(* dequeue_next_schedules()                                                 *)
DueItems == {i \in MaintainedQueue : i.start - now <= Prep}
DuePrograms == {i.program : i \in DueItems}

(* maintain_history()                                                       *)
Retained(hist) == {h \in hist : h.start + Retain > now}

ProcessRecording ==
    \E f \in Outcomes({p \in DuePrograms : Maintained[p] # {}}) :
    LET done == history \cup Archived(schedules, Expired \cup GivenUp, "Failed")
                        \cup Archived(Maintained, Ending(f, "error"), "Failed")
    IN  /\ mail > 0
        /\ mail' = mail - 1
        /\ schedules' = Start(Maintained, f)
        /\ recorders' = NewRecorders(f)
        /\ history' = Retained(done)
        /\ queue' = MaintainedQueue \ DueItems
        /\ timer' = TimerFor(queue')
        /\ Emit(Event("failed", Expired \cup Over \cup NotStarted(f)))
        /\ UNCHANGED <<now, bookings, restarts>>
        /\ IF Expired \cup Over = {} /\ DueItems = {} /\ Retained(done) = done
             THEN UNCHANGED disk
             ELSE Save

-----------------------------------------------------------------------------
(* The recorder's task and its messages.  The manager handles the messages  *)
(* of one recorder in order.                                                *)

SetTask(p, task) == recorders' = [recorders EXCEPT ![p] = {[r EXCEPT !.task = task] : r \in @}]
TaskIs(p, tasks) == \E r \in recorders[p] : r.task \in tasks

RecordingStarted(p) ==
    /\ TaskIs(p, {"new"})
    /\ SetTask(p, "writing")
    /\ Emit(Event("started", {p}))
    /\ UNCHANGED <<now, schedules, queue, history, timer, mail, disk, bookings, restarts>>

(* The program or the stream ends, or the content cannot be written.        *)
RecordingEnds(p) ==
    /\ TaskIs(p, {"writing"})
    /\ SetTask(p, "ended") \/ SetTask(p, "failing")
    /\ Emit({})
    /\ UNCHANGED <<now, schedules, queue, history, timer, mail, disk, bookings, restarts>>

(* RecordingFailed with an IoError: the event is all there is.              *)
RecordingFailed(p) ==
    /\ TaskIs(p, {"failing"})
    /\ SetTask(p, "failed")
    /\ Emit(Event("failed", {p}))
    /\ UNCHANGED <<now, schedules, queue, history, timer, mail, disk, bookings, restarts>>

(* The exit codes of the pipeline: one of them asks for a retry (EXIT_RETRY *)
(* of the program filter), one of them is an error, or all are fine.        *)
Result == {"retry", "error", "ok"}
(* Fault: a recording that asks for a retry keeps its state.                *)
AfterStopForgettingRetry(p, result) ==
    IF result = "retry" THEN schedules ELSE Without(schedules, {p})
AfterStop(p, result) ==
    IF result = "retry" THEN MoveTo(schedules, {p}, "Rescheduling") ELSE Without(schedules, {p})
DoneAfterStop(p, result) ==
    CASE result = "retry" -> {}
      [] result = "error" -> Archived(schedules, {p}, "Failed")
      [] result = "ok" -> Archived(schedules, {p}, "Finished")
StopEvents(p, result) ==
    Event("stopped", {p}) \cup
    Event("failed", {q \in {p} : result = "error" \/ (result = "retry" /\ schedules[q] # {})})

(* Fault: the file is not written.                                          *)
RecordingStoppedUnsaved(p) == \E result \in Result :
    /\ TaskIs(p, {"failed", "ended"})
    /\ schedules' = AfterStop(p, result)
    /\ history' = history \cup DoneAfterStop(p, result)
    /\ recorders' = [recorders EXCEPT ![p] = {}]
    /\ Emit(StopEvents(p, result))
    /\ UNCHANGED <<now, queue, timer, mail, disk, bookings, restarts>>

(* What becomes of the schedule; the recorder is removed in any case.  The  *)
(* schedule may be gone, and it is not the recorder's own if the program    *)
(* was booked again meanwhile.                                              *)
RecordingStopped(p) == \E result \in Result :
    /\ TaskIs(p, {"failed", "ended"})
    /\ schedules' = AfterStop(p, result)
    /\ history' = history \cup DoneAfterStop(p, result)
    /\ recorders' = [recorders EXCEPT ![p] = {}]
    /\ Emit(StopEvents(p, result))
    /\ UNCHANGED <<now, queue, timer, mail, bookings, restarts>>
    /\ IF schedules[p] = {} THEN UNCHANGED disk ELSE Save

-----------------------------------------------------------------------------
(* Messages of the tuner manager and of the EPG.                            *)

TunerAvailable(types) ==
    LET retried == {p \in InStates({"Waiting"}) : TypeOf[p] \in types} IN
    /\ retried # {}
    /\ schedules' = MoveTo(schedules, retried, "Scheduled")
    /\ Requeue
    /\ Emit({})
    /\ UNCHANGED <<now, history, recorders, mail, bookings, restarts>>
    /\ Save

Idle == InStates(Pending \ {"Recording"})

(* ServicesUpdated: schedules of services that are gone are dropped, others *)
(* take over the new data of their service.                                 *)
ServicesUpdated(present) ==
    LET removed == {p \in Idle : ServiceOf[p] \notin present} IN
    /\ Idle # {}
    /\ schedules' = Without(schedules, removed)
    /\ DropTriggers(removed)
    /\ Requeue
    /\ Emit(Event("failed", removed))
    /\ UNCHANGED <<now, history, mail, bookings, restarts>>
    /\ Save

(* ProgramsUpdated: epg maps the idle schedules of the service to what the  *)
(* EPG says of their programs, if it still knows them.                      *)
Renewed(s, i) ==
    [state |-> IF s.start = i.start THEN s.state ELSE "Scheduled",
     start |-> i.start, open |-> i.open]

(* Fault: removed programs are not announced.                               *)
FailedProgramsQuietly(removed) == {}
FailedPrograms(removed) == Event("failed", removed)
ProgramsUpdated(service) ==
    \E epg \in [{p \in Idle : ServiceOf[p] = service} -> SUBSET EpgProgram] :
    LET removed == {p \in DOMAIN epg : epg[p] = {}}
        renewed == {p \in DOMAIN epg : \E i \in epg[p] : i.start + Length > now}
        moved == {p \in renewed : \A i \in epg[p], s \in schedules[p] : s.start # i.start}
    IN  /\ \A p \in DOMAIN epg : \A i, j \in epg[p] : i = j
        /\ removed \cup renewed # {}
        /\ schedules' = [p \in Programs |->
               IF p \in renewed THEN UNION {{Renewed(s, i) : s \in schedules[p]} : i \in epg[p]}
               ELSE IF p \in removed THEN {} ELSE schedules[p]]
        /\ history' = history \cup Archived(schedules, removed, "Failed")
        /\ Requeue
        /\ Emit(FailedPrograms(removed) \cup Event("rescheduled", moved))
        /\ UNCHANGED <<now, recorders, mail, bookings, restarts>>
        /\ Save

-----------------------------------------------------------------------------

(* The process dies and starts again: load_schedules(), rebuild_queue() and *)
(* set_timer() in started().                                                *)
Restart ==
    /\ restarts < MaxRestarts
    /\ restarts' = restarts + 1
    /\ schedules' = disk.schedules
    /\ history' = disk.history
    /\ recorders' = [p \in Programs |-> {}]
    /\ mail' = 0
    /\ Requeue
    /\ Emit({})
    /\ disk' = [disk EXCEPT !.stale = FALSE]
    /\ UNCHANGED <<now, bookings>>

UserStep ==
    \/ \E p \in Programs : AddRecordingSchedule(p) \/ StartRecording(p) \/ StopRecording(p)
    \/ DeleteRecordingHistory
UserRemoval ==
    \/ \E p \in Programs : RemoveRecordingSchedule(p)
    \/ RemoveAllSchedules
    \/ \E tagged \in SUBSET Programs : RemoveTaggedSchedules(tagged)
RecorderStep(p) ==
    RecordingStarted(p) \/ RecordingEnds(p) \/ RecordingFailed(p) \/ RecordingStopped(p)
EnvironmentStep ==
    \/ \E types \in SUBSET {TypeOf[p] : p \in Programs} : TunerAvailable(types)
    \/ \E present \in SUBSET Services : ServicesUpdated(present)
    \/ \E service \in Services : ProgramsUpdated(service) \/ OnairProgramChanged(service)

Next ==
    \/ Tick
    \/ TimerExpires
    \/ ProcessRecording
    \/ UserStep
    \/ UserRemoval
    \/ \E p \in Programs : RecorderStep(p)
    \/ EnvironmentStep
    \/ Restart

Spec == Init /\ [][Next]_vars

(* Time passes, timers expire, the actor handles what it is sent, and a     *)
(* recorder's stream comes to its end.                                      *)
Fairness ==
    /\ WF_vars(Tick)
    /\ WF_vars(TimerExpires)
    /\ WF_vars(ProcessRecording)
    /\ \A p \in Programs : WF_vars(RecorderStep(p))
FairSpec == Spec /\ Fairness

-----------------------------------------------------------------------------
(* Properties.                                                              *)

TypeOK ==
    /\ now \in Nat /\ mail \in Nat /\ bookings \in Nat /\ restarts \in Nat
    /\ schedules \in [Programs -> SUBSET Schedule]
    /\ \A p \in Programs : \A s1, s2 \in schedules[p] : s1 = s2
    /\ queue \subseteq QueueItem
    /\ history \subseteq Done
    /\ recorders \in [Programs -> SUBSET Recorder]
    /\ \A p \in Programs : \A r1, r2 \in recorders[p] : r1 = r2
    /\ timer \subseteq Int
    /\ \A t1, t2 \in timer : t1 = t2
    /\ disk \in [schedules : [Programs -> SUBSET Schedule], history : SUBSET Done, stale : BOOLEAN]
    /\ \A p \in Programs : \A s1, s2 \in disk.schedules[p] : s1 = s2

(* A recorder whose schedule was removed, or is not the one it was started  *)
(* for, has lost its stop trigger: nothing records on without a schedule    *)
(* (stop_recorder in every handler that removes schedules).                 *)
NothingRecordsUnscheduled ==
    \A p \in Programs : \A r \in recorders[p] : r.trigger => IsRecording(p)

(* While a schedule is queued, its recording is not forgotten: the timer is *)
(* set early enough, or a ProcessRecording is on its way (set_timer).       *)
TimerServesQueue ==
    \A i \in queue : mail > 0 \/ \E t \in timer : t <= i.start - Prep

(* dequeue_next_schedules asserts that a dequeued schedule exists.          *)
DequeuedSchedulesExist ==
    mail > 0 => \A i \in DueItems : Maintained[i.program] # {}

(* At most the latest on-air information is lost in a crash, unless the     *)
(* file could not be saved: it knows the same schedules as the manager, and *)
(* the same ones as being recorded.                                         *)
FileKnowsSchedules ==
    ~disk.stale => \A p \in Programs :
        /\ schedules[p] = {} <=> disk.schedules[p] = {}
        /\ IsRecording(p) <=> InState(disk.schedules, p, {"Recording"})

(* A schedule that is ready for recording waits in the queue                *)
(* (rebuild_queue).  "When the status of any tuner changes, the schedule    *)
(* transitions to Scheduled and the recording process is retried."          *)
ReadySchedulesAreQueued ==
    \A p \in Programs : \A s \in schedules[p] : IsReady(s) => \E i \in queue : i.program = p

(* The queue is "sorted by the start time of each recording schedule".      *)
QueueKnowsStartTimes ==
    \A i \in queue : \A s \in schedules[i.program] : IsReady(s) => s.start = i.start

(* The transitions the documentation of RecordingScheduleState lists.       *)
Documented ==
    [Scheduled |-> {"Waiting", "Tracking", "Recording", "Rescheduling"},
     Tracking |-> {"Scheduled", "Waiting", "Recording", "Rescheduling"},
     Waiting |-> {"Scheduled", "Tracking"},
     Recording |-> {"Rescheduling"},
     Rescheduling |-> {"Scheduled", "Tracking"}]
OnlyDocumentedTransitions ==
    [][restarts' = restarts => \A p \in Programs : \A s \in schedules[p], s2 \in schedules'[p] :
           s.state = s2.state \/ s2.state \in Documented[s.state]]_vars

(* A schedule leaves only by a user's request, after its recording, or with *)
(* a recording.failed event, which also tells of each recording that must   *)
(* wait or be rescheduled.                                                  *)
Announced(kind, p) == [kind |-> kind, program |-> p] \in out'
FailuresAreAnnounced ==
    [][restarts' = restarts => \A p \in Programs : \A s \in schedules[p] :
          /\ schedules'[p] = {} => \/ Announced("failed", p)
                                  \/ (s.state = "Recording" /\ Announced("stopped", p))
                                  \/ UserRemoval
          /\ \A s2 \in schedules'[p] :
               s2.state \in {"Waiting", "Rescheduling"} /\ s.state # s2.state
                   => Announced("failed", p)]_vars

(* A change of the start time of a pending recording is announced with      *)
(* recording.rescheduled.                                                   *)
MovesAreAnnounced ==
    [][restarts' = restarts => \A p \in Programs : \A s \in schedules[p], s2 \in schedules'[p] :
           s.start # s2.start /\ s.state # "Recording" => Announced("rescheduled", p)]_vars

(* "The recording finished successfully": no I/O error was reported for it. *)
FinishedRecordingsDidNotFail ==
    [][\A p \in Programs :
          IsRecording(p) /\ (\E h \in history' \ history : h.program = p /\ h.state = "Finished")
              => ~TaskIs(p, {"failed"})]_vars

(* A schedule whose program comes is recorded, waits or has failed.         *)
SchedulesAreServed ==
    \A p \in Programs : InState(schedules, p, {"Scheduled"}) ~> ~InState(schedules, p, {"Scheduled"})

(* A recording comes to a final state, or is rescheduled: "until it reaches *)
(* a final state".                                                          *)
RecordingsEnd == \A p \in Programs : IsRecording(p) ~> ~IsRecording(p)

(* A schedule that cannot be rescheduled "will eventually expire".          *)
RescheduledSchedulesExpire ==
    \A p \in Programs : InState(schedules, p, {"Rescheduling"}) ~> ~InState(schedules, p, {"Rescheduling"})
=============================================================================
