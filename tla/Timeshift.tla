----------------------------- MODULE Timeshift -----------------------------
(* One timeshift recorder, the manager's view of it, and the external       *)
(* record-service command that writes a service into a ring of chunks and   *)
(* reports chunks and events on its standard output.                        *)
(*                                                                          *)
(* Time is counted in written units: ts[p] is the time of the unit stored   *)
(* at position p, 0 if none.  A point is a time and a position.             *)
EXTENDS Integers, Sequences, SequencesExt

CONSTANTS
    NumChunks, NumReserves,   \* config.timeshift.recorders[].num-chunks, num-reserves
    ChunkSize,                \* units in a chunk
    MaxLag,      \* chunk messages the recorder may be behind the command
    GapCases,    \* may the service be without an event for a while?
    MailSize,    \* capacity of the manager's mailbox
    MaxTime, MaxFaults        \* bounds: units written; broken pipelines and crashes

ASSUME ConfigAssumption ==
    /\ NumChunks \in Nat /\ NumReserves \in Nat /\ ChunkSize \in Nat \ {0}
    /\ NumChunks > 2 /\ NumReserves > 0 /\ NumChunks - NumReserves > 1
ASSUME LagAssumption == MaxLag \in 0..NumReserves
ASSUME GapAssumption == GapCases \subseteq BOOLEAN

VARIABLES
    now, ts, cmd,            \* the command: clock, ring file, [on, pos, event, long]
    pipe,                    \* messages of PipelineMessageSource, in order
    up,                      \* is the server running?
    points, records,         \* TimeshiftRecorder::points, records
    available, recording, session, current,
    data,                    \* the data file: {} or {[records, points, mtime]}
    mail, holder,            \* TimeshiftEvents to the manager, RecorderHolder
    gaps,
    faults

cmdVars == <<now, ts, cmd, gaps>>
memVars == <<points, records, available, recording, session, current>>
mgrVars == <<mail, holder>>
tsVars == <<cmdVars, pipe, up, memVars, data, mgrVars, faults>>

None == 0
FaultBudget == IF gaps THEN 0 ELSE MaxFaults   \* bound: faults and gaps are explored apart
MaxLaunch == MaxTime + 2 * MaxFaults + 2   \* bound
FileSize == ChunkSize * NumChunks
MaxChunks == NumChunks - NumReserves
Point(t, p) == [t |-> t, pos |-> p]
Here == Point(now, cmd.pos)
Msg(k, p) == [kind |-> k, point |-> p]
NoPoint == Point(0, 0)
Off == [on |-> FALSE, pos |-> 0, event |-> FALSE, long |-> FALSE]

(***************************************************************************)
(* Pure parts of the recorder.                                              *)
(***************************************************************************)
NewRecord(p) == [id |-> p.t, start |-> p, end |-> p, recording |-> TRUE]

GetSize(r) ==
    IF r.end.pos < r.start.pos
      THEN FileSize - r.start.pos + r.end.pos ELSE r.end.pos - r.start.pos

(* What a reader of a record is given: first position and length, for the   *)
(* whole record or for a range; and the positions TimeshiftFileReader       *)
(* visits: it goes on at the beginning of the file when it meets the end.   *)
CreateRecordStreamSource(r) == [start |-> r.start.pos, size |-> GetSize(r)]
CreateRangeStreamSource(r, first, bytes) ==
    [start |-> (r.start.pos + first) % FileSize, size |-> bytes]
ReadPositions(src) == [k \in 1..src.size |-> (src.start + k - 1) % FileSize]

(* Fault: the garbage stays.                                                *)
RemoveNoGarbage(rs, ps) == ps
RemoveGarbagePoints(rs, ps) ==
    IF rs = <<>> THEN ps
    ELSE LET kept == {i \in DOMAIN ps : Last(rs).end.t > ps[i].t}
         IN  SubSeq(ps, 1, IF kept = {} THEN 0 ELSE Max(kept))

Consistent(rs, ps) ==
    rs = <<>> \/ (/\ ps # <<>>
                  /\ Last(rs).end.pos = (Last(ps).pos + ChunkSize) % FileSize)

(* maintain(): drop the oldest chunk, purge the records that end before     *)
(* the first remaining point, crop the one that starts before it.           *)
PurgeExpiredRecords(rs, first) ==
    LET kept == {i \in DOMAIN rs : rs[i].end.t > first.t}
    IN  IF kept = {} THEN <<>> ELSE SubSeq(rs, Min(kept), Len(rs))
CropRecordToBeOverwritten(rs, first) ==
    IF rs # <<>> /\ rs[1].start.t < first.t
      THEN [rs EXCEPT ![1].start = first] ELSE rs
(* Fault: the oldest chunk is dropped one chunk late.                       *)
MaintainLate(ps, rs) ==
    IF Len(ps) < NumChunks THEN [points |-> ps, records |-> rs]
    ELSE [points |-> Tail(ps),
          records |-> CropRecordToBeOverwritten(PurgeExpiredRecords(rs, ps[2]), ps[2])]
Maintain(ps, rs) ==
    IF Len(ps) < MaxChunks THEN [points |-> ps, records |-> rs]
    ELSE [points |-> Tail(ps),
          records |-> CropRecordToBeOverwritten(PurgeExpiredRecords(rs, ps[2]), ps[2])]

UpdateLastRecord(rs, p, end) ==
    IF rs = <<>> THEN rs
    ELSE [rs EXCEPT ![Len(rs)].end = p,
                    ![Len(rs)].recording = IF end THEN FALSE ELSE @]

(* save_data(): nothing is saved while there are no records.  Every file    *)
(* has a modification time of its own; `recording` is not serialized.       *)
Saved(rs, ps) ==
    IF rs = <<>> THEN data
    ELSE {[records |-> [i \in DOMAIN rs |-> [rs[i] EXCEPT !.recording = FALSE]],
           points |-> ps,
           mtime |-> IF data = {} THEN 1 ELSE (CHOOSE d \in data : TRUE).mtime + 1]}

(***************************************************************************)
(* The record-service command (external).                                   *)
(***************************************************************************)
Pending == Cardinality({i \in DOMAIN pipe : pipe[i].kind = "chunk"})

(* One unit is written; at a chunk boundary the current event, if any, is   *)
(* updated and the next chunk is announced.                                 *)
Write ==
    LET pos == (cmd.pos + 1) % FileSize
        p == Point(now + 1, pos)
        update == IF cmd.event THEN <<Msg("event-update", p)>> ELSE <<>>
    IN  /\ up /\ cmd.on /\ now < MaxTime
        /\ cmd.pos % ChunkSize = 0 => Pending <= MaxLag
        /\ ts' = [ts EXCEPT ![cmd.pos] = now]
        /\ now' = now + 1
        /\ cmd' = [cmd EXCEPT !.pos = pos, !.long = cmd.event]
        /\ pipe' = IF pos % ChunkSize = 0
                     THEN pipe \o Append(update, Msg("chunk", p)) ELSE pipe
        /\ UNCHANGED <<up, memVars, data, mgrVars, faults, gaps>>

(* The next event follows at once, or nothing is known for a while.         *)
EventBoundary ==
    /\ up /\ cmd.on
    /\ \/ /\ cmd.event /\ cmd.long
          /\ pipe' = pipe \o <<Msg("event-end", Here), Msg("event-start", Here)>>
          /\ cmd' = [cmd EXCEPT !.long = FALSE]
       \/ /\ gaps /\ cmd.event /\ cmd.long
          /\ pipe' = Append(pipe, Msg("event-end", Here))
          /\ cmd' = [cmd EXCEPT !.event = FALSE, !.long = FALSE]
       \/ /\ gaps /\ ~cmd.event
          /\ pipe' = Append(pipe, Msg("event-start", Here))
          /\ cmd' = [cmd EXCEPT !.event = TRUE]
    /\ UNCHANGED <<now, ts, gaps, up, memVars, data, mgrVars, faults>>

(* The pipeline breaks.  The command may still say that it stops; the end   *)
(* of its output triggers PipelineStopped.                                  *)
PipelineBreaks ==
    /\ up /\ cmd.on /\ faults < FaultBudget
    /\ cmd' = Off
    /\ \E bye \in {<<>>, <<Msg("stop", NoPoint)>>} :
          pipe' = pipe \o Append(bye, Msg("stopped", NoPoint))
    /\ faults' = faults + 1
    /\ UNCHANGED <<now, ts, gaps, up, memVars, data, mgrVars>>

(***************************************************************************)
(* TimeshiftRecorder.                                                       *)
(***************************************************************************)
LoadedRecords == IF data = {} THEN <<>> ELSE (CHOOSE d \in data : TRUE).records
LoadedPoints == IF data = {} THEN <<>> ELSE (CHOOSE d \in data : TRUE).points

(* started(): the server starts and the recorder loads the data file.       *)
Started ==
    /\ ~up
    /\ up' = TRUE
    /\ records' = LoadedRecords /\ points' = LoadedPoints
    /\ available' = FALSE /\ recording' = FALSE /\ session' = FALSE /\ current' = None
    /\ mail' = <<>>
    /\ holder' = [started |-> FALSE, current |-> None]
    /\ UNCHANGED <<cmdVars, pipe, data, faults>>

(* The server is gone, and with it the pipeline and all messages.           *)
Gone ==
    /\ up' = FALSE
    /\ cmd' = Off /\ pipe' = <<>> /\ mail' = <<>>
    /\ UNCHANGED <<now, ts, gaps, memVars, data, holder>>
Crash == up /\ faults < FaultBudget /\ faults' = faults + 1 /\ Gone

(* do_start_recording(): no tuner, or a new command that continues at the   *)
(* last point.  `start` and the first chunk are announced at once, and the  *)
(* event on air unless none is known.                                       *)
StartPos == IF points = <<>> THEN 0 ELSE Last(points).pos
Launch ==
    LET p == Point(now + 1, StartPos) IN
    /\ now < MaxLaunch
    /\ session' = TRUE
    /\ now' = now + 1
    /\ \E event \in {TRUE, ~gaps} :
          /\ cmd' = [on |-> TRUE, pos |-> StartPos, event |-> event, long |-> FALSE]
          /\ pipe' = pipe \o <<Msg("started", NoPoint), Msg("start", NoPoint), Msg("chunk", p)>>
                          \o IF event THEN <<Msg("event-start", p)>> ELSE <<>>
    /\ UNCHANGED <<ts, gaps, points, records, recording, current, data>>

StartRecording == Launch \/ UNCHANGED <<cmdVars, pipe, points, records, recording, session, current, data>>

ServiceUpdated ==
    /\ up
    /\ \E found \in BOOLEAN :
          /\ available' = found
          /\ IF found /\ ~session THEN StartRecording
             ELSE UNCHANGED <<cmdVars, pipe, points, records, recording, session, current, data>>
    /\ UNCHANGED <<up, mgrVars, faults>>

(* The manager's health check reaches the recorder every minute.            *)
HealthCheck ==
    /\ up /\ ~session /\ available
    /\ StartRecording
    /\ UNCHANGED <<up, available, mgrVars, faults>>
HealthCheckStarts == HealthCheck /\ session'

Receive(kind) == up /\ pipe # <<>> /\ Head(pipe).kind = kind /\ pipe' = Tail(pipe)
Emit(event) == Len(mail) < MailSize /\ mail' = Append(mail, event)
Event(kind, id) == [kind |-> kind, id |-> id]

(* Faults: the end of the pipeline is not reported; the session is kept.    *)
PipelineStoppedSilently ==
    /\ Receive("stopped")
    /\ recording' = FALSE /\ session' = FALSE
    /\ UNCHANGED <<cmdVars, up, points, records, available, current, data, mgrVars, faults>>
PipelineStoppedKeeps ==
    /\ Receive("stopped")
    /\ recording' = FALSE
    /\ Emit(Event("Stopped", None))
    /\ UNCHANGED <<cmdVars, up, points, records, available, session, current, data, holder, faults>>
PipelineStarted ==
    /\ Receive("started")
    /\ recording' = TRUE
    /\ Emit(Event("Started", None))
    /\ UNCHANGED <<cmdVars, up, points, records, available, session, current, data, holder, faults>>
PipelineStopped ==
    /\ Receive("stopped")
    /\ recording' = FALSE /\ session' = FALSE
    /\ Emit(Event("Stopped", None))
    /\ UNCHANGED <<cmdVars, up, points, records, available, current, data, holder, faults>>

(* handle_start_recording(): an inconsistency ends the whole server.        *)
HandleStartRecording ==
    LET kept == RemoveGarbagePoints(records, points) IN
    /\ up /\ pipe # <<>> /\ Head(pipe).kind = "start"
    /\ IF Consistent(records, kept)
         THEN /\ pipe' = Tail(pipe) /\ points' = kept
              /\ UNCHANGED <<cmdVars, up, records, available, recording, session, current, data, mgrVars>>
         ELSE Gone
    /\ UNCHANGED faults

HandleStopRecording ==
    /\ Receive("stop")
    /\ current' = None
    /\ UNCHANGED <<cmdVars, up, points, records, available, recording, session, data, mgrVars, faults>>

(* handle_chunk(): maintain(), append_point(), save_data(), Timeline.       *)
HandleChunk ==
    LET m == Maintain(points, records) IN
    /\ Receive("chunk")
    /\ points' = Append(m.points, Head(pipe).point)
    /\ records' = m.records
    /\ data' = Saved(m.records, points')
    /\ Emit(Event("Timeline", None))
    /\ UNCHANGED <<cmdVars, up, available, recording, session, current, holder, faults>>

HandleEventStart ==
    LET p == Head(pipe).point IN
    /\ Receive("event-start")
    /\ records' = Append(records, NewRecord(p))
    /\ current' = p.t
    /\ Emit(Event("RecordStarted", p.t))
    /\ UNCHANGED <<cmdVars, up, points, available, recording, session, data, holder, faults>>

(* The event carries the time of the update, not the record's id.           *)
HandleEventUpdate ==
    LET p == Head(pipe).point IN
    /\ Receive("event-update")
    /\ records' = UpdateLastRecord(records, p, FALSE)
    /\ Emit(Event("RecordUpdated", p.t))
    /\ UNCHANGED <<cmdVars, up, points, available, recording, session, current, data, holder, faults>>

(* No RecordEnded is emitted.                                               *)
HandleEventEnd ==
    /\ Receive("event-end")
    /\ records' = UpdateLastRecord(records, Head(pipe).point, TRUE)
    /\ current' = None
    /\ UNCHANGED <<cmdVars, up, points, available, recording, session, data, mgrVars, faults>>

(***************************************************************************)
(* TimeshiftManager: Handler<TimeshiftEvent> and the events a new           *)
(* subscriber is told (RegisterEmitterPostProcess).                         *)
(***************************************************************************)
HandleTimeshiftEvent ==
    /\ up /\ mail # <<>>
    /\ mail' = Tail(mail)
    /\ LET e == Head(mail) IN
       holder' = CASE e.kind = "Started" -> [holder EXCEPT !.started = TRUE]
                   [] e.kind = "Stopped" -> [holder EXCEPT !.started = FALSE, !.current = None]
                   [] e.kind = "RecordStarted" -> [holder EXCEPT !.current = e.id]
                   [] OTHER -> holder
    /\ UNCHANGED <<cmdVars, pipe, up, memVars, data, faults>>

Preceding ==
    <<Event("Timeline", None)>>
    \o (IF holder.started THEN <<Event("Started", None)>> ELSE <<>>)
    \o (IF holder.current # None THEN <<Event("RecordStarted", holder.current)>> ELSE <<>>)

(***************************************************************************)
(* The specification.                                                       *)
(***************************************************************************)
TsInit ==
    /\ now = 1 /\ ts = [p \in 0..(FileSize - 1) |-> 0] /\ cmd = Off /\ pipe = <<>>
    /\ up = TRUE /\ points = <<>> /\ records = <<>>
    /\ available = FALSE /\ recording = FALSE /\ session = FALSE /\ current = None
    /\ data = {} /\ mail = <<>>
    /\ holder = [started |-> FALSE, current |-> None]
    /\ faults = 0 /\ gaps \in GapCases

Handle ==
    \/ PipelineStarted \/ PipelineStopped
    \/ HandleStartRecording \/ HandleStopRecording \/ HandleChunk
    \/ HandleEventStart \/ HandleEventUpdate \/ HandleEventEnd
TsNext ==
    \/ Write \/ EventBoundary \/ PipelineBreaks
    \/ Started \/ Crash \/ ServiceUpdated \/ HealthCheck
    \/ Handle \/ HandleTimeshiftEvent


TsFairness ==
    /\ WF_tsVars(Handle) /\ WF_tsVars(HandleTimeshiftEvent)
    /\ WF_tsVars(Started) /\ SF_tsVars(HealthCheckStarts)
(***************************************************************************)
(* Properties.                                                              *)
(***************************************************************************)
Points == [t : Nat, pos : 0..(FileSize - 1)]
Records == [id : Nat, start : Points, end : Points, recording : BOOLEAN]
TsTypeOK ==
    /\ now \in Nat /\ ts \in [0..(FileSize - 1) -> Nat]
    /\ cmd \in [on : BOOLEAN, pos : 0..(FileSize - 1), event : BOOLEAN, long : BOOLEAN]
    /\ points \in Seq(Points) /\ Len(points) <= MaxChunks
    /\ records \in Seq(Records)
    /\ {available, recording, session, up, gaps} \subseteq BOOLEAN
TsSpec == TsInit /\ [][TsNext]_tsVars /\ TsFairness

(* The units from one point to another are still in the file: the units of  *)
(* the times in between, in order.                                          *)
Holds(src, t) ==
    \A k \in 1..src.size : ts[ReadPositions(src)[k]] = t + k - 1
Readable(r) ==
    /\ GetSize(r) = r.end.t - r.start.t
    /\ Holds(CreateRecordStreamSource(r), r.start.t)
    /\ \A first \in 0..(GetSize(r) - 1) :
          Holds(CreateRangeStreamSource(r, first, GetSize(r) - first), r.start.t + first)
Contiguous(ps) ==
    \A i \in 1..(Len(ps) - 1) : ps[i + 1].pos = (ps[i].pos + ChunkSize) % FileSize

(* Every record that the recorder offers, once it has checked what is left  *)
(* of a broken session, and every record that a restart or the timeshift    *)
(* file system reads from the data file still has all of its packets in the *)
(* ring.  The file of a service with gaps between its events is left out:   *)
(* save_data() keeps a file whose records have all been purged.             *)
RecordsAreReadable ==
    /\ up /\ (\A i \in DOMAIN pipe : pipe[i].kind # "start") =>
         \A i \in DOMAIN records : Readable(records[i])
    /\ ~gaps => \A d \in data : \A i \in DOMAIN d.records : Readable(d.records[i])

(* A recorder started from the data file is not stopped by                  *)
(* check_consistency(); the file of a service with gaps between its events  *)
(* is left out here as well.                                                *)
RestartsRecover ==
    ~gaps => \A d \in data : Consistent(d.records, RemoveGarbagePoints(d.records, d.points))

(* With no event under way to it, the manager tells a new subscriber that   *)
(* the recorder has started exactly if it is recording.                     *)
SubscribersAreToldState ==
    up /\ mail = <<>> => (recording <=> Event("Started", None) \in Range(Preceding))

(* While its service is there and faults are over, a recorder records.      *)
RecordingResumes == ~gaps /\ <>[](available) => <>[](recording /\ cmd.on)

(* The comment at RecorderHolder: its states are cached "in order to emit   *)
(* preceding events when a new emitter is registered".  A record is told    *)
(* as started only while it is being recorded.                              *)
PrecedingEventsAreTrue ==
    up /\ mail = <<>> /\ pipe = <<>> =>
       \A i \in DOMAIN Preceding :
          Preceding[i].kind = "RecordStarted" => Preceding[i].id = current
=============================================================================
