----------------------------- MODULE WebStream -----------------------------
(* A streaming request of the Web API: a live stream of a tuner or the      *)
(* content of a record, with or without filters, from the request to the    *)
(* last process that served it.  Units of data are counted; every stage     *)
(* keeps their order.  The client, the tuner, the filter commands and the   *)
(* pipes between them are external.                                         *)
EXTENDS Records

CONSTANTS
    Requests,     \* [kind, filters, seekable, range] of the requests to look at
    QueueSize,    \* chunks the broadcaster buffers for a subscriber
    PipeSize,     \* units in a pipe between two processes
    MaxChunks     \* config.server.stream_max_chunks

ASSUME RequestsAssumption ==
    /\ Requests \subseteq [kind : {"live", "record"}, filters : Nat, seekable : BOOLEAN,
                           range : {<<>>} \union (Nat \X Nat)]
    /\ {QueueSize, PipeSize, MaxChunks} \subseteq Nat

VARIABLES
    req, phase,          \* the request and what became of it
    length,              \* announced Content-Length
    subscribed, trigger, stopping,   \* at the tuner manager; StopStreaming is on its way
    queue, closed,       \* chunks buffered for the subscriber; the broadcaster closed them
    source,              \* reader of a content: file, whether of a range, position, end,
                         \* progress, step
    feeder, reader,      \* the two tasks of streaming(): "run" or "done"
    pipe, proc,          \* pipes and filter processes
    chan, ended,         \* what the client can read, and whether more may come
    sent, got,           \* units the tuner sent and the client read
    damaged              \* history: a unit was dropped or a process failed

tunerVars == <<subscribed, trigger, stopping, queue, closed, sent>>
pipelineVars == <<feeder, reader, pipe, proc>>
clientVars == <<chan, ended, got>>
webVars == <<req, phase, length, tunerVars, source, pipelineVars, clientVars, damaged>>
vars == <<recordVars, webVars>>
serverVars == <<req, phase, length>>

NoLength == -1
Live == req.kind = "live"
Filtered == req.filters > 0
Filters == 1..req.filters
LastPipe == req.filters + 1
NoPipeline == /\ feeder' = "done" /\ reader' = "done"
              /\ proc' = [i \in Filters |-> "dead"] /\ pipe' = [i \in 1..LastPipe |-> 0]

(***************************************************************************)
(* The tuner manager and a broadcaster, as far as a subscriber sees them.   *)
(***************************************************************************)
(* broadcast() drops what a slow subscriber has no room for.                *)
TunerOutput ==
    /\ subscribed /\ ~closed /\ sent < MaxUnits /\ sent' = sent + 1
    /\ queue' = IF queue < QueueSize THEN queue + 1 ELSE queue
    /\ damaged' = (damaged \/ queue = QueueSize)
    /\ UNCHANGED <<recordVars, serverVars, subscribed, trigger, stopping, closed, source, pipelineVars, clientVars>>
TunerEnds ==
    /\ subscribed /\ ~closed /\ closed' = TRUE
    /\ UNCHANGED <<recordVars, serverVars, subscribed, trigger, stopping, queue, sent, source, pipelineVars, clientVars, damaged>>
StopStreaming ==
    /\ stopping /\ stopping' = FALSE
    /\ subscribed' = FALSE /\ closed' = TRUE
    /\ UNCHANGED <<recordVars, serverVars, trigger, queue, sent, source, pipelineVars, clientVars, damaged>>

(* The stop trigger is dropped with whatever holds it.                      *)
DropTrigger == trigger' = FALSE /\ stopping' = (stopping \/ trigger)

(***************************************************************************)
(* Handlers of the requests, up to streaming().                             *)
(***************************************************************************)
StartStreaming ==
    /\ phase = "new" /\ Live
    /\ \/ phase' = "started" /\ subscribed' = TRUE /\ trigger' = TRUE
       \/ phase' = "error" /\ UNCHANGED <<subscribed, trigger>>
    /\ UNCHANGED <<recordVars, req, length, stopping, queue, closed, sent, source, pipelineVars, clientVars, damaged>>

TheRecord == 1
Size == content[FileOf(TheRecord)]
HasContent == TheRecord \in DOMAIN file /\ HasFile(TheRecord) /\ Size > 0
Incomplete == file[TheRecord].status = "Recording"
(* compute_content_range on a range the headers have normalised: <<>> when  *)
(* there is none, it is ignored, or it covers a content of known size.      *)
ComputeContentRange ==
    IF req.range = <<>> \/ ~req.seekable \/ (~Incomplete /\ req.range = <<0, Size - 1>>)
    THEN <<>> ELSE req.range
Satisfiable ==
    req.range # <<>> => req.range[1] <= req.range[2] /\ req.range[2] < Size
Bytes(range) == range[2] - range[1] + 1
(* compute_content_length, which build_headers leaves out if not seekable.  *)
ComputeContentLength(range) ==
    IF range # <<>> THEN Bytes(range) ELSE IF Incomplete THEN NoLength ELSE Size

QueryRecord ==
    /\ phase = "new" /\ ~Live /\ Serving /\ TheRecord \in DOMAIN file
    /\ IF HasContent /\ Satisfiable
       THEN LET range == ComputeContentRange
            IN  /\ phase' = "queried"
                /\ length' = IF req.seekable THEN ComputeContentLength(range) ELSE NoLength
                /\ source' = [source EXCEPT !.ranged = range # <<>>,
                                            !.pos = IF range = <<>> THEN 0 ELSE range[1],
                                            !.end = IF range = <<>> THEN MaxUnits ELSE range[2] + 1]
       ELSE phase' = "error" /\ UNCHANGED <<length, source>>
    /\ UNCHANGED <<recordVars, req, tunerVars, pipelineVars, clientVars, damaged>>

(* open_content: a request without a range follows a recording of this      *)
(* process.  The file that is opened may be another than the one asked for, *)
(* and a recording may truncate it.                                         *)
OpenContent ==
    /\ phase = "queried" /\ Serving
    /\ phase' = IF HasContent THEN "started" ELSE "error"
    /\ source' = [source EXCEPT !.file = IF HasContent THEN FileOf(TheRecord) ELSE None,
                                !.follow = HasContent /\ ~source.ranged /\ recorder = TheRecord]
    /\ UNCHANGED <<recordVars, req, length, tunerVars, pipelineVars, clientVars, damaged>>

(* An error, or the client disconnects: the future of the handler or the    *)
(* body is dropped, and with it the receiver and the stop trigger.          *)
Fail(how) == phase' = how /\ DropTrigger
Refused ==
    /\ phase = "started" /\ Fail("error")
    /\ UNCHANGED <<recordVars, req, length, subscribed, queue, closed, sent, source, pipelineVars, clientVars, damaged>>
(* build_filters does not know a filter.                                    *)
CannotFilter == Refused
(* A command cannot be parsed or spawned: the pipeline with the processes   *)
(* before it is dropped.                                                    *)
CannotSpawn == Filtered /\ Refused
Processes == [i \in Filters |-> "run"]
Spawn ==
    /\ phase = "started" /\ phase' = "peeking"
    /\ IF Filtered THEN feeder' = "run" /\ reader' = "run" /\ proc' = Processes
       ELSE UNCHANGED <<feeder, reader, proc>>
    /\ UNCHANGED <<recordVars, req, length, tunerVars, source, pipe, clientVars, damaged>>

(***************************************************************************)
(* The source, which the feeder polls or, without filters, the body.        *)
(***************************************************************************)
Open == phase \in {"peeking", "streaming"}
Polled == IF Filtered THEN feeder = "run" /\ pipe[1] < PipeSize /\ proc[1] = "run"
          ELSE Open /\ chan = 0 /\ ~ended
Yield == IF Filtered THEN pipe' = [pipe EXCEPT ![1] = @ + 1] /\ UNCHANGED <<feeder, chan, ended>>
         ELSE chan' = chan + 1 /\ UNCHANGED <<feeder, pipe, ended>>
(* pipe() shuts its writer down at the end.                                 *)
EndOfSource == IF Filtered THEN feeder' = "done" /\ UNCHANGED <<pipe, chan, ended>>
               ELSE ended' = TRUE /\ UNCHANGED <<feeder, pipe, chan>>

PollLive ==
    /\ Live /\ Polled /\ (queue > 0 \/ closed)
    /\ IF queue > 0 THEN queue' = queue - 1 /\ Yield ELSE EndOfSource /\ UNCHANGED queue
    /\ UNCHANGED <<recordVars, serverVars, subscribed, trigger, stopping, closed, sent, source, reader, proc, got, damaged>>

(* content_stream: the flag is read before the file.                        *)
ReadFlag ==
    /\ ~Live /\ Polled /\ source.step = "flag"
    /\ source' = [source EXCEPT !.step = "read", !.done = source.follow => TheRecord \in flushed]
    /\ news' = IF source.follow THEN news \ {TheRecord} ELSE news
    /\ UNCHANGED <<managerVars, writer, content, fileSystem, flushed, fileVars, sumVars, checking, crashed, faults>>
    /\ UNCHANGED <<serverVars, tunerVars, pipelineVars, clientVars, damaged>>
AtEnd == source.pos >= content[holds[source.file]] \/ source.pos >= source.end
ReadFile ==
    /\ ~Live /\ Polled /\ source.step = "read"
    /\ IF ~AtEnd THEN source' = [source EXCEPT !.pos = @ + 1, !.step = "flag"] /\ Yield
       ELSE IF source.done THEN source' = [source EXCEPT !.step = "end"] /\ EndOfSource
       ELSE source' = [source EXCEPT !.step = "wait"] /\ UNCHANGED <<feeder, pipe, chan, ended>>
    /\ UNCHANGED <<recordVars, serverVars, tunerVars, reader, proc, got, damaged>>
(* changed() fails once the sender is gone; then what is on disk is read.   *)
Changed ==
    /\ ~Live /\ Polled /\ source.step = "wait" /\ (TheRecord \in news \/ ~Writes(TheRecord))
    /\ source' = [source EXCEPT !.step = "flag", !.follow = TheRecord \in news]
    /\ UNCHANGED <<recordVars, serverVars, tunerVars, pipelineVars, clientVars, damaged>>

(***************************************************************************)
(* CommandPipeline, the tasks and the processes.                            *)
(***************************************************************************)
Alive(i) == i \in Filters /\ proc[i] = "run"
WriteEndOpen(i) == IF i = 1 THEN feeder = "run" ELSE proc[i - 1] = "run"
ReadEndOpen(i) == IF i = LastPipe THEN reader = "run" ELSE proc[i] = "run"
Exit(i) == proc' = [proc EXCEPT ![i] = "dead"]

FilterUnit(i) ==
    /\ Alive(i) /\ pipe[i] > 0 /\ ReadEndOpen(i + 1) /\ pipe[i + 1] < PipeSize
    /\ pipe' = [pipe EXCEPT ![i] = @ - 1, ![i + 1] = @ + 1]
    /\ UNCHANGED <<recordVars, serverVars, tunerVars, source, feeder, reader, proc, clientVars, damaged>>
(* End of its input, or a broken pipe.                                      *)
FilterExits(i) ==
    /\ Alive(i) /\ ((pipe[i] = 0 /\ ~WriteEndOpen(i)) \/ ~ReadEndOpen(i + 1))
    /\ Exit(i)
    /\ UNCHANGED <<recordVars, serverVars, tunerVars, source, feeder, reader, pipe, clientVars, damaged>>
FilterDies(i) ==
    /\ Alive(i) /\ Fault /\ Exit(i) /\ damaged' = TRUE
    /\ UNCHANGED <<managerVars, contentVars, fileVars, sumVars, checking, crashed>>
    /\ UNCHANGED <<serverVars, tunerVars, source, feeder, reader, pipe, clientVars>>

(* pipe(): the write to a dead process, or after the kill, fails.           *)
FeederBreaks ==
    /\ Filtered /\ feeder = "run" /\ proc[1] = "dead"
    /\ feeder' = "done"
    /\ UNCHANGED <<recordVars, serverVars, tunerVars, source, reader, pipe, proc, clientVars, damaged>>

Kill == proc' = [i \in Filters |-> "dead"]
(* The task that buffers the output for the client: it notices that the     *)
(* client is gone when it sends, and drops the pipeline when it ends.       *)
ReadOutput ==
    /\ Filtered /\ reader = "run" /\ pipe[LastPipe] > 0
    /\ \/ /\ Open /\ chan < MaxChunks /\ chan' = chan + 1
          /\ pipe' = [pipe EXCEPT ![LastPipe] = @ - 1]
          /\ UNCHANGED <<reader, proc, ended>>
       \/ /\ ~Open /\ reader' = "done" /\ ended' = TRUE /\ Kill
          /\ UNCHANGED <<pipe, chan>>
    /\ UNCHANGED <<recordVars, serverVars, tunerVars, source, feeder, got, damaged>>
EndOfPipeline ==
    /\ Filtered /\ reader = "run" /\ pipe[LastPipe] = 0 /\ ~WriteEndOpen(LastPipe)
    /\ reader' = "done" /\ ended' = TRUE /\ Kill
    /\ UNCHANGED <<recordVars, serverVars, tunerVars, source, feeder, pipe, chan, got, damaged>>

(***************************************************************************)
(* do_streaming and the client.                                             *)
(***************************************************************************)
(* Nothing is answered before the first packet.                             *)
Peek ==
    /\ phase = "peeking" /\ chan > 0 /\ phase' = "streaming"
    /\ UNCHANGED <<recordVars, req, length, tunerVars, source, pipelineVars, clientVars, damaged>>
NoPacket ==
    /\ phase = "peeking" /\ chan = 0 /\ Fail("error")   \* ended, or the time limit
    /\ UNCHANGED <<recordVars, req, length, subscribed, queue, closed, sent, source, pipelineVars, clientVars, damaged>>
ClientReads ==
    /\ phase = "streaming" /\ chan > 0
    /\ chan' = chan - 1 /\ got' = got + 1
    /\ UNCHANGED <<recordVars, serverVars, tunerVars, source, pipelineVars, ended, damaged>>
ClientSeesEnd ==
    /\ phase = "streaming" /\ chan = 0 /\ ended /\ Fail("ended")
    /\ UNCHANGED <<recordVars, req, length, subscribed, queue, closed, sent, source, pipelineVars, clientVars, damaged>>
(* Fault: the trigger is kept by a task that waits for the next unit.       *)
ClientLeavesTrigger ==
    /\ phase \in {"queried", "started", "peeking", "streaming"} /\ phase' = "gone"
    /\ UNCHANGED <<recordVars, req, length, tunerVars, source, pipelineVars, clientVars, damaged>>
ClientLeaves ==
    /\ phase \in {"queried", "started", "peeking", "streaming"} /\ Fail("gone")
    /\ UNCHANGED <<recordVars, req, length, subscribed, queue, closed, sent, source, pipelineVars, clientVars, damaged>>
(* The whole server dies with its requests and starts again.                *)
Restart ==
    /\ ~Live /\ Crash /\ phase' = "gone" /\ NoPipeline
    /\ UNCHANGED <<req, length, tunerVars, source, clientVars, damaged>>

Init ==
    /\ RecordsInit
    /\ req \in Requests /\ phase = "new" /\ length = NoLength
    /\ subscribed = FALSE /\ trigger = FALSE /\ stopping = FALSE
    /\ queue = 0 /\ closed = FALSE /\ sent = 0
    /\ source = [file |-> None, ranged |-> FALSE, pos |-> 0, end |-> 0, follow |-> FALSE,
                 step |-> "flag", done |-> FALSE]
    /\ feeder = "done" /\ reader = "done"
    /\ proc = [i \in Filters |-> "dead"] /\ pipe = [i \in 1..LastPipe |-> 0]
    /\ chan = 0 /\ ended = FALSE /\ got = 0 /\ damaged = FALSE

HandlerStep == StartStreaming \/ QueryRecord \/ OpenContent \/ Spawn
SourceStep == PollLive \/ ReadFlag \/ ReadFile \/ Changed
ProcessStep == \E i \in Filters : FilterUnit(i) \/ FilterExits(i)
TaskStep == FeederBreaks \/ ReadOutput \/ EndOfPipeline
ClientStep == Peek \/ ClientReads \/ ClientSeesEnd
Next ==
    \/ ~Live /\ RecordsStep /\ UNCHANGED webVars
    \/ TunerOutput \/ TunerEnds \/ StopStreaming
    \/ HandlerStep \/ CannotFilter \/ CannotSpawn \/ SourceStep \/ TaskStep \/ ProcessStep
    \/ \E i \in Filters : FilterDies(i)
    \/ ClientStep \/ NoPacket \/ ClientLeaves \/ Restart

(* Tasks run, actors handle their messages, a filter exits at the end of    *)
(* its input, and a recording ends.                                         *)
Fairness ==
    /\ WF_vars(StopStreaming) /\ WF_vars(SourceStep) /\ WF_vars(TaskStep)
    /\ WF_vars(\E i \in Filters : FilterUnit(i)) /\ WF_vars(\E i \in Filters : FilterExits(i))
    /\ WF_vars((CreateContent \/ EndOfOutput) /\ UNCHANGED webVars)
    /\ WF_vars((RecorderRemoved \/ \E status \in {"Finished", "Failed"} : RecordingStopped(status))
               /\ UNCHANGED webVars)
    /\ WF_vars(CalculatorStep /\ UNCHANGED webVars)
    /\ WF_vars((ContentSha256Calculated \/ \E r \in Records : CheckRecord(r)) /\ UNCHANGED webVars)
Spec == Init /\ [][Next]_vars /\ Fairness

(***************************************************************************)
(* Properties.                                                              *)
(***************************************************************************)
(* A stream that ends normally was complete: the client has every unit the  *)
(* tuner sent, or the whole content of a recording that is over, whether it *)
(* followed the recording or not, unless something was dropped or died or   *)
(* another record has the same content path; and it has exactly the         *)
(* announced number of units.                                               *)
EndMeansComplete ==
    phase = "ended" /\ ~damaged =>
        /\ Live => got = sent
        /\ ~Live /\ Alone(TheRecord) =>
              /\ ~source.ranged => got = content[TheRecord] /\ ~Writes(TheRecord)
              /\ length # NoLength => got = length

(* A follower does not sleep on data: when the writer waits for input, a    *)
(* follower that waits has read the whole file or has been woken.           *)
NoWakeUpIsLost ==
    (source.step = "wait" /\ Writes(TheRecord) /\ writer.idle /\ source.pos < content[TheRecord])
        => TheRecord \in news

(* After a stream ended, failed or its client left, every process and task  *)
(* of it ends and the tuner is free, also if the tuner sends nothing more.  *)
NothingOutlivesTheStream ==
    (phase \in {"ended", "error", "gone"})
        ~> (~subscribed /\ feeder = "done" /\ reader = "done" /\ \A i \in Filters : proc[i] = "dead")
=============================================================================
