------------------------------ MODULE Records ------------------------------
(* The records and contents of one recorded program: the task that writes   *)
(* the output of the recording pipeline to the content file, the handlers   *)
(* of RecordingManager that read and write record files, and the            *)
(* Sha256Calculator.  A schedule names the content path or leaves it to the *)
(* record id, so that a record may get the path of an earlier one.          *)
(* Contents are counted in units; the checksum of a content is its number   *)
(* of units.                                                                *)
EXTENDS Integers, Sequences, FiniteSets

CONSTANTS Records,     \* record ids in the order of their start times, 1..n
          MailSize,    \* capacity of an actor's mailbox
          MaxUnits,    \* units of a content
          MaxFaults    \* disk and process failures

ASSUME RecordsAssumption ==
    /\ IsFiniteSet(Records) /\ Records = 1..Cardinality(Records)
    /\ {MailSize, MaxUnits, MaxFaults} \subseteq Nat

VARIABLES
    recorder, booked,  \* record of the program's recorder, its schedule exists
    updating,          \* status that handle_recording_stopped is about to save, or "no"
    writer,            \* write_content: record, phase, units not on disk yet, and
                       \* whether it waits for input
    content,           \* units each recording wrote
    path,              \* content path of each record, named by the first with that path
    stored,            \* records whose content is under their path
    holds,             \* record whose units are in the file that a record wrote: the
                       \* record itself, or a later one that truncated the file
    flushed, news,     \* progress channels: those that are `true`, those with a change
    file,              \* record files
    asked, sum, mail,  \* calculator's mailbox and result, manager's mailbox
    checking,          \* records check_records has not seen yet
    removed, unsaved,  \* history: records removed, records with a failed save
    crashed,           \* history: records that were being made in a crash
    faults

managerVars == <<recorder, booked, updating>>
fileSystem == <<path, stored, holds>>
contentVars == <<writer, content, fileSystem, flushed, news>>
fileVars == <<file, removed, unsaved>>
sumVars == <<asked, sum, mail>>
recordVars == <<managerVars, contentVars, fileVars, sumVars, checking, crashed, faults>>

None == 0
NoSum == -1
Fault == faults < MaxFaults /\ faults' = faults + 1
Record(status, sha256) == [status |-> status, sha256 |-> sha256]

(* save_json replaces the whole file or leaves it as it was.                *)
Save(r, record) ==
    \/ /\ file' = [s \in DOMAIN file \cup {r} |-> IF s = r THEN record ELSE file[s]]
       /\ UNCHANGED <<unsaved, faults>>
    \/ Fault /\ unsaved' = unsaved \union {r} /\ UNCHANGED file

(* The manager handles messages once `started` has returned, and none while *)
(* a handler waits for room in the calculator's mailbox.                    *)
Serving == checking = {} /\ updating = "no"
HasFile(r) == \E s \in stored : path[s] = path[r]
FileOf(r) == CHOOSE s \in stored : path[s] = path[r]
(* No other record has the content path of this one.                        *)
Alone(r) == \A s \in Records \ {r} : path[s] # path[r]
Writes(r) == writer.record = r /\ writer.phase \in {"create", "copy"}

(***************************************************************************)
(* Writing the content.                                                     *)
(***************************************************************************)
(* do_start_recording, after the pipeline was spawned.                      *)
StartRecording(r) ==
    /\ Serving /\ recorder = None /\ r \notin DOMAIN file \union removed \union unsaved \union crashed
    /\ \A s \in Records : s < r => s \in DOMAIN file \union removed \union unsaved \union crashed
    /\ recorder' = r /\ booked' = TRUE
    /\ \E p \in {r} \union {path[s] : s \in {t \in Records : t < r}} : path' = [path EXCEPT ![r] = p]
    /\ writer' = [record |-> r, phase |-> "create", held |-> 0, idle |-> FALSE]
    /\ Save(r, Record("Recording", NoSum))
    /\ UNCHANGED <<updating, content, stored, holds, flushed, news, removed, sumVars, checking, crashed>>

(* File::create truncates a file that is there.                             *)
CreateContent ==
    /\ writer.phase = "create"
    /\ writer' = [writer EXCEPT !.phase = "copy"]
    /\ LET old == {s \in stored : path[s] = path[writer.record]}
       IN  /\ stored' = (stored \ old) \union {writer.record}
           /\ holds' = [r \in Records |-> IF holds[r] \in old THEN writer.record ELSE holds[r]]
    /\ UNCHANGED <<managerVars, content, path, flushed, news, fileVars, sumVars, checking, crashed, faults>>

(* ProgressWriter::poll_write: the followers are woken although the data    *)
(* may still be on its way to the file.                                     *)
Copying == writer.phase = "copy"
Notify == news' = news \union {writer.record}
WriteUnit ==
    /\ Copying /\ content[writer.record] + writer.held < MaxUnits
    /\ writer' = [writer EXCEPT !.held = @ + 1, !.idle = FALSE]
    /\ Notify
    /\ UNCHANGED <<managerVars, content, fileSystem, flushed, fileVars, sumVars, checking, crashed, faults>>
(* The blocking thread of tokio::fs::File: data reaches the file.           *)
LandUnit ==
    /\ Copying /\ writer.held > 0
    /\ writer' = [writer EXCEPT !.held = @ - 1]
    /\ content' = [content EXCEPT ![writer.record] = @ + 1]
    /\ UNCHANGED <<managerVars, fileSystem, flushed, news, fileVars, sumVars, checking, crashed, faults>>

Flushed ==
    /\ ~writer.idle /\ writer' = [writer EXCEPT !.held = 0, !.idle = TRUE]
    /\ content' = [content EXCEPT ![writer.record] = @ + writer.held]
(* copy() flushes whenever the input has nothing to read.                   *)
(* Fault: only writes notify, as with tokio_util::io::InspectWriter.        *)
FlushQuietly ==
    /\ Copying /\ Flushed
    /\ UNCHANGED <<managerVars, fileSystem, flushed, news, fileVars, sumVars, checking, crashed, faults>>
Flush ==
    /\ Copying /\ Flushed /\ Notify
    /\ UNCHANGED <<managerVars, fileSystem, flushed, fileVars, sumVars, checking, crashed, faults>>

(* End of the output: copy() has flushed, `progress` becomes true.          *)
(* Fault: `true` is sent when the output ends, before the last flush.       *)
EndOfOutputEarly ==
    /\ Copying /\ writer.record \notin flushed /\ flushed' = flushed \union {writer.record} /\ Notify
    /\ writer' = [writer EXCEPT !.phase = IF writer.held = 0 THEN "ended" ELSE "copy"]
    /\ UNCHANGED <<managerVars, content, fileSystem, fileVars, sumVars, checking, crashed, faults>>
EndOfOutput ==
    /\ Copying /\ Notify
    /\ writer' = [writer EXCEPT !.held = 0, !.idle = FALSE, !.phase = "ended"]
    /\ content' = [content EXCEPT ![writer.record] = @ + writer.held]
    /\ flushed' = flushed \union {writer.record}
    /\ UNCHANGED <<managerVars, fileSystem, fileVars, sumVars, checking, crashed, faults>>
(* File::create or a write fails: `progress` is dropped.                    *)
WriteFails ==
    /\ writer.phase \in {"create", "copy"} /\ Fault
    /\ writer' = [writer EXCEPT !.held = 0, !.idle = FALSE, !.phase = "ended"]
    /\ UNCHANGED <<managerVars, content, fileSystem, flushed, news, fileVars, sumVars, checking, crashed>>

(* The schedule is removed while it is recorded.                            *)
RemoveSchedule ==
    /\ Serving /\ recorder # None /\ booked /\ booked' = FALSE
    /\ UNCHANGED <<recorder, updating, contentVars, fileVars, sumVars, checking, crashed, faults>>

(***************************************************************************)
(* RecordingStopped and update_record.                                      *)
(***************************************************************************)
CalculateSha256(r) == Len(asked) < MailSize /\ asked' = Append(asked, r)
IsDone(record) == record.status \in {"Finished", "Failed"}

(* A record that cannot be loaded is made anew, as one that is recording.   *)
Updated(r, status) ==
    IF r \in DOMAIN file
    THEN [file[r] EXCEPT !.status = IF booked THEN status ELSE "Canceled"]
    ELSE Record("Recording", NoSum)
(* Fault: nothing is updated once the schedule is gone.                     *)
UpdateRecordOfSchedule(r, status) ==
    IF ~booked
    THEN UNCHANGED <<fileVars, asked, faults>>
    ELSE /\ IF IsDone(Updated(r, status)) THEN CalculateSha256(r) ELSE UNCHANGED asked
         /\ Save(r, Updated(r, status)) /\ UNCHANGED removed
UpdateRecord(r, status) ==
    IF r \notin DOMAIN file /\ ~booked
    THEN UNCHANGED <<fileVars, asked, faults>>
    ELSE /\ IF IsDone(Updated(r, status)) THEN CalculateSha256(r) ELSE UNCHANGED asked
         /\ Save(r, Updated(r, status)) /\ UNCHANGED removed

(* The exit codes of the pipeline tell whether it finished.                 *)
RecordingStopped(status) ==
    /\ Serving /\ recorder # None /\ writer.record = recorder /\ writer.phase = "ended"
    /\ updating' = status
    /\ UNCHANGED <<recorder, booked, contentVars, fileVars, sumVars, checking, crashed, faults>>
(* The rest of the handler, which may have to wait for the calculator.      *)
RecorderRemoved ==
    /\ updating # "no" /\ updating' = "no"
    /\ UpdateRecord(recorder, updating)
    /\ recorder' = None
    /\ UNCHANGED <<booked, contentVars, sum, mail, checking, crashed>>

(***************************************************************************)
(* Sha256Calculator.                                                        *)
(***************************************************************************)
(* The file under the content path is read to its end; a missing one is     *)
(* only logged.                                                             *)
Calculate ==
    /\ asked # <<>> /\ sum = <<>>
    /\ asked' = Tail(asked)
    /\ sum' = IF HasFile(Head(asked))
              THEN <<[record |-> Head(asked), sha256 |-> content[FileOf(Head(asked))]]>>
              ELSE <<>>
    /\ UNCHANGED <<managerVars, contentVars, fileVars, mail, checking, crashed, faults>>
EmitSha256 ==
    /\ sum # <<>> /\ Len(mail) < MailSize
    /\ mail' = mail \o sum /\ sum' = <<>>
    /\ UNCHANGED <<managerVars, contentVars, fileVars, asked, checking, crashed, faults>>

(* Fault: the record is made from the message, whether its file exists.     *)
ContentSha256CalculatedAnyway ==
    /\ Serving /\ mail # <<>> /\ mail' = Tail(mail)
    /\ Save(Head(mail).record, Record("Finished", Head(mail).sha256))
    /\ UNCHANGED <<managerVars, contentVars, removed, asked, sum, checking, crashed>>
ContentSha256Calculated ==
    /\ Serving /\ mail # <<>> /\ mail' = Tail(mail)
    /\ LET r == Head(mail).record
       IN  IF r \in DOMAIN file
           THEN Save(r, [file[r] EXCEPT !.sha256 = Head(mail).sha256])
           ELSE UNCHANGED <<file, unsaved, faults>>
    /\ UNCHANGED <<managerVars, contentVars, removed, asked, sum, checking, crashed>>

(***************************************************************************)
(* RemoveRecord, and a restart.                                             *)
(***************************************************************************)
RemoveRecord(r, purge) ==
    /\ Serving /\ r \in DOMAIN file /\ file[r].status # "Recording"
    /\ stored' = IF purge THEN {s \in stored : path[s] # path[r]} ELSE stored
    /\ file' = [s \in DOMAIN file \ {r} |-> file[s]]
    /\ removed' = removed \union {r}
    /\ UNCHANGED <<managerVars, writer, content, path, holds, flushed, news, unsaved, sumVars, checking, crashed, faults>>

NoWriter == [record |-> None, phase |-> "ended", held |-> 0, idle |-> FALSE]
(* The process dies and is started again; tasks and messages are lost.      *)
Crash ==
    /\ Fault
    /\ crashed' = crashed \union ({recorder} \ {None})
    /\ recorder' = None /\ booked' = FALSE /\ updating' = "no" /\ writer' = NoWriter
    /\ asked' = <<>> /\ sum' = <<>> /\ mail' = <<>>
    /\ checking' = DOMAIN file
    /\ UNCHANGED <<content, fileSystem, flushed, news, fileVars>>
(* Fault: a restart does not ask for the checksums that were lost.          *)
CheckRecordOnly(r) ==
    /\ r \in checking /\ checking' = checking \ {r}
    /\ UNCHANGED <<managerVars, contentVars, fileVars, sumVars, crashed, faults>>
CheckRecord(r) ==
    /\ r \in checking /\ checking' = checking \ {r}
    /\ IF file[r].sha256 = NoSum /\ HasFile(r) THEN CalculateSha256(r) ELSE UNCHANGED asked
    /\ UNCHANGED <<managerVars, contentVars, fileVars, sum, mail, crashed, faults>>

RecordsInit ==
    /\ recorder = None /\ booked = FALSE /\ updating = "no" /\ writer = NoWriter
    /\ content = [r \in Records |-> 0] /\ stored = {} /\ path = [r \in Records |-> r] /\ holds = path
    /\ flushed = {} /\ news = {}
    /\ file = <<>> /\ asked = <<>> /\ sum = <<>> /\ mail = <<>>
    /\ checking = {} /\ removed = {} /\ unsaved = {} /\ crashed = {} /\ faults = 0

WriterStep == CreateContent \/ WriteUnit \/ LandUnit \/ Flush \/ EndOfOutput \/ WriteFails
CalculatorStep == Calculate \/ EmitSha256
ManagerStep ==
    \/ \E r \in Records : StartRecording(r) \/ CheckRecord(r)
    \/ \E r \in Records, purge \in BOOLEAN : RemoveRecord(r, purge)
    \/ \E status \in {"Finished", "Failed"} : RecordingStopped(status)
    \/ RecorderRemoved \/ RemoveSchedule \/ ContentSha256Calculated
RecordsStep == WriterStep \/ CalculatorStep \/ ManagerStep

(***************************************************************************)
(* Properties.                                                              *)
(***************************************************************************)
RecordsTypeOK ==
    /\ recorder \in Records \union {None} /\ booked \in BOOLEAN
    /\ updating \in {"no", "Finished", "Failed"}
    /\ writer \in [record : Records \union {None}, phase : {"create", "copy", "ended"},
                   held : Nat, idle : BOOLEAN]
    /\ content \in [Records -> Nat] /\ stored \subseteq Records
    /\ path \in [Records -> Records] /\ holds \in [Records -> Records]
    /\ flushed \subseteq Records /\ news \subseteq Records
    /\ DOMAIN file \subseteq Records
    /\ \A r \in DOMAIN file :
          file[r] \in [status : {"Recording", "Finished", "Failed", "Canceled"}, sha256 : Int]
    /\ asked \in Seq(Records) /\ checking \subseteq Records
    /\ sum \in Seq([record : Records, sha256 : Nat])
    /\ mail \in Seq([record : Records, sha256 : Nat])

(* A record says that it is being recorded exactly while its recorder       *)
(* exists, unless a file could not be saved or the process died: no record  *)
(* is left that remove_record refuses for ever.                             *)
RecordingRecordsHaveRecorders ==
    \A r \in DOMAIN file : r \notin unsaved \union crashed =>
        (file[r].status = "Recording" <=> recorder = r)

(* Whatever the order of the calculator's results, removals and restarts, a *)
(* checksum in a record whose content is under its path is that of its      *)
(* whole content, also if earlier or later records share or shared the      *)
(* path; and a result that arrives after its record was removed does not    *)
(* bring the record back.                                                   *)
ChecksumsAreOfTheContent ==
    \A r \in DOMAIN file :
        /\ r \notin removed
        /\ file[r].sha256 # NoSum /\ r \in stored => file[r].sha256 = content[r] /\ ~Writes(r)
(* Known departure: a record whose file was overwritten keeps the checksum  *)
(* of what was there.                                                       *)
ChecksumsAreOfTheFile ==
    \A r \in DOMAIN file :
        file[r].sha256 # NoSum /\ HasFile(r) => file[r].sha256 = content[FileOf(r)]

(* Every record that is complete gets its checksum, also after a restart,   *)
(* as long as it and its content are there.                                 *)
ChecksumsArrive ==
    \A r \in Records :
        (r \in DOMAIN file /\ r \in stored /\ r \notin unsaved /\ IsDone(file[r]) /\ file[r].sha256 = NoSum)
            ~> (r \notin DOMAIN file \cap stored \/ r \in unsaved \/ file[r].sha256 # NoSum)
=============================================================================
