------------------------------- MODULE Config -------------------------------
(* Loading the configuration: normalisation, validation, and what the tuner *)
(* manager and the timeshift recorders make of it at start.                 *)
(*                                                                          *)
(* Fields that only one check looks at are abstracted to the set of their   *)
(* checks that fail.  A tuner, tracker or recorder of the configuration is  *)
(* a record, in the order of the file.                                      *)
EXTENDS Integers, Sequences

CONSTANTS
    Inputs,          \* configurations as parsed
    UsizeMax,        \* 2^64 - 1
    BufSize          \* TimeshiftRecorderConfig::BUFSIZE

ASSUME UsizeAssumption == UsizeMax \in Nat

(* What the parser makes sure of.  The names of trackers and of recorders   *)
(* are the keys of maps, and their users are told apart by kind and name.   *)
ChannelTypes == {"GR", "BS", "CS", "SKY", "BS4K"}
ChannelConfig ==
    [name : STRING, type : ChannelTypes, channel : Nat, services : SUBSET Nat,
     excluded : SUBSET Nat, disabled : BOOLEAN, failing : SUBSET STRING]
TunerConfig ==
    [name : STRING, types : SUBSET ChannelTypes, disabled : BOOLEAN,
     excluded : SUBSET STRING, failing : SUBSET STRING]
JobConfig == [disabled : BOOLEAN, failing : SUBSET STRING]
TrackerConfig ==
    [kind : {"local", "remote"}, uses : STRING, id : STRING, failing : SUBSET STRING]
RecorderConfig ==
    [uses : STRING, type : ChannelTypes, channel : Nat, id : STRING, failing : SUBSET STRING,
     ring : [numChunks : Nat, numReserves : Nat, chunkSize : Nat]]
ParsedConfig ==
    [failing : SUBSET STRING, timeshift : SUBSET STRING, channels : Seq(ChannelConfig),
     tuners : Seq(TunerConfig), jobs : Seq(JobConfig), trackers : Seq(TrackerConfig),
     recorders : Seq(RecorderConfig)]
UsersDiffer(c) ==
    /\ \A i, j \in DOMAIN c.trackers : i # j => c.trackers[i].id # c.trackers[j].id
    /\ \A i \in DOMAIN c.trackers : c.trackers[i].id # "none"
    /\ \A i \in DOMAIN c.trackers, j \in DOMAIN c.recorders : c.trackers[i].id # c.recorders[j].id
ASSUME InputsAssumption == \A c \in Inputs : c \in ParsedConfig /\ UsersDiffer(c)

VARIABLES
    config,
    server,          \* load() or load_for_timeshift_fs()
    skip,            \* MIRAKC_CONFIG_SKIP_VALIDATION
    phase,           \* "parsed", "normalized", "loaded", "started" or "exit"
    tuners           \* TunerManager::tuners: [name, types, reserved, channel] by index

vars == <<config, server, skip, phase, tuners>>

Values(seq) == {seq[i] : i \in DOMAIN seq}
Enabled(seq) == {i \in DOMAIN seq : ~seq[i].disabled}
First(I) == CHOOSE i \in I : \A j \in I : i <= j

(***************************************************************************)
(* Normalisation.                                                           *)
(***************************************************************************)
(* ChannelConfig: no services stands for all of them.                       *)
SameChannel(a, b) == a.type = b.type /\ a.channel = b.channel
(* Fault: the union of the lists, whether or not one is empty.              *)
MergeUnion(a, b) ==
    [a EXCEPT !.services = a.services \union b.services,
              !.excluded = a.excluded \union b.excluded]
Merge(a, b) ==
    [a EXCEPT !.services = IF a.services = {} \/ b.services = {} THEN {}
                           ELSE a.services \union b.services,
              !.excluded = a.excluded \union b.excluded]
AddChannel(done, ch) ==
    LET same == {i \in DOMAIN done : SameChannel(done[i], ch)} IN
    IF same = {} THEN Append(done, ch)
    ELSE [i \in DOMAIN done |-> IF i \in same THEN Merge(done[i], ch) ELSE done[i]]
NormalizeChannels(channels) ==
    LET merged[n \in 0..Len(channels)] ==   \* of the first n channels
            IF n = 0 THEN <<>>
            ELSE IF channels[n].disabled THEN merged[n - 1]
            ELSE AddChannel(merged[n - 1], channels[n])
    IN  merged[Len(channels)]

(* JobsConfig: an empty command or schedule of an enabled job is replaced.  *)
NormalizeJob(job) == IF job.disabled THEN job ELSE [job EXCEPT !.failing = @ \ {"empty"}]
Normalize(c) ==
    [c EXCEPT !.channels = NormalizeChannels(@),
              !.jobs = [i \in DOMAIN @ |-> NormalizeJob(@[i])]]

(***************************************************************************)
(* Validation.  The checks of each part, and how they can fail.             *)
(***************************************************************************)
CommandChecks == {"words", "executable"}
EpgChecks == {"cache-dir"}
AddrChecks == {"socket-address"}
MountChecks == {"blocked", "slash", "path", "index"}
ServerChecks == {"stream-time-limit", "max-start-delay", "template"} \union AddrChecks \union MountChecks
ChannelChecks == {"name", "channel"}
ExcludedChecks == {"excluded-name", "excluded-channel"}
TunerChecks == {"name", "types", "empty"} \union CommandChecks \union ExcludedChecks
FilterChecks == {"filter-empty", "filter-command"}
PreFilterChecks == {"pre-filter-empty", "pre-filter-command"}
PostFilterChecks == {"post-filter-empty", "post-filter-command", "content-type"}
JobChecks == {"empty", "schedule"} \union CommandChecks
RecordingChecks == {"basedir", "records-dir"}
TimeshiftChecks == {"empty"} \union CommandChecks
UsesChecks == {"uses-tuner", "uses-channel"}
RecorderChecks == {"ts-file", "data-file", "size"} \union UsesChecks
TrackerChecks == {"channel-types", "empty", "uses-tuner"} \union CommandChecks
ResourceChecks == {"strings-yaml", "logos"}

(* The checks of the parts that no other part refers to.                    *)
Checks == EpgChecks \union ServerChecks \union FilterChecks \union PreFilterChecks
          \union PostFilterChecks \union RecordingChecks \union ResourceChecks

ValidTuner(t) == t.disabled \/ t.failing = {}
ValidJob(j) == j.disabled \/ j.failing = {}

(* An exclusion by name must not be ambiguous.                              *)
ValidExclusions(c) ==
    \A t \in Values(c.tuners) : \A i, j \in DOMAIN c.channels :
       c.channels[i].name \in t.excluded /\ c.channels[i].name = c.channels[j].name => i = j
UniqueTuners(c) ==
    \A i, j \in DOMAIN c.tuners : i # j => c.tuners[i].name # c.tuners[j].name
ValidForServer(c) ==
    /\ c.failing = {}
    /\ \A ch \in Values(c.channels) : ch.failing = {}
    /\ \A t \in Values(c.tuners) : ValidTuner(t)
    /\ ValidExclusions(c)
    /\ UniqueTuners(c)
    /\ \A j \in Values(c.jobs) : ValidJob(j)
    /\ \A t \in Values(c.trackers) : t.failing = {}

(* TimeshiftRecorderConfig::validate(); usize subtraction wraps in a        *)
(* release build.                                                           *)
SubUsize(a, b) == (a - b) % (UsizeMax + 1)
ValidRing(ring) ==
    /\ ring.chunkSize > 0 /\ ring.chunkSize % BufSize = 0
    /\ ring.numChunks > 2 /\ ring.numReserves > 0
    /\ SubUsize(ring.numChunks, ring.numReserves) > 1
ValidTimeshift(c) ==
    /\ server => c.timeshift = {}
    /\ \A r \in Values(c.recorders) : r.failing = {} /\ ValidRing(r.ring)

(* Config::validate(): a tuner serves one local tracker, or recorders.      *)
LocalTrackers(c) == {i \in DOMAIN c.trackers : c.trackers[i].kind = "local"}
TunersNamed(c, name) == {i \in Enabled(c.tuners) : c.tuners[i].name = name}
(* Fault: trackers and recorders are not compared.                          *)
TrackersAgreeOnly(c) ==
    \A i \in LocalTrackers(c) : TunersNamed(c, c.trackers[i].uses) # {}
TrackersAgree(c) ==
    \A i \in LocalTrackers(c) :
       /\ \A j \in LocalTrackers(c) : j < i => c.trackers[j].uses # c.trackers[i].uses
       /\ TunersNamed(c, c.trackers[i].uses) # {}
RecordersAgree(c) ==
    \A r \in Values(c.recorders) :
       /\ \A i \in LocalTrackers(c) : c.trackers[i].uses # r.uses
       /\ \E ch \in Values(c.channels) : SameChannel(ch, r)
       /\ TunersNamed(c, r.uses) # {}
       /\ r.type \in c.tuners[First(TunersNamed(c, r.uses))].types
IsValid(c) ==
    /\ server => ValidForServer(c)
    /\ ValidTimeshift(c)
    /\ TrackersAgree(c)
    /\ RecordersAgree(c)

(***************************************************************************)
(* Start.                                                                   *)
(***************************************************************************)
(* TunerManager::load_tuners(): a local tracker first, else a recorder.     *)
NoChannel == [type |-> "none", channel |-> 0]
Reserve(t, c) ==
    LET local == {i \in LocalTrackers(c) : c.trackers[i].uses = t.name}
        recs == {i \in DOMAIN c.recorders : c.recorders[i].uses = t.name}
        recorder == c.recorders[First(recs)]
        user == IF local # {} THEN c.trackers[First(local)].id
                ELSE IF recs # {} THEN recorder.id ELSE "none"
    IN  [name |-> t.name, types |-> t.types, reserved |-> user,
         channel |-> IF local = {} /\ recs # {}
                       THEN [type |-> recorder.type, channel |-> recorder.channel] ELSE NoChannel]
LoadTuners(c) == [i \in Enabled(c.tuners) |-> Reserve(c.tuners[i], c)]

LoadFile ==
    /\ phase = "parsed"
    /\ config' = Normalize(config)
    /\ phase' = "normalized"
    /\ UNCHANGED <<server, skip, tuners>>
Validate ==
    /\ phase = "normalized"
    /\ phase' = IF skip \/ IsValid(config) THEN "loaded" ELSE "exit"
    /\ UNCHANGED <<config, server, skip, tuners>>
Start ==
    /\ phase = "loaded" /\ server
    /\ tuners' = LoadTuners(config)
    /\ phase' = "started"
    /\ UNCHANGED <<config, server, skip>>

Parsed ==
    /\ server \in BOOLEAN /\ skip \in BOOLEAN
    /\ phase = "parsed" /\ tuners = <<>>
Init == config \in Inputs /\ Parsed
Next == LoadFile \/ Validate \/ Start
Spec == Init /\ [][Next]_vars

(***************************************************************************)
(* Properties.                                                              *)
(***************************************************************************)
(* Tuner::set_channel_user() asserts that the tuner is for the type of the  *)
(* channel: validation looks at the first enabled tuner of a name, the      *)
(* tuner manager at every enabled tuner.                                    *)
TunersLoad ==
    phase = "started" /\ ~skip =>
       \A t \in Values(tuners) : t.channel # NoChannel => t.channel.type \in t.types

(* A local tracker has exactly one tuner, which is reserved for it and for  *)
(* nothing else, and the tuner of a recorder is dedicated to a channel:     *)
(* what TunerManager assumes of Uses and Dedicated.                         *)
TrackersOwnATuner ==
    phase = "started" /\ ~skip =>
       /\ \A k \in LocalTrackers(config) : \E i \in DOMAIN tuners :
             /\ tuners[i].name = config.trackers[k].uses
             /\ \A j \in DOMAIN tuners : tuners[j].reserved = config.trackers[k].id <=> j = i
       /\ \A r \in Values(config.recorders) : \E t \in Values(tuners) :
             t.name = r.uses /\ t.channel # NoChannel

(* "The specified tuner will be dedicated for streaming for the specified   *)
(* channel" (docs/config.md, timeshift.recorders uses).                     *)
RecordersOwnATuner ==
    phase = "started" /\ ~skip =>
       \A r \in Values(config.recorders) : \E t \in Values(tuners) :
          t.name = r.uses /\ t.channel = [type |-> r.type, channel |-> r.channel]

(* TimeshiftRecorderConfig::max_chunks() asserts that a ring has more       *)
(* chunks than reserves, which validation should have made sure of.         *)
RingsAreUsable ==
    phase \in {"loaded", "started"} /\ ~skip =>
       \A r \in Values(config.recorders) : r.ring.numChunks > r.ring.numReserves

(* Merging definitions of one channel loses no service that a definition    *)
(* admits, but those another definition excludes, and admits no other; the  *)
(* merged channels are distinct, and merging them again changes nothing.    *)
Admits(ch, services) == (IF ch.services = {} THEN services ELSE ch.services) \ ch.excluded
ChannelsAreMerged(parsed, services) ==
    LET merged == NormalizeChannels(parsed)
        enabled == {parsed[i] : i \in Enabled(parsed)}
        of(ch) == {x \in enabled : SameChannel(x, ch)}
    IN  /\ \A x \in enabled : \E ch \in Values(merged) : SameChannel(x, ch)
        /\ \A ch \in Values(merged) : Admits(ch, services) =
              (UNION {Admits(x, services) : x \in of(ch)}) \ (UNION {x.excluded : x \in of(ch)})
        /\ NormalizeChannels(merged) = merged
MergingKeepsServices ==
    phase = "parsed" =>
       ChannelsAreMerged(config.channels,
          {-1} \union UNION {ch.services \union ch.excluded : ch \in Values(config.channels)})
=============================================================================
