------------------------------- MODULE Onair -------------------------------
(* The on-air program manager, its local, remote and temporal trackers and  *)
(* one subscriber of its notifications.                                     *)
(*                                                                          *)
(* The present program of a service is the number of its last change, which *)
(* is also the version of its EIT section (% VersionSize); the following    *)
(* program is handled alike.                                                *)
EXTENDS Integers, Sequences, SequencesExt

CONSTANTS
    Services,              \* all services
    Configs,               \* configurations: services of the channels, of the local and
                           \* of the remote tracker, and the streams of Web clients
    Streams, ServiceOf,    \* all streams and what they show
    Gaps,                  \* versions without a program
    VersionSize,           \* EIT version_number counts modulo this (32)
    MailSize, InboxSize,   \* capacity of mailboxes
    MaxVersion, MaxScans, MaxFaults   \* bounds

ASSUME StreamsAssumption == ServiceOf \in [Streams -> Services]
ASSUME ConfigsAssumption ==
    \A c \in Configs : /\ c.services \subseteq Services /\ c.streams \subseteq Streams
                       /\ c.local \subseteq Services /\ c.remote \subseteq Services
(* A temporal tracker is named by a dot and the id of its stream.           *)
ASSUME NamesAssumption == "local" \notin Streams
ASSUME BoundsAssumption == IsFiniteSet(Services) /\ MaxVersion \in Nat \ {0} /\ MailSize \in Nat

VARIABLES
    config,
    services, scans,       \* Epg: services known
    aired,                 \* version on air per service
    streams, opened,       \* streams that live, streams that were opened
    tracker,               \* trackers by name: the local one and one per stream
    temporal,              \* OnairProgramManager::temporal_services
    cache,                 \* OnairProgramManager::cache
    mail,                  \* mailbox of the manager
    sse, fetching,         \* the remote tracker's EventSource and service being fetched
    registered, inbox, view,   \* the subscriber
    missed, faults         \* services whose last change was lost; faults so far

airVars == <<config, services, scans, aired>>
streamVars == <<streams, opened>>
mgrVars == <<temporal, cache>>
remoteVars == <<sse, fetching>>
subVars == <<registered, inbox, view>>
vars == <<airVars, streamVars, tracker, mgrVars, mail, remoteVars, subVars, missed, faults>>

Local == config.local
Remote == config.remote
LOCAL0 == "local"
Names == {LOCAL0} \union Streams
None == 0
Program(s, v) == IF v = 0 \/ (s \notin Remote /\ v \in Gaps) THEN None ELSE v
Msg(kind, arg) == [kind |-> kind, arg |-> arg]
Post(m) == Len(mail) < MailSize /\ mail' = Append(mail, m)
Fault == faults < MaxFaults /\ faults' = faults + 1

(***************************************************************************)
(* The world: programs change, scans find services, clients come and go.    *)
(***************************************************************************)
(* Changes are counted over all services; a remote mirakc announces one to  *)
(* whoever is connected.                                                    *)
LastChange == Max({aired[s] : s \in Services})
Broadcast(s) ==
    /\ LastChange < MaxVersion
    /\ aired' = [aired EXCEPT ![s] = LastChange + 1]
    /\ sse' = IF s \in Remote /\ sse.open THEN [sse EXCEPT !.queue = Append(@, s)] ELSE sse
    /\ missed' = missed \ {s}
    /\ UNCHANGED <<config, services, scans, streamVars, tracker, mgrVars, mail, fetching, subVars, faults>>

Scan ==
    /\ scans < MaxScans /\ scans' = scans + 1
    /\ \E found \in SUBSET config.services :
          found # services /\ services' = found /\ Post(Msg("ServicesUpdated", found))
    /\ UNCHANGED <<config, aired, streamVars, tracker, mgrVars, remoteVars, subVars, missed, faults>>

OpenStream(t) ==
    /\ t \in config.streams \ opened /\ ServiceOf[t] \in services
    /\ opened' = opened \union {t} /\ streams' = streams \union {t}
    /\ Post(Msg("SpawnTemporalTracker", t))
    /\ UNCHANGED <<airVars, tracker, mgrVars, remoteVars, subVars, missed, faults>>
CloseStream(t) ==
    /\ t \in streams /\ streams' = streams \ {t}
    /\ UNCHANGED <<airVars, opened, tracker, mgrVars, mail, remoteVars, subVars, missed, faults>>

(***************************************************************************)
(* LocalTracker.                                                            *)
(***************************************************************************)
NewTracker(svcs) ==
    [on |-> "idle", svcs |-> svcs, todo |-> {}, out |-> {}, entries |-> [s \in svcs |-> -1]]
Matches(t) == services \intersect tracker[t].svcs

(* UpdateOnairPrograms, every minute: the services known now, one by one.   *)
Poll(t) ==
    /\ t \in DOMAIN tracker /\ tracker[t].on = "idle"
    /\ tracker' = [tracker EXCEPT ![t].on = "polling", ![t].todo = Matches(t)]
    /\ UNCHANGED <<airVars, streamVars, mgrVars, mail, remoteVars, subVars, missed, faults>>

Busy(t, s) == t \in DOMAIN tracker /\ tracker[t].on = "polling" /\ s \in tracker[t].todo
              /\ tracker[t].out = {}
Streamable(t) == t = LOCAL0 \/ t \in streams
IsUpdated(t, s) == tracker[t].entries[s] # aired[s] % VersionSize

(* The sections are read to the end; the pipeline ends before the manager   *)
(* is told.                                                                 *)
Track(t, s) ==
    /\ Busy(t, s) /\ Streamable(t)
    /\ tracker' = [tracker EXCEPT
          ![t].todo = @ \ {s},
          ![t].entries[s] = aired[s] % VersionSize,
          ![t].out = IF IsUpdated(t, s) THEN {[s |-> s, program |-> Program(s, aired[s])]} ELSE {}]
    /\ UNCHANGED <<airVars, streamVars, mgrVars, mail, remoteVars, subVars, missed, faults>>

(* A later line of the output is broken: the error is returned, the entry   *)
(* stays updated and nobody is told.                                        *)
BrokenLine(t, s) ==
    /\ Busy(t, s) /\ Streamable(t) /\ IsUpdated(t, s) /\ Fault
    /\ tracker' = [tracker EXCEPT ![t].todo = @ \ {s}, ![t].entries[s] = aired[s] % VersionSize]
    /\ missed' = missed \union {s}
    /\ UNCHANGED <<airVars, streamVars, mgrVars, mail, remoteVars, subVars>>

(* No tuner: a temporal tracker, whose stream is gone, stops.               *)
TunerUnavailable(t, s) ==
    /\ Busy(t, s)
    /\ IF t = LOCAL0
         THEN Fault /\ tracker' = [tracker EXCEPT ![t].todo = @ \ {s}]
         ELSE t \notin streams /\ faults' = faults
              /\ tracker' = [tracker EXCEPT ![t].on = "stopping", ![t].todo = {}]
    /\ UNCHANGED <<airVars, streamVars, mgrVars, mail, remoteVars, subVars, missed>>

EmitChanged(t) ==
    /\ t \in DOMAIN tracker
    /\ \E o \in tracker[t].out : Post(Msg("OnairProgramChanged", o))
    /\ tracker' = [tracker EXCEPT ![t].out = {}]
    /\ UNCHANGED <<airVars, streamVars, mgrVars, remoteVars, subVars, missed, faults>>

SetTimer(t) ==
    /\ t \in DOMAIN tracker /\ tracker[t].on = "polling"
    /\ tracker[t].todo = {} /\ tracker[t].out = {}
    /\ tracker' = [tracker EXCEPT ![t].on = "idle"]
    /\ UNCHANGED <<airVars, streamVars, mgrVars, mail, remoteVars, subVars, missed, faults>>

(* stopping(): the last message of a tracker.                               *)
Stopping(t) ==
    /\ t \in DOMAIN tracker /\ tracker[t].on = "stopping"
    /\ Post(Msg("TrackerStopped", t))
    /\ tracker' = [tracker EXCEPT ![t].on = "stopped"]
    /\ UNCHANGED <<airVars, streamVars, mgrVars, remoteVars, subVars, missed, faults>>

(***************************************************************************)
(* RemoteTracker.                                                           *)
(***************************************************************************)
(* A remote mirakc tells a new client what is on air.                       *)
OpenEventSource ==
    /\ Remote # {} /\ ~sse.open
    /\ sse' = [open |-> TRUE, queue |-> SetToSeq({s \in Remote : Program(s, aired[s]) # None})]
    /\ missed' = missed \ Remote
    /\ UNCHANGED <<airVars, streamVars, tracker, mgrVars, mail, fetching, subVars, faults>>
CloseEventSource ==
    /\ sse.open /\ fetching = {} /\ Fault
    /\ sse' = [open |-> FALSE, queue |-> <<>>]
    /\ UNCHANGED <<airVars, streamVars, tracker, mgrVars, mail, fetching, subVars, missed>>

(* An event names a service; one unknown to the EPG is skipped.             *)
ProcessEvent ==
    /\ fetching = {} /\ sse.queue # <<>>
    /\ sse' = [sse EXCEPT !.queue = Tail(@)]
    /\ LET s == Head(sse.queue) IN
       IF s \in services THEN fetching' = {s} /\ missed' = missed
       ELSE missed' = missed \union {s} /\ fetching' = fetching
    /\ UNCHANGED <<airVars, streamVars, tracker, mgrVars, mail, subVars, faults>>
FetchOnairProgram ==
    /\ \E s \in fetching :
          Post(Msg("OnairProgramChanged", [s |-> s, program |-> Program(s, aired[s])]))
    /\ fetching' = {}
    /\ UNCHANGED <<airVars, streamVars, tracker, mgrVars, sse, subVars, missed, faults>>
FetchFails ==
    /\ fetching # {} /\ Fault
    /\ missed' = missed \union fetching /\ fetching' = {}
    /\ UNCHANGED <<airVars, streamVars, tracker, mgrVars, mail, sse, subVars>>

(***************************************************************************)
(* OnairProgramManager.                                                     *)
(***************************************************************************)
Receive(kind) == mail # <<>> /\ Head(mail).kind = kind /\ mail' = Tail(mail)
Arg == Head(mail).arg
With(f, x, y) == [z \in DOMAIN f \union {x} |-> IF z = x THEN y ELSE f[z]]
Without(f, S) == [z \in DOMAIN f \ S |-> f[z]]

(* A service with a tracker of the configuration gets no temporal one.      *)
SpawnTemporalTracker ==
    /\ Receive("SpawnTemporalTracker")
    /\ LET s == ServiceOf[Arg] IN
       IF s \in Local \union Remote \/ Arg \in DOMAIN tracker THEN UNCHANGED <<tracker, temporal>>
       ELSE tracker' = With(tracker, Arg, NewTracker({s})) /\ temporal' = With(temporal, Arg, s)
    /\ UNCHANGED <<airVars, streamVars, cache, remoteVars, subVars, missed, faults>>

ServicesUpdated ==
    /\ Receive("ServicesUpdated")
    /\ cache' = Without(cache, Services \ Arg)
    /\ missed' = missed \union (DOMAIN cache \ Arg)
    /\ UNCHANGED <<airVars, streamVars, tracker, temporal, remoteVars, subVars, faults>>

(* Nothing on air leaves the program before in the cache; of two temporal   *)
(* trackers the one that read earlier may report later.                     *)
QueryOnairProgram(s) == IF s \in DOMAIN cache THEN cache[s] ELSE None
OnairProgramChanged ==
    /\ Receive("OnairProgramChanged")
    /\ cache' = IF Arg.program = None THEN cache ELSE With(cache, Arg.s, Arg.program)
    /\ IF registered THEN Len(inbox) < InboxSize /\ inbox' = Append(inbox, Arg) ELSE inbox' = inbox
    /\ missed' = IF None < Arg.program /\ Arg.program < QueryOnairProgram(Arg.s)
                   THEN missed \union {Arg.s} ELSE missed
    /\ UNCHANGED <<airVars, streamVars, tracker, temporal, remoteVars, registered, view, faults>>

(* The entry goes with the last temporal tracker of a service.              *)
(* Fault: it goes with the first.                                           *)
TrackerStoppedFirst ==
    /\ Receive("TrackerStopped")
    /\ tracker' = Without(tracker, {Arg}) /\ temporal' = Without(temporal, {Arg})
    /\ cache' = Without(cache, {temporal[Arg]})
    /\ UNCHANGED <<airVars, streamVars, remoteVars, subVars, missed, faults>>
TrackerStopped ==
    /\ Receive("TrackerStopped")
    /\ tracker' = Without(tracker, {Arg}) /\ temporal' = Without(temporal, {Arg})
    /\ cache' = IF \E t \in DOMAIN temporal' : temporal'[t] = temporal[Arg] THEN cache
                ELSE Without(cache, {temporal[Arg]})
    /\ UNCHANGED <<airVars, streamVars, remoteVars, subVars, missed, faults>>

(* RegisterEmitter and its post process, which tells what the cache holds.  *)
(* Fault: without the post process.                                         *)
RegisterEmitterOnly ==
    /\ ~registered /\ registered' = TRUE
    /\ UNCHANGED <<airVars, streamVars, tracker, mgrVars, mail, remoteVars, inbox, view, missed, faults>>
RegisterEmitter ==
    /\ ~registered /\ registered' = TRUE
    /\ LET held == SetToSeq(DOMAIN cache) IN
       inbox' = [i \in DOMAIN held |-> [s |-> held[i], program |-> cache[held[i]]]]
    /\ UNCHANGED <<airVars, streamVars, tracker, mgrVars, mail, remoteVars, view, missed, faults>>

(* The subscriber.                                                          *)
TakeNotice ==
    /\ inbox # <<>> /\ inbox' = Tail(inbox)
    /\ view' = IF Head(inbox).program = None THEN view
               ELSE [view EXCEPT ![Head(inbox).s] = Head(inbox).program]
    /\ UNCHANGED <<airVars, streamVars, tracker, mgrVars, mail, remoteVars, registered, missed, faults>>

(***************************************************************************)
(* Specification.                                                           *)
(***************************************************************************)
Init ==
    /\ config \in Configs
    /\ services = config.services /\ scans = 0 /\ aired = [s \in Services |-> 1]
    /\ streams = {} /\ opened = {}
    /\ tracker = [t \in {x \in {LOCAL0} : Local # {}} |-> NewTracker(Local)] /\ temporal = <<>> /\ cache = <<>>
    /\ mail = <<>> /\ sse = [open |-> FALSE, queue |-> <<>>] /\ fetching = {}
    /\ registered = FALSE /\ inbox = <<>> /\ view = [s \in Services |-> None]
    /\ missed = {} /\ faults = 0

Handle == \/ SpawnTemporalTracker \/ ServicesUpdated \/ OnairProgramChanged \/ TrackerStopped
TrackerStep(t) ==
    \/ Poll(t) \/ EmitChanged(t) \/ SetTimer(t) \/ Stopping(t)
    \/ \E s \in Services : Track(t, s) \/ BrokenLine(t, s) \/ TunerUnavailable(t, s)
RemoteStep == \/ OpenEventSource \/ ProcessEvent \/ FetchOnairProgram \/ FetchFails
World == \/ \E s \in config.services : Broadcast(s)
         \/ Scan \/ CloseEventSource \/ RegisterEmitter
         \/ \E t \in Streams : OpenStream(t) \/ CloseStream(t)
Next == Handle \/ (\E t \in Names : TrackerStep(t)) \/ RemoteStep \/ TakeNotice \/ World
Fairness ==
    /\ WF_vars(Handle) /\ WF_vars(RemoteStep) /\ WF_vars(TakeNotice)
    /\ \A t \in Names : WF_vars(TrackerStep(t))
Spec == Init /\ [][Next]_vars /\ Fairness

(***************************************************************************)
(* Properties.                                                              *)
(***************************************************************************)
Notices == [s : Services, program : 0..MaxVersion]
Messages == [kind : {"ServicesUpdated"}, arg : SUBSET Services]
            \union [kind : {"SpawnTemporalTracker"}, arg : Streams]
            \union [kind : {"TrackerStopped"}, arg : Streams]
            \union [kind : {"OnairProgramChanged"}, arg : Notices]
TypeOK ==
    /\ services \subseteq Services /\ aired \in [Services -> 1..MaxVersion]
    /\ DOMAIN cache \subseteq Services /\ \A s \in DOMAIN cache : cache[s] \in 1..MaxVersion
    /\ DOMAIN tracker \subseteq Names /\ \A t \in DOMAIN tracker : tracker[t].out \subseteq Notices
    /\ mail \in Seq(Messages) /\ Len(mail) <= MailSize
    /\ fetching \subseteq Services
    /\ registered \in BOOLEAN /\ inbox \in Seq(Notices) /\ view \in [Services -> 0..MaxVersion]

(* A temporal tracker reports from its own stream and may still do so when  *)
(* its client has left: the cache holds a service without a tracker of the  *)
(* configuration only while the manager knows a temporal tracker of it.     *)
EntriesHaveTrackers ==
    \A s \in DOMAIN cache \ (Local \union Remote) : \E t \in DOMAIN temporal : temporal[t] = s

(* A subscriber that has read its notices knows what the cache holds,       *)
(* whenever it registered.                                                  *)
SubscribersKnowTheCache ==
    registered /\ inbox = <<>> => \A s \in DOMAIN cache : view[s] = cache[s]

(* When programs, services and clients stop changing, the program on air of *)
(* every tracked service is in the cache, unless its last change was lost:  *)
(* its entry was dropped by a scan that missed the service, an event or a   *)
(* fetch failed, a broken line followed it, or a report overtook another.   *)
Tracked(s) ==
    \/ s \in Local \union Remote
    \/ \E t \in DOMAIN temporal \intersect streams : temporal[t] = s
ProgramsOnAirAreCached ==
    <>[](\A s \in services \ missed :
           Tracked(s) /\ Program(s, aired[s]) # None => QueryOnairProgram(s) = aired[s])
=============================================================================
