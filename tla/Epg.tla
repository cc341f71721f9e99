-------------------------------- MODULE Epg --------------------------------
(* The EPG actor with its job manager, EIT feeder and cache files, and one  *)
(* subscriber of its notifications (such as the recording manager).         *)
(*                                                                          *)
(* A schedule is a ring of MaxDays units, one per day; a unit is the date   *)
(* its events start with, 0 while it is empty.  ServicesUpdated and         *)
(* ClocksUpdated carry a copy of the map; their subscribers are modelled in *)
(* Timeshift.                                                               *)
EXTENDS Integers, Sequences, FiniteSets, SequencesExt

CONSTANTS
    Channels, Services, ChannelOf,   \* config.channels and what they may carry
    MaxDays,                         \* EpgSchedule::MAX_DAYS
    Jobs,                            \* the jobs that are not disabled
    MailSize,                        \* capacity of the EPG's mailbox
    MaxDay, MaxCrashes               \* bounds

ASSUME ChannelAssumption == ChannelOf \in [Services -> Channels]
ASSUME DaysAssumption == MaxDays \in Nat /\ MaxDays > 1
ASSUME JobsAssumption == Jobs \subseteq {"scan", "sync", "update"}
ASSUME ServicesAssumption == IsFiniteSet(Services)
ASSUME BoundsAssumption == MaxDay \in Nat \ {0} /\ MailSize \in Nat

VARIABLES
    day,                             \* Jst::today()
    services, clocks, schedules,     \* Epg: services and clocks known, schedules kept
    mail,                            \* the mailbox of the EPG
    job, first, due,                 \* JobManager: the job it runs, initial jobs, jobs scheduled
    feeder,                          \* EitFeeder: {} or {[todo, on, sids, fed]}
    files,                           \* services.json, clocks.json, schedules.json
    news, seen,                      \* the subscriber: ProgramsUpdated, programs it knows
    crossed,                         \* history: a feed went on across midnight
    up, crashes

epgVars == <<services, clocks, schedules>>
subVars == <<news, seen>>
jobVars == <<job, first, due>>
vars == <<day, epgVars, mail, jobVars, feeder, files, subVars, crossed, up, crashes>>

Known(c, ss) == {s \in ss : ChannelOf[s] = c}
InitialJobs ==
    LET one(j) == IF j \in Jobs THEN <<j>> ELSE <<>> IN one("scan") \o one("sync") \o one("update")
NoUnits == [i \in 0..(MaxDays - 1) |-> 0]

(***************************************************************************)
(* EpgSchedule.                                                             *)
(***************************************************************************)
NewSchedule == [units |-> NoUnits, start |-> 0, programs |-> <<>>]

(* update_start_index(): the unit of today, found from the oldest unit.     *)
(* Fault: counted from the first unit that is not empty.                    *)
UpdateStartIndexFromFirst(sched, today) ==
    LET dated == {i \in DOMAIN sched.units : sched.units[i] # 0}
        least == CHOOSE i \in dated : \A j \in dated : i <= j
    IN  IF dated = {} THEN [sched EXCEPT !.start = 0]
        ELSE [sched EXCEPT !.start = (least + today) % MaxDays]
UpdateStartIndex(sched, today) ==
    LET dated == {i \in DOMAIN sched.units : sched.units[i] # 0}
        oldest == CHOOSE i \in dated : \A j \in dated :
                     sched.units[i] < sched.units[j] \/ (sched.units[i] = sched.units[j] /\ i <= j)
    IN  IF dated = {} THEN [sched EXCEPT !.start = 0]
        ELSE [sched EXCEPT !.start = (oldest + (today - sched.units[oldest])) % MaxDays]

(* update(): the section of the k-th day from the broadcaster's today.      *)
UpdateUnit(sched, k, date) ==
    [sched EXCEPT !.units[(sched.start + k) % MaxDays] = date]

(* collect_programs(): all units, from the day before today.                *)
CollectPrograms(sched) ==
    LET before == IF sched.start > 0 THEN sched.start - 1 ELSE MaxDays - 1
        programs[n \in 0..MaxDays] ==   \* of the first n units
            IF n = 0 THEN <<>>
            ELSE LET date == sched.units[(before + n - 1) % MaxDays] IN
                 IF date = 0 THEN programs[n - 1] ELSE Append(programs[n - 1], date)
    IN  [sched EXCEPT !.programs = programs[MaxDays]]

(***************************************************************************)
(* The EPG's handlers.                                                      *)
(***************************************************************************)
Receive(kind) == up /\ mail # <<>> /\ Head(mail).kind = kind /\ mail' = Tail(mail)
Msg(kind, arg) == [kind |-> kind, arg |-> arg]
Restrict2(f, S) == [s \in DOMAIN f \intersect S |-> f[s]]

(* Channels whose scan failed keep their services.                          *)
Merged(results) ==
    UNION {IF results[c].ok THEN results[c].found ELSE Known(c, services) : c \in Channels}

UpdateServices ==
    /\ Receive("UpdateServices")
    /\ services' = Merged(Head(mail).arg)
    /\ files' = [files EXCEPT !.services = services']
    /\ schedules' = Restrict2(schedules, services')
    /\ UNCHANGED <<day, clocks, jobVars, feeder, news, seen, crossed, up, crashes>>

UpdateClocks ==
    /\ Receive("UpdateClocks")
    /\ LET results == Head(mail).arg IN
       clocks' = UNION {IF results[c].ok THEN results[c].found
                        ELSE clocks \intersect Known(c, services) : c \in Channels}
    /\ files' = [files EXCEPT !.clocks = clocks']
    /\ UNCHANGED <<day, services, schedules, jobVars, feeder, subVars, crossed, up, crashes>>

PrepareSchedule ==
    /\ Receive("PrepareSchedule")
    /\ LET s == Head(mail).arg IN
       schedules' = [x \in DOMAIN schedules \union {s} |->
                        IF x # s THEN schedules[x]
                        ELSE IF s \in DOMAIN schedules THEN UpdateStartIndex(schedules[s], day)
                        ELSE NewSchedule]
    /\ UNCHANGED <<day, services, clocks, jobVars, feeder, files, subVars, crossed, up, crashes>>

UpdateSchedule ==
    /\ Receive("UpdateSchedule")
    /\ LET a == Head(mail).arg IN
       schedules' = IF a.s \in DOMAIN schedules
                      THEN [schedules EXCEPT ![a.s] = UpdateUnit(@, a.k, a.date)]
                      ELSE schedules
    /\ UNCHANGED <<day, services, clocks, jobVars, feeder, files, subVars, crossed, up, crashes>>

(* Fault: the subscriber is not told.                                       *)
FlushScheduleSilently ==
    /\ Receive("FlushSchedule")
    /\ LET s == Head(mail).arg.s IN
       schedules' = IF s \in DOMAIN schedules
                      THEN [schedules EXCEPT ![s] = CollectPrograms(@)] ELSE schedules
    /\ UNCHANGED <<day, services, clocks, jobVars, feeder, files, subVars, crossed, up, crashes>>
(* The service must exist: the EPG, and with it the server, panics          *)
(* otherwise.                                                               *)
FlushSchedule ==
    /\ Receive("FlushSchedule")
    /\ LET s == Head(mail).arg.s IN
       /\ s \in services
       /\ schedules' = IF s \in DOMAIN schedules
                         THEN [schedules EXCEPT ![s] = CollectPrograms(@)] ELSE schedules
       /\ news' = news \union {s}
    /\ UNCHANGED <<day, services, clocks, jobVars, feeder, files, seen, crossed, up, crashes>>

SaveSchedules ==
    /\ Receive("SaveSchedules")
    /\ files' = [files EXCEPT !.schedules = [s \in DOMAIN schedules |-> schedules[s].units]]
    /\ UNCHANGED <<day, epgVars, jobVars, feeder, subVars, crossed, up, crashes>>

(* Queries of the Web API and of other actors.                              *)
QueryPrograms(s) == IF s \in DOMAIN schedules THEN schedules[s].programs ELSE <<>>

(* load_services(), load_clocks(), load_schedules(), collect_programs(),    *)
(* and the subscriber registers: a task names the services with a schedule. *)
Started ==
    /\ ~up /\ up' = TRUE
    /\ services' = files.services
    /\ clocks' = files.clocks \intersect files.services
    /\ LET kept == Restrict2(files.schedules, files.services) IN
       /\ schedules' = [s \in DOMAIN kept |->
             CollectPrograms(UpdateStartIndex([NewSchedule EXCEPT !.units = kept[s]], day))]
       /\ news' = DOMAIN kept
    /\ seen' = [s \in Services |-> <<>>]
    /\ job' = "idle" /\ due' = {} /\ first' = InitialJobs
    /\ UNCHANGED <<day, mail, feeder, files, crossed, crashes>>

(***************************************************************************)
(* JobManager: one job at a time, in its handlers.                          *)
(***************************************************************************)
Results == [Channels -> [ok : BOOLEAN, found : SUBSET Services]]
Plausible(r) == \A c \in Channels :
    r[c].found \subseteq Known(c, Services) /\ (~r[c].ok => r[c].found = {})
Post(m) == Len(mail) < MailSize /\ mail' = Append(mail, m)

(* started() runs every job once, in order; the handler of a job returns    *)
(* when the job is done and its next run has been scheduled.                *)
StartJob(j) ==
    /\ up /\ job = "idle"
    /\ \/ first # <<>> /\ j = Head(first) /\ first' = Tail(first) /\ due' = due
       \/ first = <<>> /\ j \in due /\ due' = due \ {j} /\ first' = first
    /\ job' = j
    /\ feeder' = IF j = "update"
                   THEN {[todo |-> {}, on |-> "asking", sids |-> {}, fed |-> {}]} ELSE feeder
    /\ UNCHANGED <<day, epgVars, mail, files, subVars, crossed, up, crashes>>
(* is_fresh(): after a restart a recent file stands for the initial job.    *)
IsFresh(j) ==
    \/ j = "scan" /\ files.services # {}
    \/ j = "sync" /\ files.clocks # {}
    \/ j = "update" /\ files.schedules # <<>>
SkipInitialJob ==
    /\ up /\ job = "idle" /\ first # <<>> /\ IsFresh(Head(first)) /\ crashes > 0
    /\ first' = Tail(first) /\ due' = due \union {Head(first)} /\ job' = job
    /\ UNCHANGED <<day, epgVars, mail, feeder, files, subVars, crossed, up, crashes>>
Done(j) == job = j /\ job' = "idle" /\ due' = due \union {j} /\ first' = first

(* Every channel is tuned to in turn; a result is there or it is not.       *)
ScanServices ==
    /\ up /\ Done("scan")
    /\ \E r \in Results : Plausible(r) /\ Post(Msg("UpdateServices", r))
    /\ UNCHANGED <<day, epgVars, feeder, files, subVars, crossed, up, crashes>>
SyncClocks ==
    /\ up /\ Done("sync")
    /\ \E r \in Results : Plausible(r) /\ Post(Msg("UpdateClocks", r))
    /\ UNCHANGED <<day, epgVars, feeder, files, subVars, crossed, up, crashes>>

(* The call of FeedEitSections returns, with or without an error inside.    *)
UpdateSchedules ==
    /\ up /\ Done("update")
    /\ \E f \in feeder : f.on = "done"
    /\ feeder' = {}
    /\ Post(Msg("SaveSchedules", 0))
    /\ UNCHANGED <<day, epgVars, files, subVars, crossed, up, crashes>>

(***************************************************************************)
(* EitFeeder.                                                               *)
(***************************************************************************)
(* QueryServices is behind all earlier messages in the mailbox.             *)
QueryServices ==
    /\ up /\ mail = <<>> /\ \E f \in feeder : f.on = "asking"
    /\ feeder' = {[todo |-> services, on |-> "tuning", sids |-> {}, fed |-> {}]}
    /\ UNCHANGED <<day, epgVars, mail, jobVars, files, subVars, crossed, up, crashes>>

(* The next channel, or none left; without a tuner the feed is given up.    *)
Tune ==
    /\ up
    /\ \E f \in feeder :
          /\ f.on = "tuning"
          /\ feeder' = {IF f.todo = {} THEN [f EXCEPT !.on = "done"]
                        ELSE LET c == ChannelOf[CHOOSE s \in f.todo : TRUE] IN
                             [f EXCEPT !.on = "feeding", !.sids = Known(c, f.todo),
                                       !.todo = @ \ Known(c, f.todo)]}
    /\ UNCHANGED <<day, epgVars, mail, jobVars, files, subVars, crossed, up, crashes>>
NoTuner ==
    /\ up
    /\ \E f \in feeder : f.on = "tuning" /\ f.todo # {}
                         /\ feeder' = {[f EXCEPT !.on = "done", !.sids = {}, !.fed = {}]}
    /\ UNCHANGED <<day, epgVars, mail, jobVars, files, subVars, crossed, up, crashes>>

(* A section arrives: the first one of a service prepares its schedule.     *)
(* Only services of the channel are collected; the broadcaster sends the    *)
(* days from today on, in order.                                            *)
Feed ==
    /\ up
    /\ \E f \in feeder : \E s \in f.sids : \E k \in 0..(MaxDays - 2) :
          /\ f.on = "feeding" /\ [s |-> s, k |-> k, day |-> day] \notin f.fed
          /\ \A j \in 0..(k - 1) : \E e \in f.fed : e.s = s /\ e.k = j
          /\ LET update == Msg("UpdateSchedule", [s |-> s, k |-> k, date |-> day + k]) IN
             IF \E e \in f.fed : e.s = s
               THEN mail' = Append(mail, update)
               ELSE mail' = mail \o <<Msg("PrepareSchedule", s), update>>
          /\ Len(mail') <= MailSize
          /\ feeder' = {[f EXCEPT !.fed = @ \union {[s |-> s, k |-> k, day |-> day]}]}
    /\ UNCHANGED <<day, epgVars, jobVars, files, subVars, crossed, up, crashes>>

(* End of the output, or timeout: every service seen is flushed.  The days  *)
(* of the feed are kept to state what it brought.                           *)
Flush ==
    /\ up
    /\ \E f \in feeder : f.on = "feeding" /\
          LET fedOf(s) == {e \in f.fed : e.s = s}
              seenSids == SetToSeq({s \in f.sids : fedOf(s) # {}})
          IN  /\ mail' = mail \o [i \in DOMAIN seenSids |->
                    Msg("FlushSchedule", [s |-> seenSids[i], fed |-> fedOf(seenSids[i])])]
              /\ Len(mail') <= MailSize
              /\ feeder' = {[f EXCEPT !.on = "tuning", !.sids = {}, !.fed = {}]}
    /\ UNCHANGED <<day, epgVars, jobVars, files, subVars, crossed, up, crashes>>
(* Reading the output fails: nothing is flushed, the feed is given up.      *)
ReadError ==
    /\ up
    /\ \E f \in feeder : f.on = "feeding" /\ f.fed # {}
                         /\ feeder' = {[f EXCEPT !.on = "done", !.sids = {}, !.fed = {}]}
    /\ UNCHANGED <<day, epgVars, mail, jobVars, files, subVars, crossed, up, crashes>>

(***************************************************************************)
(* The subscriber asks for the programs it is told of; the world.           *)
(***************************************************************************)
ProgramsUpdated ==
    /\ up
    /\ \E s \in news : news' = news \ {s} /\ seen' = [seen EXCEPT ![s] = QueryPrograms(s)]
    /\ UNCHANGED <<day, epgVars, mail, jobVars, feeder, files, crossed, up, crashes>>

Midnight ==
    /\ day < MaxDay /\ day' = day + 1
    /\ crossed' = (crossed \/ mail # <<>> \/ \E f \in feeder : f.fed # {})
    /\ UNCHANGED <<epgVars, mail, jobVars, feeder, files, subVars, up, crashes>>
(* The state of the process is lost; `seen` and the rest are set up again   *)
(* when it starts.                                                          *)
Crash ==
    /\ up /\ crashes < MaxCrashes
    /\ crashes' = crashes + 1 /\ up' = FALSE
    /\ services' = {} /\ clocks' = {} /\ schedules' = <<>>
    /\ mail' = <<>> /\ feeder' = {} /\ job' = "idle" /\ due' = {} /\ first' = <<>>
    /\ news' = {} /\ seen' = [s \in Services |-> <<>>]
    /\ UNCHANGED <<day, files, crossed>>

Init ==
    /\ day = 1
    /\ services = {} /\ clocks = {} /\ schedules = <<>>
    /\ mail = <<>> /\ job = "idle" /\ due = {} /\ first = InitialJobs /\ feeder = {}
    /\ files = [services |-> {}, clocks |-> {}, schedules |-> <<>>]
    /\ news = {} /\ seen = [s \in Services |-> <<>>]
    /\ crossed = FALSE /\ up = TRUE /\ crashes = 0

Handle == \/ UpdateServices \/ UpdateClocks \/ PrepareSchedule \/ UpdateSchedule
          \/ FlushSchedule \/ SaveSchedules
Job == (\E j \in Jobs : StartJob(j)) \/ SkipInitialJob \/ ScanServices \/ SyncClocks \/ UpdateSchedules
FeederStep == QueryServices \/ Tune \/ NoTuner \/ Feed \/ Flush \/ ReadError
Next == Handle \/ Job \/ FeederStep \/ ProgramsUpdated \/ Midnight \/ Started \/ Crash
Fairness ==
    /\ WF_vars(Handle) /\ WF_vars(ScanServices \/ SyncClocks \/ UpdateSchedules)
    /\ WF_vars(FeederStep)
Spec == Init /\ [][Next]_vars /\ Fairness

(***************************************************************************)
(* Properties.                                                              *)
(***************************************************************************)
Dates == 0..(MaxDay + MaxDays)
TypeOK ==
    /\ day \in 1..MaxDay
    /\ services \subseteq Services /\ clocks \subseteq Services
    /\ DOMAIN schedules \subseteq Services
    /\ \A s \in DOMAIN schedules :
          schedules[s].units \in [0..(MaxDays - 1) -> Dates] /\ schedules[s].start \in 0..(MaxDays - 1)
    /\ job \in Jobs \union {"idle"} /\ due \subseteq Jobs
    /\ Len(mail) <= MailSize

(* flush_schedule() says `expect("Service must exist")`: a service whose    *)
(* sections were collected is still known when its schedule is flushed,     *)
(* whatever a scan finds in between.                                        *)
FlushedServicesExist ==
    up /\ mail # <<>> /\ Head(mail).kind = "FlushSchedule" => Head(mail).arg.s \in services

(* A subscriber that has asked for the programs of every service it was     *)
(* told of knows the programs that the EPG would answer with.               *)
SubscribersKnowPrograms ==
    up /\ news = {} => \A s \in Services :
       QueryPrograms(s) # <<>> => seen[s] = QueryPrograms(s)

(* A feed that brings all the days broadcast, on one day, leaves these days *)
(* in chronological order behind the slot of the day before, whatever was   *)
(* left in the ring: days of an earlier feed, or of a feed across midnight. *)
(* The slot of the day before is not fed: unless a feed went on across      *)
(* midnight it holds an earlier day, and yesterday if that was known.       *)
Complete(fed, d) == \A k \in 0..(MaxDays - 2) : \E e \in fed : e.k = k /\ e.day = d
FeedsBringTheDays ==
    [][up' /\ mail # <<>> /\ Head(mail).kind = "FlushSchedule" /\ mail' = Tail(mail) =>
         LET a == Head(mail).arg
             days == [k \in 1..(MaxDays - 1) |-> day + k - 1]
             before == QueryPrograms(a.s)
             after == IF a.s \in DOMAIN schedules' THEN schedules'[a.s].programs ELSE <<>>
         IN  Complete(a.fed, day) /\ a.s \in DOMAIN schedules' =>
                /\ after = days \/ (after # <<>> /\ Tail(after) = days)
                /\ ~crossed /\ after # days => Head(after) < day
                /\ ~crossed /\ day - 1 \in Range(before) => day - 1 \in Range(after)
      ]_vars

(* A job that was started ends: the job manager waits for the feeder, the   *)
(* feeder for room in the mailbox of the EPG, and the EPG for neither.      *)
JobsEnd == job # "idle" ~> job = "idle"
=============================================================================
