------------------------ MODULE RecordingManagerProofs ------------------------
(***************************************************************************)
(* Proofs about RecordingManager for every set of programs, services and   *)
(* trackers, every announced start time, and every number of bookings,     *)
(* messages and restarts.                                                  *)
(*                                                                         *)
(* The first part says what the operators on schedules, queue and timer    *)
(* return.  The invariants are proved from it, the later ones from the     *)
(* earlier ones: TypeOK, TimerServesQueue, FileKnowsSchedules, the queue   *)
(* of untracked programs, and, unless a program is booked again while its  *)
(* old recorder stops, BookingInv: what is queued is not recorded yet, and *)
(* what has a recorder waits for nothing.                                  *)
(***************************************************************************)
EXTENDS RecordingManager, WellFoundedInduction, TLAPS

-----------------------------------------------------------------------------
(* The operators on schedules.                                              *)

MapOK(sch) ==
    /\ sch \in [Programs -> SUBSET Schedule]
    /\ \A p \in Programs : \A s1, s2 \in sch[p] : s1 = s2

LEMMA MoveToMap ==
    ASSUME NEW sch, MapOK(sch), NEW P, NEW state \in Pending
    PROVE  MapOK(MoveTo(sch, P, state))
BY DEF MapOK, MoveTo, WithState, Schedule

LEMMA WithoutMap ==
    ASSUME NEW sch, MapOK(sch), NEW P
    PROVE  MapOK(Without(sch, P))
BY DEF MapOK, Without

LEMMA BookedMap ==
    ASSUME MapOK(schedules), NEW p \in Programs, NEW i \in Program
    PROVE  MapOK(Booked(p, i))
BY DEF MapOK, Booked, Schedule, Program, Pending

LEMMA OnairMap ==
    ASSUME NEW service, NEW air \in OnairPrograms(service)
    PROVE  /\ DOMAIN air \subseteq {p \in Programs : ServiceOf[p] = service}
           /\ \A p \in DOMAIN air : air[p] \in Program
           /\ service \notin OnAir => DOMAIN air = {}
<1>1. PICK P \in SUBSET {p \in Programs : ServiceOf[p] = service} :
          /\ (service \in OnAir /\ Cardinality(P) <= 2) \/ P = {}
          /\ air \in [P -> Program]
  BY DEF OnairPrograms
<1> QED
  BY <1>1

LEMMA UpdateByOnairMap ==
    ASSUME NEW sch, MapOK(sch), NEW service, NEW air \in OnairPrograms(service)
    PROVE  MapOK(UpdateByOnair(sch, air))
BY OnairMap DEF MapOK, UpdateByOnair, Tracked, Schedule, Program, Pending

LEMMA StartMap ==
    ASSUME NEW sch, MapOK(sch), NEW f
    PROVE  MapOK(Start(sch, f))
<1>1. MapOK(Without(sch, Ending(f, "error")))
  BY WithoutMap
<1>2. MapOK(MoveTo(Without(sch, Ending(f, "error")), Ending(f, "busy"), "Waiting"))
  BY <1>1, MoveToMap DEF Pending
<1> QED
  BY <1>2, MoveToMap DEF Start, Pending

LEMMA MaintainedMap == ASSUME MapOK(schedules) PROVE MapOK(Maintained)
<1>1. MapOK(Without(schedules, Expired \cup GivenUp))
  BY WithoutMap
<1> QED
  BY <1>1, MoveToMap DEF Maintained, Pending

LEMMA ArchivedDone ==
    ASSUME NEW sch, MapOK(sch), NEW P \in SUBSET Programs, NEW state \in {"Finished", "Failed"}
    PROVE  Archived(sch, P, state) \subseteq Done
BY DEF MapOK, Archived, Schedule, Done

-----------------------------------------------------------------------------
(* The queue and the timer.                                                 *)

LEMMA QueueOfItems ==
    ASSUME NEW sch, MapOK(sch)
    PROVE  /\ QueueOf(sch) \subseteq QueueItem
           /\ \A i \in QueueOf(sch) : \E s \in sch[i.program] : IsReady(s) /\ s.start = i.start
           /\ \A p \in Programs : \A s \in sch[p] : IsReady(s) =>
                [program |-> p, start |-> s.start] \in QueueOf(sch)
<1>1. \A p \in Programs : \A s \in sch[p] : s.start \in Starts
  BY DEF MapOK, Schedule
<1>2. ASSUME NEW i \in QueueOf(sch)
      PROVE  i \in QueueItem /\ \E s \in sch[i.program] : IsReady(s) /\ s.start = i.start
  <2>1. PICK p \in Programs :
            \E s \in sch[p] : IsReady(s) /\ i = [program |-> p, start |-> s.start]
    BY DEF QueueOf
  <2> QED
    BY <1>1, <2>1 DEF QueueItem
<1>3. ASSUME NEW p \in Programs, NEW s \in sch[p], IsReady(s)
      PROVE  [program |-> p, start |-> s.start] \in QueueOf(sch)
  BY <1>3 DEF QueueOf
<1> QED
  BY <1>2, <1>3

LEMMA MinOfNaturals ==
    ASSUME NEW S, S \subseteq Nat, S # {}
    PROVE  Min(S) \in S /\ \A n \in S : Min(S) <= n
<1> DEFINE Less == {ss \in Nat \X Nat : ss[1] < ss[2]}
<1>1. IsWellFoundedOn(Less, Nat)
  BY NatLessThanWellFounded DEF OpToRel
<1>2. \A x, y \in Nat : <<x, y>> \in Less <=> x < y
  OBVIOUS
<1> HIDE DEF Less
<1>3. PICK x \in S : \A y \in S : ~(<<y, x>> \in Less)
  BY <1>1, WFMin
<1>4. \A y \in S : x <= y
  <2> TAKE y \in S
  <2>1. x \in Nat /\ y \in Nat
    OBVIOUS
  <2>2. ~(y < x)
    BY <1>2, <1>3, <2>1
  <2> QED
    BY <2>1, <2>2
<1> QED
  BY <1>4 DEF Min

TimerOK(t) == t \subseteq Int /\ \A t1, t2 \in t : t1 = t2

LEMMA TimerForQueue ==
    ASSUME NEW q, q \subseteq QueueItem
    PROVE  /\ TimerOK(TimerFor(q))
           /\ \A i \in q : \E t \in TimerFor(q) : t <= i.start - Prep
<1>1. {i.start : i \in q} \subseteq Nat
  BY RecordingAssumption DEF QueueItem
<1>2. Prep \in Nat
  BY RecordingAssumption
<1>3. CASE q = {}
  BY <1>3 DEF TimerFor, TimerOK
<1>4. CASE q # {}
  <2> DEFINE first == Min({i.start : i \in q})
  <2>1. {i.start : i \in q} # {}
    BY <1>4
  <2>2. first \in Nat /\ \A i \in q : i.start \in Nat /\ first <= i.start
    BY <1>1, <2>1, MinOfNaturals
  <2>3. TimerFor(q) = {first - Prep}
    BY <1>4 DEF TimerFor
  <2> HIDE DEF first
  <2>4. \A i \in q : first - Prep <= i.start - Prep
    BY <1>2, <2>2
  <2> QED
    BY <1>2, <2>2, <2>3, <2>4 DEF TimerOK
<1> QED
  BY <1>3, <1>4

-----------------------------------------------------------------------------
(* The types.                                                               *)

RecordersOK(rec) ==
    /\ rec \in [Programs -> SUBSET Recorder]
    /\ \A p \in Programs : \A r1, r2 \in rec[p] : r1 = r2
DiskOK(d) ==
    /\ d \in [schedules : [Programs -> SUBSET Schedule], history : SUBSET Done, stale : BOOLEAN]
    /\ MapOK(d.schedules)

LEMMA TypeParts ==
    TypeOK <=> /\ now \in Nat /\ mail \in Nat /\ bookings \in Nat /\ restarts \in Nat
               /\ MapOK(schedules)
               /\ queue \subseteq QueueItem
               /\ history \subseteq Done
               /\ RecordersOK(recorders)
               /\ TimerOK(timer)
               /\ DiskOK(disk)
BY DEF TypeOK, MapOK, RecordersOK, TimerOK, DiskOK

LEMMA RequeueTypes ==
    ASSUME MapOK(schedules'), Requeue
    PROVE  queue' \subseteq QueueItem /\ TimerOK(timer')
BY QueueOfItems, TimerForQueue DEF Requeue

LEMMA SaveTypes ==
    ASSUME DiskOK(disk), MapOK(schedules'), history' \subseteq Done, Save
    PROVE  DiskOK(disk')
<1>1. CASE disk' = [schedules |-> schedules', history |-> history', stale |-> FALSE]
  BY <1>1 DEF DiskOK, MapOK
<1>2. CASE disk' = [disk EXCEPT !.stale = TRUE]
  BY <1>2 DEF DiskOK
<1> QED
  BY <1>1, <1>2 DEF Save

LEMMA DropTriggersTypes ==
    ASSUME RecordersOK(recorders), NEW P, DropTriggers(P)
    PROVE  RecordersOK(recorders')
<1> DEFINE off(p) == {[r EXCEPT !.trigger = FALSE] : r \in recorders[p]}
<1>1. ASSUME NEW r \in Recorder PROVE [r EXCEPT !.trigger = FALSE] \in Recorder
  BY DEF Recorder
<1>2. \A p \in Programs : off(p) \subseteq Recorder /\ \A r1, r2 \in off(p) : r1 = r2
  BY <1>1 DEF RecordersOK
<1>3. recorders' = [p \in Programs |-> IF p \in P THEN off(p) ELSE recorders[p]]
  BY DEF DropTriggers
<1> HIDE DEF off
<1> QED
  BY <1>2, <1>3 DEF RecordersOK

LEMMA NewRecordersTypes ==
    ASSUME RecordersOK(recorders), NEW f
    PROVE  RecordersOK(NewRecorders(f))
<1>1. [trigger |-> TRUE, task |-> "new"] \in Recorder
  BY DEF Recorder
<1> QED
  BY <1>1 DEF RecordersOK, NewRecorders

LEMMA SetTaskTypes ==
    ASSUME RecordersOK(recorders), NEW p \in Programs,
           NEW task \in {"new", "writing", "failing", "failed", "ended"}, SetTask(p, task)
    PROVE  RecordersOK(recorders')
<1>1. recorders' = [recorders EXCEPT ![p] = {[r EXCEPT !.task = task] : r \in recorders[p]}]
  BY DEF SetTask
<1>2. {[r EXCEPT !.task = task] : r \in recorders[p]} \subseteq Recorder
  BY DEF RecordersOK, Recorder
<1> QED
  BY <1>1, <1>2 DEF RecordersOK

(* Due programs are programs, and an outcome of starting them is a function *)
(* on some programs.                                                        *)
LEMMA MaintainedQueueItems ==
    ASSUME MapOK(schedules), queue \subseteq QueueItem
    PROVE  MaintainedQueue \subseteq QueueItem /\ DuePrograms \subseteq Programs
<1>1. MaintainedQueue \subseteq QueueItem
  BY MaintainedMap, QueueOfItems DEF MaintainedQueue
<1> QED
  BY <1>1 DEF DuePrograms, DueItems, QueueItem

(* What ProgramsUpdated makes of the schedules: those of renewed programs   *)
(* follow epg, those of removed programs are dropped.                       *)
RenewedSchedules(epg, renewed, removed) ==
    [p \in Programs |->
        IF p \in renewed THEN UNION {{Renewed(s, i) : s \in schedules[p]} : i \in epg[p]}
        ELSE IF p \in removed THEN {} ELSE schedules[p]]
MovedBy(epg, renewed) == {p \in renewed : \A i \in epg[p], s \in schedules[p] : s.start # i.start}

LEMMA ProgramsUpdatedForm ==
    ASSUME NEW service, ProgramsUpdated(service)
    PROVE  \E epg : \E renewed, removed \in SUBSET Idle :
               /\ \A p \in renewed :
                    epg[p] \subseteq EpgProgram /\ epg[p] # {} /\ \A i, j \in epg[p] : i = j
               /\ schedules' = RenewedSchedules(epg, renewed, removed)
               /\ history' = history \cup Archived(schedules, removed, "Failed")
               /\ Event("failed", removed) \subseteq out'
               /\ Event("rescheduled", MovedBy(epg, renewed)) \subseteq out'
               /\ Requeue /\ Save
               /\ UNCHANGED <<now, recorders, mail, bookings, restarts>>
<1>1. PICK epg \in [{p \in Idle : ServiceOf[p] = service} -> SUBSET EpgProgram] :
          LET removed == {p \in DOMAIN epg : epg[p] = {}}
              renewed == {p \in DOMAIN epg : \E i \in epg[p] : i.start + Length > now}
          IN  /\ \A p \in DOMAIN epg : \A i, j \in epg[p] : i = j
              /\ schedules' = RenewedSchedules(epg, renewed, removed)
              /\ history' = history \cup Archived(schedules, removed, "Failed")
              /\ FailedPrograms(removed) \subseteq out'
              /\ Event("rescheduled", MovedBy(epg, renewed)) \subseteq out'
              /\ Requeue /\ Save
              /\ UNCHANGED <<now, recorders, mail, bookings, restarts>>
  BY DEF ProgramsUpdated, RenewedSchedules, MovedBy, Emit
<1> DEFINE removed == {p \in DOMAIN epg : epg[p] = {}}
           renewed == {p \in DOMAIN epg : \E i \in epg[p] : i.start + Length > now}
<1>2. /\ schedules' = RenewedSchedules(epg, renewed, removed)
      /\ history' = history \cup Archived(schedules, removed, "Failed")
      /\ Event("failed", removed) \subseteq out'
      /\ Event("rescheduled", MovedBy(epg, renewed)) \subseteq out'
      /\ Requeue /\ Save
      /\ UNCHANGED <<now, recorders, mail, bookings, restarts>>
  BY <1>1 DEF FailedPrograms
<1>3. /\ renewed \subseteq Idle /\ removed \subseteq Idle
      /\ \A p \in renewed :
            epg[p] \subseteq EpgProgram /\ epg[p] # {} /\ \A i, j \in epg[p] : i = j
  BY <1>1
<1> HIDE DEF removed, renewed
<1> QED
  BY <1>2, <1>3

LEMMA RenewedMap ==
    ASSUME MapOK(schedules), NEW epg, NEW renewed, NEW removed,
           \A p \in renewed : epg[p] \subseteq EpgProgram /\ \A i, j \in epg[p] : i = j
    PROVE  MapOK(RenewedSchedules(epg, renewed, removed))
<1>1. ASSUME NEW p \in Programs, NEW i \in EpgProgram, NEW s \in schedules[p]
      PROVE  Renewed(s, i) \in Schedule
  BY <1>1 DEF MapOK, Renewed, Schedule, EpgProgram, Program, Pending
<1> QED
  BY <1>1 DEF MapOK, RenewedSchedules

LEMMA InitTypes == Init => TypeOK
<1> SUFFICES ASSUME Init PROVE TypeOK
  OBVIOUS
<1>1. MapOK(schedules) /\ RecordersOK(recorders) /\ TimerOK(timer)
  BY DEF Init, MapOK, RecordersOK, TimerOK
<1>2. DiskOK(disk)
  BY <1>1 DEF Init, DiskOK, MapOK
<1> QED
  BY <1>1, <1>2, TypeParts DEF Init, QueueItem, Done

(* What the types of the next state come down to.                           *)
LEMMA NextTypes ==
    ASSUME TypeOK, MapOK(schedules'), RecordersOK(recorders'), history' \subseteq Done,
           Requeue \/ UNCHANGED <<queue, timer>>,
           Save \/ UNCHANGED disk,
           UNCHANGED <<now, mail, restarts>>,
           bookings' = bookings \/ bookings' = bookings + 1
    PROVE  TypeOK'
<1>1. queue' \subseteq QueueItem /\ TimerOK(timer')
  BY RequeueTypes, TypeParts
<1>2. DiskOK(disk')
  BY SaveTypes, TypeParts
<1>3. now' \in Nat /\ mail' \in Nat /\ bookings' \in Nat /\ restarts' \in Nat
  BY TypeParts
<1> QED
  BY <1>1, <1>2, <1>3 DEF TypeOK, MapOK, RecordersOK, TimerOK, DiskOK

LEMMA UserStepTypes == ASSUME TypeOK, UserStep PROVE TypeOK'
<1> USE TypeParts
<1>1. ASSUME NEW p \in Programs, AddRecordingSchedule(p) PROVE TypeOK'
  <2>1. PICK i \in EpgProgram, air \in OnairPrograms(ServiceOf[p]) :
            schedules' = UpdateByOnair(Booked(p, i), air)
    BY <1>1 DEF AddRecordingSchedule
  <2>2. MapOK(schedules')
    BY <2>1, BookedMap, UpdateByOnairMap DEF EpgProgram
  <2> QED
    BY <1>1, <2>2, NextTypes DEF AddRecordingSchedule
<1>2. ASSUME NEW p \in Programs, StartRecording(p) PROVE TypeOK'
  <2>1. PICK i \in EpgProgram, f \in Outcomes({p}) :
            /\ schedules' = Start(Booked(p, i), f)
            /\ recorders' = NewRecorders(f)
            /\ history' = history \cup Archived(Booked(p, i), Ending(f, "error"), "Failed")
    BY <1>2 DEF StartRecording
  <2>2. MapOK(Booked(p, i))
    BY BookedMap DEF EpgProgram
  <2>3. MapOK(schedules') /\ RecordersOK(recorders')
    BY <2>1, <2>2, StartMap, NewRecordersTypes
  <2>4. Ending(f, "error") \subseteq Programs
    BY DEF Ending, Outcomes
  <2>5. history' \subseteq Done
    BY <2>1, <2>2, <2>4, ArchivedDone
  <2> QED
    BY <1>2, <2>3, <2>5, NextTypes DEF StartRecording
<1>3. ASSUME NEW p \in Programs, StopRecording(p) PROVE TypeOK'
  BY <1>3, DropTriggersTypes, NextTypes DEF StopRecording
<1>4. ASSUME DeleteRecordingHistory PROVE TypeOK'
  BY <1>4, NextTypes DEF DeleteRecordingHistory
<1> QED
  BY <1>1, <1>2, <1>3, <1>4 DEF UserStep

LEMMA UserRemovalTypes == ASSUME TypeOK, UserRemoval PROVE TypeOK'
<1> USE TypeParts
<1>1. ASSUME NEW p \in Programs, RemoveRecordingSchedule(p) PROVE TypeOK'
  BY <1>1, WithoutMap, DropTriggersTypes, NextTypes DEF RemoveRecordingSchedule
<1>2. ASSUME RemoveAllSchedules PROVE TypeOK'
  BY <1>2, WithoutMap, DropTriggersTypes, NextTypes DEF RemoveAllSchedules
<1>3. ASSUME NEW tagged \in SUBSET Programs, RemoveTaggedSchedules(tagged) PROVE TypeOK'
  BY <1>3, WithoutMap, NextTypes DEF RemoveTaggedSchedules
<1> QED
  BY <1>1, <1>2, <1>3 DEF UserRemoval

LEMMA RecorderStepTypes ==
    ASSUME TypeOK, NEW p \in Programs, RecorderStep(p)
    PROVE  TypeOK'
<1> USE TypeParts
<1>1. CASE RecordingStarted(p)
  BY <1>1, SetTaskTypes, NextTypes DEF RecordingStarted
<1>2. CASE RecordingEnds(p)
  BY <1>2, SetTaskTypes, NextTypes DEF RecordingEnds
<1>3. CASE RecordingFailed(p)
  BY <1>3, SetTaskTypes, NextTypes DEF RecordingFailed
<1>4. CASE RecordingStopped(p)
  <2>1. PICK result \in Result :
            /\ schedules' = AfterStop(p, result)
            /\ history' = history \cup DoneAfterStop(p, result)
    BY <1>4 DEF RecordingStopped
  <2>2. MapOK(schedules')
    BY <2>1, MoveToMap, WithoutMap DEF AfterStop, Pending
  <2>3. history' \subseteq Done
    BY <2>1, ArchivedDone DEF DoneAfterStop, Result
  <2>4. RecordersOK(recorders')
    BY <1>4 DEF RecordingStopped, RecordersOK
  <2> QED
    BY <1>4, <2>2, <2>3, <2>4, NextTypes DEF RecordingStopped
<1> QED
  BY <1>1, <1>2, <1>3, <1>4 DEF RecorderStep

LEMMA EnvironmentStepTypes == ASSUME TypeOK, EnvironmentStep PROVE TypeOK'
<1> USE TypeParts
<1>1. ASSUME NEW types, TunerAvailable(types) PROVE TypeOK'
  BY <1>1, MoveToMap, NextTypes DEF TunerAvailable, Pending
<1>2. ASSUME NEW present, ServicesUpdated(present) PROVE TypeOK'
  BY <1>2, WithoutMap, DropTriggersTypes, NextTypes DEF ServicesUpdated
<1>3. ASSUME NEW service \in Services, ProgramsUpdated(service) PROVE TypeOK'
  <2>1. PICK epg : \E renewed, removed \in SUBSET Idle :
            /\ \A p \in renewed : epg[p] \subseteq EpgProgram /\ \A i, j \in epg[p] : i = j
            /\ schedules' = RenewedSchedules(epg, renewed, removed)
            /\ history' = history \cup Archived(schedules, removed, "Failed")
    BY <1>3, ProgramsUpdatedForm
  <2>2. MapOK(schedules')
    BY <2>1, RenewedMap
  <2>3. history' \subseteq Done
    BY <2>1, ArchivedDone DEF Idle, InStates
  <2> QED
    BY <1>3, <2>2, <2>3, NextTypes DEF ProgramsUpdated
<1>4. ASSUME NEW service \in Services, OnairProgramChanged(service) PROVE TypeOK'
  <2>1. \E air \in OnairPrograms(service) : schedules' = UpdateByOnair(schedules, air)
    BY <1>4 DEF OnairProgramChanged
  <2>2. MapOK(schedules')
    BY <2>1, UpdateByOnairMap
  <2> QED
    BY <1>4, <2>2, NextTypes DEF OnairProgramChanged
<1> QED
  BY <1>1, <1>2, <1>3, <1>4 DEF EnvironmentStep

LEMMA ProcessRecordingTypes == ASSUME TypeOK, ProcessRecording PROVE TypeOK'
<1> USE TypeParts
<1>1. PICK f \in Outcomes({p \in DuePrograms : Maintained[p] # {}}) :
          LET done == history \cup Archived(schedules, Expired \cup GivenUp, "Failed")
                              \cup Archived(Maintained, Ending(f, "error"), "Failed")
          IN  /\ mail > 0 /\ mail' = mail - 1
              /\ schedules' = Start(Maintained, f)
              /\ recorders' = NewRecorders(f)
              /\ history' = Retained(done)
              /\ queue' = MaintainedQueue \ DueItems
              /\ timer' = TimerFor(queue')
              /\ UNCHANGED <<now, bookings, restarts>>
              /\ UNCHANGED disk \/ Save
  BY DEF ProcessRecording
<1>2. MapOK(Maintained) /\ MapOK(schedules') /\ RecordersOK(recorders')
  BY <1>1, MaintainedMap, StartMap, NewRecordersTypes
<1>3. queue' \subseteq QueueItem /\ TimerOK(timer')
  BY <1>1, MaintainedQueueItems, TimerForQueue
<1>4. history' \subseteq Done
  <2>1. Expired \cup GivenUp \subseteq Programs /\ Ending(f, "error") \subseteq Programs
    BY MaintainedQueueItems DEF Expired, GivenUp, InStates, Ending, Outcomes
  <2> QED
    BY <1>1, <1>2, <2>1, ArchivedDone DEF Retained
<1>5. DiskOK(disk')
  BY <1>1, <1>2, <1>4, SaveTypes
<1>6. now' \in Nat /\ mail' \in Nat /\ bookings' \in Nat /\ restarts' \in Nat
  BY <1>1
<1> QED
  BY <1>2, <1>3, <1>4, <1>5, <1>6 DEF TypeOK, MapOK, RecordersOK, TimerOK, DiskOK

LEMMA RestartTypes == ASSUME TypeOK, Restart PROVE TypeOK'
<1> USE TypeParts
<1>1. MapOK(schedules') /\ history' \subseteq Done
  BY DEF Restart, DiskOK
<1>2. queue' \subseteq QueueItem /\ TimerOK(timer')
  BY <1>1, RequeueTypes DEF Restart
<1>3. RecordersOK(recorders') /\ DiskOK(disk')
  BY DEF Restart, RecordersOK, DiskOK
<1>4. now' \in Nat /\ mail' \in Nat /\ bookings' \in Nat /\ restarts' \in Nat
  BY DEF Restart
<1> QED
  BY <1>1, <1>2, <1>3, <1>4 DEF TypeOK, MapOK, RecordersOK, TimerOK, DiskOK

LEMMA StepTypes == TypeOK /\ [Next]_vars => TypeOK'
<1> SUFFICES ASSUME TypeOK, [Next]_vars PROVE TypeOK'
  OBVIOUS
<1>1. CASE Tick
  BY <1>1 DEF Tick, TypeOK
<1>2. CASE TimerExpires
  BY <1>2 DEF TimerExpires, TypeOK
<1>3. CASE UNCHANGED vars
  BY <1>3 DEF vars, TypeOK
<1> QED
  BY <1>1, <1>2, <1>3, ProcessRecordingTypes, UserStepTypes, UserRemovalTypes,
     RecorderStepTypes, EnvironmentStepTypes, RestartTypes DEF Next

(* Every variable keeps its type; above all, the map of schedules and the   *)
(* map of recorders have at most one entry for a program.                   *)
THEOREM TypeCorrect == Spec => []TypeOK
<1> QED
  BY InitTypes, StepTypes, PTL DEF Spec

-----------------------------------------------------------------------------
(* The timer.                                                               *)

(* What a step does to queue, timer and messages.                           *)
LEMMA QueueSteps ==
    ASSUME [Next]_vars
    PROVE  \/ Requeue
           \/ UNCHANGED <<queue, timer, mail>>
           \/ TimerExpires
           \/ ProcessRecording
<1>1. CASE UserStep
  BY <1>1 DEF UserStep, AddRecordingSchedule, StartRecording, StopRecording, DeleteRecordingHistory
<1>2. CASE UserRemoval
  BY <1>2 DEF UserRemoval, RemoveRecordingSchedule, RemoveAllSchedules, RemoveTaggedSchedules
<1>3. CASE \E p \in Programs : RecorderStep(p)
  BY <1>3 DEF RecorderStep, RecordingStarted, RecordingEnds, RecordingFailed, RecordingStopped
<1>4. CASE EnvironmentStep
  BY <1>4 DEF EnvironmentStep, TunerAvailable, ServicesUpdated, ProgramsUpdated, OnairProgramChanged
<1>5. CASE Tick \/ Restart
  BY <1>5 DEF Tick, Restart
<1>6. CASE UNCHANGED vars
  BY <1>6 DEF vars
<1> QED
  BY <1>1, <1>2, <1>3, <1>4, <1>5, <1>6 DEF Next

(* A queued recording is never forgotten: the timer is set early enough for *)
(* it, or a ProcessRecording message is on its way (set_timer).             *)
THEOREM TimerServesTheQueue == Spec => []TimerServesQueue
<1>1. Init => TimerServesQueue
  BY DEF Init, TimerServesQueue
<1>2. TypeOK /\ TypeOK' /\ TimerServesQueue /\ [Next]_vars => TimerServesQueue'
  <2> SUFFICES ASSUME TypeOK, TypeOK', TimerServesQueue, [Next]_vars PROVE TimerServesQueue'
    OBVIOUS
  <2>1. queue' \subseteq QueueItem
    BY DEF TypeOK
  <2>2. CASE timer' = TimerFor(queue')
    BY <2>1, <2>2, TimerForQueue DEF TimerServesQueue
  <2>3. CASE UNCHANGED <<queue, timer, mail>>
    BY <2>3 DEF TimerServesQueue
  <2>4. CASE TimerExpires
    BY <2>4 DEF TimerExpires, TimerServesQueue, TypeOK
  <2>5. Requeue \/ ProcessRecording => timer' = TimerFor(queue')
    BY DEF Requeue, ProcessRecording
  <2> QED
    BY <2>2, <2>3, <2>4, <2>5, QueueSteps
<1> QED
  BY <1>1, <1>2, TypeCorrect, PTL DEF Spec

-----------------------------------------------------------------------------
(* What the file knows.                                                     *)

(* The file and the map agree on which programs have a schedule, and which  *)
(* of them are being recorded.                                              *)
Agree(sch1, sch2) ==
    \A p \in Programs : /\ sch1[p] = {} <=> sch2[p] = {}
                        /\ InState(sch1, p, {"Recording"}) <=> InState(sch2, p, {"Recording"})

LEMMA OnairAgrees ==
    ASSUME NEW sch, NEW air PROVE Agree(UpdateByOnair(sch, air), sch)
<1>1. ASSUME NEW p \in Programs, p \in DOMAIN air
      PROVE  UpdateByOnair(sch, air)[p] = {Tracked(s, air[p]) : s \in sch[p]}
  BY <1>1 DEF UpdateByOnair
<1>2. ASSUME NEW p \in Programs, p \notin DOMAIN air
      PROVE  UpdateByOnair(sch, air)[p] = sch[p]
  BY <1>2 DEF UpdateByOnair
<1>3. \A s, i : Tracked(s, i).state = "Recording" <=> s.state = "Recording"
  BY DEF Tracked
<1> QED
  BY <1>1, <1>2, <1>3 DEF Agree, InState

LEMMA StartNothing ==
    ASSUME NEW sch \in [Programs -> SUBSET Schedule], NEW f, DOMAIN f = {}
    PROVE  Start(sch, f) = sch
BY DEF Start, MoveTo, Without, Ending

(* A step saves, or leaves the file alone and schedules that agree.         *)
LEMMA FileSteps ==
    ASSUME TypeOK, [Next]_vars
    PROVE  \/ Save
           \/ disk' = disk /\ Agree(schedules', schedules)
           \/ disk'.schedules = schedules'
<1>1. CASE UserStep
  <2>1. ASSUME NEW p \in Programs, AddRecordingSchedule(p) PROVE Save
    BY <2>1 DEF AddRecordingSchedule
  <2>2. ASSUME NEW p \in Programs, StartRecording(p) PROVE Save
    BY <2>2 DEF StartRecording
  <2>3. ASSUME NEW p \in Programs, StopRecording(p) PROVE disk' = disk /\ schedules' = schedules
    BY <2>3 DEF StopRecording
  <2> QED
    BY <1>1, <2>1, <2>2, <2>3 DEF UserStep, DeleteRecordingHistory, Agree
<1>2. CASE UserRemoval
  BY <1>2 DEF UserRemoval, RemoveRecordingSchedule, RemoveAllSchedules, RemoveTaggedSchedules
<1>3. ASSUME NEW p \in Programs, RecorderStep(p)
      PROVE  Save \/ (disk' = disk /\ schedules' = schedules)
  <2>1. CASE RecordingStopped(p)
    <3>1. schedules[p] = {} => \A result \in Result : AfterStop(p, result) = schedules
      BY DEF AfterStop, MoveTo, Without, TypeOK
    <3> QED
      BY <2>1, <3>1 DEF RecordingStopped
  <2> QED
    BY <1>3, <2>1 DEF RecorderStep, RecordingStarted, RecordingEnds, RecordingFailed
<1>4. CASE EnvironmentStep
  <2>1. ASSUME NEW service, OnairProgramChanged(service) PROVE Save \/ (disk' = disk /\ Agree(schedules', schedules))
    BY <2>1, OnairAgrees DEF OnairProgramChanged
  <2> QED
    BY <1>4, <2>1 DEF EnvironmentStep, TunerAvailable, ServicesUpdated, ProgramsUpdated
<1>5. CASE ProcessRecording
  <2>1. PICK f \in Outcomes({p \in DuePrograms : Maintained[p] # {}}) :
            /\ schedules' = Start(Maintained, f)
            /\ Save \/ (Expired \cup Over = {} /\ DueItems = {} /\ disk' = disk)
    BY <1>5 DEF ProcessRecording
  <2>2. CASE Expired \cup Over = {} /\ DueItems = {} /\ disk' = disk
    <3>1. Maintained = schedules
      BY <2>2 DEF Maintained, GivenUp, MoveTo, Without, TypeOK
    <3>2. DOMAIN f = {}
      BY <2>2 DEF DuePrograms, Outcomes
    <3>3. schedules' = schedules
      BY <2>1, <3>1, <3>2, StartNothing DEF TypeOK
    <3> QED
      BY <2>2, <3>3 DEF Agree
  <2> QED
    BY <2>1, <2>2
<1>6. CASE Tick \/ TimerExpires \/ UNCHANGED vars
  BY <1>6 DEF Tick, TimerExpires, vars, Agree
<1>7. CASE Restart
  BY <1>7 DEF Restart, TypeOK
<1> QED
  BY <1>1, <1>2, <1>3, <1>4, <1>5, <1>6, <1>7 DEF Next, Agree

(* Unless a save failed, the file knows the same schedules as the manager,  *)
(* and the same ones as being recorded: a crash loses no booking            *)
(* (save_schedules in every handler).                                       *)
THEOREM FileKnowsTheSchedules == Spec => []FileKnowsSchedules
<1>1. Init => FileKnowsSchedules
  BY DEF Init, FileKnowsSchedules, InState, IsRecording
<1>2. TypeOK /\ FileKnowsSchedules /\ [Next]_vars => FileKnowsSchedules'
  <2> SUFFICES ASSUME TypeOK, FileKnowsSchedules, [Next]_vars, ~disk'.stale
               PROVE  Agree(schedules', disk'.schedules)
    BY DEF FileKnowsSchedules, Agree, IsRecording, InState
  <2>1. CASE Save
    <3>1. disk' = [disk EXCEPT !.stale = TRUE] => disk'.stale
      BY DEF TypeOK
    <3>2. disk'.schedules = schedules'
      BY <2>1, <3>1 DEF Save
    <3> QED
      BY <3>2 DEF Agree
  <2>2. CASE disk' = disk /\ Agree(schedules', schedules)
    BY <2>2 DEF FileKnowsSchedules, Agree, IsRecording
  <2>3. CASE disk'.schedules = schedules'
    BY <2>3 DEF Agree
  <2> QED
    BY <2>1, <2>2, <2>3, FileSteps
<1> QED
  BY <1>1, <1>2, TypeCorrect, PTL DEF Spec

-----------------------------------------------------------------------------
(* What becomes of the schedule of one program.                             *)

LEMMA StartAt ==
    ASSUME NEW sch, NEW f, NEW p \in Programs,
           \A q \in DOMAIN f : f[q] \in {"ok", "busy", "error"}
    PROVE  /\ p \notin DOMAIN f => Start(sch, f)[p] = sch[p]
           /\ p \in Ending(f, "error") => Start(sch, f)[p] = {}
           /\ p \in Ending(f, "busy") => Start(sch, f)[p] = {WithState(s, "Waiting") : s \in sch[p]}
           /\ p \in Ending(f, "ok") => Start(sch, f)[p] = {WithState(s, "Recording") : s \in sch[p]}
           /\ p \in DOMAIN f => p \in Ending(f, "error") \cup Ending(f, "busy") \cup Ending(f, "ok")
BY DEF Start, MoveTo, Without, Ending

LEMMA WithStateAt ==
    ASSUME NEW s \in Schedule, NEW state
    PROVE  WithState(s, state).state = state /\ WithState(s, state).start = s.start
BY DEF WithState, Schedule

LEMMA MaintainedAt ==
    ASSUME NEW p \in Programs
    PROVE  /\ p \in Expired \cup GivenUp => Maintained[p] = {}
           /\ p \in Over \ GivenUp => Maintained[p] = {WithState(s, "Rescheduling") : s \in schedules[p]}
           /\ p \notin Expired \cup Over => Maintained[p] = schedules[p]
BY DEF Maintained, MoveTo, Without, GivenUp, Over

LEMMA RecordingIsNotOver ==
    ASSUME MapOK(schedules), NEW p \in Programs, IsRecording(p)
    PROVE  p \notin Expired \cup Over
BY DEF MapOK, Expired, Over, InStates, IsRecording, InState

(* The programs ProcessRecording starts: each is due and has a schedule.    *)
LEMMA ProcessRecordingForm ==
    ASSUME ProcessRecording
    PROVE  \E f \in Outcomes({p \in DuePrograms : Maintained[p] # {}}) :
               /\ DOMAIN f = {p \in DuePrograms : Maintained[p] # {}}
               /\ \A q \in DOMAIN f : f[q] \in {"ok", "busy", "error"}
               /\ \A q \in DOMAIN f : recorders[q] # {} => q \in Ending(f, "error")
               /\ schedules' = Start(Maintained, f)
               /\ recorders' = NewRecorders(f)
               /\ queue' = MaintainedQueue \ DueItems
               /\ out' = Event("failed", Expired \cup Over \cup NotStarted(f))
BY DEF ProcessRecording, Outcomes, Emit, Ending

LEMMA StartRecordingForm ==
    ASSUME NEW p \in Programs, StartRecording(p)
    PROVE  \E i \in Program, f \in Outcomes({p}) :
               /\ DOMAIN f = {p}
               /\ \A q \in DOMAIN f : f[q] \in {"ok", "busy", "error"}
               /\ schedules' = Start(Booked(p, i), f)
               /\ recorders' = NewRecorders(f)
               /\ out' = Event("failed", NotStarted(f))
               /\ UNCHANGED queue
BY DEF StartRecording, Outcomes, Emit, EpgProgram

LEMMA BookedAt ==
    ASSUME MapOK(schedules), NEW p \in Programs, NEW i, NEW q \in Programs
    PROVE  /\ q # p => Booked(p, i)[q] = schedules[q]
           /\ Booked(p, i)[p] = {[state |-> "Scheduled", start |-> i.start, open |-> i.open]}
BY DEF Booked, MapOK

LEMMA OnairAt ==
    ASSUME NEW sch, NEW air, NEW p \in Programs
    PROVE  /\ p \notin DOMAIN air => UpdateByOnair(sch, air)[p] = sch[p]
           /\ p \in DOMAIN air =>
                UpdateByOnair(sch, air)[p] = {Tracked(s, air[p]) : s \in sch[p]}
BY DEF UpdateByOnair

(* The steps that leave the schedules and the queue alone.                  *)
LEMMA ScheduleSteps ==
    ASSUME [Next]_vars
    PROVE  \/ Requeue
           \/ UNCHANGED <<schedules, queue>>
           \/ ProcessRecording
           \/ \E p \in Programs : StartRecording(p) \/ RecordingStopped(p)
           \/ \E service \in Services : OnairProgramChanged(service) /\ UNCHANGED queue
<1>1. CASE UserStep
  BY <1>1 DEF UserStep, AddRecordingSchedule, StopRecording, DeleteRecordingHistory
<1>2. CASE UserRemoval
  BY <1>2 DEF UserRemoval, RemoveRecordingSchedule, RemoveAllSchedules, RemoveTaggedSchedules
<1>3. CASE \E p \in Programs : RecorderStep(p)
  BY <1>3 DEF RecorderStep, RecordingStarted, RecordingEnds, RecordingFailed
<1>4. CASE EnvironmentStep
  <2>1. ASSUME NEW service, OnairProgramChanged(service) PROVE Requeue \/ UNCHANGED queue
    BY <2>1 DEF OnairProgramChanged
  <2> QED
    BY <1>4, <2>1 DEF EnvironmentStep, TunerAvailable, ServicesUpdated, ProgramsUpdated
<1>5. CASE Tick \/ TimerExpires \/ Restart
  BY <1>5 DEF Tick, TimerExpires, Restart
<1>6. CASE UNCHANGED vars
  BY <1>6 DEF vars
<1> QED
  BY <1>1, <1>2, <1>3, <1>4, <1>5, <1>6 DEF Next

-----------------------------------------------------------------------------
(* Schedules that are ready wait in the queue.                              *)

(* A waiting schedule that a tracker finds becomes Tracking, and the queue  *)
(* is not rebuilt; without a tracker nothing is ready and not queued.       *)
UntrackedAreQueued ==
    \A p \in Programs : ServiceOf[p] \notin OnAir =>
        \A s \in schedules[p] : IsReady(s) => \E i \in queue : i.program = p

LEMMA UntrackedStep == TypeOK /\ TypeOK' /\ UntrackedAreQueued /\ [Next]_vars => UntrackedAreQueued'
<1> SUFFICES ASSUME TypeOK, TypeOK', UntrackedAreQueued, [Next]_vars,
                    NEW p \in Programs, ServiceOf[p] \notin OnAir,
                    NEW s \in schedules'[p], IsReady(s)
             PROVE  \E i \in queue' : i.program = p
  BY DEF UntrackedAreQueued
<1> USE TypeParts
<1>0. MapOK(schedules) /\ MapOK(schedules')
  BY DEF TypeOK, MapOK
<1>1. CASE Requeue
  <2>1. [program |-> p, start |-> s.start] \in queue'
    BY <1>0, <1>1, QueueOfItems DEF Requeue
  <2> QED
    BY <2>1
<1>2. CASE schedules'[p] = schedules[p] /\ queue' = queue
  BY <1>2 DEF UntrackedAreQueued
<1>3. ASSUME NEW q \in Programs, StartRecording(q) PROVE \E i \in queue' : i.program = p
  <2>1. PICK i \in Program, f \in Outcomes({q}) :
            /\ DOMAIN f = {q}
            /\ \A x \in DOMAIN f : f[x] \in {"ok", "busy", "error"}
            /\ schedules' = Start(Booked(q, i), f)
            /\ UNCHANGED queue
    BY <1>3, StartRecordingForm
  <2>2. CASE p = q
    <3>1. Booked(q, i)[p] \subseteq Schedule
      BY <1>0, BookedMap DEF MapOK
    <3>2. s.state \in {"Waiting", "Recording"}
      BY <2>1, <2>2, <3>1, StartAt, WithStateAt
    <3> QED
      BY <3>2 DEF IsReady
  <2>3. CASE p # q
    <3>1. schedules'[p] = schedules[p]
      BY <1>0, <2>1, <2>3, StartAt, BookedAt
    <3> QED
      BY <1>2, <2>1, <3>1
  <2> QED
    BY <2>2, <2>3
<1>4. ASSUME NEW q \in Programs, RecordingStopped(q) PROVE \E i \in queue' : i.program = p
  <2>1. queue' = queue /\ \E result \in Result : schedules' = AfterStop(q, result)
    BY <1>4 DEF RecordingStopped
  <2>2. CASE p = q
    <3>1. s.state = "Rescheduling"
      BY <1>0, <2>1, <2>2, WithStateAt DEF AfterStop, MoveTo, Without, MapOK
    <3> QED
      BY <3>1 DEF IsReady
  <2>3. CASE p # q
    <3>1. schedules'[p] = schedules[p]
      BY <2>1, <2>3 DEF AfterStop, MoveTo, Without
    <3> QED
      BY <1>2, <2>1, <3>1
  <2> QED
    BY <2>2, <2>3
<1>5. ASSUME NEW service \in Services, OnairProgramChanged(service), UNCHANGED queue
      PROVE  \E i \in queue' : i.program = p
  <2>1. PICK air \in OnairPrograms(service) : schedules' = UpdateByOnair(schedules, air)
    BY <1>5 DEF OnairProgramChanged
  <2>2. p \notin DOMAIN air
    BY OnairMap
  <2> QED
    BY <1>2, <1>5, <2>1, <2>2, OnairAt
<1>6. CASE ProcessRecording
  <2>1. PICK f \in Outcomes({x \in DuePrograms : Maintained[x] # {}}) :
            /\ DOMAIN f = {x \in DuePrograms : Maintained[x] # {}}
            /\ \A x \in DOMAIN f : f[x] \in {"ok", "busy", "error"}
            /\ schedules' = Start(Maintained, f)
            /\ queue' = MaintainedQueue \ DueItems
    BY <1>6, ProcessRecordingForm
  <2>2. MapOK(Maintained)
    BY <1>0, MaintainedMap
  <2>3. p \notin DOMAIN f
    <3> SUFFICES ASSUME p \in DOMAIN f PROVE FALSE
      OBVIOUS
    <3>1. s.state \in {"Waiting", "Recording"}
      BY <2>1, <2>2, StartAt, WithStateAt DEF MapOK
    <3> QED
      BY <3>1 DEF IsReady
  <2>4. s \in Maintained[p] /\ p \notin DuePrograms
    BY <2>1, <2>3, StartAt
  <2>5. \E i \in MaintainedQueue : i.program = p
    <3>1. CASE Expired \cup Over = {}
      <4>1. s \in schedules[p]
        BY <2>4, <3>1, MaintainedAt
      <4> QED
        BY <3>1, <4>1 DEF MaintainedQueue, UntrackedAreQueued
    <3>2. CASE Expired \cup Over # {}
      <4>1. [program |-> p, start |-> s.start] \in MaintainedQueue
        BY <2>2, <2>4, <3>2, QueueOfItems DEF MaintainedQueue
      <4> QED
        BY <4>1
    <3> QED
      BY <3>1, <3>2
  <2> QED
    BY <2>1, <2>4, <2>5 DEF DuePrograms
<1> QED
  BY <1>1, <1>2, <1>3, <1>4, <1>5, <1>6, ScheduleSteps

(* A schedule of a service without an on-air tracker that is ready for      *)
(* recording waits in the queue (rebuild_queue), whatever the trackers of   *)
(* other services announce.                                                 *)
THEOREM UntrackedSchedulesAreQueued == Spec => []UntrackedAreQueued
<1>1. Init => UntrackedAreQueued
  BY DEF Init, UntrackedAreQueued
<1> QED
  BY <1>1, UntrackedStep, TypeCorrect, PTL DEF Spec

(* Where no service has a tracker, every schedule that is ready for         *)
(* recording waits in the queue (rebuild_queue).                            *)
THEOREM ReadyIsQueued == ASSUME OnAir = {} PROVE Spec => []ReadySchedulesAreQueued
<1>1. UntrackedAreQueued => ReadySchedulesAreQueued
  BY DEF UntrackedAreQueued, ReadySchedulesAreQueued
<1> QED
  BY <1>1, UntrackedSchedulesAreQueued, PTL

-----------------------------------------------------------------------------
(* What is queued, and what is recorded.                                    *)

(* A queued program has a schedule that is ready: nothing that is queued is *)
(* gone or recorded already.                                                *)
QueuedAreReady == \A i \in queue : InState(schedules, i.program, {"Scheduled", "Tracking"})
(* A program with a recorder has no schedule, or one that is being recorded.*)
RecordersRecord ==
    \A p \in Programs : recorders[p] # {} => \A s \in schedules[p] : s.state = "Recording"
(* A program is queued once.                                                *)
QueuedOnce == \A i, j \in queue : i.program = j.program => i = j
BookingInv == QueuedAreReady /\ RecordersRecord /\ NothingRecordsUnscheduled /\ QueuedOnce

LEMMA QueueOfOnce ==
    ASSUME NEW sch, MapOK(sch), NEW i \in QueueOf(sch), NEW j \in QueueOf(sch),
           i.program = j.program
    PROVE  i = j
<1>1. i \in QueueItem /\ j \in QueueItem
  BY QueueOfItems
<1>2. i.start = j.start
  BY <1>1, QueueOfItems DEF MapOK, QueueItem
<1> QED
  BY <1>1, <1>2 DEF QueueItem

LEMMA MaintainedQueueOnce ==
    ASSUME MapOK(schedules), QueuedOnce,
           NEW i \in MaintainedQueue, NEW j \in MaintainedQueue, i.program = j.program
    PROVE  i = j
BY MaintainedMap, QueueOfOnce DEF MaintainedQueue, QueuedOnce

LEMMA QueuedOnceStep == TypeOK /\ TypeOK' /\ QueuedOnce /\ [Next]_vars => QueuedOnce'
<1> SUFFICES ASSUME TypeOK, TypeOK', QueuedOnce, [Next]_vars,
                    NEW i \in queue', NEW j \in queue', i.program = j.program
             PROVE  i = j
  BY DEF QueuedOnce
<1>0. MapOK(schedules) /\ MapOK(schedules')
  BY DEF TypeOK, MapOK
<1>1. CASE Requeue
  BY <1>0, <1>1, QueueOfOnce DEF Requeue
<1>2. CASE queue' = queue
  BY <1>2 DEF QueuedOnce
<1>3. CASE ProcessRecording
  BY <1>0, <1>3, ProcessRecordingForm, MaintainedQueueOnce
<1> QED
  BY <1>1, <1>2, <1>3, QueueSteps DEF TimerExpires

LEMMA QueuedStep ==
    ASSUME TypeOK, TypeOK', BookingInv, ~Rebooking, [Next]_vars
    PROVE  QueuedAreReady'
<1> SUFFICES ASSUME NEW i \in queue'
             PROVE  InState(schedules', i.program, {"Scheduled", "Tracking"})
  BY DEF QueuedAreReady, InState
<1> USE TypeParts
<1>0. MapOK(schedules) /\ MapOK(schedules') /\ i.program \in Programs
  BY DEF TypeOK, MapOK, QueueItem
<1>1. CASE Requeue
  BY <1>0, <1>1, QueueOfItems DEF Requeue, InState, IsReady
<1>2. CASE schedules'[i.program] = schedules[i.program] /\ queue' = queue
  BY <1>2 DEF BookingInv, QueuedAreReady, InState
<1>3. ASSUME NEW q \in Programs, StartRecording(q)
      PROVE  InState(schedules', i.program, {"Scheduled", "Tracking"})
  <2>1. PICK j \in Program, f \in Outcomes({q}) :
            /\ DOMAIN f = {q}
            /\ \A x \in DOMAIN f : f[x] \in {"ok", "busy", "error"}
            /\ schedules' = Start(Booked(q, j), f)
            /\ UNCHANGED queue
    BY <1>3, StartRecordingForm
  <2>2. schedules[q] = {}
    BY <1>3 DEF StartRecording, CanBook
  <2>3. i.program # q
    BY <2>1, <2>2 DEF BookingInv, QueuedAreReady, InState
  <2>4. schedules'[i.program] = schedules[i.program]
    BY <1>0, <2>1, <2>3, StartAt, BookedAt
  <2> QED
    BY <1>2, <2>1, <2>4
<1>4. ASSUME NEW q \in Programs, RecordingStopped(q)
      PROVE  InState(schedules', i.program, {"Scheduled", "Tracking"})
  <2>1. /\ queue' = queue /\ recorders[q] # {}
        /\ \E result \in Result : schedules' = AfterStop(q, result)
    BY <1>4 DEF RecordingStopped, TaskIs
  <2>2. i.program # q
    BY <2>1 DEF BookingInv, QueuedAreReady, RecordersRecord, InState
  <2>3. schedules'[i.program] = schedules[i.program]
    BY <1>0, <2>1, <2>2 DEF AfterStop, MoveTo, Without
  <2> QED
    BY <1>2, <2>1, <2>3
<1>5. ASSUME NEW service \in Services, OnairProgramChanged(service), UNCHANGED queue
      PROVE  InState(schedules', i.program, {"Scheduled", "Tracking"})
  <2>1. PICK air \in OnairPrograms(service) : schedules' = UpdateByOnair(schedules, air)
    BY <1>5 DEF OnairProgramChanged
  <2>2. PICK s \in schedules[i.program] : s.state \in {"Scheduled", "Tracking"}
    BY <1>5 DEF BookingInv, QueuedAreReady, InState
  <2>3. \/ s \in schedules'[i.program]
        \/ Tracked(s, air[i.program]) \in schedules'[i.program]
    BY <1>0, <2>1, OnairAt
  <2> QED
    BY <2>2, <2>3 DEF InState, Tracked
<1>6. CASE ProcessRecording
  <2>1. PICK f \in Outcomes({x \in DuePrograms : Maintained[x] # {}}) :
            /\ DOMAIN f = {x \in DuePrograms : Maintained[x] # {}}
            /\ \A x \in DOMAIN f : f[x] \in {"ok", "busy", "error"}
            /\ schedules' = Start(Maintained, f)
            /\ queue' = MaintainedQueue \ DueItems
    BY <1>6, ProcessRecordingForm
  <2>2. MapOK(Maintained)
    BY <1>0, MaintainedMap
  <2>3. \E s \in Maintained[i.program] : IsReady(s) /\ (s.start = i.start \/ Expired \cup Over = {})
    <3>1. CASE Expired \cup Over = {}
      BY <1>0, <2>1, <3>1, MaintainedAt DEF MaintainedQueue, BookingInv, QueuedAreReady, InState, IsReady
    <3>2. CASE Expired \cup Over # {}
      BY <2>1, <2>2, <3>2, QueueOfItems DEF MaintainedQueue
    <3> QED
      BY <3>1, <3>2
  <2>4. CASE i.program \notin DOMAIN f
    BY <1>0, <2>1, <2>3, <2>4, StartAt DEF InState, IsReady
  <2>5. CASE i.program \in DOMAIN f
    <3>1. PICK j \in DueItems : j.program = i.program
      BY <2>1, <2>5 DEF DuePrograms
    <3>2. i \in MaintainedQueue /\ j \in MaintainedQueue
      BY <2>1 DEF DueItems
    <3>3. i = j
      BY <1>0, <3>1, <3>2, MaintainedQueueOnce DEF BookingInv
    <3> QED
      BY <2>1, <3>3
  <2> QED
    BY <2>4, <2>5
<1> QED
  BY <1>1, <1>2, <1>3, <1>4, <1>5, <1>6, ScheduleSteps

(* The steps that start no recorder: they take recorders away, or turn a    *)
(* trigger off.                                                             *)
NoNewRecorder(p) ==
    /\ recorders'[p] # {} => recorders[p] # {}
    /\ \A r \in recorders'[p] : r.trigger => \E r0 \in recorders[p] : r0.trigger

LEMMA DropTriggersAt ==
    ASSUME RecordersOK(recorders), NEW P, DropTriggers(P), NEW p \in Programs
    PROVE  /\ NoNewRecorder(p)
           /\ p \in P => \A r \in recorders'[p] : ~r.trigger
<1>1. recorders'[p] = IF p \in P THEN {[r EXCEPT !.trigger = FALSE] : r \in recorders[p]}
                                  ELSE recorders[p]
  BY DEF DropTriggers
<1>2. CASE p \in P
  <2>1. ASSUME NEW r \in recorders'[p] PROVE recorders[p] # {} /\ r.trigger = FALSE
    <3>1. PICK r0 \in recorders[p] : r = [r0 EXCEPT !.trigger = FALSE]
      BY <1>1, <1>2
    <3>2. r0 \in Recorder
      BY DEF RecordersOK
    <3> QED
      BY <3>1, <3>2 DEF Recorder
  <2> QED
    BY <2>1 DEF NoNewRecorder
<1> QED
  BY <1>1, <1>2 DEF NoNewRecorder

LEMMA SetTaskAt ==
    ASSUME RecordersOK(recorders), NEW q \in Programs, NEW task, SetTask(q, task),
           NEW p \in Programs
    PROVE  NoNewRecorder(p)
<1>1. recorders'[p] = IF p = q THEN {[r EXCEPT !.task = task] : r \in recorders[p]}
                               ELSE recorders[p]
  BY DEF SetTask, RecordersOK
<1>2. ASSUME p = q, NEW r \in recorders'[p]
      PROVE  \E r0 \in recorders[p] : r.trigger = r0.trigger
  <2>1. PICK r0 \in recorders[p] : r = [r0 EXCEPT !.task = task]
    BY <1>1, <1>2
  <2>2. r0 \in Recorder
    BY DEF RecordersOK
  <2> QED
    BY <2>1, <2>2 DEF Recorder
<1> QED
  BY <1>1, <1>2 DEF NoNewRecorder

(* A recorder that is left goes on with what the invariant says of it if    *)
(* its schedule is still recorded, or is gone together with its trigger.    *)
Undisturbed(p) ==
    /\ NoNewRecorder(p)
    /\ recorders[p] # {} => \/ schedules'[p] = schedules[p]
                            \/ /\ \A s \in schedules'[p] : s.state = "Recording"
                               /\ schedules[p] = {} <=> schedules'[p] = {}
                            \/ /\ schedules'[p] = {}
                               /\ \A r \in recorders'[p] : ~r.trigger

RecordedAt(p) ==
    /\ recorders[p] # {} => \A s \in schedules[p] : s.state = "Recording"
    /\ \A r \in recorders[p] : r.trigger => InState(schedules, p, {"Recording"})

LEMMA UndisturbedKeeps ==
    ASSUME NEW p \in Programs, RecordedAt(p), Undisturbed(p)
    PROVE  RecordedAt(p)'
BY DEF RecordedAt, Undisturbed, NoNewRecorder, InState

LEMMA OnairUndisturbed ==
    ASSUME NEW p \in Programs, RecordedAt(p), UNCHANGED recorders, NEW sch, NEW air,
           recorders[p] # {} => sch[p] = schedules[p],
           schedules' = UpdateByOnair(sch, air)
    PROVE  Undisturbed(p)
<1>1. NoNewRecorder(p)
  BY DEF NoNewRecorder
<1>2. CASE recorders[p] # {} /\ p \in DOMAIN air
  <2>1. schedules'[p] = {Tracked(s, air[p]) : s \in schedules[p]}
    BY <1>2, OnairAt
  <2>2. \A s \in schedules[p] : Tracked(s, air[p]).state = "Recording"
    BY <1>2 DEF RecordedAt, Tracked
  <2> QED
    BY <1>1, <2>1, <2>2 DEF Undisturbed
<1> QED
  BY <1>1, <1>2, OnairAt DEF Undisturbed

(* start_recording() for one program: a recorder is only started for a      *)
(* schedule that is recorded then, and one that exists is not disturbed.    *)
LEMMA StartKeeps ==
    ASSUME NEW p \in Programs, RecordedAt(p), NEW sch, MapOK(sch), NEW f,
           \A x \in DOMAIN f : f[x] \in {"ok", "busy", "error"},
           \A x \in DOMAIN f : sch[x] # {},
           p \in DOMAIN f => recorders[p] = {},
           recorders[p] # {} => sch[p] = schedules[p],
           schedules' = Start(sch, f), recorders' = NewRecorders(f)
    PROVE  RecordedAt(p)'
<1>1. CASE p \in Ending(f, "ok")
  <2>1. schedules'[p] = {WithState(s, "Recording") : s \in sch[p]}
    BY <1>1, StartAt
  <2>2. sch[p] # {} /\ \A s \in sch[p] : WithState(s, "Recording").state = "Recording"
    BY <1>1, WithStateAt DEF MapOK, Ending
  <2> QED
    BY <2>1, <2>2 DEF RecordedAt, InState
<1>2. CASE p \notin Ending(f, "ok")
  <2>1. recorders'[p] = recorders[p]
    BY <1>2 DEF NewRecorders
  <2>2. recorders[p] # {} => schedules'[p] = schedules[p]
    BY StartAt
  <2> QED
    BY <2>1, <2>2 DEF RecordedAt, InState
<1> QED
  BY <1>1, <1>2

LEMMA RecordedStep ==
    ASSUME TypeOK, BookingInv, ~Rebooking, [Next]_vars, NEW p \in Programs
    PROVE  RecordedAt(p)'
<1> USE TypeParts
<1>0. RecordedAt(p) /\ MapOK(schedules) /\ RecordersOK(recorders)
  BY DEF BookingInv, RecordersRecord, NothingRecordsUnscheduled, RecordedAt, IsRecording
<1>1. CASE UserStep
  <2>1. ASSUME NEW q \in Programs, AddRecordingSchedule(q) PROVE Undisturbed(p)
    <3>1. PICK i \in EpgProgram, air \in OnairPrograms(ServiceOf[q]) :
              schedules' = UpdateByOnair(Booked(q, i), air)
      BY <2>1 DEF AddRecordingSchedule
    <3>2. recorders[p] # {} => Booked(q, i)[p] = schedules[p]
      BY <1>0, <2>1, BookedAt DEF AddRecordingSchedule, CanBook
    <3> QED
      BY <1>0, <2>1, <3>1, <3>2, OnairUndisturbed DEF AddRecordingSchedule
  <2>2. ASSUME NEW q \in Programs, StartRecording(q) PROVE RecordedAt(p)'
    <3>1. PICK i \in Program, f \in Outcomes({q}) :
              /\ DOMAIN f = {q}
              /\ \A x \in DOMAIN f : f[x] \in {"ok", "busy", "error"}
              /\ schedules' = Start(Booked(q, i), f)
              /\ recorders' = NewRecorders(f)
      BY <2>2, StartRecordingForm
    <3>2. recorders[q] = {}
      BY <2>2 DEF StartRecording, CanBook
    <3>3. MapOK(Booked(q, i)) /\ Booked(q, i)[q] # {}
      BY <1>0, BookedMap, BookedAt
    <3>4. recorders[p] # {} => Booked(q, i)[p] = schedules[p]
      BY <1>0, <3>2, BookedAt
    <3> QED
      BY <1>0, <3>1, <3>2, <3>3, <3>4, StartKeeps
  <2>3. ASSUME NEW q \in Programs, StopRecording(q) PROVE Undisturbed(p)
    BY <1>0, <2>3, DropTriggersAt DEF StopRecording, Undisturbed
  <2>4. ASSUME DeleteRecordingHistory PROVE Undisturbed(p)
    BY <2>4 DEF DeleteRecordingHistory, Undisturbed, NoNewRecorder
  <2> QED
    BY <1>0, <1>1, <2>1, <2>2, <2>3, <2>4, UndisturbedKeeps DEF UserStep
<1>2. CASE UserRemoval
  <2>1. ASSUME NEW q \in Programs, RemoveRecordingSchedule(q) PROVE Undisturbed(p)
    <3>1. CASE p = q
      BY <1>0, <2>1, <3>1, DropTriggersAt DEF RemoveRecordingSchedule, Without, Undisturbed,
         RecordedAt, IsRecording, NoNewRecorder
    <3>2. CASE p # q
      BY <1>0, <2>1, <3>2, DropTriggersAt DEF RemoveRecordingSchedule, Without, Undisturbed
    <3> QED
      BY <3>1, <3>2
  <2>2. ASSUME RemoveAllSchedules PROVE Undisturbed(p)
    BY <1>0, <2>2, DropTriggersAt DEF RemoveAllSchedules, Without, Undisturbed, InStates,
       RecordedAt, NoNewRecorder
  <2>3. ASSUME NEW tagged, RemoveTaggedSchedules(tagged) PROVE Undisturbed(p)
    <3>1. recorders[p] # {} /\ schedules[p] # {} => Spared(p)
      BY <1>0 DEF RecordedAt, Spared
    <3> QED
      BY <1>0, <2>3, <3>1 DEF RemoveTaggedSchedules, Without, Undisturbed, NoNewRecorder
  <2> QED
    BY <1>0, <1>2, <2>1, <2>2, <2>3, UndisturbedKeeps DEF UserRemoval
<1>3. ASSUME NEW q \in Programs, RecorderStep(q) PROVE RecordedAt(p)'
  <2>1. CASE RecordingStopped(q)
    <3>1. recorders'[q] = {} /\ (p # q => recorders'[p] = recorders[p])
      BY <1>0, <2>1 DEF RecordingStopped, RecordersOK
    <3>2. p # q => schedules'[p] = schedules[p]
      BY <2>1 DEF RecordingStopped, AfterStop, MoveTo, Without
    <3> QED
      BY <1>0, <3>1, <3>2 DEF RecordedAt, InState
  <2>2. CASE RecordingStarted(q) \/ RecordingEnds(q) \/ RecordingFailed(q)
    <3>1. schedules' = schedules /\ \E task : SetTask(q, task)
      BY <2>2 DEF RecordingStarted, RecordingEnds, RecordingFailed
    <3>2. Undisturbed(p)
      BY <1>0, <3>1, SetTaskAt DEF Undisturbed
    <3> QED
      BY <1>0, <3>2, UndisturbedKeeps
  <2> QED
    BY <1>3, <2>1, <2>2 DEF RecorderStep
<1>4. CASE EnvironmentStep
  <2>1. recorders[p] # {} => p \notin Idle /\ p \notin InStates({"Waiting"})
    BY <1>0 DEF RecordedAt, Idle, InStates, InState, Pending
  <2>2. ASSUME NEW types, TunerAvailable(types) PROVE Undisturbed(p)
    BY <2>1, <2>2 DEF TunerAvailable, MoveTo, Undisturbed, NoNewRecorder
  <2>3. ASSUME NEW present, ServicesUpdated(present) PROVE Undisturbed(p)
    <3>1. \E P \in SUBSET Idle : schedules' = Without(schedules, P) /\ DropTriggers(P)
      BY <2>3 DEF ServicesUpdated
    <3> QED
      BY <1>0, <2>1, <3>1, DropTriggersAt DEF Without, Undisturbed
  <2>4. ASSUME NEW service, ProgramsUpdated(service) PROVE Undisturbed(p)
    BY <2>1, <2>4, ProgramsUpdatedForm DEF RenewedSchedules, Undisturbed, NoNewRecorder
  <2>5. ASSUME NEW service, OnairProgramChanged(service) PROVE Undisturbed(p)
    BY <1>0, <2>5, OnairUndisturbed DEF OnairProgramChanged
  <2> QED
    BY <1>0, <1>4, <2>2, <2>3, <2>4, <2>5, UndisturbedKeeps DEF EnvironmentStep
<1>5. CASE ProcessRecording
  <2>1. PICK f \in Outcomes({x \in DuePrograms : Maintained[x] # {}}) :
            /\ DOMAIN f = {x \in DuePrograms : Maintained[x] # {}}
            /\ \A x \in DOMAIN f : f[x] \in {"ok", "busy", "error"}
            /\ schedules' = Start(Maintained, f)
            /\ recorders' = NewRecorders(f)
    BY <1>5, ProcessRecordingForm
  <2>2. MapOK(Maintained)
    BY <1>0, MaintainedMap
  <2>3. CASE recorders[p] = {}
    BY <1>0, <2>1, <2>2, <2>3, StartKeeps
  <2>4. CASE recorders[p] # {}
    <3>1. Maintained[p] = schedules[p]
      <4>1. CASE schedules[p] = {}
        BY <4>1, MaintainedAt
      <4>2. CASE schedules[p] # {}
        BY <1>0, <2>4, <4>2, RecordingIsNotOver, MaintainedAt DEF RecordedAt, IsRecording, InState
      <4> QED
        BY <4>1, <4>2
    <3>2. \A s \in Maintained[p] : ~IsReady(s)
      BY <1>0, <2>4, <3>1 DEF RecordedAt, IsReady
    <3>3. \A i \in MaintainedQueue : i.program = p => FALSE
      BY <1>0, <2>2, <2>4, <3>2, QueueOfItems DEF MaintainedQueue, BookingInv, QueuedAreReady,
         RecordersRecord, InState
    <3>4. p \notin DOMAIN f
      BY <2>1, <3>3 DEF DuePrograms, DueItems
    <3> QED
      BY <1>0, <2>1, <2>2, <3>1, <3>4, StartKeeps
  <2> QED
    BY <2>3, <2>4
<1>6. CASE Tick \/ TimerExpires \/ UNCHANGED vars
  BY <1>0, <1>6 DEF Tick, TimerExpires, vars, RecordedAt, InState
<1>7. CASE Restart
  BY <1>7 DEF Restart, RecordedAt
<1> QED
  BY <1>1, <1>2, <1>3, <1>4, <1>5, <1>6, <1>7 DEF Next

(* Unless a program is booked again while its old recorder stops, what is   *)
(* queued is ready and what has a recorder is recorded, or is gone and has  *)
(* been told to stop.                                                       *)
THEOREM BookingIsKept == ASSUME ~Rebooking PROVE Spec => []BookingInv
<1>1. Init => BookingInv
  BY DEF Init, BookingInv, QueuedAreReady, RecordersRecord, NothingRecordsUnscheduled, QueuedOnce
<1>2. TypeOK /\ TypeOK' /\ BookingInv /\ [Next]_vars => BookingInv'
  <2> SUFFICES ASSUME TypeOK, TypeOK', BookingInv, [Next]_vars PROVE BookingInv'
    OBVIOUS
  <2>1. QueuedAreReady'
    BY QueuedStep
  <2>2. QueuedOnce'
    BY QueuedOnceStep DEF BookingInv
  <2>3. RecordersRecord' /\ NothingRecordsUnscheduled'
    BY RecordedStep DEF RecordedAt, RecordersRecord, NothingRecordsUnscheduled, IsRecording, InState
  <2> QED
    BY <2>1, <2>2, <2>3 DEF BookingInv
<1> QED
  BY <1>1, <1>2, TypeCorrect, PTL DEF Spec

(* No recorder goes on without its schedule: every handler that removes a   *)
(* schedule drops the stop trigger of its recorder (stop_recorder).         *)
THEOREM NothingIsRecordedUnscheduled == ASSUME ~Rebooking PROVE Spec => []NothingRecordsUnscheduled
<1>1. BookingInv => NothingRecordsUnscheduled
  BY DEF BookingInv
<1> QED
  BY <1>1, BookingIsKept, PTL

(* The assertion of dequeue_next_schedules holds: what is dequeued has a    *)
(* schedule.                                                                *)
THEOREM DequeuedExist == ASSUME ~Rebooking PROVE Spec => []DequeuedSchedulesExist
<1>1. TypeOK /\ BookingInv => DequeuedSchedulesExist
  <2> SUFFICES ASSUME TypeOK, BookingInv, NEW i \in DueItems PROVE Maintained[i.program] # {}
    BY DEF DequeuedSchedulesExist
  <2>1. MapOK(schedules) /\ MapOK(Maintained)
    BY TypeParts, MaintainedMap
  <2>2. i \in MaintainedQueue /\ i.program \in Programs
    BY <2>1, MaintainedQueueItems, TypeParts DEF DueItems, DuePrograms
  <2>3. CASE Expired \cup Over = {}
    BY <2>2, <2>3, MaintainedAt DEF MaintainedQueue, BookingInv, QueuedAreReady, InState
  <2>4. CASE Expired \cup Over # {}
    BY <2>1, <2>2, <2>4, QueueOfItems DEF MaintainedQueue
  <2> QED
    BY <2>3, <2>4
<1> QED
  BY <1>1, BookingIsKept, TypeCorrect, PTL

-----------------------------------------------------------------------------
(* What is announced.                                                       *)

(* What a step may do to a schedule without a word about it: s stays a      *)
(* schedule, and does not begin to wait or to be rescheduled.               *)
Continues(p, s) ==
    /\ schedules'[p] # {}
    /\ \A s2 \in schedules'[p] : s2.state \in {"Waiting", "Rescheduling"} => s2.state = s.state
LeavesSilently(p, s) ==
    (s.state = "Recording" /\ Announced("stopped", p)) \/ UserRemoval
FailureAnnounced(p, s) ==
    /\ schedules'[p] = {} => Announced("failed", p) \/ LeavesSilently(p, s)
    /\ \A s2 \in schedules'[p] :
         s2.state \in {"Waiting", "Rescheduling"} /\ s.state # s2.state => Announced("failed", p)

LEMMA EventIn ==
    ASSUME NEW kind, NEW P, NEW p \in P, Event(kind, P) \subseteq out'
    PROVE  Announced(kind, p)
BY DEF Event, Announced

LEMMA ContinuesSilently ==
    ASSUME NEW p, NEW s, Continues(p, s) PROVE FailureAnnounced(p, s)
BY DEF Continues, FailureAnnounced

LEMMA UnchangedContinues ==
    ASSUME TypeOK, NEW p \in Programs, NEW s \in schedules[p], schedules'[p] = schedules[p]
    PROVE  Continues(p, s)
BY DEF TypeOK, Continues

LEMMA OnairContinues ==
    ASSUME TypeOK, NEW p \in Programs, NEW s \in schedules[p], NEW sch, NEW air,
           sch[p] = schedules[p], schedules' = UpdateByOnair(sch, air)
    PROVE  Continues(p, s)
<1>1. CASE p \in DOMAIN air
  <2>1. schedules'[p] = {Tracked(x, air[p]) : x \in schedules[p]}
    BY <1>1, OnairAt
  <2>2. \A x : Tracked(x, air[p]).state \in {"Recording", "Tracking"}
    BY DEF Tracked
  <2> QED
    BY <2>1, <2>2 DEF Continues
<1>2. CASE p \notin DOMAIN air
  BY <1>2, OnairAt, UnchangedContinues
<1> QED
  BY <1>1, <1>2

LEMMA ProcessRecordingAnnounces ==
    ASSUME TypeOK, ProcessRecording, NEW p \in Programs, NEW s \in schedules[p]
    PROVE  FailureAnnounced(p, s)
<1>1. PICK f \in Outcomes({x \in DuePrograms : Maintained[x] # {}}) :
          /\ \A x \in DOMAIN f : f[x] \in {"ok", "busy", "error"}
          /\ schedules' = Start(Maintained, f)
          /\ out' = Event("failed", Expired \cup Over \cup NotStarted(f))
  BY ProcessRecordingForm
<1>2. MapOK(schedules) /\ MapOK(Maintained)
  BY TypeParts, MaintainedMap
<1>3. CASE p \in Expired \cup Over \cup NotStarted(f)
  BY <1>1, <1>3, EventIn DEF FailureAnnounced
<1>4. CASE p \notin Expired \cup Over \cup NotStarted(f)
  <2>1. Maintained[p] = schedules[p]
    BY <1>4, MaintainedAt
  <2>2. CASE p \in DOMAIN f
    <3>1. schedules'[p] = {WithState(x, "Recording") : x \in schedules[p]}
      BY <1>1, <1>4, <2>1, <2>2, StartAt DEF NotStarted
    <3>2. \A x \in schedules[p] : WithState(x, "Recording").state = "Recording"
      BY <1>2, WithStateAt DEF MapOK
    <3> QED
      BY <3>1, <3>2, ContinuesSilently DEF Continues
  <2>3. CASE p \notin DOMAIN f
    BY <1>1, <2>1, <2>3, StartAt, UnchangedContinues, ContinuesSilently
  <2> QED
    BY <2>2, <2>3
<1> QED
  BY <1>3, <1>4

LEMMA StepAnnounces ==
    ASSUME TypeOK, BookingInv, [Next]_vars, restarts' = restarts,
           NEW p \in Programs, NEW s \in schedules[p]
    PROVE  FailureAnnounced(p, s)
<1> USE TypeParts
<1>0. MapOK(schedules) /\ s \in Schedule
  BY DEF MapOK
<1>1. CASE UserStep
  <2>1. ASSUME NEW q \in Programs, AddRecordingSchedule(q) PROVE Continues(p, s)
    <3>1. PICK i \in EpgProgram, air \in OnairPrograms(ServiceOf[q]) :
              schedules' = UpdateByOnair(Booked(q, i), air)
      BY <2>1 DEF AddRecordingSchedule
    <3>2. p # q
      BY <2>1 DEF AddRecordingSchedule, CanBook
    <3> QED
      BY <1>0, <3>1, <3>2, BookedAt, OnairContinues
  <2>2. ASSUME NEW q \in Programs, StartRecording(q) PROVE Continues(p, s)
    <3>1. PICK i \in Program, f \in Outcomes({q}) :
              /\ DOMAIN f = {q}
              /\ \A x \in DOMAIN f : f[x] \in {"ok", "busy", "error"}
              /\ schedules' = Start(Booked(q, i), f)
      BY <2>2, StartRecordingForm
    <3>2. p # q
      BY <2>2 DEF StartRecording, CanBook
    <3> QED
      BY <1>0, <3>1, <3>2, StartAt, BookedAt, UnchangedContinues
  <2>3. ASSUME (\E q \in Programs : StopRecording(q)) \/ DeleteRecordingHistory
        PROVE  Continues(p, s)
    BY <2>3, UnchangedContinues DEF StopRecording, DeleteRecordingHistory
  <2> QED
    BY <1>1, <2>1, <2>2, <2>3, ContinuesSilently DEF UserStep
<1>2. CASE UserRemoval
  <2>1. schedules'[p] = schedules[p] \/ schedules'[p] = {}
    BY <1>2 DEF UserRemoval, RemoveRecordingSchedule, RemoveAllSchedules, RemoveTaggedSchedules, Without
  <2> QED
    BY <1>2, <2>1, UnchangedContinues, ContinuesSilently DEF FailureAnnounced, LeavesSilently
<1>3. ASSUME NEW q \in Programs, RecorderStep(q) PROVE FailureAnnounced(p, s)
  <2>1. CASE RecordingStopped(q)
    <3>1. PICK result \in Result :
              schedules' = AfterStop(q, result) /\ out' = StopEvents(q, result)
      BY <2>1 DEF RecordingStopped, Emit
    <3>2. CASE p # q
      <4>1. schedules'[p] = schedules[p]
        BY <3>1, <3>2 DEF AfterStop, MoveTo, Without
      <4> QED
        BY <4>1, UnchangedContinues, ContinuesSilently
    <3>3. CASE p = q /\ result = "retry"
      <4>1. Announced("failed", p)
        BY <3>1, <3>3, EventIn DEF StopEvents
      <4> QED
        BY <4>1 DEF FailureAnnounced
    <3>4. CASE p = q /\ result # "retry"
      <4>1. schedules'[p] = {}
        BY <3>1, <3>4 DEF AfterStop, Without
      <4>2. Announced("stopped", p)
        BY <3>1, <3>4, EventIn DEF StopEvents
      <4>3. s.state = "Recording"
        BY <2>1, <3>4 DEF RecordingStopped, TaskIs, BookingInv, RecordersRecord
      <4> QED
        BY <4>1, <4>2, <4>3 DEF FailureAnnounced, LeavesSilently
    <3> QED
      BY <3>2, <3>3, <3>4
  <2>2. CASE RecordingStarted(q) \/ RecordingEnds(q) \/ RecordingFailed(q)
    BY <2>2, UnchangedContinues, ContinuesSilently DEF RecordingStarted, RecordingEnds, RecordingFailed
  <2> QED
    BY <1>3, <2>1, <2>2 DEF RecorderStep
<1>4. CASE EnvironmentStep
  <2>1. ASSUME NEW types, TunerAvailable(types) PROVE Continues(p, s)
    <3>1. PICK P : schedules' = MoveTo(schedules, P, "Scheduled")
      BY <2>1 DEF TunerAvailable
    <3>2. \A x \in schedules[p] : WithState(x, "Scheduled").state = "Scheduled"
      BY <1>0, WithStateAt DEF MapOK
    <3>3. schedules'[p] = schedules[p] \/ schedules'[p] = {WithState(x, "Scheduled") : x \in schedules[p]}
      BY <3>1 DEF MoveTo
    <3> QED
      BY <3>2, <3>3, UnchangedContinues DEF Continues
  <2>2. ASSUME NEW present, ServicesUpdated(present) PROVE FailureAnnounced(p, s)
    <3>1. PICK P \in SUBSET Idle : schedules' = Without(schedules, P) /\ out' = Event("failed", P)
      BY <2>2 DEF ServicesUpdated, Emit
    <3>2. CASE p \in P
      BY <3>1, <3>2, EventIn DEF FailureAnnounced
    <3>3. CASE p \notin P
      BY <3>1, <3>3, UnchangedContinues, ContinuesSilently DEF Without
    <3> QED
      BY <3>2, <3>3
  <2>3. ASSUME NEW service, ProgramsUpdated(service) PROVE FailureAnnounced(p, s)
    <3>1. PICK epg : \E renewed, removed \in SUBSET Idle :
              /\ \A x \in renewed : epg[x] # {} /\ \A i, j \in epg[x] : i = j
              /\ schedules' = RenewedSchedules(epg, renewed, removed)
              /\ Event("failed", removed) \subseteq out'
      BY <2>3, ProgramsUpdatedForm
    <3>2. PICK renewed \in SUBSET Idle, removed \in SUBSET Idle :
              /\ \A x \in renewed : epg[x] # {} /\ \A i, j \in epg[x] : i = j
              /\ schedules' = RenewedSchedules(epg, renewed, removed)
              /\ Event("failed", removed) \subseteq out'
      BY <3>1
    <3>3. CASE p \in removed
      BY <3>2, <3>3, EventIn DEF FailureAnnounced
    <3>4. CASE p \in renewed
      <4>1. schedules'[p] = UNION {{Renewed(x, i) : x \in schedules[p]} : i \in epg[p]}
        BY <3>2, <3>4 DEF RenewedSchedules
      <4>2. \A x \in schedules[p], i \in epg[p] : Renewed(x, i).state \in {s.state, "Scheduled"}
        BY <1>0 DEF Renewed, MapOK
      <4> QED
        BY <3>2, <3>4, <4>1, <4>2, ContinuesSilently DEF Continues
    <3>5. CASE p \notin renewed \cup removed
      BY <3>2, <3>5, UnchangedContinues, ContinuesSilently DEF RenewedSchedules
    <3> QED
      BY <3>3, <3>4, <3>5
  <2>4. ASSUME NEW service, OnairProgramChanged(service) PROVE Continues(p, s)
    BY <2>4, OnairContinues DEF OnairProgramChanged
  <2> QED
    BY <1>4, <2>1, <2>2, <2>3, <2>4, ContinuesSilently DEF EnvironmentStep
<1>5. CASE Tick \/ TimerExpires \/ UNCHANGED vars
  BY <1>5, UnchangedContinues, ContinuesSilently DEF Tick, TimerExpires, vars
<1>6. CASE Restart
  BY <1>6 DEF Restart
<1> QED
  BY <1>1, <1>2, <1>3, <1>4, <1>5, <1>6, ProcessRecordingAnnounces DEF Next

(* A schedule leaves only at a user's request, after its recording, or with *)
(* a recording.failed event, and so does each that must wait or be          *)
(* rescheduled: nobody waits in vain for a recording (emit_* in every       *)
(* handler).                                                                *)
THEOREM FailuresAreToldOf == ASSUME ~Rebooking PROVE Spec => FailuresAreAnnounced
<1>1. TypeOK /\ BookingInv /\ [Next]_vars =>
          [restarts' = restarts => \A p \in Programs : \A s \in schedules[p] :
              /\ schedules'[p] = {} => \/ Announced("failed", p)
                                      \/ (s.state = "Recording" /\ Announced("stopped", p))
                                      \/ UserRemoval
              /\ \A s2 \in schedules'[p] :
                   s2.state \in {"Waiting", "Rescheduling"} /\ s.state # s2.state
                       => Announced("failed", p)]_vars
  BY StepAnnounces DEF FailureAnnounced, LeavesSilently
<1> QED
  BY <1>1, BookingIsKept, TypeCorrect, PTL DEF Spec, FailuresAreAnnounced

(* What a step may do to a schedule s of p: its start time moves with an    *)
(* announcement, and its state as RecordingScheduleState documents it.      *)
MoveAnnounced(p, s) ==
    \A s2 \in schedules'[p] :
       s.start # s2.start /\ s.state # "Recording" => Announced("rescheduled", p)
TransitionDocumented(p, s) ==
    \A s2 \in schedules'[p] : s.state = s2.state \/ s2.state \in Documented[s.state]

LEMMA UnchangedMoves ==
    ASSUME TypeOK, NEW p \in Programs, NEW s \in schedules[p],
           schedules'[p] = schedules[p] \/ schedules'[p] = {}
    PROVE  MoveAnnounced(p, s) /\ TransitionDocumented(p, s)
BY DEF TypeOK, MoveAnnounced, TransitionDocumented

(* A move to another state keeps the start time.                            *)
LEMMA MovedTo ==
    ASSUME TypeOK, NEW p \in Programs, NEW s \in schedules[p], NEW state,
           schedules'[p] = {WithState(x, state) : x \in schedules[p]},
           state = s.state \/ state \in Documented[s.state]
    PROVE  MoveAnnounced(p, s) /\ TransitionDocumented(p, s)
<1>1. s \in Schedule /\ \A x \in schedules[p] : x = s
  BY DEF TypeOK
<1>2. schedules'[p] = {WithState(s, state)}
  BY <1>1
<1>3. WithState(s, state).state = state /\ WithState(s, state).start = s.start
  BY <1>1, WithStateAt
<1> QED
  BY <1>2, <1>3 DEF MoveAnnounced, TransitionDocumented

LEMMA OnairMoves ==
    ASSUME TypeOK, NEW p \in Programs, NEW s \in schedules[p], NEW sch, NEW air,
           sch[p] = schedules[p], schedules' = UpdateByOnair(sch, air),
           out' = Event("rescheduled", Moved(sch, air))
    PROVE  MoveAnnounced(p, s) /\ TransitionDocumented(p, s)
<1>1. s \in Schedule /\ \A x \in schedules[p] : x = s
  BY DEF TypeOK
<1>2. CASE p \in DOMAIN air
  <2>1. schedules'[p] = {Tracked(s, air[p])}
    BY <1>1, <1>2, OnairAt
  <2>2. /\ Tracked(s, air[p]).start = air[p].start
        /\ Tracked(s, air[p]).state = IF s.state = "Recording" THEN "Recording" ELSE "Tracking"
    BY DEF Tracked
  <2>3. s.state # "Recording" /\ s.start # air[p].start => p \in Moved(sch, air)
    BY <1>2 DEF Moved
  <2>4. MoveAnnounced(p, s)
    BY <2>1, <2>2, <2>3, EventIn DEF MoveAnnounced
  <2>5. s.state = "Recording" \/ "Tracking" \in Documented[s.state] \/ s.state = "Tracking"
    BY <1>1 DEF Schedule, Pending, Documented
  <2>6. TransitionDocumented(p, s)
    BY <2>1, <2>2, <2>5 DEF TransitionDocumented
  <2> QED
    BY <2>4, <2>6
<1>3. CASE p \notin DOMAIN air
  BY <1>3, OnairAt, UnchangedMoves
<1> QED
  BY <1>2, <1>3

(* start_recording() takes schedules that are ready, maintain_schedules()   *)
(* reschedules those whose recording should have started.                   *)
LEMMA ProcessRecordingMoves ==
    ASSUME TypeOK, ProcessRecording, NEW p \in Programs, NEW s \in schedules[p]
    PROVE  MoveAnnounced(p, s) /\ (QueuedAreReady => TransitionDocumented(p, s))
<1>1. PICK f \in Outcomes({x \in DuePrograms : Maintained[x] # {}}) :
          /\ DOMAIN f = {x \in DuePrograms : Maintained[x] # {}}
          /\ \A x \in DOMAIN f : f[x] \in {"ok", "busy", "error"}
          /\ schedules' = Start(Maintained, f)
  BY ProcessRecordingForm
<1>2. s \in Schedule /\ \A x \in schedules[p] : x = s
  BY DEF TypeOK
<1>3. MapOK(schedules) /\ MapOK(Maintained)
  BY TypeParts, MaintainedMap
<1>4. ASSUME NEW r \in Maintained[p]
      PROVE  /\ r.start = s.start
             /\ r = s \/ (r.state = "Rescheduling" /\ s.state \in {"Scheduled", "Tracking"})
  <2>1. CASE p \notin Expired \cup Over
    BY <1>2, <1>4, <2>1, MaintainedAt
  <2>2. CASE p \in Expired \cup GivenUp
    BY <1>4, <2>2, MaintainedAt
  <2>3. CASE p \in Over \ GivenUp
    <3>1. r = WithState(s, "Rescheduling")
      BY <1>2, <1>4, <2>3, MaintainedAt
    <3>2. s.state \in {"Scheduled", "Tracking"}
      BY <1>2, <2>3 DEF Over, GivenUp, InStates, InState
    <3> QED
      BY <1>2, <3>1, <3>2, WithStateAt
  <2> QED
    BY <2>1, <2>2, <2>3
<1>5. ASSUME QueuedAreReady, p \in DOMAIN f, NEW r \in Maintained[p]
      PROVE  r = s /\ s.state \in {"Scheduled", "Tracking"}
  <2>1. PICK i \in MaintainedQueue : i.program = p
    BY <1>1, <1>5 DEF DuePrograms, DueItems
  <2>2. CASE Expired \cup Over = {}
    <3>1. i \in queue /\ Maintained[p] = schedules[p]
      BY <2>1, <2>2, MaintainedAt DEF MaintainedQueue
    <3> QED
      BY <1>2, <1>5, <2>1, <3>1 DEF QueuedAreReady, InState
  <2>3. CASE Expired \cup Over # {}
    <3>1. i \in QueueOf(Maintained)
      BY <2>1, <2>3 DEF MaintainedQueue
    <3>2. InState(Maintained, p, {"Scheduled", "Tracking"})
      BY <1>3, <2>1, <3>1, QueueOfItems DEF IsReady, InState
    <3>3. r.state \in {"Scheduled", "Tracking"}
      BY <1>3, <1>5, <3>2 DEF InState, MapOK
    <3> QED
      BY <1>4, <1>5, <3>3
  <2> QED
    BY <2>2, <2>3
<1>6. ASSUME NEW s2 \in schedules'[p]
      PROVE  /\ s2.start = s.start
             /\ QueuedAreReady => s.state = s2.state \/ s2.state \in Documented[s.state]
  <2>1. CASE p \notin DOMAIN f
    <3>1. s2 \in Maintained[p]
      BY <1>1, <1>6, <2>1, StartAt
    <3> QED
      BY <1>4, <3>1 DEF Documented
  <2>2. CASE p \in DOMAIN f
    <3>1. PICK r \in Maintained[p], state \in {"Waiting", "Recording"} : s2 = WithState(r, state)
      BY <1>1, <1>6, <2>2, StartAt
    <3>2. r \in Schedule
      BY <1>3 DEF MapOK
    <3>3. s2.state = state /\ s2.start = r.start
      BY <3>1, <3>2, WithStateAt
    <3> QED
      BY <1>4, <1>5, <2>2, <3>1, <3>3 DEF Documented
  <2> QED
    BY <2>1, <2>2
<1> QED
  BY <1>6 DEF MoveAnnounced, TransitionDocumented

LEMMA StepMoves ==
    ASSUME TypeOK, [Next]_vars, restarts' = restarts, NEW p \in Programs, NEW s \in schedules[p]
    PROVE  MoveAnnounced(p, s) /\ (BookingInv => TransitionDocumented(p, s))
<1> USE TypeParts
<1>0. MapOK(schedules) /\ s \in Schedule /\ \A x \in schedules[p] : x = s
  BY DEF MapOK
<1>1. CASE UserStep
  <2>1. ASSUME NEW q \in Programs, AddRecordingSchedule(q)
        PROVE  MoveAnnounced(p, s) /\ TransitionDocumented(p, s)
    <3>1. PICK i \in EpgProgram, air \in OnairPrograms(ServiceOf[q]) :
              /\ schedules' = UpdateByOnair(Booked(q, i), air)
              /\ out' = Event("rescheduled", Moved(Booked(q, i), air))
      BY <2>1 DEF AddRecordingSchedule, Emit
    <3>2. p # q
      BY <2>1 DEF AddRecordingSchedule, CanBook
    <3>3. Booked(q, i)[p] = schedules[p]
      BY <1>0, <3>2, BookedAt
    <3> QED
      BY <3>1, <3>3, OnairMoves
  <2>2. ASSUME NEW q \in Programs, StartRecording(q) PROVE schedules'[p] = schedules[p]
    <3>1. PICK i \in Program, f \in Outcomes({q}) :
              /\ DOMAIN f = {q}
              /\ \A x \in DOMAIN f : f[x] \in {"ok", "busy", "error"}
              /\ schedules' = Start(Booked(q, i), f)
      BY <2>2, StartRecordingForm
    <3>2. p # q
      BY <2>2 DEF StartRecording, CanBook
    <3> QED
      BY <1>0, <3>1, <3>2, StartAt, BookedAt
  <2>3. ASSUME (\E q \in Programs : StopRecording(q)) \/ DeleteRecordingHistory
        PROVE  schedules'[p] = schedules[p]
    BY <2>3 DEF StopRecording, DeleteRecordingHistory
  <2> QED
    BY <1>1, <2>1, <2>2, <2>3, UnchangedMoves DEF UserStep
<1>2. CASE UserRemoval
  <2>1. schedules'[p] = schedules[p] \/ schedules'[p] = {}
    BY <1>2 DEF UserRemoval, RemoveRecordingSchedule, RemoveAllSchedules, RemoveTaggedSchedules, Without
  <2> QED
    BY <2>1, UnchangedMoves
<1>3. ASSUME NEW q \in Programs, RecorderStep(q)
      PROVE  MoveAnnounced(p, s) /\ (BookingInv => TransitionDocumented(p, s))
  <2>1. CASE RecordingStopped(q)
    <3>1. PICK result \in Result : schedules' = AfterStop(q, result)
      BY <2>1 DEF RecordingStopped
    <3>2. CASE p # q \/ result # "retry"
      <4>1. schedules'[p] = schedules[p] \/ schedules'[p] = {}
        BY <3>1, <3>2 DEF AfterStop, MoveTo, Without
      <4> QED
        BY <4>1, UnchangedMoves
    <3>3. CASE p = q /\ result = "retry"
      <4>1. schedules'[p] = {WithState(x, "Rescheduling") : x \in schedules[p]}
        BY <3>1, <3>3 DEF AfterStop, MoveTo
      <4>2. BookingInv => s.state = "Recording"
        BY <2>1, <3>3 DEF RecordingStopped, TaskIs, BookingInv, RecordersRecord
      <4>3. BookingInv => MoveAnnounced(p, s) /\ TransitionDocumented(p, s)
        BY <4>1, <4>2, MovedTo DEF Documented
      <4>4. MoveAnnounced(p, s)
        BY <1>0, <4>1, WithStateAt DEF MoveAnnounced
      <4> QED
        BY <4>3, <4>4
    <3> QED
      BY <3>2, <3>3
  <2>2. CASE RecordingStarted(q) \/ RecordingEnds(q) \/ RecordingFailed(q)
    <3>1. schedules' = schedules
      BY <2>2 DEF RecordingStarted, RecordingEnds, RecordingFailed
    <3> QED
      BY <3>1, UnchangedMoves
  <2> QED
    BY <1>3, <2>1, <2>2 DEF RecorderStep
<1>4. CASE EnvironmentStep
  <2>1. ASSUME NEW types, TunerAvailable(types) PROVE MoveAnnounced(p, s) /\ TransitionDocumented(p, s)
    <3>1. PICK P \in SUBSET InStates({"Waiting"}) : schedules' = MoveTo(schedules, P, "Scheduled")
      BY <2>1 DEF TunerAvailable
    <3>2. CASE p \in P
      <4>1. s.state = "Waiting"
        BY <1>0, <3>2 DEF InStates, InState
      <4>2. schedules'[p] = {WithState(x, "Scheduled") : x \in schedules[p]}
        BY <3>1, <3>2 DEF MoveTo
      <4> QED
        BY <4>1, <4>2, MovedTo DEF Documented
    <3>3. CASE p \notin P
      <4>1. schedules'[p] = schedules[p]
        BY <3>1, <3>3 DEF MoveTo
      <4> QED
        BY <4>1, UnchangedMoves
    <3> QED
      BY <3>2, <3>3
  <2>2. ASSUME NEW present, ServicesUpdated(present) PROVE MoveAnnounced(p, s) /\ TransitionDocumented(p, s)
    <3>1. schedules'[p] = schedules[p] \/ schedules'[p] = {}
      BY <2>2 DEF ServicesUpdated, Without
    <3> QED
      BY <3>1, UnchangedMoves
  <2>3. ASSUME NEW service, ProgramsUpdated(service) PROVE MoveAnnounced(p, s) /\ TransitionDocumented(p, s)
    <3>1. PICK epg : \E renewed, removed \in SUBSET Idle :
              /\ \A x \in renewed : epg[x] # {} /\ \A i, j \in epg[x] : i = j
              /\ schedules' = RenewedSchedules(epg, renewed, removed)
              /\ Event("rescheduled", MovedBy(epg, renewed)) \subseteq out'
      BY <2>3, ProgramsUpdatedForm
    <3>2. PICK renewed \in SUBSET Idle, removed \in SUBSET Idle :
              /\ \A x \in renewed : epg[x] # {} /\ \A i, j \in epg[x] : i = j
              /\ schedules' = RenewedSchedules(epg, renewed, removed)
              /\ Event("rescheduled", MovedBy(epg, renewed)) \subseteq out'
      BY <3>1
    <3>3. CASE p \in renewed
      <4>1. PICK i \in epg[p] : \A j \in epg[p] : j = i
        BY <3>2, <3>3
      <4>2. schedules'[p] = {Renewed(s, i)}
        <5>1. schedules'[p] = UNION {{Renewed(x, j) : x \in schedules[p]} : j \in epg[p]}
          BY <3>2, <3>3 DEF RenewedSchedules
        <5>2. {Renewed(x, i) : x \in schedules[p]} = {Renewed(s, i)}
          BY <1>0
        <5> QED
          BY <4>1, <5>1, <5>2
      <4>3. /\ Renewed(s, i).start = i.start
            /\ Renewed(s, i).state = IF s.start = i.start THEN s.state ELSE "Scheduled"
        BY DEF Renewed
      <4>4. s.start # i.start => p \in MovedBy(epg, renewed)
        BY <1>0, <3>3, <4>1 DEF MovedBy
      <4>5. s.state \in {"Scheduled", "Tracking", "Waiting", "Rescheduling"}
        <5>1. InState(schedules, p, Pending \ {"Recording"})
          BY <3>2, <3>3 DEF Idle, InStates
        <5> QED
          BY <1>0, <5>1 DEF InState, Pending
      <4>6. MoveAnnounced(p, s)
        BY <3>2, <4>2, <4>3, <4>4, EventIn DEF MoveAnnounced
      <4>7. s.state = "Scheduled" \/ "Scheduled" \in Documented[s.state]
        BY <4>5 DEF Documented
      <4>8. TransitionDocumented(p, s)
        BY <4>2, <4>3, <4>7 DEF TransitionDocumented
      <4> QED
        BY <4>6, <4>8
    <3>4. CASE p \notin renewed
      <4>1. schedules'[p] = schedules[p] \/ schedules'[p] = {}
        BY <3>2, <3>4 DEF RenewedSchedules
      <4> QED
        BY <4>1, UnchangedMoves
    <3> QED
      BY <3>3, <3>4
  <2>4. ASSUME NEW service, OnairProgramChanged(service) PROVE MoveAnnounced(p, s) /\ TransitionDocumented(p, s)
    BY <2>4, OnairMoves DEF OnairProgramChanged, Emit
  <2> QED
    BY <1>4, <2>1, <2>2, <2>3, <2>4 DEF EnvironmentStep
<1>5. CASE Tick \/ TimerExpires \/ UNCHANGED vars
  <2>1. schedules' = schedules
    BY <1>5 DEF Tick, TimerExpires, vars
  <2> QED
    BY <2>1, UnchangedMoves
<1>6. CASE Restart
  BY <1>6 DEF Restart
<1>7. CASE ProcessRecording
  BY <1>7, ProcessRecordingMoves DEF BookingInv
<1> QED
  BY <1>1, <1>2, <1>3, <1>4, <1>5, <1>6, <1>7 DEF Next

(* A pending recording whose start time changes is announced with           *)
(* recording.rescheduled, in every handler that may move it: the update by  *)
(* the EPG, by an on-air tracker, and by a tracker while it is booked.      *)
THEOREM MovesAreToldOf == Spec => MovesAreAnnounced
<1>1. TypeOK /\ [Next]_vars =>
          [restarts' = restarts => \A p \in Programs : \A s \in schedules[p], s2 \in schedules'[p] :
              s.start # s2.start /\ s.state # "Recording" => Announced("rescheduled", p)]_vars
  BY StepMoves DEF MoveAnnounced
<1> QED
  BY <1>1, TypeCorrect, PTL DEF Spec, MovesAreAnnounced

(* Between restarts the state of a schedule changes only as the             *)
(* documentation of RecordingScheduleState lists, whatever order the        *)
(* messages of users, recorders, tuners, EPG and trackers come in.          *)
THEOREM TransitionsAreDocumented == ASSUME ~Rebooking PROVE Spec => OnlyDocumentedTransitions
<1>1. TypeOK /\ BookingInv /\ [Next]_vars =>
          [restarts' = restarts => \A p \in Programs : \A s \in schedules[p], s2 \in schedules'[p] :
              s.state = s2.state \/ s2.state \in Documented[s.state]]_vars
  BY StepMoves DEF TransitionDocumented
<1> QED
  BY <1>1, BookingIsKept, TypeCorrect, PTL DEF Spec, OnlyDocumentedTransitions
=============================================================================
