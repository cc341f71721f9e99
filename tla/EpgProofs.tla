------------------------------ MODULE EpgProofs ------------------------------
(***************************************************************************)
(* Proofs about Epg for all channels, services, jobs and ring sizes.       *)
(***************************************************************************)
EXTENDS Epg, FiniteSetTheorems, SequenceTheorems, WellFoundedInduction, TLAPS

(* What a handler may do to a schedule: its programs change only when it is *)
(* flushed.                                                                 *)
Shaped(sched) ==
    sched = [units |-> sched.units, start |-> sched.start, programs |-> sched.programs]
SchedulesAreShaped == \A s \in DOMAIN schedules : Shaped(schedules[s])

(* A service that the subscriber need not ask for is known to it.           *)
Informed ==
    /\ DOMAIN seen = Services
    /\ \A s \in Services \ news : QueryPrograms(s) # <<>> => seen[s] = QueryPrograms(s)
KnowledgeInv == SchedulesAreShaped /\ Informed

(* The handlers of sections change the ring and leave the programs.         *)
LEMMA StartKeepsPrograms ==
    ASSUME NEW sched, Shaped(sched), NEW today
    PROVE  /\ Shaped(UpdateStartIndex(sched, today))
           /\ UpdateStartIndex(sched, today).programs = sched.programs
<1>1. ASSUME NEW x
      PROVE  /\ Shaped([sched EXCEPT !.start = x])
             /\ [sched EXCEPT !.start = x].programs = sched.programs
  BY DEF Shaped
<1>2. \E x : UpdateStartIndex(sched, today) = [sched EXCEPT !.start = x]
  BY DEF UpdateStartIndex
<1> QED
  BY <1>1, <1>2

LEMMA UnitKeepsPrograms ==
    ASSUME NEW sched, Shaped(sched), NEW k, NEW date
    PROVE  /\ Shaped(UpdateUnit(sched, k, date))
           /\ UpdateUnit(sched, k, date).programs = sched.programs
BY DEF UpdateUnit, Shaped

LEMMA CollectKeepsShape ==
    ASSUME NEW sched, Shaped(sched)
    PROVE  Shaped(CollectPrograms(sched))
<1>1. \E x : CollectPrograms(sched) = [sched EXCEPT !.programs = x]
  BY DEF CollectPrograms
<1> QED
  BY <1>1 DEF Shaped

LEMMA NewIsShaped == Shaped(NewSchedule) /\ NewSchedule.programs = <<>>
BY DEF NewSchedule, Shaped

(* Programs that stay, or a service whose subscriber is told.               *)
LEMMA InformedStays ==
    ASSUME Informed, seen' = seen, news \subseteq news',
           \A s \in Services \ news' :
              QueryPrograms(s)' = <<>> \/ QueryPrograms(s)' = QueryPrograms(s)
    PROVE  Informed'
BY DEF Informed

(* A flush puts the service into the news; no other message changes programs.*)
LEMMA HandlersInform ==
    ASSUME KnowledgeInv, Handle
    PROVE  KnowledgeInv'
<1> USE DEF KnowledgeInv, epgVars, subVars
<1>1. CASE UpdateServices
  <2>1. /\ schedules' = [s \in DOMAIN schedules \intersect services' |-> schedules[s]]
        /\ UNCHANGED <<news, seen>>
    BY <1>1 DEF UpdateServices, Restrict2
  <2>2. SchedulesAreShaped'
    BY <2>1 DEF SchedulesAreShaped
  <2>3. Informed'
    BY <2>1, InformedStays DEF QueryPrograms
  <2> QED
    BY <2>2, <2>3
<1>2. CASE UpdateClocks \/ SaveSchedules
  <2>1. UNCHANGED <<schedules, news, seen>>
    BY <1>2 DEF UpdateClocks, SaveSchedules
  <2> QED
    BY <2>1 DEF SchedulesAreShaped, Informed, QueryPrograms
<1>3. CASE PrepareSchedule
  <2> DEFINE p == Head(mail).arg
  <2>1. /\ schedules' = [x \in DOMAIN schedules \union {p} |->
                           IF x # p THEN schedules[x]
                           ELSE IF p \in DOMAIN schedules THEN UpdateStartIndex(schedules[p], day)
                           ELSE NewSchedule]
        /\ UNCHANGED <<news, seen>>
    BY <1>3 DEF PrepareSchedule
  <2> HIDE DEF p
  <2>2. ASSUME NEW s \in DOMAIN schedules'
        PROVE  /\ Shaped(schedules'[s])
               /\ s \in DOMAIN schedules => schedules'[s].programs = schedules[s].programs
               /\ s \notin DOMAIN schedules => schedules'[s].programs = <<>>
    BY <2>1, NewIsShaped, StartKeepsPrograms DEF SchedulesAreShaped
  <2>3. Informed'
    BY <2>1, <2>2, InformedStays DEF QueryPrograms
  <2> QED
    BY <2>2, <2>3 DEF SchedulesAreShaped
<1>4. CASE UpdateSchedule
  <2> DEFINE a == Head(mail).arg
  <2>1. /\ \/ schedules' = schedules
           \/ a.s \in DOMAIN schedules
              /\ schedules' = [schedules EXCEPT ![a.s] = UpdateUnit(@, a.k, a.date)]
        /\ UNCHANGED <<news, seen>>
    BY <1>4 DEF UpdateSchedule
  <2> HIDE DEF a
  <2>2. ASSUME NEW s \in DOMAIN schedules'
        PROVE  /\ Shaped(schedules'[s]) /\ s \in DOMAIN schedules
               /\ schedules'[s].programs = schedules[s].programs
    BY <2>1, UnitKeepsPrograms DEF SchedulesAreShaped
  <2>3. Informed'
    BY <2>1, <2>2, InformedStays DEF QueryPrograms
  <2> QED
    BY <2>2, <2>3 DEF SchedulesAreShaped
<1>5. CASE FlushSchedule
  <2> DEFINE p == Head(mail).arg.s
  <2>1. /\ \/ schedules' = schedules
           \/ p \in DOMAIN schedules /\ schedules' = [schedules EXCEPT ![p] = CollectPrograms(@)]
        /\ news' = news \union {p} /\ seen' = seen
    BY <1>5 DEF FlushSchedule
  <2> HIDE DEF p
  <2>2. ASSUME NEW s \in DOMAIN schedules'
        PROVE  /\ Shaped(schedules'[s]) /\ s \in DOMAIN schedules
               /\ s # p => schedules'[s] = schedules[s]
    BY <2>1, CollectKeepsShape DEF SchedulesAreShaped
  <2>3. Informed'
    BY <2>1, <2>2, InformedStays DEF QueryPrograms
  <2> QED
    BY <2>2, <2>3 DEF SchedulesAreShaped
<1> QED
  BY <1>1, <1>2, <1>3, <1>4, <1>5 DEF Handle

(* A subscriber that registers anew is told of every schedule that was loaded.*)
LEMMA RestartInforms ==
    ASSUME KnowledgeInv, Started \/ Crash \/ ProgramsUpdated
    PROVE  KnowledgeInv'
<1> USE DEF KnowledgeInv, epgVars
<1>1. CASE Started
  <2> DEFINE kept == Restrict2(files.schedules, files.services)
  <2> DEFINE loaded(s) == UpdateStartIndex([NewSchedule EXCEPT !.units = kept[s]], day)
  <2>1. /\ schedules' = [s \in DOMAIN kept |-> CollectPrograms(loaded(s))]
        /\ news' = DOMAIN kept /\ seen' = [s \in Services |-> <<>>]
    BY <1>1 DEF Started
  <2>2. ASSUME NEW s \in DOMAIN kept PROVE Shaped(CollectPrograms(loaded(s)))
    <3>1. \A x : Shaped([NewSchedule EXCEPT !.units = x])
      BY DEF NewSchedule, Shaped
    <3> QED
      BY <3>1, StartKeepsPrograms, CollectKeepsShape
  <2> HIDE DEF kept, loaded
  <2>3. SchedulesAreShaped'
    BY <2>1, <2>2 DEF SchedulesAreShaped
  <2>4. Informed'
    BY <2>1 DEF Informed, QueryPrograms
  <2> QED
    BY <2>3, <2>4
<1>2. CASE Crash
  <2>1. schedules' = <<>> /\ news' = {} /\ seen' = [s \in Services |-> <<>>]
    BY <1>2 DEF Crash
  <2> QED
    BY <2>1 DEF SchedulesAreShaped, Informed, QueryPrograms
<1>3. CASE ProgramsUpdated
  <2>1. PICK s \in news : news' = news \ {s} /\ seen' = [seen EXCEPT ![s] = QueryPrograms(s)]
    BY <1>3 DEF ProgramsUpdated
  <2>2. schedules' = schedules
    BY <1>3 DEF ProgramsUpdated
  <2> QED
    BY <2>1, <2>2 DEF SchedulesAreShaped, Informed, QueryPrograms
<1> QED
  BY <1>1, <1>2, <1>3

(* Jobs, the feeder and midnight change no programs.                        *)
LEMMA OthersInform ==
    ASSUME KnowledgeInv, Job \/ FeederStep \/ Midnight \/ UNCHANGED vars
    PROVE  KnowledgeInv'
<1>1. UNCHANGED <<schedules, news, seen>>
  BY DEF Job, StartJob, SkipInitialJob, ScanServices, SyncClocks, UpdateSchedules, FeederStep,
         QueryServices, Tune, NoTuner, Feed, Flush, ReadError, Midnight, vars, epgVars, subVars
<1> QED
  BY <1>1 DEF KnowledgeInv, SchedulesAreShaped, Informed, QueryPrograms

(* The inductive invariant: the programs of a service that changed since    *)
(* the subscriber asked are in its news.                                    *)
THEOREM KnowledgeIsKept == Spec => []KnowledgeInv
<1>1. Init => KnowledgeInv
  BY DEF Init, KnowledgeInv, SchedulesAreShaped, Informed, QueryPrograms
<1>2. KnowledgeInv /\ [Next]_vars => KnowledgeInv'
  BY HandlersInform, RestartInforms, OthersInform DEF Next
<1> QED
  BY <1>1, <1>2, PTL DEF Spec

(* A subscriber that has asked for the programs of every service it was     *)
(* told of knows what Epg::handle_query_programs would answer, whatever     *)
(* scans, feeds, crashes and restarts came in between.                      *)
THEOREM SubscribersKnow == Spec => []SubscribersKnowPrograms
<1>1. KnowledgeInv => SubscribersKnowPrograms
  BY DEF KnowledgeInv, Informed, SubscribersKnowPrograms
<1> QED
  BY <1>1, KnowledgeIsKept, PTL

(***************************************************************************)
(* Induction over data, and what the loop of collect_programs() computes.   *)
(***************************************************************************)
LEMMA Induction ==
    ASSUME NEW T, 0 \in T, \A k \in Nat : k \in T => k + 1 \in T
    PROVE  \A k \in Nat : k \in T
<1> DEFINE bad == {k \in Nat : k \notin T}
<1>1. SUFFICES ASSUME bad # {} PROVE FALSE OBVIOUS
<1>2. PICK m \in bad : \A k \in bad : ~(<<k, m>> \in OpToRel(<, Nat))
  <2>1. IsWellFoundedOn(OpToRel(<, Nat), Nat) BY NatLessThanWellFounded
  <2>2. bad \subseteq Nat OBVIOUS
  <2> QED BY <1>1, <2>1, <2>2, WFMin
<1>3. m \in Nat /\ m # 0 /\ m - 1 \in Nat /\ m - 1 < m OBVIOUS
<1>4. m - 1 \notin T
  <2>1. m - 1 \in T => m - 1 + 1 \in T BY <1>3
  <2>2. m - 1 + 1 = m BY <1>3
  <2> QED BY <2>1, <2>2
<1> QED BY <1>2, <1>3, <1>4 DEF OpToRel

(* A recursive function over the first n numbers exists.                    *)
Iterates(step, base, n, S) ==
    \E g \in [0..n -> S] : g[0] = base /\ \A i \in 1..n : g[i] = step[<<i, g[i - 1]>>]
LEMMA FiniteRecursion ==
    ASSUME NEW S, NEW base \in S, NEW n \in Nat, NEW step \in [(1..n) \X S -> S]
    PROVE  Iterates(step, base, n, S)
<1> DEFINE Is(g, m) == g[0] = base /\ \A i \in 1..m : g[i] = step[<<i, g[i - 1]>>]
<1> DEFINE T == {m \in Nat : m <= n => \E g \in [0..m -> S] : Is(g, m)}
<1>1. 0 \in T
  <2> DEFINE g == [i \in 0..0 |-> base]
  <2>1. g \in [0..0 -> S] /\ Is(g, 0) OBVIOUS
  <2> QED BY <2>1
<1>2. ASSUME NEW k \in Nat, k \in T PROVE k + 1 \in T
  <2>1. SUFFICES ASSUME k + 1 <= n PROVE \E g \in [0..(k + 1) -> S] : Is(g, k + 1) OBVIOUS
  <2>2. PICK g \in [0..k -> S] : Is(g, k) BY <1>2, <2>1
  <2> DEFINE h == [i \in 0..(k + 1) |-> IF i <= k THEN g[i] ELSE step[<<k + 1, g[k]>>]]
  <2>3. step[<<k + 1, g[k]>>] \in S BY <2>1, <2>2
  <2>4. h \in [0..(k + 1) -> S] BY <2>2, <2>3
  <2>5. ASSUME NEW i \in 1..(k + 1) PROVE h[i] = step[<<i, h[i - 1]>>]
    <3>1. CASE i <= k
      <4>1. i \in 0..k /\ i - 1 \in 0..k /\ i - 1 \in 0..(k + 1) /\ i \in 1..k BY <3>1
      <4>2. g[i] = step[<<i, g[i - 1]>>] BY <2>2, <4>1
      <4>3. h[i] = g[i] /\ h[i - 1] = g[i - 1] BY <3>1, <4>1
      <4> QED BY <4>2, <4>3
    <3>2. CASE i = k + 1
      <4>1. i - 1 = k /\ k \in 0..(k + 1) /\ ~(i <= k) BY <3>2
      <4>2. h[i - 1] = g[k] /\ h[i] = step[<<k + 1, g[k]>>] BY <4>1
      <4> QED BY <3>2, <4>1, <4>2
    <3> QED BY <3>1, <3>2
  <2>6. h[0] = base BY <2>2
  <2> HIDE DEF h
  <2> QED BY <2>4, <2>5, <2>6
<1> HIDE DEF T
<1>3. n \in T BY <1>1, <1>2, Induction
<1> QED BY <1>3 DEF T, Iterates

Slots == 0..(MaxDays - 1)
Before(start) == IF start > 0 THEN start - 1 ELSE MaxDays - 1

(* The loop of collect_programs(): the programs of the first units.         *)
Collects(p, sched) ==
    /\ CollectPrograms(sched) = [sched EXCEPT !.programs = p[MaxDays]]
    /\ p[0] = <<>>
    /\ \A n \in 1..MaxDays :
          LET date == sched.units[(Before(sched.start) + n - 1) % MaxDays] IN
          p[n] = IF date = 0 THEN p[n - 1] ELSE Append(p[n - 1], date)
(* The recursive function in CollectPrograms exists, and its equations hold.*)
LEMMA Collected ==
    ASSUME NEW D \in SUBSET Nat, NEW sched, sched.units \in [Slots -> D], sched.start \in Slots, Shaped(sched)
    PROVE  \E p \in [0..MaxDays -> Seq(D \ {0})] : Collects(p, sched)
<1> DEFINE u(n) == sched.units[(Before(sched.start) + n - 1) % MaxDays]
<1> DEFINE step == [x \in (1..MaxDays) \X Seq(D \ {0}) |-> IF u(x[1]) = 0 THEN x[2] ELSE Append(x[2], u(x[1]))]
<1> DEFINE Is(g) == g = [n \in 0..MaxDays |->
                IF n = 0 THEN <<>> ELSE IF u(n) = 0 THEN g[n - 1] ELSE Append(g[n - 1], u(n))]
<1>1. \A n \in 1..MaxDays : u(n) \in D
  <2>1. ASSUME NEW n \in 1..MaxDays PROVE (Before(sched.start) + n - 1) % MaxDays \in Slots
    <3>1. Before(sched.start) + n - 1 \in Int /\ MaxDays \in Int /\ MaxDays > 0
      BY DaysAssumption DEF Before, Slots
    <3> DEFINE b == Before(sched.start) + n - 1
    <3> HIDE DEF b
    <3>2. b % MaxDays \in 0..(MaxDays - 1) BY <3>1 DEF b
    <3> QED BY <3>2 DEF b, Slots
  <2> QED BY <2>1
<1> HIDE DEF u
<1>2. step \in [(1..MaxDays) \X Seq(D \ {0}) -> Seq(D \ {0})] BY <1>1
<1>3. PICK g \in [0..MaxDays -> Seq(D \ {0})] :
          g[0] = <<>> /\ \A n \in 1..MaxDays : g[n] = step[<<n, g[n - 1]>>]
  <2>1. <<>> \in Seq(D \ {0}) /\ MaxDays \in Nat BY DaysAssumption
  <2> HIDE DEF step
  <2>2. Iterates(step, <<>>, MaxDays, Seq(D \ {0})) BY <1>2, <2>1, FiniteRecursion
  <2> QED BY <2>2 DEF Iterates
<1>4. ASSUME NEW n \in 1..MaxDays
      PROVE  g[n] = IF u(n) = 0 THEN g[n - 1] ELSE Append(g[n - 1], u(n))
  <2>1. n \in 0..MaxDays /\ n # 0 /\ n - 1 \in 0..MaxDays BY DaysAssumption
  <2>2. g[n] = step[<<n, g[n - 1]>>] 
    <3> HIDE DEF step
    <3> QED BY <1>3, <2>1
  <2>3. <<n, g[n - 1]>> \in (1..MaxDays) \X Seq(D \ {0}) BY <2>1
  <2> QED BY <2>2, <2>3
<1> HIDE DEF step
<1>5. g[0] = <<>> BY <1>3, DaysAssumption
<1>6. g = [n \in 0..MaxDays |->
                IF n = 0 THEN <<>> ELSE IF u(n) = 0 THEN g[n - 1] ELSE Append(g[n - 1], u(n))]
  <2>1. ASSUME NEW n \in 0..MaxDays PROVE g[n] = IF n = 0 THEN <<>> ELSE IF u(n) = 0 THEN g[n - 1] ELSE Append(g[n - 1], u(n))
    <3>1. CASE n = 0 BY <1>5, <3>1
    <3>2. CASE n # 0 
      <4>1. n \in 1..MaxDays BY <3>2, DaysAssumption
      <4> QED BY <1>4, <3>2, <4>1
    <3> QED BY <3>1, <3>2
  <2> QED BY <2>1
<1>6a. \E x : Is(x) BY <1>6
<1> DEFINE p == CHOOSE x : Is(x)
<1>7. CollectPrograms(sched) = [sched EXCEPT !.programs = p[MaxDays]]
  BY DEF CollectPrograms, Before, u
<1>8. Is(p) 
  <2> HIDE DEF Is
  <2> QED BY <1>6a
<1> HIDE DEF p
<1>9. /\ p[0] = <<>> 
      /\ \A n \in 1..MaxDays : p[n] = IF u(n) = 0 THEN p[n - 1] ELSE Append(p[n - 1], u(n))
  <2>1. 0 \in 0..MaxDays BY DaysAssumption
  <2>2. \A n \in 1..MaxDays : n \in 0..MaxDays /\ n # 0 BY DaysAssumption
  <2> QED BY <1>8, <2>1, <2>2
<1>10. p \in [0..MaxDays -> Seq(D \ {0})]
  <2> DEFINE T == {n \in Nat : n <= MaxDays => p[n] \in Seq(D \ {0})}
  <2>0. <<>> \in Seq(D \ {0}) OBVIOUS
  <2>1. 0 \in T BY <1>9, <2>0
  <2>2. ASSUME NEW k \in Nat, k \in T PROVE k + 1 \in T
    <3>1. SUFFICES ASSUME k + 1 <= MaxDays PROVE p[k + 1] \in Seq(D \ {0}) OBVIOUS
    <3>2. k + 1 \in 1..MaxDays /\ k + 1 - 1 = k /\ k <= MaxDays BY <3>1, DaysAssumption
    <3>3. p[k] \in Seq(D \ {0}) BY <2>2, <3>2
    <3>4. p[k + 1] = IF u(k + 1) = 0 THEN p[k] ELSE Append(p[k], u(k + 1)) BY <1>9, <3>2
    <3> QED BY <1>1, <3>2, <3>3, <3>4
  <2> HIDE DEF T
  <2>3. \A n \in Nat : n \in T BY <2>1, <2>2, Induction
  <2>4. \A n \in 0..MaxDays : p[n] \in Seq(D \ {0}) BY <2>3, DaysAssumption DEF T
  <2>5. p = [n \in 0..MaxDays |-> IF n = 0 THEN <<>> ELSE IF u(n) = 0 THEN p[n - 1] ELSE Append(p[n - 1], u(n))]
    BY <1>8
  <2>6. \E G : p = [n \in 0..MaxDays |-> G[n]]
    <3> DEFINE G == [n \in 0..MaxDays |-> IF n = 0 THEN <<>> ELSE IF u(n) = 0 THEN p[n - 1] ELSE Append(p[n - 1], u(n))]
    <3>1. p = G BY <2>5
    <3>2. G = [n \in 0..MaxDays |-> G[n]] OBVIOUS
    <3> QED BY <3>1, <3>2
  <2> QED BY <2>4, <2>6
<1> QED BY <1>7, <1>9, <1>10 DEF u, Collects

(***************************************************************************)
(* Types: the schedules.                                                    *)
(***************************************************************************)
LEMMA Least ==
    ASSUME NEW S \in SUBSET Nat, S # {}
    PROVE  \E m \in S : \A y \in S : m <= y
<1> DEFINE T == {k \in Nat : \A y \in S : y >= k}
<1>1. SUFFICES ASSUME \A m \in S : \E y \in S : ~(m <= y) PROVE FALSE OBVIOUS
<1>2. 0 \in T OBVIOUS
<1>3. ASSUME NEW k \in Nat, k \in T PROVE k + 1 \in T
  <2>1. \A y \in S : y >= k BY <1>3
  <2>2. k \notin S BY <1>1, <2>1
  <2> QED BY <2>1, <2>2
<1> HIDE DEF T
<1>4. \A k \in Nat : k \in T BY <1>2, <1>3, Induction
<1>5. PICK y \in S : TRUE OBVIOUS
<1>6. y + 1 \in T BY <1>4
<1> QED BY <1>5, <1>6 DEF T

Units == [Slots -> Dates]
Sections == [s : Services, k : 0..(MaxDays - 2), day : 1..MaxDay]
Feeds == [todo : SUBSET Services, on : {"asking", "tuning", "feeding", "done"},
          sids : SUBSET Services, fed : SUBSET Sections]
Messages ==
    [kind : {"UpdateServices", "UpdateClocks"}, arg : Results]
    \union [kind : {"PrepareSchedule"}, arg : Services]
    \union [kind : {"UpdateSchedule"}, arg : [s : Services, k : 0..(MaxDays - 2), date : Dates]]
    \union [kind : {"FlushSchedule"}, arg : [s : Services, fed : SUBSET Sections]]
    \union [kind : {"SaveSchedules"}, arg : {0}]
Schedules == [units : Units, start : Slots, programs : Seq(Dates)]
Partial(S) == UNION {[D -> S] : D \in SUBSET Services}

TypeInv ==
    /\ day \in 1..MaxDay
    /\ services \subseteq Services /\ clocks \subseteq Services
    /\ schedules \in Partial(Schedules)
    /\ mail \in Seq(Messages) /\ Len(mail) <= MailSize
    /\ job \in Jobs \union {"idle"} /\ due \subseteq Jobs /\ first \in Seq(Jobs)
    /\ feeder \subseteq Feeds
    /\ files \in [services : SUBSET Services, clocks : SUBSET Services, schedules : Partial(Units)]
    /\ news \subseteq Services

(* Every integer names a slot of the ring, a negative one too.              *)
LEMMA IntegersWrap == ASSUME NEW b \in Int PROVE b % MaxDays \in Slots
<1>1. MaxDays \in Int /\ MaxDays > 0 BY DaysAssumption
<1> QED BY <1>1 DEF Slots

LEMMA DatesAreNaturals == Dates \subseteq Nat /\ 0 \in Dates /\ Dates = 0..(MaxDay + MaxDays)
BY BoundsAssumption, DaysAssumption DEF Dates

(* The oldest unit, which update_start_index() counts from.                 *)
Oldest(units, i) ==
    /\ i \in Slots /\ units[i] # 0
    /\ \A j \in Slots : units[j] # 0 =>
          units[i] < units[j] \/ (units[i] = units[j] /\ i <= j)
(* update_start_index() finds the oldest unit, if the ring is not empty.    *)
LEMMA StartOfToday ==
    ASSUME NEW sched, sched.units \in [Slots -> Nat], NEW today
    PROVE  \/ /\ \A i \in Slots : sched.units[i] = 0
              /\ UpdateStartIndex(sched, today) = [sched EXCEPT !.start = 0]
           \/ \E i \in Slots :
                 /\ Oldest(sched.units, i)
                 /\ UpdateStartIndex(sched, today) =
                       [sched EXCEPT !.start = (i + (today - sched.units[i])) % MaxDays]
<1> DEFINE dated == {i \in DOMAIN sched.units : sched.units[i] # 0}
<1> DEFINE Is(i) == \A j \in dated : sched.units[i] < sched.units[j] \/ (sched.units[i] = sched.units[j] /\ i <= j)
<1>0. DOMAIN sched.units = Slots /\ Slots \subseteq Nat BY DEF Slots
<1>1. CASE dated = {} BY <1>0, <1>1 DEF UpdateStartIndex
<1>2. CASE dated # {}
  <2> DEFINE D == {sched.units[i] : i \in dated}
  <2>1. D \subseteq Nat /\ D # {} BY <1>0, <1>2
  <2>2. PICK d \in D : \A e \in D : d <= e BY <2>1, Least
  <2> DEFINE P == {i \in dated : sched.units[i] = d}
  <2>3. P \subseteq Nat /\ P # {} BY <1>0, <2>2
  <2>4. PICK m \in P : \A i \in P : m <= i BY <2>3, Least
  <2>5. m \in dated /\ Is(m)
    <3>1. ASSUME NEW j \in dated PROVE sched.units[m] < sched.units[j] \/ (sched.units[m] = sched.units[j] /\ m <= j)
      <4>1. sched.units[m] = d /\ d <= sched.units[j] /\ d \in Nat /\ sched.units[j] \in Nat
        BY <1>0, <2>1, <2>2, <2>4
      <4>2. CASE sched.units[j] = d BY <2>4, <4>1, <4>2
      <4> QED BY <4>1, <4>2
    <3> QED BY <2>4, <3>1
  <2> DEFINE o == CHOOSE i \in dated : Is(i)
  <2>6. UpdateStartIndex(sched, today) = [sched EXCEPT !.start = (o + (today - sched.units[o])) % MaxDays]
    BY <1>2 DEF UpdateStartIndex
  <2>7. o \in dated /\ Is(o)
    <3> HIDE DEF dated, Is
    <3> QED BY <2>5
  <2> HIDE DEF o
  <2>8. o \in Slots /\ Oldest(sched.units, o) BY <1>0, <2>7 DEF Oldest
  <2> QED BY <2>6, <2>8
<1> QED BY <1>1, <1>2

LEMMA StartIsTyped ==
    ASSUME NEW sched \in Schedules, NEW today \in Nat
    PROVE  UpdateStartIndex(sched, today) \in Schedules
<1>1. sched.units \in [Slots -> Nat] /\ Slots \subseteq Int
  BY DatesAreNaturals DEF Schedules, Units, Slots
<1>2. ASSUME NEW x \in Slots PROVE [sched EXCEPT !.start = x] \in Schedules
  BY DEF Schedules
<1>3. 0 \in Slots BY DaysAssumption DEF Slots
<1>4. ASSUME NEW i \in Slots PROVE (i + (today - sched.units[i])) % MaxDays \in Slots
  <2>1. i + (today - sched.units[i]) \in Int BY <1>1
  <2> QED BY <2>1, IntegersWrap
<1> QED BY <1>1, <1>2, <1>3, <1>4, StartOfToday

LEMMA UnitIsTyped ==
    ASSUME NEW sched \in Schedules, NEW k \in Int, NEW date \in Dates
    PROVE  UpdateUnit(sched, k, date) \in Schedules
<1>1. sched.start + k \in Int BY DEF Schedules, Slots
<1>2. (sched.start + k) % MaxDays \in Slots BY <1>1, IntegersWrap
<1> DEFINE i == (sched.start + k) % MaxDays
<1>3. UpdateUnit(sched, k, date) = [sched EXCEPT !.units = [sched.units EXCEPT ![i] = date]]
  BY DEF UpdateUnit
<1> HIDE DEF i
<1>4. [sched.units EXCEPT ![i] = date] \in Units BY <1>2 DEF Schedules, Units, i
<1> QED BY <1>3, <1>4 DEF Schedules

LEMMA SchedulesAreShapedByType ==
    ASSUME NEW sched \in Schedules PROVE Shaped(sched)
BY DEF Schedules, Shaped

LEMMA CollectIsTyped ==
    ASSUME NEW sched \in Schedules
    PROVE  CollectPrograms(sched) \in Schedules
<1>1. Shaped(sched) /\ sched.units \in [Slots -> Dates] /\ sched.start \in Slots
  BY SchedulesAreShapedByType DEF Schedules, Units
<1>2. \E x \in Seq(Dates \ {0}) : CollectPrograms(sched) = [sched EXCEPT !.programs = x]
  <2>1. Dates \in SUBSET Nat /\ MaxDays \in 0..MaxDays BY DatesAreNaturals, DaysAssumption
  <2>2. PICK p \in [0..MaxDays -> Seq(Dates \ {0})] : Collects(p, sched)
    BY <1>1, <2>1, Collected
  <2> QED BY <2>1, <2>2 DEF Collects
<1>3. Seq(Dates \ {0}) \subseteq Seq(Dates) OBVIOUS
<1> QED BY <1>2, <1>3 DEF Schedules

LEMMA NewIsTyped ==
    NewSchedule \in Schedules /\ \A u \in Units : [NewSchedule EXCEPT !.units = u] \in Schedules
<1>1. 0 \in Slots /\ NoUnits \in Units BY DatesAreNaturals, DaysAssumption DEF Slots, NoUnits, Units
<1>2. <<>> \in Seq(Dates) OBVIOUS
<1> QED BY <1>1, <1>2 DEF NewSchedule, Schedules

(* Maps from some of the services.                                          *)
LEMMA PartialIs ==
    ASSUME NEW S, NEW f
    PROVE  f \in Partial(S) <=> DOMAIN f \subseteq Services /\ f \in [DOMAIN f -> S]
<1>1. ASSUME f \in Partial(S) PROVE DOMAIN f \subseteq Services /\ f \in [DOMAIN f -> S]
  BY <1>1 DEF Partial
<1>2. ASSUME DOMAIN f \subseteq Services, f \in [DOMAIN f -> S] PROVE f \in Partial(S)
  BY <1>2 DEF Partial
<1> QED BY <1>1, <1>2

(***************************************************************************)
(* Types: the handlers of the EPG and the jobs.                             *)
(***************************************************************************)
LEMMA ReceivedIsTyped ==
    ASSUME TypeInv, NEW kind, Receive(kind)
    PROVE  /\ mail # <<>> /\ Head(mail) \in Messages /\ Head(mail).kind = kind
           /\ mail' \in Seq(Messages) /\ Len(mail') <= MailSize
<1>1. mail \in Seq(Messages) /\ mail # <<>> /\ mail' = Tail(mail) /\ Head(mail).kind = kind
  BY DEF Receive, TypeInv
<1>2. Head(mail) \in Messages /\ Tail(mail) \in Seq(Messages) /\ Len(Tail(mail)) = Len(mail) - 1
  BY <1>1, HeadTailProperties
<1> QED BY <1>1, <1>2, BoundsAssumption DEF TypeInv

LEMMA ArgsAreTyped ==
    ASSUME NEW m \in Messages
    PROVE  /\ m.kind \in {"UpdateServices", "UpdateClocks"} => m.arg \in Results
           /\ m.kind = "PrepareSchedule" => m.arg \in Services
           /\ m.kind = "UpdateSchedule" => m.arg \in [s : Services, k : 0..(MaxDays - 2), date : Dates]
           /\ m.kind = "FlushSchedule" => m.arg \in [s : Services, fed : SUBSET Sections]
BY DEF Messages

LEMMA HandlersKeepTypes ==
    ASSUME TypeInv, Handle
    PROVE  TypeInv'
<1> DEFINE m == Head(mail)
<1> USE DEF epgVars, jobVars, subVars
<1>0. /\ mail' \in Seq(Messages) /\ Len(mail') <= MailSize /\ m \in Messages
      /\ UNCHANGED <<day, job, due, first, feeder>>
  BY ReceivedIsTyped DEF Handle, UpdateServices, UpdateClocks, PrepareSchedule, UpdateSchedule, FlushSchedule, SaveSchedules
<1>a. /\ DOMAIN schedules \subseteq Services /\ schedules \in [DOMAIN schedules -> Schedules]
      /\ services \subseteq Services /\ clocks \subseteq Services
      /\ files \in [services : SUBSET Services, clocks : SUBSET Services, schedules : Partial(Units)]
  BY PartialIs DEF TypeInv
<1>b. SUFFICES /\ services' \subseteq Services /\ clocks' \subseteq Services
               /\ DOMAIN schedules' \subseteq Services /\ schedules' \in [DOMAIN schedules' -> Schedules]
               /\ files' \in [services : SUBSET Services, clocks : SUBSET Services, schedules : Partial(Units)]
               /\ news' \subseteq Services
  BY <1>0, PartialIs DEF TypeInv
<1>1. CASE UpdateServices
  <2>1. m.arg \in Results /\ services' = Merged(m.arg) /\ files' = [files EXCEPT !.services = services']
        /\ schedules' = Restrict2(schedules, services')
        /\ UNCHANGED <<clocks, news>>
    BY <1>0, <1>1, ReceivedIsTyped, ArgsAreTyped DEF UpdateServices
  <2>2. services' \subseteq Services
    <3>1. ASSUME NEW c \in Channels PROVE (IF m.arg[c].ok THEN m.arg[c].found ELSE Known(c, services)) \subseteq Services
      BY <1>a, <2>1 DEF Results, Known
    <3> HIDE DEF m
    <3> QED BY <2>1, <3>1 DEF Merged
  <2>3. schedules' = [s \in DOMAIN schedules \intersect services' |-> schedules[s]]
    BY <2>1 DEF Restrict2
  <2> QED BY <1>a, <2>1, <2>2, <2>3 DEF TypeInv
<1>2. CASE UpdateClocks
  <2>1. m.arg \in Results /\ files' = [files EXCEPT !.clocks = clocks'] /\ UNCHANGED <<services, schedules, news>>
        /\ clocks' = UNION {IF m.arg[c].ok THEN m.arg[c].found
                            ELSE clocks \intersect Known(c, services) : c \in Channels}
    BY <1>0, <1>2, ReceivedIsTyped, ArgsAreTyped DEF UpdateClocks
  <2>2. clocks' \subseteq Services
    <3>1. ASSUME NEW c \in Channels 
          PROVE (IF m.arg[c].ok THEN m.arg[c].found ELSE clocks \intersect Known(c, services)) \subseteq Services
      BY <1>a, <2>1 DEF Results, Known
    <3> HIDE DEF m
    <3> QED BY <2>1, <3>1
  <2> QED BY <1>a, <2>1, <2>2 DEF TypeInv
<1>3. CASE PrepareSchedule
  <2> DEFINE p == m.arg
  <2>1. /\ p \in Services
        /\ schedules' = [x \in DOMAIN schedules \union {p} |->
                           IF x # p THEN schedules[x]
                           ELSE IF p \in DOMAIN schedules THEN UpdateStartIndex(schedules[p], day)
                           ELSE NewSchedule]
        /\ UNCHANGED <<services, clocks, files, news>>
    BY <1>0, <1>3, ReceivedIsTyped, ArgsAreTyped DEF PrepareSchedule
  <2> HIDE DEF p
  <2>2. day \in Nat BY DEF TypeInv
  <2>3. ASSUME NEW x \in DOMAIN schedules' PROVE schedules'[x] \in Schedules
    BY <1>a, <2>1, <2>2, NewIsTyped, StartIsTyped
  <2> QED BY <1>a, <2>1, <2>3 DEF TypeInv
<1>4. CASE UpdateSchedule
  <2> DEFINE a == m.arg
  <2>1. /\ a \in [s : Services, k : 0..(MaxDays - 2), date : Dates]
        /\ \/ schedules' = schedules
           \/ a.s \in DOMAIN schedules
              /\ schedules' = [schedules EXCEPT ![a.s] = UpdateUnit(@, a.k, a.date)]
        /\ UNCHANGED <<services, clocks, files, news>>
    BY <1>0, <1>4, ReceivedIsTyped, ArgsAreTyped DEF UpdateSchedule
  <2> HIDE DEF a
  <2>2. a.s \in DOMAIN schedules => UpdateUnit(schedules[a.s], a.k, a.date) \in Schedules
    <3>1. a.k \in Int /\ a.date \in Dates BY <2>1
    <3> QED BY <1>a, <3>1, UnitIsTyped
  <2> QED BY <1>a, <2>1, <2>2 DEF TypeInv
<1>5. CASE FlushSchedule
  <2> DEFINE p == m.arg.s
  <2>1. /\ p \in Services
        /\ \/ schedules' = schedules
           \/ p \in DOMAIN schedules /\ schedules' = [schedules EXCEPT ![p] = CollectPrograms(@)]
        /\ news' = news \union {p}
        /\ UNCHANGED <<services, clocks, files>>
    BY <1>0, <1>5, ReceivedIsTyped, ArgsAreTyped DEF FlushSchedule
  <2> HIDE DEF p
  <2>2. p \in DOMAIN schedules => CollectPrograms(schedules[p]) \in Schedules
    BY <1>a, CollectIsTyped
  <2> QED BY <1>a, <2>1, <2>2 DEF TypeInv
<1>6. CASE SaveSchedules
  <2>1. /\ files' = [files EXCEPT !.schedules = [s \in DOMAIN schedules |-> schedules[s].units]]
        /\ UNCHANGED <<services, clocks, schedules, news>>
    BY <1>6 DEF SaveSchedules
  <2>2. \A s \in DOMAIN schedules : schedules[s].units \in Units BY <1>a DEF Schedules
  <2>3. [s \in DOMAIN schedules |-> schedules[s].units] \in Partial(Units) BY <1>a, <2>2, PartialIs
  <2> QED BY <1>a, <2>1, <2>3 DEF TypeInv
<1> QED BY <1>1, <1>2, <1>3, <1>4, <1>5, <1>6 DEF Handle

LEMMA PostsAreTyped ==
    ASSUME TypeInv, NEW m \in Messages, Post(m)
    PROVE  mail' \in Seq(Messages) /\ Len(mail') <= MailSize
<1>1. mail \in Seq(Messages) /\ Len(mail) \in Nat /\ Len(mail) < MailSize /\ mail' = Append(mail, m)
  BY DEF TypeInv, Post
<1>2. mail' \in Seq(Messages) /\ Len(mail') = Len(mail) + 1 BY <1>1, AppendProperties
<1> QED BY <1>1, <1>2, BoundsAssumption

LEMMA JobsKeepTypes ==
    ASSUME TypeInv, Job
    PROVE  TypeInv'
<1> USE DEF epgVars, jobVars, subVars
<1>1. CASE \E j \in Jobs : StartJob(j)
  <2>1. PICK j \in Jobs : StartJob(j) BY <1>1
  <2>2. job' \in Jobs \union {"idle"} /\ due' \subseteq Jobs BY <2>1 DEF StartJob, TypeInv
  <2>3. first' \in Seq(Jobs)
    <3>1. first' = first \/ (first # <<>> /\ first' = Tail(first)) BY <2>1 DEF StartJob
    <3> QED BY <3>1, HeadTailProperties DEF TypeInv
  <2>4. feeder' \subseteq Feeds
    <3>1. [todo |-> {}, on |-> "asking", sids |-> {}, fed |-> {}] \in Feeds BY DEF Feeds
    <3>2. feeder' = feeder \/ feeder' = {[todo |-> {}, on |-> "asking", sids |-> {}, fed |-> {}]}
      BY <2>1 DEF StartJob
    <3> QED BY <3>1, <3>2 DEF TypeInv
  <2>5. UNCHANGED <<day, services, clocks, schedules, mail, files, news>> BY <2>1 DEF StartJob
  <2> QED BY <2>2, <2>3, <2>4, <2>5 DEF TypeInv
<1>2. CASE SkipInitialJob
  <2>1. first # <<>> /\ first' = Tail(first) /\ due' = due \union {Head(first)}
    BY <1>2 DEF SkipInitialJob
  <2>2. first' \in Seq(Jobs) /\ Head(first) \in Jobs BY <2>1, HeadTailProperties DEF TypeInv
  <2>3. UNCHANGED <<day, services, clocks, schedules, mail, files, news, job, feeder>>
    BY <1>2 DEF SkipInitialJob
  <2> QED BY <2>1, <2>2, <2>3 DEF TypeInv
<1>3. CASE ScanServices \/ SyncClocks \/ UpdateSchedules
  <2>1. PICK j \in Jobs : Done(j)
    BY <1>3 DEF ScanServices, SyncClocks, UpdateSchedules, TypeInv, Done
  <2>2. job' = "idle" /\ due' \subseteq Jobs /\ first' = first BY <2>1 DEF Done, TypeInv
  <2>3. PICK m \in Messages : Post(m)
    <3>1. \A r \in Results : Msg("UpdateServices", r) \in Messages /\ Msg("UpdateClocks", r) \in Messages
      BY DEF Messages, Msg
    <3>2. Msg("SaveSchedules", 0) \in Messages BY DEF Messages, Msg
    <3> QED BY <1>3, <3>1, <3>2 DEF ScanServices, SyncClocks, UpdateSchedules
  <2>4. feeder' \subseteq Feeds BY <1>3 DEF ScanServices, SyncClocks, UpdateSchedules, TypeInv
  <2>5. UNCHANGED <<day, services, clocks, schedules, files, news>>
    BY <1>3 DEF ScanServices, SyncClocks, UpdateSchedules
  <2>6. mail' \in Seq(Messages) /\ Len(mail') <= MailSize BY <2>3, PostsAreTyped
  <2> QED BY <2>2, <2>4, <2>5, <2>6 DEF TypeInv
<1> QED BY <1>1, <1>2, <1>3 DEF Job

(***************************************************************************)
(* Types: the EIT feeder.                                                   *)
(***************************************************************************)
LEMMA SetToSeqLists ==
    ASSUME NEW S, IsFiniteSet(S)
    PROVE  /\ SetToSeq(S) \in Seq(S)
           /\ DOMAIN SetToSeq(S) = 1..Cardinality(S)
           /\ \A x \in S : \E i \in DOMAIN SetToSeq(S) : SetToSeq(S)[i] = x
           /\ IsInjective(SetToSeq(S))
<1> DEFINE n == Cardinality(S)
<1>1. n \in Nat /\ ExistsBijection(1..n, S)
  BY FS_CardinalityType
<1>2. \E f \in [1..n -> S] : IsInjective(f)
  BY <1>1 DEF ExistsBijection, Bijection, Injection, IsInjective
<1>3. SetToSeq(S) \in [1..n -> S] /\ IsInjective(SetToSeq(S))
  BY <1>2 DEF SetToSeq
<1>4. SetToSeq(S) \in Injection(1..n, S)
  BY <1>3 DEF Injection
<1>5. IsFiniteSet(1..n) /\ Cardinality(1..n) = n
  BY <1>1, FS_Interval
<1>6. SetToSeq(S) \in Surjection(1..n, S)
  BY <1>4, <1>5, FS_Injection
<1>7. \A x \in S : \E i \in 1..n : SetToSeq(S)[i] = x
  BY <1>6 DEF Surjection
<1>8. SetToSeq(S) \in Seq(S)
  BY <1>1, <1>3
<1> QED
  BY <1>3, <1>7, <1>8

FedOf(f, s) == {e \in f.fed : e.s = s}
(* What a flush posts: one message per service seen.                        *)
Flushes(f, l) ==
    /\ l \in Seq(Messages)
    /\ \A i \in DOMAIN l : /\ l[i].kind = "FlushSchedule" /\ l[i].arg.s \in f.sids
                           /\ l[i].arg.fed = FedOf(f, l[i].arg.s) /\ l[i].arg.fed # {}
    /\ \A i, j \in DOMAIN l : l[i].arg.s = l[j].arg.s => i = j
LEMMA FlushPosts ==
    ASSUME TypeInv, Flush
    PROVE  \E f \in feeder : \E l \in Seq(Messages) :
              /\ f.on = "feeding" /\ Flushes(f, l)
              /\ mail' = mail \o l /\ Len(mail') <= MailSize
              /\ feeder' = {[f EXCEPT !.on = "tuning", !.sids = {}, !.fed = {}]}
<1>1. PICK f \in feeder : f.on = "feeding" /\
          LET fedOf(s) == {e \in f.fed : e.s = s}
              seenSids == SetToSeq({s \in f.sids : fedOf(s) # {}})
          IN  /\ mail' = mail \o [i \in DOMAIN seenSids |->
                    Msg("FlushSchedule", [s |-> seenSids[i], fed |-> fedOf(seenSids[i])])]
              /\ Len(mail') <= MailSize
              /\ feeder' = {[f EXCEPT !.on = "tuning", !.sids = {}, !.fed = {}]}
  BY DEF Flush
<1> DEFINE S == {s \in f.sids : FedOf(f, s) # {}}
<1> DEFINE q == SetToSeq(S)
<1> DEFINE l == [i \in DOMAIN q |-> Msg("FlushSchedule", [s |-> q[i], fed |-> FedOf(f, q[i])])]
<1>2. f \in Feeds /\ f.sids \subseteq Services /\ f.fed \subseteq Sections BY DEF TypeInv, Feeds
<1>3. mail' = mail \o l BY <1>1 DEF FedOf
<1>4. IsFiniteSet(S) /\ S \subseteq Services BY <1>2, ServicesAssumption, FS_Subset
<1>5. q \in Seq(S) /\ IsInjective(q) /\ DOMAIN q = 1..Cardinality(S) /\ Cardinality(S) \in Nat
  <2> HIDE DEF S
  <2> QED BY <1>4, SetToSeqLists, FS_CardinalityType
<1>6. \A i, j \in DOMAIN q : q[i] = q[j] => i = j BY <1>5 DEF IsInjective
<1>7. \A i \in DOMAIN q : q[i] \in f.sids /\ FedOf(f, q[i]) # {}
  <2> HIDE DEF S, q
  <2>1. \A i \in DOMAIN q : q[i] \in S BY <1>5
  <2> QED BY <2>1 DEF S
<1> HIDE DEF q
<1>8. ASSUME NEW i \in DOMAIN l PROVE
          /\ l[i].kind = "FlushSchedule" /\ l[i].arg.s = q[i] /\ l[i].arg.fed = FedOf(f, q[i])
          /\ l[i] \in Messages
  <2>1. q[i] \in Services /\ FedOf(f, q[i]) \in SUBSET Sections BY <1>2, <1>7 DEF FedOf
  <2>2. l[i] = [kind |-> "FlushSchedule", arg |-> [s |-> q[i], fed |-> FedOf(f, q[i])]] BY DEF Msg
  <2> QED BY <2>1, <2>2 DEF Messages
<1>9. DOMAIN l = DOMAIN q OBVIOUS
<1> HIDE DEF l
<1>10. l \in Seq(Messages)
  <2> DEFINE n == Cardinality(S)
  <2>1. n \in Nat /\ DOMAIN l = 1..n /\ \A i \in 1..n : l[i] \in Messages BY <1>5, <1>8, <1>9
  <2>2. l = [i \in 1..n |-> l[i]] BY <1>5, <1>9 DEF l
  <2> HIDE DEF n
  <2>3. l \in [1..n -> Messages] BY <2>1, <2>2
  <2> QED BY <2>1, <2>3
<1>11. Flushes(f, l) BY <1>6, <1>7, <1>8, <1>9, <1>10 DEF Flushes
<1> QED BY <1>1, <1>3, <1>10, <1>11

(* A section arrives at the feeder.                                         *)
Section(s, k) == [s |-> s, k |-> k, day |-> day]
UpdateOf(s, k) == Msg("UpdateSchedule", [s |-> s, k |-> k, date |-> day + k])
Seen(f, s) == \E e \in f.fed : e.s = s
SectionArrives(f, s, k) ==
    /\ f.on = "feeding" /\ Section(s, k) \notin f.fed
    /\ \A j \in 0..(k - 1) : \E e \in f.fed : e.s = s /\ e.k = j
    /\ mail' = IF Seen(f, s) THEN Append(mail, UpdateOf(s, k))
               ELSE Append(Append(mail, Msg("PrepareSchedule", s)), UpdateOf(s, k))
    /\ Len(mail') <= MailSize
    /\ feeder' = {[f EXCEPT !.fed = @ \union {Section(s, k)}]}
LEMMA FeedPosts ==
    ASSUME TypeInv, Feed
    PROVE  \E f \in feeder : \E s \in f.sids : \E k \in 0..(MaxDays - 2) : SectionArrives(f, s, k)
<1>1. PICK f \in feeder : \E s \in f.sids : \E k \in 0..(MaxDays - 2) :
          /\ f.on = "feeding" /\ Section(s, k) \notin f.fed
          /\ \A j \in 0..(k - 1) : \E e \in f.fed : e.s = s /\ e.k = j
          /\ IF Seen(f, s)
               THEN mail' = Append(mail, UpdateOf(s, k))
               ELSE mail' = mail \o <<Msg("PrepareSchedule", s), UpdateOf(s, k)>>
          /\ Len(mail') <= MailSize
          /\ feeder' = {[f EXCEPT !.fed = @ \union {Section(s, k)}]}
  BY DEF Feed, Section, UpdateOf, Seen
<1>2. \A m, u : mail \o <<m, u>> = Append(Append(mail, m), u) BY DEF TypeInv
<1> QED BY <1>1, <1>2 DEF SectionArrives

LEMMA FeederKeepsTypes ==
    ASSUME TypeInv, FeederStep
    PROVE  TypeInv'
<1> USE DEF epgVars, jobVars, subVars
<1>0. UNCHANGED <<day, services, clocks, schedules, job, due, first, files, news>>
  BY DEF FeederStep, QueryServices, Tune, NoTuner, Feed, Flush, ReadError
<1>1. SUFFICES mail' \in Seq(Messages) /\ Len(mail') <= MailSize /\ feeder' \subseteq Feeds
  BY <1>0 DEF TypeInv
<1>2. CASE QueryServices \/ Tune \/ NoTuner \/ ReadError
  <2>1. mail' = mail BY <1>2 DEF QueryServices, Tune, NoTuner, ReadError
  <2>2. feeder' \subseteq Feeds
    <3>1. CASE QueryServices BY <3>1 DEF QueryServices, TypeInv, Feeds
    <3>2. CASE Tune
      <4>1. PICK f \in feeder : \E ss \in SUBSET f.todo :
               feeder' = {[f EXCEPT !.on = "done"]}
               \/ feeder' = {[f EXCEPT !.on = "feeding", !.sids = ss, !.todo = @ \ ss]}
        BY <3>2 DEF Tune, Known
      <4>2. f \in Feeds /\ f.todo \subseteq Services BY DEF TypeInv, Feeds
      <4>3. [f EXCEPT !.on = "done"] \in Feeds BY <4>2 DEF Feeds
      <4>4. \A ss \in SUBSET f.todo : [f EXCEPT !.on = "feeding", !.sids = ss, !.todo = @ \ ss] \in Feeds
        BY <4>2 DEF Feeds
      <4> QED BY <4>1, <4>3, <4>4
    <3>3. CASE NoTuner \/ ReadError
      <4>1. PICK f \in feeder : feeder' = {[f EXCEPT !.on = "done", !.sids = {}, !.fed = {}]}
        BY <3>3 DEF NoTuner, ReadError
      <4> QED BY <4>1 DEF TypeInv, Feeds
    <3> QED BY <1>2, <3>1, <3>2, <3>3
  <2> QED BY <2>1, <2>2 DEF TypeInv
<1>3. CASE Feed
  <2>1. PICK f \in feeder : \E s \in f.sids : \E k \in 0..(MaxDays - 2) : SectionArrives(f, s, k)
    BY <1>3, FeedPosts
  <2>1a. PICK s \in f.sids : \E k \in 0..(MaxDays - 2) : SectionArrives(f, s, k) BY <2>1
  <2>1b. PICK k \in 0..(MaxDays - 2) : SectionArrives(f, s, k) BY <2>1a
  <2>2. f \in Feeds /\ s \in Services /\ Section(s, k) \in Sections
    BY DEF TypeInv, Feeds, Sections, Section
  <2>3. feeder' \subseteq Feeds BY <2>1b, <2>2 DEF Feeds, SectionArrives
  <2>4. day + k \in Dates BY DaysAssumption, BoundsAssumption DEF TypeInv, Dates
  <2>5. UpdateOf(s, k) \in Messages /\ Msg("PrepareSchedule", s) \in Messages
    BY <2>2, <2>4 DEF Messages, Msg, UpdateOf
  <2>6. mail' \in Seq(Messages) BY <2>1b, <2>5 DEF TypeInv, SectionArrives
  <2>7. Len(mail') <= MailSize BY <2>1b DEF SectionArrives
  <2> QED BY <2>3, <2>6, <2>7
<1>4. CASE Flush
  <2>1. PICK f \in feeder, l \in Seq(Messages) :
              /\ mail' = mail \o l /\ Len(mail') <= MailSize
              /\ feeder' = {[f EXCEPT !.on = "tuning", !.sids = {}, !.fed = {}]}
    BY <1>4, FlushPosts
  <2>2. f \in Feeds BY DEF TypeInv
  <2>3. [f EXCEPT !.on = "tuning", !.sids = {}, !.fed = {}] \in Feeds BY <2>2 DEF Feeds
  <2>4. mail' \in Seq(Messages) BY <2>1 DEF TypeInv
  <2> QED BY <2>1, <2>3, <2>4
<1> QED BY <1>2, <1>3, <1>4 DEF FeederStep

LEMMA EmptyIsPartial == ASSUME NEW S PROVE <<>> \in Partial(S)
<1>1. DOMAIN <<>> = {} /\ <<>> \in [{} -> S] OBVIOUS
<1> QED BY <1>1, PartialIs

LEMMA RestartsKeepTypes ==
    ASSUME TypeInv, Started \/ Crash \/ ProgramsUpdated \/ Midnight \/ UNCHANGED vars
    PROVE  TypeInv'
<1> USE DEF epgVars, jobVars, subVars
<1>0. InitialJobs \in Seq(Jobs)
  <2> DEFINE one(j) == IF j \in Jobs THEN <<j>> ELSE <<>>
  <2>1. \A j : one(j) \in Seq(Jobs) OBVIOUS
  <2> HIDE DEF one
  <2>2. one("scan") \o one("sync") \in Seq(Jobs) BY <2>1
  <2>3. one("scan") \o one("sync") \o one("update") \in Seq(Jobs) BY <2>1, <2>2
  <2> QED BY <2>3 DEF InitialJobs, one
<1>1. CASE Started
  <2> DEFINE kept == Restrict2(files.schedules, files.services)
  <2> DEFINE loaded(s) == UpdateStartIndex([NewSchedule EXCEPT !.units = kept[s]], day)
  <2>1. /\ schedules' = [s \in DOMAIN kept |-> CollectPrograms(loaded(s))] /\ news' = DOMAIN kept
        /\ services' = files.services /\ clocks' = files.clocks \intersect files.services
        /\ job' = "idle" /\ due' = {} /\ first' = InitialJobs
        /\ UNCHANGED <<day, mail, feeder, files>>
    BY <1>1 DEF Started
  <2>2. DOMAIN kept \subseteq Services /\ \A s \in DOMAIN kept : kept[s] \in Units
    <3>1. DOMAIN files.schedules \subseteq Services /\ files.schedules \in [DOMAIN files.schedules -> Units]
      BY PartialIs DEF TypeInv
    <3> QED BY <3>1 DEF Restrict2
  <2> HIDE DEF kept
  <2>3. ASSUME NEW s \in DOMAIN kept PROVE CollectPrograms(loaded(s)) \in Schedules
    BY <2>2, NewIsTyped, StartIsTyped, CollectIsTyped DEF TypeInv
  <2>4. schedules' \in Partial(Schedules)
    <3> HIDE DEF loaded
    <3> QED BY <2>1, <2>2, <2>3, PartialIs
  <2> QED BY <1>0, <2>1, <2>2, <2>4 DEF TypeInv
<1>2. CASE Crash
  <2>1. schedules' = <<>> /\ mail' = <<>> /\ job' = "idle" /\ due' = {} /\ first' = <<>> /\ feeder' = {}
        /\ services' = {} /\ clocks' = {} /\ news' = {} /\ UNCHANGED <<day, files>>
    BY <1>2 DEF Crash
  <2>2. <<>> \in Partial(Schedules) BY EmptyIsPartial
  <2>3. <<>> \in Seq(Messages) /\ Len(<<>>) <= MailSize /\ <<>> \in Seq(Jobs) BY BoundsAssumption
  <2> QED BY <2>1, <2>2, <2>3 DEF TypeInv
<1>3. CASE ProgramsUpdated BY <1>3 DEF ProgramsUpdated, TypeInv
<1>4. CASE Midnight
  <2>1. day' \in 1..MaxDay BY <1>4, BoundsAssumption DEF Midnight, TypeInv
  <2> QED BY <1>4, <2>1 DEF Midnight, TypeInv
<1>5. CASE UNCHANGED vars BY <1>5 DEF vars, TypeInv
<1> QED BY <1>1, <1>2, <1>3, <1>4, <1>5

(* Every message has the argument of its kind, every ring MaxDays units, and*)
(* the mailbox is never longer than its capacity.                           *)
THEOREM TypesAreKept == Spec => []TypeInv
<1>1. Init => TypeInv
  <2> SUFFICES ASSUME Init PROVE TypeInv OBVIOUS
  <2>0. InitialJobs \in Seq(Jobs)
    <3> DEFINE one(j) == IF j \in Jobs THEN <<j>> ELSE <<>>
    <3>1. \A j : one(j) \in Seq(Jobs) OBVIOUS
    <3> HIDE DEF one
    <3>2. one("scan") \o one("sync") \in Seq(Jobs) BY <3>1
    <3>3. one("scan") \o one("sync") \o one("update") \in Seq(Jobs) BY <3>1, <3>2
    <3> QED BY <3>3 DEF InitialJobs, one
  <2>1. <<>> \in Partial(Schedules) /\ <<>> \in Partial(Units) BY EmptyIsPartial
  <2>2. <<>> \in Seq(Messages) /\ Len(<<>>) <= MailSize /\ 1 \in 1..MaxDay BY BoundsAssumption
  <2> QED BY <2>0, <2>1, <2>2 DEF Init, TypeInv
<1>2. TypeInv /\ [Next]_vars => TypeInv'
  BY HandlersKeepTypes, JobsKeepTypes, FeederKeepsTypes, RestartsKeepTypes DEF Next
<1> QED BY <1>1, <1>2, PTL DEF Spec

(* The type invariant that the run checks.                                  *)
THEOREM TypeCorrect == Spec => []TypeOK
<1>1. TypeInv => TypeOK
  <2> SUFFICES ASSUME TypeInv PROVE TypeOK OBVIOUS
  <2>1. DOMAIN schedules \subseteq Services /\ schedules \in [DOMAIN schedules -> Schedules]
    BY PartialIs DEF TypeInv
  <2>2. \A s \in DOMAIN schedules : schedules[s].units \in Units /\ schedules[s].start \in Slots
    BY <2>1 DEF Schedules
  <2> QED BY <2>1, <2>2 DEF TypeInv, TypeOK, Units, Slots
<1> QED BY <1>1, TypesAreKept, PTL

(***************************************************************************)
(* Scans and flushes.                                                       *)
(***************************************************************************)
(* No scan is on its way, but behind what is flushed.                       *)
NoScan(i) == mail[i].kind # "UpdateServices"
FlushesKnown ==
    \A i \in DOMAIN mail : mail[i].kind = "FlushSchedule" =>
       mail[i].arg.s \in services /\ \A j \in 1..(i - 1) : NoScan(j)
(* The feeder works in an update job only, through services that are known. *)
FeederInv ==
    /\ \A f, g \in feeder : f = g
    /\ feeder # {} => job = "update"
    /\ \A f \in feeder :
          /\ f.on = "asking" => f.todo = {} /\ f.sids = {}
          /\ f.on # "asking" =>
                /\ f.todo \subseteq services /\ f.sids \subseteq services
                /\ \A i \in DOMAIN mail : NoScan(i)
    /\ ~up => mail = <<>> /\ feeder = {}
ScanInv == FlushesKnown /\ FeederInv

(* A handler takes the first message: the others move up by one.            *)
LEMMA TailShifts ==
    ASSUME TypeInv, NEW kind, Receive(kind)
    PROVE  /\ DOMAIN mail = 1..Len(mail) /\ Len(mail) \in Nat /\ Len(mail) >= 1
           /\ DOMAIN mail' = 1..(Len(mail) - 1) /\ Len(mail') = Len(mail) - 1
           /\ \A i \in DOMAIN mail' : mail'[i] = mail[i + 1] /\ i + 1 \in DOMAIN mail
           /\ Head(mail) = mail[1] /\ 1 \in DOMAIN mail /\ mail[1].kind = kind
<1>1. mail \in Seq(Messages) /\ mail # <<>> /\ mail' = Tail(mail) /\ Head(mail).kind = kind
  BY DEF Receive, TypeInv
<1> QED BY <1>1

LEMMA AppendKeeps ==
    ASSUME TypeInv, NEW m, mail' = Append(mail, m)
    PROVE  /\ DOMAIN mail = 1..Len(mail) /\ Len(mail) \in Nat
           /\ DOMAIN mail' = 1..(Len(mail) + 1) /\ Len(mail') = Len(mail) + 1
           /\ \A i \in DOMAIN mail : mail'[i] = mail[i]
           /\ mail'[Len(mail) + 1] = m
BY DEF TypeInv

(* What a step of the feeder other than a query leaves of its services.     *)
Narrows(f, g) ==
    /\ f.on # "asking" /\ g.on # "asking"
    /\ g.todo \subseteq f.todo /\ g.sids \subseteq f.todo \union f.sids
LEMMA FeederNarrows ==
    ASSUME TypeInv, Tune \/ NoTuner \/ ReadError \/ Flush
    PROVE  \E f \in feeder : \E g : feeder' = {g} /\ Narrows(f, g)
<1>0. \A f \in feeder : f \in Feeds BY DEF TypeInv
<1>1. CASE Tune
  <2>1. PICK f \in feeder : f.on = "tuning" /\ \E ss \in SUBSET f.todo :
           feeder' = {[f EXCEPT !.on = "done"]}
           \/ feeder' = {[f EXCEPT !.on = "feeding", !.sids = ss, !.todo = @ \ ss]}
    BY <1>1 DEF Tune, Known
  <2>2. PICK ss \in SUBSET f.todo :
           feeder' = {[f EXCEPT !.on = "done"]}
           \/ feeder' = {[f EXCEPT !.on = "feeding", !.sids = ss, !.todo = @ \ ss]}
    BY <2>1
  <2>3. f \in Feeds /\ f.on = "tuning" BY <1>0, <2>1
  <2> DEFINE g == [f EXCEPT !.on = "done"]
  <2> DEFINE h == [f EXCEPT !.on = "feeding", !.sids = ss, !.todo = @ \ ss]
  <2>4. Narrows(f, g) BY <2>3 DEF Feeds, Narrows
  <2>5. Narrows(f, h) BY <2>3 DEF Feeds, Narrows
  <2> QED BY <2>2, <2>4, <2>5
<1>2. CASE NoTuner \/ ReadError
  <2>1. PICK f \in feeder : f.on # "asking" /\ feeder' = {[f EXCEPT !.on = "done", !.sids = {}, !.fed = {}]}
    BY <1>2 DEF NoTuner, ReadError
  <2>2. Narrows(f, [f EXCEPT !.on = "done", !.sids = {}, !.fed = {}])
    BY <1>0, <2>1 DEF Feeds, Narrows
  <2> QED BY <2>1, <2>2
<1>3. CASE Flush
  <2>1. PICK f \in feeder : f.on # "asking" /\ feeder' = {[f EXCEPT !.on = "tuning", !.sids = {}, !.fed = {}]}
    BY <1>3 DEF Flush
  <2>2. Narrows(f, [f EXCEPT !.on = "tuning", !.sids = {}, !.fed = {}])
    BY <1>0, <2>1 DEF Feeds, Narrows
  <2> QED BY <2>1, <2>2
<1> QED BY <1>1, <1>2, <1>3

(* What a section or a flush posts.                                         *)
Scanless(f, l) ==
    \A i \in DOMAIN l : l[i].kind # "UpdateServices" /\ (l[i].kind = "FlushSchedule" => l[i].arg.s \in f.sids)
LEMMA FeederPosts ==
    ASSUME TypeInv, Feed \/ Flush
    PROVE  \E f \in feeder : /\ f.on = "feeding"
              /\ \E l \in Seq(Messages) : mail' = mail \o l /\ Scanless(f, l)
              /\ \E g : feeder' = {g} /\ Narrows(f, g)
<1>0. \A f \in feeder : f \in Feeds BY DEF TypeInv
<1>1. CASE Feed
  <2>1. PICK f \in feeder : \E s \in f.sids : \E k \in 0..(MaxDays - 2) : SectionArrives(f, s, k)
    BY <1>1, FeedPosts
  <2>2. PICK s \in f.sids : \E k \in 0..(MaxDays - 2) : SectionArrives(f, s, k) BY <2>1
  <2>3. PICK k \in 0..(MaxDays - 2) : SectionArrives(f, s, k) BY <2>2
  <2> DEFINE u == UpdateOf(s, k)
  <2> DEFINE p == Msg("PrepareSchedule", s)
  <2>4. u.kind = "UpdateSchedule" /\ p.kind = "PrepareSchedule" BY DEF UpdateOf, Msg
  <2>5. u \in Messages /\ p \in Messages
    <3>1. s \in Services /\ day + k \in Dates
      BY DaysAssumption, BoundsAssumption DEF TypeInv, Dates, Feeds
    <3> QED BY <3>1 DEF Messages, Msg, UpdateOf
  <2>6. mail' = Append(mail, u) \/ mail' = Append(Append(mail, p), u) BY <2>3 DEF SectionArrives
  <2> HIDE DEF u, p
  <2>7. \E l \in Seq(Messages) : mail' = mail \o l /\ Scanless(f, l)
    <3>1. Append(mail, u) = mail \o <<u>> BY DEF TypeInv
    <3>2. Append(Append(mail, p), u) = mail \o <<p, u>> BY DEF TypeInv
    <3>3. <<u>> \in Seq(Messages) /\ <<p, u>> \in Seq(Messages) BY <2>5
    <3>4. Scanless(f, <<u>>) BY <2>4 DEF Scanless
    <3>5. Scanless(f, <<p, u>>) BY <2>4 DEF Scanless
    <3> QED BY <2>6, <3>1, <3>2, <3>3, <3>4, <3>5
  <2> DEFINE g == [f EXCEPT !.fed = @ \union {Section(s, k)}]
  <2>8. f.on = "feeding" /\ feeder' = {g} BY <2>3 DEF SectionArrives
  <2>9. Narrows(f, g) BY <1>0, <2>8 DEF Feeds, Narrows
  <2> QED BY <2>7, <2>8, <2>9
<1>2. CASE Flush
  <2>1. PICK f \in feeder : \E l \in Seq(Messages) :
              /\ f.on = "feeding" /\ Flushes(f, l) /\ mail' = mail \o l
              /\ feeder' = {[f EXCEPT !.on = "tuning", !.sids = {}, !.fed = {}]}
    BY <1>2, FlushPosts
  <2>2. \E l \in Seq(Messages) : mail' = mail \o l /\ Scanless(f, l) BY <2>1 DEF Flushes, Scanless
  <2>3. Narrows(f, [f EXCEPT !.on = "tuning", !.sids = {}, !.fed = {}])
    BY <1>0, <2>1 DEF Feeds, Narrows
  <2> QED BY <2>1, <2>2, <2>3
<1> QED BY <1>1, <1>2

(* Only a scan changes the services, and no flush is behind one.            *)
LEMMA HandlersKeepScans ==
    ASSUME TypeInv, ScanInv, Handle
    PROVE  ScanInv'
<1> USE DEF epgVars, jobVars, subVars
<1>0. PICK kind \in {"UpdateServices", "UpdateClocks", "PrepareSchedule", "UpdateSchedule", "FlushSchedule", "SaveSchedules"} :
         Receive(kind) /\ (services' = services \/ kind = "UpdateServices")
  BY DEF Handle, UpdateServices, UpdateClocks, PrepareSchedule, UpdateSchedule, FlushSchedule, SaveSchedules
<1>1. UNCHANGED <<feeder, job, up>> /\ up
  BY DEF Handle, UpdateServices, UpdateClocks, PrepareSchedule, UpdateSchedule, FlushSchedule, SaveSchedules, Receive
<1>2. /\ DOMAIN mail = 1..Len(mail) /\ Len(mail) \in Nat
      /\ DOMAIN mail' = 1..(Len(mail) - 1)
      /\ \A i \in DOMAIN mail' : mail'[i] = mail[i + 1] /\ i + 1 \in DOMAIN mail
      /\ 1 \in DOMAIN mail /\ mail[1].kind = kind
  BY <1>0, TailShifts
<1>3. FlushesKnown'
  <2>1. ASSUME NEW i \in DOMAIN mail', mail'[i].kind = "FlushSchedule"
        PROVE  mail'[i].arg.s \in services' /\ \A j \in 1..(i - 1) : mail'[j].kind # "UpdateServices"
    <3>1. i + 1 \in DOMAIN mail /\ mail[i + 1] = mail'[i] /\ i \in Nat /\ i >= 1 BY <1>2
    <3>2. mail[i + 1].arg.s \in services /\ \A j \in 1..i : NoScan(j)
      BY <2>1, <3>1 DEF ScanInv, FlushesKnown
    <3>3. services' = services
      <4>1. NoScan(1) BY <3>1, <3>2
      <4> QED BY <1>0, <1>2, <4>1 DEF NoScan
    <3>4. ASSUME NEW j \in 1..(i - 1) PROVE mail'[j].kind # "UpdateServices"
      <4>1. j \in DOMAIN mail' /\ j + 1 \in 1..i BY <1>2, <3>1
      <4> QED BY <1>2, <3>2, <4>1 DEF NoScan
    <3> QED BY <3>1, <3>2, <3>3, <3>4
  <2> QED BY <2>1 DEF FlushesKnown, NoScan
<1>4. FeederInv'
  <2>1. ASSUME NEW f \in feeder, f.on # "asking"
        PROVE  services' = services /\ \A i \in DOMAIN mail' : NoScan(i)'
    <3>1. \A i \in DOMAIN mail : NoScan(i) BY <2>1 DEF ScanInv, FeederInv
    <3> QED BY <1>0, <1>2, <3>1 DEF NoScan
  <2> QED BY <1>1, <2>1 DEF ScanInv, FeederInv
<1> QED BY <1>3, <1>4 DEF ScanInv

(* A job that ends posts behind the flushes, when there is no feeder.       *)
LEMMA JobsKeepScans ==
    ASSUME TypeInv, ScanInv, Job
    PROVE  ScanInv'
<1> USE DEF epgVars, jobVars, subVars
<1>0. UNCHANGED <<services, up>> /\ up
  BY DEF Job, StartJob, SkipInitialJob, ScanServices, SyncClocks, UpdateSchedules
<1>1. CASE \E j \in Jobs : StartJob(j)
  <2>1. PICK j \in Jobs : StartJob(j) BY <1>1
  <2>2. job = "idle" /\ mail' = mail /\ job' = j BY <2>1 DEF StartJob
  <2>3. feeder = {} 
    <3>1. job # "update" BY <2>2
    <3> QED BY <3>1 DEF ScanInv, FeederInv
  <2>4. \/ feeder' = {}
        \/ j = "update" /\ feeder' = {[todo |-> {}, on |-> "asking", sids |-> {}, fed |-> {}]}
    BY <2>1, <2>3 DEF StartJob
  <2>5. FeederInv' BY <1>0, <2>2, <2>4 DEF FeederInv
  <2>6. FlushesKnown' BY <1>0, <2>2 DEF ScanInv, FlushesKnown, NoScan
  <2> QED BY <2>5, <2>6 DEF ScanInv
<1>2. CASE SkipInitialJob
  <2>1. UNCHANGED <<mail, feeder, job>> BY <1>2 DEF SkipInitialJob
  <2> QED BY <1>0, <2>1 DEF ScanInv, FlushesKnown, FeederInv, NoScan
<1>3. CASE ScanServices \/ SyncClocks \/ UpdateSchedules
  <2>1. PICK m : Post(m) /\ m.kind # "FlushSchedule" 
    <3>1. CASE ScanServices
      <4>1. PICK r \in Results : Post(Msg("UpdateServices", r)) BY <3>1 DEF ScanServices
      <4>2. Msg("UpdateServices", r).kind # "FlushSchedule" BY DEF Msg
      <4> QED BY <4>1, <4>2
    <3>2. CASE SyncClocks
      <4>1. PICK r \in Results : Post(Msg("UpdateClocks", r)) BY <3>2 DEF SyncClocks
      <4>2. Msg("UpdateClocks", r).kind # "FlushSchedule" BY DEF Msg
      <4> QED BY <4>1, <4>2
    <3>3. CASE UpdateSchedules
      <4>1. Post(Msg("SaveSchedules", 0)) BY <3>3 DEF UpdateSchedules
      <4>2. Msg("SaveSchedules", 0).kind # "FlushSchedule" BY DEF Msg
      <4> QED BY <4>1, <4>2
    <3> QED BY <1>3, <3>1, <3>2, <3>3
  <2>2. mail' = Append(mail, m) BY <2>1 DEF Post
  <2>3. /\ DOMAIN mail = 1..Len(mail) /\ Len(mail) \in Nat
        /\ DOMAIN mail' = 1..(Len(mail) + 1) 
        /\ \A i \in DOMAIN mail : mail'[i] = mail[i]
        /\ mail'[Len(mail) + 1] = m
    BY <2>2, AppendKeeps
  <2>4. feeder' = {} 
    <3>1. CASE ScanServices \/ SyncClocks
      <4>1. job # "update" /\ feeder' = feeder BY <3>1 DEF ScanServices, SyncClocks, Done
      <4> QED BY <4>1 DEF ScanInv, FeederInv
    <3> QED BY <1>3, <3>1 DEF UpdateSchedules
  <2>5. FlushesKnown'
    <3>1. ASSUME NEW i \in DOMAIN mail', mail'[i].kind = "FlushSchedule"
          PROVE  mail'[i].arg.s \in services /\ \A j \in 1..(i - 1) : mail'[j].kind # "UpdateServices"
      <4>1. i \in DOMAIN mail /\ mail'[i] = mail[i] BY <2>1, <2>3, <3>1
      <4>2. mail[i].arg.s \in services /\ \A j \in 1..(i - 1) : NoScan(j)
        BY <3>1, <4>1 DEF ScanInv, FlushesKnown
      <4>3. \A j \in 1..(i - 1) : j \in DOMAIN mail BY <2>3, <4>1
      <4> QED BY <2>3, <4>1, <4>2, <4>3 DEF NoScan
    <3> QED BY <1>0, <3>1 DEF FlushesKnown, NoScan
  <2> QED BY <1>0, <2>4, <2>5 DEF ScanInv, FeederInv
<1> QED BY <1>1, <1>2, <1>3 DEF Job

(* What the feeder posts contains no scan, and flushes what is known.       *)
LEMMA FeederKeepsScans ==
    ASSUME TypeInv, ScanInv, FeederStep
    PROVE  ScanInv'
<1> USE DEF epgVars, jobVars, subVars
<1>0. UNCHANGED <<services, up, job>> /\ up
  BY DEF FeederStep, QueryServices, Tune, NoTuner, Feed, Flush, ReadError
<1>1. CASE QueryServices
  <2>1. mail = <<>> /\ mail' = <<>> /\ feeder # {} 
        /\ feeder' = {[todo |-> services, on |-> "tuning", sids |-> {}, fed |-> {}]}
    BY <1>1 DEF QueryServices
  <2> QED BY <1>0, <2>1 DEF ScanInv, FlushesKnown, FeederInv
<1>2. CASE Tune \/ NoTuner \/ ReadError
  <2>1. PICK f \in feeder : \E g : feeder' = {g} /\ Narrows(f, g) BY <1>2, FeederNarrows
  <2>2. mail' = mail BY <1>2 DEF Tune, NoTuner, ReadError
  <2>3. f.todo \subseteq services /\ f.sids \subseteq services /\ (\A i \in DOMAIN mail : NoScan(i)) /\ job = "update"
    BY <2>1 DEF ScanInv, FeederInv, Narrows
  <2>4. FeederInv' BY <1>0, <2>1, <2>2, <2>3 DEF FeederInv, NoScan, Narrows
  <2> QED BY <1>0, <2>2, <2>4 DEF ScanInv, FlushesKnown, NoScan
<1>3. CASE Feed \/ Flush
  <2>1. PICK f \in feeder : /\ f.on = "feeding"
              /\ \E l \in Seq(Messages) : mail' = mail \o l /\ Scanless(f, l)
              /\ \E g : feeder' = {g} /\ Narrows(f, g)
    BY <1>3, FeederPosts
  <2>2. PICK l \in Seq(Messages) : mail' = mail \o l /\ Scanless(f, l) BY <2>1
  <2>3. f.todo \subseteq services /\ f.sids \subseteq services /\ (\A i \in DOMAIN mail : NoScan(i)) /\ job = "update"
    BY <2>1 DEF ScanInv, FeederInv
  <2>4. \A i \in DOMAIN mail' : \/ i \in DOMAIN mail /\ mail'[i] = mail[i]
                               \/ \E j \in DOMAIN l : mail'[i] = l[j]
    <3>1. mail \in Seq(Messages) BY DEF TypeInv
    <3>2. \A i \in 1..Len(mail) + Len(l) : i > Len(mail) => i - Len(mail) \in 1..Len(l)
      BY <2>2, <3>1
    <3> QED BY <2>2, <3>1, <3>2
  <2>5. \A i \in DOMAIN mail' : mail'[i].kind # "UpdateServices"
    BY <2>2, <2>3, <2>4 DEF NoScan, Scanless
  <2>6. \A i \in DOMAIN mail' : mail'[i].kind = "FlushSchedule" => mail'[i].arg.s \in services
    BY <2>2, <2>3, <2>4 DEF ScanInv, FlushesKnown, Scanless
  <2>7. \A i \in DOMAIN mail' : \A j \in 1..(i - 1) : j \in DOMAIN mail'
    <3>1. mail' \in Seq(Messages) BY <2>2 DEF TypeInv
    <3> QED BY <3>1
  <2>8. FlushesKnown' BY <1>0, <2>5, <2>6, <2>7 DEF FlushesKnown, NoScan
  <2>9. FeederInv' BY <1>0, <2>1, <2>3, <2>5 DEF FeederInv, NoScan, Narrows
  <2> QED BY <2>8, <2>9 DEF ScanInv
<1> QED BY <1>1, <1>2, <1>3 DEF FeederStep

LEMMA RestartsKeepScans ==
    ASSUME TypeInv, ScanInv, Started \/ Crash \/ ProgramsUpdated \/ Midnight \/ UNCHANGED vars
    PROVE  ScanInv'
<1> USE DEF epgVars, jobVars, subVars
<1>1. CASE Started
  <2>1. mail' = <<>> /\ feeder' = {} BY <1>1 DEF Started, ScanInv, FeederInv
  <2> QED BY <2>1 DEF ScanInv, FlushesKnown, FeederInv
<1>2. CASE Crash
  <2>1. mail' = <<>> /\ feeder' = {} BY <1>2 DEF Crash
  <2> QED BY <2>1 DEF ScanInv, FlushesKnown, FeederInv
<1>3. CASE ProgramsUpdated \/ Midnight \/ UNCHANGED vars
  <2>1. UNCHANGED <<services, up, job, mail, feeder>> BY <1>3 DEF ProgramsUpdated, Midnight, vars
  <2> QED BY <2>1 DEF ScanInv, FlushesKnown, FeederInv, NoScan
<1> QED BY <1>1, <1>2, <1>3

(* While sections are fed no scan is in the mailbox: one job runs at a time, and*)
(* the feeder starts behind the results of the scan before it.              *)
THEOREM FlushesAreKnown == Spec => []ScanInv
<1>1. Init => ScanInv BY DEF Init, ScanInv, FlushesKnown, FeederInv
<1>2. TypeInv /\ ScanInv /\ [Next]_vars => ScanInv'
  BY HandlersKeepScans, JobsKeepScans, FeederKeepsScans, RestartsKeepScans DEF Next
<1> QED BY <1>1, <1>2, TypesAreKept, PTL DEF Spec

(* The `expect` of Epg::flush_schedule never fails: a service whose sections were*)
(* collected is known when its schedule is flushed.                         *)
THEOREM FlushesNeverPanic == Spec => []FlushedServicesExist
<1>1. TypeInv /\ ScanInv => FlushedServicesExist
  <2> SUFFICES ASSUME TypeInv, ScanInv PROVE FlushedServicesExist OBVIOUS
  <2>1. mail # <<>> => 1 \in DOMAIN mail /\ Head(mail) = mail[1] BY DEF TypeInv
  <2> QED BY <2>1 DEF FlushedServicesExist, ScanInv, FlushesKnown
<1> QED BY <1>1, TypesAreKept, FlushesAreKnown, PTL

(***************************************************************************)
(* Arithmetic of the ring.                                                  *)
(***************************************************************************)
LEMMA Division ==
    ASSUME NEW n \in Nat, n > 0, NEW x \in Int
    PROVE  \E q \in Int : x = q * n + (x % n) /\ x % n \in 0..(n - 1)
<1>1. x = (x \div n) * n + (x % n) /\ x \div n \in Int /\ x % n \in 0..(n - 1) OBVIOUS
<1> QED BY <1>1
LEMMA Unique ==
    ASSUME NEW n \in Nat, n > 0, NEW q \in Int, NEW r \in 0..(n - 1)
    PROVE (q * n + r) % n = r
OBVIOUS
(* A remainder may be taken early, or not.                                  *)
LEMMA Wraps ==
    ASSUME NEW n \in Nat, n > 0, NEW x \in Int, NEW y \in Int
    PROVE  ((x % n) + y) % n = (x + y) % n
<1>1. PICK q \in Int : x = q * n + (x % n) /\ x % n \in 0..(n - 1) BY Division
<1> DEFINE z == (x % n) + y
<1>2. z \in Int BY <1>1
<1>3. PICK p \in Int : z = p * n + (z % n) /\ z % n \in 0..(n - 1) BY <1>2, Division
<1>4. x + y = q * n + z BY <1>1
<1> DEFINE r == z % n
<1>5. r \in 0..(n - 1) BY <1>3
<1> HIDE DEF z, r
<1>6. x + y = q * n + p * n + r BY <1>2, <1>3, <1>4 DEF r
<1>7. q * n + p * n = (q + p) * n OBVIOUS
<1>8. x + y = (q + p) * n + r BY <1>6, <1>7
<1> DEFINE Q == q + p
<1>9. Q \in Int /\ x + y = Q * n + r BY <1>8
<1> HIDE DEF Q
<1>10. (Q * n + r) % n = r BY <1>5, <1>9, Unique
<1> QED BY <1>9, <1>10 DEF z, r
(* Numbers less than n apart with the same remainder are equal.             *)
LEMMA Near ==
    ASSUME NEW n \in Nat, n > 0, NEW x \in Int, NEW y \in Int, x % n = y % n, x - y < n, y - x < n
    PROVE  x = y
<1>1. PICK q \in Int : x = q * n + (x % n) BY Division
<1>2. PICK p \in Int : y = p * n + (y % n) BY Division
<1>3. x - y = q * n - p * n 
  <2> DEFINE r == x % n
  <2>1. r \in Int /\ y % n = r OBVIOUS
  <2> HIDE DEF r
  <2>2. x = q * n + r /\ y = p * n + r BY <1>1, <1>2, <2>1 DEF r
  <2> QED BY <2>1, <2>2
<1>4. q * n - p * n = (q - p) * n OBVIOUS
<1>5. (q - p) * n < n /\ (q - p) * n > 0 - n BY <1>3, <1>4
<1>6. q - p = 0 
  <2> DEFINE d == q - p
  <2>0. d \in Int OBVIOUS
  <2> HIDE DEF d
  <2>1. d * n < n /\ d * n > 0 - n BY <1>5 DEF d
  <2>2. ~(d >= 1)
    <3>1. d >= 1 => (d - 1) * n >= 0 BY <2>0
    <3>2. (d - 1) * n = d * n - n BY <2>0
    <3> QED BY <2>0, <2>1, <3>1, <3>2
  <2>3. ~(d <= -1)
    <3>1. d <= -1 => (-1 - d) * n >= 0 BY <2>0
    <3>2. (-1 - d) * n = 0 - n - d * n BY <2>0
    <3> QED BY <2>0, <2>1, <3>1, <3>2
  <2> QED BY <2>0, <2>2, <2>3 DEF d
<1>7. q = p BY <1>6
<1> QED BY <1>3, <1>7

(***************************************************************************)
(* What a feed brings, and how the days are placed in the ring.             *)
(***************************************************************************)
SlotOf(sched, k) == (sched.start + k) % MaxDays
Slot(s, k) == SlotOf(schedules[s], k)
Kind(i, kind) == mail[i].kind = kind
Prepares(i, s) == Kind(i, "PrepareSchedule") /\ mail[i].arg = s
Updates(i, s, k) == Kind(i, "UpdateSchedule") /\ mail[i].arg.s = s /\ mail[i].arg.k = k

(* The section e of s waits behind all else that is fed to its unit, or is  *)
(* in its unit, as seen by the message at p.                                *)
Waits(s, e, p) ==
    \E j \in 1..(p - 1) :
       /\ Updates(j, s, e.k) /\ mail[j].arg.date = e.day + e.k
       /\ \A i \in (j + 1)..(p - 1) : ~Updates(i, s, e.k) /\ ~Prepares(i, s)
Stands(s, e, p) ==
    /\ \A i \in 1..(p - 1) : ~Updates(i, s, e.k) /\ ~Prepares(i, s)
    /\ s \in DOMAIN schedules => schedules[s].units[Slot(s, e.k)] = e.day + e.k
Brings(s, fed, p) ==
    \A e \in fed :
       /\ e \in Sections /\ e.s = s /\ e.day <= day
       /\ (\A x \in fed : x.k = e.k => x.day <= e.day) => Waits(s, e, p) \/ Stands(s, e, p)
FlushOf(i, s, fed) == Kind(i, "FlushSchedule") /\ mail[i].arg.s = s /\ mail[i].arg.fed = fed
FeedInv ==
    /\ \A f \in feeder : \A s \in Services : Brings(s, FedOf(f, s), Len(mail) + 1)
    /\ \A i \in DOMAIN mail : \A s, fed : FlushOf(i, s, fed) => Brings(s, fed, i)

(* Dates and slots agree, unless a feed went on across midnight.            *)
Placed(units, c) == \A i \in Slots : units[i] # 0 => (c + units[i]) % MaxDays = i
Coherent(units) == \E c \in Int : Placed(units, c)
NotAhead(units, d) == \A i \in Slots : units[i] <= d + MaxDays - 2
AnchoredTo(sched, d) == \A i \in Slots : sched.units[i] # 0 => SlotOf(sched, sched.units[i] - d) = i
(* A program of today, of yesterday or of a day to come is in the ring.     *)
Remembers(sched, d) ==
    \A n \in DOMAIN sched.programs :
       /\ sched.programs[n] # 0
       /\ sched.programs[n] >= d - 1 => \E i \in Slots : sched.units[i] = sched.programs[n]
Settled(sched, d) == Coherent(sched.units) /\ NotAhead(sched.units, d) /\ Remembers(sched, d)
SettledInv ==
    /\ \A s \in DOMAIN schedules : Settled(schedules[s], day)
    /\ \A s \in DOMAIN files.schedules : Coherent(files.schedules[s]) /\ NotAhead(files.schedules[s], day)
Prepared(s, p) ==
    \/ s \in DOMAIN schedules => AnchoredTo(schedules[s], day)
    \/ \E j \in 1..(p - 1) : Prepares(j, s)
PreparedInv ==
    /\ \A i \in DOMAIN mail : \A s, k : Updates(i, s, k) => mail[i].arg.date = day + k /\ Prepared(s, i)
    /\ \A i \in DOMAIN mail : \A s, fed : FlushOf(i, s, fed) => Prepared(s, i)
    /\ \A f \in feeder : \A s \in Services : FedOf(f, s) # {} => Prepared(s, Len(mail) + 1)
RingInv == ~crossed => SettledInv /\ PreparedInv

(***************************************************************************)
(* Messages behind change nothing for what is ahead of them.                *)
(***************************************************************************)
(* What no message of l does to the unit of s and k.                        *)
Spares(m, s, k) ==
    /\ m.kind = "UpdateSchedule" => m.arg.s # s \/ m.arg.k # k
    /\ m.kind = "PrepareSchedule" => m.arg # s

(* Messages behind change nothing for what is ahead of them.                *)
Extends(l) ==
    /\ DOMAIN mail = 1..Len(mail) /\ Len(mail) \in Nat
    /\ DOMAIN mail' = 1..Len(mail') /\ Len(mail') \in Nat /\ Len(mail') >= Len(mail)
    /\ \A i \in DOMAIN mail : mail'[i] = mail[i]
    /\ \A i \in DOMAIN mail' : i > Len(mail) => i - Len(mail) \in DOMAIN l /\ mail'[i] = l[i - Len(mail)]
LEMMA Extended ==
    ASSUME TypeInv, NEW l \in Seq(Messages), mail' = mail \o l
    PROVE  Extends(l)
<1>1. mail \in Seq(Messages) BY DEF TypeInv
<1> QED BY <1>1 DEF Extends

LEMMA AppendKeepsBrought ==
    ASSUME NEW l, Extends(l), UNCHANGED schedules,
           NEW s, NEW e, NEW p \in 1..(Len(mail) + 1), NEW q \in p..(Len(mail') + 1),
           \A i \in p..(q - 1) : Spares(mail'[i], s, e.k)
    PROVE  /\ Waits(s, e, p) => Waits(s, e, q)'
           /\ Stands(s, e, p) => Stands(s, e, q)'
<1>1. \A i \in 1..(p - 1) : i \in DOMAIN mail /\ mail'[i] = mail[i] /\ i \in 1..(q - 1)
  BY DEF Extends
<1>2. \A i \in 1..(q - 1) : i \in 1..(p - 1) \/ i \in p..(q - 1) BY DEF Extends
<1>3. \A i \in p..(q - 1) : ~Updates(i, s, e.k)' /\ ~Prepares(i, s)'
  BY DEF Spares, Updates, Prepares, Kind
<1>4. \A i \in 1..(p - 1) : /\ Updates(i, s, e.k)' <=> Updates(i, s, e.k)
                            /\ Prepares(i, s)' <=> Prepares(i, s)
  BY <1>1 DEF Updates, Prepares, Kind
<1>5. ASSUME Waits(s, e, p) PROVE Waits(s, e, q)'
  <2>1. PICK j \in 1..(p - 1) :
           /\ Updates(j, s, e.k) /\ mail[j].arg.date = e.day + e.k
           /\ \A i \in (j + 1)..(p - 1) : ~Updates(i, s, e.k) /\ ~Prepares(i, s)
    BY <1>5 DEF Waits
  <2>2. \A i \in (j + 1)..(q - 1) : i \in (j + 1)..(p - 1) \/ i \in p..(q - 1) BY DEF Extends
  <2>3. \A i \in (j + 1)..(p - 1) : i \in 1..(p - 1) OBVIOUS
  <2>4. \A i \in (j + 1)..(q - 1) : ~Updates(i, s, e.k)' /\ ~Prepares(i, s)'
    BY <1>3, <1>4, <2>1, <2>2, <2>3
  <2>5. j \in 1..(q - 1) /\ Updates(j, s, e.k)' /\ mail'[j].arg.date = e.day + e.k
    BY <1>1, <1>4, <2>1
  <2> QED BY <2>4, <2>5 DEF Waits
<1>6. ASSUME Stands(s, e, p) PROVE Stands(s, e, q)'
  <2>1. \A i \in 1..(q - 1) : ~Updates(i, s, e.k)' /\ ~Prepares(i, s)'
    BY <1>2, <1>3, <1>4, <1>6 DEF Stands
  <2>2. s \in DOMAIN schedules' => schedules'[s].units[Slot(s, e.k)'] = e.day + e.k
    BY <1>6 DEF Stands, Slot, SlotOf
  <2> QED BY <2>1, <2>2 DEF Stands
<1> QED BY <1>5, <1>6

LEMMA AppendKeepsBrings ==
    ASSUME NEW l, Extends(l), UNCHANGED schedules, day' >= day, day \in Nat, day' \in Nat,
           NEW s, NEW fed, NEW p \in 1..(Len(mail) + 1), NEW q \in p..(Len(mail') + 1),
           Brings(s, fed, p),
           \A e \in fed : \A i \in p..(q - 1) : Spares(mail'[i], s, e.k)
    PROVE  Brings(s, fed, q)'
<1>1. ASSUME NEW e \in fed, \A x \in fed : x.k = e.k => x.day <= e.day
      PROVE  Waits(s, e, q)' \/ Stands(s, e, q)'
  <2>1. Waits(s, e, p) \/ Stands(s, e, p) BY <1>1 DEF Brings
  <2> QED BY <2>1, AppendKeepsBrought
<1>2. \A e \in fed : e \in Sections /\ e.s = s /\ e.day <= day' BY DEF Brings, Sections
<1> QED BY <1>1, <1>2 DEF Brings

(* The messages that are in the mail keep what they bring.                  *)
LEMMA AppendKeepsFlushes ==
    ASSUME TypeInv, FeedInv, NEW l, Extends(l), UNCHANGED schedules, day' >= day, day \in Nat, day' \in Nat,
           NEW i \in DOMAIN mail, NEW s, NEW fed, FlushOf(i, s, fed)'
    PROVE  Brings(s, fed, i)'
<1>1. mail'[i] = mail[i] /\ i \in 1..(Len(mail) + 1) /\ i \in i..(Len(mail') + 1) BY DEF Extends
<1>2. FlushOf(i, s, fed) BY <1>1 DEF FlushOf, Kind
<1>3. Brings(s, fed, i) BY <1>2 DEF FeedInv
<1>4. \A j \in i..(i - 1) : FALSE BY DEF Extends
<1> QED BY <1>1, <1>3, <1>4, AppendKeepsBrings

(***************************************************************************)
(* Jobs and restarts keep what a feed brings.                               *)
(***************************************************************************)
(* What a job posts, and what it leaves of the feeder.                      *)
JobPosts(m) == m.kind \in {"UpdateServices", "UpdateClocks", "SaveSchedules"}
LEMMA JobSteps ==
    ASSUME TypeInv, ScanInv, Job
    PROVE  /\ UNCHANGED <<schedules, day, files, crossed, up>> /\ up
           /\ \/ mail' = mail /\ (feeder' = feeder \/ \A f \in feeder' : f.fed = {})
              \/ feeder' = {} /\ \E m \in Messages : mail' = mail \o <<m>> /\ JobPosts(m)
<1> USE DEF epgVars, jobVars, subVars
<1>0. UNCHANGED <<schedules, day, files, crossed, up>> /\ up
  BY DEF Job, StartJob, SkipInitialJob, ScanServices, SyncClocks, UpdateSchedules
<1>1. CASE (\E j \in Jobs : StartJob(j)) \/ SkipInitialJob
  <2>1. mail' = mail /\ (feeder' = feeder \/ \A f \in feeder' : f.fed = {})
    BY <1>1 DEF StartJob, SkipInitialJob
  <2> QED BY <1>0, <2>1
<1>2. CASE ScanServices \/ SyncClocks \/ UpdateSchedules
  <2>1. PICK m \in Messages : Post(m) /\ JobPosts(m)
    <3>1. \A r \in Results : /\ Msg("UpdateServices", r) \in Messages /\ Msg("UpdateClocks", r) \in Messages
                             /\ JobPosts(Msg("UpdateServices", r)) /\ JobPosts(Msg("UpdateClocks", r))
      BY DEF Messages, Msg, JobPosts
    <3>2. Msg("SaveSchedules", 0) \in Messages /\ JobPosts(Msg("SaveSchedules", 0))
      BY DEF Messages, Msg, JobPosts
    <3> QED BY <1>2, <3>1, <3>2 DEF ScanServices, SyncClocks, UpdateSchedules
  <2>2. mail' = mail \o <<m>> BY <2>1 DEF Post, TypeInv
  <2>3. feeder' = {}
    <3>1. CASE ScanServices \/ SyncClocks
      <4>1. job # "update" /\ feeder' = feeder BY <3>1 DEF ScanServices, SyncClocks, Done
      <4> QED BY <4>1 DEF ScanInv, FeederInv
    <3> QED BY <1>2, <3>1 DEF UpdateSchedules
  <2> QED BY <1>0, <2>1, <2>2, <2>3
<1> QED BY <1>1, <1>2 DEF Job

LEMMA SameMailKeepsFeeds ==
    ASSUME TypeInv, FeedInv, UNCHANGED <<mail, schedules>>, day' >= day, day' \in Nat,
           \A g \in feeder' : g.fed = {} \/ \E f \in feeder : g.fed = f.fed
    PROVE  FeedInv'
<1>0. Len(mail) \in Nat /\ day \in Nat /\ mail \in Seq(Messages) BY DEF TypeInv
<1>1. Extends(<<>>) BY <1>0 DEF Extends
<1>2. \A i \in DOMAIN mail' : \A s, fed : FlushOf(i, s, fed)' => Brings(s, fed, i)'
  BY <1>0, <1>1, AppendKeepsFlushes
<1>3. ASSUME NEW g \in feeder', NEW s \in Services PROVE Brings(s, FedOf(g, s), Len(mail) + 1)'
  <2>1. CASE g.fed = {} BY <2>1 DEF Brings, FedOf
  <2>2. CASE \E f \in feeder : g.fed = f.fed
    <3>1. PICK f \in feeder : FedOf(g, s) = FedOf(f, s) BY <2>2 DEF FedOf
    <3>2. Brings(s, FedOf(f, s), Len(mail) + 1) BY <3>1 DEF FeedInv
    <3>3. PICK q : q = Len(mail) + 1 OBVIOUS
    <3>4. q \in 1..(Len(mail) + 1) /\ q \in q..(Len(mail') + 1) /\ \A i \in q..(q - 1) : FALSE
      BY <1>0, <3>3
    <3>5. PICK fed : fed = FedOf(f, s) OBVIOUS
    <3>6. Brings(s, fed, q)' BY <1>0, <1>1, <3>2, <3>3, <3>4, <3>5, AppendKeepsBrings
    <3> QED BY <3>1, <3>3, <3>5, <3>6
  <2> QED BY <1>3, <2>1, <2>2
<1> QED BY <1>2, <1>3 DEF FeedInv

LEMMA JobsKeepFeeds ==
    ASSUME TypeInv, ScanInv, FeedInv, Job
    PROVE  FeedInv'
<1>0. UNCHANGED <<schedules, day>> /\ day \in Nat BY JobSteps DEF TypeInv
<1>1. CASE mail' = mail /\ (feeder' = feeder \/ \A f \in feeder' : f.fed = {})
  BY <1>0, <1>1, SameMailKeepsFeeds
<1>2. CASE feeder' = {} /\ \E m \in Messages : mail' = mail \o <<m>> /\ JobPosts(m)
  <2>1. PICK m \in Messages : mail' = mail \o <<m>> /\ JobPosts(m) BY <1>2
  <2>2. <<m>> \in Seq(Messages) OBVIOUS
  <2>3. Extends(<<m>>) BY <2>1, <2>2, Extended
  <2>4. ASSUME NEW i \in DOMAIN mail', NEW s, NEW fed, FlushOf(i, s, fed)' PROVE Brings(s, fed, i)'
    <3>1. i \in DOMAIN mail 
      <4>1. i \notin DOMAIN mail => mail'[i] = m BY <2>1 DEF TypeInv
      <4> QED BY <2>1, <2>4, <4>1 DEF FlushOf, Kind, JobPosts
    <3> QED BY <1>0, <2>3, <2>4, <3>1, AppendKeepsFlushes
  <2> QED BY <1>2, <2>4 DEF FeedInv
<1> QED BY <1>1, <1>2, JobSteps

LEMMA OthersKeepFeeds ==
    ASSUME TypeInv, ScanInv, FeedInv, Started \/ Crash \/ ProgramsUpdated \/ Midnight \/ UNCHANGED vars
    PROVE  FeedInv'
<1> USE DEF epgVars
<1>1. CASE Started \/ Crash
  <2>1. mail' = <<>> /\ feeder' = {} BY <1>1 DEF Started, Crash, ScanInv, FeederInv
  <2> QED BY <2>1 DEF FeedInv
<1>2. CASE ProgramsUpdated \/ Midnight \/ UNCHANGED vars
  <2>1. UNCHANGED <<mail, schedules, feeder>> BY <1>2 DEF ProgramsUpdated, Midnight, vars
  <2>2. day' >= day /\ day' \in Nat BY <1>2 DEF ProgramsUpdated, Midnight, vars, TypeInv
  <2> QED BY <2>1, <2>2, SameMailKeepsFeeds
<1> QED BY <1>1, <1>2

(***************************************************************************)
(* Sections keep what a feed brings.                                        *)
(***************************************************************************)
(* What a section posts: an update, behind a preparation if it is the first.*)
SectionPosts(f, s, k, l) ==
    \/ Seen(f, s) /\ l = <<UpdateOf(s, k)>>
    \/ ~Seen(f, s) /\ l = <<Msg("PrepareSchedule", s), UpdateOf(s, k)>>
LEMMA SectionExtends ==
    ASSUME TypeInv, NEW f \in feeder, NEW s \in f.sids, NEW k \in 0..(MaxDays - 2), SectionArrives(f, s, k)
    PROVE  /\ f \in Feeds /\ s \in Services /\ k \in Nat /\ day \in Nat /\ Section(s, k) \in Sections
           /\ \E l \in Seq(Messages) : /\ SectionPosts(f, s, k, l) /\ mail' = mail \o l /\ Extends(l)
<1>1. f \in Feeds /\ s \in Services /\ k \in Nat /\ day \in Nat BY DaysAssumption DEF TypeInv, Feeds
<1>1a. Section(s, k) \in Sections BY <1>1 DEF Section, Sections, TypeInv
<1> DEFINE u == UpdateOf(s, k)
<1> DEFINE p == Msg("PrepareSchedule", s)
<1>2. u \in Messages /\ p \in Messages
  <2>1. day + k \in Dates BY DaysAssumption, BoundsAssumption DEF TypeInv, Dates
  <2> QED BY <1>1, <2>1 DEF Messages, Msg, UpdateOf
<1>3. \/ Seen(f, s) /\ mail' = Append(mail, u)
      \/ ~Seen(f, s) /\ mail' = Append(Append(mail, p), u) BY DEF SectionArrives
<1> HIDE DEF u, p
<1>4. <<u>> \in Seq(Messages) /\ <<p, u>> \in Seq(Messages) BY <1>2
<1>5. Append(mail, u) = mail \o <<u>> /\ Append(Append(mail, p), u) = mail \o <<p, u>>
  BY DEF TypeInv
<1>6. \E l \in Seq(Messages) : SectionPosts(f, s, k, l) /\ mail' = mail \o l
  BY <1>3, <1>4, <1>5 DEF SectionPosts, u, p
<1> QED BY <1>1, <1>1a, <1>6, Extended

(* Its messages are the last ones.                                          *)
PostsUpdate(s, k) ==
    /\ Len(mail') \in Nat /\ Len(mail') >= 1
    /\ mail'[Len(mail')] = UpdateOf(s, k)
LEMMA SectionIsLast ==
    ASSUME TypeInv, NEW f, NEW s, NEW k, NEW l \in Seq(Messages), SectionPosts(f, s, k, l), mail' = mail \o l
    PROVE  /\ PostsUpdate(s, k)
           /\ \A i \in (Len(mail) + 1)..Len(mail') :
                 \/ i = Len(mail') /\ mail'[i] = UpdateOf(s, k)
                 \/ ~Seen(f, s) /\ i = Len(mail) + 1 /\ i < Len(mail') /\ mail'[i] = Msg("PrepareSchedule", s)
<1>1. mail \in Seq(Messages) BY DEF TypeInv
<1>2. CASE l = <<UpdateOf(s, k)>> BY <1>1, <1>2 DEF PostsUpdate
<1>3. CASE ~Seen(f, s) /\ l = <<Msg("PrepareSchedule", s), UpdateOf(s, k)>> BY <1>1, <1>3 DEF PostsUpdate
<1> QED BY <1>2, <1>3 DEF SectionPosts

(* A section that arrives waits behind all others of its unit.              *)
LEMMA SectionKeepsFeeds ==
    ASSUME TypeInv, FeedInv, NEW f \in feeder, NEW s \in f.sids, NEW k \in 0..(MaxDays - 2),
           SectionArrives(f, s, k), UNCHANGED <<schedules, day>>
    PROVE  FeedInv'
<1>1. PICK l \in Seq(Messages) : SectionPosts(f, s, k, l) /\ mail' = mail \o l /\ Extends(l)
  BY SectionExtends
<1>2. f \in Feeds /\ s \in Services /\ k \in Nat /\ day \in Nat /\ Section(s, k) \in Sections
  BY SectionExtends
<1>3. PostsUpdate(s, k) /\ \A i \in (Len(mail) + 1)..Len(mail') :
                 \/ i = Len(mail') /\ mail'[i] = UpdateOf(s, k)
                 \/ ~Seen(f, s) /\ i = Len(mail) + 1 /\ i < Len(mail') /\ mail'[i] = Msg("PrepareSchedule", s)
  BY <1>1, SectionIsLast
<1>4. PICK g : feeder' = {g} /\ g.fed = f.fed \union {Section(s, k)}
  <2> DEFINE x == Section(s, k)
  <2>1. feeder' = {[f EXCEPT !.fed = @ \union {x}]} BY DEF SectionArrives
  <2> HIDE DEF x
  <2>2. [f EXCEPT !.fed = @ \union {x}].fed = f.fed \union {x} BY <1>2 DEF Feeds
  <2> QED BY <2>1, <2>2 DEF x
<1>4a. UNCHANGED schedules /\ day' >= day /\ day' \in Nat BY <1>2
<1>5. UpdateOf(s, k).kind = "UpdateSchedule" /\ UpdateOf(s, k).arg = [s |-> s, k |-> k, date |-> day + k]
      /\ Msg("PrepareSchedule", s).kind = "PrepareSchedule" /\ Msg("PrepareSchedule", s).arg = s
  BY DEF UpdateOf, Msg
<1>6. ASSUME NEW i \in DOMAIN mail', NEW t, NEW fed, FlushOf(i, t, fed)' PROVE Brings(t, fed, i)'
  <2>1. i \in DOMAIN mail 
    <3>1. i \notin DOMAIN mail => i \in (Len(mail) + 1)..Len(mail') BY <1>1 DEF Extends
    <3> QED BY <1>3, <1>5, <1>6, <3>1 DEF FlushOf, Kind
  <2> QED BY <1>1, <1>2, <1>6, <2>1, AppendKeepsFlushes
<1>7. ASSUME NEW t \in Services PROVE Brings(t, FedOf(g, t), Len(mail) + 1)'
  <2>1. Brings(t, FedOf(f, t), Len(mail) + 1) BY DEF FeedInv
  <2>2. PICK p, q : p = Len(mail) + 1 /\ q = Len(mail') + 1 OBVIOUS
  <2>3. p \in 1..(Len(mail) + 1) /\ q \in p..(Len(mail') + 1) /\ q - 1 = Len(mail') /\ q \in Nat
        /\ p..(q - 1) = (Len(mail) + 1)..Len(mail')
    BY <1>1, <2>2 DEF Extends
  <2>4. PICK fed, more : fed = FedOf(f, t) /\ more = FedOf(g, t) OBVIOUS
  <2>5. CASE t # s
    <3>1. more = fed BY <1>4, <2>4, <2>5 DEF FedOf, Section
    <3>2. \A e \in fed : \A i \in p..(q - 1) : Spares(mail'[i], t, e.k)
      BY <1>3, <1>5, <2>3, <2>5 DEF Spares
    <3>3. Brings(t, fed, p) BY <2>1, <2>2, <2>4
    <3>4. Brings(t, fed, q)' BY <1>1, <1>2, <1>4a, <2>3, <3>2, <3>3, AppendKeepsBrings
    <3> QED BY <2>2, <2>4, <3>1, <3>4
  <2>6. CASE t = s
    <3>1. more = fed \union {Section(s, k)} BY <1>4, <2>4, <2>6 DEF FedOf, Section
    <3>2. \A e \in fed : e \in f.fed /\ e.s = s /\ e \in Sections /\ e.day <= day /\ Seen(f, s)
      BY <1>2, <2>1, <2>4, <2>6 DEF FedOf, Brings, Seen
    <3>3. ASSUME NEW e \in more, \A x \in more : x.k = e.k => x.day <= e.day
          PROVE  Waits(s, e, q)' \/ Stands(s, e, q)'
      <4>1. CASE e = Section(s, k)
        <5>1. e.k = k /\ e.day = day BY <4>1 DEF Section
        <5>2. Updates(q - 1, s, e.k)' /\ mail'[q - 1].arg.date = e.day + e.k 
          BY <1>3, <1>5, <2>3, <5>1 DEF Updates, Kind, PostsUpdate
        <5>3. q - 1 \in 1..(q - 1) /\ \A i \in (q - 1 + 1)..(q - 1) : FALSE BY <1>3, <2>3 DEF PostsUpdate
        <5> QED BY <5>2, <5>3 DEF Waits
      <4>2. CASE e # Section(s, k)
        <5>1. e \in fed /\ e.s = s /\ e \in Sections /\ e.day <= day /\ Seen(f, s) /\ e \in f.fed
          BY <3>1, <3>2, <4>2
        <5>2. e.k # k
          <6>1. SUFFICES ASSUME e.k = k PROVE FALSE OBVIOUS
          <6>2. Section(s, k).k = e.k /\ Section(s, k).day = day BY <6>1 DEF Section
          <6>3. day <= e.day BY <3>1, <3>3, <6>2
          <6>4. e.day = day BY <1>2, <5>1, <6>3 DEF Sections
          <6> QED BY <4>2, <5>1, <6>1, <6>4 DEF Section, Sections
        <5>3. Waits(s, e, p) \/ Stands(s, e, p)
          BY <2>1, <2>2, <2>4, <2>6, <3>1, <3>3, <5>1 DEF Brings
        <5>4. \A i \in p..(q - 1) : Spares(mail'[i], s, e.k)
          BY <1>3, <1>5, <2>3, <5>1, <5>2 DEF Spares
        <5> QED BY <1>1, <2>3, <5>3, <5>4, AppendKeepsBrought
      <4> QED BY <4>1, <4>2
    <3>4. \A e \in more : e \in Sections /\ e.s = s /\ e.day <= day BY <1>2, <3>1, <3>2 DEF Section
    <3>5. Brings(s, more, q)' BY <3>3, <3>4 DEF Brings
    <3> QED BY <2>2, <2>4, <2>6, <3>5
  <2> QED BY <2>5, <2>6
<1>9. \A h \in feeder' : \A t \in Services : Brings(t, FedOf(h, t), Len(mail) + 1)'
  BY <1>4, <1>7
<1> QED BY <1>6, <1>9 DEF FeedInv

(***************************************************************************)
(* The feeder keeps what a feed brings.                                     *)
(***************************************************************************)
LEMMA FlushKeepsFeeds ==
    ASSUME TypeInv, FeedInv, Flush
    PROVE  FeedInv'
<1> USE DEF epgVars, jobVars, subVars
<1>1. PICK f \in feeder : \E l \in Seq(Messages) :
              /\ f.on = "feeding" /\ Flushes(f, l)
              /\ mail' = mail \o l /\ Len(mail') <= MailSize
              /\ feeder' = {[f EXCEPT !.on = "tuning", !.sids = {}, !.fed = {}]}
  BY FlushPosts
<1>2. PICK l \in Seq(Messages) : Flushes(f, l) /\ mail' = mail \o l BY <1>1
<1>3. Extends(l) BY <1>2, Extended
<1>4. UNCHANGED schedules /\ day' = day /\ day \in Nat BY DEF Flush, TypeInv
<1>5. f \in Feeds BY DEF TypeInv
<1>6. \A g \in feeder' : g.fed = {} BY <1>1, <1>5 DEF Feeds
<1>7. ASSUME NEW i \in DOMAIN mail', NEW t, NEW fed, FlushOf(i, t, fed)' PROVE Brings(t, fed, i)'
  <2>1. CASE i \in DOMAIN mail BY <1>3, <1>4, <1>7, <2>1, AppendKeepsFlushes
  <2>2. CASE i \notin DOMAIN mail
    <3>1. i - Len(mail) \in DOMAIN l /\ mail'[i] = l[i - Len(mail)] BY <1>3, <2>2 DEF Extends
    <3>2. t \in f.sids /\ fed = FedOf(f, t) BY <1>2, <1>7, <3>1 DEF Flushes, FlushOf, Kind
    <3>3. t \in Services BY <1>5, <3>2 DEF Feeds
    <3>4. PICK p : p = Len(mail) + 1 OBVIOUS
    <3>5. Brings(t, fed, p) BY <3>2, <3>3, <3>4 DEF FeedInv
    <3>6. p \in 1..(Len(mail) + 1) /\ i \in p..(Len(mail') + 1) BY <1>3, <2>2, <3>4 DEF Extends
    <3>7. \A j \in p..(i - 1) : mail'[j].kind = "FlushSchedule"
      <4>1. \A j \in p..(i - 1) : j \in DOMAIN mail' /\ j > Len(mail)
        BY <1>3, <3>4, <3>6 DEF Extends
      <4> QED BY <1>2, <1>3, <4>1 DEF Extends, Flushes
    <3>8. \A e \in fed : \A j \in p..(i - 1) : Spares(mail'[j], t, e.k) BY <3>7 DEF Spares
    <3> QED BY <1>3, <1>4, <3>5, <3>6, <3>8, AppendKeepsBrings
  <2> QED BY <2>1, <2>2
<1>8. \A g \in feeder' : \A s \in Services : Brings(s, FedOf(g, s), Len(mail) + 1)'
  BY <1>6 DEF Brings, FedOf
<1> QED BY <1>7, <1>8 DEF FeedInv

LEMMA FeederKeepsFeeds ==
    ASSUME TypeInv, FeedInv, FeederStep
    PROVE  FeedInv'
<1> USE DEF epgVars, jobVars, subVars
<1>1. CASE QueryServices \/ Tune \/ NoTuner \/ ReadError
  <2>1. UNCHANGED <<mail, schedules, day>> BY <1>1 DEF QueryServices, Tune, NoTuner, ReadError
  <2>2. \A f \in feeder : f \in Feeds BY DEF TypeInv
  <2>3. \A g \in feeder' : g.fed = {} \/ \E f \in feeder : g.fed = f.fed
    <3>1. CASE QueryServices BY <3>1 DEF QueryServices
    <3>2. CASE Tune
      <4>1. PICK f \in feeder : \E ss \in SUBSET f.todo :
               feeder' = {[f EXCEPT !.on = "done"]}
               \/ feeder' = {[f EXCEPT !.on = "feeding", !.sids = ss, !.todo = @ \ ss]}
        BY <3>2 DEF Tune, Known
      <4>2. [f EXCEPT !.on = "done"].fed = f.fed BY <2>2 DEF Feeds
      <4>3. \A ss : [f EXCEPT !.on = "feeding", !.sids = ss, !.todo = @ \ ss].fed = f.fed
        BY <2>2 DEF Feeds
      <4> QED BY <4>1, <4>2, <4>3
    <3>3. CASE NoTuner \/ ReadError
      <4>1. PICK f \in feeder : feeder' = {[f EXCEPT !.on = "done", !.sids = {}, !.fed = {}]}
        BY <3>3 DEF NoTuner, ReadError
      <4>2. [f EXCEPT !.on = "done", !.sids = {}, !.fed = {}].fed = {} BY <2>2 DEF Feeds
      <4> QED BY <4>1, <4>2
    <3> QED BY <1>1, <3>1, <3>2, <3>3
  <2>4. day' >= day /\ day' \in Nat BY <2>1 DEF TypeInv
  <2> QED BY <2>1, <2>3, <2>4, SameMailKeepsFeeds
<1>2. CASE Feed
  <2>1. UNCHANGED <<schedules, day>> BY <1>2 DEF Feed
  <2>2. PICK f \in feeder : \E s \in f.sids : \E k \in 0..(MaxDays - 2) : SectionArrives(f, s, k)
    BY <1>2, FeedPosts
  <2>3. PICK s \in f.sids : \E k \in 0..(MaxDays - 2) : SectionArrives(f, s, k) BY <2>2
  <2>4. PICK k \in 0..(MaxDays - 2) : SectionArrives(f, s, k) BY <2>3
  <2> QED BY <2>1, <2>4, SectionKeepsFeeds
<1>3. CASE Flush BY <1>3, FlushKeepsFeeds
<1> QED BY <1>1, <1>2, <1>3 DEF FeederStep

(***************************************************************************)
(* What the handlers do to the units.                                       *)
(***************************************************************************)
LEMMA SlotsDiffer ==
    ASSUME NEW x \in Int, NEW j \in Int, NEW k \in Int, (x + j) % MaxDays = (x + k) % MaxDays,
           j - k < MaxDays, k - j < MaxDays
    PROVE  j = k
<1>1. MaxDays \in Nat /\ MaxDays > 0 /\ x + j \in Int /\ x + k \in Int BY DaysAssumption
<1>2. x + j - (x + k) < MaxDays /\ x + k - (x + j) < MaxDays BY <1>1
<1> DEFINE X == x + j
<1> DEFINE Y == x + k
<1>3. X \in Int /\ Y \in Int /\ X % MaxDays = Y % MaxDays /\ X - Y < MaxDays /\ Y - X < MaxDays
  BY <1>1, <1>2
<1> HIDE DEF X, Y
<1>4. X = Y BY <1>1, <1>3, Near
<1>5. x + j = x + k BY <1>4 DEF X, Y
<1> QED BY <1>5

(* What a handler does to a schedule.                                       *)
Prepared1(s) == Head(mail).kind = "PrepareSchedule" /\ Head(mail).arg = s
Updated1(s) == Head(mail).kind = "UpdateSchedule" /\ Head(mail).arg.s = s
LEMMA HandlerChanges ==
    ASSUME TypeInv, Handle, NEW s \in DOMAIN schedules'
    PROVE  \/ /\ s \in DOMAIN schedules
              /\ schedules'[s].units = schedules[s].units /\ schedules'[s].start = schedules[s].start
              /\ schedules'[s] = schedules[s] \/ schedules'[s] = CollectPrograms(schedules[s])
           \/ Prepared1(s) /\ s \in DOMAIN schedules /\ schedules'[s] = UpdateStartIndex(schedules[s], day)
           \/ Prepared1(s) /\ s \notin DOMAIN schedules /\ schedules'[s] = NewSchedule
           \/ /\ Updated1(s) /\ s \in DOMAIN schedules
              /\ schedules'[s] = UpdateUnit(schedules[s], Head(mail).arg.k, Head(mail).arg.date)
<1> USE DEF epgVars, jobVars, subVars
<1>0. DOMAIN schedules \subseteq Services /\ schedules \in [DOMAIN schedules -> Schedules]
  BY PartialIs DEF TypeInv
<1>1. CASE UpdateServices
  <2>1. schedules' = [x \in DOMAIN schedules \intersect services' |-> schedules[x]]
    BY <1>1 DEF UpdateServices, Restrict2
  <2> QED BY <2>1
<1>2. CASE UpdateClocks \/ SaveSchedules
  <2>1. schedules' = schedules BY <1>2 DEF UpdateClocks, SaveSchedules
  <2> QED BY <2>1
<1>3. CASE PrepareSchedule
  <2> DEFINE p == Head(mail).arg
  <2>1. /\ schedules' = [x \in DOMAIN schedules \union {p} |->
                           IF x # p THEN schedules[x]
                           ELSE IF p \in DOMAIN schedules THEN UpdateStartIndex(schedules[p], day)
                           ELSE NewSchedule]
        /\ Head(mail).kind = "PrepareSchedule"
    BY <1>3 DEF PrepareSchedule, Receive
  <2> QED BY <2>1 DEF Prepared1
<1>4. CASE UpdateSchedule
  <2> DEFINE a == Head(mail).arg
  <2>1. /\ \/ schedules' = schedules
           \/ a.s \in DOMAIN schedules
              /\ schedules' = [schedules EXCEPT ![a.s] = UpdateUnit(@, a.k, a.date)]
        /\ Head(mail).kind = "UpdateSchedule"
    BY <1>4 DEF UpdateSchedule, Receive
  <2> QED BY <1>0, <2>1 DEF Updated1
<1>5. CASE FlushSchedule
  <2> DEFINE p == Head(mail).arg.s
  <2>1. \/ schedules' = schedules
        \/ p \in DOMAIN schedules /\ schedules' = [schedules EXCEPT ![p] = CollectPrograms(@)]
    BY <1>5 DEF FlushSchedule
  <2>2. \A sched \in Schedules : /\ CollectPrograms(sched).units = sched.units
                                 /\ CollectPrograms(sched).start = sched.start
    <3>1. ASSUME NEW sched \in Schedules
          PROVE  CollectPrograms(sched).units = sched.units /\ CollectPrograms(sched).start = sched.start
      <4>1. PICK x : CollectPrograms(sched) = [sched EXCEPT !.programs = x] BY DEF CollectPrograms
      <4> QED BY <4>1 DEF Schedules
    <3> QED BY <3>1
  <2> QED BY <1>0, <2>1, <2>2
<1> QED BY <1>1, <1>2, <1>3, <1>4, <1>5 DEF Handle

LEMMA SlotIsTyped ==
    ASSUME NEW sched \in Schedules, NEW k \in Int PROVE SlotOf(sched, k) \in Slots
<1>1. sched.start + k \in Int BY DEF Schedules, Slots
<1> QED BY <1>1, IntegersWrap DEF SlotOf

(* The days of a feed have units of their own.                              *)
LEMMA SlotsOfDaysDiffer ==
    ASSUME NEW sched \in Schedules, NEW k \in 0..(MaxDays - 2), NEW j \in 0..(MaxDays - 2),
           SlotOf(sched, k) = SlotOf(sched, j)
    PROVE  k = j
<1>1. sched.start \in Int /\ k \in Int /\ j \in Int /\ j - k < MaxDays /\ k - j < MaxDays
  BY DaysAssumption DEF Schedules, Slots
<1>2. (sched.start + k) % MaxDays = (sched.start + j) % MaxDays BY DEF SlotOf
<1>3. PICK x : x = sched.start OBVIOUS
<1>4. x \in Int /\ (x + k) % MaxDays = (x + j) % MaxDays BY <1>1, <1>2, <1>3
<1> QED BY <1>1, <1>4, SlotsDiffer

UnitSet(sched, to, k, date) ==
    /\ to.start = sched.start /\ to.programs = sched.programs
    /\ to.units = [sched.units EXCEPT ![SlotOf(sched, k)] = date]
    /\ to.units[SlotOf(sched, k)] = date
    /\ \A j \in Slots : j # SlotOf(sched, k) => to.units[j] = sched.units[j]
    /\ \A j : SlotOf(to, j) = SlotOf(sched, j)
LEMMA UnitIsSet ==
    ASSUME NEW sched \in Schedules, NEW k \in Int, NEW date \in Dates
    PROVE  UnitSet(sched, UpdateUnit(sched, k, date), k, date)
<1>1. SlotOf(sched, k) \in Slots BY SlotIsTyped
<1>2. UpdateUnit(sched, k, date) = [sched EXCEPT !.units = [sched.units EXCEPT ![SlotOf(sched, k)] = date]]
  BY DEF UpdateUnit, SlotOf
<1>3. UpdateUnit(sched, k, date).start = sched.start BY <1>2 DEF Schedules
<1>4. \A j : SlotOf(UpdateUnit(sched, k, date), j) = SlotOf(sched, j) BY <1>3 DEF SlotOf
<1> QED BY <1>1, <1>2, <1>3, <1>4 DEF Schedules, Units, UnitSet

(* A message for another day or another service leaves a unit and its slot. *)
LEMMA SparedUnitStays ==
    ASSUME TypeInv, Handle, mail # <<>>, NEW s, NEW k \in 0..(MaxDays - 2), Spares(Head(mail), s, k), s \in DOMAIN schedules'
    PROVE  s \in DOMAIN schedules /\ schedules'[s].units[Slot(s, k)'] = schedules[s].units[Slot(s, k)]
<1>0. DOMAIN schedules \subseteq Services /\ schedules \in [DOMAIN schedules -> Schedules]
  BY PartialIs DEF TypeInv
<1>1. CASE Updated1(s) /\ s \in DOMAIN schedules
              /\ schedules'[s] = UpdateUnit(schedules[s], Head(mail).arg.k, Head(mail).arg.date)
  <2> DEFINE a == Head(mail).arg
  <2> DEFINE x == schedules[s]
  <2>1. Head(mail) \in Messages BY DEF TypeInv
  <2>2. a.k \in 0..(MaxDays - 2) /\ a.date \in Dates /\ a.k # k /\ x \in Schedules
    BY <1>0, <1>1, <2>1, ArgsAreTyped DEF Updated1, Spares
  <2> HIDE DEF a, x
  <2>3. SlotOf(x, k) # SlotOf(x, a.k) /\ SlotOf(x, k) \in Slots
    BY <2>2, SlotsOfDaysDiffer, SlotIsTyped
  <2>4. /\ SlotOf(UpdateUnit(x, a.k, a.date), k) = SlotOf(x, k)
        /\ UpdateUnit(x, a.k, a.date).units[SlotOf(x, k)] = x.units[SlotOf(x, k)]
    <3>1. a.k \in Int BY <2>2
    <3>2. UnitSet(x, UpdateUnit(x, a.k, a.date), a.k, a.date) BY <2>2, <3>1, UnitIsSet
    <3> QED BY <2>3, <3>2 DEF UnitSet
  <2> QED BY <1>1, <2>4 DEF Slot, a, x
<1>2. CASE s \in DOMAIN schedules
              /\ schedules'[s].units = schedules[s].units /\ schedules'[s].start = schedules[s].start
  BY <1>2 DEF Slot, SlotOf
<1>3. ~Prepared1(s) BY DEF Spares, Prepared1
<1> QED BY <1>1, <1>2, <1>3, HandlerChanges

(* The unit of a section holds its date once the update was handled.        *)
LEMMA UpdatedUnitStands ==
    ASSUME TypeInv, Handle, mail # <<>>, NEW s, NEW k, Head(mail).kind = "UpdateSchedule", Head(mail).arg.s = s,
           Head(mail).arg.k = k, s \in DOMAIN schedules'
    PROVE  schedules'[s].units[Slot(s, k)'] = Head(mail).arg.date
<1> USE DEF epgVars, jobVars, subVars
<1>0. DOMAIN schedules \subseteq Services /\ schedules \in [DOMAIN schedules -> Schedules]
  BY PartialIs DEF TypeInv
<1> DEFINE a == Head(mail).arg
<1>1. UpdateSchedule
  BY DEF Handle, UpdateServices, UpdateClocks, PrepareSchedule, FlushSchedule, SaveSchedules, Receive
<1>2. s \in DOMAIN schedules /\ schedules' = [schedules EXCEPT ![s] = UpdateUnit(@, k, a.date)]
  BY <1>1 DEF UpdateSchedule
<1>3. Head(mail) \in Messages BY DEF TypeInv
<1>4. k \in Int /\ a.date \in Dates /\ schedules[s] \in Schedules BY <1>0, <1>2, <1>3, ArgsAreTyped
<1> HIDE DEF a
<1>5. schedules'[s] = UpdateUnit(schedules[s], k, a.date) BY <1>2
<1>6. UnitSet(schedules[s], schedules'[s], k, a.date) BY <1>4, <1>5, UnitIsSet
<1>7. Slot(s, k)' = SlotOf(schedules[s], k) BY <1>6 DEF Slot, UnitSet
<1> QED BY <1>6, <1>7 DEF UnitSet, a

(***************************************************************************)
(* The handlers keep what a feed brings.                                    *)
(***************************************************************************)
LEMMA HandlersKeepBrought ==
    ASSUME TypeInv, Handle, NEW s, NEW e \in Sections, NEW p \in Int, NEW q \in Nat, q >= 1, p = q + 1, q <= Len(mail),
           Waits(s, e, p) \/ Stands(s, e, p)
    PROVE  Waits(s, e, q)' \/ Stands(s, e, q)'
<1>0. PICK kind : Receive(kind)
  BY DEF Handle, UpdateServices, UpdateClocks, PrepareSchedule, UpdateSchedule, FlushSchedule, SaveSchedules
<1>1. /\ DOMAIN mail = 1..Len(mail) /\ Len(mail) \in Nat /\ Len(mail) >= 1
      /\ DOMAIN mail' = 1..(Len(mail) - 1)
      /\ \A i \in DOMAIN mail' : mail'[i] = mail[i + 1] /\ i + 1 \in DOMAIN mail
      /\ Head(mail) = mail[1] /\ mail # <<>>
  BY <1>0, TailShifts DEF Receive
<1>2. \A i \in 1..(q - 1) : /\ i + 1 \in 1..(p - 1)
                            /\ Updates(i, s, e.k)' <=> Updates(i + 1, s, e.k)
                            /\ Prepares(i, s)' <=> Prepares(i + 1, s)
  BY <1>1 DEF Updates, Prepares, Kind
<1>3. e.k \in 0..(MaxDays - 2) BY DEF Sections
<1>4. ASSUME ~Updates(1, s, e.k), ~Prepares(1, s), Stands(s, e, p) PROVE Stands(s, e, q)'
  <2>1. Spares(Head(mail), s, e.k) BY <1>1, <1>4 DEF Spares, Updates, Prepares, Kind
  <2>2. s \in DOMAIN schedules' =>
           s \in DOMAIN schedules /\ schedules'[s].units[Slot(s, e.k)'] = schedules[s].units[Slot(s, e.k)]
    BY <1>1, <1>3, <2>1, SparedUnitStays
  <2>3. \A i \in 1..(q - 1) : ~Updates(i, s, e.k)' /\ ~Prepares(i, s)' BY <1>2, <1>4 DEF Stands
  <2> QED BY <1>4, <2>2, <2>3 DEF Stands
<1>5. CASE Stands(s, e, p)
  <2>1. 1 \in 1..(p - 1) OBVIOUS
  <2>2. ~Updates(1, s, e.k) /\ ~Prepares(1, s) BY <1>5, <2>1 DEF Stands
  <2> QED BY <1>4, <1>5, <2>2
<1>6. CASE Waits(s, e, p)
  <2>1. PICK j \in 1..(p - 1) :
           /\ Updates(j, s, e.k) /\ mail[j].arg.date = e.day + e.k
           /\ \A i \in (j + 1)..(p - 1) : ~Updates(i, s, e.k) /\ ~Prepares(i, s)
    BY <1>6 DEF Waits
  <2>2. CASE j = 1
    <3>1. \A i \in 1..(q - 1) : i + 1 \in (j + 1)..(p - 1) BY <2>2
    <3>2. \A i \in 1..(q - 1) : ~Updates(i, s, e.k)' /\ ~Prepares(i, s)' BY <1>2, <2>1, <3>1
    <3>3. s \in DOMAIN schedules' => schedules'[s].units[Slot(s, e.k)'] = e.day + e.k
      BY <1>1, <2>1, <2>2, UpdatedUnitStands DEF Updates, Kind
    <3> QED BY <3>2, <3>3 DEF Stands
  <2>3. CASE j # 1
    <3>1. j - 1 \in 1..(q - 1) /\ j - 1 + 1 = j BY <2>1, <2>3
    <3>2. Updates(j - 1, s, e.k)' BY <1>2, <2>1, <3>1
    <3>3. mail'[j - 1].arg.date = e.day + e.k
      <4>1. j - 1 \in DOMAIN mail' BY <1>1, <3>1
      <4> QED BY <1>1, <2>1, <3>1, <4>1
    <3>4. \A i \in (j - 1 + 1)..(q - 1) : i \in 1..(q - 1) /\ i + 1 \in (j + 1)..(p - 1)
      BY <2>1, <3>1
    <3>5. \A i \in (j - 1 + 1)..(q - 1) : ~Updates(i, s, e.k)' /\ ~Prepares(i, s)'
      BY <1>2, <2>1, <3>4
    <3> QED BY <3>1, <3>2, <3>3, <3>5 DEF Waits
  <2> QED BY <2>2, <2>3
<1> QED BY <1>5, <1>6

LEMMA HandlersKeepFeeds ==
    ASSUME TypeInv, FeedInv, Handle
    PROVE  FeedInv'
<1> USE DEF epgVars, jobVars, subVars
<1>0. PICK kind : Receive(kind)
  BY DEF Handle, UpdateServices, UpdateClocks, PrepareSchedule, UpdateSchedule, FlushSchedule, SaveSchedules
<1>1. /\ DOMAIN mail = 1..Len(mail) /\ Len(mail) \in Nat /\ Len(mail) >= 1
      /\ DOMAIN mail' = 1..(Len(mail) - 1) /\ Len(mail') = Len(mail) - 1
      /\ \A i \in DOMAIN mail' : mail'[i] = mail[i + 1] /\ i + 1 \in DOMAIN mail
  BY <1>0, TailShifts
<1>2. UNCHANGED <<feeder, day>>
  BY DEF Handle, UpdateServices, UpdateClocks, PrepareSchedule, UpdateSchedule, FlushSchedule, SaveSchedules
<1>3. ASSUME NEW s, NEW fed, NEW p \in Int, NEW q \in Nat, q >= 1, p = q + 1, q <= Len(mail), Brings(s, fed, p)
      PROVE  Brings(s, fed, q)'
  <2>1. ASSUME NEW e \in fed, \A x \in fed : x.k = e.k => x.day <= e.day
        PROVE  Waits(s, e, q)' \/ Stands(s, e, q)'
    <3>1. e \in Sections /\ (Waits(s, e, p) \/ Stands(s, e, p)) BY <1>3, <2>1 DEF Brings
    <3> QED BY <1>3, <3>1, HandlersKeepBrought
  <2> QED BY <1>2, <1>3, <2>1 DEF Brings
<1>4. ASSUME NEW i \in DOMAIN mail', NEW s, NEW fed, FlushOf(i, s, fed)' PROVE Brings(s, fed, i)'
  <2>1. i + 1 \in DOMAIN mail /\ FlushOf(i + 1, s, fed) BY <1>1, <1>4 DEF FlushOf, Kind
  <2>2. Brings(s, fed, i + 1) BY <2>1 DEF FeedInv
  <2>3. i \in Nat /\ i >= 1 /\ i <= Len(mail) /\ i + 1 \in Int BY <1>1
  <2> QED BY <1>3, <2>2, <2>3
<1>5. ASSUME NEW f \in feeder, NEW s \in Services PROVE Brings(s, FedOf(f, s), Len(mail) + 1)'
  <2>1. PICK fed, q : fed = FedOf(f, s) /\ q = Len(mail) OBVIOUS
  <2>2. Brings(s, fed, q + 1) BY <2>1 DEF FeedInv
  <2>3. q \in Nat /\ q >= 1 /\ q <= Len(mail) /\ q + 1 \in Int /\ q = Len(mail') + 1 BY <1>1, <2>1
  <2>4. Brings(s, fed, q)' BY <1>3, <2>2, <2>3
  <2> QED BY <2>1, <2>3, <2>4
<1> QED BY <1>2, <1>4, <1>5 DEF FeedInv

(* The last section of every day of a feed is in its unit when the feed is flushed,*)
(* whatever else is handled in between: another feed, a scan, a save.       *)
THEOREM FeedsArrive == Spec => []FeedInv
<1>1. Init => FeedInv BY DEF Init, FeedInv
<1>2. TypeInv /\ ScanInv /\ FeedInv /\ [Next]_vars => FeedInv'
  BY HandlersKeepFeeds, JobsKeepFeeds, FeederKeepsFeeds, OthersKeepFeeds DEF Next
<1> QED BY <1>1, <1>2, TypesAreKept, FlushesAreKnown, PTL DEF Spec

(***************************************************************************)
(* The slots of a ring.                                                     *)
(***************************************************************************)
LEMMA WrapsHere ==
    ASSUME NEW x \in Int, NEW y \in Int, NEW a, a = x % MaxDays
    PROVE  (a + y) % MaxDays = (x + y) % MaxDays
<1>1. MaxDays \in Nat /\ MaxDays > 0 BY DaysAssumption
<1> QED BY <1>1, Wraps

(* In a ring without contradictions update_start_index() finds the slot of today.*)
LEMMA StartAnchors ==
    ASSUME NEW sched \in Schedules, NEW d \in Nat, Coherent(sched.units)
    PROVE  /\ AnchoredTo(UpdateStartIndex(sched, d), d)
           /\ UpdateStartIndex(sched, d).units = sched.units
           /\ UpdateStartIndex(sched, d).programs = sched.programs
<1>1. sched.units \in [Slots -> Nat] /\ Slots \subseteq Int
  BY DatesAreNaturals DEF Schedules, Units, Slots
<1>2. \A x : /\ [sched EXCEPT !.start = x].units = sched.units
             /\ [sched EXCEPT !.start = x].programs = sched.programs
             /\ [sched EXCEPT !.start = x].start = x
  BY DEF Schedules
<1>3. CASE /\ \A i \in Slots : sched.units[i] = 0
           /\ UpdateStartIndex(sched, d) = [sched EXCEPT !.start = 0]
  BY <1>2, <1>3 DEF AnchoredTo
<1>4. CASE \E i \in Slots :
                 /\ Oldest(sched.units, i)
                 /\ UpdateStartIndex(sched, d) = [sched EXCEPT !.start = (i + (d - sched.units[i])) % MaxDays]
  <2>1. PICK o \in Slots :
                 /\ Oldest(sched.units, o)
                 /\ UpdateStartIndex(sched, d) = [sched EXCEPT !.start = (o + (d - sched.units[o])) % MaxDays]
    BY <1>4
  <2>2. PICK c \in Int : Placed(sched.units, c) BY DEF Coherent
  <2>3. PICK u \in Nat : u = sched.units[o] BY <1>1
  <2>4. o = (c + u) % MaxDays BY <2>1, <2>2, <2>3 DEF Placed, Oldest
  <2>5. (o + (d - u)) % MaxDays = (c + u + (d - u)) % MaxDays
    <3>1. PICK x : x = c + u OBVIOUS
    <3>2. PICK y : y = d - u OBVIOUS
    <3>3. x \in Int /\ y \in Int BY <3>1, <3>2
    <3> QED BY <2>4, <3>1, <3>2, <3>3, WrapsHere
  <2>6. c + u + (d - u) = c + d OBVIOUS
  <2>7. PICK st : st = (c + d) % MaxDays OBVIOUS
  <2>8. UpdateStartIndex(sched, d) = [sched EXCEPT !.start = st] BY <2>1, <2>3, <2>5, <2>6, <2>7
  <2>9. ASSUME NEW i \in Slots, sched.units[i] # 0
        PROVE  SlotOf([sched EXCEPT !.start = st], sched.units[i] - d) = i
    <3>1. PICK v \in Nat : v = sched.units[i] BY <1>1
    <3>2. i = (c + v) % MaxDays BY <2>2, <2>9, <3>1 DEF Placed
    <3>3. (st + (v - d)) % MaxDays = (c + d + (v - d)) % MaxDays
      <4>1. PICK x : x = c + d OBVIOUS
      <4>2. PICK y : y = v - d OBVIOUS
      <4>3. x \in Int /\ y \in Int BY <4>1, <4>2
      <4> QED BY <2>7, <4>1, <4>2, <4>3, WrapsHere
    <3>4. c + d + (v - d) = c + v OBVIOUS
    <3> QED BY <1>2, <3>1, <3>2, <3>3, <3>4 DEF SlotOf
  <2> QED BY <1>2, <2>8, <2>9 DEF AnchoredTo
<1> QED BY <1>1, <1>3, <1>4, StartOfToday

LEMMA AnchoredIsCoherent ==
    ASSUME NEW sched \in Schedules, NEW d \in Nat, AnchoredTo(sched, d)
    PROVE  Coherent(sched.units)
<1>1. sched.units \in [Slots -> Nat] /\ sched.start \in Int
  BY DatesAreNaturals DEF Schedules, Units, Slots
<1>2. PICK c : c = sched.start - d OBVIOUS
<1>3. c \in Int BY <1>1, <1>2
<1>4. ASSUME NEW i \in Slots, sched.units[i] # 0 PROVE (c + sched.units[i]) % MaxDays = i
  <2>1. (sched.start + (sched.units[i] - d)) % MaxDays = i BY <1>4 DEF AnchoredTo, SlotOf
  <2>2. sched.start + (sched.units[i] - d) = c + sched.units[i] BY <1>1, <1>2
  <2> QED BY <2>1, <2>2
<1> QED BY <1>3, <1>4 DEF Coherent, Placed

LEMMA UnitAnchors ==
    ASSUME NEW sched \in Schedules, NEW d \in Nat, AnchoredTo(sched, d), NEW k \in Int, d + k \in Dates
    PROVE  AnchoredTo(UpdateUnit(sched, k, d + k), d)
<1>1. PICK date, to : date = d + k /\ to = UpdateUnit(sched, k, d + k) OBVIOUS
<1>2. UnitSet(sched, to, k, date) BY <1>1, UnitIsSet
<1>3. date - d = k BY <1>1
<1>4. ASSUME NEW i \in Slots, to.units[i] # 0 PROVE SlotOf(to, to.units[i] - d) = i
  <2>1. CASE i = SlotOf(sched, k) BY <1>2, <1>3, <2>1 DEF UnitSet
  <2>2. CASE i # SlotOf(sched, k) BY <1>2, <1>4, <2>2 DEF UnitSet, AnchoredTo
  <2> QED BY <2>1, <2>2
<1> QED BY <1>1, <1>4 DEF AnchoredTo

(* A section overwrites the unit of its own date, or one older than yesterday.*)
LEMMA UnitRemembers ==
    ASSUME NEW sched \in Schedules, NEW d \in Nat, AnchoredTo(sched, d), Remembers(sched, d), NotAhead(sched.units, d),
           NEW k \in 0..(MaxDays - 2), d + k \in Dates
    PROVE  Remembers(UpdateUnit(sched, k, d + k), d) /\ NotAhead(UpdateUnit(sched, k, d + k).units, d)
<1>1. PICK date, to : date = d + k /\ to = UpdateUnit(sched, k, d + k) OBVIOUS
<1>2. k \in Int /\ date \in Nat /\ date <= d + MaxDays - 2 BY <1>1, DaysAssumption
<1>3. UnitSet(sched, to, k, date) BY <1>1, <1>2, UnitIsSet
<1>4. sched.units \in [Slots -> Nat] /\ sched.start \in Int /\ sched.programs \in Seq(Dates)
  BY DatesAreNaturals DEF Schedules, Units, Slots
<1>5. NotAhead(to.units, d) BY <1>2, <1>3 DEF NotAhead, UnitSet
<1>6. ASSUME NEW x \in Nat, x # 0, x >= d - 1, NEW i \in Slots, sched.units[i] = x
      PROVE  \E j \in Slots : to.units[j] = x
  <2>1. CASE i # SlotOf(sched, k) BY <1>3, <1>6, <2>1 DEF UnitSet
  <2>2. CASE i = SlotOf(sched, k)
    <3>1. SlotOf(sched, x - d) = SlotOf(sched, k) BY <1>6, <2>2 DEF AnchoredTo
    <3>2. x <= d + MaxDays - 2 BY <1>6 DEF NotAhead
    <3>3. PICK y : y = x - d OBVIOUS
    <3>4. y \in Int /\ y - k < MaxDays /\ k - y < MaxDays BY <1>2, <1>6, <3>2, <3>3, DaysAssumption
    <3>5. PICK z : z = sched.start OBVIOUS
    <3>6. z \in Int /\ (z + y) % MaxDays = (z + k) % MaxDays BY <1>4, <3>1, <3>3, <3>5 DEF SlotOf
    <3>7. y = k BY <1>2, <3>4, <3>6, SlotsDiffer
    <3>8. x = date BY <1>1, <1>2, <3>3, <3>7
    <3> QED BY <1>3, <2>2, <3>8 DEF UnitSet
  <2> QED BY <2>1, <2>2
<1>7. Remembers(to, d)
  <2>1. to.programs = sched.programs BY <1>3 DEF UnitSet
  <2>2. \A n \in DOMAIN sched.programs : sched.programs[n] \in Nat
    <3>1. \A n \in DOMAIN sched.programs : sched.programs[n] \in Dates BY <1>4
    <3>2. Dates \subseteq Nat BY DatesAreNaturals
    <3> QED BY <3>1, <3>2
  <2> QED BY <1>6, <2>1, <2>2 DEF Remembers
<1> QED BY <1>1, <1>5, <1>7

(* What collect_programs() answers with are the dates of the units.         *)
LEMMA CollectRemembers ==
    ASSUME NEW sched \in Schedules, NEW d \in Nat
    PROVE  /\ Remembers(CollectPrograms(sched), d)
           /\ CollectPrograms(sched).units = sched.units
           /\ CollectPrograms(sched).start = sched.start
<1>1. Shaped(sched) /\ sched.units \in [Slots -> Dates] /\ sched.start \in Slots
  BY SchedulesAreShapedByType DEF Schedules, Units
<1> DEFINE D == {sched.units[i] : i \in Slots}
<1>2. D \in SUBSET Nat /\ sched.units \in [Slots -> D] BY <1>1, DatesAreNaturals
<1>3. \A x \in D \ {0} : x # 0 /\ \E i \in Slots : sched.units[i] = x OBVIOUS
<1> HIDE DEF D
<1>4. PICK p \in [0..MaxDays -> Seq(D \ {0})] : Collects(p, sched) BY <1>1, <1>2, Collected
<1>5. p[MaxDays] \in Seq(D \ {0}) BY DaysAssumption
<1>6. PICK q \in Seq(D \ {0}) : CollectPrograms(sched) = [sched EXCEPT !.programs = q]
  BY <1>4, <1>5 DEF Collects
<1>7. \A n \in DOMAIN q : q[n] \in D \ {0} BY <1>6
<1>8. /\ [sched EXCEPT !.programs = q].programs = q /\ [sched EXCEPT !.programs = q].units = sched.units
      /\ [sched EXCEPT !.programs = q].start = sched.start
  BY DEF Schedules
<1> QED BY <1>3, <1>6, <1>7, <1>8 DEF Remembers

LEMMA EmptyIsSettled ==
    ASSUME NEW d \in Nat, d >= 1
    PROVE  Settled(NewSchedule, d) /\ AnchoredTo(NewSchedule, d) /\ Remembers(NewSchedule, d)
<1>1. NewSchedule.programs = <<>> /\ \A i \in Slots : NewSchedule.units[i] = 0
  BY DEF NewSchedule, NoUnits, Slots
<1>2. 0 <= d + MaxDays - 2 BY DaysAssumption
<1>3. Coherent(NewSchedule.units) /\ NotAhead(NewSchedule.units, d)
  BY <1>1, <1>2 DEF Coherent, Placed, NotAhead
<1> QED BY <1>1, <1>3 DEF Settled, AnchoredTo, Remembers

(* A schedule that is loaded from the file.                                 *)
LEMMA LoadedIsSettled ==
    ASSUME NEW u \in Units, NEW d \in Nat, Coherent(u), NotAhead(u, d)
    PROVE  Settled(CollectPrograms(UpdateStartIndex([NewSchedule EXCEPT !.units = u], d)), d)
<1> DEFINE s0 == [NewSchedule EXCEPT !.units = u]
<1> DEFINE s1 == UpdateStartIndex(s0, d)
<1>1. s0 \in Schedules BY NewIsTyped
<1>2. s0.units = u BY DEF NewSchedule
<1> HIDE DEF s0
<1>3. s1.units = u BY <1>1, <1>2, StartAnchors
<1>4. s1 \in Schedules BY <1>1, StartIsTyped
<1> HIDE DEF s1
<1>5. Remembers(CollectPrograms(s1), d) /\ CollectPrograms(s1).units = u
  BY <1>3, <1>4, CollectRemembers
<1> QED BY <1>5 DEF Settled, s0, s1

(***************************************************************************)
(* The handlers keep the ring.                                              *)
(***************************************************************************)
AnchoredNow(s) == s \in DOMAIN schedules => AnchoredTo(schedules[s], day)

(* What is said of the first message.                                       *)
LEMMA FirstUpdate ==
    ASSUME TypeInv, PreparedInv, Handle, NEW s, Updated1(s)
    PROVE  /\ AnchoredNow(s)
           /\ Head(mail).arg.date = day + Head(mail).arg.k
           /\ Head(mail).arg.k \in 0..(MaxDays - 2) /\ day + Head(mail).arg.k \in Dates
<1>0. PICK kind : Receive(kind)
  BY DEF Handle, UpdateServices, UpdateClocks, PrepareSchedule, UpdateSchedule, FlushSchedule, SaveSchedules
<1>1. /\ 1 \in DOMAIN mail /\ Head(mail) = mail[1] /\ mail # <<>>
  BY <1>0, TailShifts DEF Receive
<1>2. PICK k : k = mail[1].arg.k OBVIOUS
<1>3. Updates(1, s, k) BY <1>1, <1>2 DEF Updates, Kind, Updated1
<1>4. mail[1].arg.date = day + k /\ Prepared(s, 1) BY <1>1, <1>3 DEF PreparedInv
<1>5. mail[1] \in Messages BY <1>1 DEF TypeInv
<1>6. mail[1].arg.k \in 0..(MaxDays - 2) /\ mail[1].arg.date \in Dates
  BY <1>1, <1>5, ArgsAreTyped DEF Updated1
<1> QED BY <1>1, <1>2, <1>4, <1>6 DEF Prepared, AnchoredNow

(* A ring that was prepared today stays anchored.                           *)
LEMMA HandlersAnchor ==
    ASSUME TypeInv, SettledInv, PreparedInv, Handle, NEW s, AnchoredNow(s) \/ Prepared1(s)
    PROVE  AnchoredNow(s)'
<1>0. /\ DOMAIN schedules \subseteq Services /\ schedules \in [DOMAIN schedules -> Schedules] /\ day \in Nat /\ day >= 1
      /\ UNCHANGED day
  BY PartialIs DEF TypeInv, Handle, UpdateServices, UpdateClocks, PrepareSchedule, UpdateSchedule, FlushSchedule, SaveSchedules
<1>1. SUFFICES ASSUME s \in DOMAIN schedules' PROVE AnchoredTo(schedules'[s], day)
  BY <1>0 DEF AnchoredNow
<1>2. CASE /\ s \in DOMAIN schedules
           /\ schedules'[s].units = schedules[s].units /\ schedules'[s].start = schedules[s].start
           /\ AnchoredNow(s)
  BY <1>2 DEF AnchoredNow, AnchoredTo, SlotOf
<1>3. CASE s \in DOMAIN schedules /\ schedules'[s] = UpdateStartIndex(schedules[s], day)
  BY <1>0, <1>3, StartAnchors DEF SettledInv, Settled
<1>4. CASE schedules'[s] = NewSchedule BY <1>0, <1>4, EmptyIsSettled
<1>5. CASE Updated1(s) /\ s \in DOMAIN schedules
              /\ schedules'[s] = UpdateUnit(schedules[s], Head(mail).arg.k, Head(mail).arg.date)
  <2>1. PICK k : k = Head(mail).arg.k OBVIOUS
  <2>2. AnchoredTo(schedules[s], day) /\ Head(mail).arg.date = day + k /\ k \in 0..(MaxDays - 2) /\ day + k \in Dates
    BY <1>5, <2>1, FirstUpdate DEF AnchoredNow
  <2>3. k \in Int /\ schedules[s] \in Schedules BY <1>0, <1>5, <2>2
  <2> QED BY <1>0, <1>5, <2>1, <2>2, <2>3, UnitAnchors
<1>6. CASE Prepared1(s) /\ ~AnchoredNow(s)
  <2>1. /\ mail # <<>> /\ ~Updated1(s)
    BY <1>6
       DEF Prepared1, Updated1, Handle, UpdateServices, UpdateClocks, PrepareSchedule, UpdateSchedule, FlushSchedule, SaveSchedules, Receive
  <2>2. PrepareSchedule
    BY <1>6 DEF Prepared1, Handle, UpdateServices, UpdateClocks, PrepareSchedule, UpdateSchedule, FlushSchedule, SaveSchedules, Receive
  <2>3. \/ s \in DOMAIN schedules /\ schedules'[s] = UpdateStartIndex(schedules[s], day)
        \/ schedules'[s] = NewSchedule
    BY <1>6, <2>2 DEF Prepared1, PrepareSchedule
  <2> QED BY <1>3, <1>4, <2>3
<1> QED BY <1>1, <1>2, <1>3, <1>4, <1>5, <1>6, HandlerChanges

LEMMA HandlersSettle ==
    ASSUME TypeInv, SettledInv, PreparedInv, Handle
    PROVE  SettledInv'
<1> USE DEF epgVars, jobVars, subVars
<1>0. /\ DOMAIN schedules \subseteq Services /\ schedules \in [DOMAIN schedules -> Schedules] /\ day \in Nat /\ day >= 1
      /\ UNCHANGED day
  BY PartialIs DEF TypeInv, Handle, UpdateServices, UpdateClocks, PrepareSchedule, UpdateSchedule, FlushSchedule, SaveSchedules
<1>1. ASSUME NEW s \in DOMAIN schedules' PROVE Settled(schedules'[s], day)
  <2>1. CASE /\ s \in DOMAIN schedules
             /\ schedules'[s].units = schedules[s].units /\ schedules'[s].start = schedules[s].start
             /\ schedules'[s] = schedules[s] \/ schedules'[s] = CollectPrograms(schedules[s])
    <3>1. Settled(schedules[s], day) /\ schedules[s] \in Schedules BY <1>0, <2>1 DEF SettledInv
    <3>2. Remembers(CollectPrograms(schedules[s]), day) BY <1>0, <3>1, CollectRemembers
    <3> QED BY <2>1, <3>1, <3>2 DEF Settled
  <2>2. CASE s \in DOMAIN schedules /\ schedules'[s] = UpdateStartIndex(schedules[s], day)
    <3>1. Settled(schedules[s], day) /\ schedules[s] \in Schedules BY <1>0, <2>2 DEF SettledInv
    <3>2. schedules'[s].units = schedules[s].units /\ schedules'[s].programs = schedules[s].programs
      BY <1>0, <2>2, <3>1, StartAnchors DEF Settled
    <3> QED BY <3>1, <3>2 DEF Settled, Remembers
  <2>3. CASE schedules'[s] = NewSchedule BY <1>0, <2>3, EmptyIsSettled
  <2>4. CASE Updated1(s) /\ s \in DOMAIN schedules
              /\ schedules'[s] = UpdateUnit(schedules[s], Head(mail).arg.k, Head(mail).arg.date)
    <3>1. PICK k : k = Head(mail).arg.k OBVIOUS
    <3>2. AnchoredTo(schedules[s], day) /\ Head(mail).arg.date = day + k /\ k \in 0..(MaxDays - 2) /\ day + k \in Dates
      BY <2>4, <3>1, FirstUpdate DEF AnchoredNow
    <3>3. k \in Int /\ schedules[s] \in Schedules /\ Settled(schedules[s], day)
      BY <1>0, <2>4, <3>2 DEF SettledInv
    <3>4. PICK to : to = UpdateUnit(schedules[s], k, day + k) OBVIOUS
    <3>5. AnchoredTo(to, day) /\ to \in Schedules
      BY <1>0, <3>2, <3>3, <3>4, UnitAnchors, UnitIsTyped
    <3>6. Coherent(to.units) BY <1>0, <3>5, AnchoredIsCoherent
    <3>7. Remembers(to, day) /\ NotAhead(to.units, day)
      BY <1>0, <3>2, <3>3, <3>4, UnitRemembers DEF Settled
    <3> QED BY <2>4, <3>1, <3>2, <3>4, <3>6, <3>7 DEF Settled
  <2> QED BY <2>1, <2>2, <2>3, <2>4, HandlerChanges
<1>2. files'.schedules = files.schedules \/ files'.schedules = [s \in DOMAIN schedules |-> schedules[s].units]
  BY DEF Handle, UpdateServices, UpdateClocks, PrepareSchedule, UpdateSchedule, FlushSchedule, SaveSchedules, TypeInv
<1>3. \A s \in DOMAIN files'.schedules : Coherent(files'.schedules[s]) /\ NotAhead(files'.schedules[s], day)
  BY <1>2 DEF SettledInv, Settled
<1> QED BY <1>0, <1>1, <1>3 DEF SettledInv

(***************************************************************************)
(* Jobs keep the ring.                                                      *)
(***************************************************************************)
LEMMA HandlersPrepare ==
    ASSUME TypeInv, SettledInv, PreparedInv, Handle
    PROVE  PreparedInv'
<1> USE DEF epgVars, jobVars, subVars
<1>0. PICK kind : Receive(kind)
  BY DEF Handle, UpdateServices, UpdateClocks, PrepareSchedule, UpdateSchedule, FlushSchedule, SaveSchedules
<1>1. /\ DOMAIN mail = 1..Len(mail) /\ Len(mail) \in Nat /\ Len(mail) >= 1
      /\ DOMAIN mail' = 1..(Len(mail) - 1) /\ Len(mail') = Len(mail) - 1
      /\ \A i \in DOMAIN mail' : mail'[i] = mail[i + 1] /\ i + 1 \in DOMAIN mail
      /\ Head(mail) = mail[1]
  BY <1>0, TailShifts
<1>2. UNCHANGED <<feeder, day>>
  BY DEF Handle, UpdateServices, UpdateClocks, PrepareSchedule, UpdateSchedule, FlushSchedule, SaveSchedules
<1>3. ASSUME NEW s, NEW q \in Nat, q >= 1, q <= Len(mail), Prepared(s, q + 1) PROVE Prepared(s, q)'
  <2>1. CASE AnchoredNow(s) \/ Prepares(1, s)
    <3>1. AnchoredNow(s) \/ Prepared1(s) BY <1>1, <2>1 DEF Prepares, Kind, Prepared1
    <3>2. AnchoredNow(s)' BY <3>1, HandlersAnchor
    <3> QED BY <3>2 DEF AnchoredNow, Prepared
  <2>2. CASE ~AnchoredNow(s) /\ ~Prepares(1, s)
    <3>1. PICK j \in 1..q : Prepares(j, s) BY <1>3, <2>2 DEF Prepared, AnchoredNow
    <3>2. j # 1 /\ j - 1 \in 1..(q - 1) /\ j - 1 \in DOMAIN mail' /\ j - 1 + 1 = j
      BY <1>1, <1>3, <2>2, <3>1
    <3>3. Prepares(j - 1, s)' BY <1>1, <3>1, <3>2 DEF Prepares, Kind
    <3> QED BY <3>2, <3>3 DEF Prepared
  <2> QED BY <2>1, <2>2
<1>4. \A i \in DOMAIN mail' : i \in Nat /\ i >= 1 /\ i <= Len(mail) /\ i + 1 \in DOMAIN mail /\ mail'[i] = mail[i + 1]
  BY <1>1
<1>5. ASSUME NEW i \in DOMAIN mail', NEW s, NEW k, Updates(i, s, k)'
      PROVE  mail'[i].arg.date = day + k /\ Prepared(s, i)'
  <2>1. Updates(i + 1, s, k) BY <1>4, <1>5 DEF Updates, Kind
  <2>2. mail[i + 1].arg.date = day + k /\ Prepared(s, i + 1) BY <1>4, <2>1 DEF PreparedInv
  <2> QED BY <1>3, <1>4, <2>2
<1>6. ASSUME NEW i \in DOMAIN mail', NEW s, NEW fed, FlushOf(i, s, fed)' PROVE Prepared(s, i)'
  <2>1. FlushOf(i + 1, s, fed) BY <1>4, <1>6 DEF FlushOf, Kind
  <2>2. Prepared(s, i + 1) BY <1>4, <2>1 DEF PreparedInv
  <2> QED BY <1>3, <1>4, <2>2
<1>7. ASSUME NEW f \in feeder, NEW s \in Services, FedOf(f, s) # {} PROVE Prepared(s, Len(mail) + 1)'
  <2>1. PICK q : q = Len(mail) OBVIOUS
  <2>2. Prepared(s, q + 1) BY <1>7, <2>1 DEF PreparedInv
  <2>3. q = Len(mail') + 1 /\ q \in Nat /\ q >= 1 /\ q <= Len(mail) BY <1>1, <2>1
  <2>4. Prepared(s, q)' BY <1>3, <2>2, <2>3
  <2> QED BY <2>3, <2>4
<1> QED BY <1>2, <1>5, <1>6, <1>7 DEF PreparedInv, FedOf

(* Messages behind prepare no less.                                         *)
LEMMA AppendKeepsPrepared ==
    ASSUME NEW l, Extends(l), UNCHANGED <<schedules, day>>, NEW s, NEW p \in 1..(Len(mail) + 1), NEW q \in p..(Len(mail') + 1),
           Prepared(s, p)
    PROVE  Prepared(s, q)'
<1>1. \A i \in 1..(p - 1) : i \in DOMAIN mail /\ mail'[i] = mail[i] /\ i \in 1..(q - 1)
  BY DEF Extends
<1>2. \A i \in 1..(p - 1) : Prepares(i, s)' <=> Prepares(i, s) BY <1>1 DEF Prepares, Kind
<1> QED BY <1>1, <1>2 DEF Prepared

LEMMA AppendKeepsOld ==
    ASSUME NEW l, Extends(l), UNCHANGED <<schedules, day>>, PreparedInv, NEW i \in DOMAIN mail
    PROVE  /\ i \in DOMAIN mail' /\ mail'[i] = mail[i]
           /\ \A s, k : Updates(i, s, k)' => mail'[i].arg.date = day + k /\ Prepared(s, i)'
           /\ \A s, fed : FlushOf(i, s, fed)' => Prepared(s, i)'
<1>1. mail'[i] = mail[i] /\ i \in DOMAIN mail' /\ i \in 1..(Len(mail) + 1) /\ i \in i..(Len(mail') + 1)
  BY DEF Extends
<1>2. ASSUME NEW s, Prepared(s, i) PROVE Prepared(s, i)' BY <1>1, <1>2, AppendKeepsPrepared
<1>3. \A s, k : Updates(i, s, k)' => Updates(i, s, k) BY <1>1 DEF Updates, Kind
<1>4. \A s, fed : FlushOf(i, s, fed)' => FlushOf(i, s, fed) BY <1>1 DEF FlushOf, Kind
<1> QED BY <1>1, <1>2, <1>3, <1>4 DEF PreparedInv

LEMMA SameMailKeepsPrepared ==
    ASSUME TypeInv, PreparedInv, UNCHANGED <<mail, schedules, day>>,
           \A g \in feeder' : g.fed = {} \/ \E f \in feeder : g.fed = f.fed
    PROVE  PreparedInv'
<1>1. \A i, s : Prepares(i, s)' <=> Prepares(i, s) BY DEF Prepares, Kind
<1>2. \A s, p : Prepared(s, p)' <=> Prepared(s, p) BY <1>1 DEF Prepared
<1>3. \A i, s, k : Updates(i, s, k)' <=> Updates(i, s, k) BY DEF Updates, Kind
<1>4. \A i, s, fed : FlushOf(i, s, fed)' <=> FlushOf(i, s, fed) BY DEF FlushOf, Kind
<1>5. ASSUME NEW g \in feeder', NEW s \in Services, FedOf(g, s) # {} PROVE Prepared(s, Len(mail) + 1)
  <2>1. PICK f \in feeder : g.fed = f.fed BY <1>5 DEF FedOf
  <2>2. FedOf(f, s) # {} BY <1>5, <2>1 DEF FedOf
  <2> QED BY <2>2 DEF PreparedInv
<1>6. ASSUME NEW g \in feeder', NEW s \in Services, FedOf(g, s) # {} PROVE Prepared(s, Len(mail) + 1)'
  <2>1. PICK q : q = Len(mail) + 1 OBVIOUS
  <2>2. Prepared(s, q) BY <1>5, <1>6, <2>1
  <2>3. Prepared(s, q)' BY <1>2, <2>2
  <2>4. q = Len(mail') + 1 BY <2>1
  <2> QED BY <2>3, <2>4
<1>7. \A i \in DOMAIN mail' : \A s, k : Updates(i, s, k)' => mail'[i].arg.date = day' + k /\ Prepared(s, i)'
  BY <1>2, <1>3 DEF PreparedInv
<1>8. \A i \in DOMAIN mail' : \A s, fed : FlushOf(i, s, fed)' => Prepared(s, i)'
  BY <1>2, <1>4 DEF PreparedInv
<1> QED BY <1>6, <1>7, <1>8 DEF PreparedInv

LEMMA SettledStays ==
    ASSUME SettledInv, UNCHANGED <<schedules, day, files>>
    PROVE  SettledInv'
BY DEF SettledInv

LEMMA JobsKeepRings ==
    ASSUME TypeInv, ScanInv, RingInv, Job
    PROVE  RingInv'
<1>0. UNCHANGED <<schedules, day, files, crossed>> BY JobSteps
<1>1. SUFFICES ASSUME ~crossed, SettledInv, PreparedInv PROVE PreparedInv'
  BY <1>0, SettledStays DEF RingInv
<1>2. CASE mail' = mail /\ (feeder' = feeder \/ \A f \in feeder' : f.fed = {})
  BY <1>0, <1>1, <1>2, SameMailKeepsPrepared
<1>3. CASE feeder' = {} /\ \E m \in Messages : mail' = mail \o <<m>> /\ JobPosts(m)
  <2>1. PICK m \in Messages : mail' = mail \o <<m>> /\ JobPosts(m) BY <1>3
  <2>2. <<m>> \in Seq(Messages) OBVIOUS
  <2>3. Extends(<<m>>) BY <2>1, <2>2, Extended
  <2>4. \A i \in DOMAIN mail' : i \notin DOMAIN mail => mail'[i] = m BY <2>1 DEF TypeInv
  <2>5. ASSUME NEW i \in DOMAIN mail'
        PROVE  /\ \A s, k : Updates(i, s, k)' => mail'[i].arg.date = day + k /\ Prepared(s, i)'
               /\ \A s, fed : FlushOf(i, s, fed)' => Prepared(s, i)'
    <3>1. CASE i \in DOMAIN mail BY <1>0, <1>1, <2>3, <3>1, AppendKeepsOld
    <3>2. CASE mail'[i] = m BY <2>1, <3>2 DEF Updates, FlushOf, Kind, JobPosts
    <3> QED BY <2>4, <3>1, <3>2
  <2> QED BY <1>0, <1>3, <2>5 DEF PreparedInv
<1> QED BY <1>2, <1>3, JobSteps

(***************************************************************************)
(* The feeder, midnight and restarts keep the ring.                         *)
(***************************************************************************)
LEMMA SectionKeepsPrepared ==
    ASSUME TypeInv, PreparedInv, NEW f \in feeder, NEW s \in f.sids, NEW k \in 0..(MaxDays - 2),
           SectionArrives(f, s, k), UNCHANGED <<schedules, day>>
    PROVE  PreparedInv'
<1>1. PICK l \in Seq(Messages) : SectionPosts(f, s, k, l) /\ mail' = mail \o l /\ Extends(l)
  BY SectionExtends
<1>2. f \in Feeds /\ s \in Services /\ k \in Nat /\ day \in Nat /\ Section(s, k) \in Sections
  BY SectionExtends
<1>3. PostsUpdate(s, k) /\ \A i \in (Len(mail) + 1)..Len(mail') :
                 \/ i = Len(mail') /\ mail'[i] = UpdateOf(s, k)
                 \/ ~Seen(f, s) /\ i = Len(mail) + 1 /\ i < Len(mail') /\ mail'[i] = Msg("PrepareSchedule", s)
  BY <1>1, SectionIsLast
<1>4. PICK g : feeder' = {g} /\ g.fed = f.fed \union {Section(s, k)}
  <2> DEFINE x == Section(s, k)
  <2>1. feeder' = {[f EXCEPT !.fed = @ \union {x}]} BY DEF SectionArrives
  <2> HIDE DEF x
  <2>2. [f EXCEPT !.fed = @ \union {x}].fed = f.fed \union {x} BY <1>2 DEF Feeds
  <2> QED BY <2>1, <2>2 DEF x
<1>5. UpdateOf(s, k).kind = "UpdateSchedule" /\ UpdateOf(s, k).arg = [s |-> s, k |-> k, date |-> day + k]
      /\ Msg("PrepareSchedule", s).kind = "PrepareSchedule" /\ Msg("PrepareSchedule", s).arg = s
  BY DEF UpdateOf, Msg
<1>6. DOMAIN mail' = 1..Len(mail') /\ \A i \in DOMAIN mail' : i \in DOMAIN mail \/ i \in (Len(mail) + 1)..Len(mail')
  BY <1>1 DEF Extends
<1>7. ASSUME NEW q \in Nat, q = Len(mail') \/ q = Len(mail') + 1 PROVE Prepared(s, q)'
  <2>1. CASE Seen(f, s)
    <3>1. FedOf(f, s) # {} BY <2>1 DEF Seen, FedOf
    <3>2. PICK p : p = Len(mail) + 1 OBVIOUS
    <3>3. Prepared(s, p) BY <1>2, <3>1, <3>2 DEF PreparedInv
    <3>4. p \in 1..(Len(mail) + 1) /\ q \in p..(Len(mail') + 1)
      <4>1. Len(mail') >= Len(mail) + 1
        <5>0. \A x, y : Len(<<x>>) >= 1 /\ Len(<<x, y>>) >= 1 OBVIOUS
        <5>1. Len(l) >= 1 BY <1>1, <5>0 DEF SectionPosts
        <5>2. Len(mail') = Len(mail) + Len(l) /\ Len(l) \in Nat /\ Len(mail) \in Nat
          BY <1>1 DEF TypeInv
        <5> QED BY <5>1, <5>2
      <4> QED BY <1>1, <1>7, <3>2, <4>1 DEF Extends
    <3> QED BY <1>1, <3>3, <3>4, AppendKeepsPrepared
  <2>2. CASE ~Seen(f, s)
    <3>1. PICK j : j = Len(mail) + 1 OBVIOUS
    <3>2. l = <<Msg("PrepareSchedule", s), UpdateOf(s, k)>> BY <1>1, <2>2 DEF SectionPosts
    <3>3. j < Len(mail') /\ mail'[j] = Msg("PrepareSchedule", s) BY <1>1, <3>1, <3>2 DEF TypeInv
    <3>4. j \in 1..(q - 1) BY <1>1, <1>7, <3>1, <3>3 DEF Extends
    <3>5. Prepares(j, s)' BY <1>5, <3>3 DEF Prepares, Kind
    <3> QED BY <3>4, <3>5 DEF Prepared
  <2> QED BY <2>1, <2>2
<1>8. ASSUME NEW i \in DOMAIN mail'
      PROVE  /\ \A t, j : Updates(i, t, j)' => mail'[i].arg.date = day + j /\ Prepared(t, i)'
             /\ \A t, fed : FlushOf(i, t, fed)' => Prepared(t, i)'
  <2>1. CASE i \in DOMAIN mail BY <1>1, <2>1, AppendKeepsOld
  <2>2. CASE mail'[i] = UpdateOf(s, k) /\ i = Len(mail')
    <3>1. Prepared(s, i)' BY <1>3, <1>7, <2>2 DEF PostsUpdate
    <3>2. \A t, j : Updates(i, t, j)' => t = s /\ j = k BY <1>5, <2>2 DEF Updates, Kind
    <3>3. mail'[i].arg.date = day + k BY <1>5, <2>2
    <3>4. \A t, fed : ~FlushOf(i, t, fed)' BY <1>5, <2>2 DEF FlushOf, Kind
    <3> QED BY <3>1, <3>2, <3>3, <3>4
  <2>3. CASE mail'[i] = Msg("PrepareSchedule", s)
    <3>1. \A t, j : ~Updates(i, t, j)' BY <1>5, <2>3 DEF Updates, Kind
    <3>2. \A t, fed : ~FlushOf(i, t, fed)' BY <1>5, <2>3 DEF FlushOf, Kind
    <3> QED BY <3>1, <3>2
  <2> QED BY <1>3, <1>6, <2>1, <2>2, <2>3
<1>9. ASSUME NEW t \in Services, FedOf(g, t) # {} PROVE Prepared(t, Len(mail) + 1)'
  <2>1. PICK p, q : p = Len(mail) + 1 /\ q = Len(mail') + 1 OBVIOUS
  <2>2. p \in 1..(Len(mail) + 1) /\ q \in p..(Len(mail') + 1) /\ q \in Nat BY <1>1, <2>1 DEF Extends
  <2>3. CASE t = s 
    <3>1. Prepared(s, q)' BY <1>7, <2>1, <2>2
    <3> QED BY <2>1, <2>3, <3>1
  <2>4. CASE t # s
    <3>1. FedOf(f, t) # {} BY <1>4, <1>9, <2>4 DEF FedOf, Section
    <3>2. Prepared(t, p) BY <2>1, <3>1 DEF PreparedInv
    <3>3. Prepared(t, q)' BY <1>1, <2>2, <3>2, AppendKeepsPrepared
    <3> QED BY <2>1, <3>3
  <2> QED BY <2>3, <2>4
<1>10. \A h \in feeder' : \A t \in Services : FedOf(h, t) # {} => Prepared(t, Len(mail) + 1)'
  BY <1>4, <1>9
<1> QED BY <1>8, <1>10 DEF PreparedInv

LEMMA FlushKeepsPrepared ==
    ASSUME TypeInv, PreparedInv, Flush
    PROVE  PreparedInv'
<1> USE DEF epgVars, jobVars, subVars
<1>1. PICK f \in feeder : \E l \in Seq(Messages) :
              /\ f.on = "feeding" /\ Flushes(f, l)
              /\ mail' = mail \o l /\ Len(mail') <= MailSize
              /\ feeder' = {[f EXCEPT !.on = "tuning", !.sids = {}, !.fed = {}]}
  BY FlushPosts
<1>2. PICK l \in Seq(Messages) : Flushes(f, l) /\ mail' = mail \o l BY <1>1
<1>3. Extends(l) BY <1>2, Extended
<1>4. UNCHANGED <<schedules, day>> BY DEF Flush
<1>5. f \in Feeds BY DEF TypeInv
<1>6. \A g \in feeder' : g.fed = {} BY <1>1, <1>5 DEF Feeds
<1>7. ASSUME NEW i \in DOMAIN mail'
      PROVE  /\ \A t, j : Updates(i, t, j)' => mail'[i].arg.date = day + j /\ Prepared(t, i)'
             /\ \A t, fed : FlushOf(i, t, fed)' => Prepared(t, i)'
  <2>1. CASE i \in DOMAIN mail BY <1>3, <1>4, <2>1, AppendKeepsOld
  <2>2. CASE i \notin DOMAIN mail
    <3>1. i - Len(mail) \in DOMAIN l /\ mail'[i] = l[i - Len(mail)] BY <1>3, <2>2 DEF Extends
    <3>2. mail'[i].kind = "FlushSchedule" BY <1>2, <3>1 DEF Flushes
    <3>3. ASSUME NEW t, NEW fed, FlushOf(i, t, fed)' PROVE Prepared(t, i)'
      <4>1. t \in f.sids /\ FedOf(f, t) # {} BY <1>2, <3>1, <3>3 DEF Flushes, FlushOf, Kind
      <4>2. t \in Services BY <1>5, <4>1 DEF Feeds
      <4>3. PICK p : p = Len(mail) + 1 OBVIOUS
      <4>4. Prepared(t, p) BY <4>1, <4>2, <4>3 DEF PreparedInv
      <4>5. p \in 1..(Len(mail) + 1) /\ i \in p..(Len(mail') + 1) BY <1>3, <2>2, <4>3 DEF Extends
      <4> QED BY <1>3, <1>4, <4>4, <4>5, AppendKeepsPrepared
    <3>4. \A t, j : ~Updates(i, t, j)' BY <3>2 DEF Updates, Kind
    <3> QED BY <3>3, <3>4
  <2> QED BY <2>1, <2>2
<1>8. \A h \in feeder' : \A t \in Services : FedOf(h, t) = {} BY <1>6 DEF FedOf
<1> QED BY <1>4, <1>7, <1>8 DEF PreparedInv

LEMMA FeederFeeds ==
    ASSUME TypeInv, QueryServices \/ Tune \/ NoTuner \/ ReadError
    PROVE  \A g \in feeder' : g.fed = {} \/ \E f \in feeder : g.fed = f.fed
<1>1. \A f \in feeder : f \in Feeds BY DEF TypeInv
<1>2. CASE QueryServices BY <1>2 DEF QueryServices
<1>3. CASE Tune
  <2>1. PICK f \in feeder : \E ss \in SUBSET f.todo :
           feeder' = {[f EXCEPT !.on = "done"]}
           \/ feeder' = {[f EXCEPT !.on = "feeding", !.sids = ss, !.todo = @ \ ss]}
    BY <1>3 DEF Tune, Known
  <2>2. [f EXCEPT !.on = "done"].fed = f.fed BY <1>1 DEF Feeds
  <2>3. \A ss : [f EXCEPT !.on = "feeding", !.sids = ss, !.todo = @ \ ss].fed = f.fed
    BY <1>1 DEF Feeds
  <2> QED BY <2>1, <2>2, <2>3
<1>4. CASE NoTuner \/ ReadError
  <2>1. PICK f \in feeder : feeder' = {[f EXCEPT !.on = "done", !.sids = {}, !.fed = {}]}
    BY <1>4 DEF NoTuner, ReadError
  <2>2. [f EXCEPT !.on = "done", !.sids = {}, !.fed = {}].fed = {} BY <1>1 DEF Feeds
  <2> QED BY <2>1, <2>2
<1> QED BY <1>2, <1>3, <1>4

LEMMA FeederKeepsRings ==
    ASSUME TypeInv, RingInv, FeederStep
    PROVE  RingInv'
<1> USE DEF epgVars, jobVars, subVars
<1>0. UNCHANGED <<schedules, day, files, crossed>>
  BY DEF FeederStep, QueryServices, Tune, NoTuner, Feed, Flush, ReadError
<1>1. SUFFICES ASSUME ~crossed, SettledInv, PreparedInv PROVE PreparedInv'
  BY <1>0, SettledStays DEF RingInv
<1>2. CASE QueryServices \/ Tune \/ NoTuner \/ ReadError
  <2>1. UNCHANGED mail BY <1>2 DEF QueryServices, Tune, NoTuner, ReadError
  <2> QED BY <1>0, <1>1, <1>2, <2>1, FeederFeeds, SameMailKeepsPrepared
<1>3. CASE Feed
  <2>2. PICK f \in feeder : \E s \in f.sids : \E k \in 0..(MaxDays - 2) : SectionArrives(f, s, k)
    BY <1>3, FeedPosts
  <2>3. PICK s \in f.sids : \E k \in 0..(MaxDays - 2) : SectionArrives(f, s, k) BY <2>2
  <2>4. PICK k \in 0..(MaxDays - 2) : SectionArrives(f, s, k) BY <2>3
  <2> QED BY <1>0, <1>1, <2>4, SectionKeepsPrepared
<1>4. CASE Flush BY <1>1, <1>4, FlushKeepsPrepared
<1> QED BY <1>2, <1>3, <1>4 DEF FeederStep

(* Midnight moves today by one; a restart finds today in the file.          *)
LEMMA OthersKeepRings ==
    ASSUME TypeInv, ScanInv, RingInv, Started \/ Crash \/ ProgramsUpdated \/ Midnight \/ UNCHANGED vars
    PROVE  RingInv'
<1> USE DEF epgVars, jobVars, subVars
<1>0. day \in Nat /\ day >= 1 BY DEF TypeInv
<1>1. CASE Started
  <2> DEFINE kept == Restrict2(files.schedules, files.services)
  <2> DEFINE loaded(s) == CollectPrograms(UpdateStartIndex([NewSchedule EXCEPT !.units = kept[s]], day))
  <2>1. /\ schedules' = [s \in DOMAIN kept |-> loaded(s)]
        /\ mail' = mail /\ feeder' = feeder /\ mail = <<>> /\ feeder = {}
        /\ UNCHANGED <<day, files, crossed>>
    BY <1>1 DEF Started, ScanInv, FeederInv
  <2>2. \A s \in DOMAIN kept : s \in DOMAIN files.schedules /\ kept[s] = files.schedules[s] /\ kept[s] \in Units
    <3>1. DOMAIN files.schedules \subseteq Services /\ files.schedules \in [DOMAIN files.schedules -> Units]
      BY PartialIs DEF TypeInv
    <3> QED BY <3>1 DEF Restrict2
  <2> HIDE DEF kept
  <2>3. ASSUME SettledInv, NEW s \in DOMAIN kept PROVE Settled(loaded(s), day)
    BY <1>0, <2>2, <2>3, LoadedIsSettled DEF SettledInv
  <2> HIDE DEF loaded
  <2>4. SettledInv => SettledInv' BY <2>1, <2>3 DEF SettledInv
  <2>5. PreparedInv' BY <2>1 DEF PreparedInv
  <2> QED BY <2>1, <2>4, <2>5 DEF RingInv
<1>2. CASE Crash
  <2>1. mail' = <<>> /\ feeder' = {} /\ schedules' = <<>> /\ UNCHANGED <<day, files, crossed>>
    BY <1>2 DEF Crash
  <2>2. PreparedInv' BY <2>1 DEF PreparedInv
  <2>3. SettledInv => SettledInv' BY <2>1 DEF SettledInv
  <2> QED BY <2>1, <2>2, <2>3 DEF RingInv
<1>3. CASE ProgramsUpdated \/ UNCHANGED vars
  <2>1. UNCHANGED <<mail, schedules, feeder, day, files, crossed>> BY <1>3 DEF ProgramsUpdated, vars
  <2>2. PreparedInv => PreparedInv' BY <2>1, SameMailKeepsPrepared
  <2> QED BY <2>1, <2>2, SettledStays DEF RingInv
<1>4. CASE Midnight
  <2>1. /\ day' = day + 1 /\ UNCHANGED <<mail, schedules, feeder, files>>
        /\ ~crossed' => ~crossed /\ mail = <<>> /\ \A f \in feeder : f.fed = {}
    BY <1>4 DEF Midnight
  <2>2. SUFFICES ASSUME ~crossed', SettledInv PROVE SettledInv' /\ PreparedInv'
    BY <2>1 DEF RingInv
  <2>3. PreparedInv' BY <2>1, <2>2 DEF PreparedInv, FedOf
  <2>4. \A u \in Units : NotAhead(u, day) => NotAhead(u, day')
    <3>1. \A u \in Units : \A i \in Slots : u[i] \in Nat BY DatesAreNaturals DEF Units
    <3> QED BY <1>0, <2>1, <3>1, DaysAssumption DEF NotAhead
  <2>5. \A sched \in Schedules : Remembers(sched, day) => Remembers(sched, day')
    <3>2. ASSUME NEW sched \in Schedules, NEW n \in DOMAIN sched.programs, sched.programs[n] >= day' - 1
          PROVE  sched.programs[n] >= day - 1
      <4>1. sched.programs[n] \in Dates BY DEF Schedules
      <4>2. sched.programs[n] \in Nat BY <4>1, DatesAreNaturals
      <4> QED BY <1>0, <2>1, <3>2, <4>2
    <3> QED BY <3>2 DEF Remembers
  <2>6. /\ schedules \in [DOMAIN schedules -> Schedules] /\ \A s \in DOMAIN schedules : schedules[s].units \in Units
        /\ files.schedules \in [DOMAIN files.schedules -> Units]
    <3>1. schedules \in [DOMAIN schedules -> Schedules] /\ files.schedules \in [DOMAIN files.schedules -> Units]
      BY PartialIs DEF TypeInv
    <3> QED BY <3>1 DEF Schedules
  <2>7. SettledInv' BY <2>1, <2>2, <2>4, <2>5, <2>6 DEF SettledInv, Settled
  <2> QED BY <2>3, <2>7
<1> QED BY <1>1, <1>2, <1>3, <1>4

(* Unless a feed went on across midnight, date and slot agree in every ring, in*)
(* memory and in the file, and yesterday stays as long as it is yesterday.  *)
THEOREM RingsSettle == Spec => []RingInv
<1>1. Init => RingInv BY DEF Init, RingInv, SettledInv, PreparedInv
<1>2. TypeInv /\ ScanInv /\ RingInv /\ [Next]_vars => RingInv'
  <2>1. ASSUME TypeInv, RingInv, Handle PROVE RingInv'
    <3>1. crossed' = crossed
      BY <2>1 DEF Handle, UpdateServices, UpdateClocks, PrepareSchedule, UpdateSchedule, FlushSchedule, SaveSchedules
    <3> QED BY <2>1, <3>1, HandlersSettle, HandlersPrepare DEF RingInv
  <2> QED BY <2>1, JobsKeepRings, FeederKeepsRings, OthersKeepRings DEF Next
<1> QED BY <1>1, <1>2, TypesAreKept, FlushesAreKnown, PTL DEF Spec

(***************************************************************************)
(* What collect_programs() answers with.                                    *)
(***************************************************************************)
DaysFrom(d, n) == [k \in 1..n |-> d + k - 1]

LEMMA BeforeWraps ==
    ASSUME NEW st \in Slots PROVE Before(st) = (st - 1) % MaxDays
<1>1. MaxDays \in Nat /\ MaxDays > 0 /\ st \in 0..(MaxDays - 1) BY DaysAssumption DEF Slots
<1>2. CASE st > 0
  <2>1. PICK r : r = st - 1 OBVIOUS
  <2>2. r \in 0..(MaxDays - 1) /\ r = 0 * MaxDays + r BY <1>1, <1>2, <2>1
  <2>3. (0 * MaxDays + r) % MaxDays = r BY <1>1, <2>2, Unique
  <2>4. r % MaxDays = r BY <2>2, <2>3
  <2> QED BY <1>2, <2>1, <2>4 DEF Before
<1>3. CASE st = 0
  <2>1. PICK r : r = MaxDays - 1 OBVIOUS
  <2>2. r \in 0..(MaxDays - 1) /\ -1 = (-1) * MaxDays + r BY <1>1, <2>1
  <2>3. ((-1) * MaxDays + r) % MaxDays = r BY <1>1, <2>2, Unique
  <2>4. st - 1 = -1 BY <1>3
  <2>5. (st - 1) % MaxDays = r BY <2>2, <2>3, <2>4
  <2> QED BY <1>3, <2>1, <2>5 DEF Before
<1> QED BY <1>1, <1>2, <1>3

LEMMA CollectedSlots ==
    ASSUME NEW sched \in Schedules, NEW n \in Int
    PROVE  (Before(sched.start) + n - 1) % MaxDays = SlotOf(sched, n - 2)
<1>1. PICK st, b : st = sched.start /\ b = Before(st) OBVIOUS
<1>2. st \in Slots /\ st \in Int /\ b \in Int BY <1>1, DaysAssumption DEF Schedules, Slots, Before
<1>3. b = (st - 1) % MaxDays BY <1>1, <1>2, BeforeWraps
<1>4. PICK x, y : x = st - 1 /\ y = n - 1 OBVIOUS
<1>5. x \in Int /\ y \in Int /\ b = x % MaxDays BY <1>2, <1>3, <1>4
<1>6. (b + y) % MaxDays = (x + y) % MaxDays BY <1>5, WrapsHere
<1>7. b + y = b + n - 1 /\ x + y = st + (n - 2) BY <1>2, <1>4
<1> QED BY <1>1, <1>6, <1>7 DEF SlotOf

LEMMA DaysGrow ==
    ASSUME NEW h, NEW S, h \in Seq(S), NEW d \in Nat, NEW n \in Nat, Nat \subseteq S
    PROVE  Append(h \o DaysFrom(d, n), d + n) = h \o DaysFrom(d, n + 1)
<1>1. DaysFrom(d, n) \in Seq(S) /\ Len(DaysFrom(d, n)) = n /\ Len(DaysFrom(d, n + 1)) = n + 1
      /\ DaysFrom(d, n + 1) \in Seq(S)
  BY DEF DaysFrom
<1>2. PICK a, b : a = Append(h \o DaysFrom(d, n), d + n) /\ b = h \o DaysFrom(d, n + 1) OBVIOUS
<1>3. a \in Seq(S) /\ b \in Seq(S) /\ Len(a) = Len(h) + n + 1 /\ Len(b) = Len(h) + (n + 1) /\ Len(h) \in Nat
  BY <1>1, <1>2
<1>4. ASSUME NEW i \in 1..Len(a) PROVE a[i] = b[i]
  <2>1. CASE i <= Len(h) BY <1>1, <1>2, <1>3, <2>1
  <2>2. CASE i > Len(h) /\ i <= Len(h) + n
    <3>1. a[i] = DaysFrom(d, n)[i - Len(h)] BY <1>1, <1>2, <1>3, <2>2
    <3>2. b[i] = DaysFrom(d, n + 1)[i - Len(h)] BY <1>1, <1>2, <1>3, <2>2
    <3> QED BY <1>3, <2>2, <3>1, <3>2 DEF DaysFrom
  <2>3. CASE i = Len(h) + n + 1
    <3>1. a[i] = d + n BY <1>1, <1>2, <1>3, <2>3
    <3>2. b[i] = DaysFrom(d, n + 1)[n + 1] BY <1>1, <1>2, <1>3, <2>3
    <3> QED BY <3>1, <3>2 DEF DaysFrom
  <2> QED BY <1>3, <2>1, <2>2, <2>3
<1>5. Len(a) = Len(b) BY <1>3
<1>6. a = b BY <1>3, <1>4, <1>5, SeqEqual
<1> QED BY <1>2, <1>6

(* With the days of a feed in the ring the loop collects them in order, behind*)
(* the unit of the day before.                                              *)
LEMMA CollectedDays ==
    ASSUME NEW sched \in Schedules, NEW d \in Nat, d >= 1, NEW b, b = sched.units[SlotOf(sched, -1)],
           \A k \in 0..(MaxDays - 2) : sched.units[SlotOf(sched, k)] = d + k
    PROVE  CollectPrograms(sched).programs =
              (IF b = 0 THEN <<>> ELSE <<b>>) \o DaysFrom(d, MaxDays - 1)
<1>1. Shaped(sched) /\ sched.units \in [Slots -> Dates] /\ sched.start \in Slots /\ Dates \in SUBSET Nat
  BY SchedulesAreShapedByType, DatesAreNaturals DEF Schedules, Units
<1>2. PICK p \in [0..MaxDays -> Seq(Dates \ {0})] : Collects(p, sched) BY <1>1, Collected
<1>3. ASSUME NEW n \in 1..MaxDays
      PROVE  p[n] = IF sched.units[SlotOf(sched, n - 2)] = 0 THEN p[n - 1]
                    ELSE Append(p[n - 1], sched.units[SlotOf(sched, n - 2)])
  BY <1>2, CollectedSlots DEF Collects
<1>4. p[0] = <<>> BY <1>2 DEF Collects
<1>5. PICK h : h = IF b = 0 THEN <<>> ELSE <<b>> OBVIOUS
<1>6. p[1] = h
  <2>1. 1 \in 1..MaxDays /\ 1 - 2 = -1 /\ 1 - 1 = 0 BY DaysAssumption
  <2>2. p[1] = IF b = 0 THEN p[0] ELSE Append(p[0], b) BY <1>3, <2>1
  <2>3. Append(<<>>, b) = <<b>> OBVIOUS
  <2> QED BY <1>4, <1>5, <2>2, <2>3
<1>7. h \in Seq(Nat)
  <2>1. b \in Nat
    <3>1. SlotOf(sched, -1) \in Slots BY SlotIsTyped
    <3> QED BY <1>1, <3>1
  <2> QED BY <1>5, <2>1
<1> DEFINE T == {n \in Nat : n <= MaxDays - 1 => p[n + 1] = h \o DaysFrom(d, n)}
<1>8. 0 \in T
  <2>1. DaysFrom(d, 0) = <<>> BY DEF DaysFrom
  <2>2. h \o <<>> = h BY <1>7
  <2>2a. PICK z : z = 0 + 1 OBVIOUS
  <2>2b. p[z] = h
    <3>1. z = 1 BY <2>2a
    <3> QED BY <1>6, <3>1
  <2>3. p[0 + 1] = h \o DaysFrom(d, 0) BY <2>1, <2>2, <2>2a, <2>2b
  <2> QED BY <2>3
<1>9. ASSUME NEW n \in Nat, n \in T PROVE n + 1 \in T
  <2>1. SUFFICES ASSUME n + 1 <= MaxDays - 1 PROVE p[n + 1 + 1] = h \o DaysFrom(d, n + 1) OBVIOUS
  <2>2. n + 2 \in 1..MaxDays /\ n + 2 - 2 = n /\ n + 2 - 1 = n + 1 /\ n \in 0..(MaxDays - 2) /\ n + 1 + 1 = n + 2
        /\ n <= MaxDays - 1
    BY <2>1, DaysAssumption
  <2>3. sched.units[SlotOf(sched, n)] = d + n /\ d + n # 0 BY <2>2
  <2>4. p[n + 2] = Append(p[n + 1], d + n)
    <3>1. PICK m : m = n + 2 OBVIOUS
    <3>2. m \in 1..MaxDays /\ m - 2 = n /\ m - 1 = n + 1 BY <2>2, <3>1
    <3>3. PICK x : x = sched.units[SlotOf(sched, m - 2)] OBVIOUS
    <3>4. p[m] = IF x = 0 THEN p[m - 1] ELSE Append(p[m - 1], x) BY <1>3, <3>2, <3>3
    <3>5. x = d + n /\ x # 0 BY <2>3, <3>2, <3>3
    <3> QED BY <3>1, <3>2, <3>4, <3>5
  <2>5. p[n + 1] = h \o DaysFrom(d, n) BY <1>9, <2>2
  <2>6. Append(h \o DaysFrom(d, n), d + n) = h \o DaysFrom(d, n + 1) BY <1>7, DaysGrow
  <2> QED BY <2>2, <2>4, <2>5, <2>6
<1> HIDE DEF T
<1>10. \A n \in Nat : n \in T BY <1>8, <1>9, Induction
<1>11. p[MaxDays] = h \o DaysFrom(d, MaxDays - 1)
  <2>0. MaxDays - 1 \in Nat /\ MaxDays - 1 + 1 = MaxDays BY DaysAssumption
  <2>1. MaxDays - 1 \in T BY <1>10, <2>0
  <2> QED BY <2>0, <2>1 DEF T
<1>12. CollectPrograms(sched).programs = p[MaxDays]
  <2>1. CollectPrograms(sched) = [sched EXCEPT !.programs = p[MaxDays]] BY <1>2 DEF Collects
  <2> QED BY <2>1 DEF Schedules
<1> QED BY <1>5, <1>11, <1>12

(***************************************************************************)
(* A feed brings the days.                                                  *)
(***************************************************************************)
(* What collect_programs() answers with after a complete feed.              *)
Brought(after, before, d, quiet) ==
    LET days == DaysFrom(d, MaxDays - 1) IN
    /\ after = days \/ (after # <<>> /\ Tail(after) = days)
    /\ quiet /\ after # days => Head(after) < d
    /\ quiet /\ d - 1 \in Range(before) => d - 1 \in Range(after)
LEMMA CompleteFeed ==
    ASSUME NEW sched \in Schedules, NEW d \in Nat, d >= 1, NEW quiet \in BOOLEAN,
           \A k \in 0..(MaxDays - 2) : sched.units[SlotOf(sched, k)] = d + k,
           quiet => AnchoredTo(sched, d) /\ Settled(sched, d)
    PROVE  Brought(CollectPrograms(sched).programs, sched.programs, d, quiet)
<1>1. PICK i, b, days, after :
         /\ i = SlotOf(sched, -1) /\ b = sched.units[i] /\ days = DaysFrom(d, MaxDays - 1)
         /\ after = (IF b = 0 THEN <<>> ELSE <<b>>) \o days
  OBVIOUS
<1>2. CollectPrograms(sched).programs = after BY <1>1, CollectedDays
<1>3. sched.units \in [Slots -> Nat] /\ i \in Slots /\ b \in Nat /\ sched.start \in Int
  <2>1. sched.units \in [Slots -> Nat] /\ sched.start \in Int
    BY DatesAreNaturals DEF Schedules, Units, Slots
  <2>2. i \in Slots BY <1>1, SlotIsTyped
  <2> QED BY <1>1, <2>1, <2>2
<1>4. days \in Seq(Nat) BY <1>1, DaysAssumption DEF DaysFrom
<1>5. CASE b = 0
  <2>1. after = days BY <1>1, <1>4, <1>5
  <2>2. ASSUME quiet, d - 1 \in Range(sched.programs) PROVE d - 1 = b /\ b # 0
    <3>1. PICK n \in DOMAIN sched.programs : sched.programs[n] = d - 1 BY <2>2 DEF Range
    <3>2. d - 1 # 0 /\ \E j \in Slots : sched.units[j] = d - 1
      <4>1. d - 1 >= d - 1 OBVIOUS
      <4> QED BY <2>2, <3>1, <4>1 DEF Settled, Remembers
    <3>3. PICK j \in Slots : sched.units[j] = d - 1 BY <3>2
    <3>4. SlotOf(sched, d - 1 - d) = j BY <2>2, <3>2, <3>3 DEF AnchoredTo
    <3>5. d - 1 - d = -1 OBVIOUS
    <3>6. j = i BY <1>1, <3>4, <3>5
    <3> QED BY <1>1, <3>2, <3>3, <3>6
  <2> QED BY <1>1, <1>2, <1>5, <2>1, <2>2 DEF Brought
<1>6. CASE b # 0
  <2>1. after # <<>> /\ Head(after) = b /\ Tail(after) = days /\ 1 \in DOMAIN after /\ after[1] = b
    <3>1. after = <<b>> \o days /\ <<b>> \in Seq(Nat) BY <1>1, <1>3, <1>6
    <3> QED BY <1>4, <3>1
  <2>2. ASSUME quiet PROVE b < d
    <3>1. SlotOf(sched, b - d) = i BY <1>1, <1>3, <1>6, <2>2 DEF AnchoredTo
    <3>2. b <= d + MaxDays - 2 BY <1>1, <1>3, <2>2 DEF Settled, NotAhead
    <3>3. SUFFICES ASSUME b >= d PROVE FALSE BY <1>3
    <3>4. PICK y, z : y = b - d /\ z = sched.start OBVIOUS
    <3>5. y \in Int /\ z \in Int /\ y - (-1) < MaxDays /\ -1 - y < MaxDays
      BY <1>3, <3>2, <3>3, <3>4, DaysAssumption
    <3>6. (z + y) % MaxDays = (z + (-1)) % MaxDays BY <1>1, <3>1, <3>4 DEF SlotOf
    <3>7. y = -1 BY <3>5, <3>6, SlotsDiffer
    <3> QED BY <1>3, <3>3, <3>4, <3>7
  <2>3. ASSUME quiet, d - 1 \in Range(sched.programs) PROVE d - 1 \in Range(after)
    <3>1. PICK n \in DOMAIN sched.programs : sched.programs[n] = d - 1 BY <2>3 DEF Range
    <3>2. d - 1 # 0 /\ \E j \in Slots : sched.units[j] = d - 1
      <4>1. d - 1 >= d - 1 OBVIOUS
      <4> QED BY <2>3, <3>1, <4>1 DEF Settled, Remembers
    <3>3. PICK j \in Slots : sched.units[j] = d - 1 BY <3>2
    <3>4. SlotOf(sched, d - 1 - d) = j BY <2>3, <3>2, <3>3 DEF AnchoredTo
    <3>5. d - 1 - d = -1 OBVIOUS
    <3>6. j = i BY <1>1, <3>4, <3>5
    <3>7. d - 1 = b BY <1>1, <3>3, <3>6
    <3> QED BY <2>1, <3>7 DEF Range
  <2> QED BY <1>1, <1>2, <2>1, <2>2, <2>3 DEF Brought
<1> QED BY <1>5, <1>6

(* A step that takes the first message off the mail is its handler.         *)
LEMMA OnlyHandlersReceive ==
    ASSUME TypeInv, ScanInv, [Next]_vars, up', mail # <<>>, Head(mail).kind = "FlushSchedule", mail' = Tail(mail)
    PROVE  FlushSchedule
<1> USE DEF epgVars, jobVars, subVars
<1>1. \A m \in Seq(Messages) : m # <<>> =>
         Tail(m) # m /\ \A l \in Seq(Messages) : Tail(m) # m \o l
  <2>1. \A m \in Seq(Messages) : m # <<>> => Len(Tail(m)) = Len(m) - 1 /\ Len(m) \in Nat OBVIOUS
  <2>2. \A m, l \in Seq(Messages) : Len(m \o l) = Len(m) + Len(l) /\ Len(l) \in Nat OBVIOUS
  <2>3. \A m, l \in Seq(Messages) : m # <<>> => Len(Tail(m)) # Len(m \o l) BY <2>1, <2>2
  <2>4. \A m \in Seq(Messages) : m # <<>> => Len(Tail(m)) # Len(m) BY <2>1
  <2> QED BY <2>3, <2>4
<1>2. CASE Handle
  BY <1>2 DEF Handle, UpdateServices, UpdateClocks, PrepareSchedule, UpdateSchedule, SaveSchedules, Receive
<1>3. mail' # mail BY <1>1 DEF TypeInv
<1>4. ~\E l \in Seq(Messages) : mail' = mail \o l BY <1>1 DEF TypeInv
<1>5. ~Job
  <2>1. \A m \in Messages : <<m>> \in Seq(Messages) OBVIOUS
  <2> QED BY <1>3, <1>4, <2>1, JobSteps
<1>6. ~FeederStep
  <2>1. ~(QueryServices \/ Tune \/ NoTuner \/ ReadError)
    BY <1>3 DEF QueryServices, Tune, NoTuner, ReadError
  <2>2. ~(Feed \/ Flush) BY <1>4, FeederPosts
  <2> QED BY <2>1, <2>2 DEF FeederStep
<1>7. ~(ProgramsUpdated \/ Midnight \/ Started \/ UNCHANGED vars)
  BY <1>3 DEF ProgramsUpdated, Midnight, Started, vars
<1>8. ~Crash BY DEF Crash
<1> QED BY <1>2, <1>5, <1>6, <1>7, <1>8 DEF Next

LEMMA FlushBrings ==
    ASSUME TypeInv, FeedInv, RingInv, FlushSchedule, NEW s, NEW fed,
           s = Head(mail).arg.s, fed = Head(mail).arg.fed, Complete(fed, day), s \in DOMAIN schedules'
    PROVE  Brought(schedules'[s].programs, QueryPrograms(s), day, ~crossed)
<1>0. DOMAIN schedules \subseteq Services /\ schedules \in [DOMAIN schedules -> Schedules] /\ day \in Nat /\ day >= 1
  BY PartialIs DEF TypeInv
<1>1. /\ 1 \in DOMAIN mail /\ Head(mail) = mail[1] /\ mail[1].kind = "FlushSchedule"
  BY TailShifts DEF FlushSchedule
<1>2. FlushOf(1, s, fed) BY <1>1 DEF FlushOf, Kind
<1>3. s \in DOMAIN schedules /\ schedules'[s] = CollectPrograms(schedules[s])
  BY <1>1 DEF FlushSchedule
<1>4. PICK sched \in Schedules : sched = schedules[s] BY <1>0, <1>3
<1>5. Brings(s, fed, 1) BY <1>1, <1>2 DEF FeedInv
<1>6. ASSUME NEW k \in 0..(MaxDays - 2) PROVE sched.units[SlotOf(sched, k)] = day + k
  <2>1. PICK e \in fed : e.k = k /\ e.day = day BY DEF Complete
  <2>2. \A x \in fed : x.day <= day BY <1>5 DEF Brings
  <2>3. Waits(s, e, 1) \/ Stands(s, e, 1) BY <1>5, <2>1, <2>2 DEF Brings
  <2>4. ~Waits(s, e, 1) BY DEF Waits
  <2>5. schedules[s].units[Slot(s, k)] = day + k BY <1>3, <2>1, <2>3, <2>4 DEF Stands
  <2> QED BY <1>4, <2>5 DEF Slot
<1>7. ASSUME ~crossed PROVE AnchoredTo(sched, day) /\ Settled(sched, day)
  <2>1. Prepared(s, 1) BY <1>1, <1>2, <1>7 DEF RingInv, PreparedInv
  <2>2. AnchoredTo(sched, day) BY <1>3, <1>4, <2>1 DEF Prepared
  <2> QED BY <1>3, <1>4, <1>7, <2>2 DEF RingInv, SettledInv
<1>8. PICK quiet \in BOOLEAN, d \in Nat : quiet = (~crossed) /\ d = day BY <1>0
<1>9. Brought(CollectPrograms(sched).programs, sched.programs, d, quiet)
  BY <1>0, <1>6, <1>7, <1>8, CompleteFeed
<1> QED BY <1>3, <1>4, <1>8, <1>9 DEF QueryPrograms, Brought

(* A feed that brings all the days broadcast leaves exactly these days behind the*)
(* slot of the day before, in order, and keeps yesterday if it was known, for*)
(* every size of the ring and every order of messages.                      *)
THEOREM FeedsBring == Spec => FeedsBringTheDays
<1> DEFINE A ==
      up' /\ mail # <<>> /\ Head(mail).kind = "FlushSchedule" /\ mail' = Tail(mail) =>
         LET a == Head(mail).arg
             days == [k \in 1..(MaxDays - 1) |-> day + k - 1]
             before == QueryPrograms(a.s)
             after == IF a.s \in DOMAIN schedules' THEN schedules'[a.s].programs ELSE <<>>
         IN  Complete(a.fed, day) /\ a.s \in DOMAIN schedules' =>
                /\ after = days \/ (after # <<>> /\ Tail(after) = days)
                /\ ~crossed /\ after # days => Head(after) < day
                /\ ~crossed /\ day - 1 \in Range(before) => day - 1 \in Range(after)
<1>1. TypeInv /\ ScanInv /\ FeedInv /\ RingInv /\ [Next]_vars => A
  <2> SUFFICES ASSUME TypeInv, ScanInv, FeedInv, RingInv, [Next]_vars,
                      up', mail # <<>>, Head(mail).kind = "FlushSchedule", mail' = Tail(mail)
               PROVE  A
    OBVIOUS
  <2>1. FlushSchedule BY OnlyHandlersReceive
  <2>2. PICK s, fed : s = Head(mail).arg.s /\ fed = Head(mail).arg.fed OBVIOUS
  <2>3. Complete(fed, day) /\ s \in DOMAIN schedules' => Brought(schedules'[s].programs, QueryPrograms(s), day, ~crossed)
    BY <2>1, <2>2, FlushBrings
  <2> QED BY <2>2, <2>3 DEF Brought, DaysFrom
<1> QED
  BY <1>1, TypesAreKept, FlushesAreKnown, FeedsArrive, RingsSettle, PTL DEF Spec, FeedsBringTheDays
=============================================================================
