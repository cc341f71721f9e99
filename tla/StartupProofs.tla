----------------------------- MODULE StartupProofs -----------------------------
(***************************************************************************)
(* Proofs about Config and RebuildTimeshift for every configuration the    *)
(* parser can return and for every ring of a timeshift file: any number of *)
(* channels, tuners, trackers, recorders and chunks.                       *)
(***************************************************************************)
EXTENDS RebuildTimeshift, SequenceTheorems, WellFoundedInduction, TLAPS

-----------------------------------------------------------------------------
(* From the parsed configuration to the tuners.                             *)

(* What normalisation leaves of a parsed configuration.                     *)
Loadable(c) ==
    /\ c.tuners \in Seq(TunerConfig) /\ c.trackers \in Seq(TrackerConfig)
    /\ c.recorders \in Seq(RecorderConfig)
    /\ UsersDiffer(c)
Validated(c, s) == TrackersAgree(c) /\ RecordersAgree(c) /\ (s => UniqueTuners(c))
ConfigInv ==
    /\ phase = "parsed" => config \in Inputs
    /\ Loadable(config)
    /\ phase \in {"loaded", "started"} => skip \/ Validated(config, server)
    /\ phase = "started" => server /\ tuners = LoadTuners(config)

LEMMA InputsAreLoadable == \A c \in Inputs : Loadable(c) /\ Loadable(Normalize(c))
<1> SUFFICES ASSUME NEW c \in Inputs PROVE Loadable(c) /\ Loadable(Normalize(c)) OBVIOUS
<1>1. c \in ParsedConfig /\ UsersDiffer(c) BY InputsAssumption
<1>2. /\ Normalize(c).tuners = c.tuners /\ Normalize(c).trackers = c.trackers
      /\ Normalize(c).recorders = c.recorders
  BY <1>1 DEF ParsedConfig, Normalize
<1> QED BY <1>1, <1>2 DEF Loadable, ParsedConfig, UsersDiffer

LEMMA ConfigInit == config \in Inputs /\ Parsed => ConfigInv
BY InputsAreLoadable DEF Parsed, ConfigInv

LEMMA ConfigStep ==
    ASSUME ConfigInv, [Next]_vars
    PROVE  ConfigInv'
<1>1. CASE LoadFile
  <2>1. PICK c : c = config' OBVIOUS
  <2>2. Loadable(c) BY <1>1, <2>1, InputsAreLoadable DEF ConfigInv, LoadFile
  <2> QED BY <1>1, <2>1, <2>2 DEF ConfigInv, LoadFile
<1>2. CASE Validate
  <2>1. IsValid(config) => Validated(config, server)
    BY DEF IsValid, ValidForServer, Validated
  <2> QED BY <1>2, <2>1 DEF ConfigInv, Validate
<1>3. CASE Start
  BY <1>3 DEF ConfigInv, Start
<1>4. CASE UNCHANGED vars
  BY <1>4 DEF ConfigInv, vars
<1> QED
  BY <1>1, <1>2, <1>3, <1>4 DEF Next

LEMMA FirstOf ==
    ASSUME NEW I \in SUBSET Nat, I # {}
    PROVE  First(I) \in I /\ \A j \in I : First(I) <= j
<1>1. PICK m \in I : \A j \in I : ~(<<j, m>> \in OpToRel(<, Nat))
  <2>1. IsWellFoundedOn(OpToRel(<, Nat), Nat) BY NatLessThanWellFounded
  <2> QED BY <2>1, WFMin
<1>2. ASSUME NEW j \in I PROVE m <= j
  <2>1. j \in Nat /\ m \in Nat OBVIOUS
  <2>2. ~(j < m) BY <1>1, <2>1 DEF OpToRel
  <2> QED BY <2>1, <2>2
<1> QED
  BY <1>2 DEF First

(* Who a tuner is reserved for.                                             *)
LEMMA ReservedForTracker ==
    ASSUME NEW c, Loadable(c), TrackersAgree(c),
           NEW i \in Enabled(c.tuners), NEW k \in LocalTrackers(c),
           c.trackers[k].uses = c.tuners[i].name
    PROVE  LoadTuners(c)[i].reserved = c.trackers[k].id
<1> DEFINE local == {x \in LocalTrackers(c) : c.trackers[x].uses = c.tuners[i].name}
<1>1. c.trackers \in Seq(TrackerConfig) BY DEF Loadable
<1>2. LocalTrackers(c) \subseteq Nat BY <1>1 DEF LocalTrackers
<1>3. \A x \in local : x = k BY <1>2 DEF TrackersAgree
<1>4. local \in SUBSET Nat /\ local # {} BY <1>2
<1>5. First(local) = k BY <1>3, <1>4, FirstOf
<1>6. Reserve(c.tuners[i], c).reserved = c.trackers[k].id BY <1>4, <1>5 DEF Reserve
<1> QED BY <1>6 DEF LoadTuners

(* A tuner without a local tracker is free, or a recorder's, and dedicated  *)
(* to the channel of the first recorder that names it.                      *)
LEMMA ReservedForRecorder ==
    ASSUME NEW c, Loadable(c), NEW i \in Enabled(c.tuners),
           \A k \in LocalTrackers(c) : c.trackers[k].uses # c.tuners[i].name
    PROVE  \/ /\ \A j \in DOMAIN c.recorders : c.recorders[j].uses # c.tuners[i].name
              /\ LoadTuners(c)[i].reserved = "none" /\ LoadTuners(c)[i].channel = NoChannel
           \/ \E j \in DOMAIN c.recorders :
                 /\ c.recorders[j].uses = c.tuners[i].name
                 /\ LoadTuners(c)[i].reserved = c.recorders[j].id
                 /\ LoadTuners(c)[i].channel =
                      [type |-> c.recorders[j].type, channel |-> c.recorders[j].channel]
<1> DEFINE recs == {j \in DOMAIN c.recorders : c.recorders[j].uses = c.tuners[i].name}
<1>1. {k \in LocalTrackers(c) : c.trackers[k].uses = c.tuners[i].name} = {} OBVIOUS
<1>2. LoadTuners(c)[i] = Reserve(c.tuners[i], c) BY DEF LoadTuners
<1>3. CASE recs = {}
  <2>1. Reserve(c.tuners[i], c).reserved = "none" BY <1>1, <1>3 DEF Reserve
  <2>2. Reserve(c.tuners[i], c).channel = NoChannel BY <1>1, <1>3 DEF Reserve
  <2>3. \A j \in DOMAIN c.recorders : c.recorders[j].uses # c.tuners[i].name BY <1>3
  <2> QED BY <1>2, <2>1, <2>2, <2>3
<1>4. CASE recs # {}
  <2>1. recs \in SUBSET Nat BY DEF Loadable
  <2>2. First(recs) \in recs BY <1>4, <2>1, FirstOf
  <2>3. Reserve(c.tuners[i], c).reserved = c.recorders[First(recs)].id BY <1>1, <1>4 DEF Reserve
  <2>4. Reserve(c.tuners[i], c).channel =
          [type |-> c.recorders[First(recs)].type, channel |-> c.recorders[First(recs)].channel]
    BY <1>1, <1>4 DEF Reserve
  <2> QED BY <1>2, <2>2, <2>3, <2>4
<1> QED BY <1>3, <1>4

LEMMA TunersKeepNames ==
    ASSUME NEW c, NEW i \in Enabled(c.tuners)
    PROVE  LoadTuners(c)[i].name = c.tuners[i].name /\ LoadTuners(c)[i].types = c.tuners[i].types
BY DEF LoadTuners, Reserve

LEMMA TrackersOwn ==
    ASSUME NEW c, Loadable(c), Validated(c, TRUE), NEW k \in LocalTrackers(c)
    PROVE  \E i \in DOMAIN LoadTuners(c) :
             /\ LoadTuners(c)[i].name = c.trackers[k].uses
             /\ \A j \in DOMAIN LoadTuners(c) :
                   LoadTuners(c)[j].reserved = c.trackers[k].id <=> j = i
<1>1. PICK i \in Enabled(c.tuners) : c.tuners[i].name = c.trackers[k].uses
  BY DEF Validated, TrackersAgree, TunersNamed
<1>2. DOMAIN LoadTuners(c) = Enabled(c.tuners) BY DEF LoadTuners
<1>3. ASSUME NEW j \in Enabled(c.tuners), LoadTuners(c)[j].reserved = c.trackers[k].id
      PROVE  j = i
  <2>1. CASE \E x \in LocalTrackers(c) : c.trackers[x].uses = c.tuners[j].name
    <3>1. PICK x \in LocalTrackers(c) : c.trackers[x].uses = c.tuners[j].name BY <2>1
    <3>2. c.trackers[x].id = c.trackers[k].id
      BY <1>3, <3>1, ReservedForTracker DEF Validated
    <3>3. x = k BY <3>2 DEF Loadable, UsersDiffer, LocalTrackers
    <3> QED BY <1>1, <3>1, <3>3 DEF Validated, UniqueTuners, Enabled
  <2>2. CASE \A x \in LocalTrackers(c) : c.trackers[x].uses # c.tuners[j].name
    <3>1. \/ c.trackers[k].id = "none"
          \/ \E y \in DOMAIN c.recorders : c.trackers[k].id = c.recorders[y].id
      <4>1. LoadTuners(c)[j].reserved = c.trackers[k].id BY <1>3
      <4>2. \/ LoadTuners(c)[j].reserved = "none"
            \/ \E y \in DOMAIN c.recorders : LoadTuners(c)[j].reserved = c.recorders[y].id
        BY <2>2, ReservedForRecorder
      <4> QED BY <4>1, <4>2
    <3> QED BY <3>1 DEF Loadable, UsersDiffer, LocalTrackers
  <2> QED BY <2>1, <2>2
<1>4. LoadTuners(c)[i].reserved = c.trackers[k].id
  BY <1>1, ReservedForTracker DEF Validated
<1>5. LoadTuners(c)[i].name = c.trackers[k].uses BY <1>1, TunersKeepNames
<1> QED BY <1>1, <1>2, <1>3, <1>4, <1>5

LEMMA RecordersOwn ==
    ASSUME NEW c, Loadable(c), RecordersAgree(c), NEW r \in Values(c.recorders)
    PROVE  \E t \in Values(LoadTuners(c)) : t.name = r.uses /\ t.channel # NoChannel
<1>1. PICK i \in Enabled(c.tuners) : c.tuners[i].name = r.uses
  BY DEF RecordersAgree, TunersNamed
<1>2. \A k \in LocalTrackers(c) : c.trackers[k].uses # c.tuners[i].name
  BY <1>1 DEF RecordersAgree
<1>3. PICK j \in DOMAIN c.recorders : LoadTuners(c)[i].channel =
          [type |-> c.recorders[j].type, channel |-> c.recorders[j].channel]
  BY <1>1, <1>2, ReservedForRecorder DEF Values
<1>4. c.recorders[j].type \in ChannelTypes
  <2>1. c.recorders[j] \in RecorderConfig BY DEF Loadable
  <2> QED BY <2>1 DEF RecorderConfig
<1>5. LoadTuners(c)[i].channel # NoChannel BY <1>3, <1>4 DEF NoChannel, ChannelTypes
<1>6. LoadTuners(c)[i] \in Values(LoadTuners(c)) BY DEF Values, LoadTuners
<1> QED BY <1>1, <1>5, <1>6, TunersKeepNames

(* The channel of a recorder is one its tuner can receive.                  *)
LEMMA ChannelsFit ==
    ASSUME NEW c, Loadable(c), Validated(c, TRUE), NEW t \in Values(LoadTuners(c)),
           t.channel # NoChannel
    PROVE  t.channel.type \in t.types
<1>1. PICK i \in Enabled(c.tuners) : t = LoadTuners(c)[i] BY DEF Values, LoadTuners
<1>2. \A k \in LocalTrackers(c) : c.trackers[k].uses # c.tuners[i].name
  <2>1. SUFFICES ASSUME NEW k \in LocalTrackers(c), c.trackers[k].uses = c.tuners[i].name PROVE FALSE
    OBVIOUS
  <2>2. {x \in LocalTrackers(c) : c.trackers[x].uses = c.tuners[i].name} # {} BY <2>1
  <2>3. Reserve(c.tuners[i], c).channel = NoChannel BY <2>2 DEF Reserve
  <2> QED BY <1>1, <2>3 DEF LoadTuners
<1>3. PICK j \in DOMAIN c.recorders :
        /\ c.recorders[j].uses = c.tuners[i].name
        /\ t.channel = [type |-> c.recorders[j].type, channel |-> c.recorders[j].channel]
  BY <1>1, <1>2, ReservedForRecorder
<1> DEFINE named == TunersNamed(c, c.tuners[i].name)
<1>4. c.recorders[j] \in Values(c.recorders) BY DEF Values
<1>5. c.recorders[j].type \in c.tuners[First(named)].types
  BY <1>3, <1>4 DEF Validated, RecordersAgree
<1>6. named \in SUBSET Nat /\ i \in named
  BY DEF TunersNamed, Enabled, Loadable
<1>7. First(named) \in named BY <1>6, FirstOf
<1>8. First(named) = i BY <1>7 DEF TunersNamed, Validated, UniqueTuners, Enabled
<1> QED BY <1>1, <1>3, <1>5, <1>8, TunersKeepNames

LEMMA OwnersFollow == ConfigInv => TrackersOwnATuner /\ TunersLoad
<1> SUFFICES ASSUME ConfigInv, phase = "started", ~skip
             PROVE  TrackersOwnATuner /\ TunersLoad
  BY DEF TrackersOwnATuner, TunersLoad
<1>1. Loadable(config) /\ Validated(config, TRUE) /\ tuners = LoadTuners(config)
  BY DEF ConfigInv, Validated
<1>2. TrackersOwnATuner
  BY <1>1, TrackersOwn, RecordersOwn DEF TrackersOwnATuner, Validated
<1>3. TunersLoad
  BY <1>1, ChannelsFit DEF TunersLoad
<1> QED BY <1>2, <1>3

LEMMA ConfigIsKept == RebuildSpec => []ConfigInv
<1>1. RebuildInit => ConfigInv
  BY ConfigInit DEF RebuildInit, CommandParsed
<1>2. ASSUME ConfigInv, [RebuildNext]_rebuildVars PROVE ConfigInv'
  <2>1. CASE Scan \/ Rebuild \/ Cancel
    <3>1. phase' \notin {"parsed", "loaded", "started"}
      BY <2>1 DEF Scan, Rebuild, Cancel
    <3>2. config' = config BY <2>1 DEF Scan, Rebuild, Cancel
    <3> QED BY <1>2, <3>1, <3>2 DEF ConfigInv
  <2>2. CASE LoadFile \/ Validate \/ Start
    BY <1>2, <2>2, ConfigStep DEF Next
  <2>3. CASE UNCHANGED rebuildVars
    BY <1>2, <2>3, ConfigStep DEF rebuildVars
  <2> QED BY <1>2, <2>1, <2>2, <2>3 DEF RebuildNext
<1> QED BY <1>1, <1>2, PTL DEF RebuildSpec

(* A configuration that passed the validation gives each local tracker one  *)
(* tuner, reserved for it and for nothing else, and each recorder a tuner   *)
(* with a channel (TunerManager::load_tuners()).                            *)
THEOREM TrackersHaveTuners == RebuildSpec => []TrackersOwnATuner
BY ConfigIsKept, OwnersFollow, PTL

(* The assertion of Tuner::set_channel_user() never fails.                  *)
THEOREM TunersAreLoaded == RebuildSpec => []TunersLoad
BY ConfigIsKept, OwnersFollow, PTL

-----------------------------------------------------------------------------
(* Induction over data, and recursive functions over the first n numbers.   *)
LEMMA Induction ==
    ASSUME NEW T, 0 \in T, \A k \in Nat : k \in T => k + 1 \in T
    PROVE  \A k \in Nat : k \in T
<1> DEFINE bad == {k \in Nat : k \notin T}
<1>1. SUFFICES ASSUME bad # {} PROVE FALSE OBVIOUS
<1>2. PICK m \in bad : \A k \in bad : ~(<<k, m>> \in OpToRel(<, Nat))
  <2>1. IsWellFoundedOn(OpToRel(<, Nat), Nat) BY NatLessThanWellFounded
  <2>2. bad \subseteq Nat OBVIOUS
  <2> QED BY <1>1, <2>1, <2>2, WFMin
<1>3. m \in Nat /\ m # 0 /\ m - 1 \in Nat /\ m - 1 < m OBVIOUS
<1>4. m - 1 \notin T
  <2>1. m - 1 \in T => m - 1 + 1 \in T BY <1>3
  <2>2. m - 1 + 1 = m BY <1>3
  <2> QED BY <2>1, <2>2
<1> QED BY <1>2, <1>3, <1>4 DEF OpToRel

(* A recursive function over the first n numbers exists.                    *)
Iterates(step, base, n, S) ==
    \E g \in [0..n -> S] : g[0] = base /\ \A i \in 1..n : g[i] = step[<<i, g[i - 1]>>]
LEMMA FiniteRecursion ==
    ASSUME NEW S, NEW base \in S, NEW n \in Nat, NEW step \in [(1..n) \X S -> S]
    PROVE  Iterates(step, base, n, S)
<1> DEFINE Is(g, m) == g[0] = base /\ \A i \in 1..m : g[i] = step[<<i, g[i - 1]>>]
<1> DEFINE T == {m \in Nat : m <= n => \E g \in [0..m -> S] : Is(g, m)}
<1>1. 0 \in T
  <2> DEFINE g == [i \in 0..0 |-> base]
  <2>1. g \in [0..0 -> S] /\ Is(g, 0) OBVIOUS
  <2> QED BY <2>1
<1>2. ASSUME NEW k \in Nat, k \in T PROVE k + 1 \in T
  <2>1. SUFFICES ASSUME k + 1 <= n PROVE \E g \in [0..(k + 1) -> S] : Is(g, k + 1) OBVIOUS
  <2>2. PICK g \in [0..k -> S] : Is(g, k) BY <1>2, <2>1
  <2> DEFINE h == [i \in 0..(k + 1) |-> IF i <= k THEN g[i] ELSE step[<<k + 1, g[k]>>]]
  <2>3. step[<<k + 1, g[k]>>] \in S BY <2>1, <2>2
  <2>4. h \in [0..(k + 1) -> S] BY <2>2, <2>3
  <2>5. ASSUME NEW i \in 1..(k + 1) PROVE h[i] = step[<<i, h[i - 1]>>]
    <3>1. CASE i <= k
      <4>1. i \in 0..k /\ i - 1 \in 0..k /\ i - 1 \in 0..(k + 1) /\ i \in 1..k BY <3>1
      <4>2. g[i] = step[<<i, g[i - 1]>>] BY <2>2, <4>1
      <4>3. h[i] = g[i] /\ h[i - 1] = g[i - 1] BY <3>1, <4>1
      <4> QED BY <4>2, <4>3
    <3>2. CASE i = k + 1
      <4>1. i - 1 = k /\ k \in 0..(k + 1) /\ ~(i <= k) BY <3>2
      <4>2. h[i - 1] = g[k] /\ h[i] = step[<<k + 1, g[k]>>] BY <4>1
      <4> QED BY <3>2, <4>1, <4>2
    <3> QED BY <3>1, <3>2
  <2>6. h[0] = base BY <2>2
  <2> HIDE DEF h
  <2> QED BY <2>4, <2>5, <2>6
<1> HIDE DEF T
<1>3. n \in T BY <1>1, <1>2, Induction
<1> QED BY <1>3 DEF T, Iterates

-----------------------------------------------------------------------------
(* Merging channels.                                                        *)

LEMMA MergeType ==
    ASSUME NEW a \in ChannelConfig, NEW b \in ChannelConfig
    PROVE  /\ Merge(a, b) \in ChannelConfig
           /\ Merge(a, b).type = a.type /\ Merge(a, b).channel = a.channel
           /\ Merge(a, b).disabled = a.disabled
           /\ Merge(a, b).excluded = a.excluded \union b.excluded
           /\ Merge(a, b).services = IF a.services = {} \/ b.services = {} THEN {}
                                     ELSE a.services \union b.services
BY DEF ChannelConfig, Merge

LEMMA AddChannelType ==
    ASSUME NEW done \in Seq(ChannelConfig), NEW ch \in ChannelConfig
    PROVE  AddChannel(done, ch) \in Seq(ChannelConfig)
<1> DEFINE same == {i \in DOMAIN done : SameChannel(done[i], ch)}
<1> DEFINE merged == [i \in DOMAIN done |-> IF i \in same THEN Merge(done[i], ch) ELSE done[i]]
<1>1. ASSUME NEW i \in DOMAIN done PROVE merged[i] \in ChannelConfig
  <2>1. done[i] \in ChannelConfig OBVIOUS
  <2>2. Merge(done[i], ch) \in ChannelConfig BY <2>1, MergeType
  <2> QED BY <2>1, <2>2
<1>2. merged \in [1..Len(done) -> ChannelConfig] BY <1>1
<1>3. merged \in Seq(ChannelConfig) BY <1>2
<1>4. Append(done, ch) \in Seq(ChannelConfig) OBVIOUS
<1> QED BY <1>3, <1>4 DEF AddChannel

(* The channels after the first n definitions.                              *)
Merges(m, channels) ==
    /\ m[0] = <<>>
    /\ \A n \in 1..Len(channels) :
          m[n] = IF channels[n].disabled THEN m[n - 1] ELSE AddChannel(m[n - 1], channels[n])
    /\ NormalizeChannels(channels) = m[Len(channels)]
LEMMA MergesExist ==
    ASSUME NEW channels \in Seq(ChannelConfig)
    PROVE  \E m \in [0..Len(channels) -> Seq(ChannelConfig)] : Merges(m, channels)
<1> DEFINE N == Len(channels)
           S == Seq(ChannelConfig)
           add(n, done) == IF channels[n].disabled THEN done ELSE AddChannel(done, channels[n])
           step == [x \in (1..N) \X S |-> add(x[1], x[2])]
           Is(g) == g = [n \in 0..N |-> IF n = 0 THEN <<>>
                          ELSE IF channels[n].disabled THEN g[n - 1]
                          ELSE AddChannel(g[n - 1], channels[n])]
<1>1. N \in Nat /\ \A n \in 1..N : channels[n] \in ChannelConfig OBVIOUS
<1>2. \A n \in 1..N, done \in S : add(n, done) \in S BY <1>1, AddChannelType
<1>3. step \in [(1..N) \X S -> S] BY <1>2
<1>4. PICK g \in [0..N -> S] : g[0] = <<>> /\ \A n \in 1..N : g[n] = step[<<n, g[n - 1]>>]
  <2>1. <<>> \in S OBVIOUS
  <2> HIDE DEF step, N, S
  <2>2. Iterates(step, <<>>, N, S) BY <1>1, <1>3, <2>1, FiniteRecursion
  <2> QED BY <2>2 DEF Iterates
<1>5. \A n \in 1..N : g[n] = add(n, g[n - 1])
  <2> SUFFICES ASSUME NEW n \in 1..N PROVE g[n] = add(n, g[n - 1]) OBVIOUS
  <2>1. n - 1 \in 0..N BY <1>1
  <2>2. <<n, g[n - 1]>> \in (1..N) \X S BY <1>4, <2>1
  <2>3. step[<<n, g[n - 1]>>] = add(n, g[n - 1]) BY <2>2
  <2> QED BY <1>4, <2>3
<1>6. Is(g)
  <2>1. \A n \in 0..N : n # 0 => n \in 1..N BY <1>1
  <2> HIDE DEF N, S
  <2> QED BY <1>4, <1>5, <2>1
<1> DEFINE m == CHOOSE x : Is(x)
<1>7. Is(m)
  <2> HIDE DEF Is
  <2> QED BY <1>6
<1>8. m[0] = <<>> /\ \A n \in 1..N : m[n] = add(n, m[n - 1])
  <2>1. 0 \in 0..N /\ \A n \in 1..N : n \in 0..N /\ n # 0 BY <1>1
  <2> HIDE DEF m, N
  <2> QED BY <1>7, <2>1
<1>9. m \in [0..N -> S]
  <2> DEFINE T == {k \in Nat : k <= N => m[k] \in S}
  <2>1. 0 \in T
    <3>1. <<>> \in S OBVIOUS
    <3> HIDE DEF m, N, S
    <3> QED BY <1>8, <3>1
  <2>2. ASSUME NEW k \in Nat, k \in T PROVE k + 1 \in T
    <3>1. SUFFICES ASSUME k + 1 <= N PROVE m[k + 1] \in S OBVIOUS
    <3>2. m[k] \in S /\ k + 1 \in 1..N /\ (k + 1) - 1 = k BY <1>1, <2>2, <3>1
    <3>3. m[k + 1] = add(k + 1, m[k])
      <4> HIDE DEF m, N, add
      <4> QED BY <1>8, <3>2
    <3> HIDE DEF m, N, S, add
    <3> QED BY <1>2, <3>2, <3>3
  <2> HIDE DEF T
  <2>3. \A k \in Nat : k \in T BY <2>1, <2>2, Induction
  <2>4. \A k \in 0..N : m[k] \in S BY <2>3 DEF T
  <2> QED BY <1>7, <2>4
<1>10. NormalizeChannels(channels) = m[N] BY DEF NormalizeChannels
<1> QED
  <2> HIDE DEF m
  <2> QED BY <1>8, <1>9, <1>10 DEF Merges

(* What the merged channel of a set E of definitions is.                    *)
SameAs(E, ch) == {x \in E : SameChannel(x, ch)}
MergedOf(E, ch) ==
    /\ SameAs(E, ch) # {}
    /\ ch.excluded = UNION {x.excluded : x \in SameAs(E, ch)}
    /\ ch.services = IF \E x \in SameAs(E, ch) : x.services = {} THEN {}
                     ELSE UNION {x.services : x \in SameAs(E, ch)}
Distinct(done) ==
    \A i, j \in DOMAIN done : SameChannel(done[i], done[j]) => i = j
MergedInv(E, done) ==
    /\ Distinct(done)
    /\ \A i \in DOMAIN done : ~done[i].disabled
    /\ \A x \in E : \E i \in DOMAIN done : SameChannel(x, done[i])
    /\ \A i \in DOMAIN done : MergedOf(E, done[i])

LEMMA MergeOne ==
    ASSUME NEW E \in SUBSET ChannelConfig, NEW ch \in ChannelConfig, NEW x \in ChannelConfig,
           MergedOf(E, ch), SameChannel(ch, x)
    PROVE  MergedOf(E \union {x}, Merge(ch, x))
<1> DEFINE of == SameAs(E, ch)
           c2 == Merge(ch, x)
<1>1. SameAs(E \union {x}, c2) = of \union {x}
  BY MergeType DEF SameAs, SameChannel
<1>2. c2.excluded = ch.excluded \union x.excluded BY MergeType
<1>3. c2.services = IF ch.services = {} \/ x.services = {} THEN {} ELSE ch.services \union x.services
  BY MergeType
<1>4. UNION {y.excluded : y \in of \union {x}} = c2.excluded
  BY <1>2 DEF MergedOf
<1>5. c2.services = IF \E y \in of \union {x} : y.services = {} THEN {}
                    ELSE UNION {y.services : y \in of \union {x}}
  <2>1. CASE \E y \in of : y.services = {}
    BY <1>3, <2>1 DEF MergedOf
  <2>2. CASE \A y \in of : y.services # {}
    <3>1. ch.services = UNION {y.services : y \in of} BY <2>2 DEF MergedOf
    <3>2. ch.services # {}
      <4>1. PICK y \in of : TRUE BY DEF MergedOf
      <4> QED BY <2>2, <3>1, <4>1
    <3>3. CASE x.services = {} BY <1>3, <3>3
    <3>4. CASE x.services # {}
      <4>1. ~(\E y \in of \union {x} : y.services = {}) BY <2>2, <3>4
      <4>2. UNION {y.services : y \in of \union {x}} = ch.services \union x.services BY <3>1
      <4> QED BY <1>3, <3>2, <3>4, <4>1, <4>2
    <3> QED BY <3>3, <3>4
  <2> QED BY <2>1, <2>2
<1> QED BY <1>1, <1>4, <1>5 DEF MergedOf

LEMMA AddKeeps ==
    ASSUME NEW E \in SUBSET ChannelConfig, NEW done \in Seq(ChannelConfig),
           NEW x \in ChannelConfig, ~x.disabled, MergedInv(E, done)
    PROVE  MergedInv(E \union {x}, AddChannel(done, x))
<1> DEFINE same == {i \in DOMAIN done : SameChannel(done[i], x)}
           E2 == E \union {x}
<1>1. \A i \in DOMAIN done : done[i] \in ChannelConfig OBVIOUS
<1>2. \A i \in DOMAIN done : ~SameChannel(done[i], x) => MergedOf(E2, done[i])
  <2> SUFFICES ASSUME NEW i \in DOMAIN done, ~SameChannel(done[i], x)
               PROVE  MergedOf(E2, done[i])
    OBVIOUS
  <2>1. SameAs(E2, done[i]) = SameAs(E, done[i]) BY DEF SameAs, SameChannel
  <2>2. MergedOf(E, done[i]) BY DEF MergedInv
  <2> QED BY <2>1, <2>2 DEF MergedOf
<1>3. CASE same = {}
  <2> DEFINE d == Append(done, x)
             n == Len(done)
  <2>1. AddChannel(done, x) = d BY <1>3 DEF AddChannel
  <2>2. n \in Nat /\ DOMAIN d = 1..(n + 1) /\ d[n + 1] = x /\ DOMAIN done = 1..n
    OBVIOUS
  <2>3. \A i \in DOMAIN done : d[i] = done[i] /\ ~SameChannel(done[i], x) BY <1>3
  <2>4. \A i \in DOMAIN d : i = n + 1 \/ i \in DOMAIN done BY <2>2
  <2> HIDE DEF d, n
  <2>5. SameAs(E2, x) = {x}
    BY <1>3, <2>3 DEF SameAs, SameChannel, MergedInv
  <2>6. MergedOf(E2, x)
    BY <2>5 DEF MergedOf
  <2>7. \A i \in DOMAIN d : MergedOf(E2, d[i])
    BY <1>2, <2>2, <2>3, <2>4, <2>6
  <2>8. Distinct(d)
    BY <2>2, <2>3, <2>4 DEF Distinct, MergedInv, SameChannel
  <2>9. \A i \in DOMAIN d : ~d[i].disabled
    BY <2>2, <2>3, <2>4 DEF MergedInv
  <2>10. \A y \in E2 : \E i \in DOMAIN d : SameChannel(y, d[i])
    <3> SUFFICES ASSUME NEW y \in E2 PROVE \E i \in DOMAIN d : SameChannel(y, d[i]) OBVIOUS
    <3>1. CASE y = x
      <4>1. n + 1 \in DOMAIN d BY <2>2
      <4> QED BY <2>2, <3>1, <4>1 DEF SameChannel
    <3>2. CASE y \in E
      <4>1. PICK i \in DOMAIN done : SameChannel(y, done[i]) BY <3>2 DEF MergedInv
      <4>2. i \in DOMAIN d BY <2>2
      <4> QED BY <2>3, <4>1, <4>2
    <3> QED BY <3>1, <3>2
  <2> QED BY <2>1, <2>7, <2>8, <2>9, <2>10 DEF MergedInv
<1>4. CASE same # {}
  <2> DEFINE d == [i \in DOMAIN done |-> IF i \in same THEN Merge(done[i], x) ELSE done[i]]
  <2>1. AddChannel(done, x) = d BY <1>4 DEF AddChannel
  <2>2. DOMAIN d = DOMAIN done OBVIOUS
  <2>3. ASSUME NEW i \in DOMAIN done
        PROVE  /\ d[i].type = done[i].type /\ d[i].channel = done[i].channel
               /\ d[i].disabled = done[i].disabled
               /\ MergedOf(E2, d[i])
    <3>1. CASE SameChannel(done[i], x)
      <4>1. d[i] = Merge(done[i], x) BY <3>1
      <4>2. MergedOf(E, done[i]) BY DEF MergedInv
      <4>3. done[i] \in ChannelConfig OBVIOUS
      <4> HIDE DEF d
      <4>4. MergedOf(E2, Merge(done[i], x))
        <5> PICK ch : ch = done[i] OBVIOUS
        <5> HIDE DEF same
        <5> QED BY <3>1, <4>2, <4>3, MergeOne
      <4>5. /\ Merge(done[i], x).type = done[i].type
            /\ Merge(done[i], x).channel = done[i].channel
            /\ Merge(done[i], x).disabled = done[i].disabled
        BY <4>3, MergeType
      <4> HIDE DEF E2
      <4> QED BY <4>1, <4>4, <4>5
    <3>2. CASE ~SameChannel(done[i], x)
      <4>1. d[i] = done[i] BY <3>2
      <4> HIDE DEF d
      <4> QED BY <1>2, <3>2, <4>1
    <3> QED BY <3>1, <3>2
  <2>4. PICK k \in DOMAIN done : SameChannel(done[k], x) BY <1>4
  <2> HIDE DEF d
  <2>5. Distinct(d) BY <2>2, <2>3 DEF Distinct, MergedInv, SameChannel
  <2>6. \A y \in E2 : \E i \in DOMAIN d : SameChannel(y, d[i])
    <3> SUFFICES ASSUME NEW y \in E2 PROVE \E i \in DOMAIN d : SameChannel(y, d[i]) OBVIOUS
    <3>1. \E i \in DOMAIN done : SameChannel(y, done[i])
      BY <2>4 DEF MergedInv, SameChannel
    <3> QED BY <2>2, <2>3, <3>1 DEF SameChannel
  <2>7. \A i \in DOMAIN d : ~d[i].disabled /\ MergedOf(E2, d[i])
    BY <2>2, <2>3 DEF MergedInv
  <2> QED BY <2>1, <2>5, <2>6, <2>7 DEF MergedInv
<1> QED BY <1>3, <1>4

(* The definitions among the first n that are enabled.                      *)
EnabledUpTo(channels, n) == {channels[i] : i \in {j \in Enabled(channels) : j <= n}}
LEMMA MergedTill ==
    ASSUME NEW channels \in Seq(ChannelConfig),
           NEW m \in [0..Len(channels) -> Seq(ChannelConfig)], Merges(m, channels)
    PROVE  \A n \in 0..Len(channels) : MergedInv(EnabledUpTo(channels, n), m[n])
<1> DEFINE N == Len(channels)
           T == {n \in Nat : n <= N => MergedInv(EnabledUpTo(channels, n), m[n])}
<1>0. N \in Nat /\ DOMAIN channels = 1..N /\ \A n \in 1..N : channels[n] \in ChannelConfig
  OBVIOUS
<1>1. 0 \in T
  <2>1. m[0] = <<>> BY DEF Merges
  <2>2. EnabledUpTo(channels, 0) = {} BY <1>0 DEF EnabledUpTo, Enabled
  <2> QED BY <2>1, <2>2 DEF MergedInv, Distinct
<1>2. ASSUME NEW n \in Nat, n \in T PROVE n + 1 \in T
  <2>1. SUFFICES ASSUME n + 1 <= N
                 PROVE  MergedInv(EnabledUpTo(channels, n + 1), m[n + 1])
    OBVIOUS
  <2>2. n + 1 \in 1..N /\ (n + 1) - 1 = n /\ n \in 0..N BY <1>0, <2>1
  <2> DEFINE x == channels[n + 1]
             E == EnabledUpTo(channels, n)
  <2>3. m[n + 1] = IF x.disabled THEN m[n] ELSE AddChannel(m[n], x)
    <3>1. m[n + 1] = IF x.disabled THEN m[(n + 1) - 1] ELSE AddChannel(m[(n + 1) - 1], x)
      BY <2>2 DEF Merges
    <3> QED BY <2>2, <3>1
  <2>4. MergedInv(E, m[n]) BY <1>2, <2>1
  <2>5. E \in SUBSET ChannelConfig BY <1>0 DEF EnabledUpTo, Enabled
  <2>6. m[n] \in Seq(ChannelConfig) /\ x \in ChannelConfig BY <1>0, <2>2
  <2>7. \A i \in 1..N : i <= n + 1 <=> (i <= n \/ i = n + 1) BY <1>0
  <2>8. CASE x.disabled
    <3>1. EnabledUpTo(channels, n + 1) = E
      BY <1>0, <2>7, <2>8 DEF EnabledUpTo, Enabled
    <3> QED BY <2>3, <2>4, <2>8, <3>1
  <2>9. CASE ~x.disabled
    <3>1. EnabledUpTo(channels, n + 1) = E \union {x}
      BY <1>0, <2>2, <2>7, <2>9 DEF EnabledUpTo, Enabled
    <3> HIDE DEF x, E
    <3> QED BY <2>3, <2>4, <2>5, <2>6, <2>9, <3>1, AddKeeps
  <2> QED BY <2>8, <2>9
<1> HIDE DEF T
<1>3. \A n \in Nat : n \in T BY <1>1, <1>2, Induction
<1> QED BY <1>0, <1>3 DEF T

(* Merging the merged channels again changes nothing.                       *)
LEMMA MergedStay ==
    ASSUME NEW channels \in Seq(ChannelConfig), Distinct(channels),
           \A i \in DOMAIN channels : ~channels[i].disabled
    PROVE  NormalizeChannels(channels) = channels
<1> DEFINE N == Len(channels)
<1>0. N \in Nat /\ DOMAIN channels = 1..N /\ \A n \in 1..N : channels[n] \in ChannelConfig
  OBVIOUS
<1>1. PICK m \in [0..N -> Seq(ChannelConfig)] : Merges(m, channels) BY MergesExist
<1> DEFINE first(n) == [i \in 1..n |-> channels[i]]
           T == {n \in Nat : n <= N => m[n] = first(n)}
<1>2. 0 \in T
  <2>1. m[0] = <<>> BY <1>1 DEF Merges
  <2>2. first(0) = <<>> OBVIOUS
  <2> QED BY <2>1, <2>2
<1>3. ASSUME NEW n \in Nat, n \in T PROVE n + 1 \in T
  <2>1. SUFFICES ASSUME n + 1 <= N PROVE m[n + 1] = first(n + 1) OBVIOUS
  <2>2. n + 1 \in 1..N /\ (n + 1) - 1 = n BY <1>0, <2>1
  <2>3. m[n + 1] = AddChannel(m[n], channels[n + 1])
    <3>1. ~channels[n + 1].disabled BY <1>0, <2>2
    <3>2. m[n + 1] = AddChannel(m[(n + 1) - 1], channels[n + 1]) BY <1>1, <2>2, <3>1 DEF Merges
    <3> QED BY <2>2, <3>2
  <2>4. m[n] = first(n) BY <1>3, <2>1
  <2>5. ~\E i \in 1..n : SameChannel(channels[i], channels[n + 1])
    <3> SUFFICES ASSUME NEW i \in 1..n, SameChannel(channels[i], channels[n + 1]) PROVE FALSE
      OBVIOUS
    <3>1. i \in 1..N /\ i # n + 1 BY <1>0, <2>1
    <3> QED BY <1>0, <2>2, <3>1 DEF Distinct
  <2>6. {i \in DOMAIN first(n) : SameChannel(first(n)[i], channels[n + 1])} = {} BY <2>5
  <2>7. m[n + 1] = Append(first(n), channels[n + 1])
    BY <2>3, <2>4, <2>6 DEF AddChannel
  <2>8. first(n) \in Seq(ChannelConfig)
    <3>1. \A i \in 1..n : channels[i] \in ChannelConfig BY <1>0, <2>1
    <3> QED BY <3>1
  <2>9. Append(first(n), channels[n + 1]) = first(n + 1)
    <3>1. Len(first(n)) = n OBVIOUS
    <3> QED BY <2>8, <3>1
  <2> QED BY <2>7, <2>9
<1> HIDE DEF T
<1>4. N \in T BY <1>0, <1>2, <1>3, Induction
<1>5. m[N] = first(N) BY <1>0, <1>4 DEF T
<1>6. first(N) = channels BY <1>0
<1> QED BY <1>1, <1>5, <1>6 DEF Merges

LEMMA Merging ==
    ASSUME NEW channels \in Seq(ChannelConfig), NEW services,
           \A ch \in Values(channels) : ch.services \subseteq services
    PROVE  ChannelsAreMerged(channels, services)
<1> DEFINE N == Len(channels)
           E == {channels[i] : i \in Enabled(channels)}
           M == NormalizeChannels(channels)
<1>0. N \in Nat /\ DOMAIN channels = 1..N /\ \A n \in 1..N : channels[n] \in ChannelConfig
  OBVIOUS
<1>1. PICK m \in [0..N -> Seq(ChannelConfig)] : Merges(m, channels) BY MergesExist
<1>2. M = m[N] /\ N \in 0..N BY <1>0, <1>1 DEF Merges
<1>3. EnabledUpTo(channels, N) = E BY <1>0 DEF EnabledUpTo, Enabled
<1>4. MergedInv(E, M) /\ M \in Seq(ChannelConfig)
  <2>1. MergedInv(EnabledUpTo(channels, N), m[N]) BY <1>1, <1>2, MergedTill
  <2> HIDE DEF E, M, N
  <2> QED BY <1>2, <1>3, <2>1
<1>5. \A x \in E : x.services \subseteq services BY DEF Values, Enabled
<1> HIDE DEF E, M, N
<1>6. \A x \in E : \E ch \in Values(M) : SameChannel(x, ch)
  BY <1>4 DEF MergedInv, Values
<1>7. ASSUME NEW ch \in Values(M)
      PROVE  Admits(ch, services) = (UNION {Admits(x, services) : x \in SameAs(E, ch)})
                                      \ (UNION {x.excluded : x \in SameAs(E, ch)})
  <2> DEFINE of == SameAs(E, ch)
             excl == UNION {x.excluded : x \in of}
  <2>1. MergedOf(E, ch) BY <1>4 DEF MergedInv, Values
  <2>2. ch.excluded = excl /\ of # {} BY <2>1 DEF MergedOf
  <2>3. \A x \in of : x.services \subseteq services BY <1>5 DEF SameAs
  <2>4. \A x \in of : x.excluded \subseteq excl OBVIOUS
  <2>5. CASE \E x \in of : x.services = {}
    <3>1. ch.services = {} BY <2>1, <2>5 DEF MergedOf
    <3>2. PICK x \in of : x.services = {} BY <2>5
    <3>3. Admits(ch, services) = services \ excl BY <2>2, <3>1 DEF Admits
    <3>4. services \ excl \subseteq Admits(x, services) BY <2>4, <3>2 DEF Admits
    <3>5. \A y \in of : Admits(y, services) \subseteq services BY <2>3 DEF Admits
    <3> HIDE DEF of, excl
    <3> QED BY <3>2, <3>3, <3>4, <3>5 DEF of, excl
  <2>6. CASE \A x \in of : x.services # {}
    <3>1. ch.services = UNION {x.services : x \in of} BY <2>1, <2>6 DEF MergedOf
    <3>2. ch.services # {}
      <4>1. PICK x \in of : TRUE BY <2>2
      <4> QED BY <2>6, <3>1, <4>1
    <3>3. Admits(ch, services) = (UNION {x.services : x \in of}) \ excl
      BY <2>2, <3>1, <3>2 DEF Admits
    <3>4. \A x \in of : Admits(x, services) = x.services \ x.excluded BY <2>6 DEF Admits
    <3>5. (UNION {x.services : x \in of}) \ excl = (UNION {Admits(x, services) : x \in of}) \ excl
      BY <3>4
    <3> QED BY <3>3, <3>5
  <2> QED BY <2>5, <2>6
<1>8. NormalizeChannels(M) = M BY <1>4, MergedStay DEF MergedInv
<1> QED BY <1>6, <1>7, <1>8 DEF ChannelsAreMerged, SameAs, E, M

(* Merging the definitions of each channel loses no service that is not     *)
(* excluded and adds none (ChannelConfig::normalize()).                     *)
THEOREM MergingKeeps == RebuildSpec => []MergingKeepsServices
<1>1. ConfigInv => MergingKeepsServices
  <2> SUFFICES ASSUME ConfigInv, phase = "parsed" PROVE MergingKeepsServices
    BY DEF MergingKeepsServices
  <2> DEFINE services == {-1} \union UNION {ch.services \union ch.excluded :
                                              ch \in Values(config.channels)}
  <2>1. config \in ParsedConfig BY InputsAssumption DEF ConfigInv
  <2>2. config.channels \in Seq(ChannelConfig) BY <2>1 DEF ParsedConfig
  <2>3. \A ch \in Values(config.channels) : ch.services \subseteq services OBVIOUS
  <2> HIDE DEF services
  <2>4. ChannelsAreMerged(config.channels, services) BY <2>2, <2>3, Merging
  <2> QED BY <2>4 DEF MergingKeepsServices, services
<1> QED BY <1>1, ConfigIsKept, PTL

-----------------------------------------------------------------------------
(* The oldest chunk of a ring.                                              *)

LEMMA Remainder ==
    ASSUME NEW n \in Nat, n > 0, NEW q \in Int, NEW r \in 0..(n - 1)
    PROVE  (q * n + r) % n = r
OBVIOUS
(* The chunk at a position of a ring that begins at chunk b.                *)
LEMMA Around ==
    ASSUME NEW n \in Nat, n > 0, NEW b \in Chunks(n), NEW i \in 0..n
    PROVE  (b + i) % n = IF b + i < n THEN b + i ELSE b + i - n
<1>1. b \in Nat /\ b < n /\ i \in Nat /\ i <= n BY DEF Chunks
<1>2. CASE b + i < n
  <2>1. b + i \in 0..(n - 1) /\ 0 * n + (b + i) = b + i BY <1>1, <1>2
  <2>2. (0 * n + (b + i)) % n = b + i BY <2>1, Remainder
  <2> QED BY <1>2, <2>1, <2>2
<1>3. CASE ~(b + i < n)
  <2>1. b + i - n \in 0..(n - 1) /\ 1 * n + (b + i - n) = b + i BY <1>1, <1>3
  <2>2. (1 * n + (b + i - n)) % n = b + i - n BY <2>1, Remainder
  <2> QED BY <1>3, <2>1, <2>2
<1> QED BY <1>2, <1>3
LEMMA AroundIsChunk ==
    ASSUME NEW n \in Nat, n > 0, NEW b \in Chunks(n), NEW i \in 0..n
    PROVE  (b + i) % n \in Chunks(n)
<1>1. b \in Nat /\ b < n /\ i \in Nat /\ i <= n BY DEF Chunks
<1>2. PICK c : c = (b + i) % n OBVIOUS
<1>3. c = IF b + i < n THEN b + i ELSE b + i - n BY <1>2, Around
<1>4. c \in Chunks(n) BY <1>1, <1>3 DEF Chunks
<1> QED BY <1>2, <1>4

(* The age of a chunk, and the order of time.                               *)
Pos(b, n, c) == IF c >= b THEN c - b ELSE c - b + n
LEMMA PosOf ==
    ASSUME NEW n \in Nat, n > 0, NEW b \in Chunks(n), NEW c \in Chunks(n)
    PROVE  Pos(b, n, c) \in Chunks(n) /\ (b + Pos(b, n, c)) % n = c
<1>1. b \in Nat /\ b < n /\ c \in Nat /\ c < n BY DEF Chunks
<1>2. PICK i : i = Pos(b, n, c) OBVIOUS
<1>3. i = IF c >= b THEN c - b ELSE c - b + n BY <1>2 DEF Pos
<1>4. i \in 0..n /\ i \in Chunks(n) BY <1>1, <1>3 DEF Chunks
<1>5. (b + i) % n = IF b + i < n THEN b + i ELSE b + i - n BY <1>4, Around
<1>6. (b + i) % n = c BY <1>1, <1>3, <1>5
<1> QED BY <1>2, <1>4, <1>6
LEMMA TimeFollowsPos ==
    ASSUME NEW cmd, cmd.n \in Nat, cmd.n > 0, NEW b \in Chunks(cmd.n), RingFrom(cmd, b),
           NEW c \in Chunks(cmd.n), NEW d \in Chunks(cmd.n)
    PROVE  cmd.T[c] < cmd.T[d] <=> Pos(b, cmd.n, c) < Pos(b, cmd.n, d)
<1>1. PICK n : n = cmd.n OBVIOUS
<1>2. PICK i : i = Pos(b, n, c) OBVIOUS
<1>3. PICK j : j = Pos(b, n, d) OBVIOUS
<1>4. i \in Chunks(n) /\ (b + i) % n = c BY <1>1, <1>2, PosOf
<1>5. j \in Chunks(n) /\ (b + j) % n = d BY <1>1, <1>3, PosOf
<1>6. i < j => cmd.T[c] < cmd.T[d] BY <1>1, <1>4, <1>5 DEF RingFrom
<1>7. j < i => cmd.T[d] < cmd.T[c] BY <1>1, <1>4, <1>5 DEF RingFrom
<1>8. i = j => c = d BY <1>4, <1>5
<1>9. cmd.T[c] \in Int /\ cmd.T[d] \in Int BY DEF RingFrom
<1>10. i \in Int /\ j \in Int BY <1>4, <1>5 DEF Chunks
<1>11. cmd.T[c] < cmd.T[d] <=> i < j
  <2>1. CASE i < j BY <1>6, <2>1
  <2>2. CASE j < i BY <1>7, <1>9, <1>10, <2>2
  <2>3. CASE i = j BY <1>8, <1>9, <1>10, <2>3
  <2> QED BY <1>10, <2>1, <2>2, <2>3
<1> QED BY <1>1, <1>2, <1>3, <1>11

(* One call of find_start_chunk().                                          *)
Halve(T, x) ==
    LET mid == x.left + (x.right - x.left) \div 2 IN
    IF x.right - x.left < 2 THEN x
    ELSE IF T[x.left] < T[mid] THEN [x EXCEPT !.left = mid] ELSE [x EXCEPT !.right = mid]
Bounds(n) == [left : Chunks(n), right : Chunks(n)]
Searches(m, T, n) ==
    /\ m[0] = [left |-> 0, right |-> n - 1]
    /\ \A k \in 1..n : m[k] = Halve(T, m[k - 1])
    /\ FindStartChunk(T, n) = m[n].right
LEMMA HalveType ==
    ASSUME NEW T, NEW n \in Nat, NEW x \in Bounds(n)
    PROVE  /\ Halve(T, x) \in Bounds(n)
           /\ x.right - x.left >= 2 =>
                 LET mid == x.left + (x.right - x.left) \div 2 IN
                 mid \in Chunks(n) /\ x.left < mid /\ mid < x.right
<1>1. x.left \in Nat /\ x.left < n /\ x.right \in Nat /\ x.right < n /\ n \in Nat
  BY DEF Bounds, Chunks
<1>2. PICK mid : mid = x.left + (x.right - x.left) \div 2 OBVIOUS
<1>3. x.right - x.left >= 2 => mid \in Nat /\ x.left < mid /\ mid < x.right
  BY <1>1, <1>2
<1>4. x.right - x.left >= 2 => mid \in Chunks(n) BY <1>1, <1>3 DEF Chunks
<1>5. /\ mid \in Chunks(n) => [x EXCEPT !.left = mid] \in Bounds(n)
      /\ mid \in Chunks(n) => [x EXCEPT !.right = mid] \in Bounds(n)
  BY DEF Bounds
<1>6. x.right - x.left < 2 \/ x.right - x.left >= 2 BY <1>1
<1>7. Halve(T, x) \in {x, [x EXCEPT !.left = mid], [x EXCEPT !.right = mid]}
  BY <1>2 DEF Halve
<1>8. x.right - x.left < 2 => Halve(T, x) = x BY DEF Halve
<1> QED BY <1>2, <1>3, <1>4, <1>5, <1>6, <1>7, <1>8

LEMMA SearchesExist ==
    ASSUME NEW T, NEW n \in Nat, n > 0
    PROVE  \E m \in [0..n -> Bounds(n)] : Searches(m, T, n)
<1> DEFINE S == Bounds(n)
           base == [left |-> 0, right |-> n - 1]
           step == [x \in (1..n) \X S |-> Halve(T, x[2])]
           Is(g) == g = [k \in 0..n |-> IF k = 0 THEN [left |-> 0, right |-> n - 1]
                          ELSE Halve(T, g[k - 1])]
<1>1. base \in S BY DEF Bounds, Chunks
<1>2. step \in [(1..n) \X S -> S] BY HalveType
<1>3. PICK g \in [0..n -> S] : g[0] = base /\ \A k \in 1..n : g[k] = step[<<k, g[k - 1]>>]
  <2> HIDE DEF step, S, base
  <2>1. Iterates(step, base, n, S) BY <1>1, <1>2, FiniteRecursion
  <2> QED BY <2>1 DEF Iterates
<1>4. \A k \in 1..n : g[k] = Halve(T, g[k - 1])
  <2> SUFFICES ASSUME NEW k \in 1..n PROVE g[k] = Halve(T, g[k - 1]) OBVIOUS
  <2>1. k - 1 \in 0..n OBVIOUS
  <2>2. <<k, g[k - 1]>> \in (1..n) \X S BY <1>3, <2>1
  <2>3. step[<<k, g[k - 1]>>] = Halve(T, g[k - 1]) BY <2>2
  <2> HIDE DEF step
  <2> QED BY <1>3, <2>3
<1>5. Is(g)
  <2>1. \A k \in 0..n : k # 0 => k \in 1..n OBVIOUS
  <2> HIDE DEF S
  <2> QED BY <1>3, <1>4, <2>1
<1> DEFINE m == CHOOSE x : Is(x)
<1>6. Is(m)
  <2> HIDE DEF Is
  <2> QED BY <1>5
<1>7. m[0] = base /\ \A k \in 1..n : m[k] = Halve(T, m[k - 1])
  <2>1. 0 \in 0..n /\ \A k \in 1..n : k \in 0..n /\ k # 0 OBVIOUS
  <2> HIDE DEF m
  <2> QED BY <1>6, <2>1
<1>8. m \in [0..n -> S]
  <2> DEFINE I == {k \in Nat : k <= n => m[k] \in S}
  <2>1. 0 \in I
    <3> HIDE DEF m, S, base
    <3> QED BY <1>1, <1>7
  <2>2. ASSUME NEW k \in Nat, k \in I PROVE k + 1 \in I
    <3>1. SUFFICES ASSUME k + 1 <= n PROVE m[k + 1] \in S OBVIOUS
    <3>2. m[k] \in S /\ k + 1 \in 1..n /\ (k + 1) - 1 = k BY <2>2, <3>1
    <3>3. m[k + 1] = Halve(T, m[k])
      <4> HIDE DEF m
      <4> QED BY <1>7, <3>2
    <3> HIDE DEF m
    <3> QED BY <3>2, <3>3, HalveType
  <2> HIDE DEF I
  <2>3. \A k \in Nat : k \in I BY <2>1, <2>2, Induction
  <2>4. \A k \in 0..n : m[k] \in S BY <2>3 DEF I
  <2> QED BY <1>6, <2>4
<1>9. FindStartChunk(T, n) = m[n].right BY DEF FindStartChunk, Halve
<1> QED
  <2> HIDE DEF m
  <2> QED BY <1>7, <1>8, <1>9 DEF Searches

(* The search keeps the oldest chunk to the right of left, and its range    *)
(* shrinks with each call.                                                  *)
Encloses(x, b, n, k) ==
    /\ x.left < b /\ b <= x.right
    /\ x.right - x.left < 2 \/ x.right - x.left <= n - 1 - k
LEMMA HalveEncloses ==
    ASSUME NEW cmd, cmd.n \in Nat, cmd.n > 0, NEW b \in Chunks(cmd.n), RingFrom(cmd, b),
           NEW x \in Bounds(cmd.n), NEW k \in Nat, Encloses(x, b, cmd.n, k)
    PROVE  Encloses(Halve(cmd.T, x), b, cmd.n, k + 1)
<1>1. PICK n : n = cmd.n OBVIOUS
<1>2. /\ x.left \in Nat /\ x.left < n /\ x.right \in Nat /\ x.right < n
      /\ n \in Nat /\ b \in Nat /\ b < n
  BY <1>1 DEF Bounds, Chunks
<1>3. CASE x.right - x.left < 2
  <2>1. Halve(cmd.T, x) = x BY <1>3 DEF Halve
  <2> QED BY <1>3, <2>1 DEF Encloses
<1>4. CASE x.right - x.left >= 2
  <2>1. PICK mid : mid = x.left + (x.right - x.left) \div 2 OBVIOUS
  <2>2. mid \in Chunks(n) /\ x.left < mid /\ mid < x.right
    BY <1>1, <1>4, <2>1, HalveType
  <2>3. mid \in Nat /\ x.left \in Chunks(n) BY <1>1, <2>2 DEF Bounds, Chunks
  <2>4. ~(x.right - x.left < 2) BY <1>2, <1>4
  <2>5. Halve(cmd.T, x) = IF cmd.T[x.left] < cmd.T[mid] THEN [x EXCEPT !.left = mid]
                          ELSE [x EXCEPT !.right = mid]
    BY <2>1, <2>4 DEF Halve
  <2>6. cmd.T[x.left] < cmd.T[mid] <=> Pos(b, n, x.left) < Pos(b, n, mid)
    BY <1>1, <2>2, <2>3, TimeFollowsPos
  <2>7. Pos(b, n, x.left) = x.left - b + n BY <1>2 DEF Pos, Encloses
  <2>8. x.right - x.left <= n - 1 - k BY <1>1, <2>4 DEF Encloses
  <2>9. CASE mid < b
    <3>1. Pos(b, n, mid) = mid - b + n BY <1>2, <2>3, <2>9 DEF Pos
    <3>2. cmd.T[x.left] < cmd.T[mid] BY <1>2, <2>2, <2>3, <2>6, <2>7, <3>1
    <3>3. Halve(cmd.T, x) = [x EXCEPT !.left = mid] BY <2>5, <3>2
    <3>4. [x EXCEPT !.left = mid].left = mid /\ [x EXCEPT !.left = mid].right = x.right
      BY DEF Bounds
    <3>5. x.right - mid <= n - 1 - (k + 1) BY <1>2, <2>2, <2>3, <2>8
    <3> QED BY <1>1, <2>9, <3>3, <3>4, <3>5 DEF Encloses
  <2>10. CASE ~(mid < b)
    <3>1. Pos(b, n, mid) = mid - b BY <1>2, <2>3, <2>10 DEF Pos
    <3>2. ~(cmd.T[x.left] < cmd.T[mid]) BY <1>2, <2>2, <2>3, <2>6, <2>7, <3>1
    <3>3. Halve(cmd.T, x) = [x EXCEPT !.right = mid] BY <2>5, <3>2
    <3>4. [x EXCEPT !.right = mid].left = x.left /\ [x EXCEPT !.right = mid].right = mid
      BY DEF Bounds
    <3>5. mid - x.left <= n - 1 - (k + 1) BY <1>2, <2>2, <2>3, <2>8
    <3>6. b <= mid BY <1>2, <2>3, <2>10
    <3> QED BY <1>1, <3>3, <3>4, <3>5, <3>6 DEF Encloses
  <2> QED BY <2>9, <2>10
<1> QED BY <1>2, <1>3, <1>4

LEMMA StartIsOldest ==
    ASSUME NEW cmd, cmd.n \in Nat, cmd.n >= MinChunks, NEW b \in Chunks(cmd.n), RingFrom(cmd, b)
    PROVE  StartChunk(cmd.T, cmd.n) = b
<1>1. PICK n : n = cmd.n OBVIOUS
<1>2. n \in Nat /\ n >= 3 /\ n > 0 /\ b \in Nat /\ b < n
  BY <1>1 DEF MinChunks, Chunks
<1>3. 0 \in Chunks(n) /\ n - 1 \in Chunks(n) BY <1>2 DEF Chunks
<1>4. cmd.T[0] < cmd.T[n - 1] <=> Pos(b, n, 0) < Pos(b, n, n - 1)
  BY <1>1, <1>2, <1>3, TimeFollowsPos
<1>5. Pos(b, n, n - 1) = n - 1 - b /\ Pos(b, n, 0) = IF b = 0 THEN 0 ELSE n - b
  BY <1>2 DEF Pos
<1>6. CASE b = 0
  <2>1. cmd.T[0] < cmd.T[n - 1] BY <1>2, <1>4, <1>5, <1>6
  <2> QED BY <1>1, <1>6, <2>1 DEF StartChunk
<1>7. CASE b # 0
  <2>1. ~(cmd.T[0] < cmd.T[n - 1]) BY <1>2, <1>4, <1>5, <1>7
  <2>2. PICK m \in [0..n -> Bounds(n)] : Searches(m, cmd.T, n) BY <1>2, SearchesExist
  <2> DEFINE I == {k \in Nat : k <= n => Encloses(m[k], b, n, k)}
  <2>3. 0 \in I
    <3>1. m[0].left = 0 /\ m[0].right = n - 1 BY <2>2 DEF Searches
    <3> QED BY <1>2, <1>7, <3>1 DEF Encloses
  <2>4. ASSUME NEW k \in Nat, k \in I PROVE k + 1 \in I
    <3>1. SUFFICES ASSUME k + 1 <= n PROVE Encloses(m[k + 1], b, n, k + 1) OBVIOUS
    <3>2. k \in 0..n /\ k + 1 \in 1..n /\ (k + 1) - 1 = k BY <1>2, <3>1
    <3>3. m[k + 1] = Halve(cmd.T, m[k])
      <4>1. m[k + 1] = Halve(cmd.T, m[(k + 1) - 1]) BY <2>2, <3>2 DEF Searches
      <4> QED BY <3>2, <4>1
    <3>4. m[k] \in Bounds(n) /\ Encloses(m[k], b, n, k) BY <2>2, <2>4, <3>2
    <3>5. Encloses(Halve(cmd.T, m[k]), b, n, k + 1)
      BY <1>1, <1>2, <3>4, HalveEncloses
    <3> QED BY <3>3, <3>5
  <2> HIDE DEF I
  <2>5. n \in I BY <1>2, <2>3, <2>4, Induction
  <2>6. Encloses(m[n], b, n, n) BY <1>2, <2>5 DEF I
  <2>7. m[n] \in Bounds(n) BY <1>2, <2>2
  <2>8. m[n].left \in Nat /\ m[n].right \in Nat BY <2>7 DEF Bounds, Chunks
  <2>9. m[n].right = b BY <1>2, <2>6, <2>8 DEF Encloses
  <2>10. FindStartChunk(cmd.T, n) = b BY <2>2, <2>9 DEF Searches
  <2> QED BY <1>1, <2>1, <2>10 DEF StartChunk
<1> QED BY <1>6, <1>7

-----------------------------------------------------------------------------
(* Ranges that follow each other around the ring.                           *)

Ranges == [seg : Nat, first : Nat, end : Nat]

(* The ranges hold the chunks at the positions p to q - 1 from chunk b on,  *)
(* the i-th range those from pos[i] on.                                     *)
RunsAt(rs, n, b, pos) ==
    \A i \in DOMAIN rs :
       /\ pos[i] < pos[i + 1]
       /\ rs[i].first = (b + pos[i]) % n
       /\ rs[i].end = rs[i].first + (pos[i + 1] - pos[i])
       /\ rs[i].end <= n
Positions(rs, n) == [1..(Len(rs) + 1) -> 0..n]
Runs(rs, n, b, p, q) ==
    /\ rs \in Seq(Ranges)
    /\ \E pos \in Positions(rs, n) :
          pos[1] = p /\ pos[Len(rs) + 1] = q /\ RunsAt(rs, n, b, pos)

LEMMA NoRuns ==
    ASSUME NEW n \in Nat, NEW b, NEW p \in 0..n
    PROVE  Runs(<<>>, n, b, p, p)
<1> DEFINE pos == [i \in 1..1 |-> p]
<1>1. pos \in Positions(<<>>, n) /\ pos[1] = p /\ pos[Len(<<>>) + 1] = p BY DEF Positions
<1>2. RunsAt(<<>>, n, b, pos) BY DEF RunsAt
<1>3. <<>> \in Seq(Ranges) OBVIOUS
<1> HIDE DEF pos
<1> QED BY <1>1, <1>2, <1>3 DEF Runs

LEMMA PushRuns ==
    ASSUME NEW n \in Nat, n > 0, NEW b \in Chunks(n), NEW rs, NEW p, NEW q \in 0..n,
           Runs(rs, n, b, p, q), NEW seg \in Nat, NEW from \in Nat, NEW to \in Nat,
           from = (b + q) % n, from <= to, to <= n, q + (to - from) <= n
    PROVE  Runs(PushRange(rs, seg, from, to), n, b, p, q + (to - from))
<1>1. CASE ~(from < to)
  <2>1. PushRange(rs, seg, from, to) = rs BY <1>1 DEF PushRange
  <2>2. q + (to - from) = q BY <1>1
  <2> QED BY <2>1, <2>2
<1>2. CASE from < to
  <2> DEFINE d == [seg |-> seg, first |-> from, end |-> to]
             rs2 == Append(rs, d)
             k == Len(rs)
  <2>1. PushRange(rs, seg, from, to) = rs2 BY <1>2 DEF PushRange
  <2>2. PICK pos \in Positions(rs, n) :
          pos[1] = p /\ pos[Len(rs) + 1] = q /\ RunsAt(rs, n, b, pos)
    BY DEF Runs
  <2>3. rs \in Seq(Ranges) /\ d \in Ranges BY DEF Runs, Ranges
  <2>4. /\ k \in Nat /\ Len(rs2) = k + 1 /\ rs2 \in Seq(Ranges) /\ rs2[k + 1] = d
        /\ DOMAIN rs2 = 1..(k + 1) /\ \A i \in 1..k : rs2[i] = rs[i] /\ i \in DOMAIN rs
    BY <2>3
  <2> DEFINE r == q + (to - from)
             pos2 == [i \in 1..(k + 2) |-> IF i = k + 2 THEN r ELSE pos[i]]
  <2>5. r \in 0..n OBVIOUS
  <2>6. pos \in [1..(k + 1) -> 0..n] BY <2>2 DEF Positions
  <2>7. \A i \in 1..(k + 2) : pos2[i] \in 0..n
    <3> SUFFICES ASSUME NEW i \in 1..(k + 2) PROVE pos2[i] \in 0..n OBVIOUS
    <3>1. i # k + 2 => i \in 1..(k + 1) BY <2>4
    <3> HIDE DEF r
    <3> QED BY <2>5, <2>6, <3>1
  <2>8. pos2 \in Positions(rs2, n)
    <3>1. Len(rs2) + 1 = k + 2 BY <2>4
    <3>2. pos2 \in [1..(k + 2) -> 0..n] BY <2>7
    <3> HIDE DEF pos2, rs2
    <3> QED BY <3>1, <3>2 DEF Positions
  <2>9. \A i \in 1..(k + 1) : pos2[i] = pos[i]
    <3> SUFFICES ASSUME NEW i \in 1..(k + 1) PROVE pos2[i] = pos[i] OBVIOUS
    <3>1. i # k + 2 /\ i \in 1..(k + 2) BY <2>4
    <3> QED BY <3>1
  <2>10. pos2[k + 2] = r BY <2>4
  <2>11. pos2[1] = p /\ pos2[k + 1] = q
    <3>1. 1 \in 1..(k + 1) /\ k + 1 \in 1..(k + 1) BY <2>4
    <3> HIDE DEF pos2
    <3> QED BY <2>2, <2>9, <3>1
  <2>12. RunsAt(rs2, n, b, pos2)
    <3> SUFFICES ASSUME NEW i \in 1..(k + 1)
                 PROVE  /\ pos2[i] < pos2[i + 1]
                        /\ rs2[i].first = (b + pos2[i]) % n
                        /\ rs2[i].end = rs2[i].first + (pos2[i + 1] - pos2[i])
                        /\ rs2[i].end <= n
      BY <2>4 DEF RunsAt
    <3>1. CASE i = k + 1
      <4>1. pos2[i] = q /\ pos2[i + 1] = r
        <5>1. i + 1 = k + 2 BY <2>4, <3>1
        <5> HIDE DEF pos2, r
        <5> QED BY <2>10, <2>11, <3>1, <5>1
      <4>2. rs2[i].first = from /\ rs2[i].end = to BY <2>4, <3>1
      <4> HIDE DEF pos2, rs2
      <4> QED BY <1>2, <4>1, <4>2
    <3>2. CASE i # k + 1
      <4>1. i \in 1..k /\ i + 1 \in 1..(k + 1) /\ i \in DOMAIN rs BY <2>4, <3>2
      <4>2. pos2[i] = pos[i] /\ pos2[i + 1] = pos[i + 1] /\ rs2[i] = rs[i]
        BY <2>4, <2>9, <4>1
      <4> HIDE DEF pos2, rs2, k
      <4> QED BY <2>2, <4>1, <4>2 DEF RunsAt
    <3> QED BY <3>1, <3>2
  <2>13. Runs(rs2, n, b, p, r)
    <3>1. Len(rs2) + 1 = k + 2 BY <2>4
    <3> HIDE DEF pos2, rs2, r
    <3> QED BY <2>4, <2>8, <2>10, <2>11, <2>12, <3>1 DEF Runs
  <2> QED BY <2>1, <2>13
<1> QED BY <1>1, <1>2

(* What the ranges are between two positions.                               *)
LEMMA RunsBounds ==
    ASSUME NEW n \in Nat, n > 0, NEW b, NEW rs, NEW p, NEW q, Runs(rs, n, b, p, q)
    PROVE  /\ p \in 0..n /\ q \in 0..n /\ p <= q
           /\ rs = <<>> <=> p = q
           /\ rs \in Seq(Ranges)
<1> DEFINE k == Len(rs)
<1>1. PICK pos \in Positions(rs, n) :
        pos[1] = p /\ pos[Len(rs) + 1] = q /\ RunsAt(rs, n, b, pos)
  BY DEF Runs
<1>2. rs \in Seq(Ranges) /\ k \in Nat /\ DOMAIN rs = 1..k BY DEF Runs
<1>3. pos \in [1..(k + 1) -> 0..n] BY <1>1 DEF Positions
<1> DEFINE I == {i \in Nat : i <= k => pos[i + 1] >= p + i}
<1>4. 0 \in I
  <2>1. 1 \in 1..(k + 1) BY <1>2
  <2> HIDE DEF k
  <2> QED BY <1>1, <1>3, <2>1
<1>5. ASSUME NEW i \in Nat, i \in I PROVE i + 1 \in I
  <2>1. SUFFICES ASSUME i + 1 <= k PROVE pos[(i + 1) + 1] >= p + (i + 1) OBVIOUS
  <2>2. i + 1 \in DOMAIN rs /\ i + 1 \in 1..(k + 1) /\ (i + 1) + 1 \in 1..(k + 1) /\ 1 \in 1..(k + 1)
    BY <1>2, <2>1
  <2>3. pos[i + 1] < pos[(i + 1) + 1] BY <1>1, <2>2 DEF RunsAt
  <2>4. pos[i + 1] >= p + i BY <1>2, <1>5, <2>1
  <2>5. pos[i + 1] \in Nat /\ pos[(i + 1) + 1] \in Nat /\ p \in Nat
    BY <1>1, <1>3, <2>2
  <2> HIDE DEF k
  <2> QED BY <2>3, <2>4, <2>5
<1> HIDE DEF I
<1>6. k \in I BY <1>2, <1>4, <1>5, Induction
<1>7. q >= p + k BY <1>1, <1>2, <1>6 DEF I
<1>8. p \in 0..n /\ q \in 0..n
  <2>1. 1 \in 1..(k + 1) /\ k + 1 \in 1..(k + 1) BY <1>2
  <2> QED BY <1>1, <1>3, <2>1
<1>9. k = 0 => p = q BY <1>1
<1>10. rs = <<>> <=> k = 0 BY <1>2
<1> HIDE DEF k
<1> QED BY <1>2, <1>7, <1>8, <1>9, <1>10

LEMMA RangeAt ==
    ASSUME NEW n \in Nat, n > 0, NEW b \in Chunks(n), NEW rs \in Seq(Ranges),
           NEW pos \in Positions(rs, n), RunsAt(rs, n, b, pos), NEW i \in DOMAIN rs
    PROVE  /\ i \in Nat /\ i >= 1 /\ rs[i] \in Ranges
           /\ rs[i].first \in Nat /\ rs[i].end \in Nat
           /\ pos[i] \in 0..n /\ pos[i + 1] \in 0..n /\ pos[i] < pos[i + 1]
           /\ rs[i].first = IF b + pos[i] < n THEN b + pos[i] ELSE b + pos[i] - n
           /\ rs[i].end = IF b + pos[i + 1] <= n THEN b + pos[i + 1] ELSE b + pos[i + 1] - n
           /\ rs[i].end - rs[i].first = pos[i + 1] - pos[i]
<1>1. rs[i] \in Ranges /\ i \in 1..Len(rs) /\ i \in Nat /\ i >= 1 OBVIOUS
<1>2. i \in 1..(Len(rs) + 1) /\ i + 1 \in 1..(Len(rs) + 1) BY <1>1
<1>3. pos[i] \in 0..n /\ pos[i + 1] \in 0..n BY <1>2 DEF Positions
<1>4. PICK x \in 0..n : x = pos[i] BY <1>3
<1>5. PICK y \in 0..n : y = pos[i + 1] BY <1>3
<1>6. /\ x < y /\ rs[i].first = (b + x) % n
      /\ rs[i].end = rs[i].first + (y - x) /\ rs[i].end <= n
  BY <1>4, <1>5 DEF RunsAt
<1>7. rs[i].first = IF b + x < n THEN b + x ELSE b + x - n BY <1>6, Around
<1>8. b \in Nat /\ b < n BY DEF Chunks
<1>9. rs[i].end = IF b + y <= n THEN b + y ELSE b + y - n BY <1>6, <1>7, <1>8
<1>10. rs[i].first \in Nat /\ rs[i].end \in Nat BY <1>1 DEF Ranges
<1>11. rs[i].end - rs[i].first = y - x BY <1>6, <1>10
<1> QED BY <1>1, <1>4, <1>5, <1>6, <1>7, <1>9, <1>10, <1>11

LEMMA LastEnd ==
    ASSUME NEW n \in Nat, n > 0, NEW b \in Chunks(n), NEW rs, NEW p, NEW q,
           Runs(rs, n, b, p, q), p < q
    PROVE  /\ Len(rs) \in DOMAIN rs
           /\ rs[Len(rs)].end = IF b + q <= n THEN b + q ELSE b + q - n
<1>1. PICK pos \in Positions(rs, n) :
        pos[1] = p /\ pos[Len(rs) + 1] = q /\ RunsAt(rs, n, b, pos)
  BY DEF Runs
<1>2. rs \in Seq(Ranges) /\ rs # <<>> BY RunsBounds
<1>3. Len(rs) \in DOMAIN rs BY <1>2
<1> QED BY <1>1, <1>2, <1>3, RangeAt

(* The sum in validate_segments().                                          *)
Sums(f, rs) ==
    /\ f[0] = 0
    /\ \A i \in 1..Len(rs) : f[i] = f[i - 1] + rs[i].end - rs[i].first
ValidWith(f, rs, start, end, n, total) ==
    LET prev(i) == IF i = 1 THEN start ELSE rs[i - 1].end IN
    /\ \A i \in DOMAIN rs : rs[i].first = prev(i) % n
    /\ prev(Len(rs) + 1) = end
    /\ f[Len(rs)] = total
LEMMA SumsExist ==
    ASSUME NEW rs \in Seq(Ranges), NEW start, NEW end, NEW n, NEW total
    PROVE  \E f \in [0..Len(rs) -> Int] :
              /\ Sums(f, rs)
              /\ ValidSegments(rs, start, end, n, total) <=> ValidWith(f, rs, start, end, n, total)
<1> DEFINE N == Len(rs)
           step == [x \in (1..N) \X Int |-> x[2] + rs[x[1]].end - rs[x[1]].first]
           Is(g) == g = [i \in 0..N |-> IF i = 0 THEN 0
                          ELSE g[i - 1] + rs[i].end - rs[i].first]
<1>0. N \in Nat /\ \A i \in 1..N : rs[i].end \in Nat /\ rs[i].first \in Nat
  <2>1. \A i \in 1..N : rs[i] \in Ranges OBVIOUS
  <2> QED BY <2>1 DEF Ranges
<1>2. step \in [(1..N) \X Int -> Int] BY <1>0
<1>3. PICK g \in [0..N -> Int] : g[0] = 0 /\ \A i \in 1..N : g[i] = step[<<i, g[i - 1]>>]
  <2> HIDE DEF step, N
  <2>0. 0 \in Int OBVIOUS
  <2>1. Iterates(step, 0, N, Int) BY <1>0, <1>2, <2>0, FiniteRecursion
  <2> QED BY <2>1 DEF Iterates
<1>4. \A i \in 1..N : g[i] = g[i - 1] + rs[i].end - rs[i].first
  <2> SUFFICES ASSUME NEW i \in 1..N PROVE g[i] = g[i - 1] + rs[i].end - rs[i].first OBVIOUS
  <2>1. i - 1 \in 0..N BY <1>0
  <2>2. <<i, g[i - 1]>> \in (1..N) \X Int BY <1>3, <2>1
  <2>3. step[<<i, g[i - 1]>>] = g[i - 1] + rs[i].end - rs[i].first BY <2>2
  <2> HIDE DEF step, N
  <2> QED BY <1>3, <2>3
<1>5. Is(g)
  <2>1. \A i \in 0..N : i # 0 => i \in 1..N BY <1>0
  <2> HIDE DEF N
  <2> QED BY <1>3, <1>4, <2>1
<1> DEFINE f == CHOOSE x : Is(x)
<1>6. Is(f)
  <2> HIDE DEF Is
  <2> QED BY <1>5
<1>7. f[0] = 0 /\ \A i \in 1..N : f[i] = f[i - 1] + rs[i].end - rs[i].first
  <2>1. 0 \in 0..N /\ \A i \in 1..N : i \in 0..N /\ i # 0 BY <1>0
  <2> HIDE DEF f, N
  <2> QED BY <1>6, <2>1
<1>8. f \in [0..N -> Int]
  <2> DEFINE I == {i \in Nat : i <= N => f[i] \in Int}
  <2>1. 0 \in I
    <3> HIDE DEF f, N
    <3> QED BY <1>7
  <2>2. ASSUME NEW i \in Nat, i \in I PROVE i + 1 \in I
    <3>1. SUFFICES ASSUME i + 1 <= N PROVE f[i + 1] \in Int OBVIOUS
    <3>2. f[i] \in Int /\ i + 1 \in 1..N /\ (i + 1) - 1 = i BY <1>0, <2>2, <3>1
    <3>3. f[i + 1] = f[i] + rs[i + 1].end - rs[i + 1].first
      <4> HIDE DEF f, N
      <4> QED BY <1>7, <3>2
    <3>4. rs[i + 1].end \in Nat /\ rs[i + 1].first \in Nat BY <1>0, <3>2
    <3>5. PICK x \in Int : x = f[i] BY <3>2
    <3> HIDE DEF f, N
    <3> QED BY <3>3, <3>4, <3>5
  <2> HIDE DEF I
  <2>3. \A i \in Nat : i \in I BY <2>1, <2>2, Induction
  <2>4. \A i \in 0..N : f[i] \in Int BY <2>3 DEF I
  <2> QED BY <1>6, <2>4
<1>9. ValidSegments(rs, start, end, n, total) <=> ValidWith(f, rs, start, end, n, total)
  BY DEF ValidSegments, ValidWith
<1>10. Sums(f, rs)
  <2> HIDE DEF f
  <2> QED BY <1>7 DEF Sums
<1> QED
  <2> HIDE DEF f
  <2> QED BY <1>8, <1>9, <1>10

(* validate_segments() accepts what follows each other.                     *)
LEMMA RunsAreValid ==
    ASSUME NEW n \in Nat, n > 0, NEW b \in Chunks(n), NEW rs, NEW p, NEW q,
           Runs(rs, n, b, p, q), p < q
    PROVE  ValidSegments(rs, (b + p) % n, rs[Len(rs)].end, n, q - p)
<1> DEFINE start == (b + p) % n
           end == rs[Len(rs)].end
           k == Len(rs)
<1>1. PICK pos \in Positions(rs, n) :
        pos[1] = p /\ pos[Len(rs) + 1] = q /\ RunsAt(rs, n, b, pos)
  BY DEF Runs
<1>2. rs \in Seq(Ranges) /\ rs # <<>> /\ p \in 0..n /\ q \in 0..n BY RunsBounds
<1>3. k \in Nat /\ k >= 1 /\ DOMAIN rs = 1..k BY <1>2
<1>4. PICK f \in [0..Len(rs) -> Int] :
        /\ Sums(f, rs)
        /\ ValidSegments(rs, start, end, n, q - p) <=> ValidWith(f, rs, start, end, n, q - p)
  BY <1>2, SumsExist
<1>5. \A i \in 1..k :
        /\ pos[i] \in 0..n /\ pos[i + 1] \in 0..n
        /\ rs[i].first \in Nat /\ rs[i].end \in Nat
        /\ rs[i].first = (b + pos[i]) % n
        /\ rs[i].end = IF b + pos[i + 1] <= n THEN b + pos[i + 1] ELSE b + pos[i + 1] - n
        /\ rs[i].end - rs[i].first = pos[i + 1] - pos[i]
  <2> SUFFICES ASSUME NEW i \in 1..k
               PROVE  /\ pos[i] \in 0..n /\ pos[i + 1] \in 0..n
                      /\ rs[i].first \in Nat /\ rs[i].end \in Nat
                      /\ rs[i].first = (b + pos[i]) % n
                      /\ rs[i].end = IF b + pos[i + 1] <= n THEN b + pos[i + 1] ELSE b + pos[i + 1] - n
                      /\ rs[i].end - rs[i].first = pos[i + 1] - pos[i]
    OBVIOUS
  <2>1. i \in DOMAIN rs BY <1>3
  <2>2. rs[i].first = (b + pos[i]) % n BY <1>1, <2>1 DEF RunsAt
  <2>3. /\ pos[i] \in 0..n /\ pos[i + 1] \in 0..n
        /\ rs[i].first \in Nat /\ rs[i].end \in Nat
    BY <1>1, <1>2, <2>1, RangeAt
  <2>4. rs[i].end = IF b + pos[i + 1] <= n THEN b + pos[i + 1] ELSE b + pos[i + 1] - n
    BY <1>1, <1>2, <2>1, RangeAt
  <2>5. rs[i].end - rs[i].first = pos[i + 1] - pos[i]
    BY <1>1, <1>2, <2>1, RangeAt
  <2> QED BY <2>2, <2>3, <2>4, <2>5
<1>6. ASSUME NEW i \in 1..k PROVE rs[i].first = (IF i = 1 THEN start ELSE rs[i - 1].end) % n
  <2>1. CASE i = 1
    <3>1. PICK s : s = start OBVIOUS
    <3>2. s \in Chunks(n) BY <1>2, <3>1, AroundIsChunk
    <3>3. (s + 0) % n = IF s + 0 < n THEN s + 0 ELSE s + 0 - n BY <3>2, Around
    <3>4. s \in Nat /\ s < n /\ s + 0 = s BY <3>2 DEF Chunks
    <3>5. s % n = s BY <3>3, <3>4
    <3>6. rs[i].first = s BY <1>1, <1>5, <2>1, <3>1
    <3> QED BY <2>1, <3>1, <3>5, <3>6
  <2>2. CASE i # 1
    <3>1. i - 1 \in 1..k /\ (i - 1) + 1 = i BY <1>3, <2>2
    <3>2. PICK x \in 0..n : x = pos[i] BY <1>5
    <3>3. PICK e : e = rs[i - 1].end OBVIOUS
    <3>4. e = IF b + x <= n THEN b + x ELSE b + x - n
      <4>1. rs[i - 1].end = IF b + pos[(i - 1) + 1] <= n THEN b + pos[(i - 1) + 1]
                            ELSE b + pos[(i - 1) + 1] - n
        BY <1>5, <3>1
      <4> QED BY <3>1, <3>2, <3>3, <4>1
    <3>5. b \in Nat /\ b < n /\ 0 \in Chunks(n) BY DEF Chunks
    <3>6. e \in 0..n BY <3>2, <3>4, <3>5
    <3>7. (0 + e) % n = IF 0 + e < n THEN 0 + e ELSE 0 + e - n BY <3>5, <3>6, Around
    <3>8. 0 + e = e BY <3>6
    <3>9. (b + x) % n = IF b + x < n THEN b + x ELSE b + x - n BY <3>2, Around
    <3>10. (b + x) % n = e % n
      <4>1. PICK y : y = (b + x) % n OBVIOUS
      <4>2. PICK z : z = (0 + e) % n OBVIOUS
      <4>3. y = IF b + x < n THEN b + x ELSE b + x - n BY <3>9, <4>1
      <4>4. z = IF e < n THEN e ELSE e - n
        <5>1. z = IF 0 + e < n THEN 0 + e ELSE 0 + e - n BY <3>7, <4>2
        <5> QED BY <3>6, <3>8, <5>1
      <4>5. y = z BY <3>4, <3>5, <3>6, <4>3, <4>4
      <4> QED BY <3>8, <4>1, <4>2, <4>5
    <3>11. rs[i].first = (b + x) % n BY <1>5, <3>2
    <3> QED BY <2>2, <3>3, <3>10, <3>11
  <2> QED BY <2>1, <2>2
<1>7. f[k] = q - p
  <2> DEFINE I == {i \in Nat : i <= k => f[i] = pos[i + 1] - p}
  <2>1. 0 \in I BY <1>1, <1>2, <1>4 DEF Sums
  <2>2. ASSUME NEW i \in Nat, i \in I PROVE i + 1 \in I
    <3>1. SUFFICES ASSUME i + 1 <= k PROVE f[i + 1] = pos[(i + 1) + 1] - p OBVIOUS
    <3>2. i + 1 \in 1..k /\ (i + 1) - 1 = i BY <1>3, <3>1
    <3>3. f[i + 1] = f[i] + rs[i + 1].end - rs[i + 1].first
      <4>1. f[i + 1] = f[(i + 1) - 1] + rs[i + 1].end - rs[i + 1].first
        BY <1>4, <3>2 DEF Sums
      <4> QED BY <3>2, <4>1
    <3>4. f[i] = pos[i + 1] - p BY <1>3, <2>2, <3>1
    <3>5. /\ pos[i + 1] \in Nat /\ pos[(i + 1) + 1] \in Nat /\ p \in Nat
          /\ rs[i + 1].first \in Nat /\ rs[i + 1].end \in Nat
          /\ rs[i + 1].end - rs[i + 1].first = pos[(i + 1) + 1] - pos[i + 1]
      BY <1>2, <1>5, <3>2
    <3> HIDE DEF k
    <3> QED BY <3>3, <3>4, <3>5
  <2> HIDE DEF I
  <2>3. k \in I BY <1>3, <2>1, <2>2, Induction
  <2> QED BY <1>1, <1>3, <2>3 DEF I
<1>8. ValidWith(f, rs, start, end, n, q - p)
  <2>1. k + 1 # 1 /\ (k + 1) - 1 = k BY <1>3
  <2> HIDE DEF start
  <2> QED BY <1>3, <1>6, <1>7, <2>1 DEF ValidWith
<1> QED BY <1>4, <1>8

(* The first and the last chunk are dropped.                                *)
LEMMA FirstGone ==
    ASSUME NEW n \in Nat, n > 0, NEW b \in Chunks(n), NEW rs, NEW p, NEW q,
           Runs(rs, n, b, p, q), p < q
    PROVE  Runs(WithoutFirst(rs), n, b, p + 1, q)
<1> DEFINE k == Len(rs)
<1>1. PICK pos \in Positions(rs, n) :
        pos[1] = p /\ pos[Len(rs) + 1] = q /\ RunsAt(rs, n, b, pos)
  BY DEF Runs
<1>2. rs \in Seq(Ranges) /\ rs # <<>> /\ p \in 0..n /\ q \in 0..n BY RunsBounds
<1>3. k \in Nat /\ k >= 1 /\ DOMAIN rs = 1..k /\ 1 \in DOMAIN rs BY <1>2
<1>4. pos \in [1..(k + 1) -> 0..n] BY <1>1 DEF Positions
<1>5. /\ rs[1] \in Ranges /\ rs[1].first \in Nat /\ rs[1].end \in Nat
      /\ rs[1].first = IF b + p < n THEN b + p ELSE b + p - n
  <2>1. rs[1] \in Ranges /\ rs[1].first \in Nat /\ rs[1].end \in Nat BY <1>1, <1>2, <1>3, RangeAt
  <2>2. rs[1].first = IF b + pos[1] < n THEN b + pos[1] ELSE b + pos[1] - n
    BY <1>1, <1>2, <1>3, RangeAt
  <2> QED BY <1>1, <2>1, <2>2
<1>6. PICK y \in 0..n : y = pos[2]
  <2>1. 2 \in 1..(k + 1) BY <1>3
  <2> QED BY <1>4, <2>1
<1>7. p < y /\ rs[1].end = rs[1].first + (y - p) /\ rs[1].end <= n
  <2>1. 1 + 1 = 2 OBVIOUS
  <2> QED BY <1>1, <1>3, <1>6, <2>1 DEF RunsAt
<1>8. b \in Nat /\ b < n BY DEF Chunks
<1>9. CASE Single(rs[1])
  <2> DEFINE rs2 == Tail(rs)
             pos2 == [i \in 1..k |-> pos[i + 1]]
  <2>1. WithoutFirst(rs) = rs2 BY <1>9 DEF WithoutFirst
  <2>2. y = p + 1 BY <1>2, <1>5, <1>7, <1>9 DEF Single
  <2>3. /\ rs2 \in Seq(Ranges) /\ Len(rs2) = k - 1 /\ DOMAIN rs2 = 1..(k - 1)
        /\ \A i \in 1..(k - 1) : rs2[i] = rs[i + 1] /\ i + 1 \in DOMAIN rs
    BY <1>2, <1>3
  <2>4. \A i \in 1..k : i + 1 \in 1..(k + 1) BY <1>3
  <2>5. pos2 \in Positions(rs2, n)
    <3>1. Len(rs2) + 1 = k BY <1>3, <2>3
    <3>2. pos2 \in [1..k -> 0..n]
      <4>1. \A i \in 1..k : pos[i + 1] \in 0..n BY <1>4, <2>4
      <4> QED BY <4>1
    <3> HIDE DEF pos2, rs2, k
    <3> QED BY <3>1, <3>2 DEF Positions
  <2>6. pos2[1] = p + 1 /\ pos2[Len(rs2) + 1] = q
    <3>1. pos2[1] = pos[1 + 1] BY <1>3
    <3>2. pos2[k] = pos[k + 1] BY <1>3
    <3>3. Len(rs2) + 1 = k /\ 1 + 1 = 2 BY <1>3, <2>3
    <3> HIDE DEF pos2, rs2
    <3> QED BY <1>1, <1>6, <2>2, <3>1, <3>2, <3>3
  <2>7. RunsAt(rs2, n, b, pos2)
    <3> SUFFICES ASSUME NEW i \in 1..(k - 1)
                 PROVE  /\ pos2[i] < pos2[i + 1]
                        /\ rs2[i].first = (b + pos2[i]) % n
                        /\ rs2[i].end = rs2[i].first + (pos2[i + 1] - pos2[i])
                        /\ rs2[i].end <= n
      BY <2>3 DEF RunsAt
    <3>1. i \in 1..k /\ i + 1 \in 1..k BY <1>3
    <3>2. pos2[i] = pos[i + 1] /\ pos2[i + 1] = pos[(i + 1) + 1] BY <3>1
    <3>3. rs2[i] = rs[i + 1] /\ i + 1 \in DOMAIN rs BY <2>3
    <3> HIDE DEF pos2, rs2, k
    <3> QED BY <1>1, <3>2, <3>3 DEF RunsAt
  <2> HIDE DEF pos2, rs2
  <2> QED BY <2>1, <2>3, <2>5, <2>6, <2>7 DEF Runs
<1>10. CASE ~Single(rs[1])
  <2> DEFINE rs2 == [rs EXCEPT ![1].first = @ + 1]
             pos2 == [i \in 1..(k + 1) |-> IF i = 1 THEN p + 1 ELSE pos[i]]
  <2>1. WithoutFirst(rs) = rs2 BY <1>10 DEF WithoutFirst
  <2>2. y > p + 1 BY <1>2, <1>5, <1>7, <1>10 DEF Single
  <2>3. rs2[1] = [rs[1] EXCEPT !.first = @ + 1] /\ \A i \in 2..k : rs2[i] = rs[i] BY <1>3
  <2>4. rs2[1] \in Ranges /\ rs2[1].first = rs[1].first + 1 /\ rs2[1].end = rs[1].end
    BY <1>5, <2>3 DEF Ranges
  <2>5. rs2 \in Seq(Ranges) /\ Len(rs2) = k /\ DOMAIN rs2 = 1..k
    <3>1. \A i \in 1..k : rs2[i] \in Ranges
      <4> SUFFICES ASSUME NEW i \in 1..k PROVE rs2[i] \in Ranges OBVIOUS
      <4>1. i # 1 => i \in 2..k BY <1>3
      <4>2. rs[i] \in Ranges BY <1>2, <1>3
      <4> HIDE DEF rs2
      <4> QED BY <2>3, <2>4, <4>1, <4>2
    <3>2. DOMAIN rs2 = 1..k BY <1>3
    <3>3. rs2 \in [1..k -> Ranges] BY <3>1, <3>2
    <3>4. rs2 \in Seq(Ranges)
      <4> HIDE DEF rs2, k
      <4> QED BY <1>3, <3>3
    <3>5. Len(rs2) = k
      <4> HIDE DEF rs2, k
      <4> QED BY <1>3, <3>2, <3>4
    <3> QED BY <3>2, <3>4, <3>5
  <2>6. p + 1 \in 0..n BY <1>2, <2>2
  <2>7. pos2 \in Positions(rs2, n)
    <3>1. pos2 \in [1..(k + 1) -> 0..n] BY <1>4, <2>6
    <3> HIDE DEF pos2, rs2, k
    <3> QED BY <2>5, <3>1 DEF Positions
  <2>8. pos2[1] = p + 1 /\ pos2[Len(rs2) + 1] = q
    <3>1. pos2[1] = p + 1 BY <1>3
    <3>2. pos2[k + 1] = pos[k + 1]
      <4>1. k + 1 # 1 /\ k + 1 \in 1..(k + 1) BY <1>3
      <4> HIDE DEF k
      <4> QED BY <4>1
    <3> HIDE DEF pos2, rs2
    <3> QED BY <1>1, <2>5, <3>1, <3>2
  <2>9. RunsAt(rs2, n, b, pos2)
    <3> SUFFICES ASSUME NEW i \in 1..k
                 PROVE  /\ pos2[i] < pos2[i + 1]
                        /\ rs2[i].first = (b + pos2[i]) % n
                        /\ rs2[i].end = rs2[i].first + (pos2[i + 1] - pos2[i])
                        /\ rs2[i].end <= n
      BY <2>5 DEF RunsAt
    <3>1. i \in 1..(k + 1) /\ i + 1 \in 1..(k + 1) /\ i + 1 # 1 BY <1>3
    <3>2. pos2[i + 1] = pos[i + 1] BY <3>1
    <3>3. CASE i = 1
      <4>1. pos2[i] = p + 1 /\ pos2[i + 1] = y
        <5>1. 1 + 1 = 2 OBVIOUS
        <5> QED BY <1>6, <3>1, <3>2, <3>3, <5>1
      <4>2. (b + (p + 1)) % n = IF b + (p + 1) < n THEN b + (p + 1) ELSE b + (p + 1) - n
        BY <2>6, Around
      <4>3. PICK c : c = (b + (p + 1)) % n OBVIOUS
      <4>4. c = IF b + (p + 1) < n THEN b + (p + 1) ELSE b + (p + 1) - n BY <4>2, <4>3
      <4>5. rs[1].first + 1 < n BY <1>2, <1>5, <1>7, <2>2
      <4>6. c = rs[1].first + 1 BY <1>2, <1>5, <1>8, <4>4, <4>5
      <4>7. rs2[i].first = c /\ rs2[i].end = rs[1].end BY <2>4, <3>3, <4>6
      <4>8. rs2[i].end = rs2[i].first + (y - (p + 1)) BY <1>2, <1>5, <1>7, <4>6, <4>7
      <4> HIDE DEF pos2, rs2
      <4> QED BY <1>7, <2>2, <4>1, <4>3, <4>7, <4>8
    <3>4. CASE i # 1
      <4>1. rs2[i] = rs[i] /\ pos2[i] = pos[i] /\ i \in DOMAIN rs
        <5>1. i \in 2..k BY <1>3, <3>4
        <5> QED BY <1>3, <2>3, <3>1, <3>4, <5>1
      <4> HIDE DEF pos2, rs2, k
      <4> QED BY <1>1, <3>2, <4>1 DEF RunsAt
    <3> QED BY <3>3, <3>4
  <2> HIDE DEF pos2, rs2
  <2> QED BY <2>1, <2>5, <2>7, <2>8, <2>9 DEF Runs
<1> QED BY <1>9, <1>10

LEMMA LastGone ==
    ASSUME NEW n \in Nat, n > 0, NEW b \in Chunks(n), NEW rs, NEW p, NEW q,
           Runs(rs, n, b, p, q), p < q
    PROVE  Runs(WithoutLast(rs), n, b, p, q - 1)
<1> DEFINE k == Len(rs)
<1>1. PICK pos \in Positions(rs, n) :
        pos[1] = p /\ pos[Len(rs) + 1] = q /\ RunsAt(rs, n, b, pos)
  BY DEF Runs
<1>2. rs \in Seq(Ranges) /\ rs # <<>> /\ p \in 0..n /\ q \in 0..n BY RunsBounds
<1>3. k \in Nat /\ k >= 1 /\ DOMAIN rs = 1..k /\ k \in DOMAIN rs BY <1>2
<1>4. pos \in [1..(k + 1) -> 0..n] BY <1>1 DEF Positions
<1>5. rs[k] \in Ranges /\ rs[k].first \in Nat /\ rs[k].end \in Nat BY <1>1, <1>2, <1>3, RangeAt
<1>6. PICK x \in 0..n : x = pos[k]
  <2>1. k \in 1..(k + 1) BY <1>3
  <2> QED BY <1>4, <2>1
<1>7. /\ x < q /\ rs[k].first = (b + x) % n
      /\ rs[k].end = rs[k].first + (q - x) /\ rs[k].end <= n
  BY <1>1, <1>3, <1>6 DEF RunsAt
<1>8. CASE Single(rs[k])
  <2> DEFINE rs2 == SubSeq(rs, 1, k - 1)
             pos2 == [i \in 1..k |-> pos[i]]
  <2>1. WithoutLast(rs) = rs2 BY <1>8 DEF WithoutLast
  <2>2. q = x + 1 BY <1>2, <1>5, <1>7, <1>8 DEF Single
  <2>3. /\ rs2 \in Seq(Ranges) /\ Len(rs2) = k - 1 /\ DOMAIN rs2 = 1..(k - 1)
        /\ \A i \in 1..(k - 1) : rs2[i] = rs[i] /\ i \in DOMAIN rs
    BY <1>2, <1>3
  <2>4. pos2 \in Positions(rs2, n)
    <3>1. Len(rs2) + 1 = k BY <1>3, <2>3
    <3>2. pos2 \in [1..k -> 0..n]
      <4>1. \A i \in 1..k : pos[i] \in 0..n BY <1>3, <1>4
      <4> QED BY <4>1
    <3> HIDE DEF pos2, rs2, k
    <3> QED BY <3>1, <3>2 DEF Positions
  <2>5. pos2[1] = p /\ pos2[Len(rs2) + 1] = q - 1
    <3>1. pos2[1] = p BY <1>1, <1>3
    <3>2. pos2[k] = x BY <1>3, <1>6
    <3>3. Len(rs2) + 1 = k /\ q - 1 = x BY <1>3, <2>2, <2>3
    <3> HIDE DEF pos2, rs2, k
    <3> QED BY <3>1, <3>2, <3>3
  <2>6. RunsAt(rs2, n, b, pos2)
    <3> SUFFICES ASSUME NEW i \in 1..(k - 1)
                 PROVE  /\ pos2[i] < pos2[i + 1]
                        /\ rs2[i].first = (b + pos2[i]) % n
                        /\ rs2[i].end = rs2[i].first + (pos2[i + 1] - pos2[i])
                        /\ rs2[i].end <= n
      BY <2>3 DEF RunsAt
    <3>1. i \in 1..k /\ i + 1 \in 1..k BY <1>3
    <3>2. pos2[i] = pos[i] /\ pos2[i + 1] = pos[i + 1] BY <3>1
    <3>3. rs2[i] = rs[i] /\ i \in DOMAIN rs BY <2>3
    <3> HIDE DEF pos2, rs2, k
    <3> QED BY <1>1, <3>2, <3>3 DEF RunsAt
  <2> HIDE DEF pos2, rs2
  <2> QED BY <2>1, <2>3, <2>4, <2>5, <2>6 DEF Runs
<1>9. CASE ~Single(rs[k])
  <2> DEFINE rs2 == [rs EXCEPT ![k].end = @ - 1]
             pos2 == [i \in 1..(k + 1) |-> IF i = k + 1 THEN q - 1 ELSE pos[i]]
  <2>1. WithoutLast(rs) = rs2 BY <1>9 DEF WithoutLast
  <2>2. q > x + 1 BY <1>2, <1>5, <1>7, <1>9 DEF Single
  <2>3. rs2[k] = [rs[k] EXCEPT !.end = @ - 1] /\ \A i \in 1..(k - 1) : rs2[i] = rs[i] BY <1>3
  <2>4. rs2[k] \in Ranges /\ rs2[k].first = rs[k].first /\ rs2[k].end = rs[k].end - 1
    <3>1. rs[k].end - 1 \in Nat BY <1>2, <1>5, <1>7
    <3> HIDE DEF rs2, k
    <3> QED BY <1>5, <2>3, <3>1 DEF Ranges
  <2>5. rs2 \in Seq(Ranges) /\ Len(rs2) = k /\ DOMAIN rs2 = 1..k
    <3>1. \A i \in 1..k : rs2[i] \in Ranges
      <4> SUFFICES ASSUME NEW i \in 1..k PROVE rs2[i] \in Ranges OBVIOUS
      <4>1. i # k => i \in 1..(k - 1)
        <5> HIDE DEF rs2, k
        <5> QED BY <1>3
      <4>2. rs[i] \in Ranges BY <1>2, <1>3
      <4> HIDE DEF rs2, k
      <4> QED BY <2>3, <2>4, <4>1, <4>2
    <3>2. DOMAIN rs2 = 1..k BY <1>3
    <3>3. rs2 \in [1..k -> Ranges] BY <3>1, <3>2
    <3> HIDE DEF rs2, k
    <3>4. rs2 \in Seq(Ranges) BY <1>3, <3>3
    <3> QED BY <1>3, <3>2, <3>4
  <2>6. q - 1 \in 0..n BY <1>2, <2>2
  <2>7. pos2 \in Positions(rs2, n)
    <3>1. pos2 \in [1..(k + 1) -> 0..n] BY <1>4, <2>6
    <3> HIDE DEF pos2, rs2, k
    <3> QED BY <2>5, <3>1 DEF Positions
  <2>8. pos2[1] = p /\ pos2[k + 1] = q - 1 /\ \A i \in 1..k : pos2[i] = pos[i]
    <3>1. \A i \in 1..k : i # k + 1 /\ i \in 1..(k + 1) BY <1>3
    <3>2. 1 \in 1..k /\ k + 1 \in 1..(k + 1) BY <1>3
    <3> HIDE DEF k
    <3> QED BY <1>1, <3>1, <3>2
  <2>9. RunsAt(rs2, n, b, pos2)
    <3> SUFFICES ASSUME NEW i \in 1..k
                 PROVE  /\ pos2[i] < pos2[i + 1]
                        /\ rs2[i].first = (b + pos2[i]) % n
                        /\ rs2[i].end = rs2[i].first + (pos2[i + 1] - pos2[i])
                        /\ rs2[i].end <= n
      BY <2>5 DEF RunsAt
    <3>1. CASE i = k
      <4>1. pos2[i] = x /\ pos2[i + 1] = q - 1 BY <1>6, <2>8, <3>1
      <4>2. rs2[i].first = rs[k].first /\ rs2[i].end = rs[k].end - 1 BY <2>4, <3>1
      <4>3. rs2[i].end = rs2[i].first + ((q - 1) - x) BY <1>2, <1>5, <1>7, <4>2
      <4>4. rs[k].end - 1 <= n BY <1>5, <1>7
      <4> HIDE DEF pos2, rs2, k
      <4> QED BY <1>2, <1>7, <2>2, <4>1, <4>2, <4>3, <4>4
    <3>2. CASE i # k
      <4>1. i \in 1..(k - 1) /\ i + 1 \in 1..k /\ i \in DOMAIN rs
        <5> HIDE DEF rs2, k, pos2
        <5> QED BY <1>3, <3>2
      <4>2. pos2[i] = pos[i] /\ pos2[i + 1] = pos[i + 1] BY <2>8, <4>1
      <4>3. rs2[i] = rs[i] BY <2>3, <4>1
      <4> HIDE DEF pos2, rs2, k
      <4> QED BY <1>1, <4>1, <4>2, <4>3 DEF RunsAt
    <3> QED BY <3>1, <3>2
  <2> HIDE DEF pos2, rs2
  <2>10. pos2[Len(rs2) + 1] = q - 1 BY <2>5, <2>8
  <2> QED BY <2>1, <2>5, <2>7, <2>8, <2>9, <2>10 DEF Runs
<1> QED BY <1>8, <1>9

LEMMA TrimmedRuns ==
    ASSUME NEW n \in Nat, n >= MinChunks, NEW b \in Chunks(n), NEW rs, Runs(rs, n, b, 0, n)
    PROVE  Runs(Trimmed(rs), n, b, 1, n - 1)
<1>1. n > 0 /\ 0 < n /\ 1 < n /\ 0 + 1 = 1 BY DEF MinChunks
<1>2. Runs(WithoutFirst(rs), n, b, 0 + 1, n) BY <1>1, FirstGone
<1>3. Runs(WithoutFirst(rs), n, b, 1, n) BY <1>1, <1>2
<1> QED BY <1>1, <1>3, LastGone DEF Trimmed

-----------------------------------------------------------------------------
(* The scan of collect_segments().                                          *)

Scans(n) == [ranges : Seq(Ranges), seg : Nat, from : Chunks(n), ok : BOOLEAN]
Scanned(m, T, L, n, start, threshold) ==
    /\ m[0] = [ranges |-> <<>>, seg |-> 1, from |-> start, ok |-> TRUE]
    /\ \A i \in 1..(n - 1) : m[i] = ScanChunk(T, L, n, start, threshold, m[i - 1], i - 1)
    /\ RawSegments(T, L, n, start, threshold) =
          [ranges |-> PushRange(m[n - 1].ranges, m[n - 1].seg, m[n - 1].from, EndChunk(start, n)),
           ok |-> m[n - 1].ok]

LEMMA PushType ==
    ASSUME NEW rs \in Seq(Ranges), NEW seg \in Nat, NEW from \in Nat, NEW to \in Nat
    PROVE  PushRange(rs, seg, from, to) \in Seq(Ranges)
<1> DEFINE d == [seg |-> seg, first |-> from, end |-> to]
<1>1. d \in Ranges BY DEF Ranges
<1> HIDE DEF d
<1>2. Append(rs, d) \in Seq(Ranges) BY <1>1
<1> QED BY <1>2 DEF PushRange, d

LEMMA ScanType ==
    ASSUME NEW n \in Nat, n > 0, NEW b \in Chunks(n), NEW T, NEW L, NEW threshold,
           NEW i \in Nat, i < n - 1, NEW a \in Scans(n)
    PROVE  ScanChunk(T, L, n, b, threshold, a, i) \in Scans(n)
<1>1. PICK chunk : chunk = (b + i) % n OBVIOUS
<1>2. PICK next : next = (b + i + 1) % n OBVIOUS
<1>3. next \in Chunks(n)
  <2>1. i + 1 \in 0..n /\ b + i + 1 = b + (i + 1) BY DEF Chunks
  <2>2. (b + (i + 1)) % n \in Chunks(n) BY <2>1, AroundIsChunk
  <2> QED BY <1>2, <2>1, <2>2
<1>4. 0 \in Chunks(n) /\ n \in Nat /\ next \in Nat BY <1>3 DEF Chunks
<1>5. /\ a.ranges \in Seq(Ranges) /\ a.seg \in Nat /\ a.seg + 1 \in Nat
      /\ a.from \in Chunks(n) /\ a.from \in Nat /\ a.ok \in BOOLEAN
  BY DEF Scans, Chunks
<1>6. PICK rs : rs = IF chunk > next THEN PushRange(a.ranges, a.seg, a.from, n) ELSE a.ranges
  OBVIOUS
<1>7. PICK from : from = IF chunk > next THEN 0 ELSE a.from OBVIOUS
<1>8. PICK ok : ok = (a.ok /\ T[next] - L[chunk] >= 0) OBVIOUS
<1>9. rs \in Seq(Ranges) BY <1>4, <1>5, <1>6, PushType
<1>10. from \in Chunks(n) /\ from \in Nat BY <1>4, <1>5, <1>7
<1>11. ok \in BOOLEAN BY <1>8
<1>12. PICK rs2 : rs2 = PushRange(rs, a.seg, from, next) OBVIOUS
<1>13. rs2 \in Seq(Ranges) BY <1>4, <1>5, <1>9, <1>10, <1>12, PushType
<1>14. ScanChunk(T, L, n, b, threshold, a, i) =
         IF T[next] - L[chunk] > threshold
         THEN [ranges |-> rs2, seg |-> a.seg + 1, from |-> next, ok |-> ok]
         ELSE [ranges |-> rs, seg |-> a.seg, from |-> from, ok |-> ok]
  BY <1>1, <1>2, <1>6, <1>7, <1>8, <1>12 DEF ScanChunk
<1>15. [ranges |-> rs2, seg |-> a.seg + 1, from |-> next, ok |-> ok] \in Scans(n)
  BY <1>3, <1>5, <1>11, <1>13 DEF Scans
<1>16. [ranges |-> rs, seg |-> a.seg, from |-> from, ok |-> ok] \in Scans(n)
  BY <1>5, <1>9, <1>10, <1>11 DEF Scans
<1> QED BY <1>14, <1>15, <1>16

LEMMA ScansExist ==
    ASSUME NEW n \in Nat, n > 0, NEW b \in Chunks(n), NEW T, NEW L, NEW threshold
    PROVE  \E m \in [0..(n - 1) -> Scans(n)] : Scanned(m, T, L, n, b, threshold)
<1> DEFINE N == n - 1
           S == Scans(n)
           base == [ranges |-> <<>>, seg |-> 1, from |-> b, ok |-> TRUE]
           next(a, i) == ScanChunk(T, L, n, b, threshold, a, i)
           step == [x \in (1..N) \X S |-> next(x[2], x[1] - 1)]
           Is(g) == g = [i \in Chunks(n) |-> IF i = 0
                          THEN [ranges |-> <<>>, seg |-> 1, from |-> b, ok |-> TRUE]
                          ELSE ScanChunk(T, L, n, b, threshold, g[i - 1], i - 1)]
<1>0. N \in Nat /\ Chunks(n) = 0..N /\ \A i \in 1..N : i - 1 \in Nat /\ i - 1 < n - 1 /\ i - 1 \in 0..N
  BY DEF Chunks
<1>1. base \in S
  <2>1. <<>> \in Seq(Ranges) OBVIOUS
  <2> QED BY <2>1 DEF Scans
<1>2. step \in [(1..N) \X S -> S]
  <2>1. ASSUME NEW i \in 1..N, NEW a \in S PROVE next(a, i - 1) \in S BY <1>0, ScanType
  <2> HIDE DEF S, N, next
  <2> QED BY <2>1
<1>3. PICK g \in [0..N -> S] : g[0] = base /\ \A i \in 1..N : g[i] = step[<<i, g[i - 1]>>]
  <2> HIDE DEF step, N, S, base
  <2>1. Iterates(step, base, N, S) BY <1>0, <1>1, <1>2, FiniteRecursion
  <2> QED BY <2>1 DEF Iterates
<1>4. \A i \in 1..N : g[i] = next(g[i - 1], i - 1)
  <2> SUFFICES ASSUME NEW i \in 1..N PROVE g[i] = next(g[i - 1], i - 1) OBVIOUS
  <2> HIDE DEF next, N, S
  <2>1. i - 1 \in 0..N BY <1>0
  <2>2. <<i, g[i - 1]>> \in (1..N) \X S BY <1>3, <2>1
  <2>3. step[<<i, g[i - 1]>>] = next(g[i - 1], i - 1) BY <2>2
  <2> HIDE DEF step
  <2> QED BY <1>3, <2>3
<1>5. Is(g)
  <2>1. \A i \in 0..N : i # 0 => i \in 1..N BY <1>0
  <2> HIDE DEF N, S
  <2> QED BY <1>0, <1>3, <1>4, <2>1
<1> DEFINE m == CHOOSE x : Is(x)
<1>6. Is(m)
  <2> HIDE DEF Is
  <2> QED BY <1>5
<1>7. m[0] = base /\ \A i \in 1..N : m[i] = next(m[i - 1], i - 1)
  <2>1. 0 \in 0..N /\ \A i \in 1..N : i \in 0..N /\ i # 0 BY <1>0
  <2> HIDE DEF m, N
  <2> QED BY <1>0, <1>6, <2>1
<1>8. m \in [0..N -> S]
  <2> DEFINE I == {i \in Nat : i <= N => m[i] \in S}
  <2>1. 0 \in I
    <3> HIDE DEF m, N, S, base
    <3> QED BY <1>1, <1>7
  <2>2. ASSUME NEW i \in Nat, i \in I PROVE i + 1 \in I
    <3>1. SUFFICES ASSUME i + 1 <= N PROVE m[i + 1] \in S
      <4> HIDE DEF m, S, N, next
      <4> QED OBVIOUS
    <3>2. m[i] \in S /\ i + 1 \in 1..N /\ (i + 1) - 1 = i BY <1>0, <2>2, <3>1
    <3>3. m[i + 1] = next(m[i], i)
      <4> HIDE DEF m, N, next
      <4> QED BY <1>7, <3>2
    <3>4. i < n - 1 BY <1>0, <3>1
    <3>5. next(m[i], i) \in S
      <4> HIDE DEF m
      <4> QED BY <3>2, <3>4, ScanType
    <3> HIDE DEF m, next, S
    <3> QED BY <3>3, <3>5
  <2> HIDE DEF I
  <2>3. \A i \in Nat : i \in I BY <2>1, <2>2, Induction
  <2>4. \A i \in 0..N : m[i] \in S BY <2>3 DEF I
  <2> HIDE DEF N, S
  <2> QED BY <1>0, <1>6, <2>4
<1>9. RawSegments(T, L, n, b, threshold) =
        [ranges |-> PushRange(m[n - 1].ranges, m[n - 1].seg, m[n - 1].from, EndChunk(b, n)),
         ok |-> m[n - 1].ok]
  BY DEF RawSegments
<1> QED
  <2> HIDE DEF m
  <2> QED BY <1>7, <1>8, <1>9 DEF Scanned

(* After i rounds the ranges hold the chunks at the positions below q, and  *)
(* those from q to i are contiguous.                                        *)
ScanInv(a, b, n, i) ==
    /\ a.ok
    /\ \E q \in 0..i : /\ Runs(a.ranges, n, b, 0, q)
                       /\ a.from = (b + q) % n
                       /\ a.from + (i - q) = (b + i) % n

LEMMA OneRound ==
    ASSUME NEW cmd, NEW n \in Nat, n > 0, cmd.n = n, NEW b \in Chunks(n), RingFrom(cmd, b),
           NEW threshold, NEW i \in Nat, i < n - 1, NEW a \in Scans(n), ScanInv(a, b, n, i)
    PROVE  ScanInv(ScanChunk(cmd.T, cmd.L, n, b, threshold, a, i), b, n, i + 1)
<1>1. PICK q \in 0..i : /\ Runs(a.ranges, n, b, 0, q)
                        /\ a.from = (b + q) % n
                        /\ a.from + (i - q) = (b + i) % n
  BY DEF ScanInv
<1>2. b \in Nat /\ b < n BY DEF Chunks
<1>3. PICK chunk : chunk = (b + i) % n OBVIOUS
<1>4. PICK next : next = (b + i + 1) % n OBVIOUS
<1>5. chunk = IF b + i < n THEN b + i ELSE b + i - n
  <2>1. i \in 0..n OBVIOUS
  <2> QED BY <1>3, <2>1, Around
<1>6. next = IF b + i + 1 < n THEN b + i + 1 ELSE b + i + 1 - n
  <2>1. i + 1 \in 0..n /\ b + i + 1 = b + (i + 1) BY <1>2
  <2>2. (b + (i + 1)) % n = IF b + (i + 1) < n THEN b + (i + 1) ELSE b + (i + 1) - n
    BY <2>1, Around
  <2> QED BY <1>2, <1>4, <2>1, <2>2
<1>7. chunk \in Nat /\ next \in Nat /\ next < n BY <1>2, <1>5, <1>6
<1>8. a.seg \in Nat /\ a.from \in Nat BY DEF Scans, Chunks
<1>9. a.from + (i - q) = chunk BY <1>1, <1>3
<1>10. PICK ok : ok = (a.ok /\ cmd.T[next] - cmd.L[chunk] >= 0) OBVIOUS
<1>11. ok
  <2>1. i \in Chunks(n - 1) BY DEF Chunks
  <2>2. cmd.L[chunk] <= cmd.T[next] BY <1>3, <1>4, <2>1 DEF RingFrom
  <2>3. chunk \in Chunks(n) /\ next \in Chunks(n) BY <1>2, <1>5, <1>6, <1>7 DEF Chunks
  <2>4. cmd.L[chunk] \in Int /\ cmd.T[next] \in Int BY <2>3 DEF RingFrom
  <2>5. cmd.T[next] - cmd.L[chunk] >= 0 BY <2>2, <2>4
  <2>6. a.ok BY DEF ScanInv
  <2> QED BY <1>10, <2>5, <2>6, Zenon
<1>12. PICK rs : rs = IF chunk > next THEN PushRange(a.ranges, a.seg, a.from, n) ELSE a.ranges
  OBVIOUS
<1>13. PICK from : from = IF chunk > next THEN 0 ELSE a.from OBVIOUS
<1>14. PICK rs2 : rs2 = PushRange(rs, a.seg, from, next) OBVIOUS
<1>15. ScanChunk(cmd.T, cmd.L, n, b, threshold, a, i) =
         IF cmd.T[next] - cmd.L[chunk] > threshold
         THEN [ranges |-> rs2, seg |-> a.seg + 1, from |-> next, ok |-> ok]
         ELSE [ranges |-> rs, seg |-> a.seg, from |-> from, ok |-> ok]
  BY <1>3, <1>4, <1>10, <1>12, <1>13, <1>14 DEF ScanChunk
<1>16. q \in 0..n /\ i + 1 \in 0..(i + 1) /\ q \in 0..(i + 1) OBVIOUS
<1>17. /\ Runs(rs2, n, b, 0, i + 1)
       /\ \/ Runs(rs, n, b, 0, i + 1) /\ from = next
          \/ Runs(rs, n, b, 0, q) /\ from = (b + q) % n /\ from + (i + 1 - q) = next
  <2>1. CASE chunk > next
    <3>1. next = 0 /\ chunk = n - 1 BY <1>2, <1>5, <1>6, <2>1
    <3>2. a.from <= n /\ q + (n - a.from) = i + 1 BY <1>8, <1>9, <3>1
    <3>3. Runs(PushRange(a.ranges, a.seg, a.from, n), n, b, 0, q + (n - a.from))
      <4>1. n <= n /\ q + (n - a.from) <= n BY <3>2
      <4> QED BY <1>1, <1>8, <1>16, <3>2, <4>1, PushRuns
    <3>4. Runs(rs, n, b, 0, i + 1) BY <1>12, <2>1, <3>2, <3>3
    <3>5. from = 0 /\ rs2 = rs
      <4>1. from = 0 BY <1>13, <2>1
      <4>2. ~(from < next) BY <3>1, <4>1
      <4> QED BY <1>14, <4>1, <4>2 DEF PushRange
    <3> QED BY <3>1, <3>4, <3>5
  <2>2. CASE ~(chunk > next)
    <3>1. next = chunk + 1 BY <1>2, <1>5, <1>6, <2>2
    <3>2. a.from <= next /\ q + (next - a.from) = i + 1 /\ next <= n
      BY <1>7, <1>8, <1>9, <3>1
    <3>3. rs = a.ranges /\ from = a.from BY <1>12, <1>13, <2>2
    <3>4. Runs(PushRange(a.ranges, a.seg, a.from, next), n, b, 0, q + (next - a.from))
      <4>1. q + (next - a.from) <= n BY <3>2
      <4> QED BY <1>1, <1>7, <1>8, <1>16, <3>2, <4>1, PushRuns
    <3>5. Runs(rs2, n, b, 0, i + 1) BY <1>14, <3>2, <3>3, <3>4
    <3>6. from + (i + 1 - q) = next BY <1>8, <1>9, <3>1, <3>3
    <3> QED BY <1>1, <3>3, <3>5, <3>6
  <2> QED BY <2>1, <2>2
<1>18. next = (b + (i + 1)) % n
  <2>1. b + i + 1 = b + (i + 1) BY <1>2
  <2> QED BY <1>4, <2>1
<1>19. next + ((i + 1) - (i + 1)) = next BY <1>7
<1>20. CASE cmd.T[next] - cmd.L[chunk] > threshold
  <2>1. PICK x : x = ScanChunk(cmd.T, cmd.L, n, b, threshold, a, i) OBVIOUS
  <2>2. x.ok /\ x.ranges = rs2 /\ x.from = next BY <1>11, <1>15, <1>20, <2>1
  <2>3. ScanInv(x, b, n, i + 1) BY <1>16, <1>17, <1>18, <1>19, <2>2 DEF ScanInv
  <2> QED BY <2>1, <2>3
<1>21. CASE ~(cmd.T[next] - cmd.L[chunk] > threshold)
  <2>1. PICK x : x = ScanChunk(cmd.T, cmd.L, n, b, threshold, a, i) OBVIOUS
  <2>2. x.ok /\ x.ranges = rs /\ x.from = from BY <1>11, <1>15, <1>21, <2>1
  <2>3. CASE Runs(rs, n, b, 0, i + 1) /\ from = next
    <3>1. ScanInv(x, b, n, i + 1) BY <1>16, <1>18, <1>19, <2>2, <2>3 DEF ScanInv
    <3> QED BY <2>1, <3>1
  <2>4. CASE Runs(rs, n, b, 0, q) /\ from = (b + q) % n /\ from + (i + 1 - q) = next
    <3>1. ScanInv(x, b, n, i + 1) BY <1>16, <1>18, <2>2, <2>4 DEF ScanInv
    <3> QED BY <2>1, <3>1
  <2> QED BY <1>17, <2>3, <2>4
<1> QED BY <1>20, <1>21

(* All chunks of the ring, in the order of time.                            *)
LEMMA RawRuns ==
    ASSUME NEW cmd, NEW n \in Nat, n > 0, cmd.n = n, NEW b \in Chunks(n), RingFrom(cmd, b),
           NEW threshold
    PROVE  /\ RawSegments(cmd.T, cmd.L, n, b, threshold).ok
           /\ Runs(RawSegments(cmd.T, cmd.L, n, b, threshold).ranges, n, b, 0, n)
<1>1. PICK m \in [0..(n - 1) -> Scans(n)] : Scanned(m, cmd.T, cmd.L, n, b, threshold)
  BY ScansExist
<1>2. b \in Nat /\ b < n BY DEF Chunks
<1> DEFINE I == {i \in Nat : i <= n - 1 => ScanInv(m[i], b, n, i)}
<1>3. 0 \in I
  <2>1. m[0].ranges = <<>> /\ m[0].from = b /\ m[0].ok BY <1>1 DEF Scanned
  <2>2. 0 \in 0..n /\ 0 \in 0..0 OBVIOUS
  <2>3. (b + 0) % n = b
    <3>1. (b + 0) % n = IF b + 0 < n THEN b + 0 ELSE b + 0 - n BY <2>2, Around
    <3>2. PICK c : c = (b + 0) % n OBVIOUS
    <3> QED BY <1>2, <3>1, <3>2
  <2>4. Runs(<<>>, n, b, 0, 0) BY <2>2, NoRuns
  <2>5. b + (0 - 0) = b BY <1>2
  <2>6. ScanInv(m[0], b, n, 0) BY <2>1, <2>2, <2>3, <2>4, <2>5 DEF ScanInv
  <2> QED BY <2>6
<1>4. ASSUME NEW i \in Nat, i \in I PROVE i + 1 \in I
  <2>1. SUFFICES ASSUME i + 1 <= n - 1 PROVE ScanInv(m[i + 1], b, n, i + 1) OBVIOUS
  <2>2. i < n - 1 /\ i \in 0..(n - 1) /\ i + 1 \in 1..(n - 1) /\ (i + 1) - 1 = i BY <2>1
  <2>3. m[i + 1] = ScanChunk(cmd.T, cmd.L, n, b, threshold, m[i], i)
    <3>1. m[i + 1] = ScanChunk(cmd.T, cmd.L, n, b, threshold, m[(i + 1) - 1], (i + 1) - 1)
      BY <1>1, <2>2 DEF Scanned
    <3> QED BY <2>2, <3>1
  <2>4. m[i] \in Scans(n) /\ ScanInv(m[i], b, n, i) BY <1>1, <1>4, <2>2
  <2> QED BY <2>2, <2>3, <2>4, OneRound
<1> HIDE DEF I
<1>5. n - 1 \in I BY <1>3, <1>4, Induction
<1>6. PICK a \in Scans(n) : a = m[n - 1] BY <1>1
<1>7. ScanInv(a, b, n, n - 1) BY <1>5, <1>6 DEF I
<1>8. PICK q \in 0..(n - 1) : /\ Runs(a.ranges, n, b, 0, q)
                              /\ a.from = (b + q) % n
                              /\ a.from + ((n - 1) - q) = (b + (n - 1)) % n
  BY <1>7 DEF ScanInv
<1>9. PICK end : end = EndChunk(b, n) OBVIOUS
<1>10. a.seg \in Nat /\ a.from \in Nat /\ end \in Nat /\ end <= n
  BY <1>2, <1>9 DEF Scans, Chunks, EndChunk
<1>11. PICK last : last = (b + (n - 1)) % n OBVIOUS
<1>12. last + 1 = end
  <2>1. n - 1 \in 0..n OBVIOUS
  <2>2. last = IF b + (n - 1) < n THEN b + (n - 1) ELSE b + (n - 1) - n
    BY <1>11, <2>1, Around
  <2> QED BY <1>2, <1>9, <2>2 DEF EndChunk
<1>13. a.from <= end /\ q + (end - a.from) = n /\ q \in 0..n
  BY <1>8, <1>10, <1>11, <1>12
<1>14. Runs(PushRange(a.ranges, a.seg, a.from, end), n, b, 0, q + (end - a.from))
  <2>1. q + (end - a.from) <= n BY <1>13
  <2> QED BY <1>8, <1>10, <1>13, <2>1, PushRuns
<1>15. PICK raw : raw = RawSegments(cmd.T, cmd.L, n, b, threshold) OBVIOUS
<1>16. raw = [ranges |-> PushRange(a.ranges, a.seg, a.from, end), ok |-> a.ok]
  BY <1>1, <1>6, <1>9, <1>15 DEF Scanned
<1>17. a.ok BY <1>7 DEF ScanInv
<1> QED BY <1>13, <1>14, <1>15, <1>16, <1>17

(* collect_segments(): its first validation never fails, and its second one *)
(* only for a ring that begins at chunk 1.                                  *)
LEMMA Collected ==
    ASSUME NEW cmd, NEW n \in Nat, n >= MinChunks, cmd.n = n, NEW b \in Chunks(n),
           RingFrom(cmd, b), NEW threshold
    PROVE  /\ CollectSegments(cmd.T, cmd.L, n, threshold).scanned
           /\ Runs(CollectSegments(cmd.T, cmd.L, n, threshold).ranges, n, b, 1, n - 1)
           /\ b # 1 <=> CollectSegments(cmd.T, cmd.L, n, threshold).valid
<1>1. n >= 3 /\ n > 0 /\ b \in Nat /\ b < n BY DEF MinChunks, Chunks
<1>2. StartChunk(cmd.T, n) = b BY StartIsOldest
<1>3. PICK end : end = EndChunk(b, n) OBVIOUS
<1>4. PICK raw : raw = RawSegments(cmd.T, cmd.L, n, b, threshold) OBVIOUS
<1>5. PICK rs : rs = Trimmed(raw.ranges) OBVIOUS
<1>6. PICK found : found = CollectSegments(cmd.T, cmd.L, n, threshold) OBVIOUS
<1>7. /\ found.ranges = rs
      /\ found.scanned <=> raw.ok /\ ValidSegments(raw.ranges, b, end, n, n)
      /\ found.valid <=> ValidSegments(rs, (b + 1) % n, end - 1, n, n - 2)
  BY <1>2, <1>3, <1>4, <1>5, <1>6 DEF CollectSegments
<1>8. raw.ok /\ Runs(raw.ranges, n, b, 0, n) BY <1>1, <1>4, RawRuns
<1>9. Runs(rs, n, b, 1, n - 1) BY <1>5, <1>8, TrimmedRuns
<1>10. end = IF b = 0 THEN n ELSE b BY <1>3 DEF EndChunk
<1>11. ValidSegments(raw.ranges, b, end, n, n)
  <2>1. ValidSegments(raw.ranges, (b + 0) % n, raw.ranges[Len(raw.ranges)].end, n, n - 0)
    BY <1>1, <1>8, RunsAreValid
  <2>2. (b + 0) % n = b
    <3>1. 0 \in 0..n BY <1>1
    <3>2. (b + 0) % n = IF b + 0 < n THEN b + 0 ELSE b + 0 - n BY <1>1, <3>1, Around
    <3>3. PICK c : c = (b + 0) % n OBVIOUS
    <3> QED BY <1>1, <3>2, <3>3
  <2>3. PICK e : e = raw.ranges[Len(raw.ranges)].end OBVIOUS
  <2>4. e = IF b + n <= n THEN b + n ELSE b + n - n BY <1>1, <1>8, <2>3, LastEnd
  <2>5. e = end BY <1>1, <1>10, <2>4
  <2>6. n - 0 = n OBVIOUS
  <2> QED BY <2>1, <2>2, <2>3, <2>5, <2>6
<1>12. ASSUME b # 1 PROVE ValidSegments(rs, (b + 1) % n, end - 1, n, n - 2)
  <2>1. 1 < n - 1 /\ (n - 1) - 1 = n - 2 BY <1>1
  <2>2. ValidSegments(rs, (b + 1) % n, rs[Len(rs)].end, n, (n - 1) - 1)
    BY <1>1, <1>9, <2>1, RunsAreValid
  <2>3. PICK e : e = rs[Len(rs)].end OBVIOUS
  <2>4. e = IF b + (n - 1) <= n THEN b + (n - 1) ELSE b + (n - 1) - n
    BY <1>1, <1>9, <2>1, <2>3, LastEnd
  <2>5. e = end - 1 BY <1>1, <1>10, <1>12, <2>4
  <2> QED BY <2>1, <2>2, <2>3, <2>5
<1>13. ASSUME b = 1 PROVE ~ValidSegments(rs, (b + 1) % n, end - 1, n, n - 2)
  <2>1. 1 < n - 1 BY <1>1
  <2>2. PICK e : e = rs[Len(rs)].end OBVIOUS
  <2>3. e = IF b + (n - 1) <= n THEN b + (n - 1) ELSE b + (n - 1) - n
    BY <1>1, <1>9, <2>1, <2>2, LastEnd
  <2>4. e # end - 1 BY <1>1, <1>10, <1>13, <2>3
  <2>5. Len(rs) + 1 # 1 /\ (Len(rs) + 1) - 1 = Len(rs)
    <3>1. Len(rs) \in DOMAIN rs BY <1>1, <1>9, <2>1, LastEnd
    <3>2. rs \in Seq(Ranges) BY <1>1, <1>9, RunsBounds
    <3> QED BY <3>1, <3>2
  <2> QED BY <2>2, <2>4, <2>5 DEF ValidSegments
<1> QED BY <1>6, <1>7, <1>8, <1>9, <1>11, <1>12, <1>13

-----------------------------------------------------------------------------
(* The chunks of the ranges.                                                *)

(* The chunks at the positions p to q - 1.                                  *)
Chain(b, n, p, q) == [j \in 1..(q - p) |-> (b + (p + j - 1)) % n]
LEMMA AroundJoin ==
    ASSUME NEW n \in Nat, n > 0, NEW b \in Chunks(n), NEW p \in 0..n, NEW x \in 0..n,
           NEW q \in 0..n, p <= x, x <= q
    PROVE  Chain(b, n, p, x) \o Chain(b, n, x, q) = Chain(b, n, p, q)
<1> DEFINE s == Chain(b, n, p, x)
           t == Chain(b, n, x, q)
           u == Chain(b, n, p, q)
<1>1. s \in Seq(Int) /\ Len(s) = x - p
  <2>1. \A j \in 1..(x - p) : (b + (p + j - 1)) % n \in Int BY DEF Chunks
  <2> QED BY <2>1 DEF Chain
<1>2. t \in Seq(Int) /\ Len(t) = q - x
  <2>1. \A j \in 1..(q - x) : (b + (x + j - 1)) % n \in Int BY DEF Chunks
  <2> QED BY <2>1 DEF Chain
<1>3. u \in Seq(Int) /\ Len(u) = q - p
  <2>1. \A j \in 1..(q - p) : (b + (p + j - 1)) % n \in Int BY DEF Chunks
  <2> QED BY <2>1 DEF Chain
<1>4. s \o t \in Seq(Int) /\ Len(s \o t) = q - p BY <1>1, <1>2
<1>5. ASSUME NEW j \in 1..(q - p) PROVE (s \o t)[j] = u[j]
  <2>1. u[j] = (b + (p + j - 1)) % n BY DEF Chain
  <2>2. CASE j <= x - p
    <3>1. j \in 1..(x - p) BY <2>2
    <3>2. s[j] = (b + (p + j - 1)) % n BY <3>1 DEF Chain
    <3>3. (s \o t)[j] = s[j]
      <4> HIDE DEF s, t
      <4> QED BY <1>1, <1>2, <3>1
    <3> QED BY <2>1, <3>2, <3>3
  <2>3. CASE ~(j <= x - p)
    <3>1. j - (x - p) \in 1..(q - x) BY <2>3
    <3>2. t[j - (x - p)] = (b + (x + (j - (x - p)) - 1)) % n BY <3>1 DEF Chain
    <3>3. x + (j - (x - p)) - 1 = p + j - 1 OBVIOUS
    <3>4. (s \o t)[j] = t[j - (x - p)]
      <4>1. j \in 1..(Len(s) + Len(t)) /\ ~(j <= Len(s)) BY <1>1, <1>2, <2>3
      <4>2. (s \o t)[j] = t[j - Len(s)]
        <5> HIDE DEF s, t
        <5> QED BY <1>1, <1>2, <4>1
      <4> QED BY <1>1, <4>2
    <3> QED BY <2>1, <3>2, <3>3, <3>4
  <2> QED BY <2>2, <2>3
<1> HIDE DEF s, t, u
<1>6. Len(u) = Len(s \o t) BY <1>3, <1>4
<1>7. \A j \in 1..Len(u) : u[j] = (s \o t)[j] BY <1>3, <1>5
<1>8. u = s \o t BY <1>3, <1>4, <1>6, <1>7, SeqEqual
<1> QED BY <1>8 DEF s, t, u

OfRange(r) == [k \in 1..(r.end - r.first) |-> r.first + k - 1]
LEMMA OfRangeType == ASSUME NEW r \in Ranges PROVE OfRange(r) \in Seq(Int)
<1>1. r.end \in Int /\ r.first \in Int BY DEF Ranges
<1>2. CASE r.end - r.first < 0
  <2>1. OfRange(r) = <<>> BY <1>1, <1>2 DEF OfRange
  <2> QED BY <2>1
<1>3. CASE ~(r.end - r.first < 0)
  <2>1. r.end - r.first \in Nat BY <1>1, <1>3
  <2>2. OfRange(r) \in [1..(r.end - r.first) -> Int] BY <1>1 DEF OfRange
  <2> QED BY <2>1, <2>2
<1> QED BY <1>2, <1>3

Copied(f, rs) ==
    /\ f[0] = <<>>
    /\ \A i \in 1..Len(rs) : f[i] = f[i - 1] \o OfRange(rs[i])
    /\ ChunksOf(rs) = f[Len(rs)]
LEMMA CopiesExist ==
    ASSUME NEW rs \in Seq(Ranges)
    PROVE  \E f \in [0..Len(rs) -> Seq(Int)] : Copied(f, rs)
<1> DEFINE N == Len(rs)
           S == Seq(Int)
           step == [x \in (1..N) \X S |-> x[2] \o OfRange(rs[x[1]])]
           Is(g) == g = [i \in 0..N |-> IF i = 0 THEN <<>> ELSE g[i - 1] \o OfRange(rs[i])]
<1>0. N \in Nat /\ \A i \in 1..N : OfRange(rs[i]) \in S
  <2>1. \A i \in 1..N : rs[i] \in Ranges OBVIOUS
  <2> QED BY <2>1, OfRangeType
<1>1. <<>> \in S OBVIOUS
<1>2. step \in [(1..N) \X S -> S]
  <2>1. \A i \in 1..N, a \in S : a \o OfRange(rs[i]) \in S BY <1>0
  <2> HIDE DEF N
  <2> QED BY <2>1
<1>3. PICK g \in [0..N -> S] : g[0] = <<>> /\ \A i \in 1..N : g[i] = step[<<i, g[i - 1]>>]
  <2> HIDE DEF step, N, S
  <2>1. Iterates(step, <<>>, N, S) BY <1>0, <1>1, <1>2, FiniteRecursion
  <2> QED BY <2>1 DEF Iterates
<1>4. \A i \in 1..N : g[i] = g[i - 1] \o OfRange(rs[i])
  <2> SUFFICES ASSUME NEW i \in 1..N PROVE g[i] = g[i - 1] \o OfRange(rs[i]) OBVIOUS
  <2> HIDE DEF N, S
  <2>1. i - 1 \in 0..N BY <1>0
  <2>2. <<i, g[i - 1]>> \in (1..N) \X S BY <1>3, <2>1
  <2>3. step[<<i, g[i - 1]>>] = g[i - 1] \o OfRange(rs[i]) BY <2>2
  <2> HIDE DEF step
  <2> QED BY <1>3, <2>3
<1>5. Is(g)
  <2>1. \A i \in 0..N : i # 0 => i \in 1..N BY <1>0
  <2> HIDE DEF N, S
  <2> QED BY <1>3, <1>4, <2>1
<1> DEFINE f == CHOOSE x : Is(x)
<1>6. Is(f)
  <2> HIDE DEF Is
  <2> QED BY <1>5
<1>7. f[0] = <<>> /\ \A i \in 1..N : f[i] = f[i - 1] \o OfRange(rs[i])
  <2>1. 0 \in 0..N /\ \A i \in 1..N : i \in 0..N /\ i # 0 BY <1>0
  <2> HIDE DEF f, N
  <2> QED BY <1>6, <2>1
<1>8. f \in [0..N -> S]
  <2> DEFINE I == {i \in Nat : i <= N => f[i] \in S}
  <2>1. 0 \in I
    <3> HIDE DEF f, N, S
    <3> QED BY <1>1, <1>7
  <2>2. ASSUME NEW i \in Nat, i \in I PROVE i + 1 \in I
    <3>1. SUFFICES ASSUME i + 1 <= N PROVE f[i + 1] \in S
      <4> HIDE DEF f, S, N
      <4> QED OBVIOUS
    <3>2. f[i] \in S /\ i + 1 \in 1..N /\ (i + 1) - 1 = i BY <1>0, <2>2, <3>1
    <3>3. f[i + 1] = f[i] \o OfRange(rs[i + 1])
      <4> HIDE DEF f, N
      <4> QED BY <1>7, <3>2
    <3>4. PICK a \in S : a = f[i] BY <3>2
    <3>5. a \o OfRange(rs[i + 1]) \in S BY <1>0, <3>2
    <3> HIDE DEF f, S, N
    <3> QED BY <3>3, <3>4, <3>5
  <2> HIDE DEF I
  <2>3. \A i \in Nat : i \in I BY <2>1, <2>2, Induction
  <2>4. \A i \in 0..N : f[i] \in S
    <3> HIDE DEF f, S, N
    <3> QED BY <1>0, <2>3 DEF I
  <2> HIDE DEF N, S
  <2> QED BY <1>6, <2>4
<1>9. ChunksOf(rs) = f[N] BY DEF ChunksOf, OfRange
<1> QED
  <2> HIDE DEF f
  <2> QED BY <1>7, <1>8, <1>9 DEF Copied

(* Ranges that follow each other are copied in the order of time.           *)
LEMMA ChunksOfRuns ==
    ASSUME NEW n \in Nat, n > 0, NEW b \in Chunks(n), NEW rs, NEW p, NEW q,
           Runs(rs, n, b, p, q)
    PROVE  ChunksOf(rs) = Chain(b, n, p, q)
<1> DEFINE k == Len(rs)
<1>1. PICK pos \in Positions(rs, n) :
        pos[1] = p /\ pos[Len(rs) + 1] = q /\ RunsAt(rs, n, b, pos)
  BY DEF Runs
<1>2. rs \in Seq(Ranges) /\ p \in 0..n /\ q \in 0..n BY RunsBounds
<1>3. k \in Nat /\ DOMAIN rs = 1..k BY <1>2
<1>4. PICK f \in [0..Len(rs) -> Seq(Int)] : Copied(f, rs) BY <1>2, CopiesExist
<1>5. pos \in [1..(k + 1) -> 0..n] BY <1>1 DEF Positions
<1> DEFINE I == {i \in Nat : i <= k => pos[i + 1] >= p /\ f[i] = Chain(b, n, p, pos[i + 1])}
<1>6. 0 \in I
  <2>1. f[0] = <<>> /\ pos[0 + 1] = p /\ p >= p BY <1>1, <1>2, <1>4 DEF Copied
  <2>2. Chain(b, n, p, p) = <<>>
    <3>1. 1..(p - p) = {} BY <1>2
    <3> QED BY <3>1 DEF Chain
  <2> QED BY <2>1, <2>2
<1>7. ASSUME NEW i \in Nat, i \in I PROVE i + 1 \in I
  <2>1. SUFFICES ASSUME i + 1 <= k
                 PROVE  /\ pos[(i + 1) + 1] >= p
                        /\ f[i + 1] = Chain(b, n, p, pos[(i + 1) + 1])
    OBVIOUS
  <2>2. i + 1 \in DOMAIN rs /\ i + 1 \in 1..(k + 1) /\ (i + 1) + 1 \in 1..(k + 1)
        /\ i + 1 \in 1..k /\ (i + 1) - 1 = i /\ i <= k
    BY <1>3, <2>1
  <2>3. PICK x \in 0..n : x = pos[i + 1] BY <1>5, <2>2
  <2>4. PICK y \in 0..n : y = pos[(i + 1) + 1] BY <1>5, <2>2
  <2>5. x >= p /\ f[i] = Chain(b, n, p, x) BY <1>7, <2>2, <2>3
  <2>6. PICK r \in Ranges : r = rs[i + 1] BY <1>2, <2>2
  <2>7. x < y /\ r.first = (b + x) % n /\ r.end = r.first + (y - x) /\ r.end <= n
    BY <1>1, <2>2, <2>3, <2>4, <2>6 DEF RunsAt
  <2>8. b \in Nat /\ b < n /\ r.first \in Nat /\ r.end \in Nat BY DEF Chunks, Ranges
  <2>9. r.first = IF b + x < n THEN b + x ELSE b + x - n BY <2>7, Around
  <2>10. OfRange(r) = Chain(b, n, x, y)
    <3>1. r.end - r.first = y - x BY <2>7, <2>8
    <3>2. ASSUME NEW j \in 1..(y - x) PROVE r.first + j - 1 = (b + (x + j - 1)) % n
      <4>1. x + j - 1 \in 0..n OBVIOUS
      <4>2. PICK z \in 0..n : z = x + j - 1 BY <4>1
      <4>3. (b + z) % n = IF b + z < n THEN b + z ELSE b + z - n BY Around
      <4>4. r.first + j - 1 = IF b + z < n THEN b + z ELSE b + z - n
        BY <2>7, <2>8, <2>9, <4>2
      <4> QED BY <4>2, <4>3, <4>4
    <3> QED BY <3>1, <3>2 DEF OfRange, Chain
  <2>11. f[i + 1] = f[i] \o OfRange(r)
    <3>1. f[i + 1] = f[(i + 1) - 1] \o OfRange(rs[i + 1]) BY <1>4, <2>2 DEF Copied
    <3> QED BY <2>2, <2>6, <3>1
  <2>12. Chain(b, n, p, x) \o Chain(b, n, x, y) = Chain(b, n, p, y)
    <3>1. p <= x /\ x <= y
      <4>1. x >= p BY <2>5
      <4> QED BY <1>2, <2>7, <4>1
    <3> QED BY <1>2, <3>1, AroundJoin
  <2>13. y >= p BY <1>2, <2>5, <2>7
  <2> HIDE DEF k
  <2> QED BY <2>4, <2>5, <2>10, <2>11, <2>12, <2>13
<1> HIDE DEF I
<1>8. k \in I BY <1>3, <1>6, <1>7, Induction
<1>9. f[k] = Chain(b, n, p, q) BY <1>1, <1>3, <1>8 DEF I
<1> QED BY <1>4, <1>9 DEF Copied

(* A segment is a prefix of the ranges that are left.                       *)
LEMMA SplitRuns ==
    ASSUME NEW n \in Nat, n > 0, NEW b \in Chunks(n), NEW rs, NEW p, NEW q,
           Runs(rs, n, b, p, q), NEW k \in 1..Len(rs)
    PROVE  \E x \in 0..n : /\ Runs(SubSeq(rs, 1, k), n, b, p, x)
                           /\ Runs(SubSeq(rs, k + 1, Len(rs)), n, b, x, q)
<1> DEFINE N == Len(rs)
<1>1. PICK pos \in Positions(rs, n) :
        pos[1] = p /\ pos[Len(rs) + 1] = q /\ RunsAt(rs, n, b, pos)
  BY DEF Runs
<1>2. rs \in Seq(Ranges) /\ p \in 0..n /\ q \in 0..n BY RunsBounds
<1>3. N \in Nat /\ DOMAIN rs = 1..N /\ k \in Nat /\ k >= 1 /\ k <= N BY <1>2
<1>4. pos \in [1..(N + 1) -> 0..n] BY <1>1 DEF Positions
<1>5. PICK x \in 0..n : x = pos[k + 1]
  <2>1. k + 1 \in 1..(N + 1) BY <1>3
  <2> QED BY <1>4, <2>1
<1>6. Runs(SubSeq(rs, 1, k), n, b, p, x)
  <2> DEFINE rs2 == SubSeq(rs, 1, k)
             pos2 == [i \in 1..(k + 1) |-> pos[i]]
  <2>1. /\ rs2 \in Seq(Ranges) /\ Len(rs2) = k /\ DOMAIN rs2 = 1..k
        /\ \A i \in 1..k : rs2[i] = rs[i] /\ i \in DOMAIN rs
    BY <1>2, <1>3
  <2>2. pos2 \in [1..(k + 1) -> 0..n]
    <3>1. \A i \in 1..(k + 1) : pos[i] \in 0..n
      <4> HIDE DEF N
      <4> QED BY <1>3, <1>4
    <3> QED BY <3>1
  <2>3. pos2[1] = p /\ pos2[k + 1] = x BY <1>1, <1>3, <1>5
  <2>4. \A i \in 1..k : pos2[i] = pos[i] /\ pos2[i + 1] = pos[i + 1]
    <3>1. \A i \in 1..k : i \in 1..(k + 1) /\ i + 1 \in 1..(k + 1) BY <1>3
    <3> QED BY <3>1
  <2> HIDE DEF rs2, pos2, N
  <2>5. pos2 \in Positions(rs2, n) BY <2>1, <2>2 DEF Positions
  <2>6. RunsAt(rs2, n, b, pos2)
    <3> SUFFICES ASSUME NEW i \in 1..k
                 PROVE  /\ pos2[i] < pos2[i + 1]
                        /\ rs2[i].first = (b + pos2[i]) % n
                        /\ rs2[i].end = rs2[i].first + (pos2[i + 1] - pos2[i])
                        /\ rs2[i].end <= n
      BY <2>1 DEF RunsAt
    <3>1. rs2[i] = rs[i] /\ i \in DOMAIN rs BY <2>1
    <3>2. pos2[i] = pos[i] /\ pos2[i + 1] = pos[i + 1] BY <2>4
    <3> QED BY <1>1, <3>1, <3>2 DEF RunsAt
  <2>7. pos2[Len(rs2) + 1] = x BY <2>1, <2>3
  <2>8. Runs(rs2, n, b, p, x) BY <2>1, <2>3, <2>5, <2>6, <2>7 DEF Runs
  <2> QED BY <2>8 DEF rs2
<1>7. Runs(SubSeq(rs, k + 1, N), n, b, x, q)
  <2> DEFINE rs2 == SubSeq(rs, k + 1, N)
             pos2 == [i \in 1..(N - k + 1) |-> pos[k + i]]
  <2>1. /\ rs2 \in Seq(Ranges) /\ Len(rs2) = N - k /\ DOMAIN rs2 = 1..(N - k)
        /\ \A i \in 1..(N - k) : rs2[i] = rs[k + i] /\ k + i \in DOMAIN rs
    <3>1. rs2 \in Seq(Ranges) BY <1>2, <1>3
    <3>2. Len(rs2) = N - k
      <4>1. \A i \in (k + 1)..N : rs[i] \in Ranges BY <1>2, <1>3
      <4>2. Len(rs2) = IF k + 1 <= N THEN N - (k + 1) + 1 ELSE 0
        <5>1. k + 1 \in Int /\ N \in Int BY <1>3
        <5> QED BY <4>1, <5>1, SubSeqProperties
      <4> HIDE DEF rs2, N
      <4> QED BY <1>3, <4>2
    <3>3. ASSUME NEW i \in 1..(N - k) PROVE rs2[i] = rs[k + i] /\ k + i \in DOMAIN rs
      <4>1. k + i \in 1..N /\ (k + 1) + i - 1 = k + i BY <1>3
      <4>2. i \in 1..(N - (k + 1) + 1) BY <1>3
      <4>3. rs2[i] = rs[(k + 1) + i - 1] BY <1>2, <1>3, <4>2
      <4> HIDE DEF rs2, N
      <4> QED BY <1>3, <4>1, <4>3
    <3>4. DOMAIN rs2 = 1..(N - k)
      <4> HIDE DEF rs2, N
      <4> QED BY <3>1, <3>2
    <3> HIDE DEF rs2, N
    <3> QED BY <3>1, <3>2, <3>3, <3>4
  <2>2. pos2 \in [1..(N - k + 1) -> 0..n]
    <3>1. \A i \in 1..(N - k + 1) : k + i \in 1..(N + 1) BY <1>3
    <3>2. \A i \in 1..(N - k + 1) : pos[k + i] \in 0..n BY <1>4, <3>1
    <3> QED BY <3>2
  <2>3. pos2[1] = x /\ pos2[N - k + 1] = q
    <3>1. 1 \in 1..(N - k + 1) /\ N - k + 1 \in 1..(N - k + 1) /\ k + (N - k + 1) = N + 1 BY <1>3
    <3>2. pos2[1] = pos[k + 1] /\ pos2[N - k + 1] = pos[k + (N - k + 1)] BY <3>1
    <3> HIDE DEF pos2
    <3> QED BY <1>1, <1>5, <3>1, <3>2
  <2>4. \A i \in 1..(N - k) : pos2[i] = pos[k + i] /\ pos2[i + 1] = pos[(k + i) + 1]
    <3> SUFFICES ASSUME NEW i \in 1..(N - k)
                 PROVE pos2[i] = pos[k + i] /\ pos2[i + 1] = pos[(k + i) + 1]
      OBVIOUS
    <3>1. i \in 1..(N - k + 1) /\ i + 1 \in 1..(N - k + 1) /\ k + (i + 1) = (k + i) + 1 BY <1>3
    <3>2. pos2[i] = pos[k + i] /\ pos2[i + 1] = pos[k + (i + 1)] BY <3>1
    <3> HIDE DEF pos2
    <3> QED BY <3>1, <3>2
  <2> HIDE DEF rs2, pos2
  <2>5. pos2 \in Positions(rs2, n) BY <2>1, <2>2 DEF Positions
  <2>6. RunsAt(rs2, n, b, pos2)
    <3> SUFFICES ASSUME NEW i \in 1..(N - k)
                 PROVE  /\ pos2[i] < pos2[i + 1]
                        /\ rs2[i].first = (b + pos2[i]) % n
                        /\ rs2[i].end = rs2[i].first + (pos2[i + 1] - pos2[i])
                        /\ rs2[i].end <= n
      BY <2>1 DEF RunsAt
    <3>1. rs2[i] = rs[k + i] /\ k + i \in DOMAIN rs BY <2>1
    <3>2. pos2[i] = pos[k + i] /\ pos2[i + 1] = pos[(k + i) + 1] BY <2>4
    <3> HIDE DEF N
    <3> QED BY <1>1, <3>1, <3>2 DEF RunsAt
  <2>7. pos2[Len(rs2) + 1] = q BY <2>1, <2>3
  <2> HIDE DEF N
  <2>8. Runs(rs2, n, b, x, q) BY <2>1, <2>3, <2>5, <2>6, <2>7 DEF Runs
  <2> QED BY <2>8 DEF rs2
<1> QED BY <1>6, <1>7

(* The first segment is there when a range is left.                         *)
Segmented(ranges, k) ==
    /\ \A i \in 1..k : ranges[i].seg = ranges[1].seg
    /\ k < Len(ranges) => ranges[k + 1].seg # ranges[1].seg
LEMMA SegmentOf ==
    ASSUME NEW rs \in Seq(Ranges), rs # <<>>
    PROVE  SegmentLen(rs) \in 1..Len(rs)
<1> DEFINE N == Len(rs)
           P(k) == Segmented(rs, k)
<1>1. N \in Nat /\ N >= 1 OBVIOUS
<1>2. \E k \in 1..N : P(k)
  <2> SUFFICES ASSUME ~ \E k \in 1..N : P(k) PROVE FALSE OBVIOUS
  <2> DEFINE I == {i \in Nat : i < N => \A j \in 1..(i + 1) : rs[j].seg = rs[1].seg}
  <2>1. 0 \in I OBVIOUS
  <2>2. ASSUME NEW i \in Nat, i \in I PROVE i + 1 \in I
    <3>1. SUFFICES ASSUME i + 1 < N PROVE \A j \in 1..((i + 1) + 1) : rs[j].seg = rs[1].seg OBVIOUS
    <3>2. \A j \in 1..(i + 1) : rs[j].seg = rs[1].seg BY <1>1, <2>2, <3>1
    <3>3. i + 1 \in 1..N BY <1>1, <3>1
    <3>4. rs[(i + 1) + 1].seg = rs[1].seg BY <3>2, <3>3 DEF Segmented
    <3> HIDE DEF N
    <3> QED BY <3>2, <3>4
  <2> HIDE DEF I
  <2>3. N - 1 \in Nat /\ N - 1 < N /\ (N - 1) + 1 = N BY <1>1
  <2>4. N - 1 \in I BY <2>1, <2>2, <2>3, Induction
  <2>5. \A j \in 1..N : rs[j].seg = rs[1].seg BY <2>3, <2>4 DEF I
  <2>6. N \in 1..N /\ ~(N < N) BY <1>1
  <2> QED BY <2>5, <2>6 DEF Segmented
<1>3. SegmentLen(rs) = CHOOSE k \in 1..N : P(k) BY DEF SegmentLen, Segmented
<1> HIDE DEF N, P
<1>4. SegmentLen(rs) \in 1..N BY <1>2, <1>3
<1> QED BY <1>4 DEF N

-----------------------------------------------------------------------------
(* What was fed to the recorder.                                            *)

(* The chunks up to position m, and the ranges that are left from there to  *)
(* the last but one.                                                        *)
Feeding(n, b, m) ==
    /\ fed = Chain(b, n, 1, m)
    /\ phase = "rebuilding" => Runs(todo, n, b, m, n - 1) /\ todo # <<>>
    /\ phase = "rebuilt" => m = n - 1
RebuildInv ==
    /\ command \in Commands
    /\ \/ /\ fed = <<>> /\ phase \notin {"rebuilding", "rebuilt"}
          /\ phase = "panicked" => command # NoCommand /\ Oldest(command, 1)
       \/ /\ phase \in {"rebuilding", "rebuilt", "exit"}
          /\ command # NoCommand /\ command.n \in Nat /\ command.n >= MinChunks
          /\ \E b \in Chunks(command.n) :
                /\ RingFrom(command, b)
                /\ \E m \in 1..(command.n - 1) : Feeding(command.n, b, m)

LEMMA NothingFed ==
    ASSUME NEW n \in Nat, NEW b
    PROVE  Chain(b, n, 1, 1) = <<>>
<1>1. 1..(1 - 1) = {} OBVIOUS
<1> QED BY <1>1 DEF Chain

LEMMA OldestAt ==
    ASSUME NEW cmd, NEW n \in Nat, n > 0, cmd.n = n, NEW b \in Chunks(n), RingFrom(cmd, b),
           NEW c \in Chunks(n)
    PROVE  /\ Oldest(cmd, c) <=> Pos(b, n, c) = 0
           /\ Newest(cmd, c) <=> Pos(b, n, c) = n - 1
<1>1. \A d \in Chunks(n) : /\ Pos(b, n, d) \in 0..(n - 1)
                           /\ cmd.T[c] < cmd.T[d] <=> Pos(b, n, c) < Pos(b, n, d)
                           /\ cmd.T[d] < cmd.T[c] <=> Pos(b, n, d) < Pos(b, n, c)
                           /\ cmd.T[c] \in Int /\ cmd.T[d] \in Int
  <2> SUFFICES ASSUME NEW d \in Chunks(n)
               PROVE  /\ Pos(b, n, d) \in 0..(n - 1)
                      /\ cmd.T[c] < cmd.T[d] <=> Pos(b, n, c) < Pos(b, n, d)
                      /\ cmd.T[d] < cmd.T[c] <=> Pos(b, n, d) < Pos(b, n, c)
                      /\ cmd.T[c] \in Int /\ cmd.T[d] \in Int
    OBVIOUS
  <2>1. Pos(b, n, d) \in 0..(n - 1) BY PosOf DEF Chunks
  <2>2. cmd.T[c] < cmd.T[d] <=> Pos(b, n, c) < Pos(b, n, d) BY TimeFollowsPos
  <2>3. cmd.T[d] < cmd.T[c] <=> Pos(b, n, d) < Pos(b, n, c) BY TimeFollowsPos
  <2>4. cmd.T[c] \in Int /\ cmd.T[d] \in Int BY DEF RingFrom
  <2> QED BY <2>1, <2>2, <2>3, <2>4
<1>2. b \in Chunks(n) /\ Pos(b, n, b) = 0
  <2>1. b \in Int BY DEF Chunks
  <2> QED BY <2>1 DEF Pos
<1>3. PICK e \in Chunks(n) : Pos(b, n, e) = n - 1
  <2>1. b \in Nat /\ b < n BY DEF Chunks
  <2>2. PICK e : e = IF b = 0 THEN n - 1 ELSE b - 1 OBVIOUS
  <2>3. e \in Chunks(n) BY <2>1, <2>2 DEF Chunks
  <2>4. Pos(b, n, e) = n - 1 BY <2>1, <2>2 DEF Pos
  <2> QED BY <2>3, <2>4
<1>4. PICK i \in 0..(n - 1) : i = Pos(b, n, c) BY <1>1
<1>5. Oldest(cmd, c) <=> i = 0
  <2>1. ASSUME i = 0, NEW d \in Chunks(n) PROVE cmd.T[c] <= cmd.T[d]
    <3>1. PICK j \in 0..(n - 1) : j = Pos(b, n, d) BY <1>1
    <3>2. ~(j < i) BY <2>1
    <3>3. ~(cmd.T[d] < cmd.T[c]) BY <1>1, <1>4, <3>1, <3>2
    <3>4. cmd.T[c] \in Int /\ cmd.T[d] \in Int BY <1>1
    <3> QED BY <3>3, <3>4
  <2>2. ASSUME i # 0 PROVE cmd.T[b] < cmd.T[c]
    <3>1. 0 < i BY <2>2
    <3> QED BY <1>1, <1>2, <1>4, <3>1
  <2>3. cmd.T[c] \in Int /\ cmd.T[b] \in Int BY <1>1, <1>2
  <2>4. i # 0 => ~(cmd.T[c] <= cmd.T[b]) BY <2>2, <2>3
  <2> QED BY <1>2, <2>1, <2>4 DEF Oldest
<1>6. Newest(cmd, c) <=> i = n - 1
  <2>1. ASSUME i = n - 1, NEW d \in Chunks(n) PROVE cmd.T[c] >= cmd.T[d]
    <3>1. PICK j \in 0..(n - 1) : j = Pos(b, n, d) BY <1>1
    <3>2. ~(i < j) BY <2>1
    <3>3. ~(cmd.T[c] < cmd.T[d]) BY <1>1, <1>4, <3>1, <3>2
    <3>4. cmd.T[c] \in Int /\ cmd.T[d] \in Int BY <1>1
    <3> QED BY <3>3, <3>4
  <2>2. ASSUME i # n - 1 PROVE cmd.T[c] < cmd.T[e]
    <3>1. i < n - 1 BY <2>2
    <3> QED BY <1>1, <1>3, <1>4, <3>1
  <2>3. cmd.T[c] \in Int /\ cmd.T[e] \in Int BY <1>1, <1>3
  <2>4. i # n - 1 => ~(cmd.T[c] >= cmd.T[e]) BY <2>2, <2>3
  <2> QED BY <1>3, <2>1, <2>4 DEF Newest
<1> QED BY <1>4, <1>5, <1>6

LEMMA ScanFinds ==
    ASSUME RebuildInv, Scan
    PROVE  RebuildInv'
<1>1. /\ phase = "loaded" /\ command # NoCommand /\ command \in Commands /\ fed = <<>>
      /\ command' = command /\ fed' = fed
  BY DEF RebuildInv, Scan
<1>2. PICK n : n = command.n OBVIOUS
<1>3. PICK found : found = CollectSegments(command.T, command.L, n, Threshold) OBVIOUS
<1>4. phase' \in {"panicked", "exit", "rebuilding"} BY DEF Scan
<1>5. CASE phase' = "exit"
  BY <1>1, <1>5 DEF RebuildInv
<1>6. CASE phase' # "exit"
  <2>1. /\ n >= MinChunks
        /\ phase' = "panicked" => ~(found.scanned /\ found.valid)
        /\ phase' = "rebuilding" => todo' = found.ranges
    BY <1>2, <1>3, <1>6 DEF Scan
  <2>2. n \in Nat /\ n >= 3 /\ n > 0 BY <1>1, <1>2, <2>1, CommandsAssumption DEF MinChunks
  <2>3. PICK b \in Chunks(n) : RingFrom(command, b) BY <1>1, <1>2, <2>2, CommandsAssumption
  <2>4. found.scanned /\ Runs(found.ranges, n, b, 1, n - 1) /\ (b # 1 => found.valid)
    BY <1>2, <1>3, <2>1, <2>2, <2>3, Collected
  <2>5. CASE phase' = "panicked"
    <3>1. b = 1 BY <2>1, <2>4, <2>5
    <3>2. Oldest(command, b) <=> Pos(b, n, b) = 0 BY <1>2, <2>2, <2>3, OldestAt
    <3>3. Pos(b, n, b) = 0 BY <3>1 DEF Pos
    <3>4. Oldest(command, 1) BY <3>1, <3>2, <3>3
    <3>5. Oldest(command, 1)' BY <1>1, <3>4 DEF Oldest
    <3> QED BY <1>1, <2>5, <3>5 DEF RebuildInv
  <2>6. CASE phase' = "rebuilding"
    <3>1. fed' = Chain(b, n, 1, 1) BY <1>1, <2>2, NothingFed
    <3>2. todo' # <<>>
      <4>1. found.ranges = <<>> <=> 1 = n - 1 BY <2>2, <2>4, RunsBounds
      <4>2. 1 # n - 1 BY <2>2
      <4> QED BY <2>1, <2>6, <4>1, <4>2
    <3>3. Feeding(n, b, 1)' BY <2>1, <2>4, <2>6, <3>1, <3>2 DEF Feeding
    <3>4. 1 \in 1..(n - 1) BY <2>2
    <3>5. command'.n = n BY <1>1, <1>2
    <3>6. RingFrom(command, b)' BY <1>1, <2>3 DEF RingFrom
    <3> QED BY <1>1, <2>1, <2>2, <2>6, <3>3, <3>4, <3>5, <3>6 DEF RebuildInv
  <2> QED BY <1>4, <1>6, <2>5, <2>6
<1> QED BY <1>5, <1>6

LEMMA RebuildGoesOn ==
    ASSUME RebuildInv, Rebuild
    PROVE  RebuildInv'
<1>1. /\ phase = "rebuilding" /\ command' = command
      /\ command # NoCommand /\ command \in Commands
      /\ command.n \in Nat /\ command.n >= MinChunks
  BY DEF RebuildInv, Rebuild
<1>2. PICK n \in Nat : n = command.n BY <1>1
<1>3. n >= 3 /\ n > 0 BY <1>1, <1>2 DEF MinChunks
<1>4. PICK b \in Chunks(n) :
        RingFrom(command, b) /\ \E m \in 1..(n - 1) : Feeding(n, b, m)
  BY <1>1, <1>2 DEF RebuildInv
<1>5. PICK m \in 1..(n - 1) : Feeding(n, b, m) BY <1>4
<1>6. PICK rs : rs = todo OBVIOUS
<1>7. fed = Chain(b, n, 1, m) /\ Runs(rs, n, b, m, n - 1) /\ rs # <<>>
  BY <1>1, <1>5, <1>6 DEF Feeding
<1>8. rs \in Seq(Ranges) BY <1>3, <1>7, RunsBounds
<1>9. PICK k \in 1..Len(rs) : k = SegmentLen(rs) BY <1>7, <1>8, SegmentOf
<1>10. /\ fed' = fed \o ChunksOf(SubSeq(rs, 1, k))
       /\ todo' = SubSeq(rs, k + 1, Len(rs))
       /\ phase' = IF todo' = <<>> THEN "rebuilt" ELSE phase
  BY <1>6, <1>9 DEF Rebuild
<1>11. PICK x \in 0..n : /\ Runs(SubSeq(rs, 1, k), n, b, m, x)
                         /\ Runs(SubSeq(rs, k + 1, Len(rs)), n, b, x, n - 1)
  BY <1>3, <1>7, SplitRuns
<1>12. m <= x BY <1>3, <1>11, RunsBounds
<1>13. x <= n - 1 /\ (SubSeq(rs, k + 1, Len(rs)) = <<>> <=> x = n - 1)
  <2>1. PICK rest : rest = SubSeq(rs, k + 1, Len(rs)) OBVIOUS
  <2>2. PICK q : q = n - 1 OBVIOUS
  <2>3. Runs(rest, n, b, x, q) BY <1>11, <2>1, <2>2
  <2>4. x <= q BY <1>3, <2>3, RunsBounds
  <2>5. rest = <<>> <=> x = q BY <1>3, <2>3, RunsBounds
  <2> QED BY <2>1, <2>2, <2>4, <2>5
<1>14. ChunksOf(SubSeq(rs, 1, k)) = Chain(b, n, m, x) BY <1>3, <1>11, ChunksOfRuns
<1>15. Chain(b, n, 1, m) \o Chain(b, n, m, x) = Chain(b, n, 1, x)
  <2>1. 1 \in 0..n /\ m \in 0..n /\ 1 <= m BY <1>3
  <2> QED BY <1>3, <1>12, <2>1, AroundJoin
<1>16. fed' = Chain(b, n, 1, x) BY <1>7, <1>10, <1>14, <1>15
<1>17. x \in 1..(n - 1) BY <1>12, <1>13
<1>18. Feeding(n, b, x)'
  BY <1>1, <1>10, <1>11, <1>13, <1>16 DEF Feeding
<1>19. command'.n = n /\ RingFrom(command, b)' BY <1>1, <1>2, <1>4 DEF RingFrom
<1>20. phase' \in {"rebuilding", "rebuilt"} BY <1>1, <1>10
<1> QED BY <1>1, <1>2, <1>17, <1>18, <1>19, <1>20 DEF RebuildInv

LEMMA RebuildStep ==
    ASSUME RebuildInv, [RebuildNext]_rebuildVars
    PROVE  RebuildInv'
<1>1. CASE (LoadFile \/ Validate \/ Start) /\ UNCHANGED <<command, todo, fed>>
  <2>1. phase \in {"parsed", "normalized", "loaded"}
        /\ phase' \notin {"rebuilding", "rebuilt", "panicked"}
    BY <1>1 DEF LoadFile, Validate, Start
  <2> QED BY <1>1, <2>1 DEF RebuildInv
<1>2. CASE Scan BY <1>2, ScanFinds
<1>3. CASE Rebuild BY <1>3, RebuildGoesOn
<1>4. CASE Cancel
  <2>1. /\ phase = "rebuilding" /\ phase' = "exit"
        /\ command' = command /\ todo' = todo /\ fed' = fed
    BY <1>4 DEF Cancel
  <2>2. PICK b \in Chunks(command.n) :
          /\ RingFrom(command, b)
          /\ \E m \in 1..(command.n - 1) : Feeding(command.n, b, m)
    BY <2>1 DEF RebuildInv
  <2>3. PICK m \in 1..(command.n - 1) : Feeding(command.n, b, m) BY <2>2
  <2>4. Feeding(command.n, b, m)' BY <2>1, <2>3 DEF Feeding
  <2>5. RingFrom(command, b)' BY <2>1, <2>2 DEF RingFrom
  <2>6. /\ command \in Commands /\ command # NoCommand /\ command.n \in Nat
        /\ command.n >= MinChunks
    BY <2>1 DEF RebuildInv
  <2> QED BY <2>1, <2>4, <2>5, <2>6 DEF RebuildInv
<1>5. CASE UNCHANGED rebuildVars
  <2>1. phase' = phase /\ command' = command /\ todo' = todo /\ fed' = fed
    BY <1>5 DEF rebuildVars, vars
  <2> QED BY <2>1 DEF RebuildInv, Feeding, RingFrom, Oldest
<1> QED BY <1>1, <1>2, <1>3, <1>4, <1>5 DEF RebuildNext

LEMMA RebuildIsKept == RebuildSpec => []RebuildInv
<1>1. RebuildInit => RebuildInv BY DEF RebuildInit, CommandParsed, Parsed, RebuildInv
<1>2. RebuildInv /\ [RebuildNext]_rebuildVars => RebuildInv' BY RebuildStep
<1> QED BY <1>1, <1>2, PTL DEF RebuildSpec

LEMMA FedFollowsTime == RebuildInv => RebuildFollowsTime
<1> SUFFICES ASSUME RebuildInv PROVE RebuildFollowsTime OBVIOUS
<1>1. CASE fed = <<>> /\ phase # "rebuilt" /\ (phase = "panicked" => Oldest(command, 1))
  BY <1>1 DEF RebuildFollowsTime
<1>2. CASE /\ phase \in {"rebuilding", "rebuilt", "exit"}
           /\ command # NoCommand /\ command.n \in Nat /\ command.n >= MinChunks
           /\ \E b \in Chunks(command.n) :
                 /\ RingFrom(command, b)
                 /\ \E m \in 1..(command.n - 1) : Feeding(command.n, b, m)
  <2>1. PICK n \in Nat : n = command.n BY <1>2
  <2>2. n >= 3 /\ n > 0 BY <1>2, <2>1 DEF MinChunks
  <2>3. PICK b \in Chunks(n) :
          RingFrom(command, b) /\ \E m \in 1..(n - 1) : Feeding(n, b, m)
    BY <1>2, <2>1
  <2>4. PICK m \in 1..(n - 1) : Feeding(n, b, m) BY <2>3
  <2>5. DOMAIN fed = 1..(m - 1) BY <2>4 DEF Feeding, Chain
  <2>6. ASSUME NEW i \in 1..(m - 1) PROVE fed[i] = (b + i) % n /\ i \in Chunks(n) /\ i \in 0..n
    <3>1. fed[i] = (b + (1 + i - 1)) % n BY <2>4 DEF Feeding, Chain
    <3>2. 1 + i - 1 = i OBVIOUS
    <3>3. i \in Chunks(n) /\ i \in 0..n BY DEF Chunks
    <3> QED BY <3>1, <3>2, <3>3
  <2>7. \A i, j \in DOMAIN fed : i < j => command.T[fed[i]] < command.T[fed[j]]
    <3> SUFFICES ASSUME NEW i \in 1..(m - 1), NEW j \in 1..(m - 1), i < j
                 PROVE  command.T[fed[i]] < command.T[fed[j]]
      BY <2>5
    <3>1. command.T[(b + i) % n] < command.T[(b + j) % n] BY <2>1, <2>3, <2>6 DEF RingFrom
    <3> QED BY <2>6, <3>1
  <2>8. ASSUME phase = "rebuilt"
        PROVE  Values(fed) = {c \in Chunks(n) : ~Oldest(command, c) /\ ~Newest(command, c)}
    <3>1. m = n - 1 BY <2>4, <2>8 DEF Feeding
    <3>2. ASSUME NEW c \in Values(fed)
          PROVE  c \in Chunks(n) /\ ~Oldest(command, c) /\ ~Newest(command, c)
      <4>1. PICK i \in 1..(m - 1) : c = fed[i] BY <2>5 DEF Values
      <4>2. c = (b + i) % n /\ i \in 0..n BY <2>6, <4>1
      <4>3. c \in Chunks(n) BY <2>2, <4>2, AroundIsChunk
      <4>4. c = IF b + i < n THEN b + i ELSE b + i - n BY <2>2, <4>2, Around
      <4>5. b \in Nat /\ b < n BY DEF Chunks
      <4>6. Pos(b, n, c) = i BY <3>1, <4>1, <4>4, <4>5 DEF Pos
      <4>7. i # 0 /\ i # n - 1 BY <3>1
      <4>8. Oldest(command, c) <=> Pos(b, n, c) = 0 BY <2>1, <2>2, <2>3, <4>3, OldestAt
      <4>9. Newest(command, c) <=> Pos(b, n, c) = n - 1 BY <2>1, <2>2, <2>3, <4>3, OldestAt
      <4> QED BY <4>3, <4>6, <4>7, <4>8, <4>9
    <3>3. ASSUME NEW c \in Chunks(n), ~Oldest(command, c), ~Newest(command, c)
          PROVE  c \in Values(fed)
      <4>1. PICK i : i = Pos(b, n, c) OBVIOUS
      <4>2. i \in Chunks(n) /\ (b + i) % n = c BY <2>2, <4>1, PosOf
      <4>3. i # 0 BY <2>1, <2>2, <2>3, <3>3, <4>1, OldestAt
      <4>4. i # n - 1 BY <2>1, <2>2, <2>3, <3>3, <4>1, OldestAt
      <4>5. i \in 1..(m - 1) BY <3>1, <4>2, <4>3, <4>4 DEF Chunks
      <4>6. fed[i] = c BY <2>6, <4>2, <4>5
      <4> QED BY <2>5, <4>5, <4>6 DEF Values
    <3> QED BY <3>2, <3>3
  <2> QED BY <1>2, <2>1, <2>7, <2>8 DEF RebuildFollowsTime
<1> QED BY <1>1, <1>2 DEF RebuildInv

(* `mirakc rebuild-timeshift` feeds the chunks in the order of time, leaves *)
(* out the oldest and the newest only, and panics only for a ring that      *)
(* begins at chunk 1, whatever the number of its chunks and segments        *)
(* (Scanner::collect_segments() and Rebuilder::rebuild()).                  *)
THEOREM RebuildFollows == RebuildSpec => []RebuildFollowsTime
BY RebuildIsKept, FedFollowsTime, PTL

(* "assert_eq!(prev, end_chunk)" of Scanner::validate_segments() fails for  *)
(* a ring that begins at chunk 1, every time, and for no other ring.        *)
PanicsAtOne ==
    phase' = "panicked" <=> /\ \E r \in Values(config.recorders) : r.id = command.recorder
                            /\ command.n >= MinChunks
                            /\ Oldest(command, 1)
THEOREM PanicsForRingsFromOne == RebuildSpec => [][Scan => PanicsAtOne]_rebuildVars
<1>1. ASSUME RebuildInv, Scan PROVE PanicsAtOne
  <2>1. command # NoCommand /\ command \in Commands BY <1>1 DEF RebuildInv, Scan
  <2>2. PICK n : n = command.n OBVIOUS
  <2>3. PICK known : known <=> \E r \in Values(config.recorders) : r.id = command.recorder OBVIOUS
  <2>4. PICK found : found = CollectSegments(command.T, command.L, n, Threshold) OBVIOUS
  <2>5. phase' = "panicked" <=> known /\ n >= MinChunks /\ ~(found.scanned /\ found.valid)
    BY <1>1, <2>2, <2>3, <2>4 DEF Scan
  <2>6. ASSUME n >= MinChunks PROVE ~(found.scanned /\ found.valid) <=> Oldest(command, 1)
    <3>1. n \in Nat /\ n >= 3 /\ n > 0 BY <2>1, <2>2, <2>6, CommandsAssumption DEF MinChunks
    <3>2. PICK b \in Chunks(n) : RingFrom(command, b) BY <2>1, <2>2, <3>1, CommandsAssumption
    <3>3. found.scanned /\ (b # 1 <=> found.valid)
      BY <2>2, <2>4, <2>6, <3>1, <3>2, Collected
    <3>4. 1 \in Chunks(n) BY <3>1 DEF Chunks
    <3>5. Oldest(command, 1) <=> Pos(b, n, 1) = 0 BY <2>2, <3>1, <3>2, <3>4, OldestAt
    <3>6. b \in Nat /\ b < n BY <3>1 DEF Chunks
    <3>7. Pos(b, n, 1) = 0 <=> b = 1 BY <3>1, <3>6 DEF Pos
    <3> QED BY <3>3, <3>5, <3>7
  <2> QED BY <2>2, <2>3, <2>5, <2>6 DEF PanicsAtOne
<1>2. RebuildInv /\ [RebuildNext]_rebuildVars => [Scan => PanicsAtOne]_rebuildVars
  BY <1>1
<1> QED BY <1>2, RebuildIsKept, PTL DEF RebuildSpec

=============================================================================
