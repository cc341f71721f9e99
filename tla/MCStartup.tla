----------------------------- MODULE MCStartup -----------------------------
(* Configurations that vary in their channels, in their tuners with the     *)
(* users of these, in one failing check, or in the size of a ring; and      *)
(* rings for `mirakc rebuild-timeshift`.                                    *)
EXTENDS RebuildTimeshift, FiniteSets

UpTo2(S) == {<<>>} \union {<<x>> : x \in S} \union {<<x, y>> : x \in S, y \in S}
Failing(C) == {{}} \union {{x} : x \in C}

MCChannel == [name : {"c"}, type : {"GR"}, channel : {26, 27}, services : SUBSET {1, 2},
              excluded : SUBSET {1, 2}, disabled : BOOLEAN, failing : {{}}]
Fixed == <<[name |-> "c", type |-> "GR", channel |-> 26, services |-> {}, excluded |-> {},
            disabled |-> FALSE, failing |-> {}],
           [name |-> "c", type |-> "GR", channel |-> 27, services |-> {}, excluded |-> {},
            disabled |-> FALSE, failing |-> {}]>>
MCTuner == [name : {"t1", "t2"}, types : {{"GR"}, {"BS"}}, disabled : BOOLEAN,
            excluded : {{}}, failing : {{}}]
MCTracker(i) == [kind : {"local"}, uses : {"t1", "t2"}, id : {i}, failing : {{}}]
Remote == [kind |-> "remote", uses |-> "none", id |-> "remote", failing |-> {}]
GoodRing == [numChunks |-> 4, numReserves |-> 1, chunkSize |-> 2]
MCRecorder(i) == {[uses |-> u, type |-> ch[1], channel |-> ch[2], id |-> i, failing |-> {},
                   ring |-> GoodRing] :
                     u \in {"t1", "t2"}, ch \in {<<"GR", 26>>, <<"BS", 1>>, <<"GR", 27>>}}
Trackers == {<<Remote>>} \union {<<x>> : x \in MCTracker("k1")}
            \union {<<x, y>> : x \in MCTracker("k1"), y \in MCTracker("k2")}
Recorders == {<<>>} \union {<<x>> : x \in MCRecorder("r1")}
TwoRecorders == {<<x, y>> : x \in MCRecorder("r1"), y \in MCRecorder("r2")}
Users == (Trackers \X Recorders) \union ({<<Remote>>} \X TwoRecorders)

Job(disabled, failing) == [disabled |-> disabled, failing |-> failing]
Base == [failing |-> {}, channels |-> Fixed, tuners |-> <<>>, jobs |-> <<>>, trackers |-> <<>>,
         recorders |-> <<>>, timeshift |-> {}]
ChannelInputs == {[Base EXCEPT !.channels = chs] : chs \in UpTo2(MCChannel)}
TunerInputs == {[Base EXCEPT !.tuners = ts, !.trackers = us[1], !.recorders = us[2]] :
                  ts \in UpTo2(MCTuner), us \in Users}
CheckInputs == {[Base EXCEPT !.failing = f, !.timeshift = h, !.channels[1].failing = i] :
                  f \in Failing(Checks), h \in Failing(TimeshiftChecks), i \in Failing(ChannelChecks)}
JobInputs == {[Base EXCEPT !.jobs = <<Job(d, g)>>, !.trackers = <<[Remote EXCEPT !.failing = h]>>] :
                d \in BOOLEAN, g \in Failing(JobChecks), h \in Failing(TrackerChecks)}
ExclusionInputs == {[Base EXCEPT !.tuners = <<[name |-> "t1", types |-> {"GR"}, disabled |-> d,
                                             excluded |-> e, failing |-> f]>>] :
                      d \in BOOLEAN, e \in SUBSET {"c", "x"}, f \in Failing(TunerChecks)}
RingInputs == {[Base EXCEPT
    !.tuners = <<[name |-> "t1", types |-> {"GR"}, disabled |-> FALSE, excluded |-> {},
                  failing |-> {}]>>,
    !.recorders = <<[uses |-> "t1", type |-> "GR", channel |-> 26, id |-> "r1", failing |-> f,
                     ring |-> [numChunks |-> n, numReserves |-> r, chunkSize |-> z]]>>] :
      n \in 0..5, r \in {1, 5}, z \in 0..5, f \in Failing(RecorderChecks)}

RebuildInputs == {[Base EXCEPT !.tuners = <<t>>, !.trackers = <<Remote>>, !.recorders = rs] :
                    t \in {x \in MCTuner : ~x.disabled /\ x.name = "t1"}, rs \in Recorders}
MCInputs == ChannelInputs \union TunerInputs \union CheckInputs \union JobInputs
            \union ExclusionInputs \union RingInputs

(* A TS file of n chunks whose oldest chunk is b, with a gap before the     *)
(* chunks of which the age in chunks is in g.                               *)
Age(n, b, c) == (c - b + n) % n
Time(n, b, g, c) == 2 * Age(n, b, c) + 50 * Cardinality({a \in g : a <= Age(n, b, c)})
File(n, b, g) == [n |-> n, recorder |-> "r1", scanOnly |-> FALSE,
                  T |-> [c \in Chunks(n) |-> Time(n, b, g, c)],
                  L |-> [c \in Chunks(n) |-> Time(n, b, g, c) + 1]]
Files(n) == {File(n, b, g) : b \in Chunks(n), g \in SUBSET (1..(n - 1))}
MCCommands == {NoCommand, File(2, 0, {}), [File(4, 2, {}) EXCEPT !.scanOnly = TRUE],
               [File(4, 2, {}) EXCEPT !.recorder = "r2"]} \union UNION {Files(n) : n \in 3..6}
MCInit ==
    /\ \/ command = NoCommand /\ config \in MCInputs
       \/ command \in MCCommands \ {NoCommand} /\ config \in RebuildInputs
    /\ CommandParsed
MCSpec == MCInit /\ [][RebuildNext]_rebuildVars
=============================================================================
