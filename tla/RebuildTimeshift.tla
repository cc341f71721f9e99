-------------------------- MODULE RebuildTimeshift --------------------------
(* `mirakc`, which loads its configuration and starts the server, or        *)
(* `mirakc rebuild-timeshift`, which scans a copy of a TS file and feeds    *)
(* its segments, one after the other, to the recorder of a system of their  *)
(* own.  T[c] and L[c] are the times of the first and of the last packet    *)
(* in chunk c of the n chunks of the file.                                  *)
EXTENDS Config

CONSTANTS
    Commands,        \* command lines: NoCommand, or [n, T, L, recorder, scanOnly]
    NoCommand,
    Threshold        \* DISCONTINUITY_THRESHOLD_MS

VARIABLES
    command,
    todo,            \* ranges of the segments that are not rebuilt yet
    fed              \* chunks that were fed to a recorder, in order

rebuildVars == <<vars, command, todo, fed>>

MinChunks == 3
Chunks(n) == 0..(n - 1)

(* A TS file is a ring that was written in the order of time, from the      *)
(* oldest chunk b: time goes on from each chunk to the next one.            *)
RingFrom(cmd, b) ==
    /\ \A c \in Chunks(cmd.n) : cmd.T[c] \in Int /\ cmd.L[c] \in Int
    /\ \A i, j \in Chunks(cmd.n) : i < j => cmd.T[(b + i) % cmd.n] < cmd.T[(b + j) % cmd.n]
    /\ \A i \in Chunks(cmd.n - 1) : cmd.L[(b + i) % cmd.n] <= cmd.T[(b + i + 1) % cmd.n]
ASSUME CommandsAssumption ==
    \A cmd \in Commands \ {NoCommand} :
       cmd.n \in Nat /\ (cmd.n > 0 => \E b \in Chunks(cmd.n) : RingFrom(cmd, b))

(* Fault: the search goes on in the wrong half.                             *)
FindStartChunkMirrored(T, n) ==
    LET bounds[k \in 0..n] ==
            IF k = 0 THEN [left |-> 0, right |-> n - 1]
            ELSE LET b == bounds[k - 1]
                     mid == b.left + (b.right - b.left) \div 2
                 IN  IF b.right - b.left < 2 THEN b
                     ELSE IF T[b.left] < T[mid] THEN [b EXCEPT !.right = mid] ELSE [b EXCEPT !.left = mid]
    IN  bounds[n].right
(* find_start_chunk(): binary search for the boundary of the ring; bounds   *)
(* are the arguments of each call.                                          *)
FindStartChunk(T, n) ==
    LET bounds[k \in 0..n] ==
            IF k = 0 THEN [left |-> 0, right |-> n - 1]
            ELSE LET b == bounds[k - 1]
                     mid == b.left + (b.right - b.left) \div 2
                 IN  IF b.right - b.left < 2 THEN b
                     ELSE IF T[b.left] < T[mid] THEN [b EXCEPT !.left = mid] ELSE [b EXCEPT !.right = mid]
    IN  bounds[n].right

StartChunk(T, n) == IF T[0] < T[n - 1] THEN 0 ELSE FindStartChunk(T, n)

(* The ranges of all segments, in order, with the number of their segment.  *)
(* Segment::push() ignores empty ranges, and an empty segment has none.     *)
PushRange(ranges, seg, from, to) ==
    IF from < to THEN Append(ranges, [seg |-> seg, first |-> from, end |-> to]) ELSE ranges

(* One round of collect_segments(): wrap-around, then a gap in time.        *)
ScanChunk(T, L, n, start, threshold, acc, i) ==
    LET chunk == (start + i) % n
        next == (start + i + 1) % n
        wrapped == chunk > next
        ranges == IF wrapped THEN PushRange(acc.ranges, acc.seg, acc.from, n) ELSE acc.ranges
        from == IF wrapped THEN 0 ELSE acc.from
        gap == T[next] - L[chunk]
        ok == acc.ok /\ gap >= 0   \* assert!(gap >= 0)
    IN  IF gap > threshold
          THEN [ranges |-> PushRange(ranges, acc.seg, from, next), seg |-> acc.seg + 1,
                from |-> next, ok |-> ok]
          ELSE [ranges |-> ranges, seg |-> acc.seg, from |-> from, ok |-> ok]

EndChunk(start, n) == IF start = 0 THEN n ELSE start

RawSegments(T, L, n, start, threshold) ==
    LET acc[i \in Chunks(n)] ==   \* after i rounds
            IF i = 0 THEN [ranges |-> <<>>, seg |-> 1, from |-> start, ok |-> TRUE]
            ELSE ScanChunk(T, L, n, start, threshold, acc[i - 1], i - 1)
        last == acc[n - 1]
    IN  [ranges |-> PushRange(last.ranges, last.seg, last.from, EndChunk(start, n)),
         ok |-> last.ok]

(* The first and the last chunk may hold garbage and are dropped.           *)
Single(range) == range.end = range.first + 1
WithoutFirst(ranges) ==
    IF Single(ranges[1]) THEN Tail(ranges) ELSE [ranges EXCEPT ![1].first = @ + 1]
WithoutLast(ranges) ==
    LET k == Len(ranges) IN
    IF Single(ranges[k]) THEN SubSeq(ranges, 1, k - 1) ELSE [ranges EXCEPT ![k].end = @ - 1]
Trimmed(ranges) == WithoutLast(WithoutFirst(ranges))

(* validate_segments(): the ranges follow each other around the ring from   *)
(* start, the last one ends at `end`, and they have `total` chunks.         *)
ValidSegments(ranges, start, end, n, total) ==
    LET prev(i) == IF i = 1 THEN start ELSE ranges[i - 1].end
        sum[i \in 0..Len(ranges)] ==
            IF i = 0 THEN 0 ELSE sum[i - 1] + ranges[i].end - ranges[i].first
    IN  /\ \A i \in DOMAIN ranges : ranges[i].first = prev(i) % n
        /\ prev(Len(ranges) + 1) = end
        /\ sum[Len(ranges)] = total

(* collect_segments(), with the outcome of its assertions.                  *)
CollectSegments(T, L, n, threshold) ==
    LET start == StartChunk(T, n)
        end == EndChunk(start, n)
        raw == RawSegments(T, L, n, start, threshold)
        ranges == Trimmed(raw.ranges)
    IN  [ranges |-> ranges,
         scanned |-> raw.ok /\ ValidSegments(raw.ranges, start, end, n, n),
         valid |-> ValidSegments(ranges, (start + 1) % n, end - 1, n, n - 2)]

(* The chunks that create_tuner_script() copies with dd, in order.          *)
ChunksOf(ranges) ==
    LET chunks[i \in 0..Len(ranges)] ==   \* of the first i ranges
            IF i = 0 THEN <<>>
            ELSE chunks[i - 1] \o [k \in 1..(ranges[i].end - ranges[i].first) |->
                                      ranges[i].first + k - 1]
    IN  chunks[Len(ranges)]

(***************************************************************************)
(* The command.                                                             *)
(***************************************************************************)
(* create_config(): one virtual tuner and one recorder.                     *)
OneRecorder(recorders, id) ==
    LET I == {i \in DOMAIN recorders : recorders[i].id = id} IN
    IF I = {} THEN <<>> ELSE <<recorders[First(I)]>>
CreateConfig(c) ==
    [c EXCEPT !.tuners = <<[name |-> command.recorder, types |-> ChannelTypes \ {"BS4K"},
                            disabled |-> FALSE, excluded |-> {}, failing |-> {}]>>,
              !.recorders = OneRecorder(@, command.recorder),
              !.failing = @ \ EpgChecks]

(* validate() and scan(); a failed assertion ends the process.              *)
Scan ==
    LET found == CollectSegments(command.T, command.L, command.n, Threshold)
        known == \E r \in Values(config.recorders) : r.id = command.recorder
        some == known /\ command.n >= MinChunks
    IN  /\ phase = "loaded" /\ command # NoCommand
        /\ phase' = IF some /\ ~(found.scanned /\ found.valid) THEN "panicked"
                    ELSE IF ~some \/ command.scanOnly THEN "exit" ELSE "rebuilding"
        /\ todo' = IF phase' = "rebuilding" THEN found.ranges ELSE <<>>
        /\ tuners' = IF phase' = "rebuilding" THEN LoadTuners(CreateConfig(config)) ELSE tuners
        /\ UNCHANGED <<config, server, skip, command, fed>>

(* rebuild(): until the recorder has stopped at the end of the segment.     *)
SegmentLen(ranges) ==
    CHOOSE k \in 1..Len(ranges) :
       /\ \A i \in 1..k : ranges[i].seg = ranges[1].seg
       /\ k < Len(ranges) => ranges[k + 1].seg # ranges[1].seg
Rebuild ==
    LET k == SegmentLen(todo) IN
    /\ phase = "rebuilding"
    /\ fed' = fed \o ChunksOf(SubSeq(todo, 1, k))
    /\ todo' = SubSeq(todo, k + 1, Len(todo))
    /\ phase' = IF todo' = <<>> THEN "rebuilt" ELSE phase
    /\ UNCHANGED <<config, server, skip, tuners, command>>

(* SIGINT or SIGTERM while a segment is rebuilt.                            *)
Cancel ==
    /\ phase = "rebuilding"
    /\ phase' = "exit"
    /\ UNCHANGED <<config, server, skip, tuners, command, todo, fed>>

CommandParsed ==
    /\ Parsed
    /\ todo = <<>> /\ fed = <<>>
    /\ command # NoCommand => server
RebuildInit == config \in Inputs /\ command \in Commands /\ CommandParsed
RebuildNext ==
    \/ (LoadFile \/ Validate) /\ UNCHANGED <<command, todo, fed>>
    \/ command = NoCommand /\ Start /\ UNCHANGED <<command, todo, fed>>
    \/ Scan \/ Rebuild \/ Cancel
RebuildSpec == RebuildInit /\ [][RebuildNext]_rebuildVars

(***************************************************************************)
(* Properties.                                                              *)
(***************************************************************************)
(* The chunks are fed to the recorder in the order of time wherever the     *)
(* ring begins and however its segments lie, and none is left out but the   *)
(* oldest and the newest, which may hold garbage.  A ring that begins at    *)
(* chunk 1 is not rebuilt at all (RebuildNeverPanics).                      *)
Oldest(cmd, c) == \A d \in Chunks(cmd.n) : cmd.T[c] <= cmd.T[d]
Newest(cmd, c) == \A d \in Chunks(cmd.n) : cmd.T[c] >= cmd.T[d]
RebuildFollowsTime ==
    /\ \A i, j \in DOMAIN fed : i < j => command.T[fed[i]] < command.T[fed[j]]
    /\ phase = "rebuilt" =>
          Values(fed) = {c \in Chunks(command.n) : ~Oldest(command, c) /\ ~Newest(command, c)}
    /\ phase = "panicked" => Oldest(command, 1)

(* "assert_eq!(prev, end_chunk)" of Scanner::validate_segments().           *)
RebuildNeverPanics == phase # "panicked"
=============================================================================
