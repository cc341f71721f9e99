--------------------------- MODULE TimeshiftProofs ---------------------------
(***************************************************************************)
(* Proofs about Timeshift, and TimeshiftFs beside it, for rings and chunks  *)
(* of every size.                                                           *)
(***************************************************************************)
EXTENDS TimeshiftFs, FiniteSetTheorems, SequenceTheorems, WellFoundedInduction, TLAPS

(***************************************************************************)
(* What the operators of the community modules return.                      *)
(***************************************************************************)
LEMMA MinOfNaturals ==
    ASSUME NEW S \in SUBSET Nat, S # {}
    PROVE  Min(S) \in S /\ \A y \in S : Min(S) <= y
<1>1. PICK m \in S : \A y \in S : ~(<<y, m>> \in OpToRel(<, Nat))
  <2>1. IsWellFoundedOn(OpToRel(<, Nat), Nat) BY NatLessThanWellFounded
  <2> QED BY <2>1, WFMin
<1>2. \A y \in S : m <= y
  <2> TAKE y \in S
  <2>1. y \in Nat /\ m \in Nat /\ ~(<<y, m>> \in OpToRel(<, Nat)) BY <1>1
  <2> QED BY <2>1 DEF OpToRel
<1>3. \E x \in S : \A y \in S : x <= y BY <1>2
<1> QED BY <1>3 DEF Min

LEMMA MaxOfBounded ==
    ASSUME NEW n \in Nat, NEW S \in SUBSET (0..n), S # {}
    PROVE  Max(S) \in S /\ \A y \in S : y <= Max(S)
<1> DEFINE T == {x \in 0..n : n - x \in S}
<1>1. \A x \in T : x \in Nat /\ x \in 0..n /\ n - x \in S OBVIOUS
<1>2. ASSUME NEW x \in S PROVE n - x \in T /\ x \in Int
  <2>1. x \in 0..n OBVIOUS
  <2>2. n - x \in 0..n /\ n - (n - x) = x BY <2>1
  <2> QED BY <2>1, <2>2
<1> DEFINE m == Min(T)
<1> HIDE DEF T
<1>3. T \subseteq Nat /\ T # {} BY <1>1, <1>2
<1>4. m \in T /\ \A y \in T : m <= y BY <1>3, MinOfNaturals
<1> HIDE DEF m
<1>5. n - m \in S /\ \A y \in S : n - m >= y
  <2>1. ASSUME NEW y \in S PROVE n - m >= y
    <3>1. n - y \in T /\ y \in Int /\ m \in Nat BY <1>1, <1>2, <1>4
    <3> QED BY <1>4, <3>1
  <2> QED BY <1>1, <1>4, <2>1
<1>6. \E x \in S : \A y \in S : x >= y BY <1>5
<1>7. Max(S) \in S /\ \A y \in S : Max(S) >= y BY <1>6 DEF Max
<1> QED BY <1>7

LEMMA AppendIsTyped ==
    ASSUME NEW T, NEW q \in Seq(T), NEW x \in T
    PROVE  /\ Append(q, x) \in Seq(T) /\ Len(Append(q, x)) = Len(q) + 1 /\ Len(q) \in Nat
           /\ DOMAIN q = 1..Len(q) /\ DOMAIN Append(q, x) = 1..Len(q) + 1
           /\ \A i \in 1..Len(q) : Append(q, x)[i] = q[i]
           /\ Append(q, x)[Len(q) + 1] = x /\ Last(Append(q, x)) = x
           /\ Append(q, x) # <<>>
BY AppendProperties DEF Last

LEMMA TailIsTyped ==
    ASSUME NEW T, NEW q \in Seq(T), q # <<>>
    PROVE  /\ Head(q) \in T /\ Head(q) = q[1]
           /\ Tail(q) \in Seq(T) /\ Len(Tail(q)) = Len(q) - 1 /\ Len(q) \in Nat /\ Len(q) >= 1
           /\ DOMAIN q = 1..Len(q) /\ DOMAIN Tail(q) = 1..Len(q) - 1
           /\ \A i \in 1..Len(q) - 1 : Tail(q)[i] = q[i + 1]
           /\ Tail(q) # <<>> => Last(Tail(q)) = Last(q)
BY HeadTailProperties DEF Last

LEMMA LastIsTyped ==
    ASSUME NEW T, NEW q \in Seq(T), q # <<>>
    PROVE  /\ Last(q) \in T /\ Last(q) = q[Len(q)] /\ Len(q) \in Nat /\ Len(q) >= 1
           /\ DOMAIN q = 1..Len(q) /\ Len(q) \in DOMAIN q
<1>1. Len(q) \in Nat /\ DOMAIN q = 1..Len(q) /\ Len(q) # 0
  BY EmptySeq, LenProperties
<1> QED BY <1>1, ElementOfSeq DEF Last

(* TwoAppended: a sequence of two more elements.                            *)
LEMMA TwoAppended ==
    ASSUME NEW T, NEW q \in Seq(T), NEW x \in T, NEW y \in T
    PROVE  q \o <<x>> = Append(q, x) /\ q \o <<x, y>> = Append(Append(q, x), y)
<1>1. q \o <<x>> = Append(q, x) BY AppendIsConcat
<1>2. <<x, y>> = Append(<<x>>, y) /\ <<x>> \in Seq(T) /\ <<y>> \in Seq(T)
  OBVIOUS
<1>3. q \o <<x, y>> = Append(Append(q, x), y)
  <2>1. /\ q \o <<x, y>> \in Seq(T) /\ Append(Append(q, x), y) \in Seq(T)
        /\ Len(q \o <<x, y>>) = Len(q) + 2 /\ Len(Append(Append(q, x), y)) = Len(q) + 2
        /\ Len(q) \in Nat
    BY <1>2, ConcatProperties, AppendProperties, LenProperties
  <2>2. ASSUME NEW i \in 1..Len(q) + 2
        PROVE  (q \o <<x, y>>)[i] = Append(Append(q, x), y)[i]
    BY <2>1
  <2> QED BY <2>1, <2>2, SeqEqual
<1> QED BY <1>1, <1>3

LEMMA ShortOnes ==
    ASSUME NEW x, NEW y
    PROVE  Append(<<>>, x) = <<x>> /\ Append(<<x>>, y) = <<x, y>>
<1>1. Append(<<x>>, y) = <<x, y>>
  <2>1. <<x, y>> = Append(<<x>>, y) /\ <<x>> \in Seq({x, y}) /\ y \in {x, y}
    OBVIOUS
  <2> QED BY <2>1
<1>2. Append(<<>>, x) = <<x>> OBVIOUS
<1> QED BY <1>1, <1>2

(***************************************************************************)
(* Sizes and types.                                                         *)
(***************************************************************************)
LEMMA Sizes ==
    /\ ChunkSize \in Nat /\ NumChunks \in Nat /\ ChunkSize > 0 /\ NumChunks > 2
    /\ FileSize \in Nat /\ FileSize > 0
    /\ MaxChunks \in Nat /\ MaxChunks > 1
<1>1. /\ ChunkSize \in Nat /\ NumChunks \in Nat /\ ChunkSize > 0 /\ NumChunks > 2
      /\ MaxChunks \in Nat /\ MaxChunks > 1
  BY ConfigAssumption DEF MaxChunks
<1>2. \A a, b \in Nat : a > 0 /\ b > 0 => a * b \in Nat /\ a * b > 0 OBVIOUS
<1> QED BY <1>1, <1>2 DEF FileSize

LEMMA PositionsWrap ==
    ASSUME NEW x \in Nat
    PROVE  x % FileSize \in 0..(FileSize - 1)
BY Sizes

MsgKinds == {"started", "start", "chunk", "event-start", "event-update", "event-end", "stop", "stopped"}
EventKinds == {"Started", "Stopped", "Timeline", "RecordStarted", "RecordUpdated"}
Messages == [kind : MsgKinds, point : Points]
Events == [kind : EventKinds, id : Nat]
Files == [records : Seq(Records), points : Seq(Points), mtime : Nat]
CmdType ==
    /\ now \in Nat /\ ts \in [0..(FileSize - 1) -> Nat] /\ gaps \in BOOLEAN
    /\ cmd \in [on : BOOLEAN, pos : 0..(FileSize - 1), event : BOOLEAN, long : BOOLEAN]
PipeType == pipe \in Seq(Messages)
MemType ==
    /\ points \in Seq(Points) /\ Len(points) <= MaxChunks /\ records \in Seq(Records)
    /\ available \in BOOLEAN /\ recording \in BOOLEAN /\ session \in BOOLEAN /\ current \in Nat
DataType ==
    /\ data \subseteq Files /\ \A d, e \in data : d = e
    /\ \A d \in data : Len(d.points) <= MaxChunks
MgrType == mail \in Seq(Events) /\ holder \in [started : BOOLEAN, current : Nat]
TypeInv == CmdType /\ PipeType /\ MemType /\ DataType /\ MgrType /\ up \in BOOLEAN

LEMMA SetsStay ==
    /\ Points' = Points /\ Records' = Records /\ Messages' = Messages
    /\ Events' = Events /\ Files' = Files /\ FileSize' = FileSize /\ MaxChunks' = MaxChunks
BY DEF Points, Records, Messages, Events, Files, FileSize, MaxChunks, MsgKinds, EventKinds

LEMMA TypesStay ==
    /\ CmdType /\ UNCHANGED cmdVars => CmdType'
    /\ PipeType /\ UNCHANGED pipe => PipeType'
    /\ MemType /\ UNCHANGED memVars => MemType'
    /\ DataType /\ UNCHANGED data => DataType'
    /\ MgrType /\ UNCHANGED mgrVars => MgrType'
BY SetsStay DEF CmdType, PipeType, MemType, DataType, MgrType, cmdVars, memVars, mgrVars

LEMMA PointsAreTyped ==
    /\ NoPoint \in Points /\ None \in Nat
    /\ \A t \in Nat, p \in 0..(FileSize - 1) :
          Point(t, p) \in Points /\ Point(t, p).t = t /\ Point(t, p).pos = p
    /\ \A p \in Points : p.t \in Nat /\ p.pos \in 0..(FileSize - 1) /\ p.pos \in Nat
BY Sizes DEF NoPoint, Point, Points, None

LEMMA MessagesAreTyped ==
    ASSUME NEW p \in Points
    PROVE  /\ \A k \in MsgKinds : Msg(k, p) \in Messages /\ Msg(k, p).kind = k /\ Msg(k, p).point = p
           /\ \A m \in Messages : m.point \in Points
BY DEF Msg, Messages

LEMMA EventsAreTyped ==
    ASSUME NEW n \in Nat
    PROVE  \A k \in EventKinds : Event(k, n) \in Events /\ Event(k, n).kind = k /\ Event(k, n).id = n
BY DEF Event, Events

(***************************************************************************)
(* What the pure parts of the recorder return.                              *)
(***************************************************************************)
LEMMA PrefixIsTyped ==
    ASSUME NEW T, NEW q \in Seq(T), NEW n \in 0..Len(q)
    PROVE  /\ SubSeq(q, 1, n) \in Seq(T) /\ Len(SubSeq(q, 1, n)) = n
           /\ \A i \in 1..n : SubSeq(q, 1, n)[i] = q[i]
<1>1. Len(q) \in Nat /\ \A i \in 1..Len(q) : q[i] \in T
  BY LenProperties, ElementOfSeq
<1>2. n \in Int /\ \A i \in 1..n : q[i] \in T BY <1>1
<1>3. /\ SubSeq(q, 1, n) \in Seq(T) /\ Len(SubSeq(q, 1, n)) = IF 1 <= n THEN n - 1 + 1 ELSE 0
      /\ \A i \in 1..n - 1 + 1 : SubSeq(q, 1, n)[i] = q[1 + i - 1]
  BY <1>2, SubSeqProperties
<1> QED BY <1>1, <1>3

LEMMA SuffixIsTyped ==
    ASSUME NEW T, NEW q \in Seq(T), NEW m \in 1..Len(q)
    PROVE  /\ SubSeq(q, m, Len(q)) \in Seq(T) /\ Len(SubSeq(q, m, Len(q))) = Len(q) - m + 1
           /\ \A i \in 1..Len(q) - m + 1 : SubSeq(q, m, Len(q))[i] = q[m + i - 1]
           /\ Last(SubSeq(q, m, Len(q))) = Last(q)
<1>1. Len(q) \in Nat /\ \A i \in 1..Len(q) : q[i] \in T
  BY LenProperties, ElementOfSeq
<1>2. m \in Int /\ Len(q) \in Int /\ \A i \in m..Len(q) : q[i] \in T BY <1>1
<1>3. /\ SubSeq(q, m, Len(q)) \in Seq(T)
      /\ Len(SubSeq(q, m, Len(q))) = IF m <= Len(q) THEN Len(q) - m + 1 ELSE 0
      /\ \A i \in 1..Len(q) - m + 1 : SubSeq(q, m, Len(q))[i] = q[m + i - 1]
  BY <1>2, SubSeqProperties
<1> QED BY <1>1, <1>3 DEF Last

(* The points that are left are those up to the last one before the end of  *)
(* the last record.                                                         *)
LEMMA GarbageIsRemoved ==
    ASSUME NEW rs \in Seq(Records), NEW ps \in Seq(Points)
    PROVE  \E n \in 0..Len(ps) :
              /\ RemoveGarbagePoints(rs, ps) = SubSeq(ps, 1, n)
              /\ rs = <<>> => n = Len(ps)
              /\ rs # <<>> =>
                   /\ n > 0 => Last(rs).end.t > ps[n].t
                   /\ \A i \in DOMAIN ps : Last(rs).end.t > ps[i].t => i <= n
<1>0. Len(ps) \in Nat /\ DOMAIN ps = 1..Len(ps) BY LenProperties
<1>1. CASE rs = <<>>
  <2>1. SubSeq(ps, 1, Len(ps)) = ps BY SubSeqFull
  <2>2. RemoveGarbagePoints(rs, ps) = ps /\ Len(ps) \in 0..Len(ps)
    BY <1>0, <1>1 DEF RemoveGarbagePoints
  <2> QED BY <1>1, <2>1, <2>2
<1>2. CASE rs # <<>>
  <2> DEFINE kept == {i \in DOMAIN ps : Last(rs).end.t > ps[i].t}
  <2>1. RemoveGarbagePoints(rs, ps) = SubSeq(ps, 1, IF kept = {} THEN 0 ELSE Max(kept))
    BY <1>2 DEF RemoveGarbagePoints
  <2>2. kept \in SUBSET (0..Len(ps)) BY <1>0
  <2>3. CASE kept = {}
    <3>1. 0 \in 0..Len(ps) /\ RemoveGarbagePoints(rs, ps) = SubSeq(ps, 1, 0)
      BY <1>0, <2>1, <2>3
    <3>2. \A i \in DOMAIN ps : ~(Last(rs).end.t > ps[i].t) BY <2>3
    <3>3. ~(0 > 0) OBVIOUS
    <3> QED BY <1>2, <3>1, <3>2, <3>3
  <2>4. CASE kept # {}
    <3> DEFINE n == Max(kept)
    <3>1. n \in kept /\ \A i \in kept : i <= n
      BY <1>0, <2>2, <2>4, MaxOfBounded
    <3>2. n \in 0..Len(ps) /\ Last(rs).end.t > ps[n].t BY <2>2, <3>1
    <3>3. RemoveGarbagePoints(rs, ps) = SubSeq(ps, 1, n) BY <2>1, <2>4
    <3>4. \A i \in DOMAIN ps : Last(rs).end.t > ps[i].t => i <= n BY <3>1
    <3> HIDE DEF n
    <3> QED BY <1>2, <3>2, <3>3, <3>4
  <2> QED BY <2>3, <2>4
<1> QED BY <1>1, <1>2

LEMMA RecordsAreTyped ==
    ASSUME NEW p \in Points
    PROVE  /\ NewRecord(p) \in Records /\ NewRecord(p).end = p
           /\ \A r \in Records :
                /\ r.start \in Points /\ r.end \in Points
                /\ [r EXCEPT !.start = p] \in Records /\ [r EXCEPT !.start = p].end = r.end
                /\ \A b \in BOOLEAN :
                     /\ [r EXCEPT !.end = p, !.recording = b] \in Records
                     /\ [r EXCEPT !.end = p, !.recording = b].end = p
                /\ [r EXCEPT !.recording = FALSE] \in Records
                /\ [r EXCEPT !.recording = FALSE].end = r.end
<1>1. NewRecord(p) \in Records /\ NewRecord(p).end = p
  BY PointsAreTyped DEF NewRecord, Records
<1>2. ASSUME NEW r \in Records
      PROVE  /\ r.start \in Points /\ r.end \in Points
             /\ [r EXCEPT !.start = p] \in Records /\ [r EXCEPT !.start = p].end = r.end
             /\ [r EXCEPT !.recording = FALSE] \in Records
             /\ [r EXCEPT !.recording = FALSE].end = r.end
  BY DEF Records
<1>3. ASSUME NEW r \in Records, NEW b \in BOOLEAN
      PROVE  /\ [r EXCEPT !.end = p, !.recording = b] \in Records
             /\ [r EXCEPT !.end = p, !.recording = b].end = p
  BY DEF Records
<1> QED BY <1>1, <1>2, <1>3

(* maintain() drops the oldest point at most and leaves the end of the last *)
(* record alone.                                                            *)
LEMMA MaintainKeeps ==
    ASSUME NEW ps \in Seq(Points), NEW rs \in Seq(Records), Len(ps) <= MaxChunks
    PROVE  LET m == Maintain(ps, rs) IN
           /\ \/ m.points = ps /\ Len(ps) < MaxChunks
              \/ m.points = Tail(ps) /\ Len(ps) = MaxChunks /\ ps # <<>>
           /\ m.records \in Seq(Records)
           /\ m.records # <<>> => rs # <<>> /\ Last(m.records).end = Last(rs).end
<1> DEFINE m == Maintain(ps, rs)
<1>0. Len(ps) \in Nat /\ DOMAIN ps = 1..Len(ps) /\ Len(rs) \in Nat /\ DOMAIN rs = 1..Len(rs)
  BY LenProperties
<1>1. CASE Len(ps) < MaxChunks BY <1>1 DEF Maintain
<1>2. CASE ~(Len(ps) < MaxChunks)
  <2>1. Len(ps) = MaxChunks /\ 2 \in 1..Len(ps) /\ ps # <<>>
    <3>1. Len(ps) = MaxChunks /\ Len(ps) > 1
      <4>1. MaxChunks \in Nat /\ MaxChunks > 1 BY Sizes
      <4>2. Len(ps) \in Nat /\ ~(Len(ps) < MaxChunks) /\ Len(ps) <= MaxChunks
        BY <1>0, <1>2
      <4> HIDE DEF m
      <4> QED BY <4>1, <4>2
    <3>2. ps # <<>> BY <3>1
    <3> QED BY <1>0, <3>1, <3>2
  <2> DEFINE f == ps[2]
             pr == PurgeExpiredRecords(rs, f)
  <2>2. f \in Points BY <2>1, ElementOfSeq
  <2>3. m.points = Tail(ps) /\ m.records = CropRecordToBeOverwritten(pr, f)
    BY <1>2 DEF Maintain
  <2> HIDE DEF f
  <2>4. pr \in Seq(Records) /\ (pr # <<>> => rs # <<>> /\ Last(pr) = Last(rs))
    <3> DEFINE kept == {i \in DOMAIN rs : rs[i].end.t > f.t}
    <3>1. pr = IF kept = {} THEN <<>> ELSE SubSeq(rs, Min(kept), Len(rs))
      BY DEF PurgeExpiredRecords
    <3>2. CASE kept = {} BY <3>1, <3>2, EmptySeq
    <3>3. CASE kept # {}
      <4>1. kept \in SUBSET Nat BY <1>0
      <4>2. Min(kept) \in 1..Len(rs) BY <1>0, <3>3, <4>1, MinOfNaturals
      <4>3. pr = SubSeq(rs, Min(kept), Len(rs)) BY <3>1, <3>3
      <4>4. rs # <<>> BY <4>2, EmptySeq
      <4> HIDE DEF kept, pr
      <4> QED BY <4>2, <4>3, <4>4, SuffixIsTyped
    <3> QED BY <3>2, <3>3
  <2> HIDE DEF pr
  <2>5. CASE m.records = pr BY <2>1, <2>3, <2>4, <2>5
  <2>6. CASE m.records # pr
    <3>1. pr # <<>> /\ m.records = [pr EXCEPT ![1].start = f]
      BY <2>3, <2>6 DEF CropRecordToBeOverwritten
    <3> DEFINE r == [pr[1] EXCEPT !.start = f]
    <3>2. m.records = [pr EXCEPT ![1] = r] BY <3>1
    <3>3. /\ Len(pr) \in Nat /\ Len(pr) >= 1 /\ DOMAIN pr = 1..Len(pr) /\ Last(pr) = pr[Len(pr)]
          /\ pr[1] \in Records
      BY <2>4, <3>1, LastIsTyped, ElementOfSeq
    <3>4. r \in Records /\ r.end = pr[1].end BY <2>2, <3>3, RecordsAreTyped
    <3> HIDE DEF r, m
    <3>5. m.records \in Seq(Records) /\ Len(m.records) = Len(pr)
      BY <2>4, <3>2, <3>3, <3>4, ExceptSeq
    <3>6. m.records[Len(pr)].end = pr[Len(pr)].end BY <3>2, <3>3, <3>4
    <3>7. Last(m.records).end = Last(pr).end BY <3>3, <3>5, <3>6 DEF Last
    <3> QED BY <2>1, <2>3, <2>4, <3>1, <3>5, <3>7 DEF m
  <2> QED BY <2>5, <2>6
<1> QED BY <1>1, <1>2

LEMMA UpdateKeeps ==
    ASSUME NEW rs \in Seq(Records), NEW p \in Points, NEW end \in BOOLEAN
    PROVE  /\ UpdateLastRecord(rs, p, end) \in Seq(Records)
           /\ rs = <<>> => UpdateLastRecord(rs, p, end) = <<>>
           /\ rs # <<>> => /\ UpdateLastRecord(rs, p, end) # <<>>
                           /\ Last(UpdateLastRecord(rs, p, end)).end = p
<1>1. CASE rs = <<>> BY <1>1 DEF UpdateLastRecord
<1>2. CASE rs # <<>>
  <2> DEFINE n == Len(rs)
             u == UpdateLastRecord(rs, p, end)
             b == IF end THEN FALSE ELSE rs[n].recording
             r == [rs[n] EXCEPT !.end = p, !.recording = b]
  <2>1. n \in Nat /\ n \in DOMAIN rs /\ DOMAIN rs = 1..n /\ rs[n] \in Records
    BY <1>2, LastIsTyped, ElementOfSeq
  <2>2. u = [rs EXCEPT ![n].end = p, ![n].recording = IF end THEN FALSE ELSE @]
    BY <1>2 DEF UpdateLastRecord
  <2>3. u = [rs EXCEPT ![n] = r] BY <2>1, <2>2 DEF Records
  <2>4. b \in BOOLEAN BY <2>1 DEF Records
  <2> HIDE DEF b
  <2>5. r \in Records /\ r.end = p BY <2>1, <2>4, RecordsAreTyped
  <2> HIDE DEF r, u
  <2>6. u \in Seq(Records) /\ Len(u) = n /\ u[n] = r
    BY <2>1, <2>3, <2>5, ExceptSeq
  <2>7. u # <<>> /\ Last(u) = r BY <2>1, <2>6, EmptySeq DEF Last
  <2> QED BY <1>2, <2>5, <2>6, <2>7 DEF u
<1> QED BY <1>1, <1>2

LEMMA SavedKeeps ==
    ASSUME DataType, NEW rs \in Seq(Records), NEW ps \in Seq(Points), Len(ps) <= MaxChunks,
           data' = Saved(rs, ps)
    PROVE  /\ DataType'
           /\ \A d \in data' :
                \/ d \in data
                \/ /\ rs # <<>> /\ d.points = ps /\ d.records # <<>>
                   /\ Last(d.records).end = Last(rs).end
<1>1. CASE rs = <<>>
  <2>1. data' = data BY <1>1 DEF Saved
  <2> QED BY <2>1, TypesStay
<1>2. CASE rs # <<>>
  <2> DEFINE saved == [i \in DOMAIN rs |-> [rs[i] EXCEPT !.recording = FALSE]]
             mtime == IF data = {} THEN 1 ELSE (CHOOSE d \in data : TRUE).mtime + 1
             file == [records |-> saved, points |-> ps, mtime |-> mtime]
  <2>1. data' = {file} BY <1>2 DEF Saved
  <2>2. mtime \in Nat
    <3>1. CASE data = {} BY <3>1
    <3>2. CASE data # {}
      <4>1. (CHOOSE d \in data : TRUE) \in Files BY <3>2 DEF DataType
      <4>2. (CHOOSE d \in data : TRUE).mtime \in Nat BY <4>1 DEF Files
      <4> QED BY <3>2, <4>2
    <3> QED BY <3>1, <3>2
  <2>3. /\ Len(rs) \in Nat /\ Len(rs) \in DOMAIN rs /\ DOMAIN rs = 1..Len(rs)
        /\ Last(rs) = rs[Len(rs)] /\ Len(rs) >= 1
    BY <1>2, LastIsTyped
  <2>4. NoPoint \in Points BY PointsAreTyped
  <2>5. ASSUME NEW i \in DOMAIN rs
        PROVE  saved[i] \in Records /\ saved[i].end = rs[i].end
    <3>1. rs[i] \in Records BY <2>3, ElementOfSeq
    <3> DEFINE r == rs[i]
    <3>2. saved[i] = [r EXCEPT !.recording = FALSE] OBVIOUS
    <3>3. r \in Records BY <3>1
    <3> HIDE DEF saved
    <3>4. [r EXCEPT !.recording = FALSE] \in Records /\ [r EXCEPT !.recording = FALSE].end = r.end
      <4> HIDE DEF r
      <4> QED BY <2>4, <3>3, RecordsAreTyped
    <3> QED BY <3>2, <3>4
  <2>6. DOMAIN saved = 1..Len(rs) BY <2>3
  <2> HIDE DEF saved, mtime
  <2>7. saved \in Seq(Records) /\ Len(saved) = Len(rs)
    <3>1. saved = [i \in 1..Len(rs) |-> saved[i]] BY <2>6 DEF saved
    <3>2. \A i \in 1..Len(rs) : saved[i] \in Records BY <2>3, <2>5
    <3>3. saved \in Seq(Records) BY <2>3, <3>1, <3>2, IsASeq
    <3> QED BY <2>3, <2>6, <3>3, LenProperties
  <2>8. saved # <<>> /\ Last(saved).end = Last(rs).end
    BY <2>3, <2>5, <2>7, EmptySeq DEF Last
  <2>9. file \in Files /\ file.points = ps /\ file.records = saved
    BY <2>2, <2>7 DEF Files
  <2> HIDE DEF file
  <2>10. DataType' BY <2>1, <2>9, SetsStay DEF DataType
  <2> QED BY <1>2, <2>1, <2>8, <2>9, <2>10
<1> QED BY <1>1, <1>2

LEMMA LoadedKeeps ==
    ASSUME DataType
    PROVE  /\ LoadedRecords \in Seq(Records) /\ LoadedPoints \in Seq(Points)
           /\ Len(LoadedPoints) <= MaxChunks
           /\ \/ data = {} /\ LoadedRecords = <<>> /\ LoadedPoints = <<>>
              \/ \E d \in data : LoadedRecords = d.records /\ LoadedPoints = d.points
<1>1. CASE data = {}
  <2>1. LoadedRecords = <<>> /\ LoadedPoints = <<>>
    BY <1>1 DEF LoadedRecords, LoadedPoints
  <2> QED BY <1>1, <2>1, Sizes, EmptySeq
<1>2. CASE data # {}
  <2>1. (CHOOSE d \in data : TRUE) \in data BY <1>2
  <2> DEFINE d == CHOOSE x \in data : TRUE
  <2>2. d \in data /\ LoadedRecords = d.records /\ LoadedPoints = d.points
    BY <1>2, <2>1 DEF LoadedRecords, LoadedPoints
  <2> HIDE DEF d
  <2>3. d.records \in Seq(Records) /\ d.points \in Seq(Points) /\ Len(d.points) <= MaxChunks
    BY <2>2 DEF DataType, Files
  <2> QED BY <2>2, <2>3
<1> QED BY <1>1, <1>2

LEMMA StartIsTyped ==
    ASSUME MemType
    PROVE  StartPos \in 0..(FileSize - 1)
<1>1. CASE points = <<>> BY <1>1, Sizes DEF StartPos
<1>2. CASE points # <<>>
  BY <1>2, LastIsTyped, PointsAreTyped DEF StartPos, MemType
<1> QED BY <1>1, <1>2

(***************************************************************************)
(* Every step keeps the types.                                              *)
(***************************************************************************)
LEMMA CommandKeepsTypes ==
    ASSUME TypeInv, Write \/ EventBoundary \/ PipelineBreaks
    PROVE  TypeInv'
<1> USE DEF TypeInv
<1>1. /\ UNCHANGED <<up, data, gaps>> /\ UNCHANGED memVars /\ UNCHANGED mgrVars
      /\ MemType' /\ DataType' /\ MgrType'
  <2>1. UNCHANGED <<up, data, gaps>> /\ UNCHANGED memVars /\ UNCHANGED mgrVars
    BY DEF Write, EventBoundary, PipelineBreaks
  <2> QED BY <2>1, TypesStay
<1>2. Here \in Points BY PointsAreTyped DEF Here, CmdType
<1>3. CASE Write
  <2> DEFINE pos == (cmd.pos + 1) % FileSize
             p == Point(now + 1, pos)
  <2>1. pos \in 0..(FileSize - 1) /\ now + 1 \in Nat
    <3>1. cmd.pos + 1 \in Nat /\ now + 1 \in Nat BY Sizes DEF CmdType
    <3> QED BY <3>1, PositionsWrap
  <2> HIDE DEF pos
  <2>2. p \in Points BY <2>1, PointsAreTyped
  <2>3. /\ ts' = [ts EXCEPT ![cmd.pos] = now] /\ now' = now + 1
        /\ cmd' = [cmd EXCEPT !.pos = pos, !.long = cmd.event]
        /\ \/ pipe' = pipe
           \/ pipe' = pipe \o Append(<<Msg("event-update", p)>>, Msg("chunk", p))
           \/ pipe' = pipe \o Append(<<>>, Msg("chunk", p))
    BY <1>3 DEF Write, pos
  <2> HIDE DEF p
  <2>4. CmdType' BY <1>1, <2>1, <2>3, SetsStay DEF CmdType
  <2>5. Msg("event-update", p) \in Messages /\ Msg("chunk", p) \in Messages
    BY <2>2, MessagesAreTyped DEF MsgKinds
  <2>6. PipeType'
    <3>1. /\ Append(<<Msg("event-update", p)>>, Msg("chunk", p)) \in Seq(Messages)
          /\ Append(<<>>, Msg("chunk", p)) \in Seq(Messages)
      BY <2>5
    <3> QED BY <2>3, <3>1, ConcatProperties, SetsStay DEF PipeType
  <2> QED BY <1>1, <2>4, <2>6
<1>4. CASE EventBoundary
  <2>1. /\ UNCHANGED <<now, ts, gaps>>
        /\ \/ /\ pipe' = pipe \o <<Msg("event-end", Here), Msg("event-start", Here)>>
              /\ cmd' = [cmd EXCEPT !.long = FALSE]
           \/ /\ pipe' = Append(pipe, Msg("event-end", Here))
              /\ cmd' = [cmd EXCEPT !.event = FALSE, !.long = FALSE]
           \/ /\ pipe' = Append(pipe, Msg("event-start", Here))
              /\ cmd' = [cmd EXCEPT !.event = TRUE]
    BY <1>4 DEF EventBoundary
  <2>2. CmdType' BY <1>1, <2>1, SetsStay DEF CmdType
  <2>3. Msg("event-end", Here) \in Messages /\ Msg("event-start", Here) \in Messages
    BY <1>2, MessagesAreTyped DEF MsgKinds
  <2>4. PipeType'
    <3>1. <<Msg("event-end", Here), Msg("event-start", Here)>> \in Seq(Messages)
      BY <2>3
    <3>2. pipe \o <<Msg("event-end", Here), Msg("event-start", Here)>> \in Seq(Messages)
      BY <3>1, ConcatProperties DEF PipeType
    <3>3. /\ Append(pipe, Msg("event-end", Here)) \in Seq(Messages)
          /\ Append(pipe, Msg("event-start", Here)) \in Seq(Messages)
      BY <2>3, AppendProperties DEF PipeType
    <3> QED BY <2>1, <3>2, <3>3, SetsStay DEF PipeType
  <2> QED BY <1>1, <2>2, <2>4
<1>5. CASE PipelineBreaks
  <2>1. /\ UNCHANGED <<now, ts, gaps>> /\ cmd' = Off
        /\ \/ pipe' = pipe \o Append(<<>>, Msg("stopped", NoPoint))
           \/ pipe' = pipe \o Append(<<Msg("stop", NoPoint)>>, Msg("stopped", NoPoint))
    BY <1>5 DEF PipelineBreaks
  <2>2. CmdType' BY <2>1, SetsStay, Sizes DEF CmdType, Off
  <2>3. Msg("stop", NoPoint) \in Messages /\ Msg("stopped", NoPoint) \in Messages
    BY PointsAreTyped, MessagesAreTyped DEF MsgKinds
  <2>4. PipeType'
    <3>1. /\ Append(<<>>, Msg("stopped", NoPoint)) \in Seq(Messages)
          /\ Append(<<Msg("stop", NoPoint)>>, Msg("stopped", NoPoint)) \in Seq(Messages)
      BY <2>3
    <3> QED BY <2>1, <3>1, ConcatProperties, SetsStay DEF PipeType
  <2> QED BY <1>1, <2>2, <2>4
<1> QED BY <1>3, <1>4, <1>5

LEMMA GoneKeepsTypes ==
    ASSUME TypeInv, Gone
    PROVE  TypeInv'
<1> USE DEF TypeInv
<1>1. /\ up' = FALSE /\ cmd' = Off /\ pipe' = <<>> /\ mail' = <<>>
      /\ UNCHANGED <<now, ts, gaps, data, holder>> /\ UNCHANGED memVars
  BY DEF Gone
<1>2. CmdType' BY <1>1, SetsStay, Sizes DEF CmdType, Off
<1>3. PipeType' /\ MgrType' BY <1>1, SetsStay, EmptySeq DEF PipeType, MgrType
<1> QED BY <1>1, <1>2, <1>3, TypesStay

LEMMA StartKeepsTypes ==
    ASSUME TypeInv, Started \/ ServiceUpdated \/ HealthCheck
    PROVE  TypeInv'
<1> USE DEF TypeInv
<1>1. CASE Started
  <2>1. /\ up' = TRUE /\ UNCHANGED cmdVars /\ UNCHANGED <<pipe, data>>
        /\ records' = LoadedRecords /\ points' = LoadedPoints
        /\ available' = FALSE /\ recording' = FALSE /\ session' = FALSE /\ current' = None
        /\ mail' = <<>> /\ holder' = [started |-> FALSE, current |-> None]
    BY <1>1 DEF Started
  <2>2. MemType' BY <2>1, LoadedKeeps, SetsStay DEF MemType, None
  <2>3. MgrType' BY <2>1, SetsStay, EmptySeq DEF MgrType, None
  <2> QED BY <2>1, <2>2, <2>3, TypesStay
<1>2. CASE ServiceUpdated \/ HealthCheck
  <2>1. /\ UNCHANGED up /\ UNCHANGED mgrVars
        /\ available' \in BOOLEAN
        /\ \/ Launch
           \/ UNCHANGED cmdVars /\ UNCHANGED <<pipe, points, records, recording, session, current, data>>
    BY <1>2 DEF ServiceUpdated, HealthCheck, StartRecording, MemType
  <2>2. CASE Launch
    <3> DEFINE p == Point(now + 1, StartPos)
    <3>1. p \in Points /\ now + 1 \in Nat /\ StartPos \in 0..(FileSize - 1)
      BY StartIsTyped, PointsAreTyped DEF CmdType
    <3>2. PICK event \in BOOLEAN :
             /\ cmd' = [on |-> TRUE, pos |-> StartPos, event |-> event, long |-> FALSE]
             /\ pipe' = pipe \o <<Msg("started", NoPoint), Msg("start", NoPoint), Msg("chunk", p)>>
                             \o IF event THEN <<Msg("event-start", p)>> ELSE <<>>
      BY <2>2 DEF Launch, CmdType
    <3>3. /\ session' = TRUE /\ now' = now + 1
          /\ UNCHANGED <<ts, gaps, points, records, recording, current, data>>
      BY <2>2 DEF Launch
    <3> HIDE DEF p
    <3>4. CmdType' BY <3>1, <3>2, <3>3, SetsStay DEF CmdType
    <3>5. MemType' BY <2>1, <3>3, SetsStay DEF MemType
    <3>6. PipeType'
      <4>1. /\ Msg("started", NoPoint) \in Messages /\ Msg("start", NoPoint) \in Messages
            /\ Msg("chunk", p) \in Messages /\ Msg("event-start", p) \in Messages
        BY <3>1, PointsAreTyped, MessagesAreTyped DEF MsgKinds
      <4>2. <<Msg("started", NoPoint), Msg("start", NoPoint), Msg("chunk", p)>> \in Seq(Messages)
        BY <4>1
      <4>3. (IF event THEN <<Msg("event-start", p)>> ELSE <<>>) \in Seq(Messages)
        BY <4>1, EmptySeq
      <4> QED BY <3>2, <4>2, <4>3, ConcatProperties, SetsStay DEF PipeType
    <3> QED BY <2>1, <3>3, <3>4, <3>5, <3>6, TypesStay
  <2>3. CASE UNCHANGED cmdVars /\ UNCHANGED <<pipe, points, records, recording, session, current, data>>
    <3>1. MemType' BY <2>1, <2>3, SetsStay DEF MemType
    <3> QED BY <2>1, <2>3, <3>1, TypesStay
  <2> QED BY <2>1, <2>2, <2>3
<1> QED BY <1>1, <1>2

LEMMA ReceiveIsTyped ==
    ASSUME PipeType, pipe # <<>>, pipe' = Tail(pipe)
    PROVE  /\ PipeType' /\ Head(pipe) \in Messages /\ Head(pipe).point \in Points
           /\ Head(pipe).point.t \in Nat
<1>1. Head(pipe) \in Messages /\ Tail(pipe) \in Seq(Messages)
  BY TailIsTyped DEF PipeType
<1>2. Head(pipe).point \in Points BY <1>1 DEF Messages
<1> QED BY <1>1, <1>2, PointsAreTyped, SetsStay DEF PipeType

LEMMA EmitIsTyped ==
    ASSUME MgrType, NEW e \in Events, Emit(e), holder' = holder
    PROVE  MgrType'
BY AppendProperties, SetsStay DEF MgrType, Emit

LEMMA HandlersKeepTypes ==
    ASSUME TypeInv, Handle
    PROVE  TypeInv'
<1> USE DEF TypeInv
<1> DEFINE p == Head(pipe).point
<1>0. \A k \in EventKinds : Event(k, None) \in Events
  BY PointsAreTyped, EventsAreTyped
<1>1. CASE PipelineStarted \/ PipelineStopped
  <2>1. /\ Receive("started") \/ Receive("stopped")
        /\ recording' \in BOOLEAN /\ session' \in BOOLEAN
        /\ Emit(Event("Started", None)) \/ Emit(Event("Stopped", None))
        /\ UNCHANGED cmdVars /\ UNCHANGED <<up, points, records, available, current, data, holder>>
    BY <1>1 DEF PipelineStarted, PipelineStopped, MemType
  <2>2. PipeType' BY <2>1, ReceiveIsTyped DEF Receive
  <2>3. MgrType' BY <1>0, <2>1, EmitIsTyped DEF EventKinds
  <2>4. MemType' BY <2>1, SetsStay DEF MemType
  <2> QED BY <2>1, <2>2, <2>3, <2>4, TypesStay
<1>2. CASE HandleStartRecording
  <2> DEFINE kept == RemoveGarbagePoints(records, points)
  <2>1. CASE Gone BY <2>1, GoneKeepsTypes
  <2>2. CASE /\ pipe # <<>> /\ pipe' = Tail(pipe) /\ points' = kept
             /\ UNCHANGED cmdVars /\ UNCHANGED mgrVars
             /\ UNCHANGED <<up, records, available, recording, session, current, data>>
    <3>1. kept \in Seq(Points) /\ Len(kept) <= MaxChunks
      <4>1. PICK n \in 0..Len(points) : kept = SubSeq(points, 1, n)
        BY GarbageIsRemoved DEF MemType
      <4>2. kept \in Seq(Points) /\ Len(kept) = n /\ Len(points) \in Nat /\ Len(points) <= MaxChunks
        BY <4>1, PrefixIsTyped, LenProperties DEF MemType
      <4> HIDE DEF kept
      <4> QED BY <4>1, <4>2, Sizes
    <3> HIDE DEF kept
    <3>2. MemType' BY <2>2, <3>1, SetsStay DEF MemType
    <3> QED BY <2>2, <3>2, ReceiveIsTyped, TypesStay
  <2> QED BY <1>2, <2>1, <2>2 DEF HandleStartRecording
<1>3. CASE HandleStopRecording
  <2>1. /\ Receive("stop") /\ current' = None /\ UNCHANGED cmdVars /\ UNCHANGED mgrVars
        /\ UNCHANGED <<up, points, records, available, recording, session, data>>
    BY <1>3 DEF HandleStopRecording
  <2>2. MemType' BY <2>1, SetsStay DEF MemType, None
  <2> QED BY <2>1, <2>2, ReceiveIsTyped, TypesStay DEF Receive
<1>4. CASE HandleChunk
  <2> DEFINE m == Maintain(points, records)
  <2>1. /\ Receive("chunk") /\ points' = Append(m.points, p) /\ records' = m.records
        /\ data' = Saved(m.records, points') /\ Emit(Event("Timeline", None))
        /\ UNCHANGED cmdVars /\ UNCHANGED <<up, available, recording, session, current, holder>>
    BY <1>4 DEF HandleChunk
  <2>2. PipeType' /\ p \in Points BY <2>1, ReceiveIsTyped DEF Receive
  <2>3. MgrType' BY <1>0, <2>1, EmitIsTyped DEF EventKinds
  <2>4. /\ \/ m.points = points /\ Len(points) < MaxChunks
           \/ m.points = Tail(points) /\ Len(points) = MaxChunks /\ points # <<>>
        /\ m.records \in Seq(Records)
    BY MaintainKeeps DEF MemType
  <2> HIDE DEF m, p
  <2>5. m.points \in Seq(Points) /\ Len(m.points) + 1 <= MaxChunks
    <3>1. Len(points) \in Nat /\ MaxChunks \in Nat /\ points \in Seq(Points)
      BY Sizes, LenProperties DEF MemType
    <3>2. CASE m.points = points /\ Len(points) < MaxChunks BY <3>1, <3>2
    <3>3. CASE m.points = Tail(points) /\ Len(points) = MaxChunks /\ points # <<>>
      <4>1. Tail(points) \in Seq(Points) /\ Len(Tail(points)) = Len(points) - 1
        BY <3>1, <3>3, TailIsTyped
      <4> QED BY <3>1, <3>3, <4>1
    <3> QED BY <2>4, <3>2, <3>3
  <2>6. points' \in Seq(Points) /\ Len(points') <= MaxChunks
    BY <2>1, <2>2, <2>5, AppendIsTyped
  <2>7. MemType' BY <2>1, <2>4, <2>6, SetsStay DEF MemType
  <2>8. DataType'
    <3> DEFINE ps == points'
    <3>1. ps \in Seq(Points) /\ Len(ps) <= MaxChunks /\ data' = Saved(m.records, ps)
      BY <2>1, <2>6
    <3> HIDE DEF ps
    <3> QED BY <2>4, <3>1, SavedKeeps
  <2> QED BY <2>1, <2>2, <2>3, <2>7, <2>8, TypesStay
<1>5. CASE HandleEventStart
  <2>1. /\ Receive("event-start") /\ records' = Append(records, NewRecord(p)) /\ current' = p.t
        /\ Emit(Event("RecordStarted", p.t)) /\ UNCHANGED cmdVars
        /\ UNCHANGED <<up, points, available, recording, session, data, holder>>
    BY <1>5 DEF HandleEventStart
  <2>2. PipeType' /\ p \in Points /\ p.t \in Nat
    BY <2>1, ReceiveIsTyped DEF Receive
  <2> HIDE DEF p
  <2>3. MgrType' BY <2>1, <2>2, EventsAreTyped, EmitIsTyped DEF EventKinds
  <2>4. records' \in Seq(Records)
    BY <2>1, <2>2, RecordsAreTyped, AppendProperties DEF MemType
  <2>5. MemType' BY <2>1, <2>2, <2>4, SetsStay DEF MemType
  <2> QED BY <2>1, <2>2, <2>3, <2>5, TypesStay
<1>6. CASE HandleEventUpdate
  <2>1. /\ Receive("event-update") /\ records' = UpdateLastRecord(records, p, FALSE)
        /\ Emit(Event("RecordUpdated", p.t)) /\ UNCHANGED cmdVars
        /\ UNCHANGED <<up, points, available, recording, session, current, data, holder>>
    BY <1>6 DEF HandleEventUpdate
  <2>2. PipeType' /\ p \in Points /\ p.t \in Nat
    BY <2>1, ReceiveIsTyped DEF Receive
  <2> HIDE DEF p
  <2>3. MgrType' BY <2>1, <2>2, EventsAreTyped, EmitIsTyped DEF EventKinds
  <2>4. records' \in Seq(Records) BY <2>1, <2>2, UpdateKeeps DEF MemType
  <2>5. MemType' BY <2>1, <2>4, SetsStay DEF MemType
  <2> QED BY <2>1, <2>2, <2>3, <2>5, TypesStay
<1>7. CASE HandleEventEnd
  <2>1. /\ Receive("event-end") /\ records' = UpdateLastRecord(records, p, TRUE) /\ current' = None
        /\ UNCHANGED cmdVars /\ UNCHANGED mgrVars
        /\ UNCHANGED <<up, points, available, recording, session, data>>
    BY <1>7 DEF HandleEventEnd
  <2>2. PipeType' /\ p \in Points BY <2>1, ReceiveIsTyped DEF Receive
  <2> HIDE DEF p
  <2>3. records' \in Seq(Records) BY <2>1, <2>2, UpdateKeeps DEF MemType
  <2>4. MemType' BY <2>1, <2>3, SetsStay DEF MemType, None
  <2> QED BY <2>1, <2>2, <2>4, TypesStay
<1> QED BY <1>1, <1>2, <1>3, <1>4, <1>5, <1>6, <1>7 DEF Handle

LEMMA ManagerKeepsTypes ==
    ASSUME TypeInv, HandleTimeshiftEvent
    PROVE  TypeInv'
<1> USE DEF TypeInv
<1>1. /\ mail # <<>> /\ mail' = Tail(mail) /\ UNCHANGED cmdVars /\ UNCHANGED <<pipe, up, data>>
      /\ UNCHANGED memVars
      /\ \/ holder' = [holder EXCEPT !.started = TRUE]
         \/ holder' = [holder EXCEPT !.started = FALSE, !.current = None]
         \/ holder' = [holder EXCEPT !.current = Head(mail).id]
         \/ holder' = holder
  BY DEF HandleTimeshiftEvent
<1>2. mail' \in Seq(Events) /\ Head(mail) \in Events
  BY <1>1, TailIsTyped DEF MgrType
<1>3. holder' \in [started : BOOLEAN, current : Nat]
  <2>1. Head(mail).id \in Nat /\ None \in Nat /\ holder \in [started : BOOLEAN, current : Nat]
    BY <1>2 DEF MgrType, None, Events
  <2> QED BY <1>1, <2>1
<1>4. MgrType' BY <1>2, <1>3, SetsStay DEF MgrType
<1> QED BY <1>1, <1>4, TypesStay

(* Every variable has its type, whatever breaks, crashes and restarts.      *)
THEOREM TypeCorrect == TsSpec => []TypeInv
<1>1. TsInit => TypeInv
  <2> SUFFICES ASSUME TsInit PROVE TypeInv OBVIOUS
  <2>1. CmdType BY Sizes, GapAssumption DEF TsInit, CmdType, Off
  <2>2. MemType /\ PipeType /\ MgrType
    <3>1. MemType
      <4>1. /\ points = <<>> /\ records = <<>> /\ current = 0 /\ available = FALSE
            /\ recording = FALSE /\ session = FALSE
        BY DEF TsInit, None
      <4>2. points \in Seq(Points) /\ records \in Seq(Records) /\ Len(points) = 0 /\ 0 <= MaxChunks
        BY <4>1, Sizes, EmptySeq
      <4>3. available \in BOOLEAN /\ recording \in BOOLEAN /\ session \in BOOLEAN
        BY <4>1, Zenon
      <4> QED BY <4>1, <4>2, <4>3 DEF MemType
    <3>2. PipeType /\ MgrType BY EmptySeq DEF TsInit, PipeType, MgrType, None
    <3> QED BY <3>1, <3>2
  <2>3. DataType /\ up \in BOOLEAN BY DEF TsInit, DataType
  <2> QED BY <2>1, <2>2, <2>3 DEF TypeInv
<1>2. TypeInv /\ [TsNext]_tsVars => TypeInv'
  <2> SUFFICES ASSUME TypeInv, [TsNext]_tsVars PROVE TypeInv' OBVIOUS
  <2>1. CASE UNCHANGED tsVars BY <2>1, TypesStay DEF tsVars, TypeInv
  <2>2. CASE Crash BY <2>2, GoneKeepsTypes DEF Crash
  <2> QED
    BY <2>1, <2>2, CommandKeepsTypes, StartKeepsTypes, HandlersKeepTypes, ManagerKeepsTypes DEF TsNext
<1> QED BY <1>1, <1>2, PTL DEF TsSpec

(***************************************************************************)
(* What the manager tells a new subscriber.                                 *)
(***************************************************************************)
(* The last event about the state on its way tells whether the recorder     *)
(* records; the holder knows when there is none.                            *)
IsState(e) == e.kind \in {"Started", "Stopped"}
LastState(i) == IsState(mail[i]) /\ \A j \in DOMAIN mail : i < j => ~IsState(mail[j])
StateFollows ==
    up => \/ \E i \in DOMAIN mail : LastState(i) /\ (mail[i].kind = "Started" <=> recording)
          \/ (\A j \in DOMAIN mail : ~IsState(mail[j])) /\ (holder.started <=> recording)

LEMMA QuietStepsFollow ==
    ASSUME StateFollows, UNCHANGED <<mail, up, recording, holder>>
    PROVE  StateFollows'
BY DEF StateFollows, LastState, IsState

LEMMA AppendedEvents ==
    ASSUME MgrType, NEW e \in Events, Emit(e)
    PROVE  /\ Len(mail) \in Nat /\ DOMAIN mail = 1..Len(mail) /\ DOMAIN mail' = 1..Len(mail) + 1
           /\ \A i \in DOMAIN mail : mail'[i] = mail[i]
           /\ mail'[Len(mail) + 1] = e
<1>1. mail' = Append(mail, e) /\ mail \in Seq(Events) BY DEF Emit, MgrType
<1> QED BY <1>1, AppendIsTyped

LEMMA OtherEventsFollow ==
    ASSUME MgrType, StateFollows, NEW e \in Events, Emit(e), ~IsState(e),
           UNCHANGED <<up, recording, holder>>
    PROVE  StateFollows'
<1> USE AppendedEvents
<1>0. /\ Len(mail) \in Nat /\ DOMAIN mail = 1..Len(mail) /\ DOMAIN mail' = 1..Len(mail) + 1
      /\ \A i \in DOMAIN mail : mail'[i] = mail[i]
      /\ mail'[Len(mail) + 1] = e
  OBVIOUS
<1>1. \A j \in DOMAIN mail' : IsState(mail'[j]) => j \in DOMAIN mail /\ IsState(mail[j])
  <2> TAKE j \in DOMAIN mail'
  <2>1. CASE j = Len(mail) + 1 BY <1>0, <2>1
  <2>2. CASE j # Len(mail) + 1 BY <1>0, <2>2
  <2> QED BY <2>1, <2>2
<1>2. \A i \in DOMAIN mail : LastState(i) => LastState(i)'
  BY <1>0, <1>1 DEF LastState, IsState
<1>3. SUFFICES ASSUME up
               PROVE  \/ \E i \in DOMAIN mail' : LastState(i)' /\ (mail'[i].kind = "Started" <=> recording)
                      \/ /\ \A j \in DOMAIN mail' : ~IsState(mail'[j])
                         /\ holder.started <=> recording
  BY DEF StateFollows, IsState
<1>4. CASE \E i \in DOMAIN mail : LastState(i) /\ (mail[i].kind = "Started" <=> recording)
  <2>1. PICK i \in DOMAIN mail : LastState(i) /\ (mail[i].kind = "Started" <=> recording)
    BY <1>4
  <2>2. i \in DOMAIN mail' /\ LastState(i)' /\ mail'[i] = mail[i]
    BY <1>0, <1>2, <2>1
  <2> QED BY <2>1, <2>2
<1>5. CASE (\A j \in DOMAIN mail : ~IsState(mail[j])) /\ (holder.started <=> recording)
  BY <1>1, <1>5
<1> QED BY <1>3, <1>4, <1>5 DEF StateFollows

LEMMA StatesFollow ==
    ASSUME TypeInv, StateFollows, PipelineStarted \/ PipelineStopped
    PROVE  StateFollows'
<1>1. PICK k \in {"Started", "Stopped"} :
         Emit(Event(k, None)) /\ (k = "Started" <=> recording')
  BY DEF PipelineStarted, PipelineStopped
<1>2. Event(k, None) \in Events /\ Event(k, None).kind = k
  BY EventsAreTyped, PointsAreTyped DEF EventKinds
<1>3. PICK i \in DOMAIN mail' : mail'[i] = Event(k, None) /\ \A j \in DOMAIN mail' : ~(i < j)
  <2>1. /\ Len(mail) \in Nat /\ DOMAIN mail' = 1..Len(mail) + 1
        /\ mail'[Len(mail) + 1] = Event(k, None)
    BY <1>1, <1>2, AppendedEvents DEF TypeInv
  <2>2. Len(mail) + 1 \in DOMAIN mail' /\ \A j \in DOMAIN mail' : ~(Len(mail) + 1 < j)
    BY <2>1
  <2> QED BY <2>1, <2>2
<1>4. LastState(i)' /\ mail'[i].kind = k BY <1>2, <1>3 DEF LastState, IsState
<1> QED BY <1>1, <1>3, <1>4 DEF StateFollows

LEMMA ManagerFollows ==
    ASSUME TypeInv, StateFollows, HandleTimeshiftEvent
    PROVE  StateFollows'
<1> DEFINE e == Head(mail)
<1>1. /\ up /\ up' /\ mail # <<>> /\ mail' = Tail(mail) /\ recording' = recording
      /\ holder' = CASE e.kind = "Started" -> [holder EXCEPT !.started = TRUE]
                     [] e.kind = "Stopped" -> [holder EXCEPT !.started = FALSE, !.current = None]
                     [] e.kind = "RecordStarted" -> [holder EXCEPT !.current = e.id]
                     [] OTHER -> holder
  BY DEF HandleTimeshiftEvent, memVars
<1>2. /\ mail \in Seq(Events) /\ e = mail[1] /\ Len(mail) \in Nat /\ Len(mail) >= 1
      /\ DOMAIN mail = 1..Len(mail) /\ DOMAIN mail' = 1..Len(mail) - 1
      /\ \A i \in 1..Len(mail) - 1 : mail'[i] = mail[i + 1]
      /\ holder \in [started : BOOLEAN, current : Nat]
  BY <1>1, TailIsTyped DEF TypeInv, MgrType
<1> HIDE DEF e
<1>3. /\ e.kind = "Started" => holder'.started = TRUE
      /\ e.kind = "Stopped" => holder'.started = FALSE
      /\ ~IsState(e) => holder'.started = holder.started
  BY <1>1, <1>2 DEF IsState
<1>4. \A j \in DOMAIN mail' : j + 1 \in DOMAIN mail /\ mail'[j] = mail[j + 1]
  BY <1>2
<1>5. CASE \E i \in DOMAIN mail : LastState(i) /\ (mail[i].kind = "Started" <=> recording)
  <2>1. PICK i \in DOMAIN mail : LastState(i) /\ (mail[i].kind = "Started" <=> recording)
    BY <1>5
  <2>2. CASE i = 1
    <3>1. \A j \in DOMAIN mail' : ~IsState(mail'[j])
      BY <1>2, <1>4, <2>1, <2>2 DEF LastState
    <3>2. holder'.started <=> recording'
      BY <1>1, <1>2, <1>3, <2>1, <2>2 DEF LastState, IsState
    <3> QED BY <3>1, <3>2 DEF StateFollows, IsState
  <2>3. CASE i # 1
    <3> DEFINE k == i - 1
    <3>1. k \in DOMAIN mail' /\ mail'[k] = mail[i] BY <1>2, <2>1, <2>3
    <3>2. \A j \in DOMAIN mail' : k < j => ~IsState(mail'[j])
      BY <1>2, <1>4, <2>1 DEF LastState
    <3> HIDE DEF k
    <3>3. LastState(k)' BY <2>1, <3>1, <3>2 DEF LastState, IsState
    <3> QED BY <1>1, <2>1, <3>1, <3>3 DEF StateFollows
  <2> QED BY <2>2, <2>3
<1>6. CASE (\A j \in DOMAIN mail : ~IsState(mail[j])) /\ (holder.started <=> recording)
  <2>1. ~IsState(e) /\ \A j \in DOMAIN mail' : ~IsState(mail'[j])
    BY <1>2, <1>4, <1>6
  <2>2. holder'.started <=> recording' BY <1>1, <1>3, <1>6, <2>1
  <2> QED BY <2>1, <2>2 DEF StateFollows, IsState
<1> QED BY <1>1, <1>5, <1>6 DEF StateFollows

LEMMA OthersFollow ==
    ASSUME TypeInv, StateFollows,
           Write \/ EventBoundary \/ PipelineBreaks \/ Started \/ Crash \/ ServiceUpdated
           \/ HealthCheck \/ Handle \/ UNCHANGED tsVars
    PROVE  StateFollows'
<1>1. CASE Write \/ EventBoundary \/ PipelineBreaks \/ UNCHANGED tsVars
  <2>1. UNCHANGED <<mail, up, recording, holder>>
    BY <1>1 DEF Write, EventBoundary, PipelineBreaks, tsVars, memVars, mgrVars
  <2> QED BY <2>1, QuietStepsFollow
<1>2. CASE ServiceUpdated \/ HealthCheck
  <2>1. UNCHANGED <<mail, up, recording, holder>>
    BY <1>2 DEF ServiceUpdated, HealthCheck, StartRecording, Launch, mgrVars
  <2> QED BY <2>1, QuietStepsFollow
<1>3. CASE Started
  <2>1. mail' = <<>> /\ recording' = FALSE /\ holder'.started = FALSE
    BY <1>3 DEF Started
  <2> QED BY <2>1 DEF StateFollows
<1>4. ASSUME Gone PROVE StateFollows' BY <1>4 DEF Gone, StateFollows
<1>5. CASE Crash BY <1>4, <1>5 DEF Crash
<1>6. CASE Handle
  <2>1. CASE PipelineStarted \/ PipelineStopped BY <2>1, StatesFollow
  <2>2. CASE HandleStartRecording
    <3>1. Gone \/ UNCHANGED <<mail, up, recording, holder>>
      BY <2>2 DEF HandleStartRecording, mgrVars
    <3> QED BY <1>4, <3>1, QuietStepsFollow
  <2>3. CASE HandleStopRecording \/ HandleEventEnd
    <3>1. UNCHANGED <<mail, up, recording, holder>>
      BY <2>3 DEF HandleStopRecording, HandleEventEnd, mgrVars
    <3> QED BY <3>1, QuietStepsFollow
  <2>4. CASE HandleChunk \/ HandleEventStart \/ HandleEventUpdate
    <3>1. \E k \in {"Timeline", "RecordStarted", "RecordUpdated"}, n \in {None, Head(pipe).point.t} :
             Emit(Event(k, n))
      BY <2>4 DEF HandleChunk, HandleEventStart, HandleEventUpdate
    <3>2. pipe # <<>> /\ pipe' = Tail(pipe) /\ UNCHANGED <<up, recording, holder>>
      BY <2>4 DEF HandleChunk, HandleEventStart, HandleEventUpdate, Receive
    <3>3. Head(pipe).point.t \in Nat /\ None \in Nat
      BY <3>2, ReceiveIsTyped, PointsAreTyped DEF TypeInv
    <3>4. PICK k \in {"Timeline", "RecordStarted", "RecordUpdated"}, n \in Nat : Emit(Event(k, n))
      BY <3>1, <3>3
    <3>5. Event(k, n) \in Events /\ ~IsState(Event(k, n))
      BY EventsAreTyped DEF EventKinds, IsState
    <3> QED BY <3>2, <3>4, <3>5, OtherEventsFollow DEF TypeInv
  <2> QED BY <1>6, <2>1, <2>2, <2>3, <2>4 DEF Handle
<1> QED BY <1>1, <1>2, <1>3, <1>5, <1>6

THEOREM StatesAreFollowed == TsSpec => []StateFollows
<1>1. TsInit => StateFollows BY DEF TsInit, StateFollows
<1>2. TypeInv /\ StateFollows /\ [TsNext]_tsVars => StateFollows'
  BY ManagerFollows, OthersFollow DEF TsNext
<1> QED BY <1>1, <1>2, TypeCorrect, PTL DEF TsSpec

(* With no event under way to it, TimeshiftManager tells a new subscriber   *)
(* that the recorder has started exactly if it is recording, whatever       *)
(* pipelines, crashes and restarts came before.                             *)
THEOREM NewSubscribersAreTold == TsSpec => []SubscribersAreToldState
<1>1. TypeInv /\ StateFollows => SubscribersAreToldState
  <2> SUFFICES ASSUME TypeInv, StateFollows, up, mail = <<>>
               PROVE  recording <=> Event("Started", None) \in Range(Preceding)
    BY DEF SubscribersAreToldState
  <2>1. holder.started <=> recording
    <3>1. DOMAIN mail = {} OBVIOUS
    <3> QED BY <3>1 DEF StateFollows
  <2> DEFINE tl == Event("Timeline", None)
             st == Event("Started", None)
             rc == Event("RecordStarted", holder.current)
  <2>2. tl # st /\ rc # st
    <3>1. tl.kind = "Timeline" /\ st.kind = "Started" /\ rc.kind = "RecordStarted"
      BY DEF Event
    <3> QED BY <3>1
  <2> HIDE DEF tl, st, rc
  <2>3. Preceding = <<tl>> \o (IF holder.started THEN <<st>> ELSE <<>>)
                           \o (IF holder.current # None THEN <<rc>> ELSE <<>>)
    BY DEF Preceding, tl, st, rc
  <2> DEFINE S == {tl, st, rc}
             B == IF holder.started THEN <<st>> ELSE <<>>
             C == IF holder.current # None THEN <<rc>> ELSE <<>>
  <2>4. /\ <<tl>> \in Seq(S) /\ B \in Seq(S) /\ C \in Seq(S)
        /\ Range(<<tl>>) = {tl} /\ Range(B) = (IF holder.started THEN {st} ELSE {})
        /\ Range(C) = (IF holder.current # None THEN {rc} ELSE {})
    <3>1. /\ Range(<<tl>>) = {tl} /\ Range(<<st>>) = {st} /\ Range(<<rc>>) = {rc}
      <4>1. ASSUME NEW x PROVE Range(<<x>>) = {x}
        <5> DEFINE q == <<x>>
        <5>1. DOMAIN q = {1} /\ q[1] = x OBVIOUS
        <5> HIDE DEF q
        <5>2. Range(q) = {x} BY <5>1 DEF Range
        <5> QED BY <5>2 DEF q
      <4> QED BY <4>1
    <3>2. Range(<<>>) = {} /\ <<>> \in Seq(S) BY EmptySeq DEF Range
    <3>3. <<tl>> \in Seq(S) /\ <<st>> \in Seq(S) /\ <<rc>> \in Seq(S) OBVIOUS
    <3> HIDE DEF S
    <3> QED BY <3>1, <3>2, <3>3
  <2> HIDE DEF S, B, C
  <2>5. <<tl>> \o B \in Seq(S) BY <2>4, ConcatProperties
  <2>6. Range(Preceding) = {tl} \union Range(B) \union Range(C)
    <3>1. Preceding = <<tl>> \o B \o C BY <2>3 DEF B, C
    <3>2. Range(<<tl>> \o B) = Range(<<tl>>) \union Range(B)
      BY <2>4, RangeConcatenation
    <3>3. Range((<<tl>> \o B) \o C) = Range(<<tl>> \o B) \union Range(C)
      <4> DEFINE AB == <<tl>> \o B
      <4>1. AB \in Seq(S) /\ C \in Seq(S) BY <2>4, <2>5
      <4> HIDE DEF AB
      <4>2. Range(AB \o C) = Range(AB) \union Range(C)
        BY <4>1, RangeConcatenation
      <4> QED BY <4>2 DEF AB
    <3> QED BY <2>4, <3>1, <3>2, <3>3
  <2>7. holder.started <=> st \in Range(Preceding) BY <2>2, <2>4, <2>6
  <2> QED BY <2>1, <2>7 DEF st
<1> QED BY <1>1, TypeCorrect, StatesAreFollowed, PTL

(***************************************************************************)
(* Chunks.                                                                  *)
(***************************************************************************)
Aligned(pos) == \E k \in 0..(NumChunks - 1) : pos = k * ChunkSize
NextChunk(pos) == (pos + ChunkSize) % FileSize

LEMMA Multiples ==
    ASSUME NEW k \in Nat, NEW n \in Nat, NEW c \in Nat, c > 0, k < n
    PROVE  k * c + c <= c * n
<1>1. (n - k) * c >= c OBVIOUS
<1>2. (n - k) * c = n * c - k * c OBVIOUS
<1> QED BY <1>1, <1>2

LEMMA Remainders ==
    ASSUME NEW n \in Nat, n > 0
    PROVE  /\ n % n = 0
           /\ \A x \in Nat : x < n => x % n = x
           /\ \A k, r \in Nat : r < n => (k * n + r) % n = r
<1>1. n % n = 0 OBVIOUS
<1>2. ASSUME NEW x \in Nat, x < n PROVE x % n = x BY <1>2
<1>3. ASSUME NEW k \in Nat, NEW r \in Nat, r < n PROVE (k * n + r) % n = r
  BY <1>3
<1> QED BY <1>1, <1>2, <1>3

(* The position after a unit is the next one of the chunk or the beginning  *)
(* of the next chunk.                                                       *)
LEMMA NextPosition ==
    ASSUME NEW k \in 0..(NumChunks - 1), NEW b \in 0..(ChunkSize - 1),
           NEW pos, pos = (k * ChunkSize + b + 1) % FileSize
    PROVE  /\ b + 1 < ChunkSize => pos = k * ChunkSize + (b + 1) /\ pos % ChunkSize # 0
           /\ b + 1 = ChunkSize => pos = NextChunk(k * ChunkSize) /\ Aligned(pos)
                                   /\ pos % ChunkSize = 0
<1> DEFINE kc == k * ChunkSize
<1>1. /\ ChunkSize \in Nat /\ ChunkSize > 0 /\ NumChunks \in Nat /\ NumChunks > 2
      /\ FileSize \in Nat /\ FileSize > 0 /\ FileSize = ChunkSize * NumChunks
      /\ k \in Nat /\ k < NumChunks /\ b \in Nat
  BY Sizes DEF FileSize
<1>2. kc \in Nat /\ kc + ChunkSize <= FileSize BY <1>1, Multiples
<1>3. ASSUME b + 1 < ChunkSize PROVE pos = kc + (b + 1) /\ pos % ChunkSize # 0
  <2>1. kc + (b + 1) \in Nat /\ kc + (b + 1) < FileSize /\ kc + b + 1 = kc + (b + 1)
    <3> HIDE DEF kc
    <3> QED BY <1>1, <1>2, <1>3
  <2>2. pos = kc + (b + 1) BY <1>1, <2>1, Remainders
  <2>3. (k * ChunkSize + (b + 1)) % ChunkSize = b + 1
    BY <1>1, <1>3, Remainders
  <2> QED BY <1>1, <2>2, <2>3
<1>4. ASSUME b + 1 = ChunkSize
      PROVE  pos = NextChunk(kc) /\ Aligned(pos) /\ pos % ChunkSize = 0
  <2>1. pos = (kc + ChunkSize) % FileSize
    <3>1. kc + b + 1 = kc + ChunkSize
      <4> HIDE DEF kc
      <4> QED BY <1>1, <1>2, <1>4
    <3> QED BY <3>1
  <2>2. \E j \in 0..(NumChunks - 1) : pos = j * ChunkSize
    <3>1. CASE k + 1 = NumChunks
      <4>1. kc + ChunkSize = FileSize BY <1>1, <3>1
      <4>2. pos = 0 * ChunkSize /\ 0 \in 0..(NumChunks - 1)
        BY <1>1, <2>1, <4>1, Remainders
      <4> QED BY <4>2
    <3>2. CASE k + 1 # NumChunks
      <4>1. k + 1 \in Nat /\ k + 1 < NumChunks BY <1>1, <3>2
      <4>2. (k + 1) * ChunkSize + ChunkSize <= FileSize
        BY <1>1, <4>1, Multiples
      <4>3. (k + 1) * ChunkSize = kc + ChunkSize BY <1>1
      <4>4. kc + ChunkSize \in Nat /\ kc + ChunkSize < FileSize
        <5> HIDE DEF kc
        <5> QED BY <1>1, <1>2, <4>2, <4>3
      <4>5. pos = (k + 1) * ChunkSize BY <1>1, <2>1, <4>3, <4>4, Remainders
      <4>6. k + 1 \in 0..(NumChunks - 1) BY <1>1, <4>1
      <4> QED BY <4>5, <4>6
    <3> QED BY <3>1, <3>2
  <2>3. PICK j \in 0..(NumChunks - 1) : pos = j * ChunkSize BY <2>2
  <2>4. (j * ChunkSize + 0) % ChunkSize = 0 /\ j * ChunkSize + 0 = j * ChunkSize
    BY <1>1, Remainders
  <2>5. pos % ChunkSize = 0 BY <2>3, <2>4
  <2> QED BY <2>1, <2>2, <2>5 DEF NextChunk, Aligned
<1> QED BY <1>3, <1>4

(***************************************************************************)
(* The messages of the command.                                             *)
(***************************************************************************)
IsChunk(m) == m.kind = "chunk"

(* Chunks are announced in the order of the ring, each after an update of   *)
(* the last record or after the start; nothing follows the end.             *)
ChunksInOrder(q) ==
    \A i, j \in DOMAIN q : IsChunk(q[i]) /\ IsChunk(q[j]) /\ i < j =>
       /\ q[i].point.t < q[j].point.t
       /\ (\A k \in DOMAIN q : i < k /\ k < j => ~IsChunk(q[k])) =>
             q[j].point.pos = NextChunk(q[i].point.pos)
ChunksAnnounced(q) ==
    \A i \in DOMAIN q : IsChunk(q[i]) =>
       /\ Aligned(q[i].point.pos)
       /\ i > 1 => q[i - 1].kind = "start" \/ q[i - 1] = Msg("event-update", q[i].point)
StartsFirst(q) ==
    \A i \in DOMAIN q : q[i].kind = "start" =>
       /\ \A j \in DOMAIN q : j < i => q[j].kind = "started"
       /\ i + 1 \in DOMAIN q /\ IsChunk(q[i + 1])
NotStopped(q) == \A i \in DOMAIN q : q[i].kind # "stopped"
StopsLast(q) == \A i \in DOMAIN q : q[i].kind = "stopped" => i = Len(q)
WellFormed(q) == ChunksInOrder(q) /\ ChunksAnnounced(q) /\ StartsFirst(q) /\ StopsLast(q)

(* What they find when they are handled: the first chunk goes on where the  *)
(* last point is, or follows the consistency check.                         *)
PointsBefore(q, ps) ==
    \A i \in DOMAIN ps, j \in DOMAIN q : IsChunk(q[j]) => ps[i].t < q[j].point.t
StartsAfter(q, rs) ==
    \A i \in DOMAIN q : q[i].kind = "start" /\ rs # <<>> => Last(rs).end.t < q[i + 1].point.t
Continues(p, ps) == ps # <<>> /\ p.pos = NextChunk(Last(ps).pos)
Checked(rs, ps) ==
    /\ ps # <<>> /\ Last(rs).end.pos = NextChunk(Last(ps).pos)
    /\ Last(ps).t < Last(rs).end.t
Ready(p, ps, rs) ==
    \/ (rs = <<>> \/ Last(rs).end = p) /\ Continues(p, ps)
    \/ rs = <<>>
    \/ Checked(rs, ps) /\ Last(rs).end.t < p.t
FirstChunk(q, i) ==
    IsChunk(q[i]) /\ \A j \in DOMAIN q : j < i => ~IsChunk(q[j]) /\ q[j].kind # "start"
Firsts(q, ps, rs) ==
    \A i \in DOMAIN q : FirstChunk(q, i) =>
       IF i = 1 THEN Ready(q[i].point, ps, rs) ELSE Continues(q[i].point, ps)
Queue(q, ps, rs) == WellFormed(q) /\ PointsBefore(q, ps) /\ StartsAfter(q, rs) /\ Firsts(q, ps, rs)

(* The chunk that is being written starts at position pos.                  *)
Base(q, ps, pos) ==
    /\ \A i \in DOMAIN q : IsChunk(q[i]) /\ (\A j \in DOMAIN q : i < j => ~IsChunk(q[j])) =>
          q[i].point.pos = pos
    /\ (\A i \in DOMAIN q : ~IsChunk(q[i])) => ps # <<>> /\ Last(ps).pos = pos

LEMMA EmptyQueue ==
    ASSUME NEW ps, NEW rs
    PROVE  Queue(<<>>, ps, rs) /\ NotStopped(<<>>)
BY DEF Queue, WellFormed, ChunksInOrder, ChunksAnnounced, StartsFirst, StopsLast, NotStopped,
       PointsBefore, StartsAfter, Firsts

LEMMA OtherAppended ==
    ASSUME NEW q \in Seq(Messages), NEW m \in Messages, NEW ps, NEW rs, Queue(q, ps, rs),
           NotStopped(q), m.kind \notin {"chunk", "start"}
    PROVE  /\ Queue(Append(q, m), ps, rs)
           /\ m.kind # "stopped" => NotStopped(Append(q, m))
           /\ \A pos : Base(q, ps, pos) => Base(Append(q, m), ps, pos)
<1> DEFINE a == Append(q, m)
           n == Len(q)
<1>1. /\ n \in Nat /\ DOMAIN q = 1..n /\ DOMAIN a = 1..n + 1 /\ Len(a) = n + 1
      /\ \A i \in 1..n : a[i] = q[i]
      /\ a[n + 1] = m
  BY AppendIsTyped
<1> HIDE DEF a, n
<1>2. ~IsChunk(a[n + 1]) /\ a[n + 1].kind # "start" BY <1>1 DEF IsChunk
<1>3. \A i \in DOMAIN a : i # n + 1 => i \in DOMAIN q /\ a[i] = q[i] BY <1>1
<1>4. ChunksInOrder(a)
  BY <1>1, <1>2, <1>3 DEF ChunksInOrder, Queue, WellFormed
<1>5. ChunksAnnounced(a)
  <2> SUFFICES ASSUME NEW i \in DOMAIN a, IsChunk(a[i])
               PROVE  /\ Aligned(a[i].point.pos)
                      /\ i > 1 => a[i - 1].kind = "start" \/ a[i - 1] = Msg("event-update", a[i].point)
    BY DEF ChunksAnnounced
  <2>1. i \in DOMAIN q /\ a[i] = q[i] BY <1>2, <1>3
  <2>2. i > 1 => i - 1 \in DOMAIN q /\ a[i - 1] = q[i - 1] BY <1>1, <2>1
  <2> QED BY <2>1, <2>2 DEF ChunksAnnounced, Queue, WellFormed
<1>6. StartsFirst(a)
  <2> SUFFICES ASSUME NEW i \in DOMAIN a, a[i].kind = "start"
               PROVE  /\ \A j \in DOMAIN a : j < i => a[j].kind = "started"
                      /\ i + 1 \in DOMAIN a /\ IsChunk(a[i + 1])
    BY DEF StartsFirst
  <2>1. i \in DOMAIN q /\ q[i].kind = "start" BY <1>2, <1>3
  <2>2. (\A j \in DOMAIN q : j < i => q[j].kind = "started") /\ i + 1 \in DOMAIN q /\ IsChunk(q[i + 1])
    BY <2>1 DEF StartsFirst, Queue, WellFormed
  <2> QED BY <1>1, <2>1, <2>2
<1>7. StopsLast(a) BY <1>1, <1>3 DEF StopsLast, NotStopped
<1>8. PointsBefore(a, ps) BY <1>2, <1>3 DEF PointsBefore, Queue
<1>9. StartsAfter(a, rs)
  <2> SUFFICES ASSUME NEW i \in DOMAIN a, a[i].kind = "start", rs # <<>>
               PROVE  Last(rs).end.t < a[i + 1].point.t
    BY DEF StartsAfter
  <2>1. i \in DOMAIN q /\ q[i].kind = "start" BY <1>2, <1>3
  <2>2. i + 1 \in DOMAIN q BY <2>1 DEF StartsFirst, Queue, WellFormed
  <2> QED BY <1>1, <2>1, <2>2 DEF StartsAfter, Queue
<1>10. Firsts(a, ps, rs)
  <2> SUFFICES ASSUME NEW i \in DOMAIN a, FirstChunk(a, i)
               PROVE  IF i = 1 THEN Ready(a[i].point, ps, rs) ELSE Continues(a[i].point, ps)
    BY DEF Firsts
  <2>1. i \in DOMAIN q /\ a[i] = q[i] BY <1>2, <1>3 DEF FirstChunk
  <2>2. FirstChunk(q, i) BY <1>1, <2>1 DEF FirstChunk
  <2> QED BY <2>1, <2>2 DEF Firsts, Queue
<1>11. ASSUME NEW pos, Base(q, ps, pos) PROVE Base(a, ps, pos)
  <2>1. ASSUME NEW i \in DOMAIN a, IsChunk(a[i]), \A j \in DOMAIN a : i < j => ~IsChunk(a[j])
        PROVE  a[i].point.pos = pos
    <3>1. i \in DOMAIN q /\ a[i] = q[i] BY <1>2, <1>3, <2>1
    <3>2. \A j \in DOMAIN q : i < j => ~IsChunk(q[j]) BY <1>1, <2>1
    <3> QED BY <1>11, <2>1, <3>1, <3>2 DEF Base
  <2>2. ASSUME \A i \in DOMAIN a : ~IsChunk(a[i]) PROVE ps # <<>> /\ Last(ps).pos = pos
    <3>1. \A i \in DOMAIN q : ~IsChunk(q[i]) BY <1>1, <2>2
    <3> QED BY <1>11, <3>1 DEF Base
  <2> QED BY <2>1, <2>2 DEF Base
<1>12. m.kind # "stopped" => NotStopped(a) BY <1>1, <1>3 DEF NotStopped
<1> QED BY <1>4, <1>5, <1>6, <1>7, <1>8, <1>9, <1>10, <1>11, <1>12 DEF Queue, WellFormed, a

LEMMA ChunkAppended ==
    ASSUME NEW q \in Seq(Messages), NEW m \in Messages, NEW ps, NEW rs, Queue(q, ps, rs),
           NotStopped(q), IsChunk(m), NEW pos, Base(q, ps, pos),
           m.point.pos = NextChunk(pos), Aligned(m.point.pos),
           \A i \in DOMAIN q : IsChunk(q[i]) => q[i].point.t < m.point.t,
           \A i \in DOMAIN ps : ps[i].t < m.point.t,
           q # <<>>, Last(q) = Msg("event-update", m.point)
    PROVE  /\ Queue(Append(q, m), ps, rs) /\ NotStopped(Append(q, m))
           /\ Base(Append(q, m), ps, m.point.pos)
<1> DEFINE a == Append(q, m)
           n == Len(q)
<1>1. /\ n \in Nat /\ n >= 1 /\ DOMAIN q = 1..n /\ DOMAIN a = 1..n + 1 /\ Len(a) = n + 1
      /\ \A i \in 1..n : a[i] = q[i]
      /\ a[n + 1] = m /\ q[n] = Msg("event-update", m.point)
  BY AppendIsTyped, LastIsTyped
<1> HIDE DEF a, n
<1>2. a[n + 1].kind = "chunk" /\ IsChunk(a[n + 1]) BY <1>1 DEF IsChunk
<1>3. \A i \in DOMAIN a : i # n + 1 => i \in DOMAIN q /\ a[i] = q[i] BY <1>1
<1>4. ChunksInOrder(a)
  <2> SUFFICES ASSUME NEW i \in DOMAIN a, NEW j \in DOMAIN a, IsChunk(a[i]), IsChunk(a[j]), i < j
               PROVE  /\ a[i].point.t < a[j].point.t
                      /\ (\A k \in DOMAIN a : i < k /\ k < j => ~IsChunk(a[k])) =>
                            a[j].point.pos = NextChunk(a[i].point.pos)
    BY DEF ChunksInOrder
  <2>1. i \in DOMAIN q /\ a[i] = q[i] BY <1>1
  <2>2. CASE j = n + 1
    <3>1. a[j] = m /\ a[i].point.t < m.point.t BY <1>1, <2>1, <2>2
    <3>2. ASSUME \A k \in DOMAIN a : i < k /\ k < j => ~IsChunk(a[k])
          PROVE  a[j].point.pos = NextChunk(a[i].point.pos)
      <4>1. \A k \in DOMAIN q : i < k => ~IsChunk(q[k]) BY <1>1, <2>2, <3>2
      <4>2. q[i].point.pos = pos BY <2>1, <4>1 DEF Base
      <4> QED BY <2>1, <3>1, <4>2
    <3> QED BY <3>1, <3>2
  <2>3. CASE j # n + 1
    <3>1. j \in DOMAIN q /\ a[j] = q[j] BY <1>3, <2>3
    <3>2. (\A k \in DOMAIN a : i < k /\ k < j => ~IsChunk(a[k]))
             => \A k \in DOMAIN q : i < k /\ k < j => ~IsChunk(q[k])
      BY <1>1
    <3> QED BY <2>1, <3>1, <3>2 DEF ChunksInOrder, Queue, WellFormed
  <2> QED BY <2>2, <2>3
<1>5. ChunksAnnounced(a)
  <2> SUFFICES ASSUME NEW i \in DOMAIN a, IsChunk(a[i])
               PROVE  /\ Aligned(a[i].point.pos)
                      /\ i > 1 => a[i - 1].kind = "start" \/ a[i - 1] = Msg("event-update", a[i].point)
    BY DEF ChunksAnnounced
  <2>1. CASE i = n + 1
    <3>1. a[i] = m /\ a[i - 1] = q[n] BY <1>1, <2>1
    <3> QED BY <1>1, <3>1
  <2>2. CASE i # n + 1
    <3>1. i \in DOMAIN q /\ a[i] = q[i] BY <1>3, <2>2
    <3>2. i > 1 => i - 1 \in DOMAIN q /\ a[i - 1] = q[i - 1] BY <1>1, <3>1
    <3> QED BY <3>1, <3>2 DEF ChunksAnnounced, Queue, WellFormed
  <2> QED BY <2>1, <2>2
<1>6. StartsFirst(a)
  <2> SUFFICES ASSUME NEW i \in DOMAIN a, a[i].kind = "start"
               PROVE  /\ \A j \in DOMAIN a : j < i => a[j].kind = "started"
                      /\ i + 1 \in DOMAIN a /\ IsChunk(a[i + 1])
    BY DEF StartsFirst
  <2>1. i \in DOMAIN q /\ q[i].kind = "start" BY <1>2, <1>3
  <2>2. (\A j \in DOMAIN q : j < i => q[j].kind = "started") /\ i + 1 \in DOMAIN q /\ IsChunk(q[i + 1])
    BY <2>1 DEF StartsFirst, Queue, WellFormed
  <2> QED BY <1>1, <2>1, <2>2
<1>7. NotStopped(a) /\ StopsLast(a) BY <1>2, <1>3 DEF StopsLast, NotStopped
<1>8. PointsBefore(a, ps) BY <1>1, <1>3 DEF PointsBefore, Queue
<1>9. StartsAfter(a, rs)
  <2> SUFFICES ASSUME NEW i \in DOMAIN a, a[i].kind = "start", rs # <<>>
               PROVE  Last(rs).end.t < a[i + 1].point.t
    BY DEF StartsAfter
  <2>1. i \in DOMAIN q /\ q[i].kind = "start" BY <1>2, <1>3
  <2>2. i + 1 \in DOMAIN q BY <2>1 DEF StartsFirst, Queue, WellFormed
  <2> QED BY <1>1, <2>1, <2>2 DEF StartsAfter, Queue
<1>10. Firsts(a, ps, rs)
  <2> SUFFICES ASSUME NEW i \in DOMAIN a, FirstChunk(a, i)
               PROVE  IF i = 1 THEN Ready(a[i].point, ps, rs) ELSE Continues(a[i].point, ps)
    BY DEF Firsts
  <2>1. CASE i = n + 1
    <3>1. \A j \in DOMAIN q : ~IsChunk(q[j]) BY <1>1, <2>1 DEF FirstChunk
    <3>2. ps # <<>> /\ Last(ps).pos = pos BY <3>1 DEF Base
    <3> QED BY <1>1, <2>1, <3>2 DEF Continues
  <2>2. CASE i # n + 1
    <3>1. i \in DOMAIN q /\ a[i] = q[i] BY <1>3, <2>2
    <3>2. FirstChunk(q, i) BY <1>1, <3>1 DEF FirstChunk
    <3> QED BY <3>1, <3>2 DEF Firsts, Queue
  <2> QED BY <2>1, <2>2
<1>11. Base(a, ps, m.point.pos)
  <2>1. ASSUME NEW i \in DOMAIN a, IsChunk(a[i]), \A j \in DOMAIN a : i < j => ~IsChunk(a[j])
        PROVE  a[i] = m
    BY <1>1, <1>2, <2>1
  <2>2. n + 1 \in DOMAIN a BY <1>1
  <2> QED BY <1>2, <2>1, <2>2 DEF Base
<1> QED BY <1>4, <1>5, <1>6, <1>7, <1>8, <1>9, <1>10, <1>11 DEF Queue, WellFormed, a

(* A message is handled: the others move up.                                *)
LEMMA Handled ==
    ASSUME NEW q \in Seq(Messages), q # <<>>, NEW ps, NEW rs, Queue(q, ps, rs)
    PROVE  /\ WellFormed(Tail(q)) /\ PointsBefore(Tail(q), ps) /\ StartsAfter(Tail(q), rs)
           /\ Head(q).kind # "started" => \A i \in DOMAIN Tail(q) : Tail(q)[i].kind # "start"
           /\ Head(q).kind = "start" => Tail(q) # <<>> /\ IsChunk(Tail(q)[1])
           /\ Head(q).kind = "stopped" => Tail(q) = <<>>
           /\ \A i \in DOMAIN Tail(q) : IsChunk(Tail(q)[i]) /\ i = 1 =>
                 Head(q).kind = "start" \/ Head(q) = Msg("event-update", Tail(q)[i].point)
           /\ \A i \in DOMAIN Tail(q) : FirstChunk(Tail(q), i) /\ ~IsChunk(Head(q))
                 /\ Head(q).kind # "start" => Continues(Tail(q)[i].point, ps)
           /\ NotStopped(q) => NotStopped(Tail(q))
<1> DEFINE a == Tail(q)
           n == Len(q)
<1>1. /\ n \in Nat /\ n >= 1 /\ DOMAIN q = 1..n /\ DOMAIN a = 1..n - 1 /\ Len(a) = n - 1
      /\ \A i \in 1..n - 1 : a[i] = q[i + 1]
      /\ Head(q) = q[1] /\ a \in Seq(Messages)
  BY TailIsTyped
<1> HIDE DEF a, n
<1>2. \A i \in DOMAIN a : i \in Nat /\ i >= 1 /\ i + 1 \in DOMAIN q /\ a[i] = q[i + 1]
  BY <1>1
<1>3. ChunksInOrder(a)
  <2> SUFFICES ASSUME NEW i \in DOMAIN a, NEW j \in DOMAIN a, IsChunk(a[i]), IsChunk(a[j]), i < j
               PROVE  /\ a[i].point.t < a[j].point.t
                      /\ (\A k \in DOMAIN a : i < k /\ k < j => ~IsChunk(a[k])) =>
                            a[j].point.pos = NextChunk(a[i].point.pos)
    BY DEF ChunksInOrder
  <2>1. /\ i + 1 \in DOMAIN q /\ j + 1 \in DOMAIN q /\ i + 1 < j + 1
        /\ a[i] = q[i + 1] /\ a[j] = q[j + 1]
    BY <1>2
  <2>2. ASSUME \A k \in DOMAIN a : i < k /\ k < j => ~IsChunk(a[k])
        PROVE  \A k \in DOMAIN q : i + 1 < k /\ k < j + 1 => ~IsChunk(q[k])
    <3> SUFFICES ASSUME NEW k \in DOMAIN q, i + 1 < k, k < j + 1 PROVE ~IsChunk(q[k])
      OBVIOUS
    <3>1. k - 1 \in DOMAIN a /\ i < k - 1 /\ k - 1 < j /\ (k - 1) + 1 = k
      BY <1>1, <2>1
    <3>2. ~IsChunk(a[k - 1]) /\ a[k - 1] = q[(k - 1) + 1] BY <1>2, <2>2, <3>1
    <3> QED BY <3>1, <3>2
  <2> QED BY <2>1, <2>2 DEF ChunksInOrder, Queue, WellFormed
<1>4. ASSUME NEW i \in DOMAIN a, IsChunk(a[i])
      PROVE  /\ Aligned(a[i].point.pos)
             /\ q[i].kind = "start" \/ q[i] = Msg("event-update", a[i].point)
  <2>1. /\ i + 1 \in DOMAIN q /\ IsChunk(q[i + 1]) /\ i + 1 > 1 /\ (i + 1) - 1 = i
        /\ a[i] = q[i + 1]
    BY <1>2, <1>4
  <2>2. /\ Aligned(q[i + 1].point.pos)
        /\ q[(i + 1) - 1].kind = "start" \/ q[(i + 1) - 1] = Msg("event-update", q[i + 1].point)
    BY <2>1 DEF ChunksAnnounced, Queue, WellFormed
  <2> QED BY <2>1, <2>2
<1>5. ChunksAnnounced(a)
  <2> SUFFICES ASSUME NEW i \in DOMAIN a, IsChunk(a[i]), i > 1
               PROVE  a[i - 1].kind = "start" \/ a[i - 1] = Msg("event-update", a[i].point)
    BY <1>4 DEF ChunksAnnounced
  <2>1. i - 1 \in DOMAIN a /\ (i - 1) + 1 = i BY <1>1
  <2>2. a[i - 1] = q[i] BY <1>2, <2>1
  <2> QED BY <1>4, <2>2
<1>6. ASSUME NEW i \in DOMAIN a, a[i].kind = "start"
      PROVE  /\ \A j \in DOMAIN a : j < i => a[j].kind = "started"
             /\ q[1].kind = "started"
             /\ i + 1 \in DOMAIN a /\ IsChunk(a[i + 1]) /\ a[i + 1] = q[i + 1 + 1]
  <2>1. i + 1 \in DOMAIN q /\ q[i + 1].kind = "start" BY <1>2, <1>6
  <2>2. /\ \A j \in DOMAIN q : j < i + 1 => q[j].kind = "started"
        /\ i + 1 + 1 \in DOMAIN q /\ IsChunk(q[i + 1 + 1])
    BY <2>1 DEF StartsFirst, Queue, WellFormed
  <2>3. i + 1 \in DOMAIN a /\ a[i + 1] = q[i + 1 + 1]
    <3>1. i + 1 \in DOMAIN a BY <1>1, <2>2
    <3> QED BY <1>2, <3>1
  <2>4. 1 \in DOMAIN q /\ 1 < i + 1 BY <1>1, <1>2
  <2>5. \A j \in DOMAIN a : j < i => a[j].kind = "started"
    <3> SUFFICES ASSUME NEW j \in DOMAIN a, j < i PROVE a[j].kind = "started"
      OBVIOUS
    <3>1. j + 1 \in DOMAIN q /\ j + 1 < i + 1 /\ a[j] = q[j + 1] BY <1>2
    <3> QED BY <2>2, <3>1
  <2> QED BY <2>2, <2>3, <2>4, <2>5
<1>7. StartsFirst(a) BY <1>6 DEF StartsFirst
<1>8. StopsLast(a)
  <2> SUFFICES ASSUME NEW i \in DOMAIN a, a[i].kind = "stopped" PROVE i = Len(a)
    BY DEF StopsLast
  <2>1. i + 1 \in DOMAIN q /\ q[i + 1].kind = "stopped" BY <1>2
  <2>2. i + 1 = n BY <2>1 DEF StopsLast, Queue, WellFormed, n
  <2> QED BY <1>1, <2>2
<1>9. PointsBefore(a, ps)
  <2> SUFFICES ASSUME NEW i \in DOMAIN ps, NEW j \in DOMAIN a, IsChunk(a[j])
               PROVE  ps[i].t < a[j].point.t
    BY DEF PointsBefore
  <2>1. j + 1 \in DOMAIN q /\ a[j] = q[j + 1] BY <1>2
  <2> QED BY <2>1 DEF PointsBefore, Queue
<1>10. StartsAfter(a, rs)
  <2> SUFFICES ASSUME NEW i \in DOMAIN a, a[i].kind = "start", rs # <<>>
               PROVE  Last(rs).end.t < a[i + 1].point.t
    BY DEF StartsAfter
  <2>1. i + 1 \in DOMAIN q /\ q[i + 1].kind = "start" /\ a[i + 1] = q[i + 1 + 1]
    BY <1>2, <1>6
  <2> QED BY <2>1 DEF StartsAfter, Queue
<1>11. q[1].kind # "started" => \A i \in DOMAIN a : a[i].kind # "start"
  BY <1>6
<1>12. ASSUME q[1].kind = "start" PROVE a # <<>> /\ IsChunk(a[1])
  <2>1. 1 \in DOMAIN q BY <1>1
  <2>2. 1 + 1 \in DOMAIN q /\ IsChunk(q[1 + 1])
    BY <1>12, <2>1 DEF StartsFirst, Queue, WellFormed
  <2>3. 1 \in DOMAIN a /\ a[1] = q[1 + 1] BY <1>1, <2>2
  <2> QED BY <1>1, <2>2, <2>3
<1>13. ASSUME q[1].kind = "stopped" PROVE a = <<>>
  <2>1. 1 \in DOMAIN q BY <1>1
  <2>2. 1 = n BY <1>13, <2>1 DEF StopsLast, Queue, WellFormed, n
  <2> QED BY <1>1, <2>2, EmptySeq
<1>14. ASSUME NEW i \in DOMAIN a, IsChunk(a[i]), i = 1
       PROVE  q[1].kind = "start" \/ q[1] = Msg("event-update", a[i].point)
  BY <1>4, <1>14
<1>15. ASSUME NEW i \in DOMAIN a, FirstChunk(a, i), ~IsChunk(q[1]), q[1].kind # "start"
       PROVE  Continues(a[i].point, ps)
  <2>1. i + 1 \in DOMAIN q /\ a[i] = q[i + 1] /\ i + 1 # 1 BY <1>2
  <2>2. FirstChunk(q, i + 1)
    <3> SUFFICES ASSUME NEW j \in DOMAIN q, j < i + 1
                 PROVE  ~IsChunk(q[j]) /\ q[j].kind # "start"
      BY <1>15, <2>1 DEF FirstChunk
    <3>1. CASE j = 1 BY <1>15, <3>1
    <3>2. CASE j # 1
      <4>1. j - 1 \in DOMAIN a /\ j - 1 < i /\ (j - 1) + 1 = j
        BY <1>1, <2>1, <3>2
      <4>2. a[j - 1] = q[j] BY <1>2, <4>1
      <4> QED BY <1>15, <4>1, <4>2 DEF FirstChunk
    <3> QED BY <3>1, <3>2
  <2> QED BY <2>1, <2>2 DEF Firsts, Queue
<1>16. NotStopped(q) => NotStopped(a) BY <1>2 DEF NotStopped
<1> QED
  BY <1>1, <1>3, <1>5, <1>7, <1>8, <1>9, <1>10, <1>11, <1>12, <1>13, <1>14, <1>15, <1>16
     DEF WellFormed, a

LEMMA BaseHandled ==
    ASSUME NEW q \in Seq(Messages), q # <<>>, NEW ps, NEW pos, Base(q, ps, pos)
    PROVE  /\ ~IsChunk(Head(q)) => Base(Tail(q), ps, pos)
           /\ \A ps2 : Tail(q) # <<>> /\ IsChunk(Tail(q)[1]) => Base(Tail(q), ps2, pos)
           /\ \A ps2 : IsChunk(Head(q)) /\ ps2 # <<>> /\ Last(ps2) = Head(q).point
                 => Base(Tail(q), ps2, pos)
<1> DEFINE a == Tail(q)
           n == Len(q)
<1>1. /\ n \in Nat /\ n >= 1 /\ DOMAIN q = 1..n /\ DOMAIN a = 1..n - 1 /\ Len(a) = n - 1
      /\ \A i \in 1..n - 1 : a[i] = q[i + 1]
      /\ Head(q) = q[1] /\ a \in Seq(Messages)
  BY TailIsTyped
<1> HIDE DEF a, n
<1>2. \A i \in DOMAIN a : i \in Nat /\ i >= 1 /\ i + 1 \in DOMAIN q /\ a[i] = q[i + 1]
  BY <1>1
<1>3. ASSUME NEW i \in DOMAIN a, IsChunk(a[i]), \A j \in DOMAIN a : i < j => ~IsChunk(a[j])
      PROVE  a[i].point.pos = pos
  <2>1. i + 1 \in DOMAIN q /\ IsChunk(q[i + 1]) /\ a[i] = q[i + 1]
    BY <1>2, <1>3
  <2>2. \A j \in DOMAIN q : i + 1 < j => ~IsChunk(q[j])
    <3> SUFFICES ASSUME NEW j \in DOMAIN q, i + 1 < j PROVE ~IsChunk(q[j])
      OBVIOUS
    <3>1. j - 1 \in DOMAIN a /\ i < j - 1 /\ (j - 1) + 1 = j BY <1>1, <1>2
    <3>2. a[j - 1] = q[j] BY <1>2, <3>1
    <3> QED BY <1>3, <3>1, <3>2
  <2> QED BY <2>1, <2>2 DEF Base
<1>4. ASSUME \A i \in DOMAIN a : ~IsChunk(a[i])
      PROVE  \A j \in DOMAIN q : 1 < j => ~IsChunk(q[j])
  <2> SUFFICES ASSUME NEW j \in DOMAIN q, 1 < j PROVE ~IsChunk(q[j]) OBVIOUS
  <2>1. j - 1 \in DOMAIN a /\ (j - 1) + 1 = j BY <1>1
  <2> QED BY <1>2, <1>4, <2>1
<1>5. ASSUME ~IsChunk(q[1]) PROVE Base(a, ps, pos)
  <2>1. ASSUME \A i \in DOMAIN a : ~IsChunk(a[i]) PROVE ps # <<>> /\ Last(ps).pos = pos
    <3>1. \A j \in DOMAIN q : ~IsChunk(q[j])
      <4> TAKE j \in DOMAIN q
      <4>1. j = 1 \/ 1 < j BY <1>1
      <4> QED BY <1>4, <1>5, <2>1, <4>1
    <3> QED BY <3>1 DEF Base
  <2> QED BY <1>3, <2>1 DEF Base
<1>6. ASSUME NEW ps2, a # <<>>, IsChunk(a[1]) PROVE Base(a, ps2, pos)
  <2>1. 1 \in DOMAIN a BY <1>1, <1>6, EmptySeq
  <2> QED BY <1>3, <1>6, <2>1 DEF Base
<1>7. ASSUME NEW ps2, IsChunk(q[1]), ps2 # <<>>, Last(ps2) = q[1].point PROVE Base(a, ps2, pos)
  <2>1. ASSUME \A i \in DOMAIN a : ~IsChunk(a[i]) PROVE q[1].point.pos = pos
    <3>1. 1 \in DOMAIN q BY <1>1
    <3> QED BY <1>4, <1>7, <2>1, <3>1 DEF Base
  <2> QED BY <1>3, <1>7, <2>1 DEF Base
<1> QED BY <1>1, <1>5, <1>6, <1>7 DEF a

(* The messages that leave the points alone; an update moves the end of the *)
(* last record to the chunk that follows it.                                *)
LEMMA OtherHandled ==
    ASSUME NEW q \in Seq(Messages), q # <<>>, NEW ps, NEW rs, NEW rs2, Queue(q, ps, rs),
           Head(q).kind \notin {"chunk", "start"},
           Head(q).kind = "started" => rs2 = rs,
           Head(q).kind = "event-update" => rs2 = <<>> \/ Last(rs2).end = Head(q).point
    PROVE  Queue(Tail(q), ps, rs2)
<1> DEFINE a == Tail(q)
<1>1. /\ WellFormed(a) /\ PointsBefore(a, ps) /\ StartsAfter(a, rs)
      /\ Head(q).kind # "started" => \A i \in DOMAIN a : a[i].kind # "start"
  BY Handled
<1>2. StartsAfter(a, rs2)
  <2>1. CASE Head(q).kind = "started" BY <1>1, <2>1
  <2>2. CASE Head(q).kind # "started" BY <1>1, <2>2 DEF StartsAfter
  <2> QED BY <2>1, <2>2
<1>3. Firsts(a, ps, rs2)
  <2> SUFFICES ASSUME NEW i \in DOMAIN a, FirstChunk(a, i)
               PROVE  IF i = 1 THEN Ready(a[i].point, ps, rs2) ELSE Continues(a[i].point, ps)
    BY DEF Firsts
  <2>1. Continues(a[i].point, ps) BY Handled DEF IsChunk
  <2>2. ASSUME i = 1 PROVE Ready(a[i].point, ps, rs2)
    <3>1. Head(q) = Msg("event-update", a[i].point)
      BY <2>2, Handled DEF FirstChunk
    <3>2. Head(q).kind = "event-update" /\ Head(q).point = a[i].point
      BY <3>1 DEF Msg
    <3> QED BY <2>1, <3>2 DEF Ready
  <2> QED BY <2>1, <2>2
<1> QED BY <1>1, <1>2, <1>3 DEF Queue

(***************************************************************************)
(* Restarts.                                                                *)
(***************************************************************************)
(* Nothing is of a time to come, and every point is the start of a chunk.   *)
SoundPoints(ps, t) == \A i \in DOMAIN ps : ps[i].t <= t /\ Aligned(ps[i].pos)
EndsBy(rs, t) == rs # <<>> => Last(rs).end.t <= t
SentBy(q, t) == \A i \in DOMAIN q : q[i].point.t <= t
Recoverable(d, t) ==
    /\ SoundPoints(d.points, t) /\ EndsBy(d.records, t)
    /\ Consistent(d.records, RemoveGarbagePoints(d.records, d.points))
Writing(c, q, ps) ==
    /\ c.event /\ NotStopped(q)
    /\ \E k \in 0..(NumChunks - 1), b \in 0..(ChunkSize - 1) :
          c.pos = k * ChunkSize + b /\ Base(q, ps, k * ChunkSize)
RecoveryInv ==
    /\ Queue(pipe, points, records)
    /\ SoundPoints(points, now) /\ EndsBy(records, now) /\ SentBy(pipe, now)
    /\ ~up \/ ~session => pipe = <<>> /\ ~cmd.on
    /\ cmd.on => Writing(cmd, pipe, points)
    /\ \A d \in data : Recoverable(d, now)

LEMMA TimePasses ==
    ASSUME NEW t \in Nat
    PROVE  /\ \A ps \in Seq(Points) : SoundPoints(ps, t) => SoundPoints(ps, t + 1)
           /\ \A rs \in Seq(Records) : EndsBy(rs, t) => EndsBy(rs, t + 1)
           /\ \A q \in Seq(Messages) : SentBy(q, t) => SentBy(q, t + 1)
           /\ \A d \in Files : Recoverable(d, t) => Recoverable(d, t + 1)
<1>1. ASSUME NEW ps \in Seq(Points), SoundPoints(ps, t) PROVE SoundPoints(ps, t + 1)
  <2>1. \A i \in DOMAIN ps : ps[i].t \in Nat /\ ps[i].t <= t
    BY <1>1, ElementOfSeq, LenProperties, PointsAreTyped DEF SoundPoints
  <2>2. \A i \in DOMAIN ps : ps[i].t <= t + 1 BY <2>1
  <2> QED BY <1>1, <2>2 DEF SoundPoints
<1>2. ASSUME NEW rs \in Seq(Records), EndsBy(rs, t) PROVE EndsBy(rs, t + 1)
  <2> SUFFICES ASSUME rs # <<>> PROVE Last(rs).end.t <= t + 1 BY DEF EndsBy
  <2>1. Last(rs).end \in Points
    <3>1. Last(rs) \in Records BY LastIsTyped
    <3> QED BY <3>1 DEF Records
  <2>2. Last(rs).end.t \in Nat /\ Last(rs).end.t <= t
    BY <1>2, <2>1, PointsAreTyped DEF EndsBy
  <2> QED BY <2>2
<1>3. ASSUME NEW q \in Seq(Messages), SentBy(q, t) PROVE SentBy(q, t + 1)
  <2> SUFFICES ASSUME NEW i \in DOMAIN q PROVE q[i].point.t <= t + 1
    BY DEF SentBy
  <2>1. q[i] \in Messages BY ElementOfSeq, LenProperties
  <2>2. q[i].point \in Points BY <2>1 DEF Messages
  <2>3. q[i].point.t \in Nat /\ q[i].point.t <= t
    BY <1>3, <2>2, PointsAreTyped DEF SentBy
  <2> QED BY <2>3
<1>4. ASSUME NEW d \in Files, Recoverable(d, t) PROVE Recoverable(d, t + 1)
  <2>1. d.points \in Seq(Points) /\ d.records \in Seq(Records) BY DEF Files
  <2> QED BY <1>1, <1>2, <1>4, <2>1 DEF Recoverable
<1> QED BY <1>1, <1>2, <1>3, <1>4

LEMMA SentAppended ==
    ASSUME NEW q \in Seq(Messages), NEW m \in Messages, NEW t, SentBy(q, t), m.point.t <= t
    PROVE  SentBy(Append(q, m), t)
<1>1. /\ Len(q) \in Nat /\ DOMAIN q = 1..Len(q) /\ DOMAIN Append(q, m) = 1..Len(q) + 1
      /\ \A i \in 1..Len(q) : Append(q, m)[i] = q[i]
      /\ Append(q, m)[Len(q) + 1] = m
  BY AppendIsTyped
<1> SUFFICES ASSUME NEW i \in DOMAIN Append(q, m) PROVE Append(q, m)[i].point.t <= t
  BY DEF SentBy
<1>2. CASE i = Len(q) + 1 BY <1>1, <1>2
<1>3. CASE i # Len(q) + 1
  <2>1. i \in DOMAIN q /\ Append(q, m)[i] = q[i] BY <1>1, <1>3
  <2> QED BY <2>1 DEF SentBy
<1> QED BY <1>2, <1>3

LEMMA SentHandled ==
    ASSUME NEW q \in Seq(Messages), q # <<>>, NEW t, SentBy(q, t)
    PROVE  SentBy(Tail(q), t) /\ Head(q).point.t <= t
<1>1. /\ Len(q) \in Nat /\ Len(q) >= 1 /\ DOMAIN q = 1..Len(q) /\ DOMAIN Tail(q) = 1..Len(q) - 1
      /\ \A i \in 1..Len(q) - 1 : Tail(q)[i] = q[i + 1]
      /\ Head(q) = q[1]
  BY TailIsTyped
<1>2. SentBy(Tail(q), t)
  <2> SUFFICES ASSUME NEW i \in DOMAIN Tail(q) PROVE Tail(q)[i].point.t <= t
    BY DEF SentBy
  <2>1. i + 1 \in DOMAIN q /\ Tail(q)[i] = q[i + 1] BY <1>1
  <2> QED BY <2>1 DEF SentBy
<1>3. 1 \in DOMAIN q BY <1>1
<1> QED BY <1>1, <1>2, <1>3 DEF SentBy

LEMMA WriteRecovers ==
    ASSUME TypeInv, RecoveryInv, ~gaps, Write
    PROVE  RecoveryInv'
<1> DEFINE pos == (cmd.pos + 1) % FileSize
           p == Point(now + 1, pos)
           u == Msg("event-update", p)
           c == Msg("chunk", p)
<1>1. PICK k \in 0..(NumChunks - 1), b \in 0..(ChunkSize - 1) :
         cmd.pos = k * ChunkSize + b /\ Base(pipe, points, k * ChunkSize)
  BY DEF RecoveryInv, Writing, Write
<1>2. /\ up /\ cmd.on /\ cmd.event /\ NotStopped(pipe) /\ now' = now + 1
      /\ cmd' = [cmd EXCEPT !.pos = pos, !.long = cmd.event]
      /\ pipe' = IF pos % ChunkSize = 0 THEN pipe \o Append(<<u>>, c) ELSE pipe
      /\ UNCHANGED <<up, points, records, session, data>>
  BY DEF Write, RecoveryInv, Writing, memVars
<1>3. /\ now \in Nat /\ pipe \in Seq(Messages) /\ points \in Seq(Points)
      /\ records \in Seq(Records) /\ data \subseteq Files
      /\ cmd \in [on : BOOLEAN, pos : 0..(FileSize - 1), event : BOOLEAN, long : BOOLEAN]
  BY DEF TypeInv, CmdType, PipeType, MemType, DataType
<1>4. pos \in 0..(FileSize - 1)
  <2>1. cmd.pos + 1 \in Nat BY <1>3, Sizes
  <2> QED BY <2>1, PositionsWrap
<1>5. pos = (k * ChunkSize + b + 1) % FileSize BY <1>1
<1> HIDE DEF pos
<1>6. p \in Points /\ p.t = now + 1 /\ p.pos = pos
  BY <1>3, <1>4, PointsAreTyped
<1> HIDE DEF p
<1>7. /\ u \in Messages /\ c \in Messages /\ u.kind = "event-update" /\ c.kind = "chunk"
      /\ u.point = p /\ c.point = p
  BY <1>6, MessagesAreTyped DEF MsgKinds
<1>8. cmd'.on = cmd.on /\ cmd'.event = cmd.event /\ cmd'.pos = pos
  BY <1>2, <1>3
<1>9. /\ SoundPoints(points, now + 1) /\ EndsBy(records, now + 1) /\ SentBy(pipe, now + 1)
      /\ \A d \in data : Recoverable(d, now + 1)
  BY <1>3, TimePasses DEF RecoveryInv
<1>10. /\ Queue(pipe', points, records) /\ SentBy(pipe', now + 1)
       /\ Writing(cmd', pipe', points)
  <2>1. /\ b \in Nat /\ b < ChunkSize /\ ChunkSize \in Nat /\ ChunkSize > 0 /\ NumChunks \in Nat
        /\ k \in Nat
    BY Sizes
  <2>2. CASE b + 1 < ChunkSize
    <3>1. pos = k * ChunkSize + (b + 1) /\ pos % ChunkSize # 0
      BY <1>5, <2>2, NextPosition
    <3>2. pipe' = pipe /\ b + 1 \in 0..(ChunkSize - 1)
      BY <1>2, <2>1, <2>2, <3>1
    <3>3. Writing(cmd', pipe, points)
      BY <1>1, <1>2, <1>8, <3>1, <3>2 DEF Writing
    <3> QED BY <1>9, <3>2, <3>3 DEF RecoveryInv
  <2>3. CASE b + 1 = ChunkSize
    <3>1. pos = NextChunk(k * ChunkSize) /\ Aligned(pos) /\ pos % ChunkSize = 0
      BY <1>5, <2>3, NextPosition
    <3> DEFINE qu == Append(pipe, u)
    <3>2. pipe' = Append(qu, c)
      <4>1. Append(<<u>>, c) = <<u, c>> BY ShortOnes
      <4>2. pipe \o <<u, c>> = Append(Append(pipe, u), c)
        BY <1>3, <1>7, TwoAppended
      <4> QED BY <1>2, <3>1, <4>1, <4>2
    <3>3. /\ qu \in Seq(Messages) /\ qu # <<>> /\ Last(qu) = u
          /\ DOMAIN pipe = 1..Len(pipe) /\ DOMAIN qu = 1..Len(pipe) + 1 /\ Len(pipe) \in Nat
          /\ \A i \in 1..Len(pipe) : qu[i] = pipe[i]
          /\ qu[Len(pipe) + 1] = u
      BY <1>3, <1>7, AppendIsTyped
    <3>4. /\ Queue(qu, points, records) /\ NotStopped(qu)
          /\ Base(qu, points, k * ChunkSize)
      BY <1>1, <1>2, <1>3, <1>7, OtherAppended DEF RecoveryInv
    <3>5. SentBy(qu, now + 1) /\ SentBy(Append(qu, c), now + 1)
      <4>1. SentBy(qu, now + 1) BY <1>3, <1>6, <1>7, <1>9, SentAppended
      <4> HIDE DEF qu
      <4> QED BY <1>3, <1>6, <1>7, <3>3, <4>1, SentAppended
    <3>6. \A i \in DOMAIN qu : IsChunk(qu[i]) => qu[i].point.t < p.t
      <4> SUFFICES ASSUME NEW i \in DOMAIN qu, IsChunk(qu[i]) PROVE qu[i].point.t < p.t
        OBVIOUS
      <4>1. i \in DOMAIN pipe /\ qu[i] = pipe[i]
        <5>1. CASE i = Len(pipe) + 1 BY <1>7, <3>3, <5>1 DEF IsChunk
        <5>2. CASE i # Len(pipe) + 1
          <6> HIDE DEF qu
          <6> QED BY <3>3, <5>2
        <5> QED BY <5>1, <5>2
      <4>2. pipe[i] \in Messages /\ pipe[i].point.t <= now
        BY <1>3, <3>3, <4>1, ElementOfSeq DEF RecoveryInv, SentBy
      <4>3. pipe[i].point.t \in Nat BY <4>2, PointsAreTyped DEF Messages
      <4> HIDE DEF qu
      <4> QED BY <1>3, <1>6, <4>1, <4>2, <4>3
    <3>7. \A i \in DOMAIN points : points[i].t < p.t
      <4> SUFFICES ASSUME NEW i \in DOMAIN points PROVE points[i].t < p.t
        OBVIOUS
      <4>1. points[i] \in Points /\ points[i].t <= now
        BY <1>3, ElementOfSeq, LenProperties DEF RecoveryInv, SoundPoints
      <4>2. points[i].t \in Nat BY <4>1, PointsAreTyped
      <4> QED BY <1>3, <1>6, <4>1, <4>2
    <3>8. /\ Queue(Append(qu, c), points, records) /\ NotStopped(Append(qu, c))
          /\ Base(Append(qu, c), points, pos)
      <4>1. IsChunk(c) /\ c.point.pos = NextChunk(k * ChunkSize) /\ Aligned(c.point.pos)
        BY <1>6, <1>7, <3>1 DEF IsChunk
      <4>2. Last(qu) = Msg("event-update", c.point) BY <1>7, <3>3
      <4> HIDE DEF qu, c, u
      <4> QED BY <1>6, <1>7, <3>3, <3>4, <3>6, <3>7, <4>1, <4>2, ChunkAppended
    <3>9. PICK j \in 0..(NumChunks - 1) : pos = j * ChunkSize
      BY <3>1 DEF Aligned
    <3>10. pos = j * ChunkSize + 0 /\ 0 \in 0..(ChunkSize - 1) BY <2>1, <3>9
    <3> QED BY <1>2, <1>8, <3>2, <3>5, <3>8, <3>9, <3>10 DEF Writing
  <2> QED BY <2>1, <2>2, <2>3
<1> QED BY <1>2, <1>8, <1>9, <1>10 DEF RecoveryInv

LEMMA EventsRecover ==
    ASSUME TypeInv, RecoveryInv, ~gaps, EventBoundary \/ PipelineBreaks
    PROVE  RecoveryInv'
<1>1. /\ now \in Nat /\ pipe \in Seq(Messages)
      /\ cmd \in [on : BOOLEAN, pos : 0..(FileSize - 1), event : BOOLEAN, long : BOOLEAN]
  BY DEF TypeInv, CmdType, PipeType
<1>2. /\ up /\ session /\ cmd.on /\ Writing(cmd, pipe, points) /\ NotStopped(pipe)
      /\ UNCHANGED <<now, up, points, records, session, data>>
  BY DEF EventBoundary, PipelineBreaks, RecoveryInv, Writing, memVars
<1>3. ASSUME NEW m \in Messages, NEW q \in Seq(Messages), m.kind \notin {"chunk", "start"},
             m.point.t <= now, Queue(q, points, records), NotStopped(q), SentBy(q, now)
      PROVE  /\ Append(q, m) \in Seq(Messages) /\ Queue(Append(q, m), points, records)
             /\ SentBy(Append(q, m), now)
             /\ m.kind # "stopped" => NotStopped(Append(q, m))
             /\ \A pos : Base(q, points, pos) => Base(Append(q, m), points, pos)
  BY <1>3, OtherAppended, SentAppended, AppendIsTyped
<1>4. CASE EventBoundary
  <2> DEFINE e == Msg("event-end", Here)
             s == Msg("event-start", Here)
             qe == Append(pipe, e)
             qs == Append(qe, s)
  <2>1. Here \in Points /\ Here.t = now BY <1>1, PointsAreTyped DEF Here
  <2>2. /\ e \in Messages /\ s \in Messages /\ e.kind = "event-end" /\ s.kind = "event-start"
        /\ e.point = Here /\ s.point = Here
    BY <2>1, MessagesAreTyped DEF MsgKinds
  <2>3. pipe' = pipe \o <<e, s>> /\ cmd' = [cmd EXCEPT !.long = FALSE]
    BY <1>2, <1>4 DEF EventBoundary, Writing
  <2> HIDE DEF e, s
  <2>4. pipe' = qs BY <1>1, <2>2, <2>3, TwoAppended
  <2>5. /\ qe \in Seq(Messages) /\ Queue(qe, points, records) /\ SentBy(qe, now) /\ NotStopped(qe)
        /\ \A pos : Base(pipe, points, pos) => Base(qe, points, pos)
    BY <1>1, <1>2, <1>3, <2>1, <2>2 DEF RecoveryInv
  <2> HIDE DEF qe
  <2>6. /\ Queue(qs, points, records) /\ SentBy(qs, now) /\ NotStopped(qs)
        /\ \A pos : Base(qe, points, pos) => Base(qs, points, pos)
    BY <1>1, <1>3, <2>1, <2>2, <2>5
  <2> HIDE DEF qs
  <2>7. cmd'.on = cmd.on /\ cmd'.event = cmd.event /\ cmd'.pos = cmd.pos
    BY <1>1, <2>3
  <2>8. Writing(cmd', qs, points) BY <1>2, <2>5, <2>6, <2>7 DEF Writing
  <2> QED BY <1>2, <2>4, <2>6, <2>7, <2>8 DEF RecoveryInv
<1>5. CASE PipelineBreaks
  <2> DEFINE y == Msg("stop", NoPoint)
             z == Msg("stopped", NoPoint)
             qy == Append(pipe, y)
  <2>1. NoPoint \in Points /\ NoPoint.t = 0
    BY PointsAreTyped DEF NoPoint, Point
  <2>2. /\ y \in Messages /\ z \in Messages /\ y.kind = "stop" /\ z.kind = "stopped"
        /\ y.point.t <= now /\ z.point.t <= now
    BY <1>1, <2>1, MessagesAreTyped DEF MsgKinds
  <2>3. /\ cmd' = Off
        /\ \/ pipe' = pipe \o Append(<<>>, z)
           \/ pipe' = pipe \o Append(<<y>>, z)
    BY <1>5 DEF PipelineBreaks
  <2> HIDE DEF y, z
  <2>4. pipe' = Append(pipe, z) \/ pipe' = Append(qy, z)
    <3>1. Append(<<>>, z) = <<z>> /\ Append(<<y>>, z) = <<y, z>> BY ShortOnes
    <3>2. pipe \o <<z>> = Append(pipe, z) /\ pipe \o <<y, z>> = Append(Append(pipe, y), z)
      BY <1>1, <2>2, TwoAppended
    <3> QED BY <2>3, <3>1, <3>2
  <2>5. /\ qy \in Seq(Messages) /\ Queue(qy, points, records) /\ SentBy(qy, now) /\ NotStopped(qy)
    BY <1>1, <1>2, <1>3, <2>2 DEF RecoveryInv
  <2> HIDE DEF qy
  <2>6. Queue(pipe', points, records) /\ SentBy(pipe', now)
    <3>1. CASE pipe' = Append(pipe, z)
      BY <1>1, <1>2, <1>3, <2>2, <3>1 DEF RecoveryInv
    <3>2. CASE pipe' = Append(qy, z) BY <1>1, <1>3, <2>2, <2>5, <3>2
    <3> QED BY <2>4, <3>1, <3>2
  <2>7. ~cmd'.on BY <2>3 DEF Off
  <2> QED BY <1>2, <2>6, <2>7 DEF RecoveryInv
<1> QED BY <1>4, <1>5

LEMMA StartRecovers ==
    ASSUME TypeInv, RecoveryInv, ~gaps, Gone \/ Started
    PROVE  RecoveryInv'
<1>1. ASSUME pipe' = <<>>, ~cmd'.on, SoundPoints(points', now), EndsBy(records', now),
             UNCHANGED <<now, data>>
      PROVE  RecoveryInv'
  <2>1. Queue(<<>>, points', records') /\ SentBy(<<>>, now)
    BY EmptyQueue DEF SentBy
  <2> QED BY <1>1, <2>1 DEF RecoveryInv
<1>2. CASE Gone BY <1>1, <1>2 DEF Gone, Off, memVars, RecoveryInv
<1>3. CASE Started
  <2>1. /\ pipe = <<>> /\ ~cmd.on /\ UNCHANGED <<now, cmd, pipe, data>>
        /\ records' = LoadedRecords /\ points' = LoadedPoints
    BY <1>3 DEF Started, cmdVars, RecoveryInv
  <2>2. SoundPoints(points', now) /\ EndsBy(records', now)
    <3>1. CASE data = {} /\ LoadedRecords = <<>> /\ LoadedPoints = <<>>
      BY <2>1, <3>1 DEF SoundPoints, EndsBy
    <3>2. ASSUME NEW d \in data, LoadedRecords = d.records, LoadedPoints = d.points
          PROVE  SoundPoints(points', now) /\ EndsBy(records', now)
      BY <2>1, <3>2 DEF RecoveryInv, Recoverable
    <3> QED BY <3>1, <3>2, LoadedKeeps DEF TypeInv
  <2> QED BY <1>1, <2>1, <2>2
<1> QED BY <1>2, <1>3

LEMMA LaunchRecovers ==
    ASSUME TypeInv, RecoveryInv, ~gaps, up, ~session, Launch, up' = up
    PROVE  RecoveryInv'
<1> DEFINE p == Point(now + 1, StartPos)
           q == <<Msg("started", NoPoint), Msg("start", NoPoint), Msg("chunk", p), Msg("event-start", p)>>
<1>1. /\ now \in Nat /\ points \in Seq(Points) /\ records \in Seq(Records) /\ data \subseteq Files
      /\ StartPos \in 0..(FileSize - 1)
  BY StartIsTyped DEF TypeInv, CmdType, MemType, DataType
<1>2. p \in Points /\ p.t = now + 1 /\ p.pos = StartPos /\ NoPoint.t = 0
  BY <1>1, PointsAreTyped DEF NoPoint, Point
<1>3. /\ now' = now + 1 /\ session' = TRUE /\ UNCHANGED <<points, records, data>>
      /\ cmd' = [on |-> TRUE, pos |-> StartPos, event |-> TRUE, long |-> FALSE]
      /\ pipe' = pipe \o <<Msg("started", NoPoint), Msg("start", NoPoint), Msg("chunk", p)>>
                      \o <<Msg("event-start", p)>>
  BY DEF Launch, Msg
<1> HIDE DEF p
<1>4. pipe' = q
  <2>1. pipe = <<>> BY DEF RecoveryInv
  <2> DEFINE a == Msg("started", NoPoint)
             b == Msg("start", NoPoint)
             c == Msg("chunk", p)
             e == Msg("event-start", p)
  <2>2. pipe' = <<>> \o <<a, b, c>> \o <<e>> BY <1>3, <2>1
  <2> HIDE DEF a, b, c, e
  <2>3. <<>> \o <<a, b, c>> = <<a, b, c>> /\ <<a, b, c>> \o <<e>> = <<a, b, c, e>>
    <3> DEFINE T == {a, b, c, e}
    <3>1. <<a, b, c>> \in Seq(T) /\ e \in T OBVIOUS
    <3>2. Append(<<a, b, c>>, e) = <<a, b, c, e>>
      <4>1. <<a, b, c, e>> \in Seq(T) /\ Append(<<a, b, c>>, e) \in Seq(T)
        BY <3>1, AppendProperties
      <4>2. Len(<<a, b, c, e>>) = 4 /\ Len(Append(<<a, b, c>>, e)) = 4
        BY <3>1, AppendProperties
      <4>3. \A i \in 1..4 : Append(<<a, b, c>>, e)[i] = <<a, b, c, e>>[i]
        BY <3>1, AppendProperties
      <4> QED BY <4>1, <4>2, <4>3, SeqEqual
    <3> HIDE DEF T
    <3>3. <<>> \o <<a, b, c>> = <<a, b, c>> BY <3>1, ConcatEmptySeq
    <3>4. <<a, b, c>> \o <<e>> = Append(<<a, b, c>>, e)
      BY <3>1, AppendIsConcat
    <3> QED BY <3>2, <3>3, <3>4
  <2> QED BY <2>2, <2>3 DEF a, b, c, e
<1>5. /\ DOMAIN q = 1..4 /\ Len(q) = 4
      /\ q[1].kind = "started" /\ q[2].kind = "start" /\ q[3].kind = "chunk"
      /\ q[4].kind = "event-start"
      /\ q[1].point.t = 0 /\ q[2].point.t = 0 /\ q[3].point = p /\ q[4].point = p
  BY <1>2 DEF Msg
<1> HIDE DEF q
<1>6. PICK k \in 0..(NumChunks - 1) : StartPos = k * ChunkSize
  <2>1. CASE points = <<>>
    <3>1. StartPos = 0 * ChunkSize /\ 0 \in 0..(NumChunks - 1)
      BY <2>1, Sizes DEF StartPos
    <3> QED BY <3>1
  <2>2. CASE points # <<>>
    <3>1. StartPos = points[Len(points)].pos /\ Len(points) \in DOMAIN points
      BY <1>1, <2>2, LastIsTyped DEF StartPos
    <3>2. Aligned(points[Len(points)].pos)
      BY <3>1 DEF RecoveryInv, SoundPoints
    <3> QED BY <3>1, <3>2 DEF Aligned
  <2> QED BY <2>1, <2>2
<1>7. \A i \in DOMAIN q : i \in {1, 2, 3, 4} /\ (IsChunk(q[i]) => i = 3) /\ (q[i].kind = "start" => i = 2)
  BY <1>5 DEF IsChunk
<1>8. /\ \A i \in DOMAIN points : points[i].t < now + 1
      /\ records # <<>> => Last(records).end.t < now + 1
  <2>1. ASSUME NEW i \in DOMAIN points PROVE points[i].t < now + 1
    <3>1. points[i] \in Points /\ points[i].t <= now
      BY <1>1, ElementOfSeq, LenProperties DEF RecoveryInv, SoundPoints
    <3>2. points[i].t \in Nat BY <3>1, PointsAreTyped
    <3> QED BY <1>1, <3>1, <3>2
  <2>2. ASSUME records # <<>> PROVE Last(records).end.t < now + 1
    <3>1. Last(records) \in Records BY <1>1, <2>2, LastIsTyped
    <3>2. Last(records).end \in Points /\ Last(records).end.t <= now
      BY <2>2, <3>1 DEF Records, RecoveryInv, EndsBy
    <3>3. Last(records).end.t \in Nat BY <3>2, PointsAreTyped
    <3> QED BY <1>1, <3>2, <3>3
  <2> QED BY <2>1, <2>2
<1>9. Queue(q, points, records)
  <2>1. ChunksInOrder(q) BY <1>7 DEF ChunksInOrder
  <2>2. ChunksAnnounced(q)
    <3>1. Aligned(q[3].point.pos) /\ q[3 - 1].kind = "start"
      BY <1>2, <1>5, <1>6 DEF Aligned
    <3> QED BY <1>7, <3>1 DEF ChunksAnnounced
  <2>3. StartsFirst(q) /\ StopsLast(q)
    BY <1>5, <1>7 DEF StartsFirst, StopsLast, IsChunk
  <2>4. PointsBefore(q, points) /\ StartsAfter(q, records)
    BY <1>2, <1>5, <1>7, <1>8 DEF PointsBefore, StartsAfter
  <2>5. Firsts(q, points, records)
    <3>1. \A i \in DOMAIN q : ~FirstChunk(q, i) BY <1>5, <1>7 DEF FirstChunk
    <3> QED BY <3>1 DEF Firsts
  <2> QED BY <2>1, <2>2, <2>3, <2>4, <2>5 DEF Queue, WellFormed
<1>10. Writing(cmd', q, points)
  <2>1. NotStopped(q) BY <1>5, <1>7 DEF NotStopped
  <2>2. Base(q, points, k * ChunkSize)
    <3>1. 3 \in DOMAIN q /\ IsChunk(q[3]) /\ q[3].point.pos = k * ChunkSize
      BY <1>2, <1>5, <1>6 DEF IsChunk
    <3> QED BY <1>7, <3>1 DEF Base
  <2>3. cmd'.pos = k * ChunkSize + 0 /\ 0 \in 0..(ChunkSize - 1) /\ cmd'.event
    BY <1>3, <1>6, Sizes
  <2> QED BY <2>1, <2>2, <2>3 DEF Writing
<1>11. SentBy(q, now + 1) BY <1>1, <1>2, <1>5, <1>7 DEF SentBy
<1>12. /\ SoundPoints(points, now + 1) /\ EndsBy(records, now + 1)
       /\ \A d \in data : Recoverable(d, now + 1)
  BY <1>1, TimePasses DEF RecoveryInv
<1> QED BY <1>3, <1>4, <1>9, <1>10, <1>11, <1>12 DEF RecoveryInv

(* check_consistency() finds the last record to end where the next chunk    *)
(* begins: the last point is garbage, the one before it is the end's chunk. *)
LEMMA SavedIsConsistent ==
    ASSUME NEW rs \in Seq(Records), rs # <<>>, NEW ps \in Seq(Points), ps # <<>>, NEW p \in Points,
           Last(ps).t < Last(rs).end.t, Last(rs).end.t <= p.t,
           Last(rs).end.pos = NextChunk(Last(ps).pos)
    PROVE  Consistent(rs, RemoveGarbagePoints(rs, Append(ps, p)))
<1> DEFINE a == Append(ps, p)
           m == Len(ps)
           e == Last(rs).end
<1>1. /\ a \in Seq(Points) /\ Len(a) = m + 1 /\ m \in Nat /\ m >= 1 /\ DOMAIN a = 1..m + 1
      /\ \A i \in 1..m : a[i] = ps[i]
      /\ a[m + 1] = p /\ Last(ps) = ps[m]
  BY AppendIsTyped, LastIsTyped
<1>2. e.t \in Nat /\ p.t \in Nat
  <2>1. Last(rs) \in Records BY LastIsTyped
  <2>2. Last(rs).end \in Points BY <2>1 DEF Records
  <2> QED BY <2>2, PointsAreTyped
<1> HIDE DEF a, m
<1>3. PICK n \in 0..Len(a) :
         /\ RemoveGarbagePoints(rs, a) = SubSeq(a, 1, n)
         /\ n > 0 => e.t > a[n].t
         /\ \A i \in DOMAIN a : e.t > a[i].t => i <= n
  BY <1>1, GarbageIsRemoved
<1>4. n = m
  <2>1. a[m] = ps[m] /\ m \in DOMAIN a BY <1>1
  <2>2. ps[m].t < e.t /\ ps[m].t \in Nat
    <3>1. ps[m] \in Points BY <1>1, LastIsTyped
    <3> QED BY <1>1, <3>1, PointsAreTyped
  <2>3. m <= n BY <1>2, <1>3, <2>1, <2>2
  <2>4. n # m + 1 BY <1>1, <1>2, <1>3
  <2> QED BY <1>1, <2>3, <2>4
<1>5. /\ SubSeq(a, 1, n) # <<>> /\ Last(SubSeq(a, 1, n)) = ps[m]
  <2>1. /\ SubSeq(a, 1, n) \in Seq(Points) /\ Len(SubSeq(a, 1, n)) = n
        /\ \A i \in 1..n : SubSeq(a, 1, n)[i] = a[i]
    BY <1>1, PrefixIsTyped
  <2>2. SubSeq(a, 1, n) # <<>> BY <1>1, <1>4, <2>1, EmptySeq
  <2>3. SubSeq(a, 1, n)[n] = ps[m] BY <1>1, <1>4, <2>1
  <2> QED BY <2>1, <2>2, <2>3 DEF Last
<1>6. Consistent(rs, SubSeq(a, 1, n)) BY <1>1, <1>5 DEF Consistent, NextChunk
<1> QED BY <1>3, <1>6 DEF a

(* handle_chunk() keeps the last point, unless there is none, until it      *)
(* appends the next one.                                                    *)
LEMMA MaintainedPoints ==
    ASSUME MemType, NEW mp, mp = Maintain(points, records).points
    PROVE  /\ mp \in Seq(Points) /\ Len(mp) < MaxChunks
           /\ points # <<>> => mp # <<>> /\ Last(mp) = Last(points)
           /\ \A i \in DOMAIN mp : \E j \in DOMAIN points : mp[i] = points[j]
<1>1. /\ points \in Seq(Points) /\ Len(points) \in Nat /\ MaxChunks \in Nat /\ MaxChunks > 1
      /\ \/ mp = points /\ Len(points) < MaxChunks
         \/ mp = Tail(points) /\ Len(points) = MaxChunks /\ points # <<>>
  BY Sizes, MaintainKeeps, LenProperties DEF MemType
<1>2. CASE mp = points /\ Len(points) < MaxChunks BY <1>1, <1>2
<1>3. CASE mp = Tail(points) /\ Len(points) = MaxChunks /\ points # <<>>
  <2>1. /\ Tail(points) \in Seq(Points) /\ Len(Tail(points)) = Len(points) - 1
        /\ DOMAIN points = 1..Len(points) /\ DOMAIN Tail(points) = 1..Len(points) - 1
        /\ \A i \in 1..Len(points) - 1 : Tail(points)[i] = points[i + 1]
        /\ Tail(points) # <<>> => Last(Tail(points)) = Last(points)
    BY <1>1, <1>3, TailIsTyped
  <2>2. mp # <<>>
    <3>1. mp \in Seq(Points) /\ Len(mp) = Len(points) - 1 BY <1>3, <2>1
    <3>2. Len(mp) > 0 BY <1>1, <1>3, <3>1
    <3> QED BY <3>2, EmptySeq
  <2>3. \A i \in DOMAIN mp : i + 1 \in DOMAIN points /\ mp[i] = points[i + 1]
    BY <1>1, <1>3, <2>1
  <2>4. Len(mp) < MaxChunks BY <1>1, <1>3, <2>1
  <2> QED BY <1>3, <2>1, <2>2, <2>3, <2>4
<1> QED BY <1>1, <1>2, <1>3

LEMMA ChunkRecovers ==
    ASSUME TypeInv, RecoveryInv, ~gaps, HandleChunk
    PROVE  RecoveryInv'
<1> DEFINE p == Head(pipe).point
           mp == Maintain(points, records).points
           mr == Maintain(points, records).records
           ps == Append(mp, p)
           a == Tail(pipe)
<1>1. /\ up /\ pipe # <<>> /\ Head(pipe).kind = "chunk" /\ pipe' = a
      /\ points' = ps /\ records' = mr /\ data' = Saved(mr, ps)
      /\ UNCHANGED <<now, cmd, up, session>>
  BY DEF HandleChunk, Receive, cmdVars
<1>2. /\ pipe \in Seq(Messages) /\ points \in Seq(Points) /\ records \in Seq(Records) /\ now \in Nat
      /\ Len(points) <= MaxChunks /\ data \subseteq Files
  BY DEF TypeInv, PipeType, MemType, CmdType, DataType
<1>3. /\ p \in Points /\ p.t <= now /\ SentBy(a, now) /\ p.t \in Nat
  BY <1>1, <1>2, ReceiveIsTyped, SentHandled DEF TypeInv, RecoveryInv
<1>4. /\ Len(pipe) \in Nat /\ Len(pipe) >= 1 /\ DOMAIN pipe = 1..Len(pipe)
      /\ DOMAIN a = 1..Len(pipe) - 1 /\ Len(a) = Len(pipe) - 1
      /\ \A i \in 1..Len(pipe) - 1 : a[i] = pipe[i + 1]
      /\ Head(pipe) = pipe[1]
  BY <1>1, <1>2, TailIsTyped
<1>5. /\ WellFormed(a) /\ PointsBefore(a, points)
      /\ \A i \in DOMAIN a : a[i].kind # "start"
      /\ \A i \in DOMAIN a : ~(IsChunk(a[i]) /\ i = 1)
      /\ NotStopped(pipe) => NotStopped(a)
  <2>1. ASSUME NEW i \in DOMAIN a, IsChunk(a[i]), i = 1 PROVE FALSE
    <3>1. Head(pipe).kind = "start" \/ Head(pipe) = Msg("event-update", a[i].point)
      BY <1>1, <1>2, <2>1, Handled DEF RecoveryInv
    <3> QED BY <1>1, <3>1 DEF Msg
  <2>2. /\ WellFormed(a) /\ PointsBefore(a, points)
        /\ \A i \in DOMAIN a : a[i].kind # "start"
        /\ NotStopped(pipe) => NotStopped(a)
    BY <1>1, <1>2, Handled DEF RecoveryInv
  <2> QED BY <2>1, <2>2
<1>6. /\ mp \in Seq(Points) /\ Len(mp) < MaxChunks
      /\ points # <<>> => mp # <<>> /\ Last(mp) = Last(points)
      /\ \A i \in DOMAIN mp : \E j \in DOMAIN points : mp[i] = points[j]
  BY MaintainedPoints DEF TypeInv
<1>7. /\ mr \in Seq(Records)
      /\ mr # <<>> => records # <<>> /\ Last(mr).end = Last(records).end
  BY <1>2, MaintainKeeps
<1> HIDE DEF a, mp, mr, p
<1>8. /\ ps \in Seq(Points) /\ ps # <<>> /\ Last(ps) = p /\ Len(ps) = Len(mp) + 1 /\ Len(mp) \in Nat
      /\ DOMAIN mp = 1..Len(mp) /\ DOMAIN ps = 1..Len(mp) + 1 /\ ps[Len(mp) + 1] = p
      /\ \A i \in 1..Len(mp) : ps[i] = mp[i]
  BY <1>3, <1>6, AppendIsTyped
<1>9. \A i \in DOMAIN ps : ps[i] = p \/ \E j \in DOMAIN points : ps[i] = points[j]
  <2> TAKE i \in DOMAIN ps
  <2>1. CASE i = Len(mp) + 1 BY <1>8, <2>1
  <2>2. CASE i # Len(mp) + 1
    <3>1. i \in DOMAIN mp /\ ps[i] = mp[i] BY <1>8, <2>2
    <3> QED BY <1>6, <3>1
  <2> QED BY <2>1, <2>2
<1> HIDE DEF ps
<1>10. IsChunk(pipe[1]) /\ pipe[1].point = p /\ 1 \in DOMAIN pipe
  BY <1>1, <1>4 DEF IsChunk, p
<1>11. Ready(p, points, records)
  <2>1. FirstChunk(pipe, 1) BY <1>4, <1>10 DEF FirstChunk
  <2> QED BY <1>10, <2>1 DEF RecoveryInv, Queue, Firsts
<1>12. SoundPoints(ps, now)
  <2>1. Aligned(p.pos)
    BY <1>10 DEF RecoveryInv, Queue, WellFormed, ChunksAnnounced
  <2> QED BY <1>3, <1>9, <2>1 DEF RecoveryInv, SoundPoints
<1>13. EndsBy(mr, now) BY <1>7 DEF RecoveryInv, EndsBy
<1>14. Queue(a, ps, mr)
  <2>1. StartsAfter(a, mr) BY <1>5 DEF StartsAfter
  <2>2. PointsBefore(a, ps)
    <3> SUFFICES ASSUME NEW i \in DOMAIN ps, NEW j \in DOMAIN a, IsChunk(a[j])
                 PROVE  ps[i].t < a[j].point.t
      BY DEF PointsBefore
    <3>1. CASE ps[i] = p
      <4>1. j + 1 \in DOMAIN pipe /\ 1 < j + 1 /\ a[j] = pipe[j + 1] BY <1>4
      <4> QED BY <1>10, <3>1, <4>1 DEF RecoveryInv, Queue, WellFormed, ChunksInOrder
    <3>2. CASE \E k \in DOMAIN points : ps[i] = points[k]
      BY <1>5, <3>2 DEF PointsBefore
    <3> QED BY <1>9, <3>1, <3>2
  <2>3. Firsts(a, ps, mr)
    <3> SUFFICES ASSUME NEW i \in DOMAIN a, FirstChunk(a, i)
                 PROVE  i # 1 /\ Continues(a[i].point, ps)
      BY DEF Firsts
    <3>1. i # 1 /\ IsChunk(a[i]) /\ i + 1 \in DOMAIN pipe /\ 1 < i + 1 /\ a[i] = pipe[i + 1]
      BY <1>4, <1>5 DEF FirstChunk
    <3>2. \A k \in DOMAIN pipe : 1 < k /\ k < i + 1 => ~IsChunk(pipe[k])
      <4> SUFFICES ASSUME NEW k \in DOMAIN pipe, 1 < k, k < i + 1 PROVE ~IsChunk(pipe[k])
        OBVIOUS
      <4>1. k - 1 \in DOMAIN a /\ k - 1 < i /\ a[k - 1] = pipe[k] BY <1>4
      <4> QED BY <4>1 DEF FirstChunk
    <3>3. a[i].point.pos = NextChunk(p.pos)
      BY <1>10, <3>1, <3>2 DEF RecoveryInv, Queue, WellFormed, ChunksInOrder
    <3> QED BY <1>8, <3>1, <3>3 DEF Continues
  <2> QED BY <1>5, <2>1, <2>2, <2>3 DEF Queue
<1>15. cmd.on => Writing(cmd, a, ps)
  <2> SUFFICES ASSUME cmd.on PROVE Writing(cmd, a, ps) OBVIOUS
  <2>1. PICK k \in 0..(NumChunks - 1), b \in 0..(ChunkSize - 1) :
           cmd.pos = k * ChunkSize + b /\ Base(pipe, points, k * ChunkSize)
    BY DEF RecoveryInv, Writing
  <2>2. Base(a, ps, k * ChunkSize)
    <3>1. IsChunk(Head(pipe)) /\ Last(ps) = Head(pipe).point
      BY <1>4, <1>8, <1>10
    <3> QED BY <1>1, <1>2, <1>8, <2>1, <3>1, BaseHandled DEF a
  <2> QED BY <1>5, <2>1, <2>2 DEF RecoveryInv, Writing
<1>16. \A d \in data' : Recoverable(d, now)
  <2> SUFFICES ASSUME NEW d \in data', d \notin data PROVE Recoverable(d, now)
    BY DEF RecoveryInv
  <2>1. /\ mr # <<>> /\ d.points = ps /\ d.records # <<>> /\ Last(d.records).end = Last(mr).end
        /\ d.records \in Seq(Records)
    <3>1. Len(ps) <= MaxChunks /\ DataType BY <1>6, <1>8, Sizes DEF TypeInv
    <3>2. DataType' /\ (mr # <<>> /\ d.points = ps /\ d.records # <<>> /\ Last(d.records).end = Last(mr).end)
      BY <1>1, <1>7, <1>8, <3>1, SavedKeeps
    <3>3. d \in Files BY <3>2, SetsStay DEF DataType
    <3> QED BY <3>2, <3>3 DEF Files
  <2> DEFINE e == Last(records).end
  <2>2. records # <<>> /\ Last(d.records).end = e BY <1>7, <2>1
  <2>3. e.t \in Nat
    <3>1. Last(records) \in Records BY <1>2, <2>2, LastIsTyped
    <3>2. e \in Points BY <3>1 DEF Records
    <3> QED BY <3>2, PointsAreTyped
  <2>4. /\ points # <<>> /\ Last(points).t < e.t /\ e.t <= p.t
        /\ e.pos = NextChunk(Last(points).pos)
    <3>1. CASE e = p /\ Continues(p, points)
      <4>1. Len(points) \in DOMAIN points /\ Last(points) = points[Len(points)]
        BY <1>2, <3>1, LastIsTyped DEF Continues
      <4>2. Last(points).t < p.t
        BY <1>10, <4>1 DEF RecoveryInv, Queue, PointsBefore
      <4> QED BY <1>3, <3>1, <4>2 DEF Continues
    <3>2. CASE Checked(records, points) /\ e.t < p.t
      BY <1>3, <2>3, <3>2 DEF Checked
    <3> QED BY <1>11, <2>2, <3>1, <3>2 DEF Ready
  <2> HIDE DEF e
  <2>5. mp # <<>> /\ Last(mp) = Last(points) BY <1>6, <2>4
  <2>6. Consistent(d.records, RemoveGarbagePoints(d.records, ps))
    BY <1>3, <1>6, <2>1, <2>2, <2>4, <2>5, SavedIsConsistent DEF ps
  <2>7. EndsBy(d.records, now) BY <2>2 DEF RecoveryInv, EndsBy, e
  <2> QED BY <1>12, <2>1, <2>6, <2>7 DEF Recoverable
<1> QED BY <1>1, <1>3, <1>12, <1>13, <1>14, <1>15, <1>16 DEF RecoveryInv

LEMMA StartRecordingRecovers ==
    ASSUME TypeInv, RecoveryInv, ~gaps, HandleStartRecording
    PROVE  RecoveryInv'
<1> DEFINE kept == RemoveGarbagePoints(records, points)
           a == Tail(pipe)
<1>1. CASE Gone BY <1>1, StartRecovers
<1>2. CASE ~Gone
  <2>1. /\ up /\ pipe # <<>> /\ Head(pipe).kind = "start" /\ Consistent(records, kept) /\ pipe' = a
        /\ points' = kept /\ UNCHANGED <<now, cmd, up, session, records, data>>
    BY <1>2 DEF HandleStartRecording, cmdVars
  <2>2. /\ pipe \in Seq(Messages) /\ points \in Seq(Points) /\ records \in Seq(Records)
    BY DEF TypeInv, PipeType, MemType
  <2>3. /\ Len(pipe) \in Nat /\ Len(pipe) >= 1 /\ DOMAIN pipe = 1..Len(pipe)
        /\ DOMAIN a = 1..Len(pipe) - 1 /\ Len(a) = Len(pipe) - 1
        /\ \A i \in 1..Len(pipe) - 1 : a[i] = pipe[i + 1]
        /\ Head(pipe) = pipe[1] /\ SentBy(a, now)
    BY <2>1, <2>2, TailIsTyped, SentHandled DEF RecoveryInv
  <2>4. /\ WellFormed(a) /\ PointsBefore(a, points) /\ StartsAfter(a, records)
        /\ a # <<>> /\ IsChunk(a[1]) /\ (NotStopped(pipe) => NotStopped(a))
    BY <2>1, <2>2, Handled DEF RecoveryInv
  <2>5. PICK n \in 0..Len(points) :
           /\ kept = SubSeq(points, 1, n)
           /\ records # <<>> => (n > 0 => Last(records).end.t > points[n].t)
    BY <2>2, GarbageIsRemoved
  <2>6. /\ kept \in Seq(Points) /\ Len(kept) = n /\ n \in Nat /\ \A i \in 1..n : kept[i] = points[i]
    BY <2>2, <2>5, PrefixIsTyped
  <2> HIDE DEF kept, a
  <2>7. \A i \in DOMAIN kept : i \in DOMAIN points /\ kept[i] = points[i]
    BY <2>2, <2>6, LenProperties
  <2>8. SoundPoints(kept, now) /\ PointsBefore(a, kept)
    BY <2>4, <2>7 DEF RecoveryInv, SoundPoints, PointsBefore
  <2>9. Firsts(a, kept, records)
    <3>1. Ready(a[1].point, kept, records)
      <4> SUFFICES ASSUME records # <<>> PROVE Checked(records, kept) /\ Last(records).end.t < a[1].point.t
        BY DEF Ready
      <4>1. kept # <<>> /\ Last(records).end.pos = NextChunk(Last(kept).pos)
        BY <2>1 DEF Consistent, NextChunk
      <4>2. Last(kept) = points[n] /\ n > 0 BY <2>6, <4>1, LastIsTyped
      <4>3. Last(kept).t < Last(records).end.t
        <5>1. Last(kept) \in Points /\ Last(records) \in Records
          BY <2>2, <2>6, <4>1, LastIsTyped
        <5>2. Last(records).end \in Points BY <5>1 DEF Records
        <5>3. Last(kept).t \in Nat /\ Last(records).end.t \in Nat
          BY <5>1, <5>2, PointsAreTyped
        <5> QED BY <2>5, <4>2, <5>3
      <4>4. Last(records).end.t < a[1].point.t
        <5>1. 1 \in DOMAIN pipe /\ pipe[1].kind = "start" BY <2>1, <2>3
        <5>2. Last(records).end.t < pipe[1 + 1].point.t
          BY <5>1 DEF RecoveryInv, Queue, StartsAfter
        <5>3. a[1] = pipe[1 + 1]
          <6>1. 1 + 1 \in DOMAIN pipe
            BY <5>1 DEF RecoveryInv, Queue, WellFormed, StartsFirst
          <6> QED BY <2>3, <6>1
        <5> QED BY <5>2, <5>3
      <4> QED BY <4>1, <4>3, <4>4 DEF Checked
    <3>2. \A i \in DOMAIN a : FirstChunk(a, i) => i = 1
      <4> SUFFICES ASSUME NEW i \in DOMAIN a, FirstChunk(a, i) PROVE i = 1
        OBVIOUS
      <4>1. 1 \in DOMAIN a /\ (i = 1 \/ 1 < i) BY <2>3
      <4> QED BY <2>4, <4>1 DEF FirstChunk
    <3> QED BY <3>1, <3>2 DEF Firsts
  <2>10. cmd.on => Writing(cmd, a, kept)
    <3> SUFFICES ASSUME cmd.on PROVE Writing(cmd, a, kept) OBVIOUS
    <3>1. PICK k \in 0..(NumChunks - 1), b \in 0..(ChunkSize - 1) :
             cmd.pos = k * ChunkSize + b /\ Base(pipe, points, k * ChunkSize)
      BY DEF RecoveryInv, Writing
    <3>2. Base(a, kept, k * ChunkSize)
      BY <2>1, <2>2, <2>4, <3>1, BaseHandled DEF a
    <3> QED BY <2>4, <3>1, <3>2 DEF RecoveryInv, Writing
  <2> QED BY <2>1, <2>3, <2>4, <2>8, <2>9, <2>10 DEF RecoveryInv, Queue
<1> QED BY <1>1, <1>2

LEMMA OthersRecover ==
    ASSUME TypeInv, RecoveryInv, ~gaps,
           PipelineStarted \/ PipelineStopped \/ HandleStopRecording
           \/ HandleEventStart \/ HandleEventUpdate \/ HandleEventEnd
    PROVE  RecoveryInv'
<1> DEFINE p == Head(pipe).point
           kind == Head(pipe).kind
           a == Tail(pipe)
<1>1. /\ up /\ pipe # <<>> /\ pipe' = a /\ UNCHANGED <<now, cmd, up, points, data>>
      /\ kind \notin {"chunk", "start"}
      /\ session' = session \/ kind = "stopped"
      /\ \/ records' = records /\ kind # "event-update"
         \/ records' = Append(records, NewRecord(p)) /\ kind = "event-start"
         \/ records' = UpdateLastRecord(records, p, FALSE) /\ kind = "event-update"
         \/ records' = UpdateLastRecord(records, p, TRUE) /\ kind = "event-end"
  BY DEF PipelineStarted, PipelineStopped, HandleStopRecording, HandleEventStart, HandleEventUpdate,
         HandleEventEnd, Receive, cmdVars
<1>2. /\ pipe \in Seq(Messages) /\ records \in Seq(Records) /\ now \in Nat
      /\ p \in Points /\ p.t <= now /\ SentBy(a, now)
  BY <1>1, ReceiveIsTyped, SentHandled DEF TypeInv, PipeType, MemType, CmdType, RecoveryInv
<1> HIDE DEF p, kind, a
<1>3. records' = records \/ records' = <<>> \/ Last(records').end = p
  <2>1. Last(Append(records, NewRecord(p))).end = p
    <3> DEFINE r == NewRecord(p)
    <3>1. r \in Records /\ r.end = p BY <1>2, RecordsAreTyped
    <3> HIDE DEF r
    <3>2. Last(Append(records, r)) = r BY <1>2, <3>1, AppendIsTyped
    <3> QED BY <3>1, <3>2 DEF r
  <2>2. \A b \in BOOLEAN : \/ UpdateLastRecord(records, p, b) = <<>>
                           \/ Last(UpdateLastRecord(records, p, b)).end = p
    BY <1>2, UpdateKeeps
  <2> QED BY <1>1, <2>1, <2>2
<1>4. EndsBy(records', now) BY <1>2, <1>3 DEF RecoveryInv, EndsBy
<1>5. Queue(a, points, records')
  <2>1. /\ Head(pipe).kind \notin {"chunk", "start"}
        /\ Head(pipe).kind = "started" => records' = records
        /\ Head(pipe).kind = "event-update" => records' = <<>> \/ Last(records').end = Head(pipe).point
    <3>1. kind = "event-update" => records' = UpdateLastRecord(records, p, FALSE)
      BY <1>1
    <3>2. kind = "event-update" => records' = <<>> \/ Last(records').end = p
      BY <1>2, <3>1, UpdateKeeps
    <3>3. kind = "started" => records' = records BY <1>1
    <3> QED BY <1>1, <3>2, <3>3 DEF kind, p
  <2> DEFINE rs == records'
  <2>2. /\ Head(pipe).kind \notin {"chunk", "start"}
        /\ Head(pipe).kind = "started" => rs = records
        /\ Head(pipe).kind = "event-update" => rs = <<>> \/ Last(rs).end = Head(pipe).point
    BY <2>1
  <2> HIDE DEF rs
  <2>3. Queue(Tail(pipe), points, rs)
    BY <1>1, <1>2, <2>2, OtherHandled DEF RecoveryInv
  <2> QED BY <2>3 DEF a, rs
<1>6. (kind = "stopped" => a = <<>>) /\ (NotStopped(pipe) => NotStopped(a))
  BY <1>1, <1>2, Handled DEF RecoveryInv, kind, a
<1>7. cmd.on => kind # "stopped" /\ Writing(cmd, a, points)
  <2> SUFFICES ASSUME cmd.on PROVE kind # "stopped" /\ Writing(cmd, a, points)
    OBVIOUS
  <2>1. PICK k \in 0..(NumChunks - 1), b \in 0..(ChunkSize - 1) :
           cmd.pos = k * ChunkSize + b /\ Base(pipe, points, k * ChunkSize)
    BY DEF RecoveryInv, Writing
  <2>2. Base(a, points, k * ChunkSize)
    BY <1>1, <1>2, <2>1, BaseHandled DEF a, kind, IsChunk
  <2>3. kind # "stopped"
    <3>1. 1 \in DOMAIN pipe /\ Head(pipe) = pipe[1] BY <1>1, <1>2, TailIsTyped
    <3> QED BY <3>1 DEF RecoveryInv, Writing, NotStopped, kind
  <2> QED BY <1>6, <2>1, <2>2, <2>3 DEF RecoveryInv, Writing
<1>8. ~up' \/ ~session' => pipe' = <<>> /\ ~cmd'.on
  BY <1>1, <1>6, <1>7 DEF RecoveryInv
<1> QED BY <1>1, <1>2, <1>4, <1>5, <1>7, <1>8 DEF RecoveryInv

LEMMA QuietStepsRecover ==
    ASSUME RecoveryInv, UNCHANGED <<now, cmd, pipe, up, points, records, session, data>>
    PROVE  RecoveryInv'
BY DEF RecoveryInv

(* While no service is without an event, what the file says is enough to go *)
(* on recording after any crash: TimeshiftRecorder finds the last record to *)
(* end where its next chunk begins and check_consistency() lets it pass,    *)
(* for rings and chunks of every size.                                      *)
THEOREM RecoveryIsKept == TsSpec => [](~gaps => RecoveryInv)
<1>1. TsInit => RecoveryInv
  <2> SUFFICES ASSUME TsInit PROVE RecoveryInv OBVIOUS
  <2>1. pipe = <<>> /\ points = <<>> /\ records = <<>> /\ data = {} /\ ~cmd.on
    BY DEF TsInit, Off
  <2>2. Queue(<<>>, <<>>, <<>>) /\ SoundPoints(<<>>, now) /\ EndsBy(<<>>, now) /\ SentBy(<<>>, now)
    BY EmptyQueue DEF SoundPoints, EndsBy, SentBy
  <2> QED BY <2>1, <2>2 DEF RecoveryInv
<1>2. TypeInv /\ (~gaps => RecoveryInv) /\ [TsNext]_tsVars => (~gaps => RecoveryInv)'
  <2> SUFFICES ASSUME TypeInv, ~gaps => RecoveryInv, [TsNext]_tsVars, ~gaps' PROVE RecoveryInv'
    OBVIOUS
  <2>1. ~gaps
    BY DEF TsNext, tsVars, cmdVars, Write, EventBoundary, PipelineBreaks, Started, Crash, Gone,
           ServiceUpdated, HealthCheck, StartRecording, Launch, Handle, PipelineStarted,
           PipelineStopped, HandleStartRecording, HandleStopRecording, HandleChunk,
           HandleEventStart, HandleEventUpdate, HandleEventEnd, HandleTimeshiftEvent
  <2>2. CASE Write \/ EventBoundary \/ PipelineBreaks
    BY <2>1, <2>2, WriteRecovers, EventsRecover
  <2>3. CASE Started \/ Crash BY <2>1, <2>3, StartRecovers DEF Crash
  <2>4. CASE ServiceUpdated \/ HealthCheck
    <3>1. \/ up /\ ~session /\ Launch /\ up' = up
          \/ UNCHANGED <<now, cmd, pipe, up, points, records, session, data>>
      BY <2>4 DEF ServiceUpdated, HealthCheck, StartRecording, cmdVars
    <3> QED BY <2>1, <3>1, LaunchRecovers, QuietStepsRecover
  <2>5. CASE Handle
    BY <2>1, <2>5, ChunkRecovers, StartRecordingRecovers, OthersRecover DEF Handle
  <2>6. CASE HandleTimeshiftEvent \/ UNCHANGED tsVars
    <3>1. UNCHANGED <<now, cmd, pipe, up, points, records, session, data>>
      BY <2>6 DEF HandleTimeshiftEvent, tsVars, cmdVars, memVars
    <3> QED BY <2>1, <3>1, QuietStepsRecover
  <2> QED BY <2>2, <2>3, <2>4, <2>5, <2>6 DEF TsNext
<1> QED BY <1>1, <1>2, TypeCorrect, PTL DEF TsSpec

(* A recorder that starts from the data file is not stopped by              *)
(* check_consistency(), whatever breaks between two writes of the file.     *)
THEOREM RestartsAreRecovered == TsSpec => []RestartsRecover
<1>1. (~gaps => RecoveryInv) => RestartsRecover
  BY DEF RestartsRecover, RecoveryInv, Recoverable
<1> QED BY <1>1, RecoveryIsKept, PTL

(***************************************************************************)
(* Records stay readable.  The points and the chunks that are announced     *)
(* form a chain: in order of time, in the order of the ring, and never more *)
(* of them than the ring has room for (Chain).  Every record is held by the *)
(* chunks of the points up to its end (Recs), and the one that is open goes *)
(* on to the command (Runs).  A unit that is written destroys nothing the   *)
(* chain holds; handle_chunk() gives up a chunk and what the records had in *)
(* it; a restart finds the chain of the file again (ReadInv).               *)
(***************************************************************************)

(***************************************************************************)
(* Places in the ring.                                                      *)
(***************************************************************************)
LEMMA Division ==
    ASSUME NEW n \in Nat, n > 0, NEW x \in Int
    PROVE  x % n \in 0..(n - 1) /\ \E q \in Int : x = q * n + (x % n)
<1>1. x % n \in 0..(n - 1) OBVIOUS
<1>2. x \div n \in Int /\ x = (x \div n) * n + (x % n) OBVIOUS
<1> QED BY <1>1, <1>2

LEMMA Remainder ==
    ASSUME NEW n \in Nat, n > 0, NEW q \in Int, NEW r \in 0..(n - 1)
    PROVE  (q * n + r) % n = r
<1>1. PICK p \in Int : q * n + r = p * n + ((q * n + r) % n)
  <2>1. q * n + r \in Int OBVIOUS
  <2> QED BY <2>1, Division
<1> DEFINE s == (q * n + r) % n
<1>2. s \in 0..(n - 1)
  <2>1. q * n + r \in Int OBVIOUS
  <2> QED BY <2>1, Division
<1> HIDE DEF s
<1>3. (q - p) * n = s - r
  <2>1. q * n + r = p * n + s BY <1>1 DEF s
  <2>2. (q - p) * n = q * n - p * n /\ q * n \in Int /\ p * n \in Int OBVIOUS
  <2> QED BY <1>2, <2>1, <2>2
<1>4. q - p = 0
  <2> DEFINE d == q - p
  <2>1. d \in Int /\ d * n < n /\ d * n > 0 - n BY <1>2, <1>3
  <2> HIDE DEF d
  <2>2. d >= 1 => d * n >= n BY <2>1
  <2>3. d <= 0 - 1 => d * n <= 0 - n BY <2>1
  <2>4. d = 0
    <3>1. d * n \in Int BY <2>1
    <3> QED BY <2>1, <2>2, <2>3, <3>1
  <2> QED BY <2>4 DEF d
<1>5. (q - p) * n = 0 BY <1>4
<1> QED BY <1>2, <1>3, <1>5 DEF s

LEMMA Sums ==
    ASSUME NEW n \in Nat, n > 0, NEW x \in Int, NEW y \in Int
    PROVE  ((x % n) + y) % n = (x + y) % n
<1> DEFINE a == x % n
           b == (a + y) % n
<1>1. PICK q \in Int : x = q * n + a BY Division
<1>2. a \in Int BY Division
<1>3. b \in 0..(n - 1) /\ \E p \in Int : a + y = p * n + b
  <2>1. a + y \in Int BY <1>2
  <2> HIDE DEF a
  <2> QED BY <2>1, Division
<1>4. PICK p \in Int : a + y = p * n + b BY <1>3
<1> HIDE DEF a, b
<1>5. x + y = (q + p) * n + b
  <2>1. (q + p) * n = q * n + p * n /\ q * n \in Int /\ p * n \in Int OBVIOUS
  <2> QED BY <1>1, <1>2, <1>3, <1>4, <2>1
<1>6. ((q + p) * n + b) % n = b BY <1>3, Remainder
<1> QED BY <1>5, <1>6 DEF a, b

(* A position is in one chunk only, and the number of a chunk is unique.    *)
LEMMA ChunksAreDisjoint ==
    ASSUME NEW k \in 0..(NumChunks - 1), NEW m \in 0..(NumChunks - 1),
           NEW a \in 0..(ChunkSize - 1), NEW b \in 0..(ChunkSize - 1),
           k * ChunkSize + a = m * ChunkSize + b
    PROVE  k = m /\ a = b
<1>1. ChunkSize \in Nat /\ ChunkSize > 0 /\ NumChunks \in Nat BY Sizes
<1>2. (k * ChunkSize + a) % ChunkSize = a /\ (m * ChunkSize + b) % ChunkSize = b
  BY <1>1, Remainder
<1>3. a = b BY <1>2
<1>4. k * ChunkSize = m * ChunkSize
  <2> DEFINE x == k * ChunkSize
             y == m * ChunkSize
  <2>1. x \in Int /\ y \in Int /\ x + a = y + b BY <1>1
  <2> HIDE DEF x, y
  <2>2. x = y BY <1>3, <2>1
  <2> QED BY <2>2 DEF x, y
<1>5. k = m
  <2>1. CASE k < m
    <3>1. k * ChunkSize + ChunkSize <= ChunkSize * m BY <1>1, <2>1, Multiples
    <3>2. k * ChunkSize \in Int /\ ChunkSize * m = m * ChunkSize BY <1>1
    <3> QED BY <1>1, <1>4, <3>1, <3>2
  <2>2. CASE m < k
    <3>1. m * ChunkSize + ChunkSize <= ChunkSize * k BY <1>1, <2>2, Multiples
    <3>2. m * ChunkSize \in Int /\ ChunkSize * k = k * ChunkSize BY <1>1
    <3> QED BY <1>1, <1>4, <3>1, <3>2
  <2> QED BY <2>1, <2>2
<1> QED BY <1>3, <1>5

(* Number: which chunk of the ring begins at a position.                    *)
Number(pos) == CHOOSE k \in 0..(NumChunks - 1) : pos = k * ChunkSize
NextNumber(k) == IF k + 1 = NumChunks THEN 0 ELSE k + 1

LEMMA NumbersOfChunks ==
    ASSUME NEW pos, Aligned(pos)
    PROVE  Number(pos) \in 0..(NumChunks - 1) /\ pos = Number(pos) * ChunkSize
BY DEF Aligned, Number

LEMMA NumberIs ==
    ASSUME NEW k \in 0..(NumChunks - 1)
    PROVE  Number(k * ChunkSize) = k /\ Aligned(k * ChunkSize)
<1>1. Aligned(k * ChunkSize) BY DEF Aligned
<1> DEFINE m == Number(k * ChunkSize)
<1>2. m \in 0..(NumChunks - 1) /\ k * ChunkSize = m * ChunkSize
  BY <1>1, NumbersOfChunks
<1>3. 0 \in 0..(ChunkSize - 1) /\ k * ChunkSize + 0 = m * ChunkSize + 0
  BY <1>2, Sizes
<1> HIDE DEF m
<1>4. k = m BY <1>2, <1>3, ChunksAreDisjoint
<1> QED BY <1>1, <1>4 DEF m

LEMMA NumberOfNext ==
    ASSUME NEW pos, Aligned(pos)
    PROVE  /\ Aligned(NextChunk(pos)) /\ Number(NextChunk(pos)) = NextNumber(Number(pos))
           /\ pos \in 0..(FileSize - 1) /\ pos + ChunkSize <= FileSize
<1> DEFINE k == Number(pos)
           n == NextNumber(k)
<1>1. /\ ChunkSize \in Nat /\ ChunkSize > 0 /\ NumChunks \in Nat /\ NumChunks > 2
      /\ FileSize \in Nat /\ FileSize > 0 /\ FileSize = ChunkSize * NumChunks
      /\ k \in 0..(NumChunks - 1) /\ pos = k * ChunkSize
  BY Sizes, NumbersOfChunks DEF FileSize
<1> HIDE DEF k
<1>2. pos \in Nat /\ pos + ChunkSize <= FileSize
  <2>1. k * ChunkSize \in Nat /\ k \in Nat /\ k < NumChunks BY <1>1
  <2>2. k * ChunkSize + ChunkSize <= ChunkSize * NumChunks
    BY <1>1, <2>1, Multiples
  <2> QED BY <1>1, <2>1, <2>2
<1>3. n \in 0..(NumChunks - 1) /\ NextChunk(pos) = n * ChunkSize
  <2>1. CASE k + 1 = NumChunks
    <3>1. k * ChunkSize + ChunkSize = (k + 1) * ChunkSize BY <1>1
    <3>2. pos + ChunkSize = FileSize
      <4>1. (k + 1) * ChunkSize = ChunkSize * NumChunks BY <1>1, <2>1
      <4> QED BY <1>1, <3>1, <4>1
    <3>3. NextChunk(pos) = 0 BY <1>1, <3>2, Remainders DEF NextChunk
    <3>4. n = 0 /\ 0 * ChunkSize = 0 BY <1>1, <2>1 DEF NextNumber
    <3> QED BY <1>1, <3>3, <3>4
  <2>2. CASE k + 1 # NumChunks
    <3>1. n = k + 1 /\ n \in 0..(NumChunks - 1) /\ n \in Nat /\ n < NumChunks
      BY <1>1, <2>2 DEF NextNumber
    <3>2. (k + 1) * ChunkSize = pos + ChunkSize BY <1>1
    <3> HIDE DEF n
    <3>3. n * ChunkSize + ChunkSize <= FileSize BY <1>1, <3>1, Multiples
    <3>4. n * ChunkSize = pos + ChunkSize BY <3>1, <3>2
    <3>5. pos + ChunkSize < FileSize /\ pos + ChunkSize \in Nat
      BY <1>1, <1>2, <3>3, <3>4
    <3>6. NextChunk(pos) = pos + ChunkSize
      BY <1>1, <3>5, Remainders DEF NextChunk
    <3> QED BY <3>1, <3>4, <3>6
  <2> QED BY <2>1, <2>2
<1> HIDE DEF n
<1>4. Number(n * ChunkSize) = n /\ Aligned(n * ChunkSize) BY <1>3, NumberIs
<1>5. pos \in 0..(FileSize - 1) BY <1>1, <1>2
<1> QED BY <1>2, <1>3, <1>4, <1>5 DEF n, k

(* Place: where the unit of time t is, if p is a point of the same session. *)
Place(p, t) == (p.pos + (t - p.t)) % FileSize
InChunk(q, p) == q.t <= p.t /\ p.t < q.t + ChunkSize /\ p.pos = q.pos + (p.t - q.t)

LEMMA Places ==
    ASSUME NEW p \in Points
    PROVE  /\ Place(p, p.t) = p.pos
           /\ \A t \in Nat : Place(p, t) \in 0..(FileSize - 1)
           /\ \A t \in Nat : (Place(p, t) + 1) % FileSize = Place(p, t + 1)
           /\ \A q \in Points, t \in Nat : q.pos = Place(p, q.t) => Place(q, t) = Place(p, t)
<1> DEFINE n == FileSize
<1>1. /\ n \in Nat /\ n > 0 /\ p.t \in Nat /\ p.pos \in 0..(n - 1) /\ p.pos \in Nat
  BY Sizes, PointsAreTyped
<1>2. p.pos + (p.t - p.t) = p.pos BY <1>1
<1>3. Place(p, p.t) = p.pos BY <1>1, <1>2, Remainders DEF Place
<1>4. ASSUME NEW t \in Nat
      PROVE  Place(p, t) \in 0..(n - 1) /\ (Place(p, t) + 1) % n = Place(p, t + 1)
  <2> DEFINE x == p.pos + (t - p.t)
             y == p.pos + ((t + 1) - p.t)
  <2>1. x \in Int /\ y = x + 1 BY <1>1
  <2>2. Place(p, t) = x % n /\ Place(p, t + 1) = y % n BY DEF Place
  <2> HIDE DEF x, y
  <2>3. x % n \in 0..(n - 1) /\ ((x % n) + 1) % n = (x + 1) % n
    <3> HIDE DEF n
    <3>1. n \in Nat /\ n > 0 /\ 1 \in Int BY <1>1
    <3>2. x % n \in 0..(n - 1) BY <2>1, <3>1, Division
    <3>3. ((x % n) + 1) % n = (x + 1) % n BY <2>1, <3>1, Sums
    <3> QED BY <3>2, <3>3
  <2> QED BY <2>1, <2>2, <2>3
<1>5. ASSUME NEW q \in Points, NEW t \in Nat, q.pos = Place(p, q.t)
      PROVE  Place(q, t) = Place(p, t)
  <2> DEFINE x == p.pos + (q.t - p.t)
             y == t - q.t
  <2>1. q.t \in Nat BY PointsAreTyped
  <2>2. x \in Int /\ y \in Int /\ p.pos + (t - p.t) = x + y BY <1>1, <2>1
  <2>3. q.pos = x % n /\ Place(q, t) = (q.pos + y) % n BY <1>5 DEF Place
  <2>4. Place(p, t) = (x + y) % n BY <2>2 DEF Place
  <2> HIDE DEF x, y
  <2>5. ((x % n) + y) % n = (x + y) % n BY <1>1, <2>2, Sums
  <2> QED BY <2>3, <2>4, <2>5
<1> QED BY <1>3, <1>4, <1>5

(* If two places in chunks are one, so are the chunks and the offsets.      *)
LEMMA SamePlace ==
    ASSUME NEW x, NEW y, Aligned(x), Aligned(y),
           NEW a \in 0..(ChunkSize - 1), NEW b \in 0..(ChunkSize - 1), x + a = y + b
    PROVE  x = y /\ a = b
<1> DEFINE k == Number(x)
           m == Number(y)
<1>1. /\ k \in 0..(NumChunks - 1) /\ x = k * ChunkSize
      /\ m \in 0..(NumChunks - 1) /\ y = m * ChunkSize
  BY NumbersOfChunks
<1> HIDE DEF k, m
<1>2. k * ChunkSize + a = m * ChunkSize + b BY <1>1
<1>3. k = m /\ a = b BY <1>1, <1>2, ChunksAreDisjoint
<1> QED BY <1>1, <1>3

(***************************************************************************)
(* Behind: how many chunks follow a message.                                *)
(***************************************************************************)
ChunksAfter(q, i) == {j \in DOMAIN q : i < j /\ IsChunk(q[j])}
Behind(q, i) == Cardinality(ChunksAfter(q, i))

LEMMA ChunksAreFinite ==
    ASSUME NEW q \in Seq(Messages), NEW i \in Nat
    PROVE  /\ IsFiniteSet(ChunksAfter(q, i)) /\ Behind(q, i) \in Nat
           /\ Behind(q, i) = 0 => \A j \in DOMAIN q : i < j => ~IsChunk(q[j])
<1>1. ChunksAfter(q, i) \in SUBSET (1..Len(q)) /\ Len(q) \in Nat
  BY LenProperties DEF ChunksAfter
<1>2. IsFiniteSet(1..Len(q)) BY <1>1, FS_Interval
<1>3. IsFiniteSet(ChunksAfter(q, i)) BY <1>1, <1>2, FS_Subset
<1>4. Behind(q, i) \in Nat /\ (Behind(q, i) = 0 => ChunksAfter(q, i) = {})
  BY <1>3, FS_CardinalityType, FS_EmptySet DEF Behind
<1> QED BY <1>3, <1>4 DEF ChunksAfter

LEMMA BehindEmpty == \A i \in Nat : Behind(<<>>, i) = 0
<1> TAKE i \in Nat
<1>1. ChunksAfter(<<>>, i) = {} BY DEF ChunksAfter
<1> QED BY <1>1, FS_EmptySet DEF Behind

LEMMA BehindAppended ==
    ASSUME NEW q \in Seq(Messages), NEW m \in Messages
    PROVE  /\ \A i \in 0..Len(q) :
                Behind(Append(q, m), i) = IF IsChunk(m) THEN Behind(q, i) + 1 ELSE Behind(q, i)
           /\ Behind(Append(q, m), Len(q) + 1) = 0
<1> DEFINE a == Append(q, m)
           n == Len(q)
<1>1. /\ n \in Nat /\ DOMAIN q = 1..n /\ DOMAIN a = 1..n + 1
      /\ \A i \in 1..n : a[i] = q[i]
      /\ a[n + 1] = m
  BY AppendIsTyped
<1> HIDE DEF a, n
<1>2. Behind(a, n + 1) = 0
  <2>1. ChunksAfter(a, n + 1) = {} BY <1>1 DEF ChunksAfter
  <2> QED BY <2>1, FS_EmptySet DEF Behind
<1>3. ASSUME NEW i \in 0..n
      PROVE  Behind(a, i) = IF IsChunk(m) THEN Behind(q, i) + 1 ELSE Behind(q, i)
  <2>1. CASE IsChunk(m)
    <3>1. ChunksAfter(a, i) = ChunksAfter(q, i) \cup {n + 1} /\ n + 1 \notin ChunksAfter(q, i)
      BY <1>1, <2>1 DEF ChunksAfter
    <3>2. IsFiniteSet(ChunksAfter(q, i)) BY <1>1, ChunksAreFinite
    <3> QED BY <2>1, <3>1, <3>2, FS_AddElement DEF Behind
  <2>2. CASE ~IsChunk(m)
    <3>1. ChunksAfter(a, i) = ChunksAfter(q, i) BY <1>1, <2>2 DEF ChunksAfter
    <3> QED BY <2>2, <3>1 DEF Behind
  <2> QED BY <2>1, <2>2
<1> QED BY <1>2, <1>3 DEF a, n

LEMMA BehindHandled ==
    ASSUME NEW q \in Seq(Messages), q # <<>>
    PROVE  /\ \A i \in 0..Len(q) - 1 : Behind(Tail(q), i) = Behind(q, i + 1)
           /\ Behind(q, 0) = IF IsChunk(Head(q)) THEN Behind(Tail(q), 0) + 1 ELSE Behind(Tail(q), 0)
<1> DEFINE a == Tail(q)
           n == Len(q)
<1>1. /\ n \in Nat /\ n >= 1 /\ DOMAIN q = 1..n /\ DOMAIN a = 1..n - 1
      /\ \A i \in 1..n - 1 : a[i] = q[i + 1]
      /\ Head(q) = q[1] /\ a \in Seq(Messages)
  BY TailIsTyped
<1> HIDE DEF a, n
<1>2. ASSUME NEW i \in 0..n - 1 PROVE Behind(a, i) = Behind(q, i + 1)
  <2> DEFINE S == ChunksAfter(a, i)
             T == ChunksAfter(q, i + 1)
             f == [j \in S |-> j + 1]
  <2>1. IsFiniteSet(S) BY <1>1, ChunksAreFinite
  <2>2. \A j \in S : j \in Nat /\ j + 1 \in T BY <1>1 DEF ChunksAfter
  <2>3. \A t \in T : t - 1 \in S /\ t = (t - 1) + 1 BY <1>1 DEF ChunksAfter
  <2> HIDE DEF S, T
  <2>4. f \in [S -> T] /\ \A j, k \in S : f[j] = f[k] => j = k BY <2>2
  <2>5. \A t \in T : \E j \in S : f[j] = t BY <2>3
  <2>6. f \in Bijection(S, T)
    BY <2>4, <2>5 DEF Bijection, Injection, Surjection, IsInjective
  <2>7. ExistsBijection(S, T) BY <2>6 DEF ExistsBijection
  <2>8. Cardinality(T) = Cardinality(S) BY <2>1, <2>7, FS_Bijection
  <2> QED BY <2>8 DEF S, T, Behind
<1>3. Behind(q, 0) = IF IsChunk(Head(q)) THEN Behind(a, 0) + 1 ELSE Behind(a, 0)
  <2>1. Behind(a, 0) = Behind(q, 1) /\ IsFiniteSet(ChunksAfter(q, 1))
    <3>1. 0 \in 0..n - 1 /\ 0 + 1 = 1 BY <1>1
    <3> QED BY <1>2, <3>1, ChunksAreFinite
  <2>2. CASE IsChunk(Head(q))
    <3>1. ChunksAfter(q, 0) = ChunksAfter(q, 1) \cup {1} /\ 1 \notin ChunksAfter(q, 1)
      BY <1>1, <2>2 DEF ChunksAfter
    <3> QED BY <2>1, <2>2, <3>1, FS_AddElement DEF Behind
  <2>3. CASE ~IsChunk(Head(q))
    <3>1. ChunksAfter(q, 0) = ChunksAfter(q, 1) BY <1>1, <2>3 DEF ChunksAfter
    <3> QED BY <2>1, <2>3, <3>1 DEF Behind
  <2> QED BY <2>2, <2>3
<1> QED BY <1>2, <1>3 DEF a, n

LEMMA BehindBounds ==
    ASSUME NEW q \in Seq(Messages), NEW i \in Nat, NEW j \in DOMAIN q, i < j, IsChunk(q[j])
    PROVE  Behind(q, j) < Behind(q, i)
<1>0. j \in Nat BY LenProperties
<1>1. /\ ChunksAfter(q, j) \cup {j} \in SUBSET ChunksAfter(q, i)
      /\ j \notin ChunksAfter(q, j)
  BY <1>0 DEF ChunksAfter
<1>2. /\ IsFiniteSet(ChunksAfter(q, i)) /\ IsFiniteSet(ChunksAfter(q, j))
      /\ Behind(q, i) \in Nat /\ Behind(q, j) \in Nat
  BY <1>0, ChunksAreFinite
<1>3. Cardinality(ChunksAfter(q, j) \cup {j}) = Behind(q, j) + 1
  BY <1>1, <1>2, FS_AddElement DEF Behind
<1>4. Cardinality(ChunksAfter(q, j) \cup {j}) <= Behind(q, i)
  BY <1>1, <1>2, FS_Subset DEF Behind
<1> QED BY <1>2, <1>3, <1>4

(***************************************************************************)
(* The chain of chunks: those of points B, then those announced in pp.      *)
(***************************************************************************)
Pointed(m) == m.kind \in {"chunk", "event-start", "event-update", "event-end"}
IsBoundary(m) == m.kind \in {"event-start", "event-end"}
NoChunk(pp, i) == \A j \in DOMAIN pp : j < i => ~IsChunk(pp[j])
LastChunk(pp, j, i) ==
    /\ j \in DOMAIN pp /\ IsChunk(pp[j]) /\ j < i
    /\ \A l \in DOMAIN pp : j < l /\ l < i => ~IsChunk(pp[l])
(* p is in the last chunk that is announced before message i.               *)
InLast(B, pp, i, p) ==
    /\ \A j \in DOMAIN pp : LastChunk(pp, j, i) => InChunk(pp[j].point, p)
    /\ NoChunk(pp, i) => B # <<>> /\ InChunk(Last(B), p)
Chunks(B, pp) == {q \in Points : \/ \E i \in DOMAIN B : q = B[i]
                                 \/ \E i \in DOMAIN pp : IsChunk(pp[i]) /\ q = pp[i].point}

(* Stored: file f has unit t of p's session in chunk q.  Held: all units    *)
(* from p up to time b are in chunks of S.                                  *)
Stored(f, q, p, t) ==
    /\ q.t <= t /\ t < q.t + ChunkSize
    /\ Place(p, t) = q.pos + (t - q.t) /\ f[Place(p, t)] = t
Held(f, S, p, b) == \A t \in Nat : p.t <= t /\ t < b => \E q \in S : Stored(f, q, p, t)

Sound(B, n) ==
    /\ Len(B) <= MaxChunks
    /\ \A i \in DOMAIN B : Aligned(B[i].pos) /\ B[i].t <= n
    /\ \A i, j \in DOMAIN B : i < j => B[i].t + ChunkSize <= B[j].t
Ordered(pp, n) ==
    /\ \A i \in DOMAIN pp : Pointed(pp[i]) => pp[i].point.t <= n
    /\ \A i \in DOMAIN pp : IsChunk(pp[i]) => Aligned(pp[i].point.pos)
    /\ \A i, j \in DOMAIN pp : i < j /\ Pointed(pp[i]) /\ Pointed(pp[j]) =>
          /\ pp[i].point.t <= pp[j].point.t
          /\ pp[j].point.pos = Place(pp[i].point, pp[j].point.t)
          /\ IsChunk(pp[i]) /\ IsChunk(pp[j]) => pp[i].point.t + ChunkSize <= pp[j].point.t
Sent(pp, p) ==
    \A i \in DOMAIN pp : Pointed(pp[i]) => p.pos = Place(pp[i].point, p.t)
Updates(pp) ==
    \A i \in DOMAIN pp : pp[i].kind = "event-update" =>
       i + 1 \in DOMAIN pp /\ IsChunk(pp[i + 1]) /\ pp[i + 1].point = pp[i].point
Within(B, pp) ==
    \A i \in DOMAIN pp : IsBoundary(pp[i]) => InLast(B, pp, i, pp[i].point)
Beyond(B, pp) ==
    \A i \in DOMAIN B, j \in DOMAIN pp : IsChunk(pp[j]) => B[i].t + ChunkSize <= pp[j].point.t
RingFrom(B, pp, k) ==
    /\ \A i \in DOMAIN B :
          Number(B[i].pos) + (Len(B) - i) + Behind(pp, 0) - k \in {0, NumChunks}
    /\ \A i \in DOMAIN pp : IsChunk(pp[i]) =>
          Number(pp[i].point.pos) + Behind(pp, i) - k \in {0, NumChunks}
Ring(B, pp) == \E k \in 0..(NumChunks - 1) : RingFrom(B, pp, k)
Units(f, B, pp, n) ==
    \A i \in DOMAIN pp : Pointed(pp[i]) => Held(f, Chunks(B, pp), pp[i].point, n)
Lag(pp, c) ==
    /\ Behind(pp, 0) <= MaxLag + 1
    /\ c.on /\ c.pos % ChunkSize # 0 => Behind(pp, 0) <= MaxLag
Writes(B, pp, c, n) ==
    c.on => Sent(pp, Point(n, c.pos)) /\ InLast(B, pp, Len(pp) + 1, Point(n, c.pos))
Chain(B, pp, c, n, f) ==
    /\ Sound(B, n) /\ Ordered(pp, n) /\ Updates(pp) /\ Within(B, pp) /\ Beyond(B, pp)
    /\ Ring(B, pp) /\ Units(f, B, pp, n) /\ Lag(pp, c) /\ Writes(B, pp, c, n)

LEMMA ChunksOf ==
    ASSUME NEW B \in Seq(Points), NEW pp \in Seq(Messages)
    PROVE  /\ Chunks(B, pp) \subseteq Points
           /\ \A i \in DOMAIN B : B[i] \in Chunks(B, pp)
           /\ \A i \in DOMAIN pp : IsChunk(pp[i]) => pp[i].point \in Chunks(B, pp)
           /\ \A q \in Chunks(B, pp) : \/ \E i \in DOMAIN B : q = B[i]
                                       \/ \E i \in DOMAIN pp : IsChunk(pp[i]) /\ q = pp[i].point
<1>1. \A i \in DOMAIN B : B[i] \in Points BY ElementOfSeq, LenProperties
<1>2. \A i \in DOMAIN pp : pp[i].point \in Points
  <2> TAKE i \in DOMAIN pp
  <2>1. pp[i] \in Messages BY ElementOfSeq, LenProperties
  <2> QED BY <2>1 DEF Messages
<1> QED BY <1>1, <1>2 DEF Chunks

LEMMA HeldLess ==
    ASSUME NEW f, NEW S, NEW T, S \subseteq T, NEW p, NEW b \in Nat, NEW a \in Nat, a <= b,
           Held(f, S, p, b)
    PROVE  Held(f, T, p, a)
<1> SUFFICES ASSUME NEW t \in Nat, p.t <= t, t < a PROVE \E q \in T : Stored(f, q, p, t)
  BY DEF Held
<1>1. t < b OBVIOUS
<1> QED BY <1>1 DEF Held

(* A message of a kind that is no chunk makes no difference to the chunks.  *)
LEMMA LastOfAppended ==
    ASSUME NEW B \in Seq(Points), NEW pp \in Seq(Messages), NEW m \in Messages,
           NEW i \in 1..(Len(pp) + 1), NEW p
    PROVE  InLast(B, pp, i, p) => InLast(B, Append(pp, m), i, p)
<1>1. /\ Len(pp) \in Nat /\ DOMAIN pp = 1..Len(pp) /\ DOMAIN Append(pp, m) = 1..Len(pp) + 1
      /\ \A j \in 1..Len(pp) : Append(pp, m)[j] = pp[j]
  BY AppendIsTyped
<1> SUFFICES ASSUME InLast(B, pp, i, p) PROVE InLast(B, Append(pp, m), i, p)
  OBVIOUS
<1>2. ASSUME NEW j \in DOMAIN Append(pp, m), LastChunk(Append(pp, m), j, i)
      PROVE  InChunk(Append(pp, m)[j].point, p)
  <2>1. j \in 1..Len(pp) /\ j < i BY <1>1, <1>2 DEF LastChunk
  <2>2. Append(pp, m)[j] = pp[j] /\ IsChunk(pp[j])
    BY <1>1, <1>2, <2>1 DEF LastChunk
  <2>3. ASSUME NEW l \in DOMAIN pp, j < l, l < i PROVE ~IsChunk(pp[l])
    <3>1. l \in DOMAIN Append(pp, m) /\ Append(pp, m)[l] = pp[l] BY <1>1
    <3> QED BY <1>2, <2>3, <3>1 DEF LastChunk
  <2>4. LastChunk(pp, j, i) BY <1>1, <2>1, <2>2, <2>3 DEF LastChunk
  <2> QED BY <1>1, <2>1, <2>2, <2>4 DEF InLast
<1>3. ASSUME NoChunk(Append(pp, m), i) PROVE NoChunk(pp, i)
  <2> SUFFICES ASSUME NEW j \in DOMAIN pp, j < i PROVE ~IsChunk(pp[j])
    BY DEF NoChunk
  <2>1. j \in DOMAIN Append(pp, m) /\ Append(pp, m)[j] = pp[j] BY <1>1
  <2> QED BY <1>3, <2>1 DEF NoChunk
<1> QED BY <1>2, <1>3 DEF InLast

LEMMA PlainLast ==
    ASSUME NEW B \in Seq(Points), NEW pp \in Seq(Messages), NEW m \in Messages, ~IsChunk(m), NEW p
    PROVE  InLast(B, pp, Len(pp) + 1, p) => InLast(B, Append(pp, m), Len(pp) + 2, p)
<1> DEFINE n == Len(pp)
           a == Append(pp, m)
<1>1. /\ n \in Nat /\ DOMAIN pp = 1..n /\ DOMAIN a = 1..n + 1
      /\ (\A j \in 1..n : a[j] = pp[j]) /\ a[n + 1] = m
  BY AppendIsTyped
<1> HIDE DEF a, n
<1> SUFFICES ASSUME InLast(B, pp, n + 1, p) PROVE InLast(B, a, n + 2, p)
  BY DEF a, n
<1>2. ASSUME NEW j \in DOMAIN a, LastChunk(a, j, n + 2) PROVE InChunk(a[j].point, p)
  <2>1. j \in 1..n /\ a[j] = pp[j] /\ IsChunk(pp[j])
    BY <1>1, <1>2 DEF LastChunk
  <2>2. ASSUME NEW l \in DOMAIN pp, j < l, l < n + 1 PROVE ~IsChunk(pp[l])
    <3>1. l \in DOMAIN a /\ a[l] = pp[l] /\ l < n + 2 BY <1>1
    <3> QED BY <1>2, <2>2, <3>1 DEF LastChunk
  <2>3. LastChunk(pp, j, n + 1) BY <1>1, <2>1, <2>2 DEF LastChunk
  <2> QED BY <1>1, <2>1, <2>3 DEF InLast
<1>3. ASSUME NoChunk(a, n + 2) PROVE NoChunk(pp, n + 1)
  <2> SUFFICES ASSUME NEW j \in DOMAIN pp, j < n + 1 PROVE ~IsChunk(pp[j])
    BY DEF NoChunk
  <2>1. j \in DOMAIN a /\ a[j] = pp[j] /\ j < n + 2 BY <1>1
  <2> QED BY <1>3, <2>1 DEF NoChunk
<1> QED BY <1>2, <1>3 DEF InLast

LEMMA ChunkLast ==
    ASSUME NEW B \in Seq(Points), NEW pp \in Seq(Messages), NEW m \in Messages, IsChunk(m), NEW p,
           InChunk(m.point, p)
    PROVE  InLast(B, Append(pp, m), Len(pp) + 2, p)
<1> DEFINE n == Len(pp)
           a == Append(pp, m)
<1>1. /\ n \in Nat /\ DOMAIN pp = 1..n /\ DOMAIN a = 1..n + 1
      /\ (\A j \in 1..n : a[j] = pp[j]) /\ a[n + 1] = m
  BY AppendIsTyped
<1> HIDE DEF a, n
<1>2. ASSUME NEW j \in DOMAIN a, LastChunk(a, j, n + 2) PROVE j = n + 1
  <2>1. CASE j # n + 1
    <3>1. n + 1 \in DOMAIN a /\ j < n + 1 /\ n + 1 < n + 2 BY <1>1, <2>1
    <3> QED BY <1>1, <1>2, <3>1 DEF LastChunk
  <2> QED BY <2>1
<1>3. ~NoChunk(a, n + 2)
  <2>1. n + 1 \in DOMAIN a /\ n + 1 < n + 2 BY <1>1
  <2> QED BY <1>1, <2>1 DEF NoChunk
<1>4. InLast(B, a, n + 2, p) BY <1>1, <1>2, <1>3 DEF InLast
<1> QED BY <1>4 DEF a, n

(***************************************************************************)
(* A message is sent.                                                       *)
(***************************************************************************)
LEMMA ChunksAppended ==
    ASSUME NEW B \in Seq(Points), NEW pp \in Seq(Messages), NEW m \in Messages
    PROVE  /\ Chunks(B, pp) \subseteq Chunks(B, Append(pp, m))
           /\ IsChunk(m) => m.point \in Chunks(B, Append(pp, m))
<1>1. /\ Len(pp) \in Nat /\ DOMAIN pp = 1..Len(pp) /\ DOMAIN Append(pp, m) = 1..Len(pp) + 1
      /\ \A j \in 1..Len(pp) : Append(pp, m)[j] = pp[j]
      /\ Append(pp, m)[Len(pp) + 1] = m /\ Append(pp, m) \in Seq(Messages)
  BY AppendIsTyped
<1>2. ASSUME NEW q \in Chunks(B, pp) PROVE q \in Chunks(B, Append(pp, m))
  <2>1. CASE \E i \in DOMAIN B : q = B[i] BY <1>1, <2>1, ChunksOf
  <2>2. CASE \E i \in DOMAIN pp : IsChunk(pp[i]) /\ q = pp[i].point
    <3>1. PICK i \in DOMAIN pp : IsChunk(pp[i]) /\ q = pp[i].point BY <2>2
    <3>2. i \in DOMAIN Append(pp, m) /\ Append(pp, m)[i] = pp[i] BY <1>1
    <3> QED BY <1>1, <3>1, <3>2, ChunksOf
  <2> QED BY <2>1, <2>2, ChunksOf
<1>3. ASSUME IsChunk(m) PROVE m.point \in Chunks(B, Append(pp, m))
  <2>1. Len(pp) + 1 \in DOMAIN Append(pp, m) BY <1>1
  <2> QED BY <1>1, <1>3, <2>1, ChunksOf
<1> QED BY <1>2, <1>3

LEMMA OrderAppended ==
    ASSUME NEW pp \in Seq(Messages), NEW m \in Messages, NEW n, Ordered(pp, n), m.point.t <= n,
           Pointed(m) => Sent(pp, m.point),
           Pointed(m) => \A i \in DOMAIN pp : Pointed(pp[i]) => pp[i].point.t <= m.point.t,
           IsChunk(m) => /\ Aligned(m.point.pos)
                         /\ \A i \in DOMAIN pp : IsChunk(pp[i]) =>
                               pp[i].point.t + ChunkSize <= m.point.t
    PROVE  Ordered(Append(pp, m), n)
<1> DEFINE l == Len(pp)
           a == Append(pp, m)
<1>1. /\ l \in Nat /\ DOMAIN pp = 1..l /\ DOMAIN a = 1..l + 1
      /\ (\A j \in 1..l : a[j] = pp[j]) /\ a[l + 1] = m
  BY AppendIsTyped
<1> HIDE DEF a, l
<1>2. ASSUME NEW i \in DOMAIN a
      PROVE  /\ Pointed(a[i]) => a[i].point.t <= n
             /\ IsChunk(a[i]) => Aligned(a[i].point.pos)
  <2>1. CASE i = l + 1 BY <1>1, <2>1
  <2>2. CASE i # l + 1
    <3>1. i \in DOMAIN pp /\ a[i] = pp[i] BY <1>1, <2>2
    <3> QED BY <3>1 DEF Ordered
  <2> QED BY <2>1, <2>2
<1>3. ASSUME NEW i \in DOMAIN a, NEW j \in DOMAIN a, i < j, Pointed(a[i]), Pointed(a[j])
      PROVE  /\ a[i].point.t <= a[j].point.t
             /\ a[j].point.pos = Place(a[i].point, a[j].point.t)
             /\ IsChunk(a[i]) /\ IsChunk(a[j]) => a[i].point.t + ChunkSize <= a[j].point.t
  <2>1. i \in DOMAIN pp /\ a[i] = pp[i] BY <1>1, <1>3
  <2>2. CASE j = l + 1
    <3>1. a[j] = m /\ Pointed(m) BY <1>1, <1>3, <2>2
    <3>2. m.point.pos = Place(pp[i].point, m.point.t)
      BY <1>3, <2>1, <3>1 DEF Sent
    <3> QED BY <1>3, <2>1, <3>1, <3>2
  <2>3. CASE j # l + 1
    <3>1. j \in DOMAIN pp /\ a[j] = pp[j] BY <1>1, <2>3
    <3> QED BY <1>3, <2>1, <3>1 DEF Ordered
  <2> QED BY <2>2, <2>3
<1>4. Ordered(a, n) BY <1>2, <1>3 DEF Ordered
<1> QED BY <1>4 DEF a

LEMMA LineAppended ==
    ASSUME NEW pp \in Seq(Messages), NEW m \in Messages, NEW p \in Points, Sent(pp, p),
           Pointed(m) => p.pos = Place(m.point, p.t)
    PROVE  Sent(Append(pp, m), p)
<1>1. /\ Len(pp) \in Nat /\ DOMAIN pp = 1..Len(pp) /\ DOMAIN Append(pp, m) = 1..Len(pp) + 1
      /\ \A j \in 1..Len(pp) : Append(pp, m)[j] = pp[j]
      /\ Append(pp, m)[Len(pp) + 1] = m
  BY AppendIsTyped
<1> SUFFICES ASSUME NEW i \in DOMAIN Append(pp, m), Pointed(Append(pp, m)[i])
             PROVE  p.pos = Place(Append(pp, m)[i].point, p.t)
  BY DEF Sent
<1>2. CASE i = Len(pp) + 1 BY <1>1, <1>2
<1>3. CASE i # Len(pp) + 1
  <2>1. i \in DOMAIN pp /\ Append(pp, m)[i] = pp[i] BY <1>1, <1>3
  <2> QED BY <2>1 DEF Sent
<1> QED BY <1>2, <1>3

LEMMA UpdatesAppended ==
    ASSUME NEW pp \in Seq(Messages), NEW m \in Messages, Updates(pp)
    PROVE  /\ m.kind # "event-update" => Updates(Append(pp, m))
           /\ \A k \in Messages : m.kind = "event-update" /\ IsChunk(k) /\ k.point = m.point =>
                 Updates(Append(Append(pp, m), k))
<1> DEFINE n == Len(pp)
           a == Append(pp, m)
<1>1. /\ n \in Nat /\ DOMAIN pp = 1..n /\ DOMAIN a = 1..n + 1 /\ Len(a) = n + 1
      /\ (\A j \in 1..n : a[j] = pp[j]) /\ a[n + 1] = m /\ a \in Seq(Messages)
  BY AppendIsTyped
<1> HIDE DEF a, n
<1>2. ASSUME NEW i \in DOMAIN pp, pp[i].kind = "event-update"
      PROVE  /\ i + 1 \in DOMAIN pp /\ i + 1 \in DOMAIN a /\ a[i + 1] = pp[i + 1]
             /\ IsChunk(pp[i + 1]) /\ pp[i + 1].point = pp[i].point
  BY <1>1, <1>2 DEF Updates
<1>3. ASSUME m.kind # "event-update" PROVE Updates(a)
  <2> SUFFICES ASSUME NEW i \in DOMAIN a, a[i].kind = "event-update"
               PROVE  i + 1 \in DOMAIN a /\ IsChunk(a[i + 1]) /\ a[i + 1].point = a[i].point
    BY DEF Updates
  <2>1. i \in DOMAIN pp /\ a[i] = pp[i] BY <1>1, <1>3
  <2> QED BY <1>2, <2>1
<1>4. ASSUME NEW k \in Messages, m.kind = "event-update", IsChunk(k), k.point = m.point
      PROVE  Updates(Append(a, k))
  <2> DEFINE b == Append(a, k)
  <2>1. /\ DOMAIN b = 1..n + 2 /\ (\A j \in 1..n + 1 : b[j] = a[j]) /\ b[n + 2] = k
    BY <1>1, AppendIsTyped
  <2> HIDE DEF b
  <2> SUFFICES ASSUME NEW i \in DOMAIN b, b[i].kind = "event-update"
               PROVE  i + 1 \in DOMAIN b /\ IsChunk(b[i + 1]) /\ b[i + 1].point = b[i].point
    BY DEF Updates, b
  <2>2. CASE i = n + 2 BY <1>4, <2>1, <2>2 DEF IsChunk
  <2>3. CASE i = n + 1
    <3>1. b[i] = m /\ i + 1 = n + 2 /\ b[i + 1] = k /\ i + 1 \in DOMAIN b
      BY <1>1, <2>1, <2>3
    <3> QED BY <1>4, <3>1
  <2>4. CASE i # n + 1 /\ i # n + 2
    <3>1. i \in DOMAIN pp /\ b[i] = pp[i] BY <1>1, <2>1, <2>4
    <3>2. i + 1 \in DOMAIN pp /\ IsChunk(pp[i + 1]) /\ pp[i + 1].point = pp[i].point
      BY <1>2, <3>1
    <3>3. i + 1 \in DOMAIN b /\ b[i + 1] = pp[i + 1] BY <1>1, <2>1, <3>2
    <3> QED BY <3>1, <3>2, <3>3
  <2> QED BY <2>2, <2>3, <2>4
<1> QED BY <1>3, <1>4 DEF a

LEMMA WithinAppended ==
    ASSUME NEW B \in Seq(Points), NEW pp \in Seq(Messages), NEW m \in Messages, Within(B, pp),
           IsBoundary(m) => InLast(B, pp, Len(pp) + 1, m.point)
    PROVE  Within(B, Append(pp, m))
<1>1. /\ Len(pp) \in Nat /\ DOMAIN pp = 1..Len(pp) /\ DOMAIN Append(pp, m) = 1..Len(pp) + 1
      /\ \A j \in 1..Len(pp) : Append(pp, m)[j] = pp[j]
      /\ Append(pp, m)[Len(pp) + 1] = m
  BY AppendIsTyped
<1> SUFFICES ASSUME NEW i \in DOMAIN Append(pp, m), IsBoundary(Append(pp, m)[i])
             PROVE  InLast(B, Append(pp, m), i, Append(pp, m)[i].point)
  BY DEF Within
<1>2. i \in 1..(Len(pp) + 1) BY <1>1
<1>3. InLast(B, pp, i, Append(pp, m)[i].point)
  <2>1. CASE i = Len(pp) + 1 BY <1>1, <2>1
  <2>2. CASE i # Len(pp) + 1
    <3>1. i \in DOMAIN pp /\ Append(pp, m)[i] = pp[i] BY <1>1, <2>2
    <3> QED BY <3>1 DEF Within
  <2> QED BY <2>1, <2>2
<1> QED BY <1>2, <1>3, LastOfAppended

LEMMA BeyondAppended ==
    ASSUME NEW B, NEW pp \in Seq(Messages), NEW m \in Messages, Beyond(B, pp),
           IsChunk(m) => \A i \in DOMAIN B : B[i].t + ChunkSize <= m.point.t
    PROVE  Beyond(B, Append(pp, m))
<1>1. /\ Len(pp) \in Nat /\ DOMAIN pp = 1..Len(pp) /\ DOMAIN Append(pp, m) = 1..Len(pp) + 1
      /\ \A j \in 1..Len(pp) : Append(pp, m)[j] = pp[j]
      /\ Append(pp, m)[Len(pp) + 1] = m
  BY AppendIsTyped
<1> SUFFICES ASSUME NEW i \in DOMAIN B, NEW j \in DOMAIN Append(pp, m), IsChunk(Append(pp, m)[j])
             PROVE  B[i].t + ChunkSize <= Append(pp, m)[j].point.t
  BY DEF Beyond
<1>2. CASE j = Len(pp) + 1 BY <1>1, <1>2
<1>3. CASE j # Len(pp) + 1
  <2>1. j \in DOMAIN pp /\ Append(pp, m)[j] = pp[j] BY <1>1, <1>3
  <2> QED BY <2>1 DEF Beyond
<1> QED BY <1>2, <1>3

LEMMA UnitsAppended ==
    ASSUME NEW f, NEW B \in Seq(Points), NEW pp \in Seq(Messages), NEW m \in Messages, NEW n \in Nat,
           Units(f, B, pp, n), Pointed(m) => Held(f, Chunks(B, Append(pp, m)), m.point, n)
    PROVE  Units(f, B, Append(pp, m), n)
<1>1. /\ Len(pp) \in Nat /\ DOMAIN pp = 1..Len(pp) /\ DOMAIN Append(pp, m) = 1..Len(pp) + 1
      /\ \A j \in 1..Len(pp) : Append(pp, m)[j] = pp[j]
      /\ Append(pp, m)[Len(pp) + 1] = m
  BY AppendIsTyped
<1> SUFFICES ASSUME NEW i \in DOMAIN Append(pp, m), Pointed(Append(pp, m)[i])
             PROVE  Held(f, Chunks(B, Append(pp, m)), Append(pp, m)[i].point, n)
  BY DEF Units
<1>2. CASE i = Len(pp) + 1 BY <1>1, <1>2
<1>3. CASE i # Len(pp) + 1
  <2>1. i \in DOMAIN pp /\ Append(pp, m)[i] = pp[i] BY <1>1, <1>3
  <2>2. Held(f, Chunks(B, pp), pp[i].point, n) BY <2>1 DEF Units
  <2> QED BY <2>1, <2>2, ChunksAppended, HeldLess
<1> QED BY <1>2, <1>3

LEMMA NextTurn ==
    ASSUME NEW n \in Nat, n > 2, NEW x \in 0..(n - 1), NEW k \in 0..(n - 1), NEW d \in Nat, d < n,
           x + d - k \in {0, n}
    PROVE  x + (d + 1) - (IF k + 1 = n THEN 0 ELSE k + 1) \in {0, n}
<1>1. CASE k + 1 = n
  <2>1. x + d - k # n BY <1>1
  <2>2. x + d = k BY <2>1
  <2>3. x + (d + 1) - 0 = n BY <1>1, <2>2
  <2> QED BY <1>1, <2>3
<1>2. CASE k + 1 # n
  <2>1. x + (d + 1) - (k + 1) = x + d - k OBVIOUS
  <2> QED BY <1>2, <2>1
<1> QED BY <1>1, <1>2

LEMMA RingAppended ==
    ASSUME NEW B \in Seq(Points), NEW pp \in Seq(Messages), NEW m \in Messages,
           NEW k \in 0..(NumChunks - 1), RingFrom(B, pp, k),
           Len(B) <= MaxChunks, \A i \in DOMAIN B : Aligned(B[i].pos),
           \A i \in DOMAIN pp : IsChunk(pp[i]) => Aligned(pp[i].point.pos)
    PROVE  /\ ~IsChunk(m) => RingFrom(B, Append(pp, m), k)
           /\ IsChunk(m) /\ Behind(pp, 0) <= MaxLag /\ Number(m.point.pos) = NextNumber(k) =>
                RingFrom(B, Append(pp, m), NextNumber(k))
<1> DEFINE l == Len(pp)
           a == Append(pp, m)
           e == IF IsChunk(m) THEN 1 ELSE 0
           n == IF IsChunk(m) THEN NextNumber(k) ELSE k
<1>1. /\ l \in Nat /\ DOMAIN pp = 1..l /\ DOMAIN a = 1..l + 1
      /\ (\A j \in 1..l : a[j] = pp[j]) /\ a[l + 1] = m
  BY AppendIsTyped
<1>2. /\ \A i \in 0..l : Behind(a, i) = Behind(pp, i) + e /\ Behind(pp, i) \in Nat
      /\ Behind(a, l + 1) = 0
  <2>1. \A i \in 0..l : Behind(pp, i) \in Nat BY <1>1, ChunksAreFinite
  <2> QED BY <1>1, <2>1, BehindAppended
<1> SUFFICES ASSUME IsChunk(m) => Behind(pp, 0) <= MaxLag /\ Number(m.point.pos) = NextNumber(k)
             PROVE  RingFrom(B, a, n)
  OBVIOUS
<1>3. /\ NumChunks \in Nat /\ NumChunks > 2 /\ MaxChunks \in Nat /\ MaxLag \in Nat
      /\ MaxChunks + MaxLag <= NumChunks /\ MaxLag < NumChunks
  BY ConfigAssumption, LagAssumption DEF MaxChunks
<1>4. Len(B) \in Nat /\ DOMAIN B = 1..Len(B) BY LenProperties
<1> HIDE DEF a, l
<1>5. ASSUME NEW x \in 0..(NumChunks - 1), NEW d \in Nat, x + d - k \in {0, NumChunks},
             IsChunk(m) => d < NumChunks
      PROVE  x + (d + e) - n \in {0, NumChunks}
  <2>1. CASE IsChunk(m)
    <3>1. e = 1 /\ n = NextNumber(k) /\ d < NumChunks BY <1>5, <2>1
    <3>2. n = IF k + 1 = NumChunks THEN 0 ELSE k + 1 BY <3>1 DEF NextNumber
    <3> HIDE DEF e, n
    <3>3. x + (d + 1) - (IF k + 1 = NumChunks THEN 0 ELSE k + 1) \in {0, NumChunks}
      BY <1>3, <1>5, <3>1, NextTurn
    <3> QED BY <3>1, <3>2, <3>3
  <2>2. CASE ~IsChunk(m) BY <1>5, <2>2
  <2> QED BY <2>1, <2>2
<1>6. ASSUME NEW i \in DOMAIN B
      PROVE  Number(B[i].pos) + (Len(B) - i) + Behind(a, 0) - n \in {0, NumChunks}
  <2> DEFINE x == Number(B[i].pos)
             d == (Len(B) - i) + Behind(pp, 0)
  <2>1. x \in 0..(NumChunks - 1) BY NumbersOfChunks
  <2>2. 0 \in 0..l BY <1>1
  <2>3. d \in Nat /\ x + d - k \in {0, NumChunks} /\ (IsChunk(m) => d < NumChunks)
    <3>1. Behind(pp, 0) \in Nat /\ Len(B) - i \in Nat /\ Len(B) - i < Len(B)
      BY <1>2, <1>4, <2>2
    <3>2. Number(B[i].pos) + (Len(B) - i) + Behind(pp, 0) - k \in {0, NumChunks}
      BY DEF RingFrom
    <3>3. IsChunk(m) => d < NumChunks BY <1>3, <1>4, <3>1
    <3>4. d \in Nat BY <3>1
    <3>5. x + (Len(B) - i) + Behind(pp, 0) - k = x + d - k
      <4> HIDE DEF x
      <4> QED BY <1>4, <2>1, <3>1
    <3> QED BY <3>2, <3>3, <3>4, <3>5
  <2>4. Behind(a, 0) = Behind(pp, 0) + e /\ Behind(pp, 0) \in Nat
    BY <1>2, <2>2
  <2>5. x + (Len(B) - i) + Behind(a, 0) - n = x + (d + e) - n
    <3>1. e \in Int /\ n \in Int BY DEF NextNumber
    <3> HIDE DEF e, n
    <3> QED BY <1>4, <2>1, <2>4, <3>1
  <2> HIDE DEF d, x, e, n
  <2>6. x + (d + e) - n \in {0, NumChunks} BY <1>5, <2>1, <2>3 DEF e, n
  <2> QED BY <2>5, <2>6 DEF x
<1>7. ASSUME NEW i \in DOMAIN a, IsChunk(a[i])
      PROVE  Number(a[i].point.pos) + Behind(a, i) - n \in {0, NumChunks}
  <2>1. CASE i = l + 1
    <3>1. a[i] = m /\ IsChunk(m) /\ Behind(a, i) = 0 /\ n = Number(m.point.pos)
      BY <1>1, <1>2, <1>7, <2>1
    <3>2. n \in Int BY <3>1 DEF NextNumber
    <3> HIDE DEF n
    <3> QED BY <3>1, <3>2
  <2>2. CASE i # l + 1
    <3> DEFINE x == Number(pp[i].point.pos)
               d == Behind(pp, i)
    <3>1. i \in DOMAIN pp /\ a[i] = pp[i] /\ i \in 0..l /\ i \in Nat /\ 0 < i /\ 0 \in 0..l
      BY <1>1, <2>2
    <3>2. x \in 0..(NumChunks - 1) /\ d \in Nat /\ x + d - k \in {0, NumChunks}
      BY <1>2, <1>7, <3>1, NumbersOfChunks DEF RingFrom
    <3>3. d < Behind(pp, 0) /\ Behind(pp, 0) \in Nat
      BY <1>2, <1>7, <3>1, BehindBounds
    <3>4. IsChunk(m) => d < NumChunks BY <1>3, <3>2, <3>3
    <3>5. Behind(a, i) = d + e BY <1>2, <3>1
    <3> HIDE DEF x, d, e, n
    <3>6. x + (d + e) - n \in {0, NumChunks} BY <1>5, <3>2, <3>4 DEF e, n
    <3> QED BY <3>1, <3>5, <3>6 DEF x
  <2> QED BY <2>1, <2>2
<1> QED BY <1>6, <1>7 DEF RingFrom

(***************************************************************************)
(* A message is handled.                                                    *)
(***************************************************************************)
LEMMA OrderHandled ==
    ASSUME NEW pp \in Seq(Messages), pp # <<>>, NEW n
    PROVE  /\ Ordered(pp, n) => Ordered(Tail(pp), n)
           /\ Updates(pp) => Updates(Tail(pp))
           /\ \A p : Sent(pp, p) => Sent(Tail(pp), p)
<1> DEFINE a == Tail(pp)
           l == Len(pp)
<1>1. /\ l \in Nat /\ l >= 1 /\ DOMAIN pp = 1..l /\ DOMAIN a = 1..l - 1
      /\ \A i \in 1..l - 1 : a[i] = pp[i + 1]
  BY TailIsTyped
<1> HIDE DEF a, l
<1>2. \A i \in DOMAIN a : i \in Nat /\ i + 1 \in DOMAIN pp /\ a[i] = pp[i + 1]
  BY <1>1
<1>3. ASSUME Ordered(pp, n) PROVE Ordered(a, n)
  <2>1. ASSUME NEW i \in DOMAIN a
        PROVE  /\ Pointed(a[i]) => a[i].point.t <= n
               /\ IsChunk(a[i]) => Aligned(a[i].point.pos)
    BY <1>2, <1>3 DEF Ordered
  <2>2. ASSUME NEW i \in DOMAIN a, NEW j \in DOMAIN a, i < j, Pointed(a[i]), Pointed(a[j])
        PROVE  /\ a[i].point.t <= a[j].point.t
               /\ a[j].point.pos = Place(a[i].point, a[j].point.t)
               /\ IsChunk(a[i]) /\ IsChunk(a[j]) => a[i].point.t + ChunkSize <= a[j].point.t
    <3>1. i + 1 \in DOMAIN pp /\ j + 1 \in DOMAIN pp /\ i + 1 < j + 1
      BY <1>2, <2>2
    <3>2. a[i] = pp[i + 1] /\ a[j] = pp[j + 1] BY <1>2
    <3> QED BY <1>3, <2>2, <3>1, <3>2 DEF Ordered
  <2> QED BY <2>1, <2>2 DEF Ordered
<1>4. ASSUME Updates(pp) PROVE Updates(a)
  <2> SUFFICES ASSUME NEW i \in DOMAIN a, a[i].kind = "event-update"
               PROVE  i + 1 \in DOMAIN a /\ IsChunk(a[i + 1]) /\ a[i + 1].point = a[i].point
    BY DEF Updates
  <2>1. (i + 1) + 1 \in DOMAIN pp /\ IsChunk(pp[(i + 1) + 1]) /\ pp[(i + 1) + 1].point = pp[i + 1].point
    BY <1>2, <1>4 DEF Updates
  <2>2. i + 1 \in DOMAIN a /\ a[i + 1] = pp[(i + 1) + 1] BY <1>1, <1>2, <2>1
  <2> QED BY <1>2, <2>1, <2>2
<1>5. ASSUME NEW p, Sent(pp, p) PROVE Sent(a, p) BY <1>2, <1>5 DEF Sent
<1> QED BY <1>3, <1>4, <1>5 DEF a

LEMMA LastHandled ==
    ASSUME NEW B, NEW pp \in Seq(Messages), pp # <<>>, NEW C,
           ~IsChunk(Head(pp)) => C = B,
           IsChunk(Head(pp)) => C # <<>> /\ Last(C) = Head(pp).point,
           NEW i \in 1..Len(pp), NEW p, InLast(B, pp, i + 1, p)
    PROVE  InLast(C, Tail(pp), i, p)
<1> DEFINE a == Tail(pp)
           l == Len(pp)
<1>1. /\ l \in Nat /\ l >= 1 /\ DOMAIN pp = 1..l /\ DOMAIN a = 1..l - 1
      /\ \A j \in 1..l - 1 : a[j] = pp[j + 1]
      /\ Head(pp) = pp[1]
  BY TailIsTyped
<1> HIDE DEF a, l
<1>2. ASSUME NEW j \in DOMAIN a, LastChunk(a, j, i) PROVE InChunk(a[j].point, p)
  <2>1. j + 1 \in DOMAIN pp /\ a[j] = pp[j + 1] /\ j + 1 < i + 1 /\ IsChunk(pp[j + 1])
    BY <1>1, <1>2 DEF LastChunk, l
  <2>2. ASSUME NEW k \in DOMAIN pp, j + 1 < k, k < i + 1 PROVE ~IsChunk(pp[k])
    <3>1. k - 1 \in DOMAIN a /\ a[k - 1] = pp[k] /\ j < k - 1 /\ k - 1 < i
      BY <1>1, <2>2
    <3> QED BY <1>2, <3>1 DEF LastChunk
  <2>3. LastChunk(pp, j + 1, i + 1) BY <2>1, <2>2 DEF LastChunk
  <2> QED BY <2>1, <2>3 DEF InLast
<1>3. ASSUME NoChunk(a, i) PROVE C # <<>> /\ InChunk(Last(C), p)
  <2>1. ASSUME NEW k \in DOMAIN pp, k < i + 1, k # 1 PROVE ~IsChunk(pp[k])
    <3>1. k - 1 \in DOMAIN a /\ a[k - 1] = pp[k] /\ k - 1 < i BY <1>1, <2>1
    <3> QED BY <1>3, <3>1 DEF NoChunk
  <2>2. CASE IsChunk(Head(pp))
    <3>1. LastChunk(pp, 1, i + 1)
      <4>1. 1 \in DOMAIN pp /\ 1 < i + 1 /\ IsChunk(pp[1]) BY <1>1, <2>2
      <4>2. ASSUME NEW k \in DOMAIN pp, 1 < k, k < i + 1 PROVE ~IsChunk(pp[k])
        BY <1>1, <2>1, <4>2
      <4> QED BY <4>1, <4>2 DEF LastChunk
    <3>2. InChunk(pp[1].point, p) /\ 1 \in DOMAIN pp
      BY <3>1 DEF InLast, LastChunk
    <3> QED BY <1>1, <2>2, <3>2
  <2>3. CASE ~IsChunk(Head(pp))
    <3>1. NoChunk(pp, i + 1) BY <1>1, <2>1, <2>3 DEF NoChunk
    <3> QED BY <2>3, <3>1 DEF InLast
  <2> QED BY <2>2, <2>3
<1> QED BY <1>2, <1>3 DEF InLast, a

LEMMA WithinHandled ==
    ASSUME NEW B, NEW pp \in Seq(Messages), pp # <<>>, NEW C, Within(B, pp),
           ~IsChunk(Head(pp)) => C = B,
           IsChunk(Head(pp)) => C # <<>> /\ Last(C) = Head(pp).point
    PROVE  Within(C, Tail(pp))
<1>1. /\ Len(pp) \in Nat /\ Len(pp) >= 1 /\ DOMAIN pp = 1..Len(pp) /\ DOMAIN Tail(pp) = 1..Len(pp) - 1
      /\ \A i \in 1..Len(pp) - 1 : Tail(pp)[i] = pp[i + 1]
  BY TailIsTyped
<1> SUFFICES ASSUME NEW i \in DOMAIN Tail(pp), IsBoundary(Tail(pp)[i])
             PROVE  InLast(C, Tail(pp), i, Tail(pp)[i].point)
  BY DEF Within
<1>2. i + 1 \in DOMAIN pp /\ Tail(pp)[i] = pp[i + 1] /\ i \in 1..Len(pp)
  BY <1>1
<1>3. InLast(B, pp, i + 1, Tail(pp)[i].point) BY <1>2 DEF Within
<1> QED BY <1>2, <1>3, LastHandled

LEMMA RingHandled ==
    ASSUME NEW B \in Seq(Points), NEW pp \in Seq(Messages), pp # <<>>, NEW k, RingFrom(B, pp, k)
    PROVE  /\ \A i \in DOMAIN Tail(pp) : IsChunk(Tail(pp)[i]) =>
                Number(Tail(pp)[i].point.pos) + Behind(Tail(pp), i) - k \in {0, NumChunks}
           /\ ~IsChunk(Head(pp)) => RingFrom(B, Tail(pp), k)
           /\ IsChunk(Head(pp)) => /\ Behind(pp, 0) = Behind(Tail(pp), 0) + 1
                                   /\ Number(Head(pp).point.pos) + Behind(Tail(pp), 0) - k \in {0, NumChunks}
<1>1. /\ Len(pp) \in Nat /\ Len(pp) >= 1 /\ DOMAIN pp = 1..Len(pp) /\ DOMAIN Tail(pp) = 1..Len(pp) - 1
      /\ \A i \in 1..Len(pp) - 1 : Tail(pp)[i] = pp[i + 1]
      /\ Head(pp) = pp[1]
  BY TailIsTyped
<1>2. /\ \A i \in 0..Len(pp) - 1 : Behind(Tail(pp), i) = Behind(pp, i + 1)
      /\ Behind(pp, 0) = IF IsChunk(Head(pp)) THEN Behind(Tail(pp), 0) + 1 ELSE Behind(Tail(pp), 0)
  BY BehindHandled
<1>3. ASSUME NEW i \in DOMAIN Tail(pp), IsChunk(Tail(pp)[i])
      PROVE  Number(Tail(pp)[i].point.pos) + Behind(Tail(pp), i) - k \in {0, NumChunks}
  <2>1. i + 1 \in DOMAIN pp /\ Tail(pp)[i] = pp[i + 1] /\ i \in 0..Len(pp) - 1
    BY <1>1
  <2>2. Behind(Tail(pp), i) = Behind(pp, i + 1) BY <1>2, <2>1
  <2> QED BY <1>3, <2>1, <2>2 DEF RingFrom
<1>4. ASSUME ~IsChunk(Head(pp)) PROVE RingFrom(B, Tail(pp), k)
  <2>1. Behind(pp, 0) = Behind(Tail(pp), 0) BY <1>2, <1>4
  <2> QED BY <1>3, <2>1 DEF RingFrom
<1>5. ASSUME IsChunk(Head(pp))
      PROVE  /\ Behind(pp, 0) = Behind(Tail(pp), 0) + 1
             /\ Number(Head(pp).point.pos) + Behind(Tail(pp), 0) - k \in {0, NumChunks}
  <2>1. 0 \in 0..Len(pp) - 1 /\ 0 + 1 = 1 /\ 1 \in DOMAIN pp BY <1>1
  <2>2. Behind(Tail(pp), 0) = Behind(pp, 1) BY <1>2, <2>1
  <2> QED BY <1>1, <1>2, <1>5, <2>1, <2>2 DEF RingFrom
<1> QED BY <1>3, <1>4, <1>5

LEMMA ChunksKept ==
    ASSUME NEW B \in Seq(Points), NEW pp \in Seq(Messages), pp # <<>>, ~IsChunk(Head(pp))
    PROVE  Chunks(B, pp) \subseteq Chunks(B, Tail(pp))
<1> DEFINE a == Tail(pp)
<1>1. /\ Len(pp) \in Nat /\ DOMAIN pp = 1..Len(pp) /\ DOMAIN a = 1..Len(pp) - 1 /\ a \in Seq(Messages)
      /\ \A i \in 1..Len(pp) - 1 : a[i] = pp[i + 1]
      /\ Head(pp) = pp[1]
  BY TailIsTyped
<1> HIDE DEF a
<1> SUFFICES ASSUME NEW q \in Chunks(B, pp) PROVE q \in Chunks(B, a) BY DEF a
<1>2. CASE \E i \in DOMAIN B : q = B[i] BY <1>1, <1>2, ChunksOf
<1>3. CASE \E i \in DOMAIN pp : IsChunk(pp[i]) /\ q = pp[i].point
  <2>1. PICK i \in DOMAIN pp : IsChunk(pp[i]) /\ q = pp[i].point BY <1>3
  <2>2. i # 1 BY <1>1, <2>1
  <2>3. i - 1 \in DOMAIN a /\ a[i - 1] = pp[i] BY <1>1, <2>2
  <2> QED BY <1>1, <2>1, <2>3, ChunksOf
<1> QED BY <1>2, <1>3, ChunksOf

LEMMA ChainHandled ==
    ASSUME NEW B \in Seq(Points), NEW pp \in Seq(Messages), pp # <<>>, ~IsChunk(Head(pp)),
           NEW c, NEW n \in Nat, NEW f, Chain(B, pp, c, n, f)
    PROVE  Chain(B, Tail(pp), c, n, f)
<1> DEFINE a == Tail(pp)
<1>1. /\ Len(pp) \in Nat /\ Len(pp) >= 1 /\ DOMAIN pp = 1..Len(pp) /\ DOMAIN a = 1..Len(pp) - 1
      /\ Len(a) = Len(pp) - 1 /\ a \in Seq(Messages)
      /\ \A i \in 1..Len(pp) - 1 : a[i] = pp[i + 1]
      /\ Head(pp) = pp[1]
  BY TailIsTyped
<1> HIDE DEF a
<1>2. \A i \in DOMAIN a : i + 1 \in DOMAIN pp /\ a[i] = pp[i + 1] BY <1>1
<1>3. Sound(B, n) /\ Ordered(a, n) /\ Updates(a) BY OrderHandled DEF Chain, a
<1>4. Within(B, a) BY WithinHandled DEF Chain, a
<1>5. Beyond(B, a) BY <1>2 DEF Chain, Beyond
<1>6. Ring(B, a) BY RingHandled DEF Chain, Ring, a
<1>7. Chunks(B, pp) \subseteq Chunks(B, a) BY ChunksKept DEF a
<1>8. Units(f, B, a, n)
  <2> SUFFICES ASSUME NEW i \in DOMAIN a, Pointed(a[i]) PROVE Held(f, Chunks(B, a), a[i].point, n)
    BY DEF Units
  <2>1. Held(f, Chunks(B, pp), a[i].point, n) BY <1>2 DEF Chain, Units
  <2> QED BY <1>7, <2>1, HeldLess
<1>9. Lag(a, c)
  <2>1. Behind(pp, 0) = Behind(a, 0) BY BehindHandled DEF a
  <2> QED BY <2>1 DEF Chain, Lag
<1>10. Writes(B, a, c, n)
  <2> SUFFICES ASSUME c.on
               PROVE  Sent(a, Point(n, c.pos)) /\ InLast(B, a, Len(a) + 1, Point(n, c.pos))
    BY DEF Writes
  <2>1. Sent(a, Point(n, c.pos)) BY OrderHandled DEF Chain, Writes, a
  <2>2. InLast(B, pp, Len(pp) + 1, Point(n, c.pos)) /\ Len(pp) \in 1..Len(pp)
    BY <1>1 DEF Chain, Writes
  <2>3. InLast(B, a, Len(pp), Point(n, c.pos)) BY <2>2, LastHandled DEF a
  <2>4. Len(a) + 1 = Len(pp) BY <1>1
  <2> QED BY <2>1, <2>3, <2>4
<1> QED BY <1>3, <1>4, <1>5, <1>6, <1>8, <1>9, <1>10 DEF Chain, a

Geometry(B) ==
    \A i, j \in DOMAIN B : i < j =>
       Number(B[i].pos) + (j - i) - Number(B[j].pos) \in {0, NumChunks}

LEMMA Differences ==
    ASSUME NEW x \in 0..(NumChunks - 1), NEW y \in 0..(NumChunks - 1), NEW m \in Int, NEW b \in Int, NEW k \in Int,
           NEW i \in Int, NEW j \in Int, i < j,
           x + (m - i) + b - k \in {0, NumChunks}, y + (m - j) + b - k \in {0, NumChunks}
    PROVE  x + (j - i) - y \in {0, NumChunks}
<1> DEFINE r == b - k
<1>1. /\ NumChunks \in Nat /\ r \in Int
      /\ x + (m - i) + r \in {0, NumChunks} /\ y + (m - j) + r \in {0, NumChunks}
  BY Sizes
<1> HIDE DEF r
<1> DEFINE u == x + (m - i) + r
           v == y + (m - j) + r
<1>2. u \in {0, NumChunks} /\ v \in {0, NumChunks} BY <1>1
<1>3. u - v = x + (j - i) - y BY <1>1
<1> HIDE DEF u, v
<1>4. u - v \in {0, NumChunks, 0 - NumChunks} BY <1>1, <1>2
<1>5. x + (j - i) - y > 0 - NumChunks BY <1>1
<1> QED BY <1>1, <1>3, <1>4, <1>5
LEMMA RingIsGeometry ==
    ASSUME NEW B \in Seq(Points), NEW pp \in Seq(Messages), NEW k \in 0..(NumChunks - 1),
           RingFrom(B, pp, k), \A i \in DOMAIN B : Aligned(B[i].pos)
    PROVE  Geometry(B)
<1>1. Len(B) \in Int /\ DOMAIN B = 1..Len(B) /\ Behind(pp, 0) \in Int /\ k \in Int
  BY LenProperties, ChunksAreFinite, Sizes
<1> SUFFICES ASSUME NEW i \in Int, NEW j \in Int, i \in DOMAIN B, j \in DOMAIN B, i < j
             PROVE  Number(B[i].pos) + (j - i) - Number(B[j].pos) \in {0, NumChunks}
  BY <1>1 DEF Geometry
<1>2. Number(B[i].pos) \in 0..(NumChunks - 1) /\ Number(B[j].pos) \in 0..(NumChunks - 1)
  BY NumbersOfChunks
<1>3. /\ Number(B[i].pos) + (Len(B) - i) + Behind(pp, 0) - k \in {0, NumChunks}
      /\ Number(B[j].pos) + (Len(B) - j) + Behind(pp, 0) - k \in {0, NumChunks}
  BY DEF RingFrom
<1> QED BY <1>1, <1>2, <1>3, Differences

LEMMA ChunksTaken ==
    ASSUME NEW B \in Seq(Points), NEW pp \in Seq(Messages), pp # <<>>, IsChunk(Head(pp)),
           NEW mp \in Seq(Points), mp = B \/ (mp = Tail(B) /\ B # <<>>)
    PROVE  LET C == Append(mp, Head(pp).point) IN
           \A q \in Chunks(B, pp) :
              q \in Chunks(C, Tail(pp)) \/ (mp = Tail(B) /\ B # <<>> /\ q = B[1])
<1> DEFINE p == Head(pp).point
           C == Append(mp, p)
           a == Tail(pp)
<1>1. /\ Len(pp) \in Nat /\ Len(pp) >= 1 /\ DOMAIN pp = 1..Len(pp) /\ DOMAIN a = 1..Len(pp) - 1
      /\ a \in Seq(Messages) /\ (\A i \in 1..Len(pp) - 1 : a[i] = pp[i + 1]) /\ Head(pp) = pp[1]
  BY TailIsTyped
<1>2. p \in Points BY TailIsTyped, MessagesAreTyped DEF Messages
<1>3. /\ C \in Seq(Points) /\ Len(mp) \in Nat /\ DOMAIN mp = 1..Len(mp) /\ DOMAIN C = 1..Len(mp) + 1
      /\ (\A i \in 1..Len(mp) : C[i] = mp[i]) /\ C[Len(mp) + 1] = p
  BY <1>2, AppendIsTyped
<1> HIDE DEF a, C, p
<1> SUFFICES ASSUME NEW q \in Chunks(B, pp) 
             PROVE  q \in Chunks(C, a) \/ (mp = Tail(B) /\ B # <<>> /\ q = B[1])
  BY DEF a, C, p
<1>4. CASE \E i \in DOMAIN B : q = B[i]
  <2>1. PICK i \in DOMAIN B : q = B[i] BY <1>4
  <2>2. CASE mp = B
    <3>1. i \in DOMAIN C /\ C[i] = q BY <1>3, <2>1, <2>2
    <3> QED BY <1>1, <1>3, <3>1, ChunksOf
  <2>3. CASE mp = Tail(B) /\ B # <<>> /\ i # 1
    <3>1. /\ Len(B) \in Nat /\ DOMAIN B = 1..Len(B) /\ Len(mp) = Len(B) - 1
          /\ \A j \in 1..Len(B) - 1 : mp[j] = B[j + 1]
      BY <2>3, TailIsTyped
    <3>20. i # 1 /\ i \in 1..Len(B) BY <2>3, <3>1
    <3>21. \A u \in Nat : \A v \in 1..u : v # 1 => v - 1 \in 1..u - 1 /\ (v - 1) + 1 = v
      OBVIOUS
    <3>2. i - 1 \in 1..Len(B) - 1 /\ (i - 1) + 1 = i /\ i - 1 \in 1..Len(mp)
      BY <3>1, <3>20, <3>21
    <3>22. mp[i - 1] = B[(i - 1) + 1] BY <3>1, <3>2
    <3>23. mp[i - 1] = q BY <2>1, <3>2, <3>22
    <3>3. i - 1 \in DOMAIN C /\ C[i - 1] = q BY <1>3, <3>2, <3>23
    <3> QED BY <1>1, <1>3, <3>3, ChunksOf
  <2> QED BY <2>1, <2>2, <2>3
<1>5. CASE \E i \in DOMAIN pp : IsChunk(pp[i]) /\ q = pp[i].point
  <2>1. PICK i \in DOMAIN pp : IsChunk(pp[i]) /\ q = pp[i].point BY <1>5
  <2>2. CASE i = 1
    <3>1. q = C[Len(mp) + 1] /\ Len(mp) + 1 \in DOMAIN C
      BY <1>1, <1>3, <2>1, <2>2 DEF p
    <3> QED BY <1>1, <1>3, <3>1, ChunksOf
  <2>3. CASE i # 1
    <3>1. i - 1 \in DOMAIN a /\ a[i - 1] = pp[i] BY <1>1, <2>3
    <3> QED BY <1>1, <1>3, <2>1, <3>1, ChunksOf
  <2> QED BY <2>2, <2>3
<1> QED BY <1>4, <1>5, ChunksOf

LEMMA ChainTaken ==
    ASSUME NEW B \in Seq(Points), NEW pp \in Seq(Messages), pp # <<>>, IsChunk(Head(pp)),
           NEW c, NEW n \in Nat, NEW f, Chain(B, pp, c, n, f), NEW mp \in Seq(Points),
           \/ mp = B /\ Len(B) < MaxChunks
           \/ mp = Tail(B) /\ B # <<>>
    PROVE  LET C == Append(mp, Head(pp).point)
           IN  Chain(C, Tail(pp), c, n, f) /\ Geometry(C)
<1> DEFINE p == Head(pp).point
           C == Append(mp, p)
           a == Tail(pp)
           m == Len(mp)
           d == IF mp = B THEN 0 ELSE 1
<1>1. /\ Len(pp) \in Nat /\ Len(pp) >= 1 /\ DOMAIN pp = 1..Len(pp) /\ DOMAIN a = 1..Len(pp) - 1
      /\ Len(a) = Len(pp) - 1 /\ a \in Seq(Messages)
      /\ (\A i \in 1..Len(pp) - 1 : a[i] = pp[i + 1]) /\ Head(pp) = pp[1]
  BY TailIsTyped
<1>2. p \in Points /\ p.t \in Nat
  <2>1. p \in Points BY TailIsTyped, MessagesAreTyped DEF Messages
  <2> QED BY <2>1, PointsAreTyped
<1>3. /\ C \in Seq(Points) /\ m \in Nat /\ DOMAIN mp = 1..m /\ DOMAIN C = 1..m + 1 /\ Len(C) = m + 1
      /\ (\A i \in 1..m : C[i] = mp[i]) /\ C[m + 1] = p /\ C # <<>> /\ Last(C) = p
  BY <1>2, AppendIsTyped
<1>4. /\ Len(B) \in Nat /\ DOMAIN B = 1..Len(B) /\ d \in {0, 1} /\ m = Len(B) - d /\ m + 1 <= MaxChunks
      /\ \A i \in 1..m : i + d \in DOMAIN B /\ mp[i] = B[i + d]
  <2>0. Len(B) \in Nat /\ DOMAIN B = 1..Len(B) /\ Len(B) <= MaxChunks /\ MaxChunks \in Nat
    BY LenProperties, Sizes DEF Chain, Sound
  <2>1. CASE mp = B /\ Len(B) < MaxChunks
    <3>1. d = 0 /\ m = Len(B) BY <2>1
    <3> HIDE DEF d, m
    <3>2. \A i \in 1..m : i + d = i /\ i \in DOMAIN B BY <2>0, <3>1
    <3>25. Len(B) < MaxChunks BY <2>1
    <3>26. \A u, v \in Nat : u < v => u = u - 0 /\ u + 1 <= v OBVIOUS
    <3>27. m = Len(B) - 0 /\ m + 1 <= MaxChunks BY <2>0, <3>1, <3>25, <3>26
    <3>3. d \in {0, 1} /\ m = Len(B) - d /\ m + 1 <= MaxChunks BY <3>1, <3>27
    <3>4. \A i \in 1..m : mp[i] = B[i + d] BY <2>1, <3>2
    <3> QED BY <2>0, <3>2, <3>3, <3>4
  <2>2. CASE mp = Tail(B) /\ B # <<>>
    <3>1. Len(mp) = Len(B) - 1 /\ \A i \in 1..Len(B) - 1 : mp[i] = B[i + 1]
      BY <2>2, TailIsTyped
    <3>2. d = 1
      <4>1. mp # B BY <2>0, <3>1
      <4> QED BY <4>1
    <3> HIDE DEF d
    <3>3. m = Len(B) - d /\ m + 1 <= MaxChunks /\ d \in {0, 1}
      BY <2>0, <3>1, <3>2
    <3>4. ASSUME NEW i \in 1..m PROVE i + d \in DOMAIN B /\ mp[i] = B[i + d]
      <4>1. i \in 1..Len(B) - 1 /\ i + 1 \in 1..Len(B)
        BY <2>0, <3>1, <3>2, <3>3
      <4>2. mp[i] = B[i + 1] BY <3>1, <4>1
      <4> QED BY <2>0, <3>2, <4>1, <4>2
    <3> QED BY <2>0, <3>3, <3>4
  <2> QED BY <2>1, <2>2
<1> HIDE DEF a, C, p, m, d
<1>5. \A i \in 1..m : C[i] = B[i + d] /\ i + d \in DOMAIN B /\ B[i + d] \in Points
  BY <1>3, <1>4, ElementOfSeq
<1>6. \A i \in DOMAIN a : i + 1 \in DOMAIN pp /\ a[i] = pp[i + 1] BY <1>1
<1>7. 1 \in DOMAIN pp /\ IsChunk(pp[1]) /\ pp[1].point = p /\ Pointed(pp[1])
  BY <1>1 DEF p, IsChunk, Pointed
<1>8. Sound(C, n)
  <2>1. ASSUME NEW i \in DOMAIN C PROVE Aligned(C[i].pos) /\ C[i].t <= n
    <3>1. CASE i = m + 1 BY <1>3, <1>7, <3>1 DEF Chain, Ordered
    <3>2. CASE i # m + 1
      <4>1. i \in 1..m BY <1>3, <3>2
      <4> QED BY <1>5, <4>1 DEF Chain, Sound
    <3> QED BY <3>1, <3>2
  <2>2. ASSUME NEW i \in DOMAIN C, NEW j \in DOMAIN C, i < j PROVE C[i].t + ChunkSize <= C[j].t
    <3>1. i \in 1..m /\ i + d \in DOMAIN B /\ C[i] = B[i + d]
      BY <1>3, <1>5, <2>2
    <3>2. CASE j = m + 1 BY <1>3, <1>7, <3>1, <3>2 DEF Chain, Beyond
    <3>3. CASE j # m + 1
      <4>1. j \in 1..m BY <1>3, <3>3
      <4>2. \A u, v, w \in Int : u < v => u + w < v + w OBVIOUS
      <4>3. i \in Int /\ j \in Int /\ d \in Int BY <1>4, <3>1, <4>1
      <4>4. i + d < j + d BY <2>2, <4>2, <4>3
      <4> QED BY <1>5, <3>1, <4>1, <4>4 DEF Chain, Sound
    <3> QED BY <3>2, <3>3
  <2>3. Len(C) <= MaxChunks BY <1>3, <1>4
  <2> QED BY <2>1, <2>2, <2>3 DEF Sound
<1>9. Ordered(a, n) /\ Updates(a) BY OrderHandled DEF Chain, a
<1>10. Within(C, a) BY <1>3, WithinHandled DEF Chain, a, p
<1>11. Beyond(C, a)
  <2> SUFFICES ASSUME NEW i \in DOMAIN C, NEW j \in DOMAIN a, IsChunk(a[j])
               PROVE  C[i].t + ChunkSize <= a[j].point.t
    BY DEF Beyond
  <2>1. j + 1 \in DOMAIN pp /\ a[j] = pp[j + 1] /\ 1 < j + 1 BY <1>1
  <2>2. CASE i = m + 1
    <3>1. Pointed(pp[j + 1]) /\ IsChunk(pp[j + 1])
      BY <2>1 DEF Pointed, IsChunk
    <3> QED BY <1>3, <1>7, <2>1, <2>2, <3>1 DEF Chain, Ordered
  <2>3. CASE i # m + 1
    <3>1. i \in 1..m BY <1>3, <2>3
    <3> QED BY <1>5, <2>1, <3>1 DEF Chain, Beyond
  <2> QED BY <2>2, <2>3
<1>12. PICK k \in 0..(NumChunks - 1) : RingFrom(B, pp, k) BY DEF Chain, Ring
<1>13. RingFrom(C, a, k)
  <2>1. /\ \A i \in DOMAIN a : IsChunk(a[i]) =>
             Number(a[i].point.pos) + Behind(a, i) - k \in {0, NumChunks}
        /\ Behind(pp, 0) = Behind(a, 0) + 1
        /\ Number(p.pos) + Behind(a, 0) - k \in {0, NumChunks}
    BY <1>12, RingHandled DEF a, p
  <2>2. Behind(a, 0) \in Nat BY <1>1, ChunksAreFinite
  <2>3. ASSUME NEW i \in DOMAIN C
        PROVE  Number(C[i].pos) + (Len(C) - i) + Behind(a, 0) - k \in {0, NumChunks}
    <3>1. CASE i = m + 1
      <4>1. C[i] = p /\ Len(C) - i = 0 /\ Number(p.pos) \in Int
        <5>1. Aligned(p.pos) BY <1>7 DEF Chain, Ordered
        <5>2. Number(p.pos) \in Int BY <5>1, NumbersOfChunks
        <5> QED BY <1>3, <3>1, <5>2
      <4>2. Number(p.pos) + (Len(C) - i) + Behind(a, 0) - k = Number(p.pos) + Behind(a, 0) - k
        BY <2>2, <4>1
      <4> QED BY <2>1, <4>1, <4>2
    <3>2. CASE i # m + 1
      <4>1. i \in 1..m /\ C[i] = B[i + d] /\ i + d \in DOMAIN B
        BY <1>3, <1>5, <3>2
      <4>2. Number(B[i + d].pos) + (Len(B) - (i + d)) + Behind(pp, 0) - k \in {0, NumChunks}
        BY <1>12, <4>1 DEF RingFrom
      <4>3. Number(B[i + d].pos) \in Int
        <5>1. Aligned(B[i + d].pos) BY <4>1 DEF Chain, Sound
        <5> QED BY <5>1, NumbersOfChunks
      <4> DEFINE x == Number(B[i + d].pos)
      <4>4. x + (Len(B) - (i + d)) + Behind(pp, 0) - k = x + (Len(C) - i) + Behind(a, 0) - k
        <5>1. x \in Int /\ i \in Int /\ Len(C) = m + 1 /\ Len(B) = m + d /\ d \in Int /\ m \in Int
          BY <1>3, <1>4, <4>1, <4>3
        <5>2. Behind(a, 0) \in Int /\ k \in Int /\ Behind(pp, 0) = Behind(a, 0) + 1
          BY <2>1, <2>2
        <5>3. Behind(pp, 0) \in Int /\ Len(B) \in Int /\ Len(C) \in Int
          BY <5>1, <5>2
        <5> HIDE DEF x
        <5> QED
          <6>1. PICK lb \in Int : lb = Len(B) BY <5>3
          <6>2. PICK lc \in Int : lc = Len(C) BY <5>3
          <6>3. PICK bb \in Int : bb = Behind(pp, 0) BY <5>3
          <6>4. PICK b \in Int : b = Behind(a, 0) BY <5>2
          <6>5. PICK x1 \in Int, i1 \in Int, d1 \in Int, m1 \in Int, k1 \in Int :
                   x1 = x /\ i1 = i /\ d1 = d /\ m1 = m /\ k1 = k
            BY <5>1, <5>2
          <6>6. lb = m1 + d1 /\ lc = m1 + 1 /\ bb = b + 1
            BY <5>1, <5>2, <6>1, <6>2, <6>3, <6>4, <6>5
          <6>7. x1 + (lb - (i1 + d1)) + bb - k1 = x1 + (lc - i1) + b - k1
            BY <6>6
          <6> QED BY <6>1, <6>2, <6>3, <6>4, <6>5, <6>7
      <4> HIDE DEF x
      <4> QED BY <4>1, <4>2, <4>4 DEF x
    <3> QED BY <3>1, <3>2
  <2> QED BY <2>1, <2>3 DEF RingFrom
<1>14. Units(f, C, a, n)
  <2> SUFFICES ASSUME NEW i \in DOMAIN a, Pointed(a[i]), NEW t \in Nat, a[i].point.t <= t, t < n
               PROVE  \E q \in Chunks(C, a) : Stored(f, q, a[i].point, t)
    BY DEF Units, Held
  <2>1. i + 1 \in DOMAIN pp /\ a[i] = pp[i + 1] /\ 1 < i + 1 BY <1>1
  <2>2. PICK q \in Chunks(B, pp) : Stored(f, q, a[i].point, t)
    BY <2>1 DEF Chain, Units, Held
  <2>3. CASE q \in Chunks(C, a) BY <2>2, <2>3
  <2>4. CASE mp = Tail(B) /\ q = B[1] /\ B # <<>>
    <3>1. 1 \in DOMAIN B /\ B[1] \in Points /\ B[1].t \in Nat
      <4>1. 1 \in DOMAIN B /\ B[1] \in Points BY <2>4, TailIsTyped
      <4> QED BY <4>1, PointsAreTyped
    <3>2. B[1].t + ChunkSize <= p.t BY <1>7, <3>1 DEF Chain, Beyond
    <3>3. p.t <= a[i].point.t BY <1>7, <2>1 DEF Chain, Ordered
    <3>4. a[i].point.t \in Nat /\ ChunkSize \in Nat
      <4>1. a[i] \in Messages BY <1>1, ElementOfSeq
      <4> QED BY <4>1, PointsAreTyped, Sizes DEF Messages
    <3>5. t < B[1].t + ChunkSize BY <2>2, <2>4 DEF Stored
    <3> QED BY <1>2, <3>1, <3>2, <3>3, <3>4, <3>5
  <2> QED BY <2>3, <2>4, ChunksTaken DEF a, C, p
<1>15. Lag(a, c)
  <2>1. Behind(pp, 0) = Behind(a, 0) + 1 /\ Behind(a, 0) \in Nat
    BY <1>1, <1>12, RingHandled, ChunksAreFinite DEF a
  <2>2. MaxLag \in Nat BY ConfigAssumption, LagAssumption
  <2> QED BY <2>1, <2>2 DEF Chain, Lag
<1>16. Writes(C, a, c, n)
  <2> SUFFICES ASSUME c.on
               PROVE  Sent(a, Point(n, c.pos)) /\ InLast(C, a, Len(a) + 1, Point(n, c.pos))
    BY DEF Writes
  <2>1. Sent(a, Point(n, c.pos)) BY OrderHandled DEF Chain, Writes, a
  <2>2. InLast(B, pp, Len(pp) + 1, Point(n, c.pos)) /\ Len(pp) \in 1..Len(pp)
    BY <1>1 DEF Chain, Writes
  <2>3. InLast(C, a, Len(pp), Point(n, c.pos))
    BY <1>3, <2>2, LastHandled DEF a, p
  <2>4. Len(a) + 1 = Len(pp) BY <1>1
  <2> QED BY <2>1, <2>3, <2>4
<1>17. Geometry(C) BY <1>1, <1>3, <1>8, <1>13, RingIsGeometry DEF Sound
<1>18. Ring(C, a) BY <1>13 DEF Ring
<1> QED BY <1>8, <1>9, <1>10, <1>11, <1>14, <1>15, <1>16, <1>17, <1>18 DEF Chain, C, a, p

(***************************************************************************)
(* A unit is written.                                                       *)
(***************************************************************************)
LEMMA Turns ==
    ASSUME NEW x \in 0..(NumChunks - 1), NEW k \in 0..(NumChunks - 1), NEW s \in Nat,
           x + s - k \in {0, NumChunks}
    PROVE  /\ s = 0 => x = k
           /\ s > 0 /\ s < NumChunks => x # k
BY Sizes

(* The command writes to the last chunk, and no other chunk has its place.  *)
LEMMA CurrentChunk ==
    ASSUME NEW B \in Seq(Points), NEW pp \in Seq(Messages), NEW c, NEW n \in Nat, NEW f,
           Chain(B, pp, c, n, f), c.on, Behind(pp, 0) <= MaxLag
    PROVE  \E q \in Chunks(B, pp) :
             /\ q \in Points /\ Aligned(q.pos) /\ InChunk(q, Point(n, c.pos))
             /\ \A r \in Chunks(B, pp) : r \in Points /\ Aligned(r.pos)
             /\ \A r \in Chunks(B, pp) : r = q \/ (r.t + ChunkSize <= q.t /\ r.pos # q.pos)
             /\ \A k \in 0..(NumChunks - 1) : RingFrom(B, pp, k) => Number(q.pos) = k
             /\ \A p : InChunk(q, p) => InLast(B, pp, Len(pp) + 1, p)
<1> DEFINE l == Len(pp)
           here == Point(n, c.pos)
<1>1. /\ l \in Nat /\ DOMAIN pp = 1..l /\ Len(B) \in Nat /\ DOMAIN B = 1..Len(B)
      /\ Len(B) <= MaxChunks /\ Behind(pp, 0) \in Nat /\ \A i \in DOMAIN pp : Behind(pp, i) \in Nat
  <2>1. l \in Nat /\ DOMAIN pp = 1..l /\ Len(B) \in Nat /\ DOMAIN B = 1..Len(B)
    BY LenProperties
  <2>2. Behind(pp, 0) \in Nat /\ \A i \in DOMAIN pp : Behind(pp, i) \in Nat
    BY <2>1, ChunksAreFinite
  <2> QED BY <2>1, <2>2 DEF Chain, Sound
<1>2. InLast(B, pp, l + 1, here) BY DEF Chain, Writes
<1>3. \A r \in Chunks(B, pp) : r \in Points /\ Aligned(r.pos)
  <2> SUFFICES ASSUME NEW r \in Chunks(B, pp) PROVE Aligned(r.pos) BY ChunksOf
  <2> QED BY ChunksOf DEF Chain, Sound, Ordered
<1>4. PICK k \in 0..(NumChunks - 1) : RingFrom(B, pp, k) BY DEF Chain, Ring
<1>5. /\ MaxLag \in Nat /\ NumChunks \in Nat /\ NumChunks > 2 /\ MaxChunks + MaxLag <= NumChunks
      /\ MaxLag < NumChunks /\ MaxChunks \in Nat /\ MaxChunks < NumChunks
  BY ConfigAssumption, LagAssumption DEF MaxChunks
<1> HIDE DEF l, here
<1>6. ASSUME NEW q \in Chunks(B, pp), InChunk(q, here),
             \A p : InChunk(q, p) => InLast(B, pp, l + 1, p),
             \A m \in 0..(NumChunks - 1) : RingFrom(B, pp, m) => Number(q.pos) = m,
             \A i \in DOMAIN B : B[i] = q \/ (/\ B[i].t + ChunkSize <= q.t
                                              /\ Number(B[i].pos) # k),
             \A i \in DOMAIN pp : IsChunk(pp[i]) =>
                \/ pp[i].point = q
                \/ pp[i].point.t + ChunkSize <= q.t /\ Number(pp[i].point.pos) # k
      PROVE  \E x \in Chunks(B, pp) :
             /\ x \in Points /\ Aligned(x.pos) /\ InChunk(x, here)
             /\ \A r \in Chunks(B, pp) : r \in Points /\ Aligned(r.pos)
             /\ \A r \in Chunks(B, pp) : r = x \/ (r.t + ChunkSize <= x.t /\ r.pos # x.pos)
             /\ \A m \in 0..(NumChunks - 1) : RingFrom(B, pp, m) => Number(x.pos) = m
             /\ \A p : InChunk(x, p) => InLast(B, pp, l + 1, p)
  <2>1. Number(q.pos) = k BY <1>4, <1>6
  <2>2. ASSUME NEW r \in Chunks(B, pp) PROVE r = q \/ (r.t + ChunkSize <= q.t /\ r.pos # q.pos)
    <3>1. r = q \/ (r.t + ChunkSize <= q.t /\ Number(r.pos) # k)
      BY <1>6, ChunksOf
    <3> QED BY <2>1, <3>1
  <2> QED BY <1>3, <1>6, <2>2
<1>7. CASE NoChunk(pp, l + 1)
  <2>1. \A i \in DOMAIN pp : ~IsChunk(pp[i]) BY <1>1, <1>7 DEF NoChunk
  <2> DEFINE q == Last(B)
  <2>2. B # <<>> /\ InChunk(q, here) BY <1>2, <1>7 DEF InLast
  <2>3. Len(B) \in DOMAIN B /\ q = B[Len(B)] BY <2>2, LastIsTyped
  <2>4. q \in Chunks(B, pp) BY <2>3, ChunksOf
  <2>5. Behind(pp, 0) = 0
    <3>1. ChunksAfter(pp, 0) = {} BY <2>1 DEF ChunksAfter
    <3> QED BY <3>1, FS_EmptySet DEF Behind
  <2>6. \A m \in 0..(NumChunks - 1), i \in DOMAIN B :
           RingFrom(B, pp, m) => Number(B[i].pos) + (Len(B) - i) + 0 - m \in {0, NumChunks}
    BY <2>5 DEF RingFrom
  <2>7. \A i \in DOMAIN B : Number(B[i].pos) \in 0..(NumChunks - 1)
    BY NumbersOfChunks DEF Chain, Sound
  <2> HIDE DEF q
  <2>8. ASSUME NEW m \in 0..(NumChunks - 1), RingFrom(B, pp, m), NEW i \in DOMAIN B
        PROVE  /\ i = Len(B) => Number(B[i].pos) = m
               /\ i # Len(B) => Number(B[i].pos) # m
    <3> DEFINE s == Len(B) - i
               x == Number(B[i].pos)
    <3>1. s \in Nat /\ s < NumChunks /\ (s = 0 <=> i = Len(B)) BY <1>1, <1>5
    <3>2. x \in 0..(NumChunks - 1) /\ x + s + 0 - m \in {0, NumChunks}
      BY <2>6, <2>7, <2>8
    <3> HIDE DEF s, x
    <3>3. x + s - m \in {0, NumChunks} BY <3>1, <3>2
    <3> QED BY <3>1, <3>2, <3>3, Turns DEF x
  <2>9. \A m \in 0..(NumChunks - 1) : RingFrom(B, pp, m) => Number(q.pos) = m
    BY <2>3, <2>8
  <2>10. \A p : InChunk(q, p) => InLast(B, pp, l + 1, p)
    BY <2>1, <2>2 DEF InLast, LastChunk, q
  <2>11. ASSUME NEW i \in DOMAIN B
         PROVE  B[i] = q \/ (B[i].t + ChunkSize <= q.t /\ Number(B[i].pos) # k)
    <3>1. CASE i = Len(B) BY <2>3, <3>1
    <3>2. CASE i # Len(B)
      <4>1. i < Len(B) BY <1>1, <3>2
      <4>2. B[i].t + ChunkSize <= q.t BY <2>3, <4>1 DEF Chain, Sound
      <4> QED BY <1>4, <2>8, <3>2, <4>2
    <3> QED BY <3>1, <3>2
  <2> QED BY <1>6, <2>1, <2>2, <2>4, <2>9, <2>10, <2>11 DEF l, here
<1>8. CASE ~NoChunk(pp, l + 1)
  <2> DEFINE S == {i \in DOMAIN pp : IsChunk(pp[i])}
  <2>1. S # {} /\ S \in SUBSET (0..l) BY <1>1, <1>8 DEF NoChunk
  <2> DEFINE j == Max(S)
             q == pp[j].point
  <2>2. j \in S /\ \A i \in S : i <= j BY <1>1, <2>1, MaxOfBounded
  <2>3. j \in DOMAIN pp /\ IsChunk(pp[j]) /\ \A i \in DOMAIN pp : j < i => ~IsChunk(pp[i])
    <3> HIDE DEF j
    <3>1. j \in DOMAIN pp /\ IsChunk(pp[j]) BY <2>2
    <3>2. ASSUME NEW i \in DOMAIN pp, j < i PROVE ~IsChunk(pp[i])
      <4>1. i \in S => i <= j BY <2>2
      <4>2. ~(i <= j) BY <1>1, <3>1, <3>2
      <4> QED BY <4>1, <4>2
    <3> QED BY <3>1, <3>2
  <2> HIDE DEF S, j, q
  <2>4. LastChunk(pp, j, l + 1) BY <1>1, <2>3 DEF LastChunk
  <2>5. InChunk(q, here) BY <1>2, <2>3, <2>4 DEF InLast, q
  <2>6. q \in Chunks(B, pp) BY <2>3, ChunksOf DEF q
  <2>7. Behind(pp, j) = 0
    <3>1. ChunksAfter(pp, j) = {} BY <2>3 DEF ChunksAfter
    <3> QED BY <3>1, FS_EmptySet DEF Behind
  <2>8. \A i \in DOMAIN pp : IsChunk(pp[i]) => Number(pp[i].point.pos) \in 0..(NumChunks - 1)
    BY NumbersOfChunks DEF Chain, Ordered
  <2>9. \A m \in 0..(NumChunks - 1) : RingFrom(B, pp, m) => Number(q.pos) = m
    <3> SUFFICES ASSUME NEW m \in 0..(NumChunks - 1), RingFrom(B, pp, m) PROVE Number(q.pos) = m
      OBVIOUS
    <3>1. Number(q.pos) \in 0..(NumChunks - 1) /\ Number(q.pos) + Behind(pp, j) - m \in {0, NumChunks}
      BY <2>3, <2>8 DEF RingFrom, q
    <3> QED BY <1>1, <2>3, <2>7, <3>1, Turns
  <2>10. \A p : InChunk(q, p) => InLast(B, pp, l + 1, p)
    <3> SUFFICES ASSUME NEW p, InChunk(q, p) PROVE InLast(B, pp, l + 1, p)
      OBVIOUS
    <3>1. ASSUME NEW i \in DOMAIN pp, LastChunk(pp, i, l + 1) PROVE i = j
      <4>1. i \in DOMAIN pp /\ IsChunk(pp[i]) /\ ~(i < j)
        BY <1>1, <2>3, <3>1 DEF LastChunk
      <4>2. ~(j < i) BY <2>3, <4>1
      <4> QED BY <1>1, <2>3, <4>1, <4>2
    <3> QED BY <1>8, <3>1 DEF InLast, q
  <2>11. Behind(pp, j) < Behind(pp, 0) /\ Behind(pp, 0) > 0
    <3>1. 0 \in Nat /\ 0 < j BY <1>1, <2>3
    <3>2. Behind(pp, j) < Behind(pp, 0) BY <2>3, <3>1, BehindBounds
    <3> QED BY <1>1, <2>7, <3>2
  <2>12. ASSUME NEW i \in DOMAIN B PROVE B[i].t + ChunkSize <= q.t /\ Number(B[i].pos) # k
    <3>1. B[i].t + ChunkSize <= q.t BY <2>3 DEF Chain, Beyond, q
    <3> DEFINE x == Number(B[i].pos)
               b == Behind(pp, 0)
               s == (Len(B) - i) + b
    <3>2. x \in 0..(NumChunks - 1) BY NumbersOfChunks DEF Chain, Sound
    <3>3. x + (Len(B) - i) + b - k \in {0, NumChunks} BY <1>4 DEF RingFrom
    <3>4. b \in Nat /\ b > 0 /\ b <= MaxLag /\ i \in 1..Len(B) BY <1>1, <2>11
    <3> HIDE DEF x, b
    <3>5. s \in Nat /\ s > 0 /\ s < NumChunks BY <1>1, <1>5, <3>4
    <3>6. x + s - k = x + (Len(B) - i) + b - k BY <1>1, <1>5, <3>2, <3>4
    <3> HIDE DEF s
    <3>7. x # k BY <3>2, <3>3, <3>5, <3>6, Turns
    <3> QED BY <3>1, <3>7 DEF x
  <2>13. ASSUME NEW i \in DOMAIN pp, IsChunk(pp[i])
         PROVE  \/ pp[i].point = q
                \/ pp[i].point.t + ChunkSize <= q.t /\ Number(pp[i].point.pos) # k
    <3>1. CASE i = j BY <3>1 DEF q
    <3>2. CASE i # j
      <4>1. i < j /\ i \in Nat /\ 0 < i /\ j \in DOMAIN pp
        BY <1>1, <2>3, <2>13, <3>2
      <4>2. Pointed(pp[i]) /\ Pointed(pp[j])
        BY <2>3, <2>13 DEF Pointed, IsChunk
      <4>3. pp[i].point.t + ChunkSize <= q.t
        BY <2>3, <2>13, <4>1, <4>2 DEF Chain, Ordered, q
      <4> DEFINE s == Behind(pp, i)
                 x == Number(pp[i].point.pos)
      <4>4. s \in Nat /\ Behind(pp, j) < s BY <1>1, <2>3, <4>1, BehindBounds
      <4>5. s < Behind(pp, 0)
        <5>1. 0 \in Nat OBVIOUS
        <5> QED BY <2>13, <4>1, <5>1, BehindBounds
      <4>6. x \in 0..(NumChunks - 1) /\ x + s - k \in {0, NumChunks}
        BY <1>4, <2>8, <2>13 DEF RingFrom
      <4> HIDE DEF s, x
      <4>7. s > 0 /\ s < NumChunks BY <1>1, <1>5, <2>7, <4>4, <4>5
      <4>8. x # k BY <4>4, <4>6, <4>7, Turns
      <4> QED BY <4>3, <4>8 DEF x
    <3> QED BY <3>1, <3>2
  <2> QED BY <1>6, <2>5, <2>6, <2>9, <2>10, <2>12, <2>13 DEF l, here
<1> QED BY <1>7, <1>8 DEF l, here

(* What is held stays held, and what goes on at the command holds one more. *)
LEMMA UnitWritten ==
    ASSUME NEW B \in Seq(Points), NEW pp \in Seq(Messages), NEW c, NEW n \in Nat,
           NEW f \in [0..(FileSize - 1) -> Nat], c.pos \in 0..(FileSize - 1),
           Chain(B, pp, c, n, f), c.on, Behind(pp, 0) <= MaxLag
    PROVE  LET g == [f EXCEPT ![c.pos] = n] IN
           /\ \A S \in SUBSET Chunks(B, pp), p \in Points, b \in 0..n :
                 Held(f, S, p, b) => Held(g, S, p, b)
           /\ \A p \in Points : c.pos = Place(p, n) /\ Held(f, Chunks(B, pp), p, n)
                                => Held(g, Chunks(B, pp), p, n + 1)
<1> DEFINE g == [f EXCEPT ![c.pos] = n]
           here == Point(n, c.pos)
<1>1. PICK q \in Chunks(B, pp) :
        /\ q \in Points /\ Aligned(q.pos) /\ InChunk(q, Point(n, c.pos))
        /\ \A r \in Chunks(B, pp) : r \in Points /\ Aligned(r.pos)
        /\ \A r \in Chunks(B, pp) : r = q \/ (r.t + ChunkSize <= q.t /\ r.pos # q.pos)
  BY CurrentChunk
<1>2. q.t <= n /\ n < q.t + ChunkSize /\ c.pos = q.pos + (n - q.t)
  BY <1>1, PointsAreTyped DEF InChunk
<1>3. /\ ChunkSize \in Nat /\ q.t \in Nat /\ q.pos \in Nat /\ n - q.t \in 0..(ChunkSize - 1)
  <2>1. ChunkSize \in Nat /\ q.t \in Nat /\ q.pos \in Nat
    BY <1>1, PointsAreTyped, Sizes
  <2> QED BY <1>2, <2>1
<1>4. g[c.pos] = n /\ \A x \in 0..(FileSize - 1) : x # c.pos => g[x] = f[x]
  OBVIOUS
<1> HIDE DEF g
<1>5. ASSUME NEW S \in SUBSET Chunks(B, pp), NEW p \in Points, NEW b \in 0..n, Held(f, S, p, b)
      PROVE  Held(g, S, p, b)
  <2> SUFFICES ASSUME NEW t \in Nat, p.t <= t, t < b PROVE \E r \in S : Stored(g, r, p, t)
    BY DEF Held
  <2>1. PICK r \in S : Stored(f, r, p, t) BY <1>5 DEF Held
  <2>2. /\ r.t <= t /\ t < r.t + ChunkSize /\ Place(p, t) = r.pos + (t - r.t) /\ f[Place(p, t)] = t
        /\ r \in Chunks(B, pp) /\ r \in Points /\ r.t \in Nat
    BY <1>1, <2>1, PointsAreTyped DEF Stored
  <2>3. t - r.t \in 0..(ChunkSize - 1) /\ t # n
    <3>1. t < n
      <4>1. \A x, y, z \in Nat : x < y /\ y <= z => x < z OBVIOUS
      <4> QED BY <4>1
    <3>2. \A x, y, z \in Nat : x <= y /\ y < x + z => y - x \in 0..(z - 1)
      OBVIOUS
    <3>3. t - r.t \in 0..(ChunkSize - 1) BY <1>3, <2>2, <3>2
    <3> QED BY <3>1, <3>3
  <2>4. ASSUME Place(p, t) = c.pos PROVE FALSE
    <3>1. r.pos + (t - r.t) = q.pos + (n - q.t) BY <1>2, <2>2, <2>4
    <3>2. r.pos = q.pos /\ t - r.t = n - q.t
      BY <1>1, <1>3, <2>2, <2>3, <3>1, SamePlace
    <3>3. r = q BY <1>1, <2>2, <3>2
    <3> QED BY <1>3, <2>3, <3>2, <3>3
  <2>5. Place(p, t) \in 0..(FileSize - 1) BY Places
  <2>6. g[Place(p, t)] = t BY <1>4, <2>2, <2>4, <2>5
  <2> QED BY <2>2, <2>6 DEF Stored
<1>6. ASSUME NEW p \in Points, c.pos = Place(p, n), Held(f, Chunks(B, pp), p, n)
      PROVE  Held(g, Chunks(B, pp), p, n + 1)
  <2>1. n \in 0..n /\ Held(g, Chunks(B, pp), p, n) BY <1>5, <1>6
  <2> SUFFICES ASSUME NEW t \in Nat, p.t <= t, t < n + 1
               PROVE  \E r \in Chunks(B, pp) : Stored(g, r, p, t)
    BY DEF Held
  <2>2. CASE t < n BY <2>1, <2>2 DEF Held
  <2>3. CASE t = n BY <1>1, <1>2, <1>4, <1>6, <2>3 DEF Stored
  <2> QED BY <2>2, <2>3
<1> QED BY <1>5, <1>6 DEF g

(* What holds once the unit at the end of a chunk is written, and before    *)
(* the next chunk, which begins at p, is announced.                         *)
Moved(B, pp, k, p, f) ==
    /\ Sound(B, p.t) /\ Ordered(pp, p.t) /\ Within(B, pp) /\ Beyond(B, pp)
    /\ RingFrom(B, pp, k) /\ Units(f, B, pp, p.t) /\ Sent(pp, p) /\ Behind(pp, 0) <= MaxLag
    /\ \A i \in DOMAIN B : B[i].t + ChunkSize <= p.t
    /\ \A i \in DOMAIN pp : IsChunk(pp[i]) => pp[i].point.t + ChunkSize <= p.t
    /\ \A i \in DOMAIN pp : Pointed(pp[i]) => pp[i].point.t <= p.t

LEMMA HeldFromNow ==
    ASSUME NEW f, NEW S, NEW p \in Points
    PROVE  Held(f, S, p, p.t)
BY PointsAreTyped DEF Held

LEMMA UpdateAnnounced ==
    ASSUME NEW B \in Seq(Points), NEW pp \in Seq(Messages), NEW k \in 0..(NumChunks - 1),
           NEW p \in Points, NEW f, Moved(B, pp, k, p, f)
    PROVE  Moved(B, Append(pp, Msg("event-update", p)), k, p, f)
<1> DEFINE m == Msg("event-update", p)
           a == Append(pp, m)
<1>1. /\ m \in Messages /\ m.kind = "event-update" /\ m.point = p /\ Pointed(m) /\ ~IsChunk(m)
      /\ ~IsBoundary(m)
  <2>1. "event-update" \in MsgKinds BY DEF MsgKinds
  <2>2. m \in Messages /\ m.kind = "event-update" /\ m.point = p
    BY <2>1, MessagesAreTyped
  <2> QED BY <2>2 DEF Pointed, IsChunk, IsBoundary
<1> HIDE DEF m
<1>2. /\ Len(pp) \in Nat /\ DOMAIN pp = 1..Len(pp) /\ DOMAIN a = 1..Len(pp) + 1
      /\ (\A j \in 1..Len(pp) : a[j] = pp[j]) /\ a[Len(pp) + 1] = m /\ a \in Seq(Messages)
  BY <1>1, AppendIsTyped
<1>3. p.t \in Nat /\ p.pos = Place(p, p.t) /\ p.t <= p.t
  <2>1. p.t \in Nat BY PointsAreTyped
  <2>2. Place(p, p.t) = p.pos BY Places
  <2> QED BY <2>1, <2>2
<1>4. Ordered(a, p.t) BY <1>1, <1>3, OrderAppended DEF Moved
<1>5. Within(B, a) /\ Beyond(B, a)
  BY <1>1, WithinAppended, BeyondAppended DEF Moved
<1>6. RingFrom(B, a, k) BY <1>1, RingAppended DEF Moved, Sound, Ordered
<1>7. Units(f, B, a, p.t) BY <1>1, <1>3, HeldFromNow, UnitsAppended DEF Moved
<1>8. Sent(a, p) BY <1>1, <1>3, LineAppended DEF Moved
<1>9. Behind(a, 0) <= MaxLag
  <2>1. 0 \in 0..Len(pp) BY <1>2
  <2> QED BY <1>1, <2>1, BehindAppended DEF Moved
<1> HIDE DEF a
<1>10. \A i \in DOMAIN a : (i \in DOMAIN pp /\ a[i] = pp[i]) \/ a[i] = m
  BY <1>2
<1> QED BY <1>1, <1>3, <1>4, <1>5, <1>6, <1>7, <1>8, <1>9, <1>10 DEF Moved, a, m

LEMMA ChunkAnnounced ==
    ASSUME NEW B \in Seq(Points), NEW pp \in Seq(Messages), NEW k \in 0..(NumChunks - 1),
           NEW p \in Points, NEW f, Moved(B, pp, k, p, f),
           Aligned(p.pos), Number(p.pos) = NextNumber(k)
    PROVE  LET a == Append(pp, Msg("chunk", p)) IN
           /\ Sound(B, p.t) /\ Ordered(a, p.t) /\ Within(B, a) /\ Beyond(B, a) /\ Ring(B, a)
           /\ Units(f, B, a, p.t) /\ Sent(a, p) /\ InLast(B, a, Len(a) + 1, p)
           /\ Behind(a, 0) <= MaxLag + 1
<1> DEFINE m == Msg("chunk", p)
           a == Append(pp, m)
<1>1. m \in Messages /\ m.point = p /\ Pointed(m) /\ IsChunk(m) /\ ~IsBoundary(m)
  <2>1. "chunk" \in MsgKinds BY DEF MsgKinds
  <2>2. m \in Messages /\ m.kind = "chunk" /\ m.point = p
    BY <2>1, MessagesAreTyped
  <2> QED BY <2>2 DEF Pointed, IsChunk, IsBoundary
<1> HIDE DEF m
<1>2. /\ Len(pp) \in Nat /\ DOMAIN pp = 1..Len(pp) /\ Len(a) = Len(pp) + 1
  BY <1>1, AppendIsTyped
<1>3. /\ p.t \in Nat /\ p.pos = Place(p, p.t) /\ p.t <= p.t /\ InChunk(p, p)
  <2>1. p.t \in Nat /\ p.pos \in Nat /\ p.pos = Place(p, p.t)
    BY PointsAreTyped, Places
  <2> QED BY <2>1, Sizes DEF InChunk
<1>4. Ordered(a, p.t) BY <1>1, <1>3, OrderAppended DEF Moved
<1>5. Within(B, a) /\ Beyond(B, a)
  BY <1>1, WithinAppended, BeyondAppended DEF Moved
<1>6. RingFrom(B, a, NextNumber(k)) /\ NextNumber(k) \in 0..(NumChunks - 1)
  <2>1. NextNumber(k) \in 0..(NumChunks - 1) BY Sizes DEF NextNumber
  <2> QED BY <1>1, <2>1, RingAppended DEF Moved, Sound, Ordered
<1>7. Units(f, B, a, p.t) BY <1>1, <1>3, HeldFromNow, UnitsAppended DEF Moved
<1>8. Sent(a, p) BY <1>1, <1>3, LineAppended DEF Moved
<1>9. Behind(a, 0) <= MaxLag + 1
  <2>1. 0 \in 0..Len(pp) /\ MaxLag \in Nat /\ Behind(pp, 0) \in Nat
    BY <1>2, ConfigAssumption, LagAssumption, ChunksAreFinite
  <2>2. Behind(a, 0) = Behind(pp, 0) + 1 BY <1>1, <2>1, BehindAppended
  <2> QED BY <2>1, <2>2 DEF Moved
<1>10. InLast(B, a, Len(a) + 1, p)
  <2>1. Len(a) + 1 = Len(pp) + 2 BY <1>2
  <2>2. InLast(B, a, Len(pp) + 2, p) BY <1>1, <1>3, ChunkLast
  <2> QED BY <2>1, <2>2
<1> QED BY <1>4, <1>5, <1>6, <1>7, <1>8, <1>9, <1>10 DEF Moved, Ring, a, m

LEMMA AlignedAreMultiples ==
    ASSUME NEW x, Aligned(x), NEW r \in 0..(ChunkSize - 1)
    PROVE  (x + r) % ChunkSize = r
<1>1. Number(x) \in Int /\ x = Number(x) * ChunkSize BY NumbersOfChunks, Sizes
<1> QED BY <1>1, Sizes, Remainder

(* Where the next unit goes: on in the chunk, or to the next chunk.         *)
LEMMA NextUnit ==
    ASSUME NEW q \in Points, Aligned(q.pos), NEW n \in Nat, NEW pos \in 0..(FileSize - 1),
           q.t <= n, n < q.t + ChunkSize, pos = q.pos + (n - q.t)
    PROVE  LET p == Point(n + 1, (pos + 1) % FileSize) IN
           /\ p \in Points /\ p.t = n + 1 /\ p.pos = (pos + 1) % FileSize
           /\ p.pos % ChunkSize # 0 => InChunk(q, p)
           /\ p.pos % ChunkSize = 0 => /\ Aligned(p.pos) /\ Number(p.pos) = NextNumber(Number(q.pos))
                                       /\ n + 1 = q.t + ChunkSize
<1> DEFINE p == Point(n + 1, (pos + 1) % FileSize)
           r == n - q.t
<1>1. /\ q.t \in Nat /\ q.pos \in Nat /\ ChunkSize \in Nat /\ FileSize \in Nat /\ FileSize > 0
      /\ q.pos + ChunkSize <= FileSize
      /\ Aligned(NextChunk(q.pos)) /\ Number(NextChunk(q.pos)) = NextNumber(Number(q.pos))
  BY PointsAreTyped, Sizes, NumberOfNext
<1>2. r \in 0..(ChunkSize - 1) /\ pos = q.pos + r BY <1>1
<1>3. (pos + 1) % FileSize \in 0..(FileSize - 1)
  <2>1. pos + 1 \in Nat OBVIOUS
  <2> QED BY <2>1, PositionsWrap
<1>4. p \in Points /\ p.t = n + 1 /\ p.pos = (pos + 1) % FileSize
  <2>1. n + 1 \in Nat OBVIOUS
  <2> QED BY <1>3, <2>1, PointsAreTyped
<1> HIDE DEF r
<1>5. CASE r = ChunkSize - 1
  <2>1. pos + 1 = q.pos + ChunkSize BY <1>1, <1>2, <1>5
  <2>2. p.pos = NextChunk(q.pos) BY <1>4, <2>1 DEF NextChunk
  <2>3. p.pos % ChunkSize = 0
    <3>1. 0 \in 0..(ChunkSize - 1) BY Sizes
    <3>2. (NextChunk(q.pos) + 0) % ChunkSize = 0
      BY <1>1, <3>1, AlignedAreMultiples
    <3>3. NextChunk(q.pos) + 0 = NextChunk(q.pos)
      <4>1. NextChunk(q.pos) \in Nat BY <1>3, <1>4, <2>2
      <4> QED BY <4>1
    <3> QED BY <2>2, <3>2, <3>3
  <2>4. n + 1 = q.t + ChunkSize BY <1>1, <1>5 DEF r
  <2> QED BY <1>1, <1>4, <2>2, <2>3, <2>4
<1>6. CASE r # ChunkSize - 1
  <2>1. r + 1 \in 0..(ChunkSize - 1) /\ pos + 1 = q.pos + (r + 1) /\ pos + 1 \in 0..(FileSize - 1)
    BY <1>1, <1>2, <1>6
  <2>2. (pos + 1) % FileSize = pos + 1
    <3> DEFINE x == pos + 1
    <3>1. x \in 0..(FileSize - 1) BY <2>1
    <3> HIDE DEF x
    <3>2. x % FileSize = x BY <1>1, <3>1, Remainders
    <3> QED BY <3>2 DEF x
  <2>3. (pos + 1) % ChunkSize = r + 1 BY <2>1, AlignedAreMultiples
  <2>4. r + 1 # 0 BY <1>2
  <2>5. n + 1 < q.t + ChunkSize /\ q.t <= n + 1 /\ r + 1 = (n + 1) - q.t
    BY <1>1, <2>1 DEF r
  <2>6. InChunk(q, p) BY <1>4, <2>1, <2>2, <2>5 DEF InChunk
  <2> QED BY <1>4, <2>2, <2>3, <2>4, <2>6
<1> QED BY <1>5, <1>6

LEMMA ChainWritten ==
    ASSUME NEW B \in Seq(Points), NEW pp \in Seq(Messages), NEW c, NEW n \in Nat,
           NEW f \in [0..(FileSize - 1) -> Nat], c.pos \in 0..(FileSize - 1),
           Chain(B, pp, c, n, f), c.on, Behind(pp, 0) <= MaxLag,
           NEW e, e.pos = (c.pos + 1) % FileSize
    PROVE  LET p == Point(n + 1, (c.pos + 1) % FileSize)
               g == [f EXCEPT ![c.pos] = n]
           IN  /\ p.pos % ChunkSize # 0 => Chain(B, pp, e, n + 1, g)
               /\ p.pos % ChunkSize = 0 =>
                    /\ Chain(B, Append(pp, Msg("chunk", p)), e, n + 1, g)
                    /\ Chain(B, Append(Append(pp, Msg("event-update", p)), Msg("chunk", p)), e, n + 1, g)
<1> DEFINE p == Point(n + 1, (c.pos + 1) % FileSize)
           g == [f EXCEPT ![c.pos] = n]
<1>1. PICK q \in Chunks(B, pp) :
        /\ q \in Points /\ Aligned(q.pos) /\ InChunk(q, Point(n, c.pos))
        /\ \A r \in Chunks(B, pp) : r \in Points /\ Aligned(r.pos)
        /\ \A r \in Chunks(B, pp) : r = q \/ (r.t + ChunkSize <= q.t /\ r.pos # q.pos)
        /\ \A k \in 0..(NumChunks - 1) : RingFrom(B, pp, k) => Number(q.pos) = k
        /\ \A x : InChunk(q, x) => InLast(B, pp, Len(pp) + 1, x)
  BY CurrentChunk
<1>2. q.t <= n /\ n < q.t + ChunkSize /\ c.pos = q.pos + (n - q.t)
  BY <1>1, PointsAreTyped DEF InChunk
<1>3. /\ p \in Points /\ p.t = n + 1 /\ p.pos = (c.pos + 1) % FileSize
      /\ p.pos % ChunkSize # 0 => InChunk(q, p)
      /\ p.pos % ChunkSize = 0 => /\ Aligned(p.pos) /\ Number(p.pos) = NextNumber(Number(q.pos))
                                  /\ n + 1 = q.t + ChunkSize
  BY <1>1, <1>2, NextUnit
<1>4. Point(n + 1, e.pos) = p /\ p.pos = e.pos BY <1>3
<1>5. /\ q.t \in Nat /\ ChunkSize \in Nat /\ n + 1 \in Nat /\ n <= n + 1 /\ n \in 0..n
      /\ MaxLag \in Nat /\ Behind(pp, 0) \in Nat
  <2>1. q.t \in Nat /\ ChunkSize \in Nat /\ MaxLag \in Nat /\ Behind(pp, 0) \in Nat
    BY <1>1, PointsAreTyped, ConfigAssumption, LagAssumption, ChunksAreFinite
  <2> QED BY <2>1
<1>6. ASSUME NEW i \in DOMAIN pp, Pointed(pp[i])
      PROVE  /\ pp[i].point \in Points /\ pp[i].point.t \in Nat /\ pp[i].point.t <= n + 1
             /\ c.pos = Place(pp[i].point, n) /\ p.pos = Place(pp[i].point, n + 1)
             /\ Held(g, Chunks(B, pp), pp[i].point, n + 1)
  <2>1. pp[i].point \in Points /\ pp[i].point.t \in Nat
    <3>1. pp[i] \in Messages BY ElementOfSeq
    <3> QED BY <3>1, PointsAreTyped DEF Messages
  <2>2. pp[i].point.t <= n /\ c.pos = Place(pp[i].point, n)
    <3>1. Point(n, c.pos).pos = c.pos /\ Point(n, c.pos).t = n
      BY PointsAreTyped
    <3> QED BY <1>6, <3>1 DEF Chain, Ordered, Writes, Sent
  <2>3. p.pos = Place(pp[i].point, n + 1)
    <3>1. (Place(pp[i].point, n) + 1) % FileSize = Place(pp[i].point, n + 1)
      BY <2>1, Places
    <3> QED BY <1>3, <2>2, <3>1
  <2>4. Held(f, Chunks(B, pp), pp[i].point, n) BY <1>6 DEF Chain, Units
  <2>5. Held(g, Chunks(B, pp), pp[i].point, n + 1)
    BY <2>1, <2>2, <2>4, UnitWritten
  <2> QED BY <1>5, <2>1, <2>2, <2>3, <2>5
<1> HIDE DEF p, g
<1>7. Sound(B, n + 1)
  <2>1. \A i \in DOMAIN B : B[i] \in Points /\ B[i].t \in Nat
    BY ElementOfSeq, PointsAreTyped
  <2>2. \A i \in DOMAIN B : B[i].t <= n + 1 BY <1>5, <2>1 DEF Chain, Sound
  <2> QED BY <2>2 DEF Chain, Sound
<1>8. Ordered(pp, n + 1) BY <1>6 DEF Chain, Ordered
<1>9. Units(g, B, pp, n + 1) /\ Sent(pp, p) BY <1>3, <1>6 DEF Units, Sent
<1>10. CASE p.pos % ChunkSize # 0
  <2>1. Writes(B, pp, e, n + 1) BY <1>1, <1>3, <1>4, <1>9, <1>10 DEF Writes
  <2>2. Lag(pp, e) BY <1>5 DEF Lag
  <2>3. Chain(B, pp, e, n + 1, g) BY <1>7, <1>8, <1>9, <2>1, <2>2 DEF Chain
  <2> QED BY <1>10, <2>3 DEF p, g
<1>11. CASE p.pos % ChunkSize = 0
  <2>1. PICK k \in 0..(NumChunks - 1) : RingFrom(B, pp, k) BY DEF Chain, Ring
  <2>2. Aligned(p.pos) /\ Number(p.pos) = NextNumber(k)
    BY <1>1, <1>3, <1>11, <2>1
  <2>3. \A r \in Chunks(B, pp) : r.t + ChunkSize <= p.t
    <3> SUFFICES ASSUME NEW r \in Chunks(B, pp) PROVE r.t + ChunkSize <= p.t
      OBVIOUS
    <3>1. r.t \in Nat /\ (r = q \/ r.t + ChunkSize <= q.t) /\ p.t = q.t + ChunkSize
      BY <1>1, <1>3, <1>11, PointsAreTyped
    <3> QED BY <1>5, <3>1
  <2>4. Moved(B, pp, k, p, g)
    BY <1>3, <1>6, <1>7, <1>8, <1>9, <2>1, <2>3, ChunksOf DEF Chain, Moved
  <2>5. ASSUME NEW x \in Seq(Messages), Moved(B, x, k, p, g), Updates(Append(x, Msg("chunk", p)))
        PROVE  Chain(B, Append(x, Msg("chunk", p)), e, n + 1, g)
    <3> DEFINE a == Append(x, Msg("chunk", p))
    <3>1. /\ Sound(B, p.t) /\ Ordered(a, p.t) /\ Within(B, a) /\ Beyond(B, a) /\ Ring(B, a)
          /\ Units(g, B, a, p.t) /\ Sent(a, p) /\ InLast(B, a, Len(a) + 1, p)
          /\ Behind(a, 0) <= MaxLag + 1
      BY <1>3, <2>2, <2>5, ChunkAnnounced
    <3> HIDE DEF a
    <3>2. Lag(a, e) /\ Writes(B, a, e, n + 1)
      BY <1>4, <1>11, <3>1 DEF Lag, Writes
    <3> QED BY <1>3, <2>5, <3>1, <3>2 DEF Chain, a
  <2> DEFINE u == Msg("event-update", p)
             m == Msg("chunk", p)
  <2>6. /\ u \in Messages /\ u.kind = "event-update" /\ u.point = p
        /\ m \in Messages /\ m.kind = "chunk" /\ m.point = p
    <3>1. "event-update" \in MsgKinds /\ "chunk" \in MsgKinds BY DEF MsgKinds
    <3> QED BY <1>3, <3>1, MessagesAreTyped
  <2>7. Updates(Append(pp, m)) /\ Updates(Append(Append(pp, u), m))
    <3>1. Updates(pp) /\ IsChunk(m) /\ m.point = u.point /\ m.kind # "event-update"
      BY <2>6 DEF Chain, IsChunk
    <3> HIDE DEF u, m
    <3> QED BY <2>6, <3>1, UpdatesAppended
  <2>8. Append(pp, u) \in Seq(Messages) /\ Moved(B, Append(pp, u), k, p, g)
    BY <1>3, <2>4, <2>6, UpdateAnnounced, AppendIsTyped
  <2>9. /\ Chain(B, Append(pp, m), e, n + 1, g) /\ Chain(B, Append(Append(pp, u), m), e, n + 1, g)
    BY <2>4, <2>5, <2>7, <2>8
  <2> QED BY <1>11, <2>9 DEF p, g
<1> QED BY <1>10, <1>11 DEF p, g

(***************************************************************************)
(* Other messages of the command; a pipeline that ends and one that starts. *)
(***************************************************************************)
LEMMA BoundaryAnnounced ==
    ASSUME NEW B \in Seq(Points), NEW pp \in Seq(Messages), NEW c, NEW n \in Nat, NEW f,
           Chain(B, pp, c, n, f), c.on, c.pos \in 0..(FileSize - 1),
           NEW m \in Messages, IsBoundary(m), m.point = Point(n, c.pos),
           NEW e, e.pos = c.pos
    PROVE  Chain(B, Append(pp, m), e, n, f)
<1> DEFINE p == Point(n, c.pos)
           a == Append(pp, m)
<1>1. p \in Points /\ p.t = n /\ Pointed(m) /\ ~IsChunk(m) /\ m.kind # "event-update"
  BY PointsAreTyped DEF IsBoundary, Pointed, IsChunk
<1>2. Sent(pp, p) /\ InLast(B, pp, Len(pp) + 1, p) BY DEF Chain, Writes
<1>3. p.pos = Place(p, p.t) BY <1>1, Places
<1>4. m.point = p /\ Point(n, e.pos) = p OBVIOUS
<1> HIDE DEF p
<1>5. Ordered(a, n)
  <2>1. m.point.t = n /\ n <= n /\ Sent(pp, m.point) BY <1>1, <1>2, <1>4
  <2>2. Ordered(pp, n) /\ \A i \in DOMAIN pp : Pointed(pp[i]) => pp[i].point.t <= m.point.t
    BY <2>1 DEF Chain, Ordered
  <2> QED BY <1>1, <2>1, <2>2, OrderAppended
<1>6. Updates(a) /\ Within(B, a) /\ Beyond(B, a)
  BY <1>1, <1>2, <1>4, UpdatesAppended, WithinAppended, BeyondAppended DEF Chain
<1>7. Ring(B, a) BY <1>1, RingAppended DEF Chain, Ring, Sound, Ordered
<1>8. Units(f, B, a, n) BY <1>1, <1>4, HeldFromNow, UnitsAppended DEF Chain
<1>9. Lag(a, e)
  <2>1. 0 \in 0..Len(pp) BY LenProperties
  <2>2. Behind(a, 0) = Behind(pp, 0) BY <1>1, <2>1, BehindAppended
  <2> QED BY <2>2 DEF Chain, Lag
<1>10. Writes(B, a, e, n)
  <2>1. Len(a) + 1 = Len(pp) + 2 BY AppendIsTyped
  <2>2. Sent(a, p) BY <1>1, <1>2, <1>3, <1>4, LineAppended
  <2>3. InLast(B, a, Len(pp) + 2, p) BY <1>1, <1>2, PlainLast
  <2> QED BY <1>4, <2>1, <2>2, <2>3 DEF Writes
<1> QED BY <1>5, <1>6, <1>7, <1>8, <1>9, <1>10 DEF Chain, a

LEMMA PlainAnnounced ==
    ASSUME NEW B \in Seq(Points), NEW pp \in Seq(Messages), NEW c, NEW n \in Nat, NEW f,
           Chain(B, pp, c, n, f), NEW m \in Messages, ~Pointed(m), m.point.t <= n, NEW e, ~e.on
    PROVE  Chain(B, Append(pp, m), e, n, f)
<1> DEFINE a == Append(pp, m)
<1>1. ~IsChunk(m) /\ ~IsBoundary(m) /\ m.kind # "event-update"
  BY DEF Pointed, IsChunk, IsBoundary
<1>2. Ordered(a, n) BY <1>1, OrderAppended DEF Chain
<1>3. Updates(a) /\ Within(B, a) /\ Beyond(B, a)
  BY <1>1, UpdatesAppended, WithinAppended, BeyondAppended DEF Chain
<1>4. Ring(B, a) BY <1>1, RingAppended DEF Chain, Ring, Sound, Ordered
<1>5. Units(f, B, a, n) BY UnitsAppended DEF Chain
<1>6. Lag(a, e)
  <2>1. 0 \in 0..Len(pp) BY LenProperties
  <2>2. Behind(a, 0) = Behind(pp, 0) BY <1>1, <2>1, BehindAppended
  <2> QED BY <2>2 DEF Chain, Lag
<1> QED BY <1>2, <1>3, <1>4, <1>5, <1>6 DEF Chain, Writes, a

(* Without a pipeline the chain is that of the points.                      *)
LEMMA GeometryIsRing ==
    ASSUME NEW B \in Seq(Points), Geometry(B), \A i \in DOMAIN B : Aligned(B[i].pos)
    PROVE  /\ B = <<>> => \A k \in 0..(NumChunks - 1) : RingFrom(B, <<>>, k)
           /\ B # <<>> => /\ Number(Last(B).pos) \in 0..(NumChunks - 1)
                          /\ RingFrom(B, <<>>, Number(Last(B).pos))
<1>1. Behind(<<>>, 0) = 0 /\ Len(B) \in Nat /\ DOMAIN B = 1..Len(B)
  BY BehindEmpty, LenProperties
<1>2. CASE B = <<>> BY <1>2 DEF RingFrom
<1>3. CASE B # <<>>
  <2> DEFINE k == Number(Last(B).pos)
  <2>1. Last(B) = B[Len(B)] /\ Len(B) \in DOMAIN B BY <1>3, LastIsTyped
  <2>2. \A i \in DOMAIN B : Number(B[i].pos) \in 0..(NumChunks - 1)
    BY NumbersOfChunks
  <2>3. k \in 0..(NumChunks - 1) /\ k = Number(B[Len(B)].pos) BY <2>1, <2>2
  <2> HIDE DEF k
  <2>4. ASSUME NEW i \in DOMAIN B
        PROVE  Number(B[i].pos) + (Len(B) - i) + Behind(<<>>, 0) - k \in {0, NumChunks}
    <3> DEFINE x == Number(B[i].pos)
    <3>1. x \in Nat /\ i \in 1..Len(B) /\ k \in Nat BY <1>1, <2>2, <2>3
    <3>2. CASE i = Len(B)
      <4>1. x = k BY <2>3, <3>2
      <4> HIDE DEF x
      <4>2. x + (Len(B) - i) + Behind(<<>>, 0) - k = 0
        BY <1>1, <3>1, <3>2, <4>1
      <4> QED BY <4>2 DEF x
    <3>3. CASE i # Len(B)
      <4>1. i < Len(B) BY <3>1, <3>3
      <4>2. x + (Len(B) - i) - k \in {0, NumChunks}
        BY <2>1, <2>3, <4>1 DEF Geometry
      <4> HIDE DEF x
      <4>3. x + (Len(B) - i) + Behind(<<>>, 0) - k = x + (Len(B) - i) - k
        BY <1>1, <3>1
      <4>4. x + (Len(B) - i) + Behind(<<>>, 0) - k \in {0, NumChunks}
        BY <4>2, <4>3
      <4> QED BY <4>4 DEF x
    <3> QED BY <3>2, <3>3
  <2>5. RingFrom(B, <<>>, k) BY <2>4 DEF RingFrom
  <2> QED BY <1>3, <2>3, <2>5 DEF k
<1> QED BY <1>2, <1>3

LEMMA ChainRests ==
    ASSUME NEW B \in Seq(Points), NEW n \in Nat, Sound(B, n), Geometry(B), NEW c, ~c.on, NEW f
    PROVE  Chain(B, <<>>, c, n, f)
<1>1. Ring(B, <<>>)
  <2>1. 0 \in 0..(NumChunks - 1) BY Sizes
  <2> QED BY <2>1, GeometryIsRing DEF Sound, Ring
<1>2. Behind(<<>>, 0) = 0 /\ MaxLag \in Nat
  BY BehindEmpty, ConfigAssumption, LagAssumption
<1> QED BY <1>1, <1>2 DEF Chain, Ordered, Updates, Within, Beyond, Units, Lag, Writes

LEMMA ChainIsSound ==
    ASSUME NEW B \in Seq(Points), NEW pp \in Seq(Messages), NEW c, NEW n, NEW f, Chain(B, pp, c, n, f)
    PROVE  Sound(B, n) /\ Geometry(B)
BY RingIsGeometry DEF Chain, Ring, Sound

(* Empty: a new pipeline that has announced no chunk.                       *)
Begun == Append(<<Msg("started", NoPoint)>>, Msg("start", NoPoint))
Opened(p) == Append(Begun, Msg("chunk", p))

LEMMA BegunIsPlain ==
    /\ Begun \in Seq(Messages) /\ Len(Begun) = 2 /\ DOMAIN Begun = {1, 2}
    /\ Begun[1].kind = "started" /\ Begun[2].kind = "start"
    /\ \A i \in DOMAIN Begun : ~Pointed(Begun[i]) /\ ~IsChunk(Begun[i]) /\ ~IsBoundary(Begun[i])
                               /\ Begun[i].kind # "event-update"
    /\ Behind(Begun, 0) = 0
<1> DEFINE a == Msg("started", NoPoint)
           b == Msg("start", NoPoint)
<1>1. a \in Messages /\ b \in Messages /\ a.kind = "started" /\ b.kind = "start"
  <2>1. "started" \in MsgKinds /\ "start" \in MsgKinds BY DEF MsgKinds
  <2> QED BY <2>1, PointsAreTyped, MessagesAreTyped
<1> HIDE DEF a, b
<1>2. <<a>> \in Seq(Messages) /\ Len(<<a>>) = 1 /\ <<a>>[1] = a BY <1>1
<1>3. /\ Append(<<a>>, b) \in Seq(Messages) /\ Len(Append(<<a>>, b)) = 2
      /\ DOMAIN Append(<<a>>, b) = 1..2
      /\ Append(<<a>>, b)[1] = a /\ Append(<<a>>, b)[2] = b
  <2>1. 1 \in 1..Len(<<a>>) /\ Len(<<a>>) + 1 = 2 BY <1>2
  <2> QED BY <1>1, <1>2, <2>1, AppendIsTyped
<1>4. /\ Begun \in Seq(Messages) /\ Len(Begun) = 2 /\ DOMAIN Begun = 1..2
      /\ Begun[1] = a /\ Begun[2] = b
  BY <1>3 DEF Begun, a, b
<1>5. DOMAIN Begun = {1, 2} BY <1>4
<1>6. \A i \in DOMAIN Begun : ~Pointed(Begun[i]) /\ ~IsChunk(Begun[i]) /\ ~IsBoundary(Begun[i])
                              /\ Begun[i].kind # "event-update"
  BY <1>1, <1>4, <1>5 DEF Pointed, IsChunk, IsBoundary
<1>7. Behind(Begun, 0) = 0
  <2>1. ChunksAfter(Begun, 0) = {} BY <1>6 DEF ChunksAfter
  <2> QED BY <2>1, FS_EmptySet DEF Behind
<1> QED BY <1>1, <1>4, <1>5, <1>6, <1>7

(* A new command writes to the chunk of the last point again.               *)
LEMMA ChainOpened ==
    ASSUME NEW ps \in Seq(Points), NEW n \in Nat, Sound(ps, n), Geometry(ps),
           NEW B \in Seq(Points),
           \/ ps = <<>> /\ B = <<>>
           \/ ps # <<>> /\ B = SubSeq(ps, 1, Len(ps) - 1),
           NEW p \in Points, p.t = n + 1, p.pos = IF ps = <<>> THEN 0 ELSE Last(ps).pos,
           NEW c, c.pos = p.pos, c.on, NEW f, NEW m \in Messages, m.kind = "event-start", m.point = p
    PROVE  Chain(B, Opened(p), c, n + 1, f) /\ Chain(B, Append(Opened(p), m), c, n + 1, f)
<1>1. /\ Len(ps) \in Nat /\ DOMAIN ps = 1..Len(ps) /\ Len(B) \in Nat /\ DOMAIN B = 1..Len(B)
      /\ Len(B) <= Len(ps)
      /\ \A i \in DOMAIN B : i \in DOMAIN ps /\ i < Len(ps) /\ B[i] = ps[i]
      /\ ps # <<>> => Len(B) = Len(ps) - 1 /\ Len(ps) \in DOMAIN ps /\ Last(ps) = ps[Len(ps)]
  <2>1. Len(ps) \in Nat /\ DOMAIN ps = 1..Len(ps) /\ Len(B) \in Nat /\ DOMAIN B = 1..Len(B)
    BY LenProperties
  <2>2. CASE ps = <<>> /\ B = <<>> BY <2>1, <2>2
  <2>3. CASE ps # <<>> /\ B = SubSeq(ps, 1, Len(ps) - 1)
    <3>1. Len(ps) >= 1 /\ Len(ps) \in DOMAIN ps /\ Last(ps) = ps[Len(ps)]
      BY <2>3, LastIsTyped
    <3>20. \A u \in Nat : u >= 1 => u - 1 \in 0..u /\ \A i \in 1..u - 1 : i \in 1..u /\ i < u
      OBVIOUS
    <3>2. Len(ps) - 1 \in 0..Len(ps) BY <2>1, <3>1, <3>20
    <3>3. Len(B) = Len(ps) - 1 /\ \A i \in 1..Len(ps) - 1 : B[i] = ps[i]
      BY <2>3, <3>2, PrefixIsTyped
    <3>4. \A i \in 1..Len(ps) - 1 : i \in 1..Len(ps) /\ i < Len(ps)
      BY <2>1, <3>1, <3>20
    <3> QED BY <2>1, <3>1, <3>3, <3>4
  <2> QED BY <2>2, <2>3
<1>2. /\ ChunkSize \in Nat /\ NumChunks \in Nat /\ NumChunks > 2 /\ MaxChunks \in Nat /\ MaxLag \in Nat
      /\ n + 1 \in Nat /\ n <= n + 1 /\ 0 \in 0..(NumChunks - 1)
  BY Sizes, ConfigAssumption, LagAssumption
<1>3. \A i \in DOMAIN ps : ps[i] \in Points /\ ps[i].t \in Nat
  BY ElementOfSeq, PointsAreTyped
<1>4. Sound(B, n + 1)
  <2>1. ASSUME NEW i \in DOMAIN B PROVE Aligned(B[i].pos) /\ B[i].t <= n + 1
    <3>1. i \in DOMAIN ps /\ B[i] = ps[i] BY <1>1
    <3>2. Aligned(B[i].pos) /\ B[i].t <= n /\ B[i].t \in Nat
      BY <1>3, <3>1 DEF Sound
    <3> QED BY <3>2
  <2>2. \A i, j \in DOMAIN B : i < j => B[i].t + ChunkSize <= B[j].t
    BY <1>1 DEF Sound
  <2>3. Len(B) <= MaxChunks
    <3>1. Len(ps) <= MaxChunks BY DEF Sound
    <3>2. Len(B) <= Len(ps) /\ Len(B) \in Nat /\ Len(ps) \in Nat BY <1>1
    <3>3. \A u, v, w \in Nat : u <= v /\ v <= w => u <= w OBVIOUS
    <3> QED BY <1>2, <3>1, <3>2, <3>3
  <2> QED BY <2>1, <2>2, <2>3 DEF Sound
<1>5. Aligned(p.pos)
  <2>1. CASE ps = <<>>
    <3>1. p.pos = 0 * ChunkSize BY <1>2, <2>1
    <3> QED BY <1>2, <3>1 DEF Aligned
  <2>2. CASE ps # <<>> BY <1>1, <2>2 DEF Sound
  <2> QED BY <2>1, <2>2
<1>6. \E k \in 0..(NumChunks - 1) : RingFrom(B, <<>>, k) /\ Number(p.pos) = NextNumber(k)
  <2>1. Geometry(B) /\ \A i \in DOMAIN B : Aligned(B[i].pos)
    BY <1>1, <1>4 DEF Geometry, Sound
  <2>2. Number(p.pos) \in 0..(NumChunks - 1) BY <1>5, NumbersOfChunks
  <2>3. CASE B = <<>>
    <3> DEFINE x == Number(p.pos)
               k == IF x = 0 THEN NumChunks - 1 ELSE x - 1
    <3> HIDE DEF x
    <3>1. k \in 0..(NumChunks - 1) /\ x = NextNumber(k)
      BY <1>2, <2>2 DEF NextNumber, x
    <3> HIDE DEF k
    <3>2. RingFrom(B, <<>>, k) BY <2>1, <2>3, <3>1, GeometryIsRing
    <3> QED BY <3>1, <3>2 DEF x
  <2>4. CASE B # <<>>
    <3>1. ps # <<>> /\ Last(B) = B[Len(B)] /\ Len(B) \in DOMAIN B
      BY <1>1, <2>4, LastIsTyped
    <3>2. Last(B) = ps[Len(B)] /\ Len(B) < Len(ps) /\ Len(ps) - Len(B) = 1
      BY <1>1, <3>1
    <3> DEFINE x == Number(ps[Len(B)].pos)
               y == Number(p.pos)
    <3>3. x + (Len(ps) - Len(B)) - y \in {0, NumChunks} /\ x = Number(Last(B).pos)
      BY <1>1, <3>1, <3>2 DEF Geometry
    <3>4. x \in 0..(NumChunks - 1) /\ y \in 0..(NumChunks - 1) /\ RingFrom(B, <<>>, x)
      BY <2>1, <2>2, <2>4, <3>3, GeometryIsRing
    <3> HIDE DEF x, y
    <3>5. x + 1 - y \in {0, NumChunks} BY <3>2, <3>3
    <3>6. y = NextNumber(x) BY <1>2, <3>4, <3>5 DEF NextNumber
    <3> QED BY <3>4, <3>6 DEF y
  <2> QED BY <2>3, <2>4
<1>7. PICK k \in 0..(NumChunks - 1) : RingFrom(B, <<>>, k) /\ Number(p.pos) = NextNumber(k)
  BY <1>6
<1>8. RingFrom(B, Begun, k)
  <2>1. Behind(<<>>, 0) = Behind(Begun, 0) BY BehindEmpty, BegunIsPlain
  <2> QED BY <1>7, <2>1, BegunIsPlain DEF RingFrom
<1>9. Moved(B, Begun, k, p, f)
  <2>1. \A i \in DOMAIN B : B[i].t + ChunkSize <= p.t
    <3> SUFFICES ASSUME NEW i \in DOMAIN B PROVE B[i].t + ChunkSize <= p.t
      OBVIOUS
    <3>0. ps # <<>>
      <4>1. i < Len(ps) /\ i \in 1..Len(ps) BY <1>1
      <4> QED BY <4>1, EmptySeq
    <3>1. B[i] = ps[i] /\ i \in DOMAIN ps /\ Len(ps) \in DOMAIN ps /\ i < Len(ps)
      BY <1>1, <3>0
    <3>2. ps[i].t + ChunkSize <= ps[Len(ps)].t /\ ps[Len(ps)].t <= n
      BY <3>1 DEF Sound
    <3> QED BY <1>2, <1>3, <3>1, <3>2
  <2>2. Ordered(Begun, p.t) /\ Within(B, Begun) /\ Beyond(B, Begun) /\ Units(f, B, Begun, p.t) /\ Sent(Begun, p)
    BY BegunIsPlain DEF Ordered, Within, Beyond, Units, Sent
  <2> QED BY <1>2, <1>4, <1>8, <2>1, <2>2, BegunIsPlain DEF Moved
<1> DEFINE a == Opened(p)
           z == Msg("chunk", p)
<1>10. /\ Sound(B, p.t) /\ Ordered(a, p.t) /\ Within(B, a) /\ Beyond(B, a) /\ Ring(B, a)
       /\ Units(f, B, a, p.t) /\ Sent(a, p) /\ InLast(B, a, Len(a) + 1, p)
       /\ Behind(a, 0) <= MaxLag + 1
  BY <1>5, <1>7, <1>9, BegunIsPlain, ChunkAnnounced DEF Opened
<1>11. z \in Messages /\ z.kind = "chunk" /\ z.point = p
  <2>1. "chunk" \in MsgKinds BY DEF MsgKinds
  <2> QED BY <2>1, MessagesAreTyped
<1>12. Updates(a) /\ a \in Seq(Messages)
  <2>1. Updates(Begun) BY BegunIsPlain DEF Updates
  <2> HIDE DEF z
  <2>2. Updates(Append(Begun, z)) /\ Append(Begun, z) \in Seq(Messages)
    BY <1>11, <2>1, BegunIsPlain, UpdatesAppended, AppendIsTyped
  <2> QED BY <2>2 DEF Opened, z
<1> HIDE DEF a, z
<1>13. Lag(a, c)
  <2>1. 0 \in 0..(ChunkSize - 1) /\ p.pos + 0 = p.pos BY Sizes, PointsAreTyped
  <2>2. (p.pos + 0) % ChunkSize = 0 BY <1>5, <2>1, AlignedAreMultiples
  <2>3. c.pos % ChunkSize = 0 BY <2>1, <2>2
  <2> QED BY <1>10, <2>3 DEF Lag
<1>14. Point(n + 1, c.pos) = p BY DEF Point, Points
<1>15. Chain(B, a, c, n + 1, f)
  BY <1>10, <1>12, <1>13, <1>14 DEF Chain, Writes
<1>16. Chain(B, Append(a, m), c, n + 1, f)
  <2>1. IsBoundary(m) /\ c.pos \in 0..(FileSize - 1)
    BY PointsAreTyped DEF IsBoundary
  <2> QED BY <1>2, <1>12, <1>14, <1>15, <2>1, BoundaryAnnounced
<1> QED BY <1>15, <1>16 DEF a

(***************************************************************************)
(* The records: each is held by the chunks of the points up to its end.     *)
(***************************************************************************)
Spans(B, r, n, f) ==
    /\ r.start.t <= r.end.t /\ r.end.t <= n /\ r.end.pos = Place(r.start, r.end.t)
    /\ Held(f, Chunks(B, <<>>), r.start, r.end.t)
Recs(B, rs, pp, n, f) ==
    /\ \A i \in DOMAIN rs : Spans(B, rs[i], n, f)
    /\ \A i, j \in DOMAIN rs : i < j => rs[i].end.t <= rs[j].start.t
    /\ \A i \in DOMAIN rs, j \in DOMAIN pp : Pointed(pp[j]) => rs[i].end.t <= pp[j].point.t

(* The last record goes on, as far as the next update or end, if any, or    *)
(* the command, if it is still on the same event.                           *)
NoStart(pp, i) == \A j \in DOMAIN pp : j < i => pp[j].kind # "event-start"
Ends(m) == m.kind \in {"event-update", "event-end"}
GoesOn(B, pp, s, p, n, f) == p.pos = Place(s, p.t) /\ Held(f, Chunks(B, pp), s, n)
Runs(B, rs, pp, c, n, f) ==
    rs # <<>> =>
       /\ \A i \in DOMAIN pp : Ends(pp[i]) /\ NoStart(pp, i) =>
             GoesOn(B, pp, Last(rs).start, pp[i].point, n, f)
       /\ c.on /\ c.event /\ NoStart(pp, Len(pp) + 1) =>
             GoesOn(B, pp, Last(rs).start, Point(n, c.pos), n, f)

LEMMA RecordPoints ==
    ASSUME NEW rs \in Seq(Records)
    PROVE  /\ Len(rs) \in Nat /\ DOMAIN rs = 1..Len(rs)
           /\ \A i \in DOMAIN rs : /\ rs[i] \in Records /\ rs[i].start \in Points /\ rs[i].end \in Points
                                   /\ rs[i].start.t \in Nat /\ rs[i].end.t \in Nat
           /\ rs # <<>> => /\ Last(rs) \in Records /\ Last(rs).start \in Points /\ Last(rs).end \in Points
                           /\ Last(rs).start.t \in Nat /\ Last(rs).end.t \in Nat
                           /\ Last(rs) = rs[Len(rs)] /\ Len(rs) \in DOMAIN rs
<1>1. \A r \in Records : /\ r.start \in Points /\ r.end \in Points
                         /\ r.start.t \in Nat /\ r.end.t \in Nat
  <2> SUFFICES ASSUME NEW r \in Records
               PROVE  /\ r.start \in Points /\ r.end \in Points
                      /\ r.start.t \in Nat /\ r.end.t \in Nat
    OBVIOUS
  <2>1. r.start \in Points /\ r.end \in Points BY DEF Records
  <2> QED BY <2>1, PointsAreTyped
<1>2. Len(rs) \in Nat /\ DOMAIN rs = 1..Len(rs) /\ \A i \in DOMAIN rs : rs[i] \in Records
  BY LenProperties, ElementOfSeq
<1>3. rs # <<>> => Last(rs) \in Records /\ Last(rs) = rs[Len(rs)] /\ Len(rs) \in DOMAIN rs
  BY LastIsTyped
<1> QED BY <1>1, <1>2, <1>3

(* Nothing is said of what is no longer written, later, or not announced.   *)
LEMMA RecsLater ==
    ASSUME NEW B, NEW rs \in Seq(Records), NEW pp, NEW n \in Nat, NEW f, Recs(B, rs, pp, n, f),
           NEW qq, NEW m \in Nat, n <= m,
           \A j \in DOMAIN qq : Pointed(qq[j]) =>
              \/ \E i \in DOMAIN pp : qq[j] = pp[i]
              \/ qq[j].point.t \in Nat /\ n <= qq[j].point.t
    PROVE  Recs(B, rs, qq, m, f)
<1>1. ASSUME NEW i \in DOMAIN rs PROVE Spans(B, rs[i], m, f)
  <2>1. Spans(B, rs[i], n, f) /\ rs[i].end.t \in Nat BY RecordPoints DEF Recs
  <2> DEFINE x == rs[i].end.t
  <2>2. x \in Nat /\ x <= n BY <2>1 DEF Spans
  <2> HIDE DEF x
  <2>3. x <= m BY <2>2
  <2> QED BY <2>1, <2>3 DEF Spans, x
<1>2. ASSUME NEW i \in DOMAIN rs, NEW j \in DOMAIN qq, Pointed(qq[j])
      PROVE  rs[i].end.t <= qq[j].point.t
  <2> DEFINE x == rs[i].end.t
             y == qq[j].point.t
  <2>1. x \in Nat /\ x <= n BY RecordPoints DEF Recs, Spans
  <2>2. CASE \E k \in DOMAIN pp : qq[j] = pp[k] BY <1>2, <2>2 DEF Recs
  <2>3. CASE qq[j].point.t \in Nat /\ n <= qq[j].point.t
    <3>1. y \in Nat /\ n <= y BY <2>3
    <3> HIDE DEF x, y
    <3>2. x <= y BY <2>1, <3>1
    <3> QED BY <3>2 DEF x, y
  <2> QED BY <1>2, <2>2, <2>3
<1> QED BY <1>1, <1>2 DEF Recs

LEMMA RecsHandled ==
    ASSUME NEW B, NEW rs \in Seq(Records), NEW pp \in Seq(Messages), pp # <<>>, NEW n \in Nat, NEW f,
           Recs(B, rs, pp, n, f)
    PROVE  Recs(B, rs, Tail(pp), n, f) /\ Recs(B, rs, <<>>, n, f)
<1> DEFINE a == Tail(pp)
<1>1. \A i \in DOMAIN a : i + 1 \in DOMAIN pp /\ a[i] = pp[i + 1]
  BY TailIsTyped
<1> HIDE DEF a
<1>2. n <= n /\ \A j \in DOMAIN a : \E i \in DOMAIN pp : a[j] = pp[i] BY <1>1
<1>3. Recs(B, rs, a, n, f) BY <1>2, RecsLater
<1>4. Recs(B, rs, <<>>, n, f) BY <1>2, RecsLater
<1> QED BY <1>3, <1>4 DEF a

LEMMA RecsAppended ==
    ASSUME NEW B, NEW rs \in Seq(Records), NEW pp \in Seq(Messages), NEW n \in Nat, NEW f,
           Recs(B, rs, pp, n, f), NEW m \in Messages, Pointed(m) => n <= m.point.t
    PROVE  Recs(B, rs, Append(pp, m), n, f)
<1>1. /\ Len(pp) \in Nat /\ DOMAIN pp = 1..Len(pp) /\ DOMAIN Append(pp, m) = 1..Len(pp) + 1
      /\ (\A j \in 1..Len(pp) : Append(pp, m)[j] = pp[j]) /\ Append(pp, m)[Len(pp) + 1] = m
  BY AppendIsTyped
<1>2. m.point.t \in Nat BY PointsAreTyped DEF Messages
<1>3. ASSUME NEW j \in DOMAIN Append(pp, m), Pointed(Append(pp, m)[j])
      PROVE  \/ \E i \in DOMAIN pp : Append(pp, m)[j] = pp[i]
             \/ Append(pp, m)[j].point.t \in Nat /\ n <= Append(pp, m)[j].point.t
  <2>1. CASE j \in DOMAIN pp BY <1>1, <2>1
  <2>2. CASE j = Len(pp) + 1 BY <1>1, <1>2, <1>3, <2>2
  <2> QED BY <1>1, <2>1, <2>2
<1> DEFINE a == Append(pp, m)
<1>4. n <= n /\ \A j \in DOMAIN a : Pointed(a[j]) =>
                   \/ \E i \in DOMAIN pp : a[j] = pp[i]
                   \/ a[j].point.t \in Nat /\ n <= a[j].point.t
  BY <1>3
<1> HIDE DEF a
<1>5. Recs(B, rs, a, n, f) BY <1>4, RecsLater
<1> QED BY <1>5 DEF a

LEMMA ChunksOfPoints ==
    ASSUME NEW B \in Seq(Points), NEW pp \in Seq(Messages)
    PROVE  Chunks(B, <<>>) \subseteq Chunks(B, pp)
BY DEF Chunks

LEMMA RecsWritten ==
    ASSUME NEW B \in Seq(Points), NEW pp \in Seq(Messages), NEW c, NEW n \in Nat,
           NEW f \in [0..(FileSize - 1) -> Nat], c.pos \in 0..(FileSize - 1),
           Chain(B, pp, c, n, f), c.on, Behind(pp, 0) <= MaxLag,
           NEW rs \in Seq(Records), Recs(B, rs, pp, n, f)
    PROVE  Recs(B, rs, pp, n, [f EXCEPT ![c.pos] = n])
<1> DEFINE g == [f EXCEPT ![c.pos] = n]
<1>1. \A S \in SUBSET Chunks(B, pp), p \in Points, b \in 0..n : Held(f, S, p, b) => Held(g, S, p, b)
  BY UnitWritten
<1> HIDE DEF g
<1>2. ASSUME NEW i \in DOMAIN rs PROVE Spans(B, rs[i], n, g)
  <2> DEFINE s == rs[i].start
             b == rs[i].end.t
  <2>1. s \in Points /\ b \in Nat /\ Spans(B, rs[i], n, f)
    BY RecordPoints DEF Recs
  <2>2. b <= n /\ Held(f, Chunks(B, <<>>), s, b) BY <2>1 DEF Spans
  <2> HIDE DEF s, b
  <2>3. b \in 0..n /\ Chunks(B, <<>>) \in SUBSET Chunks(B, pp)
    BY <2>1, <2>2, ChunksOfPoints
  <2>4. Held(g, Chunks(B, <<>>), s, b) BY <1>1, <2>1, <2>2, <2>3
  <2> QED BY <2>1, <2>4 DEF Spans, s, b
<1> QED BY <1>2 DEF Recs, g

(***************************************************************************)
(* The record that is still open.                                           *)
(***************************************************************************)
LEMMA OpenLess ==
    ASSUME NEW B, NEW rs, NEW pp, NEW c, NEW n, NEW f, Runs(B, rs, pp, c, n, f), NEW e,
           ~(e.on /\ e.event) \/ (e.on = c.on /\ e.event = c.event /\ e.pos = c.pos)
    PROVE  Runs(B, rs, pp, e, n, f)
BY DEF Runs

LEMMA NoStartAppended ==
    ASSUME NEW pp \in Seq(Messages), NEW m \in Messages
    PROVE  /\ \A i \in 1..(Len(pp) + 1) : NoStart(Append(pp, m), i) => NoStart(pp, i)
           /\ NoStart(Append(pp, m), Len(pp) + 2) => NoStart(pp, Len(pp) + 1) /\ m.kind # "event-start"
<1>1. /\ Len(pp) \in Nat /\ DOMAIN pp = 1..Len(pp) /\ DOMAIN Append(pp, m) = 1..Len(pp) + 1
      /\ (\A j \in 1..Len(pp) : Append(pp, m)[j] = pp[j]) /\ Append(pp, m)[Len(pp) + 1] = m
  BY AppendIsTyped
<1>2. ASSUME NEW i \in 1..(Len(pp) + 1), NoStart(Append(pp, m), i) PROVE NoStart(pp, i)
  BY <1>1, <1>2 DEF NoStart
<1>3. ASSUME NoStart(Append(pp, m), Len(pp) + 2) PROVE NoStart(pp, Len(pp) + 1) /\ m.kind # "event-start"
  <2>1. Len(pp) + 1 < Len(pp) + 2 /\ Len(pp) + 1 \in DOMAIN Append(pp, m)
    BY <1>1
  <2>2. m.kind # "event-start" BY <1>1, <1>3, <2>1 DEF NoStart
  <2>3. \A j \in DOMAIN pp : j < Len(pp) + 2 /\ j \in DOMAIN Append(pp, m)
    BY <1>1
  <2>4. NoStart(pp, Len(pp) + 1) BY <1>1, <1>3, <2>3 DEF NoStart
  <2> QED BY <2>2, <2>4
<1> QED BY <1>2, <1>3

LEMMA GoesOnMore ==
    ASSUME NEW B \in Seq(Points), NEW pp \in Seq(Messages), NEW m \in Messages, NEW s, NEW p, NEW n \in Nat,
           NEW f, GoesOn(B, pp, s, p, n, f)
    PROVE  GoesOn(B, Append(pp, m), s, p, n, f)
<1>1. Chunks(B, pp) \subseteq Chunks(B, Append(pp, m)) BY ChunksAppended
<1> QED BY <1>1, HeldLess DEF GoesOn

LEMMA OpenAppended ==
    ASSUME NEW B \in Seq(Points), NEW rs, NEW pp \in Seq(Messages), NEW c, NEW n \in Nat, NEW f,
           Runs(B, rs, pp, c, n, f), NEW m \in Messages,
           Ends(m) => c.on /\ c.event /\ m.point = Point(n, c.pos)
    PROVE  /\ Runs(B, rs, Append(pp, m), c, n, f)
           /\ m.kind = "event-start" => \A e : Runs(B, rs, Append(pp, m), e, n, f)
<1> DEFINE a == Append(pp, m)
<1>1. /\ Len(pp) \in Nat /\ DOMAIN pp = 1..Len(pp) /\ DOMAIN a = 1..Len(pp) + 1
      /\ (\A j \in 1..Len(pp) : a[j] = pp[j]) /\ a[Len(pp) + 1] = m /\ Len(a) = Len(pp) + 1
  BY AppendIsTyped
<1> HIDE DEF a
<1> SUFFICES ASSUME rs # <<>>
             PROVE  /\ \A i \in DOMAIN a : Ends(a[i]) /\ NoStart(a, i) =>
                          GoesOn(B, a, Last(rs).start, a[i].point, n, f)
                    /\ NoStart(a, Len(a) + 1) =>
                          /\ m.kind # "event-start"
                          /\ c.on /\ c.event => GoesOn(B, a, Last(rs).start, Point(n, c.pos), n, f)
  BY DEF Runs, a
<1>2. c.on /\ c.event /\ NoStart(pp, Len(pp) + 1) => GoesOn(B, a, Last(rs).start, Point(n, c.pos), n, f)
  BY GoesOnMore DEF Runs, a
<1>3. ASSUME NEW i \in DOMAIN a, Ends(a[i]), NoStart(a, i)
      PROVE  GoesOn(B, a, Last(rs).start, a[i].point, n, f)
  <2>1. i \in 1..(Len(pp) + 1) BY <1>1
  <2>2. NoStart(pp, i) BY <1>3, <2>1, NoStartAppended DEF a
  <2>3. CASE i \in DOMAIN pp
    <3>1. a[i] = pp[i] BY <1>1, <2>3
    <3> QED BY <1>3, <2>2, <2>3, <3>1, GoesOnMore DEF Runs, a
  <2>4. CASE i = Len(pp) + 1 BY <1>1, <1>2, <1>3, <2>2, <2>4
  <2> QED BY <1>1, <2>1, <2>3, <2>4
<1>4. ASSUME NoStart(a, Len(a) + 1)
      PROVE  /\ m.kind # "event-start"
             /\ c.on /\ c.event => GoesOn(B, a, Last(rs).start, Point(n, c.pos), n, f)
  <2>1. Len(a) + 1 = Len(pp) + 2 BY <1>1
  <2>2. NoStart(pp, Len(pp) + 1) /\ m.kind # "event-start"
    BY <1>4, <2>1, NoStartAppended DEF a
  <2> QED BY <1>2, <2>2
<1> QED BY <1>3, <1>4

LEMMA EndsArePointed ==
    \A m : Ends(m) => Pointed(m) /\ ~IsChunk(m) /\ m.kind # "event-start"
BY DEF Ends, Pointed, IsChunk

LEMMA OpenWritten ==
    ASSUME NEW B \in Seq(Points), NEW pp \in Seq(Messages), NEW c, NEW n \in Nat,
           NEW f \in [0..(FileSize - 1) -> Nat], c.pos \in 0..(FileSize - 1),
           Chain(B, pp, c, n, f), c.on, Behind(pp, 0) <= MaxLag,
           NEW rs \in Seq(Records), Runs(B, rs, pp, c, n, f),
           NEW e, e.pos = (c.pos + 1) % FileSize, e.event = c.event
    PROVE  Runs(B, rs, pp, e, n + 1, [f EXCEPT ![c.pos] = n])
<1> DEFINE g == [f EXCEPT ![c.pos] = n]
           s == Last(rs).start
<1>1. \A p \in Points : c.pos = Place(p, n) /\ Held(f, Chunks(B, pp), p, n)
                        => Held(g, Chunks(B, pp), p, n + 1)
  BY UnitWritten
<1> HIDE DEF g
<1> SUFFICES ASSUME rs # <<>>
             PROVE  /\ \A i \in DOMAIN pp : Ends(pp[i]) /\ NoStart(pp, i) =>
                          GoesOn(B, pp, s, pp[i].point, n + 1, g)
                    /\ e.on /\ e.event /\ NoStart(pp, Len(pp) + 1) =>
                          GoesOn(B, pp, s, Point(n + 1, e.pos), n + 1, g)
  BY DEF Runs, g
<1>2. s \in Points BY RecordPoints
<1>3. /\ \A i \in DOMAIN pp : Ends(pp[i]) /\ NoStart(pp, i) => GoesOn(B, pp, s, pp[i].point, n, f)
      /\ c.event /\ NoStart(pp, Len(pp) + 1) => GoesOn(B, pp, s, Point(n, c.pos), n, f)
  BY DEF Runs
<1> HIDE DEF s
<1>4. /\ Point(n, c.pos).t = n /\ Point(n, c.pos).pos = c.pos
      /\ (c.pos + 1) % FileSize \in 0..(FileSize - 1)
      /\ Point(n + 1, e.pos).t = n + 1 /\ Point(n + 1, e.pos).pos = e.pos
  <2>1. c.pos + 1 \in Nat /\ n + 1 \in Nat OBVIOUS
  <2>2. (c.pos + 1) % FileSize \in 0..(FileSize - 1) BY <2>1, PositionsWrap
  <2> QED BY <2>1, <2>2, PointsAreTyped
<1>5. ASSUME NEW i \in DOMAIN pp, Ends(pp[i]), NoStart(pp, i)
      PROVE  GoesOn(B, pp, s, pp[i].point, n + 1, g)
  <2> DEFINE p == pp[i].point
  <2>1. p \in Points
    <3>1. pp[i] \in Messages BY ElementOfSeq
    <3> QED BY <3>1 DEF Messages
  <2>2. p.t \in Nat BY <2>1, PointsAreTyped
  <2>3. c.pos = Place(p, n)
    BY <1>4, <1>5, EndsArePointed DEF Chain, Writes, Sent
  <2>4. p.pos = Place(s, p.t) /\ Held(f, Chunks(B, pp), s, n)
    BY <1>3, <1>5 DEF GoesOn
  <2> HIDE DEF p
  <2>5. Place(p, n) = Place(s, n) BY <1>2, <2>1, <2>2, <2>4, Places
  <2>6. Held(g, Chunks(B, pp), s, n + 1) BY <1>1, <1>2, <2>3, <2>4, <2>5
  <2> QED BY <2>4, <2>6 DEF GoesOn, p
<1>6. ASSUME e.on, e.event, NoStart(pp, Len(pp) + 1)
      PROVE  GoesOn(B, pp, s, Point(n + 1, e.pos), n + 1, g)
  <2>1. c.pos = Place(s, n) /\ Held(f, Chunks(B, pp), s, n)
    BY <1>3, <1>4, <1>6 DEF GoesOn
  <2>2. (Place(s, n) + 1) % FileSize = Place(s, n + 1) BY <1>2, Places
  <2>3. e.pos = Place(s, n + 1) BY <2>1, <2>2
  <2>4. Held(g, Chunks(B, pp), s, n + 1) BY <1>1, <1>2, <2>1
  <2> QED BY <1>4, <2>3, <2>4 DEF GoesOn
<1> QED BY <1>5, <1>6

LEMMA NoStartHandled ==
    ASSUME NEW pp \in Seq(Messages), pp # <<>>, Head(pp).kind # "event-start", NEW i \in 1..Len(pp),
           NoStart(Tail(pp), i)
    PROVE  NoStart(pp, i + 1)
<1>1. /\ Len(pp) \in Nat /\ DOMAIN pp = 1..Len(pp) /\ DOMAIN Tail(pp) = 1..Len(pp) - 1
      /\ (\A j \in 1..Len(pp) - 1 : Tail(pp)[j] = pp[j + 1]) /\ Head(pp) = pp[1]
  BY TailIsTyped
<1> SUFFICES ASSUME NEW j \in DOMAIN pp, j < i + 1 PROVE pp[j].kind # "event-start"
  BY DEF NoStart
<1>2. CASE j = 1 BY <1>1, <1>2
<1>3. CASE j # 1
  <2>1. j - 1 \in DOMAIN Tail(pp) /\ j - 1 < i /\ Tail(pp)[j - 1] = pp[j]
    BY <1>1, <1>3
  <2> QED BY <2>1 DEF NoStart
<1> QED BY <1>2, <1>3

(* A message that is no start is handled: what is open stays open.          *)
LEMMA OpenHandled ==
    ASSUME NEW B \in Seq(Points), NEW C \in Seq(Points), NEW pp \in Seq(Messages), pp # <<>>,
           Head(pp).kind # "event-start", NEW rs, NEW c, NEW n \in Nat, NEW f,
           Runs(B, rs, pp, c, n, f), NEW qs, qs # <<>> => rs # <<>>,
           \A p \in {Point(n, c.pos)} \cup {Tail(pp)[i].point : i \in DOMAIN Tail(pp)} :
              qs # <<>> /\ GoesOn(B, pp, Last(rs).start, p, n, f)
                 => GoesOn(C, Tail(pp), Last(qs).start, p, n, f)
    PROVE  Runs(C, qs, Tail(pp), c, n, f)
<1> DEFINE a == Tail(pp)
<1>1. /\ Len(pp) \in Nat /\ Len(pp) >= 1 /\ DOMAIN pp = 1..Len(pp) /\ DOMAIN a = 1..Len(pp) - 1
      /\ Len(a) = Len(pp) - 1 /\ \A j \in 1..Len(pp) - 1 : a[j] = pp[j + 1]
  BY TailIsTyped
<1> HIDE DEF a
<1> SUFFICES ASSUME qs # <<>>
             PROVE  /\ \A i \in DOMAIN a : Ends(a[i]) /\ NoStart(a, i) =>
                          GoesOn(C, a, Last(qs).start, a[i].point, n, f)
                    /\ c.on /\ c.event /\ NoStart(a, Len(a) + 1) =>
                          GoesOn(C, a, Last(qs).start, Point(n, c.pos), n, f)
  BY DEF Runs, a
<1>2. ASSUME NEW i \in DOMAIN a, Ends(a[i]), NoStart(a, i)
      PROVE  GoesOn(C, a, Last(qs).start, a[i].point, n, f)
  <2>1. i \in 1..Len(pp) /\ i + 1 \in DOMAIN pp /\ a[i] = pp[i + 1] BY <1>1
  <2>2. NoStart(pp, i + 1) BY <1>2, <2>1, NoStartHandled DEF a
  <2>3. GoesOn(B, pp, Last(rs).start, a[i].point, n, f)
    BY <1>2, <2>1, <2>2 DEF Runs
  <2> QED BY <2>3 DEF a
<1>3. ASSUME c.on, c.event, NoStart(a, Len(a) + 1)
      PROVE  GoesOn(C, a, Last(qs).start, Point(n, c.pos), n, f)
  <2>1. Len(a) + 1 = Len(pp) /\ Len(pp) \in 1..Len(pp) BY <1>1
  <2>2. NoStart(pp, Len(pp) + 1) BY <1>3, <2>1, NoStartHandled DEF a
  <2>3. GoesOn(B, pp, Last(rs).start, Point(n, c.pos), n, f)
    BY <1>3, <2>2 DEF Runs
  <2> QED BY <2>3 DEF a
<1> QED BY <1>2, <1>3

LEMMA OpenKept ==
    ASSUME NEW B \in Seq(Points), NEW pp \in Seq(Messages), pp # <<>>,
           Head(pp).kind # "event-start", ~IsChunk(Head(pp)), NEW rs, NEW c, NEW n \in Nat, NEW f,
           Runs(B, rs, pp, c, n, f), NEW qs,
           qs # <<>> => rs # <<>> /\ Last(qs).start = Last(rs).start
    PROVE  Runs(B, qs, Tail(pp), c, n, f)
<1>1. Chunks(B, pp) \subseteq Chunks(B, Tail(pp)) BY ChunksKept
<1>2. ASSUME NEW p, qs # <<>>, GoesOn(B, pp, Last(rs).start, p, n, f)
      PROVE  GoesOn(B, Tail(pp), Last(qs).start, p, n, f)
  BY <1>1, <1>2, HeldLess DEF GoesOn
<1> QED BY <1>2, OpenHandled

(* The record of an event that starts is open.                              *)
LEMMA OpenStarted ==
    ASSUME NEW B \in Seq(Points), NEW pp \in Seq(Messages), pp # <<>>,
           Head(pp).kind = "event-start", NEW c, NEW n \in Nat, NEW f,
           Chain(B, pp, c, n, f), NEW qs, qs # <<>> => Last(qs).start = Head(pp).point
    PROVE  Runs(B, qs, Tail(pp), c, n, f)
<1> DEFINE a == Tail(pp)
           p == Head(pp).point
<1>1. /\ Len(pp) \in Nat /\ Len(pp) >= 1 /\ DOMAIN pp = 1..Len(pp) /\ DOMAIN a = 1..Len(pp) - 1
      /\ Len(a) = Len(pp) - 1 /\ (\A j \in 1..Len(pp) - 1 : a[j] = pp[j + 1]) /\ Head(pp) = pp[1]
  BY TailIsTyped
<1>2. 1 \in DOMAIN pp /\ Pointed(pp[1]) /\ pp[1].point = p /\ ~IsChunk(Head(pp))
  BY <1>1 DEF Pointed, IsChunk
<1>3. Chunks(B, pp) \subseteq Chunks(B, a) BY <1>2, ChunksKept
<1> HIDE DEF a
<1>4. Held(f, Chunks(B, a), p, n)
  <2>1. Held(f, Chunks(B, pp), p, n) BY <1>2 DEF Chain, Units
  <2> QED BY <1>3, <2>1, HeldLess
<1> HIDE DEF p
<1>5. ASSUME NEW i \in DOMAIN a, Ends(a[i]) PROVE a[i].point.pos = Place(p, a[i].point.t)
  <2>1. i + 1 \in DOMAIN pp /\ a[i] = pp[i + 1] /\ 1 < i + 1 BY <1>1
  <2>2. Pointed(pp[i + 1]) BY <1>5, <2>1, EndsArePointed
  <2> QED BY <1>2, <2>1, <2>2 DEF Chain, Ordered
<1>6. c.on => Point(n, c.pos).pos = Place(p, Point(n, c.pos).t)
  BY <1>2 DEF Chain, Writes, Sent
<1> QED BY <1>4, <1>5, <1>6 DEF Runs, GoesOn, a, p

(***************************************************************************)
(* Events: a record begins, and the last record is updated.                 *)
(***************************************************************************)
LEMMA RecsStarted ==
    ASSUME NEW B \in Seq(Points), NEW pp \in Seq(Messages), pp # <<>>, Pointed(Head(pp)),
           NEW c, NEW n \in Nat, NEW f, Chain(B, pp, c, n, f),
           NEW rs \in Seq(Records), Recs(B, rs, pp, n, f),
           NEW r \in Records, r.start = Head(pp).point, r.end = Head(pp).point
    PROVE  Recs(B, Append(rs, r), Tail(pp), n, f)
<1> DEFINE a == Tail(pp)
           p == Head(pp).point
           qs == Append(rs, r)
           l == Len(rs)
<1>1. /\ Len(pp) \in Nat /\ Len(pp) >= 1 /\ DOMAIN pp = 1..Len(pp) /\ DOMAIN a = 1..Len(pp) - 1
      /\ (\A j \in 1..Len(pp) - 1 : a[j] = pp[j + 1]) /\ Head(pp) = pp[1] /\ Head(pp) \in Messages
  BY TailIsTyped
<1>2. 1 \in DOMAIN pp /\ Pointed(pp[1]) /\ pp[1].point = p BY <1>1
<1>3. /\ l \in Nat /\ DOMAIN rs = 1..l /\ DOMAIN qs = 1..l + 1
      /\ (\A j \in 1..l : qs[j] = rs[j]) /\ qs[l + 1] = r
  BY AppendIsTyped
<1>4. p \in Points /\ p.t \in Nat /\ p.t <= n
  <2>1. p \in Points BY <1>1 DEF Messages
  <2> QED BY <1>2, <2>1, PointsAreTyped DEF Chain, Ordered
<1> HIDE DEF a, p, qs, l
<1>5. r.start = p /\ r.end = p BY DEF p
<1>6. Spans(B, r, n, f)
  <2>1. Place(p, p.t) = p.pos BY <1>4, Places
  <2>2. p.t <= p.t /\ p.pos = Place(p, p.t) BY <1>4, <2>1
  <2> QED BY <1>4, <1>5, <2>2, HeldFromNow DEF Spans
<1>7. \A i \in DOMAIN qs : (i \in DOMAIN rs /\ qs[i] = rs[i]) \/ (i = l + 1 /\ qs[i] = r)
  BY <1>3
<1>8. \A i \in DOMAIN qs : Spans(B, qs[i], n, f) BY <1>6, <1>7 DEF Recs
<1>9. ASSUME NEW i \in DOMAIN qs, NEW j \in DOMAIN qs, i < j PROVE qs[i].end.t <= qs[j].start.t
  <2>1. i \in DOMAIN rs /\ qs[i] = rs[i] BY <1>3, <1>9
  <2>2. CASE j \in DOMAIN rs /\ qs[j] = rs[j] BY <1>9, <2>1, <2>2 DEF Recs
  <2>3. CASE qs[j] = r BY <1>2, <1>5, <2>1, <2>3 DEF Recs
  <2> QED BY <1>7, <2>2, <2>3
<1>10. ASSUME NEW i \in DOMAIN qs, NEW j \in DOMAIN a, Pointed(a[j]) PROVE qs[i].end.t <= a[j].point.t
  <2>1. j + 1 \in DOMAIN pp /\ 1 < j + 1 /\ a[j] = pp[j + 1] BY <1>1
  <2>2. CASE i \in DOMAIN rs /\ qs[i] = rs[i] BY <1>10, <2>1, <2>2 DEF Recs
  <2>3. CASE qs[i] = r BY <1>2, <1>5, <1>10, <2>1, <2>3 DEF Chain, Ordered
  <2> QED BY <1>7, <2>2, <2>3
<1> QED BY <1>8, <1>9, <1>10 DEF Recs, a, qs

(* The units before a message are in the chunks of the points.              *)
LEMMA HeldBefore ==
    ASSUME NEW B \in Seq(Points), NEW pp \in Seq(Messages), pp # <<>>, ~IsChunk(Head(pp)), Pointed(Head(pp)),
           NEW c, NEW n \in Nat, NEW f, Chain(B, pp, c, n, f), NEW s,
           Held(f, Chunks(B, pp), s, n)
    PROVE  Held(f, Chunks(B, <<>>), s, Head(pp).point.t)
<1> DEFINE p == Head(pp).point
<1>1. /\ Len(pp) \in Nat /\ Len(pp) >= 1 /\ DOMAIN pp = 1..Len(pp)
      /\ Head(pp) = pp[1] /\ Head(pp) \in Messages
  BY TailIsTyped
<1>2. 1 \in DOMAIN pp /\ pp[1].point = p /\ Pointed(pp[1]) BY <1>1
<1>3. p.t \in Nat /\ p.t <= n
  <2>1. p \in Points BY <1>1 DEF Messages
  <2> QED BY <1>2, <2>1, PointsAreTyped DEF Chain, Ordered
<1> HIDE DEF p
<1> SUFFICES ASSUME NEW t \in Nat, s.t <= t, t < p.t
             PROVE  \E q \in Chunks(B, <<>>) : Stored(f, q, s, t)
  BY DEF Held, p
<1>4. t < n BY <1>3
<1>5. PICK q \in Chunks(B, pp) : Stored(f, q, s, t) BY <1>4 DEF Held
<1>6. CASE \E i \in DOMAIN B : q = B[i]
  <2>1. <<>> \in Seq(Messages) BY EmptySeq
  <2>2. q \in Chunks(B, <<>>) BY <1>6, <2>1, ChunksOf
  <2> QED BY <1>5, <2>2
<1>7. CASE \E i \in DOMAIN pp : IsChunk(pp[i]) /\ q = pp[i].point
  <2>1. PICK i \in DOMAIN pp : IsChunk(pp[i]) /\ q = pp[i].point BY <1>7
  <2>2. 1 < i /\ Pointed(pp[i]) BY <1>1, <2>1 DEF Pointed, IsChunk
  <2>3. p.t <= q.t BY <1>2, <2>1, <2>2 DEF Chain, Ordered
  <2>4. q \in Points /\ q.t <= t BY <1>5, ChunksOf DEF Stored
  <2>5. q.t \in Nat BY <2>4, PointsAreTyped
  <2> QED BY <1>3, <2>3, <2>4, <2>5
<1> QED BY <1>6, <1>7, ChunksOf

LEMMA RecsUpdated ==
    ASSUME NEW B \in Seq(Points), NEW pp \in Seq(Messages), pp # <<>>, Ends(Head(pp)),
           NEW c, NEW n \in Nat, NEW f, Chain(B, pp, c, n, f),
           NEW rs \in Seq(Records), Recs(B, rs, pp, n, f), Runs(B, rs, pp, c, n, f),
           NEW b \in BOOLEAN
    PROVE  LET qs == UpdateLastRecord(rs, Head(pp).point, b) IN
           /\ Recs(B, qs, Tail(pp), n, f) /\ qs \in Seq(Records) /\ (qs # <<>> <=> rs # <<>>)
           /\ qs # <<>> => Last(qs).start = Last(rs).start /\ Last(qs).end = Head(pp).point
<1> DEFINE p == Head(pp).point
           a == Tail(pp)
           qs == UpdateLastRecord(rs, p, b)
<1>1. /\ Len(pp) \in Nat /\ Len(pp) >= 1 /\ DOMAIN pp = 1..Len(pp) /\ DOMAIN a = 1..Len(pp) - 1
      /\ (\A j \in 1..Len(pp) - 1 : a[j] = pp[j + 1]) /\ Head(pp) = pp[1] /\ Head(pp) \in Messages
  BY TailIsTyped
<1>2. 1 \in DOMAIN pp /\ pp[1].point = p /\ Pointed(pp[1]) /\ ~IsChunk(Head(pp)) /\ Ends(pp[1])
  BY <1>1, EndsArePointed
<1>3. p \in Points /\ p.t \in Nat /\ p.t <= n
  <2>1. p \in Points BY <1>1 DEF Messages
  <2> QED BY <1>2, <2>1, PointsAreTyped DEF Chain, Ordered
<1>4. Recs(B, rs, a, n, f) BY RecsHandled
<1>5. CASE rs = <<>>
  <2>1. qs = <<>> BY <1>5 DEF UpdateLastRecord
  <2> QED BY <1>4, <1>5, <2>1
<1>6. CASE rs # <<>>
  <2> DEFINE l == Len(rs)
             o == rs[l]
             r == [o EXCEPT !.end = p, !.recording = IF b THEN FALSE ELSE o.recording]
  <2>1. /\ l \in Nat /\ DOMAIN rs = 1..l /\ l \in DOMAIN rs /\ l >= 1
        /\ o \in Records /\ o.start \in Points /\ o.start.t \in Nat /\ o.end.t \in Nat /\ Last(rs) = o
    <3>1. /\ l \in Nat /\ DOMAIN rs = 1..l /\ l \in DOMAIN rs
          /\ o \in Records /\ o.start \in Points /\ o.start.t \in Nat /\ o.end.t \in Nat /\ Last(rs) = o
      BY <1>6, RecordPoints
    <3> QED BY <3>1
  <2>2. qs = [rs EXCEPT ![l] = r] BY <1>6 DEF UpdateLastRecord
  <2>3. r \in Records /\ r.start = o.start /\ r.end = p
    <3>1. o.recording \in BOOLEAN BY <2>1 DEF Records
    <3> DEFINE v == IF b THEN FALSE ELSE o.recording
    <3>2. v \in BOOLEAN BY <3>1
    <3> HIDE DEF v, p, o
    <3>3. [o EXCEPT !.end = p, !.recording = v] \in Records
      BY <1>3, <2>1, <3>2 DEF Records
    <3>4. [o EXCEPT !.end = p, !.recording = v].start = o.start
      BY <2>1 DEF Records
    <3>5. [o EXCEPT !.end = p, !.recording = v].end = p BY <2>1 DEF Records
    <3> QED BY <3>3, <3>4, <3>5 DEF v
  <2> HIDE DEF r, o, qs, p, a
  <2>4. /\ qs \in Seq(Records) /\ Len(qs) = l /\ DOMAIN qs = 1..l
        /\ \A i \in 1..l : qs[i] = IF i = l THEN r ELSE rs[i]
    <3>1. qs \in Seq(Records) /\ Len(qs) = l BY <2>1, <2>2, <2>3, ExceptSeq
    <3>2. \A i \in 1..l : qs[i] = IF i = l THEN r ELSE rs[i] BY <2>1, <2>2
    <3>3. DOMAIN qs = 1..l BY <3>1, LenProperties
    <3> QED BY <3>1, <3>2, <3>3
  <2> HIDE DEF l
  <2>5. qs # <<>> /\ Last(qs) = r
    <3>1. qs # <<>> BY <2>1, <2>4, EmptySeq
    <3> QED BY <2>1, <2>4, <3>1, LastIsTyped
  <2>6. GoesOn(B, pp, o.start, p, n, f)
    <3>1. NoStart(pp, 1) BY <1>1 DEF NoStart
    <3> QED BY <1>2, <1>6, <2>1, <3>1 DEF Runs
  <2>7. o.end.t <= p.t /\ o.start.t <= o.end.t
    BY <1>2, <2>1 DEF Recs, Spans, o
  <2>8. Held(f, Chunks(B, <<>>), o.start, p.t)
    BY <1>1, <1>2, <2>6, HeldBefore DEF GoesOn, p
  <2>9. Spans(B, r, n, f)
    <3>1. o.start.t <= p.t BY <1>3, <2>1, <2>7
    <3> QED BY <1>3, <2>3, <2>6, <2>8, <3>1 DEF Spans, GoesOn
  <2>10. \A i \in DOMAIN qs : Spans(B, qs[i], n, f)
    BY <1>4, <2>1, <2>4, <2>9 DEF Recs
  <2>11. ASSUME NEW i \in DOMAIN qs, NEW j \in DOMAIN qs, i < j PROVE qs[i].end.t <= qs[j].start.t
    <3>1. i \in DOMAIN rs /\ j \in DOMAIN rs /\ qs[i] = rs[i]
      BY <2>1, <2>4, <2>11
    <3>2. qs[j].start = rs[j].start BY <2>3, <2>4 DEF o
    <3> QED BY <1>4, <2>11, <3>1, <3>2 DEF Recs
  <2>12. ASSUME NEW i \in DOMAIN qs, NEW j \in DOMAIN a, Pointed(a[j]) PROVE qs[i].end.t <= a[j].point.t
    <3>1. j + 1 \in DOMAIN pp /\ 1 < j + 1 /\ a[j] = pp[j + 1] BY <1>1
    <3>2. CASE i = l
      <4>1. qs[i].end = p BY <2>3, <2>4, <3>2
      <4> QED BY <1>2, <2>12, <3>1, <4>1 DEF Chain, Ordered
    <3>3. CASE i # l
      <4>1. i \in DOMAIN rs /\ qs[i] = rs[i] BY <2>1, <2>4, <3>3
      <4> QED BY <1>4, <2>12, <4>1 DEF Recs
    <3> QED BY <3>2, <3>3
  <2>13. Recs(B, qs, a, n, f) BY <2>10, <2>11, <2>12 DEF Recs
  <2> QED BY <1>6, <2>1, <2>3, <2>4, <2>5, <2>13 DEF qs, a, p
<1> QED BY <1>5, <1>6

(***************************************************************************)
(* The oldest chunk goes: the records lose what was in it.                  *)
(***************************************************************************)
(* Apart: no chunk of S shares a time with chunk q.                         *)
Apart(S, q) == \A x \in S : x = q \/ x.t + ChunkSize <= q.t \/ q.t + ChunkSize <= x.t

SameLine(p, q) == \A t \in Nat : Place(p, t) = Place(q, t)

(* All chunks of S but the earlier ones are in T; u is s, but not before q. *)
Leaves(S, T, q) == \A x \in S : x \in T \/ x.t + ChunkSize <= q.t
Cut(s, q, u) == (s.t < q.t /\ u = q) \/ (~(s.t < q.t) /\ u = s)

LEMMA HeldCropped ==
    ASSUME NEW f, NEW S \in SUBSET Points, NEW T, NEW q \in S, Apart(S, q),
           Leaves(S, T, q),
           NEW s \in Points, NEW b \in Nat, Held(f, S, s, b), NEW u,
           Cut(s, q, u), q.t < b
    PROVE  /\ Held(f, T, u, b) /\ u \in Points /\ q.t <= u.t /\ s.t <= u.t
           /\ SameLine(u, s)
           /\ s.t <= b => u.t <= b
<1>1. /\ q \in Points /\ q.t \in Nat /\ s.t \in Nat /\ ChunkSize \in Nat /\ ChunkSize > 0
      /\ q.pos \in 0..(FileSize - 1) /\ \A x \in S : x \in Points /\ x.t \in Nat
  BY PointsAreTyped, Sizes
<1>2. u \in Points /\ q.t <= u.t /\ s.t <= u.t /\ (s.t <= b => u.t <= b)
  BY <1>1 DEF Cut
<1>3. \A t \in Nat : Place(u, t) = Place(s, t)
  <2>1. CASE u = s BY <2>1
  <2>2. CASE s.t < q.t /\ u = q
    <3>1. PICK x \in S : Stored(f, x, s, q.t) BY <1>1, <2>2 DEF Held
    <3>2. x.t \in Nat /\ x.t <= q.t /\ q.t < x.t + ChunkSize
      BY <1>1, <3>1 DEF Stored
    <3>3. x = q \/ x.t + ChunkSize <= q.t \/ q.t + ChunkSize <= x.t
      BY DEF Apart
    <3>4. x = q BY <1>1, <3>2, <3>3
    <3>5. Place(s, q.t) = q.pos + (q.t - q.t) BY <3>1, <3>4 DEF Stored
    <3>6. q.pos + (q.t - q.t) = q.pos BY <1>1
    <3>7. q.pos = Place(s, q.t) BY <3>5, <3>6
    <3> QED BY <1>1, <2>2, <3>7, Places
  <2> QED BY <2>1, <2>2 DEF Cut
<1>4. ASSUME NEW t \in Nat, u.t <= t, t < b PROVE \E x \in T : Stored(f, x, u, t)
  <2>1. u.t \in Nat BY <1>2, PointsAreTyped
  <2>2. s.t <= t BY <1>1, <1>2, <1>4, <2>1
  <2>3. PICK x \in S : Stored(f, x, s, t) BY <1>4, <2>2 DEF Held
  <2>4. x.t \in Nat /\ t < x.t + ChunkSize BY <1>1, <2>3 DEF Stored
  <2>5. x \in T BY <1>1, <1>2, <1>4, <2>1, <2>4 DEF Leaves
  <2>6. Stored(f, x, u, t) BY <1>3, <2>3 DEF Stored
  <2> QED BY <2>5, <2>6
<1> QED BY <1>2, <1>3, <1>4 DEF Held, SameLine

(* Trimmed: the records from the first one that ends after q, from q on.    *)
Trimmed(rs, qs, q) ==
    \E m \in Nat :
       /\ Len(qs) + m = Len(rs)
       /\ \A i \in DOMAIN qs : /\ i + m \in DOMAIN rs /\ qs[i].end = rs[i + m].end /\ q.t < qs[i].end.t
                               /\ qs[i].start = (IF rs[i + m].start.t < q.t THEN q ELSE rs[i + m].start)

LEMMA TrimmedRecords ==
    ASSUME NEW rs \in Seq(Records), NEW q \in Points,
           \A i \in DOMAIN rs : rs[i].start.t <= rs[i].end.t,
           \A i, j \in DOMAIN rs : i < j => rs[i].end.t <= rs[j].start.t
    PROVE  LET qs == CropRecordToBeOverwritten(PurgeExpiredRecords(rs, q), q) IN
           /\ qs \in Seq(Records) /\ Trimmed(rs, qs, q)
           /\ rs # <<>> /\ q.t < Last(rs).end.t => qs # <<>>
<1> DEFINE kept == {i \in DOMAIN rs : rs[i].end.t > q.t}
           pr == PurgeExpiredRecords(rs, q)
           qs == CropRecordToBeOverwritten(pr, q)
<1>1. /\ Len(rs) \in Nat /\ DOMAIN rs = 1..Len(rs) /\ q.t \in Nat
      /\ \A i \in DOMAIN rs : /\ rs[i] \in Records /\ rs[i].start \in Points
                              /\ rs[i].start.t \in Nat /\ rs[i].end.t \in Nat
      /\ rs # <<>> => Last(rs) = rs[Len(rs)] /\ Len(rs) \in DOMAIN rs
  BY RecordPoints, PointsAreTyped
<1>2. pr = IF kept = {} THEN <<>> ELSE SubSeq(rs, Min(kept), Len(rs))
  BY DEF PurgeExpiredRecords
<1>3. CASE kept = {}
  <2>1. pr = <<>> /\ pr \in Seq(Records) /\ Len(pr) = 0 /\ DOMAIN pr = {}
    BY <1>2, <1>3, EmptySeq
  <2>2. qs = pr BY <2>1 DEF CropRecordToBeOverwritten
  <2>3. Trimmed(rs, qs, q)
    <3> HIDE DEF qs, pr
    <3>1. Len(qs) + Len(rs) = Len(rs) /\ DOMAIN qs = {} BY <1>1, <2>1, <2>2
    <3> QED BY <1>1, <3>1 DEF Trimmed
  <2>4. ~(rs # <<>> /\ q.t < Last(rs).end.t)
    <3>1. rs # <<>> => ~(rs[Len(rs)].end.t > q.t) BY <1>1, <1>3
    <3> QED BY <1>1, <3>1
  <2> QED BY <2>1, <2>2, <2>3, <2>4
<1>4. CASE kept # {}
  <2> DEFINE l == Min(kept)
  <2>1. kept \in SUBSET Nat BY <1>1
  <2>2. l \in kept /\ \A y \in kept : l <= y BY <1>4, <2>1, MinOfNaturals
  <2>3. l \in 1..Len(rs) /\ l \in DOMAIN rs /\ rs[l].end.t > q.t BY <1>1, <2>2
  <2>4. pr = SubSeq(rs, l, Len(rs)) BY <1>2, <1>4
  <2> HIDE DEF l, kept, pr
  <2> DEFINE m == l - 1
             k == Len(rs) - m
  <2>5. /\ pr \in Seq(Records) /\ Len(pr) = k /\ k \in Nat /\ k >= 1 /\ m \in Nat /\ m + 1 = l /\ k + m = Len(rs)
        /\ \A i \in 1..k : pr[i] = rs[i + m] /\ i + m \in DOMAIN rs
    <3>1. /\ pr \in Seq(Records) /\ Len(pr) = Len(rs) - l + 1
          /\ \A i \in 1..Len(rs) - l + 1 : pr[i] = rs[l + i - 1]
      BY <2>3, <2>4, SuffixIsTyped
    <3>2. k \in Nat /\ k >= 1 /\ m \in Nat /\ m + 1 = l /\ Len(rs) - l + 1 = k /\ k + m = Len(rs)
      <4>1. \A u \in Nat : \A v \in 1..u : /\ u - (v - 1) \in Nat /\ u - (v - 1) >= 1 /\ v - 1 \in Nat
                                           /\ (v - 1) + 1 = v /\ u - v + 1 = u - (v - 1)
                                           /\ (u - (v - 1)) + (v - 1) = u
        OBVIOUS
      <4> QED BY <1>1, <2>3, <4>1
    <3>3. \A i \in 1..k : l + i - 1 = i + m /\ i + m \in DOMAIN rs
      BY <1>1, <2>3
    <3> HIDE DEF k, m
    <3> QED BY <3>1, <3>2, <3>3
  <2> HIDE DEF k, m
  <2>6. DOMAIN pr = 1..k /\ pr # <<>> /\ 1 \in 1..k
    <3>1. DOMAIN pr = 1..k /\ 1 \in 1..k BY <2>5, LenProperties
    <3> QED BY <2>5, <3>1, EmptySeq
  <2>7. \A i \in 1..k : q.t < pr[i].end.t /\ (i # 1 => ~(pr[i].start.t < q.t))
    <3> TAKE i \in 1..k
    <3>1. pr[i] = rs[i + m] /\ i + m \in DOMAIN rs /\ l \in DOMAIN rs
      BY <2>3, <2>5
    <3>2. CASE i = 1 BY <2>3, <2>5, <3>1, <3>2
    <3>3. CASE i # 1
      <4>1. l < i + m BY <2>5, <3>3
      <4>2. rs[l].end.t <= rs[i + m].start.t /\ rs[i + m].start.t <= rs[i + m].end.t
        BY <3>1, <4>1
      <4>3. rs[l].end.t \in Nat /\ rs[i + m].start.t \in Nat /\ rs[i + m].end.t \in Nat
        BY <1>1, <3>1
      <4> QED BY <1>1, <2>3, <3>1, <4>2, <4>3
    <3> QED BY <3>2, <3>3
  <2>8. CASE ~(pr[1].start.t < q.t)
    <3>1. qs = pr BY <2>8 DEF CropRecordToBeOverwritten
    <3>2. \A i \in 1..k : pr[i].start = (IF rs[i + m].start.t < q.t THEN q ELSE rs[i + m].start)
      BY <2>5, <2>7, <2>8
    <3>3. Trimmed(rs, pr, q) BY <2>5, <2>6, <2>7, <3>2 DEF Trimmed
    <3> QED BY <2>5, <2>6, <3>1, <3>3 DEF pr
  <2>9. CASE pr[1].start.t < q.t
    <3> DEFINE r == [pr[1] EXCEPT !.start = q]
    <3>1. qs = [pr EXCEPT ![1] = r]
      BY <2>6, <2>9 DEF CropRecordToBeOverwritten
    <3>2. pr[1] \in Records BY <2>6, <2>5, ElementOfSeq
    <3>3. r \in Records /\ r.end = pr[1].end /\ r.start = q
      <4>1. r \in Records /\ r.end = pr[1].end BY <3>2, RecordsAreTyped
      <4>2. r.start = q BY <3>2 DEF Records
      <4> QED BY <4>1, <4>2
    <3> HIDE DEF r, qs
    <3>4. qs \in Seq(Records) /\ Len(qs) = k
      BY <2>5, <2>6, <3>1, <3>3, ExceptSeq
    <3>5. DOMAIN qs = 1..k /\ qs # <<>> BY <2>5, <3>4, LenProperties, EmptySeq
    <3>6. \A i \in 1..k : /\ qs[i].end = rs[i + m].end /\ q.t < qs[i].end.t
                          /\ qs[i].start = (IF rs[i + m].start.t < q.t THEN q ELSE rs[i + m].start)
      <4> TAKE i \in 1..k
      <4>1. CASE i = 1
        <5>1. qs[1] = r BY <2>6, <3>1
        <5> QED BY <2>5, <2>6, <2>7, <2>9, <3>3, <4>1, <5>1
      <4>2. CASE i # 1
        <5>1. qs[i] = pr[i] BY <2>6, <3>1, <4>2
        <5> QED BY <2>5, <2>7, <4>2, <5>1
      <4> QED BY <4>1, <4>2
    <3>7. Trimmed(rs, qs, q) BY <2>5, <3>4, <3>5, <3>6 DEF Trimmed
    <3> QED BY <3>4, <3>5, <3>7 DEF qs, pr
  <2> QED BY <2>8, <2>9
<1> QED BY <1>3, <1>4

(* A chunk of the points is kept, unless it is the one dropped.             *)
LEMMA PointsTaken ==
    ASSUME NEW B \in Seq(Points), NEW m \in Messages, IsChunk(m),
           NEW mp \in Seq(Points), mp = B \/ (mp = Tail(B) /\ B # <<>>)
    PROVE  \A q \in Chunks(B, <<>>) :
              q \in Chunks(Append(mp, m.point), <<>>) \/ (mp = Tail(B) /\ B # <<>> /\ q = B[1])
<1> DEFINE pp == <<m>>
<1>1. pp \in Seq(Messages) /\ pp # <<>> /\ Head(pp) = m /\ Tail(pp) = <<>>
  OBVIOUS
<1>2. Chunks(B, <<>>) \subseteq Chunks(B, pp) BY <1>1, ChunksOfPoints
<1> HIDE DEF pp
<1>3. \A q \in Chunks(B, pp) :
         q \in Chunks(Append(mp, m.point), <<>>) \/ (mp = Tail(B) /\ B # <<>> /\ q = B[1])
  BY <1>1, ChunksTaken
<1> QED BY <1>2, <1>3

LEMMA ChunksApart ==
    ASSUME NEW B \in Seq(Points), NEW pp \in Seq(Messages), NEW n, Sound(B, n), Beyond(B, pp),
           NEW l \in DOMAIN B
    PROVE  /\ Apart(Chunks(B, pp), B[l])
           /\ l > 1 => B[1].t + ChunkSize <= B[l].t
<1>1. Len(B) \in Nat /\ DOMAIN B = 1..Len(B) BY LenProperties
<1>2. ASSUME NEW x \in Chunks(B, pp)
      PROVE  x = B[l] \/ x.t + ChunkSize <= B[l].t \/ B[l].t + ChunkSize <= x.t
  <2>1. CASE \E i \in DOMAIN B : x = B[i]
    <3>1. PICK i \in DOMAIN B : x = B[i] BY <2>1
    <3>2. i = l \/ i < l \/ l < i BY <1>1
    <3> QED BY <3>1, <3>2 DEF Sound
  <2>2. CASE \E i \in DOMAIN pp : IsChunk(pp[i]) /\ x = pp[i].point
    BY <2>2 DEF Beyond
  <2> QED BY <2>1, <2>2, ChunksOf
<1>3. l > 1 => B[1].t + ChunkSize <= B[l].t BY <1>1 DEF Sound
<1> QED BY <1>2, <1>3 DEF Apart

LEMMA SpansTaken ==
    ASSUME NEW B \in Seq(Points), NEW n \in Nat, Sound(B, n), 2 \in DOMAIN B,
           NEW m \in Messages, IsChunk(m), NEW f, NEW r \in Records, Spans(B, r, n, f),
           NEW x \in Records, x.end = r.end, B[2].t < x.end.t,
           x.start = (IF r.start.t < B[2].t THEN B[2] ELSE r.start)
    PROVE  Spans(Append(Tail(B), m.point), x, n, f) /\ r.start.t <= x.start.t
<1> DEFINE C == Append(Tail(B), m.point)
           S == Chunks(B, <<>>)
           T == Chunks(C, <<>>)
<1>1. /\ r.start \in Points /\ r.end \in Points /\ r.start.t \in Nat /\ r.end.t \in Nat
      /\ x.start \in Points /\ B[2] \in Points /\ B[2].t \in Nat /\ B # <<>> /\ Tail(B) \in Seq(Points)
  <2>1. r.start \in Points /\ r.end \in Points /\ x.start \in Points
    BY DEF Records
  <2>2. B # <<>> /\ B[2] \in Points BY EmptySeq, ElementOfSeq
  <2> QED BY <2>1, <2>2, PointsAreTyped, TailIsTyped
<1>2. Beyond(B, <<>>) /\ <<>> \in Seq(Messages) BY EmptySeq DEF Beyond
<1>3. Apart(S, B[2]) /\ B[1].t + ChunkSize <= B[2].t /\ S \in SUBSET Points /\ B[2] \in S
  <2>1. S \in SUBSET Points /\ B[2] \in S BY <1>2, ChunksOf
  <2>2. Apart(S, B[2]) /\ (2 > 1 => B[1].t + ChunkSize <= B[2].t)
    BY <1>2, ChunksApart
  <2> QED BY <2>1, <2>2
<1>4. \A q \in S : q \in T \/ q.t + ChunkSize <= B[2].t
  BY <1>1, <1>3, PointsTaken
<1> HIDE DEF S, T, C
<1>5. Held(f, S, r.start, r.end.t) /\ r.start.t <= r.end.t /\ r.end.t <= n /\ r.end.pos = Place(r.start, r.end.t)
  BY DEF Spans, S
<1>6. /\ Held(f, T, x.start, r.end.t) /\ r.start.t <= x.start.t /\ x.start.t <= r.end.t
      /\ SameLine(x.start, r.start)
  <2>1. B[2].t < r.end.t /\ x.start = (IF r.start.t < B[2].t THEN B[2] ELSE r.start)
    OBVIOUS
  <2> DEFINE q == B[2]
             u == x.start
             s == r.start
             b == r.end.t
  <2>2. /\ q \in S /\ Apart(S, q) /\ Leaves(S, T, q)
        /\ s \in Points /\ b \in Nat /\ Held(f, S, s, b) /\ q.t < b
        /\ Cut(s, q, u)
    BY <1>1, <1>3, <1>4, <1>5, <2>1 DEF Leaves, Cut
  <2> HIDE DEF q, u, s, b
  <2>3. S \in SUBSET Points BY <1>3
  <2>4. /\ Held(f, T, u, b) /\ s.t <= u.t /\ (s.t <= b => u.t <= b)
        /\ SameLine(u, s)
    BY <2>2, <2>3, HeldCropped
  <2> QED BY <1>5, <2>4 DEF u, s, b
<1> QED BY <1>1, <1>5, <1>6 DEF Spans, SameLine, T, C

LEMMA RecsTaken ==
    ASSUME NEW B \in Seq(Points), NEW pp \in Seq(Messages), pp # <<>>, IsChunk(Head(pp)),
           NEW n \in Nat, Sound(B, n), 2 \in DOMAIN B, NEW f,
           NEW rs \in Seq(Records), Recs(B, rs, pp, n, f),
           NEW qs \in Seq(Records), Trimmed(rs, qs, B[2])
    PROVE  Recs(Append(Tail(B), Head(pp).point), qs, Tail(pp), n, f)
<1> DEFINE C == Append(Tail(B), Head(pp).point)
           a == Tail(pp)
<1>1. Head(pp) \in Messages BY TailIsTyped
<1>2. Recs(B, rs, a, n, f) BY RecsHandled
<1>3. PICK m \in Nat :
         \A i \in DOMAIN qs : /\ i + m \in DOMAIN rs /\ qs[i].end = rs[i + m].end /\ B[2].t < qs[i].end.t
                              /\ qs[i].start = (IF rs[i + m].start.t < B[2].t THEN B[2] ELSE rs[i + m].start)
  BY DEF Trimmed
<1>4. \A i \in DOMAIN qs : Spans(C, qs[i], n, f) /\ rs[i + m].start.t <= qs[i].start.t
  <2> TAKE i \in DOMAIN qs
  <2>1. i + m \in DOMAIN rs /\ rs[i + m] \in Records /\ qs[i] \in Records /\ Spans(B, rs[i + m], n, f)
    BY <1>3, RecordPoints DEF Recs
  <2> QED BY <1>1, <1>3, <2>1, SpansTaken
<1> HIDE DEF C, a
<1>5. ASSUME NEW i \in DOMAIN qs, NEW j \in DOMAIN qs, i < j PROVE qs[i].end.t <= qs[j].start.t
  <2>1. i \in Int /\ j \in Int BY LenProperties
  <2>2. i + m < j + m /\ i + m \in DOMAIN rs /\ j + m \in DOMAIN rs
    BY <1>3, <1>5, <2>1
  <2>3. rs[i + m].end.t <= rs[j + m].start.t BY <1>2, <2>2 DEF Recs
  <2>4. rs[i + m].end.t \in Nat /\ rs[j + m].start.t \in Nat /\ qs[j].start.t \in Nat
    BY <2>2, RecordPoints
  <2>5. qs[i].end = rs[i + m].end /\ rs[j + m].start.t <= qs[j].start.t
    BY <1>3, <1>4
  <2>6. qs[i].end.t = rs[i + m].end.t BY <2>5
  <2>7. rs[j + m].start.t <= qs[j].start.t BY <2>5
  <2> DEFINE u == rs[i + m].end.t
             v == rs[j + m].start.t
             w == qs[j].start.t
  <2>8. u \in Nat /\ v \in Nat /\ w \in Nat /\ u <= v /\ v <= w /\ qs[i].end.t = u
    BY <2>3, <2>4, <2>6, <2>7
  <2> HIDE DEF u, v, w
  <2>9. qs[i].end.t <= w BY <2>8
  <2> QED BY <2>9 DEF w
<1>6. \A i \in DOMAIN qs, j \in DOMAIN a : Pointed(a[j]) => qs[i].end.t <= a[j].point.t
  BY <1>2, <1>3 DEF Recs
<1> QED BY <1>4, <1>5, <1>6 DEF Recs, C, a

LEMMA RecsWithChunk ==
    ASSUME NEW B \in Seq(Points), NEW pp \in Seq(Messages), pp # <<>>, IsChunk(Head(pp)),
           NEW n \in Nat, NEW f, NEW rs \in Seq(Records), Recs(B, rs, pp, n, f)
    PROVE  Recs(Append(B, Head(pp).point), rs, Tail(pp), n, f)
<1> DEFINE C == Append(B, Head(pp).point)
<1>1. Head(pp) \in Messages BY TailIsTyped
<1>2. Recs(B, rs, Tail(pp), n, f) BY RecsHandled
<1>3. Chunks(B, <<>>) \subseteq Chunks(C, <<>>)
  <2>1. \A q \in Chunks(B, <<>>) : q \in Chunks(C, <<>>) \/ (B = Tail(B) /\ B # <<>> /\ q = B[1])
    BY <1>1, PointsTaken
  <2>2. ~(B = Tail(B) /\ B # <<>>) BY TailIsTyped
  <2> QED BY <2>1, <2>2
<1> HIDE DEF C
<1>4. \A i \in DOMAIN rs : Spans(C, rs[i], n, f)
  <2> TAKE i \in DOMAIN rs
  <2>1. Spans(B, rs[i], n, f) /\ rs[i].end.t \in Nat BY RecordPoints DEF Recs
  <2>2. rs[i].end.t <= rs[i].end.t BY <2>1
  <2>3. Held(f, Chunks(C, <<>>), rs[i].start, rs[i].end.t)
    BY <1>3, <2>1, <2>2, HeldLess DEF Spans
  <2> QED BY <2>1, <2>3 DEF Spans
<1> QED BY <1>2, <1>4 DEF Recs, C

LEMMA GoesOnTaken ==
    ASSUME NEW B \in Seq(Points), NEW pp \in Seq(Messages), pp # <<>>, IsChunk(Head(pp)),
           NEW n \in Nat, Sound(B, n), Beyond(B, pp), 2 \in DOMAIN B, B[2].t < n, NEW f,
           NEW s \in Points, NEW u, Cut(s, B[2], u),
           NEW p, p.t \in Nat, GoesOn(B, pp, s, p, n, f)
    PROVE  GoesOn(Append(Tail(B), Head(pp).point), Tail(pp), u, p, n, f)
<1> DEFINE C == Append(Tail(B), Head(pp).point)
           S == Chunks(B, pp)
           T == Chunks(C, Tail(pp))
<1>1. B # <<>> /\ Tail(B) \in Seq(Points) BY EmptySeq, TailIsTyped
<1>2. S \in SUBSET Points /\ B[2] \in S BY ChunksOf
<1>3. Apart(S, B[2]) /\ (2 > 1 => B[1].t + ChunkSize <= B[2].t) BY ChunksApart
<1>4. Leaves(S, T, B[2])
  <2>1. \A x \in S : x \in T \/ x = B[1] BY <1>1, ChunksTaken
  <2> QED BY <1>3, <2>1 DEF Leaves
<1>5. Held(f, S, s, n) /\ p.pos = Place(s, p.t) BY DEF GoesOn
<1> HIDE DEF S, T, C
<1>6. Held(f, T, u, n) /\ SameLine(u, s)
  BY <1>2, <1>3, <1>4, <1>5, HeldCropped
<1> QED BY <1>5, <1>6 DEF GoesOn, SameLine, T, C

LEMMA OpenTaken ==
    ASSUME NEW B \in Seq(Points), NEW pp \in Seq(Messages), pp # <<>>, IsChunk(Head(pp)),
           NEW c, NEW n \in Nat, Sound(B, n), Beyond(B, pp), 2 \in DOMAIN B, NEW f,
           NEW rs \in Seq(Records), Recs(B, rs, pp, n, f), Runs(B, rs, pp, c, n, f),
           NEW qs \in Seq(Records), Trimmed(rs, qs, B[2])
    PROVE  Runs(Append(Tail(B), Head(pp).point), qs, Tail(pp), c, n, f)
<1> DEFINE C == Append(Tail(B), Head(pp).point)
           a == Tail(pp)
<1>1. /\ Head(pp) \in Messages /\ Head(pp).kind # "event-start" /\ a \in Seq(Messages)
      /\ B # <<>> /\ Tail(B) \in Seq(Points)
  <2>1. Head(pp) \in Messages /\ a \in Seq(Messages) /\ B # <<>>
    BY TailIsTyped, EmptySeq
  <2> QED BY <2>1, TailIsTyped DEF IsChunk
<1>2. C \in Seq(Points)
  <2>1. Head(pp).point \in Points BY <1>1 DEF Messages
  <2> QED BY <1>1, <2>1, AppendIsTyped
<1>3. \A p \in {Point(n, c.pos)} \cup {a[i].point : i \in DOMAIN a} : p.t \in Nat
  <2>1. \A i \in DOMAIN a : a[i].point \in Points
    <3> TAKE i \in DOMAIN a
    <3>1. a[i] \in Messages BY <1>1, ElementOfSeq
    <3> QED BY <3>1 DEF Messages
  <2>2. Point(n, c.pos).t \in Nat BY DEF Point
  <2>3. \A i \in DOMAIN a : a[i].point.t \in Nat BY <2>1, PointsAreTyped
  <2> QED BY <2>2, <2>3
<1>4. PICK m \in Nat :
         /\ Len(qs) + m = Len(rs)
         /\ \A i \in DOMAIN qs : /\ i + m \in DOMAIN rs /\ qs[i].end = rs[i + m].end /\ B[2].t < qs[i].end.t
                                 /\ qs[i].start = (IF rs[i + m].start.t < B[2].t THEN B[2] ELSE rs[i + m].start)
  BY DEF Trimmed
<1>5. ASSUME qs # <<>>
      PROVE  /\ rs # <<>> /\ Cut(Last(rs).start, B[2], Last(qs).start) /\ B[2].t < n
             /\ Last(rs).start \in Points
  <2>1. Len(qs) \in DOMAIN qs /\ Last(qs) = qs[Len(qs)] BY <1>5, LastIsTyped
  <2>2. Len(rs) \in DOMAIN rs /\ qs[Len(qs)].end = rs[Len(rs)].end /\ B[2].t < qs[Len(qs)].end.t
        /\ qs[Len(qs)].start = (IF rs[Len(rs)].start.t < B[2].t THEN B[2] ELSE rs[Len(rs)].start)
    BY <1>4, <2>1
  <2>3. rs # <<>> BY <2>2, EmptySeq
  <2>4. /\ Last(rs) = rs[Len(rs)] /\ Last(rs).start \in Points
        /\ rs[Len(rs)].end.t \in Nat
    BY <2>2, <2>3, RecordPoints
  <2>5. Cut(Last(rs).start, B[2], Last(qs).start) BY <2>1, <2>2, <2>4 DEF Cut
  <2>6. rs[Len(rs)].end.t <= n BY <2>2 DEF Recs, Spans
  <2>7. B[2] \in Points /\ B[2].t \in Nat BY ElementOfSeq, PointsAreTyped
  <2>8. B[2].t < rs[Len(rs)].end.t BY <2>2
  <2> QED BY <2>3, <2>4, <2>5, <2>6, <2>7, <2>8
<1>6. \A p \in {Point(n, c.pos)} \cup {a[i].point : i \in DOMAIN a} :
         qs # <<>> /\ GoesOn(B, pp, Last(rs).start, p, n, f) => GoesOn(C, a, Last(qs).start, p, n, f)
  <2> TAKE p \in {Point(n, c.pos)} \cup {a[i].point : i \in DOMAIN a}
  <2>1. p.t \in Nat BY <1>3
  <2> HIDE DEF C, a
  <2> HAVE qs # <<>> /\ GoesOn(B, pp, Last(rs).start, p, n, f)
  <2> QED BY <1>5, <2>1, GoesOnTaken DEF C, a
<1>7. qs # <<>> => rs # <<>> BY <1>5
<1> HIDE DEF C
<1> QED BY <1>1, <1>2, <1>6, <1>7, OpenHandled DEF C

LEMMA OpenWithChunk ==
    ASSUME NEW B \in Seq(Points), NEW pp \in Seq(Messages), pp # <<>>, IsChunk(Head(pp)),
           NEW c, NEW n \in Nat, NEW f, NEW rs, Runs(B, rs, pp, c, n, f)
    PROVE  Runs(Append(B, Head(pp).point), rs, Tail(pp), c, n, f)
<1> DEFINE C == Append(B, Head(pp).point)
<1>1. Head(pp) \in Messages /\ Head(pp).kind # "event-start"
  BY TailIsTyped DEF IsChunk
<1>2. C \in Seq(Points)
  <2>1. Head(pp).point \in Points BY <1>1 DEF Messages
  <2> QED BY <2>1, AppendIsTyped
<1>3. Chunks(B, pp) \subseteq Chunks(C, Tail(pp))
  <2>1. \A q \in Chunks(B, pp) : q \in Chunks(C, Tail(pp)) \/ (B = Tail(B) /\ B # <<>> /\ q = B[1])
    BY ChunksTaken
  <2>2. ~(B = Tail(B) /\ B # <<>>) BY TailIsTyped
  <2> QED BY <2>1, <2>2
<1> HIDE DEF C
<1>4. \A s, p : GoesOn(B, pp, s, p, n, f) => GoesOn(C, Tail(pp), s, p, n, f)
  <2> TAKE s, p
  <2>1. Held(f, Chunks(B, pp), s, n) => Held(f, Chunks(C, Tail(pp)), s, n)
    <3>1. n <= n OBVIOUS
    <3> QED BY <1>3, <3>1, HeldLess
  <2> QED BY <2>1 DEF GoesOn
<1> QED BY <1>1, <1>2, <1>4, OpenHandled DEF C

(* handle_chunk() keeps the chain, the records and the one that is open.    *)
LEMMA Taken ==
    ASSUME NEW B \in Seq(Points), NEW pp \in Seq(Messages), pp # <<>>, IsChunk(Head(pp)),
           NEW c, NEW n \in Nat, NEW f, Chain(B, pp, c, n, f),
           NEW rs \in Seq(Records), Recs(B, rs, pp, n, f), Runs(B, rs, pp, c, n, f)
    PROVE  LET m == Maintain(B, rs)
               C == Append(m.points, Head(pp).point)
           IN  /\ Chain(C, Tail(pp), c, n, f) /\ Geometry(C)
               /\ Recs(C, m.records, Tail(pp), n, f) /\ Runs(C, m.records, Tail(pp), c, n, f)
               /\ B # <<>> => m.points # <<>> /\ Last(m.points) = Last(B)
               /\ rs # <<>> /\ (B # <<>> => Last(B).t < Last(rs).end.t) => m.records # <<>>
<1> DEFINE m == Maintain(B, rs)
           a == Tail(pp)
<1>1. Sound(B, n) /\ Beyond(B, pp) /\ Len(B) <= MaxChunks BY DEF Chain, Sound
<1>2. Len(B) \in Nat /\ DOMAIN B = 1..Len(B) /\ MaxChunks \in Nat /\ MaxChunks > 1
  BY LenProperties, Sizes
<1>3. CASE Len(B) < MaxChunks
  <2>1. m.points = B /\ m.records = rs BY <1>3 DEF Maintain
  <2> HIDE DEF m
  <2>2. Chain(Append(B, Head(pp).point), a, c, n, f) /\ Geometry(Append(B, Head(pp).point))
    BY <1>3, ChainTaken
  <2>3. Recs(Append(B, Head(pp).point), rs, a, n, f) BY RecsWithChunk
  <2>4. Runs(Append(B, Head(pp).point), rs, a, c, n, f) BY OpenWithChunk
  <2> QED BY <2>1, <2>2, <2>3, <2>4 DEF m
<1>4. CASE ~(Len(B) < MaxChunks)
  <2>1. Len(B) = MaxChunks /\ Len(B) > 1 /\ 2 \in DOMAIN B
    <3> HIDE DEF m, a
    <3>1. \A u \in Nat, v \in Nat : u <= v /\ ~(u < v) /\ v > 1 => u = v /\ u > 1 /\ 2 \in 1..u
      OBVIOUS
    <3>2. Len(B) = MaxChunks /\ Len(B) > 1 /\ 2 \in 1..Len(B)
      BY <1>1, <1>2, <1>4, <3>1
    <3> QED BY <1>2, <3>2
  <2>2. B # <<>> /\ B[2] \in Points /\ B[2].t \in Nat
    BY <2>1, EmptySeq, ElementOfSeq, PointsAreTyped
  <2> DEFINE qs == CropRecordToBeOverwritten(PurgeExpiredRecords(rs, B[2]), B[2])
  <2>3. m.points = Tail(B) /\ m.records = qs BY <1>4 DEF Maintain
  <2>4. /\ qs \in Seq(Records) /\ Trimmed(rs, qs, B[2])
        /\ rs # <<>> /\ B[2].t < Last(rs).end.t => qs # <<>>
    <3>1. /\ \A i \in DOMAIN rs : rs[i].start.t <= rs[i].end.t
          /\ \A i, j \in DOMAIN rs : i < j => rs[i].end.t <= rs[j].start.t
      BY DEF Recs, Spans
    <3> QED BY <2>2, <3>1, TrimmedRecords
  <2> HIDE DEF m, qs
  <2>5. /\ Tail(B) \in Seq(Points) /\ Len(Tail(B)) = Len(B) - 1
        /\ Tail(B) # <<>> => Last(Tail(B)) = Last(B)
    BY <2>2, TailIsTyped
  <2>6. Tail(B) # <<>>
    <3>0. \A u \in Nat : u > 1 => u - 1 # 0 OBVIOUS
    <3>1. Len(Tail(B)) # 0 BY <1>2, <2>1, <2>5, <3>0
    <3> QED BY <3>1, <2>5, EmptySeq
  <2>7. Chain(Append(Tail(B), Head(pp).point), a, c, n, f) /\ Geometry(Append(Tail(B), Head(pp).point))
    BY <2>2, <2>5, ChainTaken
  <2>8. Recs(Append(Tail(B), Head(pp).point), qs, a, n, f)
    BY <1>1, <2>1, <2>4, RecsTaken
  <2>9. Runs(Append(Tail(B), Head(pp).point), qs, a, c, n, f)
    BY <1>1, <2>1, <2>4, OpenTaken
  <2>10. B[2].t <= Last(B).t
    <3>1. Last(B) = B[Len(B)] /\ Last(B).t \in Nat
      BY <2>2, LastIsTyped, PointsAreTyped
    <3>2. CASE Len(B) = 2 BY <2>2, <3>1, <3>2
    <3>3. CASE Len(B) # 2
      <4>1. 2 < Len(B) /\ Len(B) \in DOMAIN B BY <1>2, <2>1, <3>3
      <4>2. B[2].t + ChunkSize <= B[Len(B)].t BY <1>1, <2>1, <4>1 DEF Sound
      <4> QED BY <2>2, <3>1, <4>2, Sizes
    <3> QED BY <3>2, <3>3
  <2>11. rs # <<>> /\ (B # <<>> => Last(B).t < Last(rs).end.t) => qs # <<>>
    <3>1. rs # <<>> => Last(rs).end.t \in Nat BY RecordPoints
    <3>2. Last(B).t \in Nat BY <2>2, LastIsTyped, PointsAreTyped
    <3> QED BY <2>2, <2>4, <2>10, <3>1, <3>2
  <2> QED BY <2>2, <2>3, <2>5, <2>6, <2>7, <2>8, <2>9, <2>11 DEF m
<1> QED BY <1>3, <1>4

(***************************************************************************)
(* What the chunks hold can be read.                                        *)
(***************************************************************************)
(* A chunk after the last one is free: the points are fewer than the chunks. *)
LEMMA OneIsFree ==
    ASSUME NEW B \in Seq(Points), B # <<>>, NEW n, Sound(B, n), Geometry(B)
    PROVE  \E x \in 0..(FileSize - 1) : Aligned(x) /\ \A i \in DOMAIN B : B[i].pos # x
<1> DEFINE l == Len(B)
           k == Number(B[l].pos)
           m == NextNumber(k)
           x == m * ChunkSize
<1>1. /\ l \in Nat /\ l >= 1 /\ DOMAIN B = 1..l /\ l \in DOMAIN B /\ l <= MaxChunks
      /\ \A i \in DOMAIN B : Aligned(B[i].pos)
  BY LastIsTyped DEF Sound
<1>2. MaxChunks \in Nat /\ MaxChunks <= NumChunks - 1 /\ NumChunks \in Nat /\ NumChunks > 2
  BY Sizes, ConfigAssumption DEF MaxChunks
<1>3. k \in 0..(NumChunks - 1) BY <1>1, NumbersOfChunks
<1> HIDE DEF k
<1>4. m \in 0..(NumChunks - 1) /\ m # k /\ (m = k + 1 \/ (m = 0 /\ k = NumChunks - 1))
  BY <1>2, <1>3 DEF NextNumber
<1> HIDE DEF m, l
<1>5. Number(x) = m /\ Aligned(x) BY <1>4, NumberIs
<1>6. x \in 0..(FileSize - 1) BY <1>5, NumberOfNext
<1> HIDE DEF x
<1>7. ASSUME NEW i \in DOMAIN B, B[i].pos = x PROVE FALSE
  <2>1. Number(B[i].pos) = m BY <1>5, <1>7
  <2>2. CASE i = l BY <1>4, <2>1, <2>2 DEF k
  <2>3. CASE i # l
    <3>1. i \in Int /\ 1 <= i /\ i < l BY <1>1, <2>3
    <3>2. m + (l - i) - k \in {0, NumChunks}
      BY <1>1, <2>1, <3>1 DEF Geometry, k
    <3> DEFINE s == l - i
    <3>3. s \in Nat /\ s >= 1 /\ s <= NumChunks - 2 BY <1>1, <1>2, <3>1
    <3>4. m + s - k \in {0, NumChunks} BY <3>2
    <3> HIDE DEF s
    <3> QED BY <1>2, <1>3, <1>4, <3>3, <3>4
  <2> QED BY <2>2, <2>3
<1> QED BY <1>5, <1>6, <1>7

(* Where and when a position is written next.                               *)
LEMMA NextTimeOf ==
    ASSUME NEW s \in Points, NEW x \in 0..(FileSize - 1)
    PROVE  \E t \in Nat : s.t <= t /\ t < s.t + FileSize /\ Place(s, t) = x
<1> DEFINE d == (x - s.pos) % FileSize
           t == s.t + d
<1>1. FileSize \in Nat /\ FileSize > 0 /\ s.t \in Nat /\ s.pos \in 0..(FileSize - 1)
  BY Sizes, PointsAreTyped
<1>2. d \in 0..(FileSize - 1)
  <2>1. x - s.pos \in Int BY <1>1
  <2> QED BY <1>1, <2>1, Division
<1>3. (d + s.pos) % FileSize = x
  <2>1. x - s.pos \in Int /\ (x - s.pos) + s.pos = x /\ s.pos \in Int BY <1>1
  <2>2. (d + s.pos) % FileSize = ((x - s.pos) + s.pos) % FileSize
    BY <1>1, <2>1, Sums
  <2>3. x % FileSize = x BY <1>1, Remainders
  <2> QED BY <2>1, <2>2, <2>3
<1> HIDE DEF d
<1>4. t \in Nat /\ s.t <= t /\ t < s.t + FileSize /\ s.pos + (t - s.t) = d + s.pos
  BY <1>1, <1>2
<1>5. Place(s, t) = x BY <1>3, <1>4 DEF Place
<1> QED BY <1>4, <1>5

LEMMA SpansAreShort ==
    ASSUME NEW B \in Seq(Points), NEW n, Sound(B, n), Geometry(B), NEW f,
           NEW r \in Records, Spans(B, r, n, f)
    PROVE  r.end.t - r.start.t < FileSize
<1> DEFINE s == r.start
           e == r.end.t
<1>1. /\ FileSize \in Nat /\ FileSize > 0 /\ ChunkSize \in Nat
      /\ s \in Points /\ s.t \in Nat /\ e \in Nat
  <2>1. s \in Points /\ r.end \in Points BY DEF Records
  <2> QED BY <2>1, Sizes, PointsAreTyped
<1>2. Held(f, Chunks(B, <<>>), s, e) BY DEF Spans
<1> HIDE DEF s, e
<1> SUFFICES ASSUME e - s.t >= FileSize PROVE FALSE BY <1>1 DEF s, e
<1>3. B # <<>>
  <2>1. s.t <= s.t /\ s.t < e BY <1>1
  <2>2. \E q \in Chunks(B, <<>>) : Stored(f, q, s, s.t)
    BY <1>1, <1>2, <2>1 DEF Held
  <2>3. <<>> \in Seq(Messages) BY EmptySeq
  <2> QED BY <2>2, <2>3, ChunksOf
<1>4. PICK x \in 0..(FileSize - 1) : Aligned(x) /\ \A i \in DOMAIN B : B[i].pos # x
  BY <1>3, OneIsFree
<1>5. PICK t \in Nat : s.t <= t /\ t < s.t + FileSize /\ Place(s, t) = x
  BY <1>1, NextTimeOf
<1>6. t < e BY <1>1, <1>5
<1>7. PICK q \in Chunks(B, <<>>) : Stored(f, q, s, t)
  BY <1>2, <1>5, <1>6 DEF Held
<1>8. PICK i \in DOMAIN B : q = B[i]
  <2>1. <<>> \in Seq(Messages) /\ DOMAIN <<>> = {} BY EmptySeq
  <2> QED BY <2>1, ChunksOf
<1>9. q \in Points /\ q.t \in Nat /\ Aligned(q.pos) /\ q.pos \in Nat /\ x \in Nat
  <2>1. q \in Points /\ Aligned(q.pos) BY <1>8, ElementOfSeq DEF Sound
  <2> QED BY <1>1, <2>1, PointsAreTyped
<1>10. q.t <= t /\ t < q.t + ChunkSize /\ x = q.pos + (t - q.t)
  BY <1>5, <1>7 DEF Stored
<1> DEFINE a == t - q.t
<1>11. a \in 0..(ChunkSize - 1) /\ 0 \in 0..(ChunkSize - 1) /\ x + 0 = q.pos + a
  <2>1. \A u \in Nat, v \in Nat, w \in Nat : v <= u /\ u < v + w => u - v \in 0..(w - 1) /\ 0 \in 0..(w - 1)
    OBVIOUS
  <2>2. a \in 0..(ChunkSize - 1) /\ 0 \in 0..(ChunkSize - 1)
    BY <1>1, <1>9, <1>10, <2>1
  <2> QED BY <1>9, <1>10, <2>2
<1> HIDE DEF a
<1>12. x = q.pos BY <1>4, <1>9, <1>11, SamePlace
<1> QED BY <1>4, <1>8, <1>12

LEMMA SpansAreReadable ==
    ASSUME NEW B \in Seq(Points), NEW n, Sound(B, n), Geometry(B),
           NEW r \in Records, Spans(B, r, n, ts)
    PROVE  Readable(r)
<1> DEFINE s == r.start
           e == r.end
           d == e.t - s.t
<1>1. /\ FileSize \in Nat /\ FileSize > 0
      /\ s \in Points /\ s.t \in Nat /\ s.pos \in 0..(FileSize - 1)
      /\ e \in Points /\ e.t \in Nat /\ e.pos \in 0..(FileSize - 1)
  <2>1. s \in Points /\ e \in Points BY DEF Records
  <2> QED BY <2>1, Sizes, PointsAreTyped
<1>2. d < FileSize BY SpansAreShort
<1>3. /\ s.t <= e.t /\ e.pos = Place(s, e.t)
      /\ \A t \in Nat : s.t <= t /\ t < e.t => ts[Place(s, t)] = t
  BY DEF Spans, Held, Stored
<1> HIDE DEF s, e
<1>4. d \in Nat BY <1>1, <1>3
<1>5. e.pos = (s.pos + d) % FileSize BY <1>3 DEF Place
<1>6. \A j \in Int : 0 <= j /\ j < d => ts[(s.pos + j) % FileSize] = s.t + j
  <2> TAKE j \in Int
  <2> HAVE 0 <= j /\ j < d
  <2> DEFINE t == s.t + j
  <2>1. t \in Nat /\ s.t <= t /\ t < e.t /\ s.pos + (t - s.t) = s.pos + j
    BY <1>1
  <2>2. ts[Place(s, t)] = t BY <1>3, <2>1
  <2> QED BY <2>1, <2>2 DEF Place
<1> HIDE DEF d
<1>7. GetSize(r) = d
  <2>1. GetSize(r) = IF e.pos < s.pos THEN FileSize - s.pos + e.pos ELSE e.pos - s.pos
    BY DEF GetSize, s, e
  <2>2. CASE s.pos + d < FileSize
    <3>1. (s.pos + d) % FileSize = s.pos + d
      <4>1. s.pos + d \in 0..(FileSize - 1) BY <1>1, <1>4, <2>2
      <4> QED BY <1>1, <4>1, Remainders
    <3>2. e.pos = s.pos + d BY <1>5, <3>1
    <3>3. \A u, v \in Nat : ~(u + v < u) /\ (u + v) - u = v OBVIOUS
    <3>4. s.pos \in Nat BY <1>1
    <3> HIDE DEF s, e
    <3> QED BY <1>4, <2>1, <3>2, <3>3, <3>4
  <2>3. CASE ~(s.pos + d < FileSize)
    <3> DEFINE x == s.pos + d - FileSize
    <3>1. x \in 0..(FileSize - 1) /\ s.pos + d = 1 * FileSize + x /\ x < s.pos /\ FileSize - s.pos + x = d
      BY <1>1, <1>2, <1>4, <2>3 DEF d
    <3> HIDE DEF x
    <3>20. (1 * FileSize + x) % FileSize = x
      <4> DEFINE one == 1
      <4>1. one \in Int OBVIOUS
      <4> HIDE DEF one
      <4>2. (one * FileSize + x) % FileSize = x BY <1>1, <3>1, <4>1, Remainder
      <4> QED BY <4>2 DEF one
    <3>2. (s.pos + d) % FileSize = x BY <3>1, <3>20
    <3> QED BY <1>5, <2>1, <3>1, <3>2
  <2> QED BY <2>2, <2>3
<1>8. Holds(CreateRecordStreamSource(r), s.t)
  <2>1. CreateRecordStreamSource(r).start = s.pos /\ CreateRecordStreamSource(r).size = d
    BY <1>7 DEF CreateRecordStreamSource, s
  <2> DEFINE src == CreateRecordStreamSource(r)
  <2> HIDE DEF src
  <2>2. ASSUME NEW k \in 1..d PROVE ts[ReadPositions(src)[k]] = s.t + k - 1
    <3>1. ReadPositions(src)[k] = (s.pos + k - 1) % FileSize
      BY <2>1 DEF ReadPositions, src
    <3>2. k - 1 \in Int /\ 0 <= k - 1 /\ k - 1 < d /\ s.pos + (k - 1) = s.pos + k - 1 /\ s.t + (k - 1) = s.t + k - 1
      BY <1>1, <1>4
    <3>3. ts[(s.pos + (k - 1)) % FileSize] = s.t + (k - 1) BY <1>6, <3>2
    <3> QED BY <3>1, <3>2, <3>3
  <2> QED BY <2>1, <2>2 DEF Holds, src
<1>9. ASSUME NEW first \in 0..(d - 1)
      PROVE  Holds(CreateRangeStreamSource(r, first, d - first), s.t + first)
  <2> DEFINE src == CreateRangeStreamSource(r, first, d - first)
             b == s.pos + first
  <2>1. src.start = b % FileSize /\ src.size = d - first
    BY DEF CreateRangeStreamSource, s
  <2>2. first \in Int /\ b \in Int BY <1>1
  <2> HIDE DEF src
  <2>3. ASSUME NEW k \in 1..(d - first) PROVE ts[ReadPositions(src)[k]] = s.t + first + k - 1
    <3> DEFINE j == first + (k - 1)
               y == k - 1
    <3>1. /\ j \in Int /\ 0 <= j /\ j < d /\ s.pos + j = b + y /\ s.t + j = s.t + first + k - 1 /\ y \in Int
          /\ (b % FileSize) + k - 1 = (b % FileSize) + y
      <4>1. b % FileSize \in Int BY <1>1, <2>2, Division
      <4>2. \A u, v, w \in Int, z \in Nat : \A g \in 0..(z - 1) : \A h \in 1..(z - g) :
               /\ g + (h - 1) \in Int /\ 0 <= g + (h - 1) /\ g + (h - 1) < z /\ h - 1 \in Int
               /\ u + (g + (h - 1)) = u + g + (h - 1) /\ v + (g + (h - 1)) = v + g + h - 1
               /\ w + h - 1 = w + (h - 1)
        OBVIOUS
      <4>3. s.pos \in Int /\ s.t \in Int BY <1>1
      <4> HIDE DEF s
      <4> QED BY <1>4, <4>1, <4>2, <4>3
    <3>2. ReadPositions(src)[k] = ((b % FileSize) + k - 1) % FileSize
      BY <2>1 DEF ReadPositions
    <3> HIDE DEF j, y, b
    <3>3. ((b % FileSize) + y) % FileSize = (b + y) % FileSize
      BY <1>1, <2>2, <3>1, Sums
    <3>4. ts[(s.pos + j) % FileSize] = s.t + j BY <1>6, <3>1
    <3> QED BY <3>1, <3>2, <3>3, <3>4
  <2> QED BY <2>1, <2>3 DEF Holds, src
<1> QED BY <1>7, <1>8, <1>9 DEF Readable, d, s, e

(***************************************************************************)
(* The invariant.                                                           *)
(***************************************************************************)
Starting(q) == \E i \in DOMAIN q : q[i].kind = "start"
ChunkNext(q) == q # <<>> /\ IsChunk(Head(q))

(* The pipeline; and a service with gaps, which meets no fault.             *)
LineInv ==
    /\ StartsFirst(pipe) /\ StopsLast(pipe) /\ (cmd.on => NotStopped(pipe))
    /\ (~up \/ ~session => pipe = <<>> /\ ~cmd.on) /\ faults \in Nat
GapInv ==
    gaps => /\ up /\ NotStopped(pipe)
            /\ Starting(pipe) \/ ~session => points = <<>> /\ records = <<>>

(* The points that the check leaves, once it is done, if it does not fail.  *)
Kept == IF Starting(pipe) THEN RemoveGarbagePoints(records, points) ELSE points
Checks == up /\ (Starting(pipe) => Consistent(records, Kept))
MemInv ==
    Checks => /\ Chain(Kept, pipe, cmd, now, ts) /\ Recs(Kept, records, pipe, now, ts)
              /\ Runs(Kept, records, pipe, cmd, now, ts)

(* Where the last record ends between two chunks, and where it begins.      *)
EndsAfter(rs, ps) == Len(ps) >= 2 => ps[Len(ps) - 1].t < Last(rs).end.t
RestInv ==
    up /\ ~Starting(pipe) /\ records # <<>> =>
       /\ points # <<>>
       /\ Last(points).t < Last(records).end.t /\ ~ChunkNext(pipe)
             => InChunk(Last(points), Last(records).end)
       /\ ~gaps => EndsAfter(records, points)
StartsRecord(q) == q # <<>> /\ Head(q).kind = "event-start"
FirstFollowed(q) ==
    \A i \in DOMAIN q : IsChunk(q[i]) /\ NoChunk(q, i) =>
       i + 1 \in DOMAIN q /\ q[i + 1].kind = "event-start"
EmptyInv ==
    ~gaps /\ up /\ records = <<>> =>
       (points = <<>> /\ FirstFollowed(pipe)) \/ StartsRecord(pipe)

(* The file: what a crash leaves is found again.                            *)
Written(d) ==
    /\ Sound(d.points, now) /\ Geometry(d.points) /\ d.records # <<>> /\ d.points # <<>>
    /\ Last(d.records).end.t <= Last(d.points).t /\ EndsAfter(d.records, d.points)
    /\ \E B \in {d.points, RemoveGarbagePoints(d.records, d.points)} :
          Chain(B, pipe, cmd, now, ts) /\ Recs(B, d.records, pipe, now, ts)
    /\ up => records # <<>> /\ (points = d.points \/ ChunkNext(pipe))
DataInv == ~gaps => \A d \in data : Written(d)
ReadInv == LineInv /\ GapInv /\ MemInv /\ RestInv /\ EmptyInv /\ DataInv

(***************************************************************************)
(* The command.                                                             *)
(***************************************************************************)
LEMMA WriteSends ==
    ASSUME TypeInv, Write
    PROVE  LET p == Point(now + 1, (cmd.pos + 1) % FileSize)
               u == Msg("event-update", p)
               k == Msg("chunk", p)
           IN  /\ p \in Points /\ p.t = now + 1 /\ p.pos = (cmd.pos + 1) % FileSize
               /\ u \in Messages /\ u.kind = "event-update" /\ u.point = p
               /\ k \in Messages /\ k.kind = "chunk" /\ k.point = p
               /\ up /\ cmd.on /\ now' = now + 1 /\ ts' = [ts EXCEPT ![cmd.pos] = now]
               /\ cmd'.on = cmd.on /\ cmd'.event = cmd.event /\ cmd'.pos = (cmd.pos + 1) % FileSize
               /\ UNCHANGED <<up, session, points, records, data, gaps, faults>>
               /\ cmd.pos % ChunkSize = 0 => Pending <= MaxLag
               /\ \/ p.pos % ChunkSize # 0 /\ pipe' = pipe
                  \/ p.pos % ChunkSize = 0 /\ cmd.event /\ pipe' = Append(Append(pipe, u), k)
                  \/ p.pos % ChunkSize = 0 /\ ~cmd.event /\ pipe' = Append(pipe, k)
<1> DEFINE pos == (cmd.pos + 1) % FileSize
           p == Point(now + 1, pos)
           u == Msg("event-update", p)
           k == Msg("chunk", p)
           update == IF cmd.event THEN <<u>> ELSE <<>>
<1>1. /\ now \in Nat /\ pipe \in Seq(Messages)
      /\ cmd \in [on : BOOLEAN, pos : 0..(FileSize - 1), event : BOOLEAN, long : BOOLEAN]
  BY DEF TypeInv, CmdType, PipeType
<1>2. pos \in 0..(FileSize - 1)
  <2>1. cmd.pos + 1 \in Nat BY <1>1
  <2> QED BY <2>1, PositionsWrap
<1>3. p \in Points /\ p.t = now + 1 /\ p.pos = pos
  BY <1>1, <1>2, PointsAreTyped
<1> HIDE DEF p
<1>4. /\ u \in Messages /\ u.kind = "event-update" /\ u.point = p
      /\ k \in Messages /\ k.kind = "chunk" /\ k.point = p
  BY <1>3, MessagesAreTyped DEF MsgKinds
<1>5. /\ up /\ cmd.on /\ now' = now + 1 /\ ts' = [ts EXCEPT ![cmd.pos] = now]
      /\ cmd' = [cmd EXCEPT !.pos = pos, !.long = cmd.event]
      /\ UNCHANGED <<up, session, points, records, data, gaps, faults>>
      /\ cmd.pos % ChunkSize = 0 => Pending <= MaxLag
      /\ pipe' = IF pos % ChunkSize = 0 THEN pipe \o Append(update, k) ELSE pipe
  BY DEF Write, memVars, p
<1> HIDE DEF u, k, pos
<1>6. cmd'.on = cmd.on /\ cmd'.event = cmd.event /\ cmd'.pos = pos
  BY <1>1, <1>5
<1>7. /\ cmd.event => pipe \o Append(update, k) = Append(Append(pipe, u), k)
      /\ ~cmd.event => pipe \o Append(update, k) = Append(pipe, k)
  <2>1. Append(<<>>, k) = <<k>> /\ Append(<<u>>, k) = <<u, k>> BY ShortOnes
  <2>2. pipe \o <<k>> = Append(pipe, k) /\ pipe \o <<u, k>> = Append(Append(pipe, u), k)
    BY <1>1, <1>4, TwoAppended
  <2> QED BY <2>1, <2>2
<1>8. \/ pos % ChunkSize # 0 /\ pipe' = pipe
      \/ pos % ChunkSize = 0 /\ cmd.event /\ pipe' = Append(Append(pipe, u), k)
      \/ pos % ChunkSize = 0 /\ ~cmd.event /\ pipe' = Append(pipe, k)
  BY <1>5, <1>7
<1> QED BY <1>3, <1>4, <1>5, <1>6, <1>8 DEF p, u, k, pos

LEMMA EventSends ==
    ASSUME TypeInv, EventBoundary
    PROVE  LET e == Msg("event-end", Here)
               s == Msg("event-start", Here)
           IN  /\ Here \in Points /\ Here.t = now /\ Here = Point(now, cmd.pos)
               /\ e \in Messages /\ e.kind = "event-end" /\ e.point = Here
               /\ s \in Messages /\ s.kind = "event-start" /\ s.point = Here
               /\ up /\ cmd.on /\ cmd'.on /\ cmd'.pos = cmd.pos
               /\ UNCHANGED <<now, ts, up, session, points, records, data, gaps, faults>>
               /\ \/ cmd.event /\ pipe' = Append(Append(pipe, e), s)
                  \/ cmd.event /\ ~cmd'.event /\ pipe' = Append(pipe, e)
                  \/ pipe' = Append(pipe, s)
<1> DEFINE e == Msg("event-end", Here)
           s == Msg("event-start", Here)
<1>1. /\ now \in Nat /\ pipe \in Seq(Messages)
      /\ cmd \in [on : BOOLEAN, pos : 0..(FileSize - 1), event : BOOLEAN, long : BOOLEAN]
  BY DEF TypeInv, CmdType, PipeType
<1>2. Here \in Points /\ Here.t = now /\ Here = Point(now, cmd.pos)
  BY <1>1, PointsAreTyped DEF Here
<1>3. /\ e \in Messages /\ e.kind = "event-end" /\ e.point = Here
      /\ s \in Messages /\ s.kind = "event-start" /\ s.point = Here
  BY <1>2, MessagesAreTyped DEF MsgKinds
<1>4. /\ up /\ cmd.on /\ UNCHANGED <<now, ts, up, session, points, records, data, gaps, faults>>
  BY DEF EventBoundary, memVars
<1>5. \/ cmd.event /\ pipe' = pipe \o <<e, s>> /\ cmd' = [cmd EXCEPT !.long = FALSE]
      \/ cmd.event /\ pipe' = Append(pipe, e) /\ cmd' = [cmd EXCEPT !.event = FALSE, !.long = FALSE]
      \/ pipe' = Append(pipe, s) /\ cmd' = [cmd EXCEPT !.event = TRUE]
  BY DEF EventBoundary
<1> HIDE DEF e, s
<1>6. pipe \o <<e, s>> = Append(Append(pipe, e), s) BY <1>1, <1>3, TwoAppended
<1>7. /\ cmd'.on = cmd.on /\ cmd'.pos = cmd.pos
      /\ cmd' = [cmd EXCEPT !.event = FALSE, !.long = FALSE] => ~cmd'.event
  BY <1>1, <1>5
<1>8. \/ cmd.event /\ pipe' = Append(Append(pipe, e), s)
      \/ cmd.event /\ ~cmd'.event /\ pipe' = Append(pipe, e)
      \/ pipe' = Append(pipe, s)
  BY <1>5, <1>6, <1>7
<1> QED BY <1>2, <1>3, <1>4, <1>7, <1>8 DEF e, s

LEMMA BreakSends ==
    ASSUME TypeInv, PipelineBreaks
    PROVE  LET y == Msg("stop", NoPoint)
               z == Msg("stopped", NoPoint)
           IN  /\ y \in Messages /\ y.kind = "stop" /\ y.point.t = 0
               /\ z \in Messages /\ z.kind = "stopped" /\ z.point.t = 0
               /\ up /\ cmd.on /\ ~cmd'.on /\ faults' = faults + 1 /\ (faults \in Nat => ~gaps)
               /\ UNCHANGED <<now, ts, up, session, points, records, data, gaps>>
               /\ pipe' = Append(pipe, z) \/ pipe' = Append(Append(pipe, y), z)
<1> DEFINE y == Msg("stop", NoPoint)
           z == Msg("stopped", NoPoint)
<1>1. pipe \in Seq(Messages) /\ NoPoint \in Points /\ NoPoint.t = 0
  BY PointsAreTyped DEF NoPoint, Point, TypeInv, PipeType
<1>2. /\ y \in Messages /\ y.kind = "stop" /\ y.point.t = 0
      /\ z \in Messages /\ z.kind = "stopped" /\ z.point.t = 0
  BY <1>1, MessagesAreTyped DEF MsgKinds
<1>3. /\ up /\ cmd.on /\ cmd' = Off /\ faults' = faults + 1 /\ faults < FaultBudget
      /\ UNCHANGED <<now, ts, up, session, points, records, data, gaps>>
      /\ \/ pipe' = pipe \o Append(<<>>, z)
         \/ pipe' = pipe \o Append(<<y>>, z)
  BY DEF PipelineBreaks, memVars
<1> HIDE DEF y, z
<1>4. pipe' = Append(pipe, z) \/ pipe' = Append(Append(pipe, y), z)
  <2>1. Append(<<>>, z) = <<z>> /\ Append(<<y>>, z) = <<y, z>> BY ShortOnes
  <2>2. pipe \o <<z>> = Append(pipe, z) /\ pipe \o <<y, z>> = Append(Append(pipe, y), z)
    BY <1>1, <1>2, TwoAppended
  <2> QED BY <1>3, <2>1, <2>2
<1>5. ~cmd'.on /\ (faults \in Nat => ~gaps) BY <1>3 DEF Off, FaultBudget
<1> QED BY <1>2, <1>3, <1>4, <1>5 DEF y, z

LEMMA PendingIsBehind == pipe \in Seq(Messages) => Pending = Behind(pipe, 0)
<1> SUFFICES ASSUME pipe \in Seq(Messages) PROVE Pending = Behind(pipe, 0)
  OBVIOUS
<1>1. Len(pipe) \in Nat /\ DOMAIN pipe = 1..Len(pipe) BY LenProperties
<1>2. {i \in DOMAIN pipe : pipe[i].kind = "chunk"} = ChunksAfter(pipe, 0)
  BY <1>1 DEF ChunksAfter, IsChunk
<1> QED BY <1>2 DEF Pending, Behind

(* A session: the chain, the records and the one that is open.              *)
Session(B, rs, pp, c, n, f) == Chain(B, pp, c, n, f) /\ Recs(B, rs, pp, n, f)

LEMMA WriteKeeps ==
    ASSUME TypeInv, Write, NEW B \in Seq(Points), NEW rs \in Seq(Records),
           Session(B, rs, pipe, cmd, now, ts)
    PROVE  /\ Session(B, rs, pipe', cmd', now', ts')
           /\ Runs(B, rs, pipe, cmd, now, ts) => Runs(B, rs, pipe', cmd', now', ts')
<1> DEFINE p == Point(now + 1, (cmd.pos + 1) % FileSize)
           u == Msg("event-update", p)
           k == Msg("chunk", p)
           g == [ts EXCEPT ![cmd.pos] = now]
           n == now + 1
           e == cmd'
           uk == Append(Append(pipe, u), k)
           kk == Append(pipe, k)
<1>1. /\ now \in Nat /\ n \in Nat /\ now <= n /\ pipe \in Seq(Messages)
      /\ ts \in [0..(FileSize - 1) -> Nat] /\ cmd.pos \in 0..(FileSize - 1)
  BY DEF TypeInv, CmdType, PipeType
<1>2. /\ p \in Points /\ p.t = n /\ p.pos = (cmd.pos + 1) % FileSize
      /\ u \in Messages /\ u.kind = "event-update" /\ u.point = p
      /\ k \in Messages /\ k.kind = "chunk" /\ k.point = p
      /\ cmd.on /\ e.on = cmd.on /\ e.event = cmd.event /\ e.pos = (cmd.pos + 1) % FileSize
      /\ now' = n /\ ts' = g
      /\ cmd.pos % ChunkSize = 0 => Pending <= MaxLag
      /\ \/ p.pos % ChunkSize # 0 /\ pipe' = pipe
         \/ p.pos % ChunkSize = 0 /\ cmd.event /\ pipe' = uk
         \/ p.pos % ChunkSize = 0 /\ ~cmd.event /\ pipe' = kk
  BY WriteSends
<1>3. Chain(B, pipe, cmd, now, ts) /\ Recs(B, rs, pipe, now, ts)
  BY DEF Session
<1>4. Behind(pipe, 0) <= MaxLag
  BY <1>1, <1>2, <1>3, PendingIsBehind DEF Chain, Lag
<1>5. /\ p.pos % ChunkSize # 0 => Chain(B, pipe, e, n, g)
      /\ p.pos % ChunkSize = 0 => Chain(B, kk, e, n, g) /\ Chain(B, uk, e, n, g)
  BY <1>1, <1>2, <1>3, <1>4, ChainWritten
<1>6. Recs(B, rs, pipe, now, g) BY <1>1, <1>2, <1>3, <1>4, RecsWritten
<1> HIDE DEF g, p, e, n, u, k
<1>7. Recs(B, rs, pipe, n, g) BY <1>1, <1>6, RecsLater
<1>8. n <= k.point.t /\ n <= u.point.t BY <1>1, <1>2
<1>9. Recs(B, rs, kk, n, g) /\ Recs(B, rs, uk, n, g)
  <2>1. Recs(B, rs, Append(pipe, u), n, g) /\ Append(pipe, u) \in Seq(Messages)
    BY <1>1, <1>2, <1>7, <1>8, RecsAppended, AppendIsTyped
  <2> QED BY <1>1, <1>2, <1>7, <1>8, <2>1, RecsAppended
<1>10. ASSUME Runs(B, rs, pipe, cmd, now, ts)
       PROVE  /\ Runs(B, rs, pipe, e, n, g) /\ Runs(B, rs, kk, e, n, g)
              /\ cmd.event => Runs(B, rs, uk, e, n, g)
  <2>1. Runs(B, rs, pipe, e, n, g)
    BY <1>1, <1>2, <1>3, <1>4, <1>10, OpenWritten DEF n, g
  <2>2. ~Ends(k) BY <1>2 DEF Ends
  <2>3. Runs(B, rs, kk, e, n, g) BY <1>1, <1>2, <2>1, <2>2, OpenAppended
  <2>4. ASSUME cmd.event PROVE Runs(B, rs, uk, e, n, g)
    <3>1. u.point = Point(n, e.pos) BY <1>2 DEF p, n
    <3>2. Runs(B, rs, Append(pipe, u), e, n, g) /\ Append(pipe, u) \in Seq(Messages)
      BY <1>1, <1>2, <2>1, <2>4, <3>1, OpenAppended, AppendIsTyped
    <3> QED BY <1>1, <1>2, <2>2, <3>2, OpenAppended
  <2> QED BY <2>1, <2>3, <2>4
<1> HIDE DEF uk, kk
<1> QED BY <1>2, <1>5, <1>7, <1>9, <1>10 DEF Session, e, n

LEMMA EventKeeps ==
    ASSUME TypeInv, EventBoundary, NEW B \in Seq(Points), NEW rs \in Seq(Records),
           Session(B, rs, pipe, cmd, now, ts)
    PROVE  /\ Session(B, rs, pipe', cmd', now', ts')
           /\ Runs(B, rs, pipe, cmd, now, ts) => Runs(B, rs, pipe', cmd', now', ts')
<1> DEFINE m == Msg("event-end", Here)
           s == Msg("event-start", Here)
           e == cmd'
           am == Append(pipe, m)
           as == Append(pipe, s)
           ms == Append(am, s)
<1>1. now \in Nat /\ now <= now /\ pipe \in Seq(Messages) /\ cmd.pos \in 0..(FileSize - 1)
  BY DEF TypeInv, CmdType, PipeType
<1>2. /\ Here.t = now /\ Here = Point(now, cmd.pos)
      /\ m \in Messages /\ m.kind = "event-end" /\ m.point = Here
      /\ s \in Messages /\ s.kind = "event-start" /\ s.point = Here
      /\ cmd.on /\ e.on /\ e.pos = cmd.pos /\ now' = now /\ ts' = ts
      /\ \/ cmd.event /\ pipe' = ms
         \/ cmd.event /\ ~e.event /\ pipe' = am
         \/ pipe' = as
  BY EventSends
<1> HIDE DEF m, s, e
<1>3. Chain(B, pipe, cmd, now, ts) /\ Recs(B, rs, pipe, now, ts)
  BY DEF Session
<1>4. IsBoundary(m) /\ IsBoundary(s) /\ ~Ends(s) /\ now <= m.point.t /\ now <= s.point.t
  BY <1>1, <1>2 DEF IsBoundary, Ends
<1>5. am \in Seq(Messages) BY <1>1, <1>2, AppendIsTyped
<1>6. Chain(B, am, e, now, ts) /\ Chain(B, as, e, now, ts) /\ Chain(B, ms, e, now, ts)
  <2>1. Chain(B, am, e, now, ts) /\ Chain(B, as, e, now, ts)
    BY <1>1, <1>2, <1>3, <1>4, BoundaryAnnounced
  <2>2. s.point = Point(now, e.pos) /\ e.pos \in 0..(FileSize - 1)
    BY <1>1, <1>2
  <2> QED BY <1>1, <1>2, <1>4, <1>5, <2>1, <2>2, BoundaryAnnounced
<1>7. Recs(B, rs, am, now, ts) /\ Recs(B, rs, as, now, ts) /\ Recs(B, rs, ms, now, ts)
  <2>1. Recs(B, rs, am, now, ts) /\ Recs(B, rs, as, now, ts)
    BY <1>1, <1>2, <1>3, <1>4, RecsAppended
  <2> QED BY <1>1, <1>2, <1>4, <1>5, <2>1, RecsAppended
<1>8. ASSUME Runs(B, rs, pipe, cmd, now, ts)
      PROVE  /\ Runs(B, rs, as, e, now, ts)
             /\ cmd.event => Runs(B, rs, ms, e, now, ts)
             /\ cmd.event /\ ~e.event => Runs(B, rs, am, e, now, ts)
  <2>1. Runs(B, rs, as, e, now, ts) BY <1>1, <1>2, <1>4, <1>8, OpenAppended
  <2>2. ASSUME cmd.event
        PROVE  Runs(B, rs, ms, e, now, ts) /\ (~e.event => Runs(B, rs, am, e, now, ts))
    <3>1. Runs(B, rs, am, cmd, now, ts)
      BY <1>1, <1>2, <1>8, <2>2, OpenAppended
    <3>2. Runs(B, rs, ms, e, now, ts)
      BY <1>1, <1>2, <1>4, <1>5, <3>1, OpenAppended
    <3>3. ~e.event => Runs(B, rs, am, e, now, ts) BY <3>1, OpenLess
    <3> QED BY <3>2, <3>3
  <2> QED BY <2>1, <2>2
<1> HIDE DEF am, as, ms
<1> QED BY <1>2, <1>6, <1>7, <1>8 DEF Session, e

LEMMA BreakKeeps ==
    ASSUME TypeInv, PipelineBreaks, NEW B \in Seq(Points), NEW rs \in Seq(Records),
           Session(B, rs, pipe, cmd, now, ts)
    PROVE  /\ Session(B, rs, pipe', cmd', now', ts')
           /\ Runs(B, rs, pipe, cmd, now, ts) => Runs(B, rs, pipe', cmd', now', ts')
<1> DEFINE y == Msg("stop", NoPoint)
           z == Msg("stopped", NoPoint)
           e == cmd'
           ay == Append(pipe, y)
           az == Append(pipe, z)
           yz == Append(ay, z)
<1>1. now \in Nat /\ now <= now /\ pipe \in Seq(Messages) /\ cmd.pos \in 0..(FileSize - 1)
  BY DEF TypeInv, CmdType, PipeType
<1>2. /\ y \in Messages /\ y.kind = "stop" /\ y.point.t = 0
      /\ z \in Messages /\ z.kind = "stopped" /\ z.point.t = 0
      /\ ~e.on /\ now' = now /\ ts' = ts /\ (pipe' = az \/ pipe' = yz)
  BY BreakSends
<1> HIDE DEF y, z, e
<1>3. Chain(B, pipe, cmd, now, ts) /\ Recs(B, rs, pipe, now, ts)
  BY DEF Session
<1>4. /\ ~Pointed(y) /\ ~Pointed(z) /\ ~Ends(y) /\ ~Ends(z)
      /\ y.point.t <= now /\ z.point.t <= now
  BY <1>1, <1>2 DEF Pointed, Ends
<1>5. ay \in Seq(Messages) BY <1>1, <1>2, AppendIsTyped
<1>6. Chain(B, az, e, now, ts) /\ Chain(B, yz, e, now, ts)
  <2>1. Chain(B, az, e, now, ts) /\ Chain(B, ay, e, now, ts)
    BY <1>1, <1>2, <1>3, <1>4, PlainAnnounced
  <2> QED BY <1>1, <1>2, <1>4, <1>5, <2>1, PlainAnnounced
<1>7. Recs(B, rs, az, now, ts) /\ Recs(B, rs, yz, now, ts)
  <2>1. Recs(B, rs, az, now, ts) /\ Recs(B, rs, ay, now, ts)
    BY <1>1, <1>2, <1>3, <1>4, RecsAppended
  <2> QED BY <1>1, <1>2, <1>4, <1>5, <2>1, RecsAppended
<1>8. ASSUME Runs(B, rs, pipe, cmd, now, ts)
      PROVE  Runs(B, rs, az, e, now, ts) /\ Runs(B, rs, yz, e, now, ts)
  <2>1. Runs(B, rs, az, cmd, now, ts) /\ Runs(B, rs, ay, cmd, now, ts)
    BY <1>1, <1>2, <1>4, <1>8, OpenAppended
  <2>2. Runs(B, rs, yz, cmd, now, ts)
    BY <1>1, <1>2, <1>4, <1>5, <2>1, OpenAppended
  <2> QED BY <1>2, <2>1, <2>2, OpenLess
<1> HIDE DEF ay, az, yz
<1> QED BY <1>2, <1>6, <1>7, <1>8 DEF Session, e

(***************************************************************************)
(* The line of messages, as it grows and as it is handled.                  *)
(***************************************************************************)
(* Nothing is sent before what is there, and no other start.                *)
Grows(q, a) ==
    /\ StartsFirst(a) /\ StopsLast(a) /\ (Starting(a) => Starting(q))
    /\ (Starting(q) => Starting(a))
    /\ ChunkNext(q) => ChunkNext(a)
    /\ StartsRecord(q) => StartsRecord(a)
    /\ FirstFollowed(q) /\ ~NoChunk(q, Len(q) + 1) => FirstFollowed(a) /\ ~NoChunk(a, Len(a) + 1)

LEMMA LineGrows ==
    ASSUME NEW q \in Seq(Messages), NEW m \in Messages, m.kind # "start",
           NotStopped(q), StartsFirst(q)
    PROVE  Grows(q, Append(q, m)) /\ (m.kind # "stopped" => NotStopped(Append(q, m)))
<1> DEFINE a == Append(q, m)
           n == Len(q)
<1>1. /\ n \in Nat /\ DOMAIN q = 1..n /\ DOMAIN a = 1..n + 1 /\ Len(a) = n + 1 /\ a \in Seq(Messages)
      /\ (\A i \in 1..n : a[i] = q[i]) /\ a[n + 1] = m /\ a # <<>>
  BY AppendIsTyped
<1>2. q # <<>> => Head(q) = q[1] /\ n >= 1 /\ Head(a) = q[1]
  <2> SUFFICES ASSUME q # <<>> PROVE Head(q) = q[1] /\ n >= 1 /\ Head(a) = q[1]
    OBVIOUS
  <2>1. Head(q) = q[1] /\ n >= 1 BY TailIsTyped
  <2>2. Head(a) = a[1] BY <1>1, TailIsTyped
  <2> QED BY <1>1, <2>1, <2>2
<1> HIDE DEF a, n
<1>3. StartsFirst(a)
  <2> SUFFICES ASSUME NEW i \in DOMAIN a, a[i].kind = "start"
               PROVE  /\ \A j \in DOMAIN a : j < i => a[j].kind = "started"
                      /\ i + 1 \in DOMAIN a /\ IsChunk(a[i + 1])
    BY DEF StartsFirst
  <2>1. i \in DOMAIN q /\ q[i].kind = "start" /\ i \in 1..n BY <1>1
  <2>2. (\A j \in DOMAIN q : j < i => q[j].kind = "started") /\ i + 1 \in DOMAIN q /\ IsChunk(q[i + 1])
    BY <2>1 DEF StartsFirst
  <2>3. i + 1 \in DOMAIN a /\ IsChunk(a[i + 1]) BY <1>1, <2>2
  <2>4. ASSUME NEW j \in DOMAIN a, j < i PROVE a[j].kind = "started"
    <3>1. j \in DOMAIN q /\ a[j] = q[j] BY <1>1, <2>1, <2>4
    <3> QED BY <2>2, <2>4, <3>1
  <2> QED BY <2>3, <2>4
<1>4. StopsLast(a) /\ (m.kind # "stopped" => NotStopped(a))
  BY <1>1 DEF StopsLast, NotStopped
<1>5. (Starting(a) => Starting(q)) /\ (Starting(q) => Starting(a))
  BY <1>1 DEF Starting
<1>6. ChunkNext(q) => ChunkNext(a) BY <1>1, <1>2 DEF ChunkNext
<1>7. StartsRecord(q) => StartsRecord(a) BY <1>1, <1>2 DEF StartsRecord
<1>8. ASSUME FirstFollowed(q), ~NoChunk(q, n + 1)
      PROVE  FirstFollowed(a) /\ ~NoChunk(a, Len(a) + 1)
  <2>1. PICK l \in DOMAIN q : l < n + 1 /\ IsChunk(q[l]) BY <1>8 DEF NoChunk
  <2>2. l \in DOMAIN a /\ IsChunk(a[l]) /\ l < Len(a) + 1 BY <1>1, <2>1
  <2>3. ~NoChunk(a, Len(a) + 1) BY <2>2 DEF NoChunk
  <2>4. ASSUME NEW i \in DOMAIN a, IsChunk(a[i]), NoChunk(a, i)
        PROVE  i + 1 \in DOMAIN a /\ a[i + 1].kind = "event-start"
    <3>1. i <= l BY <1>1, <2>1, <2>2, <2>4 DEF NoChunk
    <3>2. i \in DOMAIN q /\ i \in 1..n /\ IsChunk(q[i])
      BY <1>1, <2>1, <2>4, <3>1
    <3>3. NoChunk(q, i) BY <1>1, <2>4, <3>2 DEF NoChunk
    <3>4. i + 1 \in DOMAIN q /\ q[i + 1].kind = "event-start"
      BY <1>8, <3>2, <3>3 DEF FirstFollowed
    <3> QED BY <1>1, <3>2, <3>4
  <2> QED BY <2>3, <2>4 DEF FirstFollowed
<1> QED BY <1>3, <1>4, <1>5, <1>6, <1>7, <1>8 DEF Grows, a, n

LEMMA GrowsMore ==
    ASSUME NEW q, NEW a, NEW b, Grows(q, a), Grows(a, b)
    PROVE  Grows(q, b)
BY DEF Grows

LEMMA LineShrinks ==
    ASSUME NEW q \in Seq(Messages), q # <<>>, StartsFirst(q), StopsLast(q)
    PROVE  /\ StartsFirst(Tail(q)) /\ StopsLast(Tail(q)) /\ (NotStopped(q) => NotStopped(Tail(q)))
           /\ Head(q).kind = "stopped" => Tail(q) = <<>> /\ ~NotStopped(q)
           /\ Head(q).kind # "start" => (Starting(Tail(q)) <=> Starting(q))
           /\ Head(q).kind = "start" => Starting(q) /\ ~Starting(Tail(q)) /\ ChunkNext(Tail(q))
           /\ Starting(q) => Head(q).kind \in {"started", "start"}
           /\ FirstFollowed(q) => IF IsChunk(Head(q)) THEN StartsRecord(Tail(q)) ELSE FirstFollowed(Tail(q))
<1> DEFINE a == Tail(q)
           n == Len(q)
<1>1. /\ n \in Nat /\ n >= 1 /\ DOMAIN q = 1..n /\ DOMAIN a = 1..n - 1 /\ Len(a) = n - 1 /\ a \in Seq(Messages)
      /\ (\A i \in 1..n - 1 : a[i] = q[i + 1]) /\ Head(q) = q[1] /\ (a # <<>> => Head(a) = a[1])
  BY TailIsTyped
<1>2. \A i \in DOMAIN a : i \in Int /\ i >= 1 /\ i + 1 \in DOMAIN q /\ a[i] = q[i + 1]
  BY <1>1
<1>3. 1 \in DOMAIN q /\ n \in DOMAIN q BY <1>1
<1>20. n # 1 => a # <<>>
  <2>1. n # 1 => Len(a) # 0 BY <1>1
  <2> QED BY <2>1, EmptySeq
<1>21. n = 1 => a = <<>> BY <1>1, EmptySeq
<1> HIDE DEF a, n
<1>4. StartsFirst(a)
  <2> SUFFICES ASSUME NEW i \in DOMAIN a, a[i].kind = "start"
               PROVE  /\ \A j \in DOMAIN a : j < i => a[j].kind = "started"
                      /\ i + 1 \in DOMAIN a /\ IsChunk(a[i + 1])
    BY DEF StartsFirst
  <2>1. i + 1 \in DOMAIN q /\ q[i + 1].kind = "start" /\ i \in 1..n - 1
    BY <1>1, <1>2
  <2>2. (\A j \in DOMAIN q : j < i + 1 => q[j].kind = "started") /\ (i + 1) + 1 \in DOMAIN q /\ IsChunk(q[(i + 1) + 1])
    BY <2>1 DEF StartsFirst
  <2>3. i + 1 \in DOMAIN a /\ a[i + 1] = q[(i + 1) + 1] BY <1>1, <2>1, <2>2
  <2>4. ASSUME NEW j \in DOMAIN a, j < i PROVE a[j].kind = "started"
    <3>1. j + 1 \in DOMAIN q /\ a[j] = q[j + 1] /\ j + 1 < i + 1
      BY <1>1, <1>2, <2>1, <2>4
    <3> QED BY <2>2, <3>1
  <2> QED BY <2>2, <2>3, <2>4
<1>5. StopsLast(a) /\ (NotStopped(q) => NotStopped(a))
  <2>1. ASSUME NEW i \in DOMAIN a, a[i].kind = "stopped" PROVE i = Len(a)
    <3>1. i + 1 = Len(q) BY <1>2, <2>1 DEF StopsLast
    <3> QED BY <1>1, <1>2, <3>1 DEF n
  <2>2. NotStopped(q) => NotStopped(a) BY <1>2 DEF NotStopped
  <2> QED BY <2>1, <2>2 DEF StopsLast
<1>6. Head(q).kind = "stopped" => a = <<>> /\ ~NotStopped(q)
  BY <1>1, <1>3, <1>21 DEF StopsLast, NotStopped, n
<1>7. Head(q).kind # "start" => (Starting(a) <=> Starting(q))
  <2>1. Starting(a) => Starting(q) BY <1>2 DEF Starting
  <2>2. ASSUME Head(q).kind # "start", Starting(q) PROVE Starting(a)
    <3>1. PICK i \in DOMAIN q : q[i].kind = "start" BY <2>2 DEF Starting
    <3>2. i - 1 \in DOMAIN a /\ a[i - 1] = q[(i - 1) + 1] /\ (i - 1) + 1 = i
      BY <1>1, <2>2, <3>1
    <3> QED BY <3>1, <3>2 DEF Starting
  <2> QED BY <2>1, <2>2
<1>8. ASSUME Head(q).kind = "start" PROVE Starting(q) /\ ~Starting(a) /\ ChunkNext(a)
  <2>1. Starting(q) /\ 1 + 1 \in DOMAIN q /\ IsChunk(q[1 + 1])
    BY <1>1, <1>3, <1>8 DEF Starting, StartsFirst
  <2>2. 1 \in DOMAIN a /\ n # 1 BY <1>1, <2>1
  <2>3. ChunkNext(a) BY <1>1, <1>2, <1>20, <2>1, <2>2 DEF ChunkNext
  <2>4. ASSUME NEW i \in DOMAIN a, a[i].kind = "start" PROVE FALSE
    <3>1. 1 < i + 1 /\ i + 1 \in DOMAIN q /\ q[i + 1].kind = "start"
      BY <1>2, <2>4
    <3>2. q[1].kind = "started" BY <1>3, <3>1 DEF StartsFirst
    <3> QED BY <1>1, <1>8, <3>2
  <2> QED BY <2>1, <2>3, <2>4 DEF Starting
<1>9. Starting(q) => Head(q).kind \in {"started", "start"}
  <2> SUFFICES ASSUME NEW i \in DOMAIN q, q[i].kind = "start" PROVE Head(q).kind \in {"started", "start"}
    BY DEF Starting
  <2>1. i = 1 \/ 1 < i BY <1>1
  <2> QED BY <1>1, <1>3, <2>1 DEF StartsFirst
<1>10. ASSUME FirstFollowed(q), IsChunk(Head(q)) PROVE StartsRecord(a)
  <2>1. NoChunk(q, 1) BY <1>1 DEF NoChunk
  <2>2. 1 + 1 \in DOMAIN q /\ q[1 + 1].kind = "event-start"
    BY <1>1, <1>3, <1>10, <2>1 DEF FirstFollowed
  <2>3. 1 \in DOMAIN a /\ n # 1 BY <1>1, <2>2
  <2> QED BY <1>1, <1>2, <1>20, <2>2, <2>3 DEF StartsRecord
<1>11. ASSUME FirstFollowed(q), ~IsChunk(Head(q)) PROVE FirstFollowed(a)
  <2> SUFFICES ASSUME NEW i \in DOMAIN a, IsChunk(a[i]), NoChunk(a, i)
               PROVE  i + 1 \in DOMAIN a /\ a[i + 1].kind = "event-start"
    BY DEF FirstFollowed
  <2>1. i + 1 \in DOMAIN q /\ IsChunk(q[i + 1]) /\ i \in 1..n - 1
    BY <1>1, <1>2
  <2>2. NoChunk(q, i + 1)
    <3> SUFFICES ASSUME NEW j \in DOMAIN q, j < i + 1 PROVE ~IsChunk(q[j])
      BY DEF NoChunk
    <3>1. CASE j = 1 BY <1>1, <1>11, <3>1
    <3>2. CASE j # 1
      <4>1. j - 1 \in DOMAIN a /\ a[j - 1] = q[(j - 1) + 1] /\ (j - 1) + 1 = j /\ j - 1 < i
        BY <1>1, <2>1, <3>2
      <4> QED BY <4>1 DEF NoChunk
    <3> QED BY <3>1, <3>2
  <2>3. (i + 1) + 1 \in DOMAIN q /\ q[(i + 1) + 1].kind = "event-start"
    BY <1>11, <2>1, <2>2 DEF FirstFollowed
  <2>4. i + 1 \in DOMAIN a /\ a[i + 1] = q[(i + 1) + 1] BY <1>1, <2>1, <2>3
  <2> QED BY <2>3, <2>4
<1> QED BY <1>4, <1>5, <1>6, <1>7, <1>8, <1>9, <1>10, <1>11 DEF a

Commanded == Write \/ EventBoundary \/ PipelineBreaks

LEMMA GrowsNot ==
    ASSUME NEW q, StartsFirst(q), StopsLast(q)
    PROVE  Grows(q, q)
  BY DEF Grows

LEMMA CommandGrows ==
    ASSUME TypeInv, LineInv, GapInv, Commanded
    PROVE  /\ Grows(pipe, pipe') /\ cmd.on /\ up /\ session /\ NotStopped(pipe) /\ faults' \in Nat
           /\ (cmd'.on => NotStopped(pipe')) /\ (gaps => NotStopped(pipe'))
           /\ now \in Nat /\ now' \in Nat /\ now <= now'
           /\ UNCHANGED <<up, session, points, records, data, gaps>>
<1>1. pipe \in Seq(Messages) /\ now \in Nat BY DEF TypeInv, CmdType, PipeType
<1>2. /\ StartsFirst(pipe) /\ StopsLast(pipe) /\ (cmd.on => NotStopped(pipe))
      /\ (~up \/ ~session => ~cmd.on) /\ faults \in Nat
  BY DEF LineInv
<1>3. \A m \in Messages : m.kind # "start" /\ cmd.on =>
         /\ Grows(pipe, Append(pipe, m)) /\ (m.kind # "stopped" => NotStopped(Append(pipe, m)))
         /\ Append(pipe, m) \in Seq(Messages)
  BY <1>1, <1>2, LineGrows, AppendIsTyped
<1>4. \A m, k \in Messages : m.kind # "start" /\ k.kind # "start" /\ m.kind # "stopped" /\ cmd.on =>
         /\ Grows(pipe, Append(Append(pipe, m), k))
         /\ (k.kind # "stopped" => NotStopped(Append(Append(pipe, m), k)))
  <2> SUFFICES ASSUME NEW m \in Messages, NEW k \in Messages, cmd.on,
                      m.kind # "start", k.kind # "start", m.kind # "stopped"
               PROVE  /\ Grows(pipe, Append(Append(pipe, m), k))
                      /\ (k.kind # "stopped" => NotStopped(Append(Append(pipe, m), k)))
    OBVIOUS
  <2> DEFINE a == Append(pipe, m)
  <2>1. Grows(pipe, a) /\ NotStopped(a) /\ a \in Seq(Messages) BY <1>3
  <2>2. StartsFirst(a) BY <2>1 DEF Grows
  <2> HIDE DEF a
  <2>3. Grows(a, Append(a, k)) /\ (k.kind # "stopped" => NotStopped(Append(a, k)))
    BY <2>1, <2>2, LineGrows
  <2>4. Grows(pipe, Append(a, k)) BY <2>1, <2>3, GrowsMore
  <2> QED BY <2>3, <2>4 DEF a
<1>5. CASE Write
  <2> DEFINE p == Point(now + 1, (cmd.pos + 1) % FileSize)
             u == Msg("event-update", p)
             k == Msg("chunk", p)
  <2>1. /\ u \in Messages /\ u.kind = "event-update" /\ k \in Messages /\ k.kind = "chunk"
        /\ cmd.on /\ now' = now + 1 /\ cmd'.on = cmd.on
        /\ UNCHANGED <<up, session, points, records, data, gaps, faults>>
        /\ \/ pipe' = pipe \/ pipe' = Append(Append(pipe, u), k) \/ pipe' = Append(pipe, k)
    BY <1>5, WriteSends
  <2> HIDE DEF u, k
  <2>2. Grows(pipe, pipe') /\ NotStopped(pipe')
    BY <1>2, <1>3, <1>4, <2>1, GrowsNot
  <2> QED BY <1>1, <1>2, <2>1, <2>2
<1>6. CASE EventBoundary
  <2> DEFINE e == Msg("event-end", Here)
             s == Msg("event-start", Here)
  <2>1. /\ e \in Messages /\ e.kind = "event-end" /\ s \in Messages /\ s.kind = "event-start"
        /\ cmd.on
        /\ UNCHANGED <<now, up, session, points, records, data, gaps, faults>>
        /\ \/ pipe' = Append(Append(pipe, e), s) \/ pipe' = Append(pipe, e) \/ pipe' = Append(pipe, s)
    BY <1>6, EventSends
  <2> HIDE DEF e, s
  <2>2. Grows(pipe, pipe') /\ NotStopped(pipe') BY <1>2, <1>3, <1>4, <2>1
  <2> QED BY <1>1, <1>2, <2>1, <2>2
<1>7. CASE PipelineBreaks
  <2> DEFINE y == Msg("stop", NoPoint)
             z == Msg("stopped", NoPoint)
  <2>1. /\ y \in Messages /\ y.kind = "stop" /\ z \in Messages /\ z.kind = "stopped"
        /\ cmd.on /\ ~cmd'.on /\ faults' = faults + 1 /\ (faults \in Nat => ~gaps)
        /\ UNCHANGED <<now, up, session, points, records, data, gaps>>
        /\ pipe' = Append(pipe, z) \/ pipe' = Append(Append(pipe, y), z)
    BY <1>7, BreakSends
  <2> HIDE DEF y, z
  <2>2. Grows(pipe, pipe') BY <1>3, <1>4, <2>1
  <2> QED BY <1>1, <1>2, <2>1, <2>2
<1> QED BY <1>5, <1>6, <1>7 DEF Commanded

LEMMA CommandKeeps ==
    ASSUME TypeInv, Commanded, NEW B \in Seq(Points), NEW rs \in Seq(Records),
           Session(B, rs, pipe, cmd, now, ts)
    PROVE  /\ Session(B, rs, pipe', cmd', now', ts')
           /\ Runs(B, rs, pipe, cmd, now, ts) => Runs(B, rs, pipe', cmd', now', ts')
  BY WriteKeeps, EventKeeps, BreakKeeps DEF Commanded

LEMMA SoundLater ==
    ASSUME NEW B \in Seq(Points), NEW n \in Nat, NEW m \in Nat, n <= m, Sound(B, n)
    PROVE  Sound(B, m)
<1>1. \A i \in DOMAIN B : B[i] \in Points /\ B[i].t \in Nat
  BY PointsAreTyped, LenProperties, ElementOfSeq
<1>2. \A i \in DOMAIN B : B[i].t <= n BY DEF Sound
<1>3. \A i \in DOMAIN B : B[i].t <= m BY <1>1, <1>2
<1> QED BY <1>3 DEF Sound

LEMMA KeptIsTyped ==
    ASSUME NEW rs \in Seq(Records), NEW ps \in Seq(Points)
    PROVE  /\ RemoveGarbagePoints(rs, ps) \in Seq(Points)
           /\ rs = <<>> => RemoveGarbagePoints(rs, ps) = ps
<1>1. PICK n \in 0..Len(ps) : RemoveGarbagePoints(rs, ps) = SubSeq(ps, 1, n)
  BY GarbageIsRemoved
<1>2. SubSeq(ps, 1, n) \in Seq(Points) BY PrefixIsTyped
<1> QED BY <1>1, <1>2 DEF RemoveGarbagePoints

LEMMA MemIsTyped ==
    ASSUME TypeInv
    PROVE  /\ points \in Seq(Points) /\ records \in Seq(Records) /\ pipe \in Seq(Messages)
           /\ now \in Nat /\ Kept \in Seq(Points) /\ (records = <<>> => Kept = points)
           /\ ts \in [0..(FileSize - 1) -> Nat]
           /\ \A d \in data : /\ d \in Files /\ d.points \in Seq(Points) /\ d.records \in Seq(Records)
                              /\ RemoveGarbagePoints(d.records, d.points) \in Seq(Points)
<1>1. /\ points \in Seq(Points) /\ records \in Seq(Records) /\ pipe \in Seq(Messages) /\ now \in Nat
      /\ ts \in [0..(FileSize - 1) -> Nat] /\ data \subseteq Files
  BY DEF TypeInv, MemType, PipeType, CmdType, DataType
<1>2. Kept \in Seq(Points) /\ (records = <<>> => Kept = points)
  BY <1>1, KeptIsTyped DEF Kept
<1>3. ASSUME NEW d \in data
      PROVE  d \in Files /\ d.points \in Seq(Points) /\ d.records \in Seq(Records)
  BY <1>1 DEF Files
<1>4. ASSUME NEW d \in data
      PROVE  RemoveGarbagePoints(d.records, d.points) \in Seq(Points)
  BY <1>3, <1>4, KeptIsTyped
<1> QED BY <1>1, <1>2, <1>3, <1>4

LEMMA CommandReads ==
    ASSUME TypeInv, ReadInv, Commanded
    PROVE  ReadInv'
<1>1. LineInv /\ GapInv /\ MemInv /\ RestInv /\ EmptyInv /\ DataInv
  BY DEF ReadInv
<1>2. /\ Grows(pipe, pipe') /\ cmd.on /\ up /\ session /\ NotStopped(pipe) /\ faults' \in Nat
      /\ (cmd'.on => NotStopped(pipe')) /\ (gaps => NotStopped(pipe'))
      /\ now \in Nat /\ now' \in Nat /\ now <= now'
      /\ UNCHANGED <<up, session, points, records, data, gaps>>
  BY <1>1, CommandGrows
<1>3. /\ StartsFirst(pipe') /\ StopsLast(pipe') /\ (Starting(pipe') <=> Starting(pipe))
      /\ (ChunkNext(pipe) => ChunkNext(pipe')) /\ (StartsRecord(pipe) => StartsRecord(pipe'))
      /\ FirstFollowed(pipe) /\ ~NoChunk(pipe, Len(pipe) + 1) => FirstFollowed(pipe')
  BY <1>2 DEF Grows
<1>4. Kept' = Kept /\ (Checks' <=> Checks)
  <2>1. Kept' = Kept BY <1>2, <1>3 DEF Kept
  <2> QED BY <1>2, <1>3, <2>1 DEF Checks
<1>5. LineInv' BY <1>2, <1>3 DEF LineInv
<1>6. GapInv' BY <1>1, <1>2, <1>3 DEF GapInv
<1>7. MemInv'
  <2> SUFFICES ASSUME Checks
               PROVE  /\ Chain(Kept, pipe', cmd', now', ts') /\ Recs(Kept, records, pipe', now', ts')
                      /\ Runs(Kept, records, pipe', cmd', now', ts')
    BY <1>2, <1>4 DEF MemInv
  <2>1. Kept \in Seq(Points) /\ records \in Seq(Records) BY MemIsTyped
  <2>2. Session(Kept, records, pipe, cmd, now, ts) /\ Runs(Kept, records, pipe, cmd, now, ts)
    BY <1>1 DEF MemInv, Session
  <2>3. Session(Kept, records, pipe', cmd', now', ts') /\ Runs(Kept, records, pipe', cmd', now', ts')
    BY <2>1, <2>2, CommandKeeps
  <2> QED BY <2>3 DEF Session
<1>8. RestInv' BY <1>1, <1>2, <1>3 DEF RestInv, EndsAfter
<1>9. EmptyInv'
  <2> SUFFICES ASSUME ~gaps, records = <<>>
               PROVE  (points = <<>> /\ FirstFollowed(pipe')) \/ StartsRecord(pipe')
    BY <1>2 DEF EmptyInv
  <2>1. (points = <<>> /\ FirstFollowed(pipe)) \/ StartsRecord(pipe)
    BY <1>1, <1>2 DEF EmptyInv
  <2>2. CASE points = <<>> /\ FirstFollowed(pipe)
    <3>1. Kept = <<>> /\ Checks
      BY <1>2, <2>2, MemIsTyped DEF Checks, Consistent
    <3>2. Chain(<<>>, pipe, cmd, now, ts) BY <1>1, <3>1 DEF MemInv
    <3>3. ~NoChunk(pipe, Len(pipe) + 1)
      BY <1>2, <3>2 DEF Chain, Writes, InLast
    <3> QED BY <1>3, <2>2, <3>3
  <2> QED BY <1>3, <2>1, <2>2
<1>10. DataInv'
  <2> SUFFICES ASSUME ~gaps, NEW d \in data PROVE Written(d)'
    BY <1>2 DEF DataInv
  <2>1. Written(d) BY <1>1 DEF DataInv
  <2>2. /\ d.points \in Seq(Points) /\ d.records \in Seq(Records)
        /\ RemoveGarbagePoints(d.records, d.points) \in Seq(Points)
    BY MemIsTyped
  <2>3. PICK B \in {d.points, RemoveGarbagePoints(d.records, d.points)} :
           Session(B, d.records, pipe, cmd, now, ts)
    BY <2>1 DEF Written, Session
  <2>4. Session(B, d.records, pipe', cmd', now', ts')
    BY <2>2, <2>3, CommandKeeps
  <2>5. Sound(d.points, now') BY <1>2, <2>1, <2>2, SoundLater DEF Written
  <2>6. Chain(B, pipe', cmd', now', ts') /\ Recs(B, d.records, pipe', now', ts')
    BY <2>4 DEF Session
  <2> QED BY <1>2, <1>3, <2>1, <2>3, <2>5, <2>6 DEF Written, EndsAfter
<1> QED BY <1>5, <1>6, <1>7, <1>8, <1>9, <1>10 DEF ReadInv

LEMMA QuietReads ==
    ASSUME ReadInv, UNCHANGED <<now, ts, cmd, gaps, pipe, up, points, records, session, data, faults>>
    PROVE  ReadInv'
<1>1. LineInv /\ GapInv /\ MemInv /\ RestInv /\ EmptyInv /\ DataInv
  BY DEF ReadInv
<1>2. LineInv' /\ GapInv' BY <1>1 DEF LineInv, GapInv
<1>3. MemInv'
  <2>1. Kept' = Kept BY DEF Kept
  <2>2. Checks' <=> Checks BY <2>1 DEF Checks
  <2> QED BY <1>1, <2>1, <2>2 DEF MemInv
<1>4. RestInv' /\ EmptyInv' BY <1>1 DEF RestInv, EmptyInv
<1>5. DataInv' BY <1>1 DEF DataInv, Written
<1> QED BY <1>2, <1>3, <1>4, <1>5 DEF ReadInv

LEMMA EmptyLine ==
    /\ StartsFirst(<<>>) /\ StopsLast(<<>>) /\ NotStopped(<<>>) /\ ~Starting(<<>>)
    /\ ~ChunkNext(<<>>) /\ FirstFollowed(<<>>)
  BY DEF StartsFirst, StopsLast, NotStopped, Starting, ChunkNext, FirstFollowed

(* More points hold what fewer hold.                                        *)
LEMMA RecsMore ==
    ASSUME NEW B, NEW C, Chunks(B, <<>>) \subseteq Chunks(C, <<>>),
           NEW rs \in Seq(Records), NEW pp, NEW n \in Nat, NEW f, Recs(B, rs, pp, n, f)
    PROVE  Recs(C, rs, pp, n, f)
<1>1. ASSUME NEW i \in DOMAIN rs PROVE Spans(C, rs[i], n, f)
  <2>1. Spans(B, rs[i], n, f) BY <1>1 DEF Recs
  <2>2. rs[i].end.t \in Nat BY <1>1, RecordPoints
  <2>3. rs[i].end.t <= rs[i].end.t BY <2>2
  <2>4. Held(f, Chunks(C, <<>>), rs[i].start, rs[i].end.t)
    BY <2>1, <2>2, <2>3, HeldLess DEF Spans
  <2> QED BY <2>1, <2>4 DEF Spans
<1> QED BY <1>1 DEF Recs

LEMMA KeptChunks ==
    ASSUME NEW ps \in Seq(Points), NEW n \in 0..Len(ps)
    PROVE  Chunks(SubSeq(ps, 1, n), <<>>) \subseteq Chunks(ps, <<>>)
<1> DEFINE B == SubSeq(ps, 1, n)
<1>1. /\ B \in Seq(Points) /\ Len(B) = n /\ \A i \in 1..n : B[i] = ps[i]
  BY PrefixIsTyped
<1>2. Len(ps) \in Nat /\ DOMAIN ps = 1..Len(ps) /\ DOMAIN B = 1..n
  BY <1>1, LenProperties
<1> HIDE DEF B
<1>3. \A i \in DOMAIN B : i \in DOMAIN ps /\ B[i] = ps[i] BY <1>1, <1>2
<1> QED BY <1>3 DEF Chunks, B

LEMMA GarbageChunks ==
    ASSUME NEW rs \in Seq(Records), NEW ps \in Seq(Points)
    PROVE  Chunks(RemoveGarbagePoints(rs, ps), <<>>) \subseteq Chunks(ps, <<>>)
  BY GarbageIsRemoved, KeptChunks

(* What the file says can be read again without a pipeline.                 *)
LEMMA GoneReads ==
    ASSUME TypeInv, ReadInv, Gone, ~gaps, faults' \in Nat
    PROVE  ReadInv'
<1>1. DataInv BY DEF ReadInv
<1>2. /\ ~up' /\ cmd' = Off /\ pipe' = <<>> /\ UNCHANGED <<now, ts, gaps, points, records, session, data>>
  BY DEF Gone, memVars
<1>3. ~cmd'.on BY <1>2 DEF Off
<1>4. LineInv' BY <1>2, <1>3, EmptyLine DEF LineInv
<1>5. GapInv' /\ MemInv' /\ RestInv' /\ EmptyInv'
  BY <1>2 DEF GapInv, MemInv, Checks, RestInv, EmptyInv
<1>6. DataInv'
  <2> SUFFICES ASSUME NEW d \in data PROVE Written(d)' BY <1>2 DEF DataInv
  <2>1. Written(d) BY <1>1 DEF DataInv
  <2>2. /\ d.points \in Seq(Points) /\ d.records \in Seq(Records) /\ now \in Nat /\ now <= now
        /\ RemoveGarbagePoints(d.records, d.points) \in Seq(Points) /\ pipe \in Seq(Messages)
    BY MemIsTyped
  <2>3. PICK B \in {d.points, RemoveGarbagePoints(d.records, d.points)} :
           Chain(B, pipe, cmd, now, ts) /\ Recs(B, d.records, pipe, now, ts)
    BY <2>1 DEF Written
  <2>4. B \in Seq(Points) BY <2>2
  <2>5. Sound(B, now) /\ Geometry(B) BY <2>2, <2>3, <2>4, ChainIsSound
  <2>6. Chain(B, <<>>, cmd', now, ts) BY <1>3, <2>2, <2>4, <2>5, ChainRests
  <2>7. Recs(B, d.records, <<>>, now, ts) BY <2>2, <2>3, RecsLater
  <2> QED BY <1>2, <2>1, <2>3, <2>6, <2>7 DEF Written, EndsAfter
<1> QED BY <1>4, <1>5, <1>6 DEF ReadInv

LEMMA EmptyChain ==
    ASSUME NEW n \in Nat, NEW c, ~c.on, NEW f
    PROVE  Chain(<<>>, <<>>, c, n, f) /\ Recs(<<>>, <<>>, <<>>, n, f)
<1>1. <<>> \in Seq(Points) /\ Len(<<>>) = 0 /\ DOMAIN <<>> = {} OBVIOUS
<1>2. Sound(<<>>, n) /\ Geometry(<<>>) BY <1>1, Sizes DEF Sound, Geometry
<1>3. Chain(<<>>, <<>>, c, n, f) BY <1>1, <1>2, ChainRests
<1>4. Recs(<<>>, <<>>, <<>>, n, f) BY <1>1 DEF Recs
<1> QED BY <1>3, <1>4

LEMMA StartedReads ==
    ASSUME TypeInv, ReadInv, Started
    PROVE  ReadInv'
<1>1. LineInv /\ GapInv /\ DataInv BY DEF ReadInv
<1>2. /\ ~up /\ up' /\ ~session' /\ records' = LoadedRecords /\ points' = LoadedPoints
      /\ UNCHANGED <<now, ts, cmd, gaps, pipe, data, faults>>
  BY DEF Started, cmdVars
<1>3. pipe = <<>> /\ ~cmd.on /\ ~gaps BY <1>1, <1>2 DEF LineInv, GapInv
<1>4. LineInv' /\ GapInv' BY <1>1, <1>2, <1>3 DEF LineInv, GapInv
<1>5. DataType /\ now \in Nat /\ now <= now BY MemIsTyped DEF TypeInv
<1>6. Kept' = points' BY <1>2, <1>3, EmptyLine DEF Kept
<1>7. \A rs, ps : Runs(ps, rs, <<>>, cmd, now, ts) BY <1>3 DEF Runs
<1>8. CASE data = {}
  <2>1. records' = <<>> /\ points' = <<>>
    BY <1>2, <1>8 DEF LoadedRecords, LoadedPoints
  <2>2. Chain(<<>>, <<>>, cmd, now, ts) /\ Recs(<<>>, <<>>, <<>>, now, ts)
    BY <1>3, <1>5, EmptyChain
  <2>3. MemInv' BY <1>2, <1>3, <1>6, <1>7, <2>1, <2>2 DEF MemInv
  <2>4. RestInv' /\ EmptyInv' /\ DataInv'
    BY <1>2, <1>3, <1>8, <2>1, EmptyLine DEF RestInv, EmptyInv, DataInv
  <2> QED BY <1>4, <2>3, <2>4 DEF ReadInv
<1>9. CASE data # {}
  <2>1. PICK d \in data : LoadedRecords = d.records /\ LoadedPoints = d.points
    BY <1>5, <1>9, LoadedKeeps
  <2>2. Written(d) BY <1>1, <1>3 DEF DataInv
  <2>3. /\ d.points \in Seq(Points) /\ d.records \in Seq(Records)
        /\ RemoveGarbagePoints(d.records, d.points) \in Seq(Points)
    BY MemIsTyped
  <2>4. PICK B \in {d.points, RemoveGarbagePoints(d.records, d.points)} :
           Chain(B, pipe, cmd, now, ts) /\ Recs(B, d.records, pipe, now, ts)
    BY <2>2 DEF Written
  <2>5. Chunks(B, <<>>) \subseteq Chunks(d.points, <<>>)
    BY <2>3, <2>4, GarbageChunks
  <2>6. Recs(d.points, d.records, <<>>, now, ts)
    BY <1>3, <1>5, <2>3, <2>4, <2>5, RecsMore
  <2>7. Chain(d.points, <<>>, cmd, now, ts)
    BY <1>3, <1>5, <2>2, <2>3, ChainRests DEF Written
  <2>8. MemInv' BY <1>2, <1>3, <1>6, <1>7, <2>1, <2>6, <2>7 DEF MemInv
  <2>9. RestInv' /\ EmptyInv'
    <3>1. Last(d.records).end.t \in Nat /\ Last(d.points).t \in Nat
      <4>1. d.records # <<>> /\ d.points # <<>> BY <2>2 DEF Written
      <4>2. Last(d.points) \in Points BY <2>3, <4>1, LastIsTyped
      <4> QED BY <2>3, <4>1, <4>2, RecordPoints, PointsAreTyped
    <3>2. ~(Last(d.points).t < Last(d.records).end.t)
      BY <2>2, <3>1 DEF Written
    <3> QED BY <1>2, <1>3, <2>1, <2>2, <3>2 DEF RestInv, EmptyInv, Written
  <2>10. DataInv'
    <3> SUFFICES ASSUME NEW x \in data PROVE Written(x)' BY <1>2 DEF DataInv
    <3>1. x = d BY <1>5 DEF DataType
    <3> QED BY <1>2, <1>3, <2>1, <2>2, <3>1 DEF Written, EndsAfter
  <2> QED BY <1>4, <2>8, <2>9, <2>10 DEF ReadInv
<1> QED BY <1>8, <1>9

(***************************************************************************)
(* A message is handled that leaves the points alone.                       *)
(***************************************************************************)
Handles == up /\ pipe # <<>> /\ pipe' = Tail(pipe)
Others == UNCHANGED <<now, ts, cmd, gaps, up, points, data, faults>>
Plain == ~IsChunk(Head(pipe)) /\ Head(pipe).kind # "start"

LEMMA PlainReads ==
    ASSUME TypeInv, ReadInv, Handles, Others, Plain,
           session' = session \/ (~session' /\ Head(pipe).kind = "stopped"),
           records' \in Seq(Records), records # <<>> => records' # <<>>,
           Head(pipe).kind = "started" => records' = records,
           Checks => /\ Recs(Kept, records', Tail(pipe), now, ts)
                     /\ Runs(Kept, records', Tail(pipe), cmd, now, ts),
           RestInv', EmptyInv'
    PROVE  ReadInv'
<1>1. LineInv /\ GapInv /\ MemInv /\ DataInv BY DEF ReadInv
<1>2. /\ up /\ up' /\ pipe # <<>> /\ pipe' = Tail(pipe) /\ ~IsChunk(Head(pipe)) /\ Head(pipe).kind # "start"
      /\ pipe \in Seq(Messages) /\ now \in Nat /\ ~ChunkNext(pipe)
  BY MemIsTyped DEF Handles, Others, Plain, ChunkNext
<1>3. /\ StartsFirst(Tail(pipe)) /\ StopsLast(Tail(pipe)) /\ (NotStopped(pipe) => NotStopped(Tail(pipe)))
      /\ Head(pipe).kind = "stopped" => Tail(pipe) = <<>> /\ ~NotStopped(pipe)
      /\ Starting(Tail(pipe)) <=> Starting(pipe)
      /\ Starting(pipe) => Head(pipe).kind = "started"
  BY <1>1, <1>2, LineShrinks DEF LineInv
<1>4. LineInv' BY <1>1, <1>2, <1>3 DEF LineInv, Others
<1>5. GapInv' BY <1>1, <1>2, <1>3 DEF GapInv, LineInv, Others
<1>6. Kept' = Kept /\ (Checks' => Checks)
  <2>1. Kept' = Kept BY <1>2, <1>3 DEF Kept, Others
  <2> QED BY <1>2, <1>3, <2>1 DEF Checks, Others
<1>7. MemInv'
  <2> SUFFICES ASSUME Checks PROVE Chain(Kept, Tail(pipe), cmd, now, ts)
    BY <1>2, <1>6 DEF MemInv, Others
  <2> QED BY <1>1, <1>2, MemIsTyped, ChainHandled DEF MemInv
<1>8. DataInv'
  <2> SUFFICES ASSUME ~gaps, NEW d \in data PROVE Written(d)'
    BY DEF DataInv, Others
  <2>1. Written(d) BY <1>1 DEF DataInv
  <2>2. /\ d.points \in Seq(Points) /\ d.records \in Seq(Records)
        /\ RemoveGarbagePoints(d.records, d.points) \in Seq(Points)
    BY MemIsTyped
  <2>3. PICK B \in {d.points, RemoveGarbagePoints(d.records, d.points)} :
           Chain(B, pipe, cmd, now, ts) /\ Recs(B, d.records, pipe, now, ts)
    BY <2>1 DEF Written
  <2>4. Chain(B, Tail(pipe), cmd, now, ts) /\ Recs(B, d.records, Tail(pipe), now, ts)
    BY <1>2, <2>2, <2>3, ChainHandled, RecsHandled
  <2> QED BY <1>2, <2>1, <2>3, <2>4 DEF Written, EndsAfter, Others
<1> QED BY <1>4, <1>5, <1>7, <1>8 DEF ReadInv

(* The records stay.                                                        *)
LEMMA SilentReads ==
    ASSUME TypeInv, ReadInv, PipelineStarted \/ PipelineStopped \/ HandleStopRecording
    PROVE  ReadInv'
<1>1. LineInv /\ MemInv /\ RestInv /\ EmptyInv BY DEF ReadInv
<1>2. /\ Handles /\ Others /\ records' = records
      /\ Head(pipe).kind \in {"started", "stopped", "stop"}
      /\ session' = session \/ (~session' /\ Head(pipe).kind = "stopped")
  BY DEF PipelineStarted, PipelineStopped, HandleStopRecording, Receive, cmdVars, Handles, Others
<1>3. /\ Plain /\ up /\ up' /\ pipe # <<>> /\ pipe' = Tail(pipe) /\ ~IsChunk(Head(pipe))
      /\ ~ChunkNext(pipe) /\ ~StartsRecord(pipe) /\ Head(pipe).kind # "start"
      /\ Head(pipe).kind # "event-start"
  BY <1>2 DEF Plain, IsChunk, Handles, Others, ChunkNext, StartsRecord
<1>4. records \in Seq(Records) /\ pipe \in Seq(Messages) /\ now \in Nat /\ Kept \in Seq(Points)
  BY MemIsTyped
<1>5. /\ Starting(Tail(pipe)) <=> Starting(pipe)
      /\ FirstFollowed(pipe) => FirstFollowed(Tail(pipe))
  BY <1>1, <1>3, <1>4, LineShrinks DEF LineInv
<1>6. ASSUME Checks
      PROVE  /\ Recs(Kept, records, Tail(pipe), now, ts) /\ Runs(Kept, records, Tail(pipe), cmd, now, ts)
  BY <1>1, <1>3, <1>4, <1>6, RecsHandled, OpenKept DEF MemInv
<1>7. RestInv' BY <1>1, <1>2, <1>3, <1>5 DEF RestInv, Others
<1>8. EmptyInv' BY <1>1, <1>2, <1>3, <1>5 DEF EmptyInv, Others
<1> QED BY <1>2, <1>3, <1>4, <1>6, <1>7, <1>8, PlainReads

(* A boundary between events is in the chunk of the last point.             *)
LEMMA BoundaryInLast ==
    ASSUME NEW ps \in Seq(Points), NEW pp \in Seq(Messages), pp # <<>>, IsBoundary(Head(pp)),
           NEW c, NEW n \in Nat, NEW f, Chain(ps, pp, c, n, f)
    PROVE  /\ ps # <<>> /\ InChunk(Last(ps), Head(pp).point)
           /\ Len(ps) >= 2 => ps[Len(ps) - 1].t < Head(pp).point.t
<1>1. /\ Head(pp) = pp[1] /\ 1 \in DOMAIN pp /\ DOMAIN pp = 1..Len(pp) /\ Len(pp) \in Nat
      /\ Head(pp) \in Messages
  BY TailIsTyped
<1> DEFINE p == Head(pp).point
<1>2. p \in Points /\ p.t \in Nat BY <1>1, PointsAreTyped DEF Messages
<1>3. InLast(ps, pp, 1, p) BY <1>1 DEF Chain, Within
<1>4. NoChunk(pp, 1) BY <1>1 DEF NoChunk
<1>5. ps # <<>> /\ InChunk(Last(ps), p) BY <1>3, <1>4 DEF InLast
<1>6. ASSUME Len(ps) >= 2 PROVE ps[Len(ps) - 1].t < p.t
  <2>1. Len(ps) \in Nat /\ DOMAIN ps = 1..Len(ps) /\ Last(ps) = ps[Len(ps)]
    BY <1>5, LastIsTyped
  <2>2. Len(ps) - 1 \in DOMAIN ps /\ Len(ps) \in DOMAIN ps /\ Len(ps) - 1 < Len(ps)
    BY <1>6, <2>1
  <2> DEFINE u == ps[Len(ps) - 1].t
             v == ps[Len(ps)].t
  <2>3. u + ChunkSize <= v BY <2>2 DEF Chain, Sound
  <2>4. u \in Nat /\ v \in Nat BY <2>2, ElementOfSeq, PointsAreTyped
  <2>5. v <= p.t BY <1>5, <2>1 DEF InChunk
  <2> HIDE DEF u, v
  <2>6. u < p.t BY <1>2, <2>3, <2>4, <2>5, Sizes
  <2> QED BY <2>6 DEF u
<1> QED BY <1>5, <1>6

LEMMA EventStartReads ==
    ASSUME TypeInv, ReadInv, HandleEventStart
    PROVE  ReadInv'
<1> DEFINE p == Head(pipe).point
           r == NewRecord(p)
           qs == Append(records, r)
<1>1. LineInv /\ MemInv BY DEF ReadInv
<1>2. /\ Handles /\ Others /\ records' = qs /\ session' = session
      /\ Head(pipe).kind = "event-start"
  BY DEF HandleEventStart, Receive, cmdVars, Handles, Others
<1>3. /\ Plain /\ up /\ up' /\ pipe # <<>> /\ pipe' = Tail(pipe) /\ ~IsChunk(Head(pipe))
      /\ Pointed(Head(pipe)) /\ IsBoundary(Head(pipe)) /\ points' = points /\ gaps' = gaps
  BY <1>2 DEF Plain, IsChunk, Handles, Others, Pointed, IsBoundary
<1>4. /\ records \in Seq(Records) /\ pipe \in Seq(Messages) /\ now \in Nat /\ Kept \in Seq(Points)
      /\ points \in Seq(Points)
  BY MemIsTyped
<1>5. ~Starting(pipe) BY <1>1, <1>2, <1>3, <1>4, LineShrinks DEF LineInv
<1>6. Kept = points /\ Checks BY <1>3, <1>5 DEF Kept, Checks
<1>7. Chain(points, pipe, cmd, now, ts) /\ Recs(points, records, pipe, now, ts)
  BY <1>1, <1>6 DEF MemInv
<1>8. p \in Points /\ p.t \in Nat
  <2>1. Head(pipe) \in Messages BY <1>3, <1>4, TailIsTyped
  <2> QED BY <2>1, PointsAreTyped DEF Messages
<1>9. r \in Records /\ r.start = p /\ r.end = p BY <1>8 DEF NewRecord, Records
<1> HIDE DEF r
<1>10. qs \in Seq(Records) /\ qs # <<>> /\ Last(qs) = r
  BY <1>4, <1>9, AppendIsTyped
<1>11. Recs(points, qs, Tail(pipe), now, ts)
  BY <1>3, <1>4, <1>7, <1>9, RecsStarted
<1>12. Runs(points, qs, Tail(pipe), cmd, now, ts)
  BY <1>2, <1>3, <1>4, <1>7, <1>9, <1>10, OpenStarted
<1>13. /\ points # <<>> /\ InChunk(Last(points), p)
       /\ Len(points) >= 2 => points[Len(points) - 1].t < p.t
  BY <1>3, <1>4, <1>7, BoundaryInLast
<1> HIDE DEF qs, p
<1>14. RestInv' BY <1>2, <1>3, <1>9, <1>10, <1>13 DEF RestInv, EndsAfter
<1>15. EmptyInv' BY <1>2, <1>10 DEF EmptyInv
<1> QED BY <1>2, <1>3, <1>6, <1>10, <1>11, <1>12, <1>14, <1>15, PlainReads

LEMMA EventUpdatedReads ==
    ASSUME TypeInv, ReadInv, HandleEventUpdate \/ HandleEventEnd
    PROVE  ReadInv'
<1> DEFINE p == Head(pipe).point
<1>1. LineInv /\ MemInv /\ RestInv /\ EmptyInv BY DEF ReadInv
<1>2. /\ Handles /\ Others /\ session' = session
      /\ \/ Head(pipe).kind = "event-update" \/ Head(pipe).kind = "event-end"
      /\ \E b \in BOOLEAN : records' = UpdateLastRecord(records, p, b)
  BY DEF HandleEventUpdate, HandleEventEnd, Receive, cmdVars, Handles, Others
<1>3. /\ Plain /\ up /\ up' /\ pipe # <<>> /\ pipe' = Tail(pipe) /\ ~IsChunk(Head(pipe))
      /\ Ends(Head(pipe)) /\ points' = points /\ gaps' = gaps
      /\ Head(pipe).kind # "start" /\ Head(pipe).kind # "event-start" /\ Head(pipe).kind # "started"
      /\ ~StartsRecord(pipe)
  BY <1>2 DEF Plain, IsChunk, Handles, Others, Ends, StartsRecord
<1>4. /\ records \in Seq(Records) /\ pipe \in Seq(Messages) /\ now \in Nat /\ Kept \in Seq(Points)
      /\ points \in Seq(Points)
  BY MemIsTyped
<1>5. ~Starting(pipe) /\ (FirstFollowed(pipe) => FirstFollowed(Tail(pipe)))
  BY <1>1, <1>3, <1>4, LineShrinks DEF LineInv
<1>6. Kept = points /\ Checks BY <1>3, <1>5 DEF Kept, Checks
<1>7. /\ Chain(points, pipe, cmd, now, ts) /\ Recs(points, records, pipe, now, ts)
      /\ Runs(points, records, pipe, cmd, now, ts)
  BY <1>1, <1>6 DEF MemInv
<1>8. PICK b \in BOOLEAN : records' = UpdateLastRecord(records, p, b) BY <1>2
<1> DEFINE qs == UpdateLastRecord(records, p, b)
<1>9. /\ Recs(points, qs, Tail(pipe), now, ts) /\ qs \in Seq(Records) /\ (qs # <<>> <=> records # <<>>)
      /\ qs # <<>> => Last(qs).start = Last(records).start /\ Last(qs).end = p
  BY <1>3, <1>4, <1>7, RecsUpdated
<1> HIDE DEF qs, p
<1>10. Runs(points, qs, Tail(pipe), cmd, now, ts)
  BY <1>3, <1>4, <1>7, <1>9, OpenKept
<1>11. records' = qs BY <1>8 DEF qs
<1>12. EmptyInv' BY <1>1, <1>3, <1>5, <1>9, <1>11 DEF EmptyInv
<1>13. RestInv'
  <2> SUFFICES ASSUME records # <<>>
               PROVE  /\ points # <<>>
                      /\ ~ChunkNext(Tail(pipe)) => InChunk(Last(points), p)
                      /\ Len(points) >= 2 => points[Len(points) - 1].t < p.t
    BY <1>3, <1>9, <1>11 DEF RestInv, EndsAfter
  <2>1. CASE Head(pipe).kind = "event-end"
    <3>1. IsBoundary(Head(pipe)) BY <2>1 DEF IsBoundary
    <3> QED BY <1>3, <1>4, <1>7, <3>1, BoundaryInLast DEF p
  <2>2. CASE Head(pipe).kind = "event-update"
    <3>1. points # <<>> BY <1>1, <1>3, <1>5 DEF RestInv
    <3>2. /\ Head(pipe) = pipe[1] /\ 1 \in DOMAIN pipe /\ DOMAIN pipe = 1..Len(pipe) /\ Len(pipe) \in Nat
          /\ DOMAIN Tail(pipe) = 1..Len(pipe) - 1 /\ Tail(pipe) \in Seq(Messages)
          /\ \A i \in 1..Len(pipe) - 1 : Tail(pipe)[i] = pipe[i + 1]
      BY <1>3, <1>4, TailIsTyped
    <3>3. 1 + 1 \in DOMAIN pipe /\ IsChunk(pipe[1 + 1]) /\ pipe[1 + 1].point = p
      BY <1>7, <2>2, <3>2 DEF Chain, Updates, p
    <3>4. 1 \in DOMAIN Tail(pipe) /\ Tail(pipe)[1] = pipe[1 + 1] BY <3>2, <3>3
    <3>5. Tail(pipe) # <<>>
      <4>1. DOMAIN <<>> = {} OBVIOUS
      <4> QED BY <3>4, <4>1
    <3>6. ChunkNext(Tail(pipe))
      BY <3>2, <3>3, <3>4, <3>5, TailIsTyped DEF ChunkNext
    <3>7. ASSUME Len(points) >= 2 PROVE points[Len(points) - 1].t < p.t
      <4>1. Len(points) \in Nat /\ DOMAIN points = 1..Len(points)
        BY <1>4, LenProperties
      <4>2. Len(points) - 1 \in DOMAIN points BY <3>7, <4>1
      <4> DEFINE u == points[Len(points) - 1].t
      <4>3. u + ChunkSize <= p.t BY <1>7, <3>3, <4>2 DEF Chain, Beyond
      <4>4. u \in Nat BY <1>4, <4>2, ElementOfSeq, PointsAreTyped
      <4>5. p.t \in Nat
        <5>1. Head(pipe) \in Messages BY <1>3, <1>4, TailIsTyped
        <5> QED BY <5>1, PointsAreTyped DEF Messages, p
      <4> HIDE DEF u
      <4>6. u < p.t BY <4>3, <4>4, <4>5, Sizes
      <4> QED BY <4>6 DEF u
    <3> QED BY <3>1, <3>6, <3>7
  <2> QED BY <1>2, <2>1, <2>2
<1> QED BY <1>2, <1>3, <1>6, <1>9, <1>10, <1>11, <1>12, <1>13, PlainReads

(* The check leaves the points that begin before the last record ends.      *)
LEMMA KeptRest ==
    ASSUME NEW rs \in Seq(Records), rs # <<>>, NEW ps \in Seq(Points), NEW n,
           Sound(RemoveGarbagePoints(rs, ps), n)
    PROVE  EndsAfter(rs, RemoveGarbagePoints(rs, ps))
<1>1. PICK m \in 0..Len(ps) :
         /\ RemoveGarbagePoints(rs, ps) = SubSeq(ps, 1, m)
         /\ m > 0 => Last(rs).end.t > ps[m].t
  BY GarbageIsRemoved
<1> DEFINE B == SubSeq(ps, 1, m)
<1>2. B \in Seq(Points) /\ Len(B) = m /\ (\A i \in 1..m : B[i] = ps[i]) /\ DOMAIN B = 1..Len(B)
  BY PrefixIsTyped, LenProperties
<1> HIDE DEF B
<1>3. ASSUME m >= 2 PROVE B[m - 1].t < Last(rs).end.t
  <2> DEFINE u == B[m - 1].t
             v == B[m].t
             w == Last(rs).end.t
  <2>1. m - 1 \in DOMAIN B /\ m \in DOMAIN B /\ m - 1 < m BY <1>2, <1>3
  <2>2. u + ChunkSize <= v BY <1>1, <2>1 DEF Sound, B
  <2>3. u \in Nat /\ v \in Nat /\ w \in Nat
    BY <1>2, <2>1, ElementOfSeq, PointsAreTyped, RecordPoints
  <2>4. B[m] = ps[m] /\ m > 0 BY <1>2, <1>3
  <2>5. w > v BY <1>1, <2>4
  <2> HIDE DEF u, v, w
  <2>6. u < w BY <2>2, <2>3, <2>5, Sizes
  <2> QED BY <2>6 DEF u, w
<1> QED BY <1>1, <1>2, <1>3 DEF EndsAfter, B

LEMMA StartRecordingReads ==
    ASSUME TypeInv, ReadInv, HandleStartRecording
    PROVE  ReadInv'
<1>1. LineInv /\ GapInv /\ MemInv /\ EmptyInv /\ DataInv BY DEF ReadInv
<1>2. up /\ pipe # <<>> /\ Head(pipe).kind = "start" /\ faults' = faults
  BY DEF HandleStartRecording
<1>3. /\ records \in Seq(Records) /\ pipe \in Seq(Messages) /\ now \in Nat /\ Kept \in Seq(Points)
      /\ points \in Seq(Points)
  BY MemIsTyped
<1>4. /\ Starting(pipe) /\ ~Starting(Tail(pipe)) /\ ChunkNext(Tail(pipe))
      /\ StartsFirst(Tail(pipe)) /\ StopsLast(Tail(pipe)) /\ (NotStopped(pipe) => NotStopped(Tail(pipe)))
  BY <1>1, <1>2, <1>3, LineShrinks DEF LineInv
<1>5. Kept = RemoveGarbagePoints(records, points) BY <1>4 DEF Kept
<1>6. CASE ~Consistent(records, Kept)
  <2>1. Gone BY <1>5, <1>6 DEF HandleStartRecording
  <2>2. ~gaps BY <1>1, <1>4, <1>6 DEF GapInv, Consistent
  <2>3. faults' \in Nat BY <1>1, <1>2 DEF LineInv
  <2> QED BY <2>1, <2>2, <2>3, GoneReads
<1>7. CASE Consistent(records, Kept)
  <2>1. /\ pipe' = Tail(pipe) /\ points' = Kept
        /\ UNCHANGED <<now, ts, cmd, gaps, up, records, session, data, faults>>
    BY <1>2, <1>5, <1>7 DEF HandleStartRecording, cmdVars
  <2>2. ~IsChunk(Head(pipe)) /\ Head(pipe).kind # "event-start" /\ ~StartsRecord(pipe) /\ ~ChunkNext(pipe)
    BY <1>2 DEF IsChunk, StartsRecord, ChunkNext
  <2>3. FirstFollowed(pipe) => FirstFollowed(Tail(pipe))
    BY <1>1, <1>2, <1>3, <2>2, LineShrinks DEF LineInv
  <2>4. LineInv' BY <1>1, <1>2, <1>4, <2>1 DEF LineInv
  <2>5. GapInv' BY <1>1, <1>2, <1>4, <2>1 DEF GapInv, LineInv
  <2>6. Checks /\ Kept' = Kept BY <1>2, <1>4, <1>7, <2>1 DEF Checks, Kept
  <2>7. /\ Chain(Kept, pipe, cmd, now, ts) /\ Recs(Kept, records, pipe, now, ts)
        /\ Runs(Kept, records, pipe, cmd, now, ts)
    BY <1>1, <2>6 DEF MemInv
  <2>8. /\ Chain(Kept, Tail(pipe), cmd, now, ts) /\ Recs(Kept, records, Tail(pipe), now, ts)
        /\ Runs(Kept, records, Tail(pipe), cmd, now, ts)
    BY <1>2, <1>3, <2>2, <2>7, ChainHandled, RecsHandled, OpenKept
  <2>9. MemInv' BY <2>1, <2>6, <2>8 DEF MemInv
  <2>10. RestInv'
    <3> SUFFICES ASSUME records # <<>> PROVE Kept # <<>> /\ EndsAfter(records, Kept)
      BY <1>4, <2>1 DEF RestInv
    <3>1. Sound(Kept, now) BY <2>7 DEF Chain
    <3> QED BY <1>3, <1>5, <1>7, <3>1, KeptRest DEF Consistent
  <2>11. EmptyInv'
    <3> SUFFICES ASSUME ~gaps, records = <<>> PROVE Kept = <<>> /\ FirstFollowed(Tail(pipe))
      BY <2>1 DEF EmptyInv
    <3>1. Kept = points BY MemIsTyped
    <3> QED BY <1>1, <1>2, <2>2, <2>3, <3>1 DEF EmptyInv
  <2>12. DataInv'
    <3> SUFFICES ASSUME ~gaps, NEW d \in data PROVE Written(d)'
      BY <2>1 DEF DataInv
    <3>1. Written(d) BY <1>1 DEF DataInv
    <3>2. /\ d.points \in Seq(Points) /\ d.records \in Seq(Records)
          /\ RemoveGarbagePoints(d.records, d.points) \in Seq(Points)
      BY MemIsTyped
    <3>3. PICK B \in {d.points, RemoveGarbagePoints(d.records, d.points)} :
             Chain(B, pipe, cmd, now, ts) /\ Recs(B, d.records, pipe, now, ts)
      BY <3>1 DEF Written
    <3>4. Chain(B, Tail(pipe), cmd, now, ts) /\ Recs(B, d.records, Tail(pipe), now, ts)
      BY <1>2, <1>3, <2>2, <3>2, <3>3, ChainHandled, RecsHandled
    <3> QED BY <1>2, <1>4, <2>1, <3>1, <3>3, <3>4 DEF Written, EndsAfter
  <2> QED BY <2>4, <2>5, <2>9, <2>10, <2>11, <2>12 DEF ReadInv
<1> QED BY <1>6, <1>7

(***************************************************************************)
(* handle_chunk(): the file says what the recorder has.                     *)
(***************************************************************************)
Alike(rs, qs) ==
    Len(qs) = Len(rs) /\ \A i \in DOMAIN rs : qs[i].start = rs[i].start /\ qs[i].end = rs[i].end

LEMMA SavedAreAlike ==
    ASSUME NEW rs \in Seq(Records), rs # <<>>, NEW ps, NEW d \in Saved(rs, ps)
    PROVE  d.points = ps /\ d.records \in Seq(Records) /\ Alike(rs, d.records)
<1> DEFINE qs == [i \in DOMAIN rs |-> [rs[i] EXCEPT !.recording = FALSE]]
<1>1. d.points = ps /\ d.records = qs BY DEF Saved
<1>2. DOMAIN rs = 1..Len(rs) /\ Len(rs) \in Nat /\ \A i \in DOMAIN rs : rs[i] \in Records
  BY RecordPoints
<1>3. \A i \in DOMAIN rs : /\ qs[i] \in Records /\ qs[i].start = rs[i].start /\ qs[i].end = rs[i].end
  BY <1>2 DEF Records
<1>4. DOMAIN qs = 1..Len(rs) BY <1>2
<1> HIDE DEF qs
<1>5. \A i \in 1..Len(rs) : qs[i] \in Records BY <1>2, <1>3
<1>6. qs = [i \in 1..Len(rs) |-> qs[i]] BY <1>2 DEF qs
<1>7. qs \in Seq(Records) /\ Len(qs) = Len(rs)
  BY <1>2, <1>5, <1>6, IsASeq, LenProperties
<1> QED BY <1>1, <1>3, <1>7 DEF Alike

LEMMA AlikeRecs ==
    ASSUME NEW B, NEW rs \in Seq(Records), NEW qs \in Seq(Records), Alike(rs, qs), rs # <<>>,
           NEW pp, NEW n, NEW f, Recs(B, rs, pp, n, f)
    PROVE  Recs(B, qs, pp, n, f) /\ qs # <<>> /\ Last(qs).end = Last(rs).end
<1>1. /\ DOMAIN qs = DOMAIN rs /\ \A i \in DOMAIN rs : qs[i].start = rs[i].start /\ qs[i].end = rs[i].end
  BY RecordPoints DEF Alike
<1>2. ASSUME NEW i \in DOMAIN qs PROVE Spans(B, qs[i], n, f)
  <2>1. Spans(B, rs[i], n, f) /\ qs[i].start = rs[i].start /\ qs[i].end = rs[i].end
    BY <1>1, <1>2 DEF Recs
  <2> QED BY <2>1 DEF Spans
<1>3. Recs(B, qs, pp, n, f) BY <1>1, <1>2 DEF Recs
<1>4. /\ Len(rs) \in DOMAIN rs /\ Last(rs) = rs[Len(rs)] BY RecordPoints
<1>5. qs # <<>>
  <2>1. DOMAIN <<>> = {} OBVIOUS
  <2> QED BY <1>1, <1>4, <2>1
<1>6. Last(qs) = qs[Len(rs)] BY <1>5, RecordPoints DEF Alike
<1> QED BY <1>1, <1>3, <1>4, <1>5, <1>6

(* Before a chunk is handled the last record ends after the last point.     *)
LEMMA ReadyEnds ==
    ASSUME TypeInv, Firsts(pipe, points, records), pipe # <<>>, IsChunk(Head(pipe)),
           Beyond(points, pipe), points # <<>>, records # <<>>
    PROVE  Last(points).t < Last(records).end.t
<1>1. /\ Head(pipe) = pipe[1] /\ 1 \in DOMAIN pipe /\ Head(pipe) \in Messages
      /\ DOMAIN pipe = 1..Len(pipe) /\ Len(pipe) \in Nat
  BY MemIsTyped, TailIsTyped
<1> DEFINE p == Head(pipe).point
           u == Last(points).t
           v == Last(records).end.t
<1>2. FirstChunk(pipe, 1) BY <1>1 DEF FirstChunk
<1>3. Ready(p, points, records) BY <1>1, <1>2 DEF Firsts
<1>4. Last(points) = points[Len(points)] /\ Len(points) \in DOMAIN points /\ Last(points) \in Points
  BY MemIsTyped, LastIsTyped
<1>5. u \in Nat /\ v \in Nat BY <1>4, MemIsTyped, RecordPoints, PointsAreTyped
<1>6. u + ChunkSize <= p.t BY <1>1, <1>4 DEF Beyond
<1>7. v = p.t \/ u < v BY <1>3 DEF Ready, Checked
<1> HIDE DEF p, u, v
<1>8. u < v BY <1>5, <1>6, <1>7, Sizes
<1> QED BY <1>8 DEF u, v

LEMMA ChunkReads ==
    ASSUME TypeInv, ReadInv, ~gaps => RecoveryInv, HandleChunk
    PROVE  ReadInv'
<1> DEFINE m == Maintain(points, records)
           p == Head(pipe).point
           C == Append(m.points, p)
<1>1. LineInv /\ GapInv /\ MemInv /\ EmptyInv /\ DataInv BY DEF ReadInv
<1>2. /\ up /\ up' /\ pipe # <<>> /\ Head(pipe).kind = "chunk" /\ pipe' = Tail(pipe)
      /\ points' = C /\ records' = m.records /\ data' = Saved(m.records, C)
      /\ UNCHANGED <<now, ts, cmd, gaps, session, faults>>
  BY DEF HandleChunk, Receive, cmdVars
<1>3. /\ records \in Seq(Records) /\ pipe \in Seq(Messages) /\ now \in Nat /\ points \in Seq(Points)
      /\ Len(points) <= MaxChunks
  BY MemIsTyped DEF TypeInv, MemType
<1>4. /\ IsChunk(Head(pipe)) /\ Head(pipe).kind # "start" /\ Pointed(Head(pipe)) /\ ~StartsRecord(pipe)
      /\ Head(pipe).kind # "started"
  BY <1>2 DEF IsChunk, Pointed, StartsRecord
<1>5. /\ ~Starting(pipe) /\ ~Starting(Tail(pipe))
      /\ StartsFirst(Tail(pipe)) /\ StopsLast(Tail(pipe)) /\ (NotStopped(pipe) => NotStopped(Tail(pipe)))
      /\ FirstFollowed(pipe) => StartsRecord(Tail(pipe))
  BY <1>1, <1>2, <1>3, <1>4, LineShrinks DEF LineInv
<1>6. Kept = points /\ Checks BY <1>2, <1>5 DEF Kept, Checks
<1>7. /\ Chain(points, pipe, cmd, now, ts) /\ Recs(points, records, pipe, now, ts)
      /\ Runs(points, records, pipe, cmd, now, ts)
  BY <1>1, <1>6 DEF MemInv
<1>8. /\ Chain(C, Tail(pipe), cmd, now, ts) /\ Geometry(C)
      /\ Recs(C, m.records, Tail(pipe), now, ts) /\ Runs(C, m.records, Tail(pipe), cmd, now, ts)
      /\ points # <<>> => m.points # <<>> /\ Last(m.points) = Last(points)
      /\ records # <<>> /\ (points # <<>> => Last(points).t < Last(records).end.t) => m.records # <<>>
  BY <1>2, <1>3, <1>4, <1>7, Taken
<1>9. /\ \/ m.points = points
         \/ m.points = Tail(points) /\ points # <<>>
      /\ m.records \in Seq(Records)
      /\ m.records # <<>> => records # <<>> /\ Last(m.records).end = Last(records).end
  BY <1>3, MaintainKeeps
<1>10. m.points \in Seq(Points) /\ (points = <<>> => m.points = <<>>)
  BY <1>3, <1>9, TailIsTyped
<1>11. p \in Points /\ p.t \in Nat
  <2>1. Head(pipe) \in Messages BY <1>2, <1>3, TailIsTyped
  <2> QED BY <2>1, PointsAreTyped DEF Messages
<1>12. /\ C \in Seq(Points) /\ Len(C) = Len(m.points) + 1 /\ Len(m.points) \in Nat
       /\ Last(C) = p /\ C # <<>> /\ \A i \in 1..Len(m.points) : C[i] = m.points[i]
  BY <1>10, <1>11, AppendIsTyped
<1>13. ASSUME ~gaps, points # <<>>, records # <<>> PROVE Last(points).t < Last(records).end.t
  <2>1. Firsts(pipe, points, records) BY <1>13 DEF RecoveryInv, Queue
  <2>2. Beyond(points, pipe) BY <1>7 DEF Chain
  <2> QED BY <1>2, <1>4, <1>13, <2>1, <2>2, ReadyEnds
<1>14. ASSUME records # <<>> PROVE Last(records).end.t <= p.t
  <2>1. 1 \in DOMAIN pipe /\ pipe[1] = Head(pipe) /\ Len(records) \in DOMAIN records
        /\ Last(records) = records[Len(records)]
    BY <1>2, <1>3, <1>14, TailIsTyped, RecordPoints
  <2> QED BY <1>4, <1>7, <2>1 DEF Recs
<1> DEFINE qs == m.records
<1>15. ASSUME ~gaps, qs # <<>>, Len(C) >= 2 PROVE C[Len(C) - 1].t < Last(records).end.t
  <2>1. m.points # <<>> BY <1>12, <1>15
  <2>2. points # <<>> /\ records # <<>> BY <1>9, <1>10, <1>15, <2>1
  <2>3. Last(m.points) = m.points[Len(m.points)] /\ Len(m.points) \in 1..Len(m.points)
    BY <1>10, <2>1, LastIsTyped
  <2>4. Len(C) - 1 = Len(m.points) BY <1>12
  <2>5. C[Len(C) - 1] = Last(points) BY <1>8, <1>12, <2>2, <2>3, <2>4
  <2> QED BY <1>13, <1>15, <2>2, <2>5
<1>16. ASSUME ~gaps PROVE qs = <<>> => records = <<>> BY <1>8, <1>13, <1>16
<1> HIDE DEF p, C, m, qs
<1>17. LineInv' BY <1>1, <1>2, <1>5 DEF LineInv
<1>18. GapInv' BY <1>1, <1>2, <1>5 DEF GapInv, LineInv
<1>19. MemInv'
  <2>1. Kept' = C BY <1>2, <1>5 DEF Kept
  <2> QED BY <1>2, <1>8, <2>1 DEF MemInv
<1>20. RestInv'
  <2> SUFFICES ASSUME qs # <<>>
               PROVE  /\ ~(Last(C).t < Last(qs).end.t)
                      /\ ~gaps => EndsAfter(qs, C)
    BY <1>2, <1>12 DEF RestInv, qs
  <2>1. records # <<>> /\ Last(qs).end = Last(records).end BY <1>9 DEF qs
  <2>2. Last(records).end.t \in Nat BY <1>3, <2>1, RecordPoints
  <2>3. ~(Last(C).t < Last(qs).end.t) BY <1>11, <1>12, <1>14, <2>1, <2>2
  <2> QED BY <1>15, <2>1, <2>3 DEF EndsAfter
<1>21. EmptyInv'
  <2> SUFFICES ASSUME ~gaps, qs = <<>> PROVE StartsRecord(Tail(pipe))
    BY <1>2 DEF EmptyInv, qs
  <2> QED BY <1>1, <1>2, <1>4, <1>5, <1>16 DEF EmptyInv
<1>22. DataInv'
  <2> SUFFICES ASSUME ~gaps, NEW d \in data' PROVE Written(d)'
    BY <1>2 DEF DataInv
  <2>1. CASE qs = <<>>
    <3>1. d \in data BY <1>2, <2>1 DEF Saved, qs
    <3> QED BY <1>1, <1>2, <1>16, <2>1, <3>1 DEF DataInv, Written
  <2>2. CASE qs # <<>>
    <3>1. d.points = C /\ d.records \in Seq(Records) /\ Alike(qs, d.records)
      BY <1>2, <1>9, <2>2, SavedAreAlike DEF qs
    <3>2. Recs(C, d.records, Tail(pipe), now, ts) /\ d.records # <<>> /\ Last(d.records).end = Last(qs).end
      BY <1>8, <1>9, <2>2, <3>1, AlikeRecs DEF qs
    <3>3. records # <<>> /\ Last(d.records).end = Last(records).end
      BY <1>9, <2>2, <3>2 DEF qs
    <3>4. Sound(C, now) BY <1>8 DEF Chain
    <3>5. EndsAfter(d.records, C) BY <1>15, <2>2, <3>3 DEF EndsAfter
    <3>6. Last(d.records).end.t <= Last(C).t BY <1>12, <1>14, <3>3
    <3>7. Written(d)'
      BY <1>2, <1>8, <1>12, <2>2, <3>1, <3>2, <3>4, <3>5, <3>6 DEF Written, qs
    <3> QED BY <3>7
  <2> QED BY <2>1, <2>2
<1> QED BY <1>17, <1>18, <1>19, <1>20, <1>21, <1>22 DEF ReadInv

(***************************************************************************)
(* A new command.                                                           *)
(***************************************************************************)
LEMMA AppendedAt ==
    ASSUME NEW T, NEW s \in Seq(T), NEW x \in T
    PROVE  \A n \in Nat : Len(s) = n =>
              /\ Append(s, x) \in Seq(T) /\ Len(Append(s, x)) = n + 1
              /\ \A i \in 1..n : Append(s, x)[i] = s[i]
              /\ Append(s, x)[n + 1] = x
<1>1. /\ Append(s, x) \in Seq(T) /\ Len(Append(s, x)) = Len(s) + 1
      /\ \A i \in 1..Len(s) : Append(s, x)[i] = s[i]
      /\ Append(s, x)[Len(s) + 1] = x
  BY AppendIsTyped
<1> DEFINE a == Append(s, x)
           k == Len(s)
<1> HIDE DEF a, k
<1>2. /\ a \in Seq(T) /\ Len(a) = k + 1
      /\ (\A i \in 1..k : a[i] = s[i]) /\ a[k + 1] = x
  BY <1>1 DEF a, k
<1>3. \A n \in Nat : k = n =>
         /\ a \in Seq(T) /\ Len(a) = n + 1
         /\ (\A i \in 1..n : a[i] = s[i]) /\ a[n + 1] = x
  BY <1>2
<1> QED BY <1>3 DEF a, k

LEMMA OpenedLine ==
    ASSUME NEW p \in Points, NEW m \in Messages, m.kind = "event-start"
    PROVE  LET q == Opened(p)
               a == Append(q, m)
           IN  /\ q \in Seq(Messages) /\ DOMAIN q = 1..3 /\ Len(q) = 3
               /\ q[1].kind = "started" /\ q[2].kind = "start" /\ q[3] = Msg("chunk", p)
               /\ q[3].kind = "chunk" /\ q[3].point = p
               /\ a \in Seq(Messages) /\ DOMAIN a = 1..4 /\ Len(a) = 4 /\ a[4] = m
               /\ a[1] = q[1] /\ a[2] = q[2] /\ a[3] = q[3]
<1> DEFINE k == Msg("chunk", p)
<1>1. k \in Messages /\ k.kind = "chunk" /\ k.point = p
  BY MessagesAreTyped DEF MsgKinds
<1>2. /\ Begun \in Seq(Messages) /\ Len(Begun) = 2
      /\ Begun[1].kind = "started" /\ Begun[2].kind = "start"
  BY BegunIsPlain
<1> HIDE DEF k
<1> DEFINE q == Append(Begun, k)
           a == Append(q, m)
<1>3. \A n \in Nat : Len(Begun) = n =>
         /\ q \in Seq(Messages) /\ Len(q) = n + 1
         /\ (\A i \in 1..n : q[i] = Begun[i]) /\ q[n + 1] = k
  <2>1. Begun \in Seq(Messages) /\ k \in Messages BY <1>1, <1>2
  <2> QED BY <2>1, AppendedAt
<1> HIDE DEF q
<1>4. /\ q \in Seq(Messages) /\ DOMAIN q = 1..3 /\ Len(q) = 3
      /\ q[1] = Begun[1] /\ q[2] = Begun[2] /\ q[3] = k
  <2>1. q \in Seq(Messages) /\ Len(q) = 2 + 1
    <3>1. Begun \in Seq(Messages) /\ k \in Messages BY <1>1, <1>2
    <3>2. q \in Seq(Messages) /\ Len(q) = Len(Begun) + 1
      BY <3>1, AppendIsTyped DEF q
    <3> QED BY <1>2, <3>2
  <2>2. \A i \in 1..2 : q[i] = Begun[i] BY <1>2, <1>3
  <2>3. q[2 + 1] = k BY <1>2, <1>3
  <2>4. Len(q) = 3 /\ DOMAIN q = 1..3 BY <2>1, LenProperties
  <2>5. q[3] = k BY <2>3
  <2>6. q[1] = Begun[1] /\ q[2] = Begun[2] BY <2>2
  <2> QED BY <2>1, <2>4, <2>5, <2>6
<1>5. \A n \in Nat : Len(q) = n =>
         /\ a \in Seq(Messages) /\ Len(a) = n + 1
         /\ (\A i \in 1..n : a[i] = q[i]) /\ a[n + 1] = m
  <2>1. q \in Seq(Messages) BY <1>4
  <2> QED BY <2>1, AppendedAt
<1> HIDE DEF a
<1>6. /\ a \in Seq(Messages) /\ DOMAIN a = 1..4 /\ Len(a) = 4
      /\ a[1] = q[1] /\ a[2] = q[2] /\ a[3] = q[3] /\ a[4] = m
  <2>1. a \in Seq(Messages) /\ Len(a) = 3 + 1
    <3>1. q \in Seq(Messages) BY <1>4
    <3>2. a \in Seq(Messages) /\ Len(a) = Len(q) + 1
      BY <3>1, AppendIsTyped DEF a
    <3> QED BY <1>4, <3>2
  <2>2. \A i \in 1..3 : a[i] = q[i] BY <1>4, <1>5
  <2>3. a[3 + 1] = m BY <1>4, <1>5
  <2>4. Len(a) = 4 /\ DOMAIN a = 1..4 BY <2>1, LenProperties
  <2>5. a[4] = m BY <2>3
  <2>6. a[1] = q[1] /\ a[2] = q[2] /\ a[3] = q[3] BY <2>2
  <2> QED BY <2>1, <2>4, <2>5, <2>6
<1> QED BY <1>1, <1>2, <1>4, <1>6 DEF Opened, k, q, a

LEMMA LaunchSends ==
    ASSUME TypeInv, Launch, pipe = <<>>
    PROVE  LET p == Point(now + 1, StartPos)
               m == Msg("event-start", p)
           IN  /\ p \in Points /\ p.t = now + 1 /\ p.pos = StartPos
               /\ m \in Messages /\ m.kind = "event-start" /\ m.point = p
               /\ session' /\ now' = now + 1 /\ UNCHANGED <<ts, gaps, points, records, data>>
               /\ cmd'.on /\ cmd'.pos = StartPos
               /\ \/ cmd'.event /\ pipe' = Append(Opened(p), m)
                  \/ gaps /\ ~cmd'.event /\ pipe' = Opened(p)
<1> DEFINE p == Point(now + 1, StartPos)
           a == Msg("started", NoPoint)
           b == Msg("start", NoPoint)
           c == Msg("chunk", p)
           m == Msg("event-start", p)
<1>1. now \in Nat /\ gaps \in BOOLEAN /\ StartPos \in 0..(FileSize - 1)
  BY StartIsTyped DEF TypeInv, CmdType
<1>2. p \in Points /\ p.t = now + 1 /\ p.pos = StartPos
  BY <1>1, PointsAreTyped
<1>3. m \in Messages /\ m.kind = "event-start" /\ m.point = p
  <2>1. "event-start" \in MsgKinds BY DEF MsgKinds
  <2> QED BY <1>2, <2>1, MessagesAreTyped
<1>4. c \in Messages /\ a \in Messages /\ b \in Messages
  <2>1. "chunk" \in MsgKinds /\ "started" \in MsgKinds /\ "start" \in MsgKinds
    BY DEF MsgKinds
  <2> QED BY <1>2, <2>1, PointsAreTyped, MessagesAreTyped
<1>5. /\ session' /\ now' = now + 1 /\ UNCHANGED <<ts, gaps, points, records, data>>
      /\ \E event \in {TRUE, ~gaps} :
            /\ cmd' = [on |-> TRUE, pos |-> StartPos, event |-> event, long |-> FALSE]
            /\ pipe' = pipe \o <<a, b, c>> \o IF event THEN <<m>> ELSE <<>>
  BY DEF Launch
<1> HIDE DEF a, b, c, m, p
<1> DEFINE q == <<a, b, c>>
<1>6. q = Append(Append(<<a>>, b), c)
  <2>1. <<a, b>> \in Seq(Messages) /\ Len(<<a, b>>) = 2 /\ q \in Seq(Messages) /\ Len(q) = 3
    BY <1>4
  <2>2. Append(<<a, b>>, c) \in Seq(Messages) /\ Len(Append(<<a, b>>, c)) = 3
    BY <1>4, <2>1, AppendProperties
  <2>3. \A i \in 1..3 : Append(<<a, b>>, c)[i] = q[i]
    BY <1>4, <2>1, AppendProperties
  <2>4. q = Append(<<a, b>>, c) BY <2>1, <2>2, <2>3, SeqEqual
  <2> QED BY <2>4, ShortOnes
<1>7. q \in Seq(Messages) BY <1>4
<1> HIDE DEF q
<1>8. <<>> \o q = q /\ q \o <<>> = q /\ q \o <<m>> = Append(q, m)
  BY <1>3, <1>7, ConcatEmptySeq, AppendIsConcat
<1>9. q = Opened(p) BY <1>6 DEF Opened, Begun, a, b, c
<1>10. \/ cmd'.event /\ cmd'.on /\ cmd'.pos = StartPos /\ pipe' = Append(q, m)
       \/ gaps /\ ~cmd'.event /\ cmd'.on /\ cmd'.pos = StartPos /\ pipe' = q
  <2>1. PICK event \in {TRUE, ~gaps} :
           /\ cmd' = [on |-> TRUE, pos |-> StartPos, event |-> event, long |-> FALSE]
           /\ pipe' = <<>> \o q \o IF event THEN <<m>> ELSE <<>>
    BY <1>5 DEF q
  <2>2. pipe' = IF event THEN Append(q, m) ELSE q BY <1>8, <2>1
  <2>3. event \/ (gaps /\ ~event) BY <1>1, <2>1
  <2>4. cmd'.on = TRUE /\ cmd'.pos = StartPos /\ cmd'.event = event BY <2>1
  <2> QED BY <2>2, <2>3, <2>4
<1> QED BY <1>2, <1>3, <1>5, <1>9, <1>10 DEF p, m

(* Nothing that ends by the last point is in its chunk.                     *)
LEMMA DropLast ==
    ASSUME NEW ps \in Seq(Points), ps # <<>>, NEW n \in Nat, Sound(ps, n), NEW f,
           NEW rs \in Seq(Records), rs # <<>>, Last(rs).end.t <= Last(ps).t,
           NEW pp, Recs(ps, rs, pp, n, f)
    PROVE  Recs(SubSeq(ps, 1, Len(ps) - 1), rs, pp, n, f)
<1> DEFINE B == SubSeq(ps, 1, Len(ps) - 1)
           z == Last(ps).t
<1>1. /\ Len(ps) \in Nat /\ Len(ps) >= 1 /\ DOMAIN ps = 1..Len(ps) /\ Last(ps) = ps[Len(ps)]
      /\ Last(ps) \in Points /\ z \in Nat
  BY LastIsTyped, PointsAreTyped
<1>2. B \in Seq(Points) /\ Len(B) = Len(ps) - 1 /\ \A i \in 1..Len(ps) - 1 : B[i] = ps[i]
  <2>1. Len(ps) - 1 \in 0..Len(ps) BY <1>1
  <2> QED BY <2>1, PrefixIsTyped
<1>3. DOMAIN B = 1..Len(ps) - 1 BY <1>2, LenProperties
<1>4. \A i \in DOMAIN ps : i = Len(ps) \/ (i \in DOMAIN B /\ B[i] = ps[i])
  BY <1>1, <1>2, <1>3
<1> HIDE DEF B
<1>5. \A q \in Chunks(ps, <<>>) : q \in Chunks(B, <<>>) \/ q = Last(ps)
  BY <1>1, <1>4 DEF Chunks
<1>6. \A i \in DOMAIN rs : rs[i].end.t <= z
  <2> SUFFICES ASSUME NEW i \in DOMAIN rs PROVE rs[i].end.t <= z OBVIOUS
  <2> DEFINE k == Len(rs)
             x == rs[i].end.t
             y == rs[k].end.t
             s == rs[k].start.t
  <2>1. /\ k \in DOMAIN rs /\ k \in Nat /\ DOMAIN rs = 1..k /\ Last(rs) = rs[k]
        /\ x \in Nat /\ y \in Nat /\ s \in Nat
    BY RecordPoints
  <2>2. y <= z BY <2>1
  <2>3. s <= y BY <2>1 DEF Recs, Spans
  <2>4. i = k \/ i < k BY <2>1
  <2>5. i < k => x <= s BY <2>1 DEF Recs
  <2> HIDE DEF k, x, y, s
  <2>6. i = k => x = y BY DEF k, x, y
  <2>7. x <= z BY <1>1, <2>1, <2>2, <2>3, <2>4, <2>5, <2>6
  <2> QED BY <2>7 DEF x
<1>7. ASSUME NEW i \in DOMAIN rs PROVE Spans(B, rs[i], n, f)
  <2> DEFINE r == rs[i]
             b == r.end.t
  <2>1. Spans(ps, r, n, f) /\ b <= z /\ b \in Nat
    BY <1>6, RecordPoints DEF Recs
  <2> HIDE DEF b, r, z
  <2>2. ASSUME NEW t \in Nat, r.start.t <= t, t < b PROVE \E q \in Chunks(B, <<>>) : Stored(f, q, r.start, t)
    <3>1. PICK q \in Chunks(ps, <<>>) : Stored(f, q, r.start, t)
      BY <2>1, <2>2 DEF Spans, Held, b
    <3>2. q.t <= t BY <3>1 DEF Stored
    <3>3. q # Last(ps)
      <4>1. q = Last(ps) => q.t = z BY DEF z
      <4> QED BY <1>1, <2>1, <2>2, <3>2, <4>1
    <3> QED BY <1>5, <3>1, <3>3
  <2>3. Held(f, Chunks(B, <<>>), r.start, b) BY <2>2 DEF Held
  <2> QED BY <2>1, <2>3 DEF Spans, b, r
<1> QED BY <1>7 DEF Recs, B

(* What the check leaves of points that have the last chunk again.          *)
LEMMA LastIsGarbage ==
    ASSUME NEW ps \in Seq(Points), ps # <<>>, NEW rs \in Seq(Records), rs # <<>>,
           Last(rs).end.t <= Last(ps).t, EndsAfter(rs, ps)
    PROVE  RemoveGarbagePoints(rs, ps) = SubSeq(ps, 1, Len(ps) - 1)
<1>1. PICK n \in 0..Len(ps) :
         /\ RemoveGarbagePoints(rs, ps) = SubSeq(ps, 1, n)
         /\ n > 0 => Last(rs).end.t > ps[n].t
         /\ \A i \in DOMAIN ps : Last(rs).end.t > ps[i].t => i <= n
  BY GarbageIsRemoved
<1> DEFINE k == Len(ps)
           v == Last(rs).end.t
<1>2. /\ k \in Nat /\ k >= 1 /\ DOMAIN ps = 1..k /\ Last(ps) = ps[k] /\ ps[k] \in Points
      /\ v \in Nat
  BY LastIsTyped, RecordPoints
<1>3. ps[k].t \in Nat BY <1>2, PointsAreTyped
<1>4. n # k
  <2>0. n > 0 => v > ps[n].t BY <1>1
  <2>2. v <= ps[k].t BY <1>2
  <2> HIDE DEF k, v
  <2>1. k > 0 /\ (n = k => v > ps[k].t) BY <1>2, <2>0
  <2> QED BY <1>2, <1>3, <2>1, <2>2
<1>5. k >= 2 => k - 1 <= n
  <2> SUFFICES ASSUME k >= 2 PROVE k - 1 <= n OBVIOUS
  <2>1. k - 1 \in DOMAIN ps BY <1>2
  <2>2. ps[k - 1].t < v BY DEF EndsAfter
  <2>3. ps[k - 1].t \in Nat BY <2>1, ElementOfSeq, PointsAreTyped
  <2>4. v > ps[k - 1].t BY <1>2, <2>2, <2>3
  <2> QED BY <1>1, <2>1, <2>4
<1> HIDE DEF k
<1>6. n = k - 1 BY <1>1, <1>2, <1>4, <1>5
<1> QED BY <1>1, <1>6 DEF k

(* A last point in whose chunk the last record ends is not consistent.      *)
LEMMA EndsInChunk ==
    ASSUME NEW ps \in Seq(Points), ps # <<>>, Aligned(Last(ps).pos),
           NEW rs \in Seq(Records), rs # <<>>,
           Last(ps).t < Last(rs).end.t, InChunk(Last(ps), Last(rs).end)
    PROVE  ~Consistent(rs, RemoveGarbagePoints(rs, ps))
<1> SUFFICES ASSUME Consistent(rs, RemoveGarbagePoints(rs, ps)) PROVE FALSE
  OBVIOUS
<1> DEFINE q == Last(ps)
           e == Last(rs).end
<1>1. PICK n \in 0..Len(ps) :
         /\ RemoveGarbagePoints(rs, ps) = SubSeq(ps, 1, n)
         /\ \A i \in DOMAIN ps : Last(rs).end.t > ps[i].t => i <= n
  BY GarbageIsRemoved
<1>2. /\ Len(ps) \in Nat /\ Len(ps) >= 1 /\ Len(ps) \in DOMAIN ps /\ q = ps[Len(ps)] /\ q \in Points
      /\ e \in Points
  BY LastIsTyped, RecordPoints
<1>3. q.t \in Nat /\ e.t \in Nat BY <1>2, PointsAreTyped
<1>4. n = Len(ps)
  <2>1. e.t > ps[Len(ps)].t BY <1>2, <1>3
  <2>2. Len(ps) <= n BY <1>1, <1>2, <2>1
  <2> QED BY <1>2, <2>2
<1>5. RemoveGarbagePoints(rs, ps) = ps BY <1>1, <1>4, SubSeqFull
<1>6. e.pos = NextChunk(q.pos) BY <1>5 DEF Consistent, NextChunk
<1>7. Aligned(NextChunk(q.pos)) BY NumberOfNext
<1>8. q.t < e.t /\ e.t < q.t + ChunkSize /\ e.pos = q.pos + (e.t - q.t)
  BY DEF InChunk
<1> HIDE DEF q, e
<1> DEFINE b == e.t - q.t
<1>9. 0 \in 0..(ChunkSize - 1) /\ b \in 0..(ChunkSize - 1) /\ b # 0
  BY <1>3, <1>8, Sizes
<1> DEFINE x == NextChunk(q.pos)
           y == q.pos
<1>10. x + 0 = y + b
  <2>1. x \in 0..(FileSize - 1) BY <1>7, NumberOfNext
  <2>2. x \in Int BY <2>1
  <2>3. x = y + b BY <1>6, <1>8
  <2> HIDE DEF x, y, b
  <2> QED BY <2>2, <2>3
<1>11. Aligned(x) /\ Aligned(y) BY <1>7 DEF q
<1> HIDE DEF x, y, b
<1>12. 0 = b BY <1>9, <1>10, <1>11, SamePlace
<1> QED BY <1>9, <1>12

LEMMA LaunchedPoints ==
    ASSUME TypeInv, ReadInv, up, ~session
    PROVE  LET K == RemoveGarbagePoints(records, points) IN
           /\ pipe = <<>> /\ ~cmd.on /\ Sound(points, now) /\ Geometry(points) /\ K \in Seq(Points)
           /\ Consistent(records, K) =>
                /\ \/ points = <<>> /\ K = <<>>
                   \/ points # <<>> /\ K = SubSeq(points, 1, Len(points) - 1)
                /\ Recs(K, records, <<>>, now, ts)
<1> DEFINE K == RemoveGarbagePoints(records, points)
<1>1. LineInv /\ GapInv /\ MemInv /\ RestInv /\ EmptyInv BY DEF ReadInv
<1>2. pipe = <<>> /\ ~cmd.on BY <1>1 DEF LineInv
<1>3. points \in Seq(Points) /\ records \in Seq(Records) /\ now \in Nat /\ K \in Seq(Points)
  BY MemIsTyped, KeptIsTyped
<1>4. Kept = points /\ Checks BY <1>2, EmptyLine DEF Kept, Checks
<1>5. Chain(points, <<>>, cmd, now, ts) /\ Recs(points, records, <<>>, now, ts)
  BY <1>1, <1>2, <1>4 DEF MemInv
<1>6. Sound(points, now) /\ Geometry(points)
  <2>1. <<>> \in Seq(Messages) OBVIOUS
  <2> QED BY <1>3, <1>5, <2>1, ChainIsSound
<1>7. ASSUME Consistent(records, K)
      PROVE  /\ \/ points = <<>> /\ K = <<>>
                \/ points # <<>> /\ K = SubSeq(points, 1, Len(points) - 1)
             /\ Recs(K, records, <<>>, now, ts)
  <2>1. CASE records = <<>>
    <3>1. points = <<>>
      <4>1. ~StartsRecord(pipe) BY <1>2 DEF StartsRecord
      <4> QED BY <1>1, <2>1, <4>1 DEF GapInv, EmptyInv
    <3>2. K = points BY <1>3, <2>1, KeptIsTyped
    <3> QED BY <1>5, <3>1, <3>2
  <2>2. CASE records # <<>>
    <3>1. points # <<>> BY <1>1, <1>2, <2>2, EmptyLine DEF RestInv
    <3>2. ~(Last(points).t < Last(records).end.t)
      <4> SUFFICES ASSUME Last(points).t < Last(records).end.t PROVE FALSE
        OBVIOUS
      <4>1. InChunk(Last(points), Last(records).end)
        BY <1>1, <1>2, <2>2, EmptyLine DEF RestInv
      <4>2. Aligned(Last(points).pos)
        <5>1. Last(points) = points[Len(points)] /\ Len(points) \in DOMAIN points
          BY <1>3, <3>1, LastIsTyped
        <5> QED BY <1>6, <5>1 DEF Sound
      <4> QED BY <1>3, <1>7, <2>2, <3>1, <4>1, <4>2, EndsInChunk
    <3>3. EndsAfter(records, points)
      BY <1>1, <1>2, <2>2, EmptyLine DEF RestInv, GapInv
    <3>4. Last(records).end.t <= Last(points).t
      <4>1. Last(points) \in Points /\ Last(records).end.t \in Nat
        BY <1>3, <2>2, <3>1, LastIsTyped, RecordPoints
      <4>2. Last(points).t \in Nat BY <4>1, PointsAreTyped
      <4> QED BY <3>2, <4>1, <4>2
    <3>5. K = SubSeq(points, 1, Len(points) - 1)
      BY <1>3, <2>2, <3>1, <3>3, <3>4, LastIsGarbage
    <3>6. Recs(K, records, <<>>, now, ts)
      BY <1>3, <1>5, <1>6, <2>2, <3>1, <3>4, <3>5, DropLast
    <3> QED BY <3>1, <3>5, <3>6
  <2> QED BY <2>1, <2>2
<1> QED BY <1>2, <1>3, <1>6, <1>7

LEMMA OpenedQueue ==
    ASSUME NEW p \in Points, NEW m \in Messages, m.kind = "event-start", m.point = p,
           NEW q \in {Opened(p), Append(Opened(p), m)}
    PROVE  /\ q \in Seq(Messages) /\ StartsFirst(q) /\ StopsLast(q) /\ NotStopped(q) /\ Starting(q)
           /\ \A i \in DOMAIN q : ~Ends(q[i]) /\ (Pointed(q[i]) => q[i].point = p)
           /\ q = Append(Opened(p), m) => FirstFollowed(q) /\ ~NoStart(q, Len(q) + 1)
<1> DEFINE a == Opened(p)
           b == Append(a, m)
<1>1. /\ a \in Seq(Messages) /\ DOMAIN a = 1..3 /\ Len(a) = 3
      /\ a[1].kind = "started" /\ a[2].kind = "start"
      /\ a[3].kind = "chunk" /\ a[3].point = p
      /\ b \in Seq(Messages) /\ DOMAIN b = 1..4 /\ Len(b) = 4 /\ b[4] = m
      /\ b[1] = a[1] /\ b[2] = a[2] /\ b[3] = a[3]
  BY OpenedLine
<1> HIDE DEF a, b
<1>2. CASE q = a
  <2>1. DOMAIN q = {1, 2, 3} BY <1>1, <1>2
  <2>2. StartsFirst(q) /\ StopsLast(q) /\ NotStopped(q) /\ Starting(q)
    BY <1>1, <1>2, <2>1 DEF StartsFirst, StopsLast, NotStopped, Starting, IsChunk
  <2>3. \A i \in DOMAIN q : ~Ends(q[i]) /\ (Pointed(q[i]) => q[i].point = p)
    BY <1>1, <1>2, <2>1 DEF Ends, Pointed
  <2>4. q # b BY <1>1, <1>2
  <2> QED BY <1>1, <1>2, <2>2, <2>3, <2>4 DEF a, b
<1>3. CASE q = b
  <2>1. DOMAIN q = {1, 2, 3, 4} BY <1>1, <1>3
  <2>2. StartsFirst(q) /\ StopsLast(q) /\ NotStopped(q) /\ Starting(q)
    BY <1>1, <1>3, <2>1 DEF StartsFirst, StopsLast, NotStopped, Starting, IsChunk
  <2>3. \A i \in DOMAIN q : ~Ends(q[i]) /\ (Pointed(q[i]) => q[i].point = p)
    BY <1>1, <1>3, <2>1 DEF Ends, Pointed
  <2>4. FirstFollowed(q) BY <1>1, <1>3, <2>1 DEF FirstFollowed, IsChunk
  <2>5. ~NoStart(q, Len(q) + 1)
    <3>1. Len(q) = 4 /\ q[4] = m BY <1>1, <1>3
    <3>2. 4 < Len(q) + 1 BY <3>1
    <3>3. 4 \in DOMAIN q BY <2>1
    <3> QED BY <3>1, <3>2, <3>3 DEF NoStart
  <2> QED BY <1>1, <1>3, <2>2, <2>3, <2>4, <2>5
<1> QED BY <1>2, <1>3 DEF a, b

LEMMA LaunchReads ==
    ASSUME TypeInv, ReadInv, up, ~session, Launch, UNCHANGED <<up, faults>>
    PROVE  ReadInv'
<1> DEFINE p == Point(now + 1, StartPos)
           m == Msg("event-start", p)
           K == RemoveGarbagePoints(records, points)
           n == now + 1
           c == cmd'
<1>1. LineInv /\ GapInv /\ EmptyInv /\ DataInv BY DEF ReadInv
<1>2. /\ pipe = <<>> /\ ~cmd.on /\ Sound(points, now) /\ Geometry(points) /\ K \in Seq(Points)
      /\ Consistent(records, K) =>
           /\ \/ points = <<>> /\ K = <<>>
              \/ points # <<>> /\ K = SubSeq(points, 1, Len(points) - 1)
           /\ Recs(K, records, <<>>, now, ts)
  BY LaunchedPoints
<1>3. /\ p \in Points /\ p.t = n /\ p.pos = StartPos
      /\ m \in Messages /\ m.kind = "event-start" /\ m.point = p
      /\ session' /\ now' = n /\ UNCHANGED <<ts, gaps, points, records, data>>
      /\ c.on /\ c.pos = StartPos
      /\ \/ c.event /\ pipe' = Append(Opened(p), m)
         \/ gaps /\ ~c.event /\ pipe' = Opened(p)
  BY <1>2, LaunchSends
<1>4. points \in Seq(Points) /\ records \in Seq(Records) /\ now \in Nat
  BY MemIsTyped
<1> HIDE DEF p, m, K, c
<1>5. n \in Nat /\ now <= n BY <1>4
<1>6. /\ StartsFirst(pipe') /\ StopsLast(pipe') /\ NotStopped(pipe') /\ Starting(pipe')
      /\ \A i \in DOMAIN pipe' : ~Ends(pipe'[i]) /\ (Pointed(pipe'[i]) => pipe'[i].point = p)
      /\ c.event => FirstFollowed(pipe') /\ ~NoStart(pipe', Len(pipe') + 1)
  <2> DEFINE q == pipe'
  <2>1. q \in {Opened(p), Append(Opened(p), m)} /\ (c.event => q = Append(Opened(p), m))
    BY <1>3
  <2> HIDE DEF q
  <2>2. /\ StartsFirst(q) /\ StopsLast(q) /\ NotStopped(q) /\ Starting(q)
        /\ \A i \in DOMAIN q : ~Ends(q[i]) /\ (Pointed(q[i]) => q[i].point = p)
        /\ q = Append(Opened(p), m) => FirstFollowed(q) /\ ~NoStart(q, Len(q) + 1)
    BY <1>3, <2>1, OpenedQueue
  <2> QED BY <2>1, <2>2 DEF q
<1>7. p.pos = IF points = <<>> THEN 0 ELSE Last(points).pos
  BY <1>3 DEF StartPos
<1>8. ASSUME NEW B \in Seq(Points),
             \/ points = <<>> /\ B = <<>>
             \/ points # <<>> /\ B = SubSeq(points, 1, Len(points) - 1)
      PROVE  Chain(B, pipe', c, n, ts)
  <2>1. c.pos = p.pos /\ p.t = now + 1 BY <1>3
  <2>2. Chain(B, Opened(p), c, now + 1, ts) /\ Chain(B, Append(Opened(p), m), c, now + 1, ts)
    BY <1>2, <1>3, <1>4, <1>7, <1>8, <2>1, ChainOpened
  <2> QED BY <1>3, <2>2
<1>9. ASSUME NEW B, NEW rs \in Seq(Records), Recs(B, rs, <<>>, now, ts)
      PROVE  Recs(B, rs, pipe', n, ts)
  <2>1. \A j \in DOMAIN pipe' : Pointed(pipe'[j]) => pipe'[j].point.t \in Nat /\ now <= pipe'[j].point.t
    BY <1>3, <1>5, <1>6
  <2> QED BY <1>4, <1>5, <1>9, <2>1, RecsLater
<1>10. \A B, rs : Runs(B, rs, pipe', c, n, ts) BY <1>3, <1>6 DEF Runs
<1> HIDE DEF n
<1>11. LineInv' BY <1>1, <1>3, <1>6 DEF LineInv
<1>12. GapInv' BY <1>1, <1>3, <1>6 DEF GapInv
<1>13. MemInv'
  <2> SUFFICES ASSUME Consistent(records, K)
               PROVE  /\ Chain(K, pipe', c, n, ts) /\ Recs(K, records, pipe', n, ts)
                      /\ Runs(K, records, pipe', c, n, ts)
    BY <1>3, <1>6 DEF MemInv, Checks, Kept, K, c
  <2>1. Chain(K, pipe', c, n, ts) BY <1>2, <1>8 DEF K
  <2>2. Recs(K, records, pipe', n, ts) BY <1>2, <1>4, <1>9 DEF K
  <2> QED BY <1>10, <2>1, <2>2
<1>14. RestInv' BY <1>6 DEF RestInv
<1>15. EmptyInv'
  <2> SUFFICES ASSUME ~gaps, records = <<>> PROVE points = <<>> /\ FirstFollowed(pipe')
    BY <1>3 DEF EmptyInv
  <2>1. ~StartsRecord(pipe) BY <1>2 DEF StartsRecord
  <2>2. points = <<>> BY <1>1, <2>1 DEF EmptyInv
  <2> QED BY <1>3, <1>6, <2>2
<1>16. DataInv'
  <2> SUFFICES ASSUME ~gaps, NEW d \in data PROVE Written(d)'
    BY <1>3 DEF DataInv
  <2>1. Written(d) BY <1>1 DEF DataInv
  <2>2. /\ d.points \in Seq(Points) /\ d.records \in Seq(Records)
        /\ RemoveGarbagePoints(d.records, d.points) \in Seq(Points)
    BY MemIsTyped
  <2> DEFINE B == RemoveGarbagePoints(d.records, d.points)
  <2>3. points = d.points /\ records # <<>>
    BY <1>2, <2>1, EmptyLine DEF Written
  <2>4. /\ d.records # <<>> /\ d.points # <<>> /\ Last(d.records).end.t <= Last(d.points).t
        /\ EndsAfter(d.records, d.points)
    BY <2>1 DEF Written
  <2>5. B = SubSeq(d.points, 1, Len(d.points) - 1)
    BY <2>2, <2>4, LastIsGarbage
  <2>6. PICK A \in {d.points, B} : Recs(A, d.records, <<>>, now, ts)
    BY <1>2, <2>1 DEF Written
  <2>7. Chunks(A, <<>>) \subseteq Chunks(d.points, <<>>)
    BY <2>2, <2>6, GarbageChunks
  <2>8. Recs(d.points, d.records, <<>>, now, ts)
    BY <1>4, <2>2, <2>6, <2>7, RecsMore
  <2>9. Recs(B, d.records, <<>>, now, ts)
    BY <1>2, <1>4, <2>2, <2>3, <2>4, <2>5, <2>8, DropLast
  <2>10. Recs(B, d.records, pipe', n, ts) BY <1>9, <2>2, <2>9
  <2>11. Chain(B, pipe', c, n, ts) BY <1>8, <2>2, <2>3, <2>4, <2>5
  <2>12. Sound(d.points, n) BY <1>2, <1>4, <1>5, <2>3, SoundLater
  <2> HIDE DEF B
  <2>13. B \in {d.points, RemoveGarbagePoints(d.records, d.points)} BY DEF B
  <2> QED BY <1>3, <2>1, <2>3, <2>10, <2>11, <2>12, <2>13 DEF Written, EndsAfter, c
<1> QED BY <1>11, <1>12, <1>13, <1>14, <1>15, <1>16 DEF ReadInv

(***************************************************************************)
(* Every record can be read.                                                *)
(***************************************************************************)
LEMMA InitReads ==
    ASSUME TsInit
    PROVE  ReadInv
<1>1. /\ pipe = <<>> /\ points = <<>> /\ records = <<>> /\ data = {} /\ ~cmd.on /\ up /\ ~session
      /\ now \in Nat /\ faults \in Nat
  BY DEF TsInit, Off
<1>2. Kept = <<>> BY <1>1, EmptyLine DEF Kept
<1>3. Chain(<<>>, <<>>, cmd, now, ts) /\ Recs(<<>>, <<>>, <<>>, now, ts)
  BY <1>1, EmptyChain
<1>4. Runs(<<>>, <<>>, <<>>, cmd, now, ts) BY DEF Runs
<1>5. LineInv /\ GapInv /\ RestInv /\ EmptyInv /\ DataInv
  BY <1>1, EmptyLine DEF LineInv, GapInv, RestInv, EmptyInv, DataInv
<1>6. MemInv BY <1>1, <1>2, <1>3, <1>4 DEF MemInv
<1> QED BY <1>5, <1>6 DEF ReadInv

LEMMA NextReads ==
    ASSUME TypeInv, ~gaps => RecoveryInv, ReadInv, [TsNext]_tsVars
    PROVE  ReadInv'
<1>1. CASE Write \/ EventBoundary \/ PipelineBreaks
  BY <1>1, CommandReads DEF Commanded
<1>2. CASE Started BY <1>2, StartedReads
<1>3. CASE Crash
  <2>1. faults \in Nat BY DEF ReadInv, LineInv
  <2>2. ~gaps /\ faults' \in Nat /\ Gone BY <1>3, <2>1 DEF Crash, FaultBudget
  <2> QED BY <2>2, GoneReads
<1>4. CASE ServiceUpdated \/ HealthCheck
  <2>1. \/ up /\ ~session /\ Launch /\ UNCHANGED <<up, faults>>
        \/ UNCHANGED <<now, ts, cmd, gaps, pipe, up, points, records, session, data, faults>>
    BY <1>4 DEF ServiceUpdated, HealthCheck, StartRecording, cmdVars
  <2> QED BY <2>1, LaunchReads, QuietReads
<1>5. CASE Handle
  <2>1. CASE PipelineStarted \/ PipelineStopped \/ HandleStopRecording
    BY <2>1, SilentReads
  <2>2. CASE HandleStartRecording BY <2>2, StartRecordingReads
  <2>3. CASE HandleChunk BY <2>3, ChunkReads
  <2>4. CASE HandleEventStart BY <2>4, EventStartReads
  <2>5. CASE HandleEventUpdate \/ HandleEventEnd BY <2>5, EventUpdatedReads
  <2> QED BY <1>5, <2>1, <2>2, <2>3, <2>4, <2>5 DEF Handle
<1>6. CASE HandleTimeshiftEvent \/ UNCHANGED tsVars
  <2>1. UNCHANGED <<now, ts, cmd, gaps, pipe, up, points, records, session, data, faults>>
    BY <1>6 DEF HandleTimeshiftEvent, tsVars, cmdVars, memVars
  <2> QED BY <2>1, QuietReads
<1> QED BY <1>1, <1>2, <1>3, <1>4, <1>5, <1>6 DEF TsNext

(* The invariant behind it: in memory, once the check is done, and in the   *)
(* data file, the records are held by the chunks of a chain.                *)
THEOREM RecordsAreHeld == TsSpec => []ReadInv
<1>1. TsInit => ReadInv BY InitReads
<1>2. TypeInv /\ (~gaps => RecoveryInv) /\ ReadInv /\ [TsNext]_tsVars => ReadInv'
  BY NextReads
<1> QED BY <1>1, <1>2, TypeCorrect, RecoveryIsKept, PTL DEF TsSpec

(* Every record that TimeshiftRecorder offers, after check_consistency(),   *)
(* and every record that a restart or the file system reads from the data   *)
(* file has all of its packets in the ring, at the positions that its       *)
(* readers visit, for rings, reserves and chunks of every size, whatever    *)
(* pipelines break and servers crash in between.                            *)
THEOREM RecordsCanBeRead == TsSpec => []RecordsAreReadable
<1>1. TypeInv /\ ReadInv => RecordsAreReadable
  <2> SUFFICES ASSUME TypeInv, ReadInv PROVE RecordsAreReadable OBVIOUS
  <2>1. MemInv /\ DataInv BY DEF ReadInv
  <2>2. ASSUME up, \A i \in DOMAIN pipe : pipe[i].kind # "start", NEW i \in DOMAIN records
        PROVE  Readable(records[i])
    <3>1. ~Starting(pipe) BY <2>2 DEF Starting
    <3>2. Kept = points /\ Checks BY <2>2, <3>1 DEF Kept, Checks
    <3>3. Chain(points, pipe, cmd, now, ts) /\ Recs(points, records, pipe, now, ts)
      BY <2>1, <3>2 DEF MemInv
    <3>4. points \in Seq(Points) /\ records \in Seq(Records) /\ pipe \in Seq(Messages)
      BY MemIsTyped
    <3>5. Sound(points, now) /\ Geometry(points) BY <3>3, <3>4, ChainIsSound
    <3>6. records[i] \in Records /\ Spans(points, records[i], now, ts)
      BY <2>2, <3>3, <3>4, RecordPoints DEF Recs
    <3> QED BY <3>4, <3>5, <3>6, SpansAreReadable
  <2>3. ASSUME ~gaps, NEW d \in data, NEW i \in DOMAIN d.records
        PROVE  Readable(d.records[i])
    <3>1. Written(d) BY <2>1, <2>3 DEF DataInv
    <3>2. /\ d.points \in Seq(Points) /\ d.records \in Seq(Records) /\ pipe \in Seq(Messages)
          /\ RemoveGarbagePoints(d.records, d.points) \in Seq(Points)
      BY MemIsTyped
    <3>3. PICK B \in {d.points, RemoveGarbagePoints(d.records, d.points)} :
             Chain(B, pipe, cmd, now, ts) /\ Recs(B, d.records, pipe, now, ts)
      BY <3>1 DEF Written
    <3>4. B \in Seq(Points) BY <3>2, <3>3
    <3>5. Sound(B, now) /\ Geometry(B) BY <3>2, <3>3, <3>4, ChainIsSound
    <3>6. d.records[i] \in Records /\ Spans(B, d.records[i], now, ts)
      BY <2>3, <3>2, <3>3, RecordPoints DEF Recs
    <3> QED BY <3>4, <3>5, <3>6, SpansAreReadable
  <2> QED BY <2>2, <2>3 DEF RecordsAreReadable
<1> QED BY <1>1, TypeCorrect, RecordsAreHeld, PTL

(***************************************************************************)
(* The file system beside a recorder: what a read returns.                  *)
(***************************************************************************)
LEMMA FlattenOne ==
    ASSUME NEW s, s = [i \in 1..1 |-> s[i]], NEW T, s[1] \in Seq(T)
    PROVE  FlattenSeq(s) = s[1]
<1> DEFINE E(f) == [i \in 1..1 |-> IF i = 1 THEN s[i] ELSE f[i - 1] \o s[i]]
           g == [i \in 1..1 |-> s[1]]
           h == CHOOSE f : f = E(f)
<1>1. g = E(g) OBVIOUS
<1>2. h = E(h) BY <1>1
<1>3. h[1] = s[1]
  <2> HIDE DEF h
  <2> QED BY <1>2
<1>4. Len(s) = 1 OBVIOUS
<1> QED BY <1>3, <1>4 DEF FlattenSeq

LEMMA FlattenTwo ==
    ASSUME NEW s, s = [i \in 1..2 |-> s[i]], NEW T, s[1] \in Seq(T), s[2] \in Seq(T)
    PROVE  FlattenSeq(s) = s[1] \o s[2]
<1> DEFINE E(f) == [i \in 1..2 |-> IF i = 1 THEN s[i] ELSE f[i - 1] \o s[i]]
           g == [i \in 1..2 |-> IF i = 1 THEN s[1] ELSE s[1] \o s[2]]
           h == CHOOSE f : f = E(f)
<1>1. g = E(g)
  <2>1. \A i \in 1..2 : i = 1 \/ (i = 2 /\ i - 1 \in 1..2 /\ i - 1 = 1)
    OBVIOUS
  <2> QED BY <2>1
<1>2. h = E(h) BY <1>1
<1>3. h[2] = s[1] \o s[2]
  <2> HIDE DEF h
  <2>1. h[1] = s[1] /\ h[2] = h[1] \o s[2] BY <1>2
  <2> QED BY <2>1
<1>4. Len(s) = 2 OBVIOUS
<1>5. FlattenSeq(s) = h[2] BY <1>4 DEF FlattenSeq
<1> QED BY <1>3, <1>5

(* RecordBuffer::fill() with one range, and with two.                       *)
LEMMA FillOne ==
    ASSUME NEW T, NEW a \in Nat, NEW b \in Nat, a < b, b <= FileSize,
           ts \in [0..(FileSize - 1) -> T]
    PROVE  Fill(<<<<a, b>>>>) = [k \in 1..(b - a) |-> ts[a + k - 1]]
<1> DEFINE s == [i \in DOMAIN <<<<a, b>>>> |->
                   [k \in 1..(<<<<a, b>>>>[i][2] - <<<<a, b>>>>[i][1]) |-> ts[<<<<a, b>>>>[i][1] + k - 1]]]
           u == [k \in 1..(b - a) |-> ts[a + k - 1]]
<1>1. DOMAIN <<<<a, b>>>> = 1..1 /\ <<<<a, b>>>>[1][1] = a /\ <<<<a, b>>>>[1][2] = b
  OBVIOUS
<1>2. s = [i \in 1..1 |-> s[i]] /\ s[1] = u BY <1>1
<1>3. u \in Seq(T)
  <2>1. \A k \in 1..(b - a) : a + k - 1 \in 0..(FileSize - 1) BY Sizes
  <2>2. \A k \in 1..(b - a) : ts[a + k - 1] \in T BY <2>1
  <2>3. b - a \in Nat OBVIOUS
  <2> QED BY <2>2, <2>3, IsASeq
<1> HIDE DEF s, u
<1>4. FlattenSeq(s) = s[1] BY <1>2, <1>3, FlattenOne
<1> QED BY <1>2, <1>4 DEF Fill, s, u

LEMMA FillLength ==
    ASSUME NEW T, NEW a \in Nat, NEW n \in Nat, n > 0, a + n <= FileSize,
           ts \in [0..(FileSize - 1) -> T]
    PROVE  Fill(<<<<a, a + n>>>>) = [k \in 1..n |-> ts[a + k - 1]]
<1> DEFINE b == a + n
<1>1. b \in Nat /\ a < b /\ b <= FileSize /\ b - a = n OBVIOUS
<1> HIDE DEF b
<1>2. Fill(<<<<a, b>>>>) = [k \in 1..(b - a) |-> ts[a + k - 1]]
  BY <1>1, FillOne
<1> QED BY <1>1, <1>2 DEF b

LEMMA FillTwo ==
    ASSUME NEW T, NEW a \in Nat, NEW b \in Nat, a < FileSize, b <= a,
           ts \in [0..(FileSize - 1) -> T]
    PROVE  Fill(<<<<a, FileSize>>, <<0, b>>>>) =
              [k \in 1..(FileSize - a) |-> ts[a + k - 1]] \o [k \in 1..b |-> ts[k - 1]]
<1> DEFINE r == <<<<a, FileSize>>, <<0, b>>>>
           s == [i \in DOMAIN r |-> [k \in 1..(r[i][2] - r[i][1]) |-> ts[r[i][1] + k - 1]]]
           u == [k \in 1..(FileSize - a) |-> ts[a + k - 1]]
           v == [k \in 1..b |-> ts[k - 1]]
<1>1. DOMAIN r = 1..2 /\ r[1][1] = a /\ r[1][2] = FileSize /\ r[2][1] = 0 /\ r[2][2] = b
  OBVIOUS
<1> HIDE DEF r
<1>2. s = [i \in 1..2 |-> s[i]] /\ s[1] = u BY <1>1
<1>3. s[2] = v
  <2>1. 2 \in 1..2 /\ b - 0 = b /\ \A k \in 1..b : 0 + k - 1 = k - 1 OBVIOUS
  <2>2. s[2] = [k \in 1..(r[2][2] - r[2][1]) |-> ts[r[2][1] + k - 1]]
    BY <1>1, <2>1
  <2> QED BY <1>1, <2>1, <2>2
<1>4. u \in Seq(T)
  <2>1. \A k \in 1..(FileSize - a) : a + k - 1 \in 0..(FileSize - 1) BY Sizes
  <2>2. FileSize - a \in Nat /\ \A k \in 1..(FileSize - a) : ts[a + k - 1] \in T
    BY <2>1, Sizes
  <2> QED BY <2>2, IsASeq
<1>5. v \in Seq(T)
  <2>1. \A k \in 1..b : k - 1 \in 0..(FileSize - 1) BY Sizes
  <2>2. \A k \in 1..b : ts[k - 1] \in T BY <2>1
  <2> QED BY <2>2, IsASeq
<1> HIDE DEF s, u, v
<1>6. FlattenSeq(s) = s[1] \o s[2] BY <1>2, <1>3, <1>4, <1>5, FlattenTwo
<1> QED BY <1>2, <1>3, <1>6 DEF Fill, s, u, v, r

(* calc_read_ranges(): the ranges have the length of the read and follow    *)
(* each other around the end of the file.                                   *)
LEMMA Rounds ==
    ASSUME NEW n \in Nat, n > 0, NEW a \in 0..(n - 1), NEW k \in Nat, k <= n
    PROVE  (a + k) % n = IF a + k < n THEN a + k ELSE a + k - n
<1>1. CASE a + k < n
  <2>1. a + k \in 0..(n - 1) /\ 0 * n + (a + k) = a + k BY <1>1
  <2>2. (0 * n + (a + k)) % n = a + k BY <2>1, Remainder
  <2> QED BY <1>1, <2>1, <2>2
<1>2. CASE a + k >= n
  <2>1. a + k - n \in 0..(n - 1) /\ 1 * n + (a + k - n) = a + k BY <1>2
  <2>2. (1 * n + (a + k - n)) % n = a + k - n BY <2>1, Remainder
  <2> QED BY <1>2, <2>1, <2>2
<1> QED BY <1>1, <1>2

(* f are the units from the offset on, at most as many as are wanted.       *)
Returns(f, size, pos, offset, want) ==
    \/ f = <<>>
    \/ /\ offset < size
       /\ \E read \in Nat \ {0} :
            /\ read <= want /\ offset + read <= size
            /\ f \in Seq(Nat) /\ Len(f) = read
            /\ \A k \in 1..read : f[k] = ts[(((pos + offset) % FileSize) + k - 1) % FileSize]

LEMMA ReadsFill ==
    ASSUME ts \in [0..(FileSize - 1) -> Nat],
           NEW pos \in 0..(FileSize - 1), NEW size \in Nat, size < FileSize,
           NEW offset \in Nat, NEW want \in Nat \ {0},
           NEW f, f = Fill(CalcReadRanges(size, pos, offset, want))
    PROVE  Returns(f, size, pos, offset, want)
<1> USE DEF Returns
<1> DEFINE rs == CalcReadRanges(size, pos, offset, want)
           read == Min({size - offset, want})
           a == (pos + offset) % FileSize
           e == (a + read) % FileSize
<1>0. f = Fill(rs) OBVIOUS
<1>1. CASE size = 0 \/ offset >= size
  <2>1. rs = <<>> BY <1>1 DEF CalcReadRanges
  <2>2. f = FlattenSeq([i \in DOMAIN <<>> |-> [k \in 1..(<<>>[i][2] - <<>>[i][1]) |-> ts[<<>>[i][1] + k - 1]]])
    BY <2>1 DEF Fill
  <2>3. [i \in DOMAIN <<>> |-> [k \in 1..(<<>>[i][2] - <<>>[i][1]) |-> ts[<<>>[i][1] + k - 1]]] = <<>>
    OBVIOUS
  <2>4. f = <<>> BY <2>2, <2>3 DEF FlattenSeq
  <2> QED BY <2>4
<1>2. CASE size > 0 /\ offset < size
  <2>1. /\ read \in Nat \ {0} /\ read <= want /\ offset + read <= size
        /\ read < FileSize
    <3>1. size - offset \in Nat \ {0} BY <1>2
    <3>2. {size - offset, want} \in SUBSET Nat /\ {size - offset, want} # {}
      BY <3>1
    <3>3. read \in {size - offset, want} /\ read <= size - offset /\ read <= want
      BY <3>2, MinOfNaturals
    <3> QED BY <3>1, <3>3, Sizes
  <2>2. a \in 0..(FileSize - 1)
    <3>1. pos + offset \in Int OBVIOUS
    <3> QED BY <3>1, Division, Sizes
  <2>3. rs = IF e = 0 THEN <<<<a, FileSize>>>>
             ELSE IF a < e THEN <<<<a, e>>>> ELSE <<<<a, FileSize>>, <<0, e>>>>
    BY <1>2 DEF CalcReadRanges
  <2> HIDE DEF rs, read, a
  <2>4. \A k \in Nat : k <= FileSize => (a + k) % FileSize = IF a + k < FileSize THEN a + k ELSE a + k - FileSize
    BY <2>2, Rounds, Sizes
  <2>5. e = IF a + read < FileSize THEN a + read ELSE a + read - FileSize
    BY <2>1, <2>4, Sizes
  <2> HIDE DEF e
  <2>6. \A k \in 1..read : (a + k - 1) % FileSize =
                             IF a + k - 1 < FileSize THEN a + k - 1 ELSE a + k - 1 - FileSize
    <3> TAKE k \in 1..read
    <3>1. k - 1 \in Nat /\ k - 1 <= FileSize /\ a + (k - 1) = a + k - 1
      BY <2>1, <2>2, Sizes
    <3> QED BY <2>4, <3>1
  <2>7. CASE a + read <= FileSize
    <3>1. rs = <<<<a, a + read>>>>
      <4>1. CASE a + read < FileSize
        <5>1. e = a + read /\ e # 0 /\ a < e BY <2>1, <2>2, <2>5, <4>1, Sizes
        <5> QED BY <2>3, <5>1
      <4>2. CASE a + read = FileSize
        <5>1. e = 0 BY <2>1, <2>2, <2>5, <4>2, Sizes
        <5> QED BY <2>3, <4>2, <5>1
      <4> QED BY <2>1, <2>2, <2>7, <4>1, <4>2, Sizes
    <3>2. a \in Nat /\ a + read \in Nat /\ a < a + read /\ (a + read) - a = read
      BY <2>1, <2>2, Sizes
    <3>3. f = [k \in 1..read |-> ts[a + k - 1]]
      <4>1. a \in Nat /\ read \in Nat /\ read > 0 BY <2>1, <3>2
      <4>2. f = Fill(<<<<a, a + read>>>>) BY <1>0, <3>1
      <4>3. Fill(<<<<a, a + read>>>>) = [k \in 1..read |-> ts[a + k - 1]]
        BY <2>7, <4>1, FillLength
      <4> QED BY <4>2, <4>3
    <3>4. \A k \in 1..read : a + k - 1 \in 0..(FileSize - 1) /\ (a + k - 1) % FileSize = a + k - 1
      BY <2>1, <2>2, <2>6, <2>7, Sizes
    <3>5. \A k \in 1..read : ts[a + k - 1] \in Nat BY <3>4
    <3>6. f \in Seq(Nat) BY <2>1, <3>3, <3>5, IsASeq
    <3>7. Len(f) = read /\ \A k \in 1..read : f[k] = ts[(a + k - 1) % FileSize]
      BY <2>1, <3>3, <3>4, <3>6, LenProperties
    <3> QED BY <1>2, <2>1, <3>6, <3>7 DEF rs, a
  <2>8. CASE a + read > FileSize
    <3> DEFINE u == [k \in 1..(FileSize - a) |-> ts[a + k - 1]]
               v == [k \in 1..e |-> ts[k - 1]]
    <3>1. e = a + read - FileSize /\ e \in Nat /\ e > 0 /\ e <= a
      BY <2>1, <2>2, <2>5, <2>8, Sizes
    <3>2. rs = <<<<a, FileSize>>, <<0, e>>>> BY <2>2, <2>3, <3>1
    <3>3. f = u \o v
      <4>1. a \in Nat /\ a < FileSize BY <2>2, Sizes
      <4>2. f = Fill(<<<<a, FileSize>>, <<0, e>>>>) BY <1>0, <3>2
      <4> QED BY <3>1, <4>1, <4>2, FillTwo
    <3>4. FileSize - a \in Nat /\ \A k \in 1..(FileSize - a) : ts[a + k - 1] \in Nat
      <4>1. FileSize - a \in Nat BY <2>2, Sizes
      <4>2. \A k \in 1..(FileSize - a) : a + k - 1 \in 0..(FileSize - 1)
        BY <2>2, Sizes
      <4> QED BY <4>1, <4>2
    <3>5. u \in Seq(Nat) /\ Len(u) = FileSize - a
      BY <3>4, IsASeq, LenProperties
    <3>6. \A k \in 1..e : ts[k - 1] \in Nat
      <4>1. \A k \in 1..e : k - 1 \in 0..(FileSize - 1) BY <2>2, <3>1, Sizes
      <4> QED BY <4>1
    <3>7. v \in Seq(Nat) /\ Len(v) = e BY <3>1, <3>6, IsASeq, LenProperties
    <3>8. \A k \in 1..(FileSize - a) : u[k] = ts[a + k - 1] OBVIOUS
    <3>9. \A k \in 1..e : v[k] = ts[k - 1] OBVIOUS
    <3> HIDE DEF u, v
    <3>10. /\ u \o v \in Seq(Nat) /\ Len(u \o v) = (FileSize - a) + e
           /\ \A i \in 1..((FileSize - a) + e) :
                (u \o v)[i] = IF i <= FileSize - a THEN u[i] ELSE v[i - (FileSize - a)]
      <4>1. /\ u \o v \in Seq(Nat) /\ Len(u \o v) = Len(u) + Len(v)
            /\ \A i \in 1..(Len(u) + Len(v)) :
                 (u \o v)[i] = IF i <= Len(u) THEN u[i] ELSE v[i - Len(u)]
        BY <3>5, <3>7, ConcatProperties
      <4> QED BY <3>5, <3>7, <4>1
    <3>11. (FileSize - a) + e = read BY <2>1, <2>2, <3>1, Sizes
    <3>12. ASSUME NEW k \in 1..read PROVE f[k] = ts[(a + k - 1) % FileSize]
      <4>1. f[k] = IF k <= FileSize - a THEN u[k] ELSE v[k - (FileSize - a)]
        BY <3>3, <3>10, <3>11
      <4>2. CASE k <= FileSize - a
        <5>1. k \in 1..(FileSize - a) /\ a + k - 1 < FileSize
          BY <2>1, <2>2, <4>2, Sizes
        <5> QED BY <2>6, <3>8, <4>1, <4>2, <5>1
      <4>3. CASE k > FileSize - a
        <5>1. /\ k - (FileSize - a) \in 1..e /\ ~(a + k - 1 < FileSize) /\ ~(k <= FileSize - a)
              /\ k - (FileSize - a) - 1 = a + k - 1 - FileSize
          BY <2>1, <2>2, <3>1, <4>3, Sizes
        <5>2. v[k - (FileSize - a)] = ts[a + k - 1 - FileSize] BY <3>9, <5>1
        <5> QED BY <2>6, <4>1, <5>1, <5>2
      <4> QED BY <2>1, <2>2, <4>2, <4>3, Sizes
    <3> QED BY <1>2, <2>1, <3>3, <3>10, <3>11, <3>12 DEF rs, a
  <2> QED BY <2>1, <2>2, <2>7, <2>8, Sizes
<1> QED BY <1>1, <1>2

LEMMA SizesOfRecords ==
    ASSUME NEW r \in Records
    PROVE  /\ r.start.pos \in 0..(FileSize - 1) /\ r.end.pos \in 0..(FileSize - 1)
           /\ r.start.t \in Nat /\ r.end.t \in Nat
           /\ GetSize(r) \in Nat /\ GetSize(r) < FileSize
<1>1. /\ r.start.pos \in 0..(FileSize - 1) /\ r.end.pos \in 0..(FileSize - 1)
      /\ r.start.t \in Nat /\ r.end.t \in Nat
  BY PointsAreTyped DEF Records
<1>2. \A u, v \in 0..(FileSize - 1) :
         /\ u < v => FileSize - v + u \in Nat /\ FileSize - v + u < FileSize
         /\ ~(u < v) => u - v \in Nat /\ u - v < FileSize
  BY Sizes
<1> QED BY <1>1, <1>2 DEF GetSize

(* A read returns units; those of a readable record, from the offset on.    *)
LEMMA ReadIsTyped ==
    ASSUME ts \in [0..(FileSize - 1) -> Nat], NEW r \in Records, NEW offset \in Nat,
           NEW f, f = Fill(CalcReadRanges(GetSize(r), r.start.pos, offset, ReadSize))
    PROVE  f \in Seq(Nat) /\ Returns(f, GetSize(r), r.start.pos, offset, ReadSize)
<1> DEFINE size == GetSize(r)
           pos == r.start.pos
<1>1. pos \in 0..(FileSize - 1) /\ size \in Nat /\ size < FileSize
  BY SizesOfRecords
<1>2. ReadSize \in Nat \ {0} BY ReadAssumption
<1> HIDE DEF size, pos
<1>3. f = Fill(CalcReadRanges(size, pos, offset, ReadSize)) BY DEF size, pos
<1>4. Returns(f, size, pos, offset, ReadSize) BY <1>1, <1>2, <1>3, ReadsFill
<1>5. f \in Seq(Nat) BY <1>4, EmptySeq DEF Returns
<1> QED BY <1>4, <1>5 DEF size, pos

LEMMA ReadIsFaithful ==
    ASSUME ts \in [0..(FileSize - 1) -> Nat], NEW r \in Records, Readable(r), NEW offset \in Nat,
           NEW f, f = Fill(CalcReadRanges(GetSize(r), r.start.pos, offset, ReadSize))
    PROVE  /\ Len(f) <= ReadSize
           /\ \A k \in 1..Len(f) : f[k] = r.start.t + offset + k - 1
           /\ f # <<>> => r.start.t + offset + Len(f) <= r.end.t
<1> DEFINE size == GetSize(r)
           pos == r.start.pos
<1>1. /\ r.start.t \in Nat /\ r.end.t \in Nat
      /\ size \in Nat /\ size = r.end.t - r.start.t
  BY SizesOfRecords DEF Readable
<1>2. ASSUME NEW first \in 0..(size - 1), NEW k \in 1..(size - first)
      PROVE  ts[(((pos + first) % FileSize) + k - 1) % FileSize] = r.start.t + first + k - 1
  <2> DEFINE src == CreateRangeStreamSource(r, first, size - first)
  <2>1. src.start = (pos + first) % FileSize /\ src.size = size - first
    BY DEF CreateRangeStreamSource
  <2>2. Holds(src, r.start.t + first) BY DEF Readable
  <2> HIDE DEF src
  <2>3. ReadPositions(src)[k] = (src.start + k - 1) % FileSize
    BY <2>1 DEF ReadPositions
  <2> QED BY <2>1, <2>2, <2>3 DEF Holds
<1> HIDE DEF size, pos
<1>3. f \in Seq(Nat) /\ Returns(f, size, pos, offset, ReadSize)
  BY ReadIsTyped DEF size, pos
<1>4. CASE f = <<>> BY <1>4, ReadAssumption
<1>5. CASE f # <<>>
  <2>1. PICK read \in Nat \ {0} :
               /\ read <= ReadSize /\ offset + read <= size /\ offset < size
               /\ f \in Seq(Nat) /\ Len(f) = read
               /\ \A k \in 1..read : f[k] = ts[(((pos + offset) % FileSize) + k - 1) % FileSize]
    BY <1>3, <1>5 DEF Returns
  <2>2. offset \in 0..(size - 1) BY <1>1, <2>1
  <2>3. \A k \in 1..read : f[k] = r.start.t + offset + k - 1
    <3> TAKE k \in 1..read
    <3>1. k \in 1..(size - offset) BY <1>1, <2>1, <2>2
    <3> QED BY <1>2, <2>1, <2>2, <3>1
  <2>4. r.start.t + offset + Len(f) <= r.end.t BY <1>1, <2>1
  <2> QED BY <2>1, <2>3, <2>4
<1> QED BY <1>4, <1>5

(***************************************************************************)
(* The data file beside a reader: another one is newer.                     *)
(***************************************************************************)
LEMMA FilesAreRenewed ==
    ASSUME DataType, [TsNext]_tsVars
    PROVE  /\ gaps' = gaps
           /\ \/ data' = data
              \/ \E e : data' = {e} /\ e.mtime \in Nat /\ \A d \in data : d.mtime < e.mtime
<1>1. ASSUME NEW rs, NEW ps, data' = Saved(rs, ps)
      PROVE  \/ data' = data
             \/ \E e : data' = {e} /\ e.mtime \in Nat /\ \A d \in data : d.mtime < e.mtime
  <2> DEFINE mtime == IF data = {} THEN 1 ELSE (CHOOSE d \in data : TRUE).mtime + 1
             e == [records |-> [i \in DOMAIN rs |-> [rs[i] EXCEPT !.recording = FALSE]],
                   points |-> ps, mtime |-> mtime]
  <2>1. data' = data \/ data' = {e} BY <1>1 DEF Saved
  <2>2. mtime \in Nat /\ \A d \in data : d.mtime < mtime
    <3>1. CASE data = {} BY <3>1
    <3>2. CASE data # {}
      <4>1. PICK c : c = CHOOSE d \in data : TRUE OBVIOUS
      <4>2. c \in data /\ c.mtime \in Nat /\ mtime = c.mtime + 1
        BY <3>2, <4>1 DEF DataType, Files
      <4>3. \A d \in data : d = c BY <4>2 DEF DataType
      <4> QED BY <4>2, <4>3
    <3> QED BY <3>1, <3>2
  <2>3. e.mtime = mtime OBVIOUS
  <2> QED BY <2>1, <2>2, <2>3
<1>2. CASE HandleChunk BY <1>1, <1>2 DEF HandleChunk, cmdVars
<1>3. CASE Write \/ EventBoundary \/ PipelineBreaks \/ Started \/ Crash
  BY <1>3 DEF Write, EventBoundary, PipelineBreaks, Started, Crash, Gone, cmdVars
<1>4. CASE ServiceUpdated \/ HealthCheck
  BY <1>4 DEF ServiceUpdated, HealthCheck, StartRecording, Launch, cmdVars
<1>5. CASE HandleTimeshiftEvent \/ UNCHANGED tsVars
  BY <1>5 DEF HandleTimeshiftEvent, tsVars, cmdVars
<1>6. CASE Handle
  BY <1>2, <1>6 DEF Handle, PipelineStarted, PipelineStopped, HandleStartRecording, Gone,
     HandleStopRecording, HandleEventStart, HandleEventUpdate, HandleEventEnd, cmdVars
<1> QED BY <1>3, <1>4, <1>5, <1>6 DEF TsNext

(***************************************************************************)
(* The invariant of the file system.  A cache is as old as its time says,   *)
(* or its records are newer; while a request is served the cache is older   *)
(* than what update_cache() is about to load, or its records are those of   *)
(* the file as it was when the request came, and still readable.            *)
(***************************************************************************)
FsType ==
    /\ \A c \in cache : c.mtime \in Nat \ {0} /\ c.records \in Seq(Records)
    /\ \A b, c \in cache : b = c
    /\ \A r \in req : r.mtime \in Nat
    /\ \A q, r \in req : q = r
    /\ \A h, g \in handle : h = g
    /\ next \in Nat
HandleInv ==
    /\ handle = {} => next = 0 /\ got = <<>>
    /\ \A h \in handle : h.kind = "record" => \E id : h.ids = {id}
    /\ \A r \in req : /\ r.op \in {"opendir", "open"} => handle = {}
                      /\ r.op = "read" => handle # {} /\ \A h \in handle : r.id \in h.ids
CacheInv ==
    /\ cache # {} => data # {}
    /\ \A c \in cache, d \in data : c.mtime <= d.mtime /\ (c.mtime = d.mtime => c.records = d.records)
ReadablyServed ==
    \A r \in req :
       /\ r.mtime = 0 => cache = {}
       /\ r.mtime # 0 => data # {} /\ \A d \in data : r.mtime <= d.mtime
       /\ \A c \in cache :
             /\ c.mtime <= r.mtime
             /\ ~gaps /\ c.mtime = r.mtime => \A i \in DOMAIN c.records : Readable(c.records[i])
FsInv == FsType /\ HandleInv /\ CacheInv /\ ReadablyServed

LEMMA TheOne ==
    ASSUME NEW S, \A x, y \in S : x = y
    PROVE  \A x \in S : The(S) = x
BY DEF The

(* Steps of the recorder, without a request under way and beside one.       *)
LEMMA BesideIsSafe ==
    ASSUME DataType, FsInv, [TsNext]_tsVars, UNCHANGED fsVars, req # {} => ts' = ts
    PROVE  FsInv'
<1>1. /\ [TsNext]_tsVars /\ (req # {} => ts' = ts)
      /\ cache' = cache /\ req' = req /\ handle' = handle /\ next' = next /\ got' = got
  BY DEF fsVars
<1>2. /\ gaps' = gaps
      /\ \/ data' = data
         \/ \E e : data' = {e} /\ e.mtime \in Nat /\ \A d \in data : d.mtime < e.mtime
  BY <1>1, FilesAreRenewed
<1>3. Records' = Records BY DEF Records, Points, FileSize
<1>4. FsType' /\ HandleInv' BY <1>1, <1>3 DEF FsInv, FsType, HandleInv
<1>5. CacheInv'
  <2>1. CASE data' = data BY <1>1, <2>1 DEF FsInv, CacheInv
  <2>2. ASSUME NEW e, data' = {e}, e.mtime \in Nat, \A d \in data : d.mtime < e.mtime PROVE CacheInv'
    <3>1. ASSUME NEW c \in cache PROVE c.mtime < e.mtime
      <4>1. PICK d \in data : c.mtime <= d.mtime BY DEF FsInv, CacheInv
      <4>2. c.mtime \in Nat /\ d.mtime \in Nat
        BY DEF FsInv, FsType, DataType, Files
      <4> QED BY <2>2, <4>1, <4>2
    <3>2. \A c \in cache : c.mtime \in Nat BY DEF FsInv, FsType
    <3> QED BY <1>1, <2>2, <3>1, <3>2 DEF CacheInv
  <2> QED BY <1>2, <2>1, <2>2
<1>6. ReadablyServed'
  <2> SUFFICES ASSUME NEW r \in req PROVE
                 /\ r.mtime = 0 => cache = {}
                 /\ r.mtime # 0 => data' # {} /\ \A d \in data' : r.mtime <= d.mtime
                 /\ \A c \in cache :
                      /\ c.mtime <= r.mtime
                      /\ ~gaps' /\ c.mtime = r.mtime => \A i \in DOMAIN c.records : Readable(c.records[i])'
    BY <1>1 DEF ReadablyServed
  <2>1. ts' = ts /\ r.mtime \in Nat BY <1>1 DEF FsInv, FsType
  <2>2. \A x : Readable(x)' <=> Readable(x)
    BY <2>1 DEF Readable, Holds, GetSize, CreateRecordStreamSource, CreateRangeStreamSource,
       ReadPositions, FileSize
  <2>3. r.mtime # 0 => data' # {} /\ \A d \in data' : r.mtime <= d.mtime
    <3>1. CASE data' = data BY <3>1 DEF FsInv, ReadablyServed
    <3>2. ASSUME NEW e, data' = {e}, e.mtime \in Nat, \A d \in data : d.mtime < e.mtime, r.mtime # 0
          PROVE  data' # {} /\ \A d \in data' : r.mtime <= d.mtime
      <4>1. PICK d \in data : r.mtime <= d.mtime
        BY <3>2 DEF FsInv, ReadablyServed
      <4>2. d.mtime \in Nat /\ d.mtime < e.mtime BY <3>2 DEF DataType, Files
      <4> QED BY <2>1, <3>2, <4>1, <4>2
    <3> QED BY <1>2, <3>1, <3>2
  <2> QED BY <1>2, <2>2, <2>3 DEF FsInv, ReadablyServed
<1> QED BY <1>4, <1>5, <1>6 DEF FsInv

LEMMA RequestIsSafe ==
    ASSUME DataType, RecordsAreReadable, FsInv, Request
    PROVE  FsInv'
<1> DEFINE m == IF data = {} THEN 0 ELSE The(data).mtime
<1>1. PICK op, id : /\ Stat(op, id)
                    /\ op \in {"opendir", "open"} => handle = {}
                    /\ op = "read" => handle # {} /\ \A h \in handle : id \in h.ids
  <2>1. CASE \/ Stat("getattr", None)
             \/ handle = {} /\ Stat("opendir", None)
             \/ \E id \in Ids(CachedRecords) : Stat("lookup", id)
             \/ handle = {} /\ \E id \in Ids(CachedRecords) : Stat("open", id)
    BY <2>1
  <2>2. ASSUME NEW h \in handle, h.kind = "record", Stat("read", The(h.ids))
        PROVE  \E op, id : /\ Stat(op, id)
                           /\ op \in {"opendir", "open"} => handle = {}
                           /\ op = "read" => handle # {} /\ \A g \in handle : id \in g.ids
    <3>1. PICK x : h.ids = {x} BY <2>2 DEF FsInv, HandleInv
    <3>2. The(h.ids) \in h.ids BY <3>1 DEF The
    <3>3. \A g \in handle : g = h BY DEF FsInv, FsType
    <3> QED BY <2>2, <3>2, <3>3
  <2> QED BY <2>1, <2>2 DEF Request
<1> DEFINE r == [op |-> op, id |-> id, mtime |-> m]
<1>2. /\ req = {} /\ req' = {r} /\ cache' = cache /\ handle' = handle /\ next' = next /\ got' = got
      /\ data' = data /\ gaps' = gaps /\ ts' = ts
  BY <1>1 DEF Stat, tsVars, cmdVars
<1>3. r.op = op /\ r.id = id /\ r.mtime = m OBVIOUS
<1>4. data # {} => \E d \in data : m = d.mtime /\ m \in Nat /\ data = {d}
  <2> SUFFICES ASSUME NEW d \in data PROVE m = d.mtime /\ m \in Nat /\ data = {d}
    OBVIOUS
  <2>1. The(data) = d /\ data = {d} BY TheOne DEF DataType
  <2> QED BY <2>1 DEF DataType, Files
<1>5. m \in Nat /\ (data = {} => m = 0) BY <1>4
<1> HIDE DEF m, r
<1>6. Records' = Records BY DEF Records, Points, FileSize
<1>7. FsType' BY <1>2, <1>3, <1>5, <1>6 DEF FsInv, FsType
<1>8. HandleInv' BY <1>1, <1>2, <1>3 DEF FsInv, HandleInv
<1>9. CacheInv' BY <1>2 DEF FsInv, CacheInv
<1>10. ReadablyServed'
  <2>1. \A x : Readable(x)' <=> Readable(x)
    BY <1>2 DEF Readable, Holds, GetSize, CreateRecordStreamSource, CreateRangeStreamSource,
       ReadPositions, FileSize
  <2>2. CASE data = {}
    <3>1. cache = {} /\ r.mtime = 0 BY <1>3, <1>5, <2>2 DEF FsInv, CacheInv
    <3> QED BY <1>2, <3>1 DEF ReadablyServed
  <2>3. ASSUME NEW d \in data, m = d.mtime, m \in Nat, data = {d} PROVE ReadablyServed'
    <3>1. r.mtime # 0 => data # {} /\ \A e \in data : r.mtime <= e.mtime
      BY <1>3, <2>3
    <3>2. \A c \in cache : c.mtime <= r.mtime /\ (c.mtime = r.mtime => c.records = d.records)
      BY <1>3, <2>3 DEF FsInv, CacheInv
    <3>3. r.mtime = 0 => cache = {} BY <1>3, <2>3, <3>2 DEF FsInv, FsType
    <3>4. ~gaps => \A i \in DOMAIN d.records : Readable(d.records[i])
      BY DEF RecordsAreReadable
    <3> QED BY <1>2, <2>1, <3>1, <3>2, <3>3, <3>4 DEF ReadablyServed
  <2> QED BY <1>4, <2>2, <2>3
<1> QED BY <1>7, <1>8, <1>9, <1>10 DEF FsInv

(* What update_cache() leaves when a request is served.                     *)
LEMMA ServedCaches ==
    ASSUME DataType, RecordsAreReadable, FsInv, NEW r \in req, cache' = UpdateCache(r), data' = data
    PROVE  /\ \A c \in cache' : c.mtime \in Nat \ {0} /\ c.records \in Seq(Records)
           /\ \A b, c \in cache' : b = c
           /\ CacheInv'
           /\ ~gaps => \A c \in cache' : \A i \in DOMAIN c.records : Readable(c.records[i])
<1> DEFINE loads == r.mtime # 0 /\ (cache = {} \/ r.mtime > The(cache).mtime)
           new == [mtime |-> r.mtime, records |-> LoadedRecords]
<1>1. r.mtime \in Nat BY DEF FsInv, FsType
<1>2. CASE loads
  <2>1. cache' = {new} /\ r.mtime # 0 BY <1>2 DEF UpdateCache
  <2>2. new.mtime = r.mtime /\ new.records = LoadedRecords OBVIOUS
  <2> HIDE DEF new
  <2>3. data # {} /\ \A d \in data : r.mtime <= d.mtime
    BY <2>1 DEF FsInv, ReadablyServed
  <2>4. LoadedRecords \in Seq(Records) /\ \E d \in data : LoadedRecords = d.records
    BY <2>3, LoadedKeeps
  <2>5. \A d \in data : LoadedRecords = d.records BY <2>4 DEF DataType
  <2>6. CacheInv' BY <2>1, <2>2, <2>3, <2>5 DEF CacheInv
  <2>7. ~gaps => \A i \in DOMAIN LoadedRecords : Readable(LoadedRecords[i])
    BY <2>4 DEF RecordsAreReadable
  <2> QED BY <1>1, <2>1, <2>2, <2>4, <2>6, <2>7
<1>3. CASE ~loads
  <2>1. cache' = cache BY <1>3 DEF UpdateCache
  <2>2. CacheInv' BY <2>1 DEF FsInv, CacheInv
  <2>3. ASSUME ~gaps, NEW c \in cache PROVE \A i \in DOMAIN c.records : Readable(c.records[i])
    <3>1. The(cache) = c BY TheOne DEF FsInv, FsType
    <3>2. r.mtime # 0 /\ c.mtime <= r.mtime /\ c.mtime \in Nat
      BY DEF FsInv, FsType, ReadablyServed
    <3>3. c.mtime = r.mtime BY <1>1, <1>3, <3>1, <3>2
    <3> QED BY <2>3, <3>3 DEF FsInv, ReadablyServed
  <2> QED BY <2>1, <2>2, <2>3 DEF FsInv, FsType
<1> QED BY <1>2, <1>3

LEMMA ServingIsSafe ==
    ASSUME DataType, RecordsAreReadable, FsInv, NEW op, Serving(op), UNCHANGED tsVars,
           next' \in Nat, \A g, h \in handle' : g = h, HandleInv'
    PROVE  FsInv'
<1>1. PICK r \in req : cache' = UpdateCache(r) /\ req' = {} BY DEF Serving
<1>2. data' = data BY DEF tsVars
<1>3. /\ \A c \in cache' : c.mtime \in Nat \ {0} /\ c.records \in Seq(Records)
      /\ \A b, c \in cache' : b = c
      /\ CacheInv'
  BY <1>1, <1>2, ServedCaches
<1>4. Records' = Records BY DEF Records, Points, FileSize
<1>5. FsType' BY <1>1, <1>3, <1>4 DEF FsType
<1>6. ReadablyServed' BY <1>1 DEF ReadablyServed
<1> QED BY <1>3, <1>5, <1>6 DEF FsInv

(* A read is served from a record that the cache then has.                  *)
LEMMA ReadServes ==
    ASSUME DataType, CmdType, RecordsAreReadable, FsInv, Read
    PROVE  /\ next' = next + Len(got') /\ next' \in Nat /\ handle' = handle /\ handle # {}
           /\ ~gaps /\ got' # <<>> =>
                /\ Len(got') <= ReadSize
                /\ \A i \in 1..(Len(got') - 1) : got'[i + 1] = got'[i] + 1
                /\ \E r \in Range(CachedRecords') :
                     /\ \E h \in handle : r.id \in h.ids
                     /\ got'[1] >= r.start.t /\ Last(got') < r.end.t
<1> DEFINE id == The(req).id
           rec == GetRecord(The(cache').records, id)
<1>1. PICK q \in req : q.op = "read" /\ cache' = UpdateCache(q) /\ req' = {}
  BY DEF Read, Serving
<1>2. The(req) = q BY TheOne DEF FsInv, FsType
<1>3. data' = data /\ handle' = handle BY DEF Read, tsVars
<1>4. handle # {} /\ \A h \in handle : id \in h.ids
  BY <1>1, <1>2 DEF FsInv, HandleInv
<1>5. /\ got' = IF Found(id) THEN Fill(CalcReadRanges(GetSize(rec), rec.start.pos, next, ReadSize)) ELSE <<>>
      /\ next' = next + Len(got')
  BY DEF Read
<1>6. /\ \A c \in cache' : c.mtime \in Nat \ {0} /\ c.records \in Seq(Records)
      /\ \A b, c \in cache' : b = c
      /\ ~gaps => \A c \in cache' : \A i \in DOMAIN c.records : Readable(c.records[i])
  BY <1>1, <1>3, ServedCaches
<1>7. next \in Nat BY DEF FsInv, FsType
<1>8. ts \in [0..(FileSize - 1) -> Nat] BY DEF CmdType
<1>9. CASE ~Found(id)
  <2>1. got' = <<>> /\ next' = next BY <1>5, <1>7, <1>9
  <2> QED BY <1>3, <1>4, <1>5, <1>7, <2>1
<1>10. CASE Found(id)
  <2>1. PICK c \in cache' : The(cache') = c /\ id \in Ids(c.records)
    <3>1. cache' # {}
      <4>1. Ids(<<>>) = {} BY DEF Ids
      <4> QED BY <1>10, <4>1 DEF Found
    <3>2. PICK c \in cache' : TRUE BY <3>1
    <3>3. The(cache') = c BY <1>6 DEF The
    <3> QED BY <1>10, <3>1, <3>3 DEF Found
  <2>2. c.records \in Seq(Records) BY <1>6
  <2>3. PICK i \in DOMAIN c.records : rec = c.records[i] /\ c.records[i].id = id
    BY <2>1 DEF GetRecord, Ids
  <2>4. rec \in Records /\ rec.id = id BY <2>2, <2>3, LenProperties
  <2>5. rec \in Range(CachedRecords')
    BY <2>1, <2>3 DEF CachedRecords, Range, The
  <2> DEFINE f == Fill(CalcReadRanges(GetSize(rec), rec.start.pos, next, ReadSize))
  <2>6. got' = f BY <1>5, <1>10
  <2> HIDE DEF rec
  <2>7. f \in Seq(Nat) BY <1>7, <1>8, <2>4, ReadIsTyped
  <2>10. f = Fill(CalcReadRanges(GetSize(rec), rec.start.pos, next, ReadSize))
    OBVIOUS
  <2> HIDE DEF f
  <2>8. next' \in Nat BY <1>5, <1>7, <2>6, <2>7, LenProperties
  <2>9. ASSUME ~gaps, got' # <<>>
        PROVE  /\ Len(got') <= ReadSize
               /\ \A k \in 1..(Len(got') - 1) : got'[k + 1] = got'[k] + 1
               /\ got'[1] >= rec.start.t /\ Last(got') < rec.end.t
    <3>1. Readable(rec) BY <1>6, <2>3, <2>9
    <3>2. /\ Len(f) <= ReadSize
          /\ \A k \in 1..Len(f) : f[k] = rec.start.t + next + k - 1
          /\ f # <<>> => rec.start.t + next + Len(f) <= rec.end.t
      BY <1>7, <1>8, <2>4, <3>1, ReadIsFaithful, <2>10
    <3>3. Len(f) \in Nat /\ Len(f) >= 1
      BY <2>6, <2>7, <2>9, LenProperties, EmptySeq
    <3>4. rec.start.t \in Nat /\ rec.end.t \in Nat
      BY <2>4, PointsAreTyped DEF Records
    <3>5. \A k \in 1..(Len(f) - 1) : f[k + 1] = f[k] + 1
      <4> TAKE k \in 1..(Len(f) - 1)
      <4>1. k \in 1..Len(f) /\ k + 1 \in 1..Len(f) BY <3>3
      <4>2. f[k] = rec.start.t + next + k - 1 /\ f[k + 1] = rec.start.t + next + (k + 1) - 1
        BY <3>2, <4>1
      <4> QED BY <1>7, <3>4, <4>2
    <3>6. f[1] >= rec.start.t BY <1>7, <3>2, <3>3, <3>4
    <3>7. Last(f) < rec.end.t
      <4>1. Last(f) = f[Len(f)] /\ f[Len(f)] = rec.start.t + next + Len(f) - 1
        BY <3>2, <3>3 DEF Last
      <4> QED BY <1>7, <2>6, <2>9, <3>2, <3>3, <3>4, <4>1
    <3> QED BY <2>6, <3>2, <3>5, <3>6, <3>7
  <2> QED BY <1>3, <1>4, <1>5, <2>4, <2>5, <2>8, <2>9
<1> QED BY <1>9, <1>10

LEMMA FsStepsAreSafe ==
    ASSUME TypeInv, RecordsAreReadable, FsInv, [Next]_vars
    PROVE  FsInv'
<1>0. DataType /\ CmdType BY DEF TypeInv
<1>1. CASE Beside BY <1>0, <1>1, BesideIsSafe DEF Beside
<1>2. CASE Request BY <1>0, <1>2, RequestIsSafe
<1>3. CASE Attributes
  <2>1. PICK op : op \in {"lookup", "getattr"} /\ Serving(op)
    BY <1>3 DEF Attributes
  <2>2. UNCHANGED <<tsVars, handle, next, got>> /\ req' = {}
    BY <1>3 DEF Attributes, Serving
  <2>3. HandleInv' BY <2>2 DEF FsInv, HandleInv
  <2> QED BY <1>0, <2>1, <2>2, <2>3, ServingIsSafe DEF FsInv, FsType
<1>4. CASE OpenDir
  <2>1. Serving("opendir") /\ UNCHANGED <<tsVars, next, got>> /\ req' = {}
    BY <1>4 DEF OpenDir, Serving
  <2>2. PICK ids : handle' = {[kind |-> "dir", ids |-> ids]}
    BY <1>4 DEF OpenDir
  <2>3. HandleInv'
    <3>1. handle' # {} /\ \A h \in handle' : h.kind # "record" BY <2>2
    <3> QED BY <2>1, <3>1 DEF HandleInv
  <2>4. \A g, h \in handle' : g = h BY <2>2
  <2> QED BY <1>0, <2>1, <2>3, <2>4, ServingIsSafe DEF FsInv, FsType
<1>5. CASE Open
  <2>1. /\ Serving("open") /\ UNCHANGED <<tsVars, got>> /\ req' = {} /\ next' = 0
        /\ \E r \in req : r.op = "open"
    BY <1>5 DEF Open, Serving
  <2>2. PICK id : handle' = {[kind |-> "record", ids |-> {id}]} \/ handle' = {}
    BY <1>5 DEF Open
  <2>3. handle = {} /\ got = <<>> BY <2>1 DEF FsInv, HandleInv
  <2>4. HandleInv' BY <2>1, <2>2, <2>3 DEF HandleInv
  <2>5. \A g, h \in handle' : g = h BY <2>2
  <2> QED BY <1>0, <2>1, <2>4, <2>5, ServingIsSafe
<1>6. CASE Read
  <2>1. Serving("read") /\ UNCHANGED tsVars /\ req' = {}
    BY <1>6 DEF Read, Serving
  <2>2. next' \in Nat /\ handle' = handle /\ handle # {}
    BY <1>0, <1>6, ReadServes
  <2>3. HandleInv' BY <2>1, <2>2 DEF FsInv, HandleInv
  <2> QED BY <1>0, <2>1, <2>2, <2>3, ServingIsSafe DEF FsInv, FsType
<1>7. CASE Release \/ UNCHANGED vars
  <2>1. CASE Release
    <3>1. /\ req = {} /\ req' = {} /\ handle' = {} /\ next' = 0 /\ got' = <<>> /\ cache' = cache
          /\ data' = data
      BY <2>1 DEF Release, tsVars
    <3>2. Records' = Records BY DEF Records, Points, FileSize
    <3> QED BY <3>1, <3>2 DEF FsInv, FsType, HandleInv, CacheInv, ReadablyServed
  <2>2. CASE UNCHANGED vars
    <3>1. UNCHANGED <<tsVars, fsVars>> /\ ts' = ts
      BY <2>2 DEF vars, tsVars, cmdVars
    <3> QED BY <1>0, <3>1, BesideIsSafe
  <2> QED BY <1>7, <2>1, <2>2
<1> QED BY <1>1, <1>2, <1>3, <1>4, <1>5, <1>6, <1>7 DEF Next, FsNext

LEMMA FsStepsAreRecorderSteps == [Next]_vars => [TsNext]_tsVars
BY DEF Next, Beside, FsNext, Request, Stat, Attributes, OpenDir, Open, Read, Release, vars, tsVars

(* The file system only reads: its handlers change nothing of the recorder, *)
(* so that whatever holds of the recorder alone holds beside a mounted      *)
(* TimeshiftFilesystem.                                                     *)
THEOREM FileSystemIsBeside == Spec => TsSpec
<1>1. Init => TsInit BY DEF Init
<1> QED BY <1>1, FsStepsAreRecorderSteps, PTL DEF Spec, TsSpec

(* The inductive invariant: the cache is never newer than the data file, and*)
(* has its records when the mtime that update_cache() compares is the same; *)
(* a request keeps the mtime it has asked for, and records of that time have*)
(* all of their units in the ring until it ends.                            *)
THEOREM CachesAreKept == Spec => []FsInv
<1>1. Init => FsInv
  BY DEF Init, FsInit, FsInv, FsType, HandleInv, CacheInv, ReadablyServed
<1>2. TypeInv /\ RecordsAreReadable /\ FsInv /\ [Next]_vars => FsInv'
  BY FsStepsAreSafe
<1>3. Spec => []TypeInv /\ []RecordsAreReadable
  BY FileSystemIsBeside, TypeCorrect, RecordsCanBeRead, PTL
<1> QED BY <1>1, <1>2, <1>3, PTL DEF Spec

(* What update_cache() does not read again is what the data file has.       *)
THEOREM CachesAreCurrent == Spec => []CacheIsCurrent
<1>1. FsInv => CacheIsCurrent BY DEF FsInv, CacheInv, CacheIsCurrent
<1> QED BY <1>1, CachesAreKept, PTL

(* Each read that succeeds returns the bytes of the record at its offset:   *)
(* open(), update_cache(), calc_read_ranges() and RecordBuffer::fill()      *)
(* agree on where the record lies around the ring, while the recorder runs. *)
THEOREM ReadsAreFaithful == ASSUME GapCases \subseteq {FALSE} PROVE Spec => ReadsReturnTheRecord
<1> DEFINE Faithful ==
      next' # next /\ got' # <<>> =>
         /\ Len(got') <= ReadSize
         /\ \A i \in 1..(Len(got') - 1) : got'[i + 1] = got'[i] + 1
         /\ \E r \in Range(CachedRecords') :
              /\ \E h \in handle : r.id \in h.ids
              /\ got'[1] >= r.start.t /\ Last(got') < r.end.t
<1>1. Init => ~gaps BY DEF Init, TsInit
<1>2. ~gaps /\ TypeInv /\ [Next]_vars => ~gaps'
  BY FsStepsAreRecorderSteps, FilesAreRenewed DEF TypeInv
<1>3. ASSUME TypeInv, RecordsAreReadable, FsInv, ~gaps, Next PROVE Faithful
  <2>1. CASE Read
    <3>1. DataType /\ CmdType BY <1>3 DEF TypeInv
    <3> QED BY <1>3, <2>1, <3>1, ReadServes
  <2>2. CASE Open
    <3>1. \E r \in req : r.op = "open" BY <2>2 DEF Open, Serving
    <3>2. got = <<>> /\ got' = got
      BY <1>3, <2>2, <3>1 DEF FsInv, HandleInv, Open
    <3> QED BY <3>2
  <2>3. CASE Release BY <2>3 DEF Release
  <2>4. CASE Beside \/ Request \/ Attributes \/ OpenDir
    <3>1. next' = next
      BY <2>4 DEF Beside, fsVars, Request, Stat, Attributes, OpenDir
    <3> QED BY <3>1
  <2> QED BY <1>3, <2>1, <2>2, <2>3, <2>4 DEF Next, FsNext
<1>4. Spec => []TypeInv /\ []RecordsAreReadable /\ []FsInv
  BY FileSystemIsBeside, TypeCorrect, RecordsCanBeRead, CachesAreKept, PTL
<1>5. Spec => []~gaps BY <1>1, <1>2, <1>4, PTL DEF Spec
<1>6. TypeInv /\ RecordsAreReadable /\ FsInv /\ ~gaps /\ [Next]_vars => [Faithful]_vars
  BY <1>3
<1>7. Spec => [][Faithful]_vars BY <1>4, <1>5, <1>6, PTL DEF Spec
<1> QED BY <1>7 DEF ReadsReturnTheRecord
=============================================================================
