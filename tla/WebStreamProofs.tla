--------------------------- MODULE WebStreamProofs ---------------------------
(***************************************************************************)
(* Proofs about Records and WebStream for every number of records, filters *)
(* and units, and every size of the pipes and buffers.                     *)
(*                                                                         *)
(* A record that was begun is never begun again, so that what is known of  *)
(* a content once its writer has ended stays true (Sealed), and a content  *)
(* that is no longer under its path will never be again.  What waits in a  *)
(* mailbox is therefore described by the set its elements are from.        *)
(***************************************************************************)
EXTENDS WebStream, SequenceTheorems, FiniteSetTheorems, WellFoundedInduction, TLAPS

-----------------------------------------------------------------------------
(* Records and contents.                                                    *)

Begun == DOMAIN file \cup removed \cup unsaved \cup crashed
Sealed == {r \in Records : r \in Begun /\ ~Writes(r)}
Sums == {m \in [record : Records, sha256 : Nat] :
            m.record \in Sealed /\ (m.record \in stored => m.sha256 = content[m.record])}

(* What is there of a record that is being made.                            *)
BeingMade ==
    /\ writer.phase # "ended" => recorder # None /\ writer.record = recorder
    /\ updating # "no" => recorder # None /\ writer.phase = "ended"
    /\ recorder # None =>
          /\ recorder \notin removed \cup crashed
          /\ recorder \in DOMAIN file => file[recorder].status = "Recording"
          /\ recorder \notin DOMAIN file => recorder \in unsaved
Buffers ==
    /\ writer.idle => writer.held = 0
    /\ \A r \in Records : content[r] + (IF Writes(r) THEN writer.held ELSE 0) <= MaxUnits
SumsAreTrue ==
    /\ asked \in Seq(Sealed) /\ checking \subseteq Sealed
    /\ sum \in Seq(Sums) /\ mail \in Seq(Sums)
    /\ \A r \in DOMAIN file : file[r].sha256 # NoSum =>
          r \in Sealed /\ (r \in stored => file[r].sha256 = content[r])
(* Records are begun in order; a path is that of the record itself or of an *)
(* earlier one; a content that shares its path with no other stays where it *)
(* was written.                                                             *)
Paths ==
    /\ stored \subseteq Begun
    /\ \A r, s \in stored : path[r] = path[s] => r = s
    /\ \A s \in Records : path[s] <= s /\ (s \notin Begun => path[s] = s)
    /\ \A r, s \in Records : s \in Begun /\ r < s => r \in Begun
    /\ writer.phase # "ended" => \A s \in Records : s \in Begun => s <= writer.record
    /\ \A r \in Records : Alone(r) => holds[r] = r
RecordsInv ==
    /\ RecordsTypeOK /\ BeingMade /\ Buffers /\ SumsAreTrue /\ Paths
    /\ flushed \subseteq Sealed
    /\ DOMAIN file \cap removed = {}
    /\ RecordingRecordsHaveRecorders

LEMMA SaveForm ==
    ASSUME NEW r, NEW record, Save(r, record)
    PROVE  \/ /\ DOMAIN file' = DOMAIN file \cup {r} /\ file'[r] = record
              /\ \A s \in DOMAIN file \ {r} : file'[s] = file[s]
              /\ unsaved' = unsaved
           \/ file' = file /\ unsaved' = unsaved \cup {r}
BY DEF Save

(* A writer step: the files and messages stay.                              *)
LEMMA SealedStays ==
    ASSUME RecordsTypeOK, BeingMade,
           Begun \subseteq Begun',
           \/ writer'.phase = "ended"
           \/ writer.phase # "ended" /\ writer'.record = writer.record
           \/ writer'.record \notin Begun,
           \A r \in Records : ~Writes(r) => content'[r] = content[r],
           stored' \cap Sealed \subseteq stored
    PROVE  /\ Sealed \subseteq Sealed' /\ Sums \subseteq Sums'
           /\ \A r \in Sealed : content'[r] = content[r]
<1>1. ASSUME NEW r \in Sealed
      PROVE  r \in Sealed' /\ content'[r] = content[r]
  BY DEF Sealed, Writes, RecordsTypeOK
<1> QED
  BY <1>1 DEF Sums

LEMMA MessagesStay ==
    ASSUME SumsAreTrue, Sealed \subseteq Sealed', Sums \subseteq Sums'
    PROVE  /\ asked \in Seq(Sealed') /\ checking \subseteq Sealed'
           /\ sum \in Seq(Sums') /\ mail \in Seq(Sums')
BY SeqMonotonic DEF SumsAreTrue

(* Nothing is begun, and at most some contents are removed.                 *)
LEMMA PathsStay ==
    ASSUME Paths, Begun' = Begun, UNCHANGED <<path, holds>>, stored' \subseteq stored,
           writer'.phase = "ended" \/ (writer.phase # "ended" /\ writer'.record = writer.record)
    PROVE  Paths'
BY DEF Paths, Alone

LEMMA BufferBounds ==
    ASSUME RecordsInv, writer.phase # "ended"
    PROVE  /\ writer.record \in Records /\ writer.record = recorder
           /\ Writes(writer.record)
           /\ content[writer.record] \in Nat /\ writer.held \in Nat
           /\ content[writer.record] + writer.held <= MaxUnits
<1>1. writer.record \in Records /\ writer.record = recorder /\ Writes(writer.record)
  BY DEF RecordsInv, RecordsTypeOK, BeingMade, Writes
<1> QED
  BY <1>1 DEF RecordsInv, RecordsTypeOK, Buffers

(* The steps of the writer: the manager and the calculator see nothing.     *)
LEMMA WriterKeeps ==
    ASSUME RecordsInv, writer.phase # "ended", RecordsTypeOK', Buffers', Paths',
           stored' \subseteq stored \cup {writer.record},
           UNCHANGED <<managerVars, fileVars, sumVars, checking, crashed>>,
           writer'.record = writer.record,
           \A r \in Records \ {writer.record} : content'[r] = content[r],
           flushed' \subseteq flushed \cup {r \in {writer.record} : writer'.phase = "ended"}
    PROVE  RecordsInv' /\ Sealed \subseteq Sealed' /\ \A r \in Sealed : content'[r] = content[r]
<1> USE DEF RecordsInv, fileVars, sumVars
<1>1. /\ Begun' = Begun /\ \A r \in Records : ~Writes(r) => content'[r] = content[r]
      /\ stored' \cap Sealed \subseteq stored
  BY BufferBounds DEF Begun, Sealed
<1>2. /\ Sealed \subseteq Sealed' /\ Sums \subseteq Sums'
      /\ \A r \in Sealed : content'[r] = content[r]
  BY <1>1, SealedStays
<1>3. BeingMade'
  BY DEF BeingMade, managerVars
<1>4. SumsAreTrue'
  BY <1>1, <1>2, MessagesStay DEF SumsAreTrue
<1>5. flushed' \subseteq Sealed'
  <2>1. writer.record \in Records /\ writer.record \in Begun
    BY BufferBounds DEF BeingMade, Begun
  <2> QED
    BY <1>1, <1>2, <2>1 DEF Sealed, Writes
<1>6. RecordingRecordsHaveRecorders'
  BY DEF RecordingRecordsHaveRecorders, managerVars
<1> QED
  BY <1>2, <1>3, <1>4, <1>5, <1>6

LEMMA ContentGrows ==
    ASSUME RecordsInv, writer.phase # "ended", NEW n \in Nat, n <= writer.held,
           content' = [content EXCEPT ![writer.record] = @ + n],
           writer'.record = writer.record, writer'.held = writer.held - n,
           writer'.idle => writer'.held = 0
    PROVE  /\ content' \in [Records -> Nat] /\ Buffers'
           /\ \A r \in Records \ {writer.record} : content'[r] = content[r]
           /\ \A r \in Records : content[r] <= content'[r]
<1> DEFINE w == writer.record
<1>1. w \in Records /\ content[w] \in Nat /\ writer.held \in Nat /\ content[w] + writer.held <= MaxUnits
  BY BufferBounds
<1>2. /\ content' \in [Records -> Nat] /\ content'[w] = content[w] + n
      /\ \A r \in Records \ {w} : content'[r] = content[r]
  BY <1>1 DEF RecordsInv, RecordsTypeOK
<1>3. Buffers'
  <2>1. \A r \in Records \ {w} : content[r] \in Nat /\ content[r] <= MaxUnits
    <3> TAKE r \in Records \ {w}
    <3>1. ~Writes(r) /\ content[r] \in Nat
      BY DEF Writes, RecordsInv, RecordsTypeOK
    <3>2. content[r] + 0 <= MaxUnits
      BY <3>1 DEF RecordsInv, Buffers
    <3> QED
      BY <3>1, <3>2
  <2>2. \A r \in Records \ {w} : ~Writes(r)'
    BY DEF Writes
  <2>3. \A r \in Records : content'[r] + (IF Writes(r)' THEN writer'.held ELSE 0) <= MaxUnits
    <3> TAKE r \in Records
    <3>1. CASE r = w
      BY <1>1, <1>2, <3>1, RecordsAssumption
    <3>2. CASE r # w
      BY <1>2, <2>1, <2>2, <3>2
    <3> QED
      BY <3>1, <3>2
  <2> QED
    BY <2>3 DEF Buffers
<1>4. \A r \in Records : content[r] <= content'[r]
  <2> TAKE r \in Records
  <2>1. content[r] \in Nat
    BY DEF RecordsInv, RecordsTypeOK
  <2> QED
    BY <1>1, <1>2, <2>1
<1> QED
  BY <1>2, <1>3, <1>4

(* A file under the path is truncated; the content there was another one's. *)
LEMMA CreateKeepsPaths ==
    ASSUME RecordsInv, CreateContent
    PROVE  /\ Paths' /\ holds' \in [Records -> Records]
           /\ stored' \subseteq stored \cup {writer.record}
<1> DEFINE w == writer.record
<1> DEFINE old == {s \in stored : path[s] = path[w]}
<1>1. /\ stored' = (stored \ old) \cup {w} /\ UNCHANGED <<path, file, removed, unsaved, crashed>>
      /\ holds' = [r \in Records |-> IF holds[r] \in old THEN w ELSE holds[r]]
      /\ writer'.record = w /\ writer.phase # "ended"
  BY DEF CreateContent, fileVars, RecordsInv, RecordsTypeOK
<1>2. w \in Records /\ w \in Begun /\ Begun' = Begun
  BY <1>1, BufferBounds DEF RecordsInv, BeingMade, Begun
<1>3. /\ holds \in [Records -> Records] /\ Paths
  BY DEF RecordsInv, RecordsTypeOK
<1>4. ASSUME NEW r \in Records, Alone(r)'
      PROVE  holds'[r] = r
  <2>1. Alone(r) /\ holds[r] = r
    BY <1>1, <1>3, <1>4 DEF Alone, Paths
  <2>2. r \in old => r = w
    BY <1>2, <2>1 DEF Alone
  <2> QED
    BY <1>1, <2>1, <2>2
<1>5. \A r, s \in stored' : path[r] = path[s] => r = s
  BY <1>1, <1>3 DEF Paths
<1> QED
  BY <1>1, <1>2, <1>3, <1>4, <1>5 DEF Paths

LEMMA WriterStepKeeps ==
    ASSUME RecordsInv, WriterStep
    PROVE  /\ RecordsInv' /\ Sealed \subseteq Sealed'
           /\ \A r \in Sealed : content'[r] = content[r]
           /\ \A r \in Records : content[r] <= content'[r]
           /\ UNCHANGED <<recorder, file>>
<1> DEFINE w == writer.record
<1>1. writer.phase # "ended"
  BY DEF WriterStep, CreateContent, WriteUnit, LandUnit, Flush, Flushed, EndOfOutput, WriteFails, Copying
<1>2. /\ w \in Records /\ content[w] \in Nat /\ writer.held \in Nat
      /\ content[w] + writer.held <= MaxUnits
  BY <1>1, BufferBounds
<1>3. RecordsTypeOK
  BY DEF RecordsInv
<1>4. UNCHANGED <<managerVars, fileVars, sumVars, checking, crashed>>
  BY DEF WriterStep, CreateContent, WriteUnit, LandUnit, Flush, EndOfOutput, WriteFails
<1>8. /\ Paths' /\ stored' \subseteq stored \cup {w}
      /\ path' \in [Records -> Records] /\ holds' \in [Records -> Records]
  <2>1. CASE CreateContent
    BY <1>3, <2>1, CreateKeepsPaths DEF CreateContent, RecordsTypeOK
  <2>2. CASE WriteUnit \/ LandUnit \/ Flush \/ EndOfOutput \/ WriteFails
    <3>1. /\ UNCHANGED fileSystem /\ Begun' = Begun
          /\ writer'.record = writer.record
      BY <1>3, <1>4, <2>2 DEF WriteUnit, LandUnit, Flush, Flushed, EndOfOutput, WriteFails, RecordsTypeOK,
                              Begun, fileVars
    <3> QED
      BY <1>1, <1>3, <3>1, PathsStay DEF RecordsInv, RecordsTypeOK, fileSystem
  <2> QED
    BY <2>1, <2>2 DEF WriterStep
<1>5. \A r \in Records : content[r] \in Nat /\ content[r] <= content[r]
  BY <1>3 DEF RecordsTypeOK
<1> HIDE DEF w
<1>6. CASE CreateContent \/ WriteUnit \/ WriteFails
  <2>1. UNCHANGED <<content, flushed>> /\ writer'.record = w
    BY <1>3, <1>6 DEF CreateContent, WriteUnit, WriteFails, RecordsTypeOK, w
  <2>2. RecordsTypeOK'
    <3>1. writer' \in [record : Records \union {None}, phase : {"create", "copy", "ended"},
                       held : Nat, idle : BOOLEAN]
      <4>1. CASE CreateContent
        BY <1>3, <4>1 DEF CreateContent, RecordsTypeOK
      <4>2. CASE WriteUnit
        <5>1. writer.held + 1 \in Nat
          BY <1>2
        <5> QED
          BY <1>3, <4>2, <5>1 DEF WriteUnit, RecordsTypeOK
      <4>3. CASE WriteFails
        BY <1>3, <4>3 DEF WriteFails, RecordsTypeOK
      <4> QED
        BY <1>6, <4>1, <4>2, <4>3
    <3>2. /\ news' \subseteq news \cup {w}
          /\ UNCHANGED <<content, flushed>>
      BY <1>6 DEF CreateContent, WriteUnit, WriteFails, Notify, w
    <3> QED
      BY <1>2, <1>3, <1>4, <1>8, <3>1, <3>2 DEF RecordsTypeOK, fileVars, sumVars, managerVars
  <2>3. Buffers'
    <3>1. CASE CreateContent
      BY <1>3, <3>1 DEF CreateContent, RecordsInv, Buffers, RecordsTypeOK, Writes
    <3>2. CASE WriteUnit
      <4>1. /\ writer' = [writer EXCEPT !.held = @ + 1, !.idle = FALSE] /\ content' = content
            /\ content[w] + writer.held < MaxUnits
        BY <3>2 DEF WriteUnit, w
      <4>2. ~writer'.idle /\ writer'.held = writer.held + 1 /\ writer'.record = w
        BY <1>3, <4>1 DEF RecordsTypeOK, w
      <4>3. ASSUME NEW r \in Records
            PROVE  content'[r] + (IF Writes(r)' THEN writer'.held ELSE 0) <= MaxUnits
        <5>1. CASE r = w
          BY <1>2, <1>5, <4>1, <4>2, <5>1, RecordsAssumption
        <5>2. CASE r # w
          BY <4>1, <4>2, <5>2 DEF RecordsInv, Buffers, Writes, w
        <5> QED
          BY <5>1, <5>2
      <4> QED
        BY <4>2, <4>3 DEF Buffers
    <3>3. CASE WriteFails
      <4>1. writer'.phase = "ended" /\ content' = content /\ ~writer'.idle
        BY <1>3, <3>3 DEF WriteFails, RecordsTypeOK
      <4>2. ASSUME NEW r \in Records PROVE content[r] + 0 <= MaxUnits
        <5>1. CASE Writes(r)
          BY <1>2, <1>5, <5>1, RecordsAssumption DEF Writes, w
        <5>2. CASE ~Writes(r)
          BY <5>2 DEF RecordsInv, Buffers
        <5> QED
          BY <5>1, <5>2
      <4> QED
        BY <4>1, <4>2 DEF Buffers, Writes
    <3> QED
      BY <1>6, <3>1, <3>2, <3>3
  <2> QED
    BY <1>1, <1>4, <1>5, <1>8, <2>1, <2>2, <2>3, WriterKeeps DEF w, fileVars, managerVars
<1>7. CASE LandUnit \/ Flush \/ EndOfOutput
  <2>1. PICK n \in Nat : /\ n <= writer.held /\ content' = [content EXCEPT ![w] = @ + n]
                         /\ writer'.held = writer.held - n /\ writer'.record = w
                         /\ writer'.idle => writer'.held = 0
    <3>1. CASE LandUnit
      <4>1. /\ 1 <= writer.held /\ content' = [content EXCEPT ![w] = @ + 1]
            /\ writer' = [writer EXCEPT !.held = @ - 1]
        BY <1>2, <3>1 DEF LandUnit, w
      <4>2. ~writer.idle
        BY <4>1 DEF RecordsInv, Buffers
      <4>3. writer'.held = writer.held - 1 /\ writer'.record = w /\ ~writer'.idle
        BY <1>3, <4>1, <4>2 DEF RecordsTypeOK, w
      <4> QED
        BY <4>1, <4>3
    <3>2. CASE Flush \/ EndOfOutput
      <4>1. /\ content' = [content EXCEPT ![w] = @ + writer.held]
            /\ writer'.held = 0 /\ writer'.record = w
        BY <1>3, <3>2 DEF Flush, Flushed, EndOfOutput, RecordsTypeOK, w
      <4>2. writer'.held = writer.held - writer.held /\ writer.held <= writer.held
        BY <1>2, <4>1
      <4> QED
        BY <1>2, <4>1, <4>2
    <3> QED
      BY <1>7, <3>1, <3>2
  <2>2. /\ content' \in [Records -> Nat] /\ Buffers'
        /\ \A r \in Records \ {w} : content'[r] = content[r]
        /\ \A r \in Records : content[r] <= content'[r]
    BY <1>1, <2>1, ContentGrows DEF w
  <2>3. RecordsTypeOK'
    <3>1. writer' \in [record : Records \union {None}, phase : {"create", "copy", "ended"},
                       held : Nat, idle : BOOLEAN]
      <4>1. CASE LandUnit
        <5>1. writer.held - 1 \in Nat
          BY <1>2, <4>1 DEF LandUnit
        <5> QED
          BY <1>3, <4>1, <5>1 DEF LandUnit, RecordsTypeOK
      <4>2. CASE Flush
        BY <1>3, <4>2 DEF Flush, Flushed, RecordsTypeOK
      <4>3. CASE EndOfOutput
        BY <1>3, <4>3 DEF EndOfOutput, RecordsTypeOK
      <4> QED
        BY <1>7, <4>1, <4>2, <4>3
    <3>2. /\ flushed' \subseteq flushed \cup {w}
          /\ news' \subseteq news \cup {w}
      BY <1>7 DEF LandUnit, Flush, EndOfOutput, Notify, w
    <3> QED
      BY <1>2, <1>3, <1>4, <1>8, <2>2, <3>1, <3>2 DEF RecordsTypeOK, fileVars, sumVars, managerVars
  <2>4. flushed' \subseteq flushed \cup {r \in {w} : writer'.phase = "ended"}
    BY <1>3, <1>7 DEF LandUnit, Flush, EndOfOutput, RecordsTypeOK, w
  <2> QED
    BY <1>1, <1>4, <1>8, <2>1, <2>2, <2>3, <2>4, WriterKeeps DEF w, fileVars, managerVars
<1> QED
  BY <1>6, <1>7 DEF WriterStep

(* What every step preserves of the contents.                               *)
ContentsStay ==
    /\ Sealed \subseteq Sealed'
    /\ \A r \in Sealed : content'[r] = content[r]
    /\ \A r \in Records : content[r] <= content'[r]

LEMMA ContentsSame ==
    ASSUME RecordsInv, content' = content, Begun \subseteq Begun', stored' \subseteq stored,
           writer' = writer \/ writer'.phase = "ended" \/ writer'.record \notin Begun
    PROVE  ContentsStay /\ Sums \subseteq Sums'
<1>1. \A r \in Records : content[r] \in Nat
  BY DEF RecordsInv, RecordsTypeOK
<1>2. writer' = writer => writer'.phase = "ended" \/ (writer.phase # "ended" /\ writer'.record = writer.record)
  OBVIOUS
<1>3. Sealed \subseteq Sealed' /\ Sums \subseteq Sums'
  BY <1>2, SealedStays DEF RecordsInv
<1> QED
  BY <1>1, <1>3 DEF ContentsStay, Sealed

LEMMA NoneIsNoRecord == None \notin Records
BY RecordsAssumption, FS_CardinalityType DEF None

(* The next record is begun; it may get the path of an earlier one.         *)
LEMMA StartKeepsPaths ==
    ASSUME RecordsInv, NEW r \in Records, StartRecording(r)
    PROVE  /\ Paths' /\ path' \in [Records -> Records]
           /\ \A s \in Records : Alone(s)' => Alone(s)
<1>1. /\ r \notin Begun /\ \A s \in Records : s < r => s \in Begun
      /\ UNCHANGED <<stored, holds, removed, crashed>> /\ writer'.record = r
  BY DEF StartRecording, Begun
<1>2. PICK p \in {r} \union {path[s] : s \in {t \in Records : t < r}} :
          path' = [path EXCEPT ![r] = p]
  BY DEF StartRecording
<1>3. path \in [Records -> Records] /\ stored \subseteq Records /\ Records \subseteq Nat /\ Paths
  BY RecordsAssumption, FS_CardinalityType DEF RecordsInv, RecordsTypeOK
<1>4. p \in Records /\ p <= r
  BY <1>2, <1>3 DEF Paths
<1>5. Begun' = Begun \cup {r}
  <2>1. \/ DOMAIN file' = DOMAIN file \cup {r} /\ unsaved' = unsaved
        \/ file' = file /\ unsaved' = unsaved \cup {r}
    BY SaveForm DEF StartRecording
  <2> QED
    BY <1>1, <2>1 DEF Begun
<1>6. \A s \in Records : path'[s] = IF s = r THEN p ELSE path[s]
  BY <1>2, <1>3
<1>7. \A s \in Records : path'[s] <= s /\ (s \notin Begun' => path'[s] = s)
  BY <1>3, <1>4, <1>5, <1>6 DEF Paths
<1>8. \A t, s \in Records : s \in Begun' /\ t < s => t \in Begun'
  BY <1>1, <1>3, <1>5 DEF Paths
<1>9. \A s \in Records : s \in Begun' => s <= r
  <2> SUFFICES ASSUME NEW s \in Records, s \in Begun PROVE s <= r
    BY <1>3, <1>5
  <2>1. ~(r < s)
    BY <1>1, <1>3 DEF Paths
  <2> QED
    BY <1>3, <2>1
<1>10. ASSUME NEW s \in Records, Alone(s)'
       PROVE  holds'[s] = s /\ Alone(s)
  <2>1. path[r] = r
    BY <1>1, <1>3 DEF Paths
  <2>2. ASSUME NEW t \in Records \ {s} PROVE path[t] # path[s]
    <3>1. path'[t] # path'[s]
      BY <1>10 DEF Alone
    <3>2. CASE t # r /\ s # r
      BY <1>6, <3>1, <3>2
    <3>3. \A u \in Records : u # r => path[u] # r
      <4> SUFFICES ASSUME NEW u \in Records, u # r PROVE path[u] # r
        OBVIOUS
      <4>1. CASE u \in Begun
        <5>1. u <= r /\ path[u] <= u /\ path[u] \in Nat /\ u \in Nat /\ r \in Nat
          BY <1>3, <1>5, <1>9, <4>1 DEF Paths
        <5> QED
          BY <5>1
      <4>2. CASE u \notin Begun
        BY <1>3, <4>2 DEF Paths
      <4> QED
        BY <4>1, <4>2
    <3> QED
      BY <2>1, <3>2, <3>3
  <2> QED
    BY <1>1, <1>3, <2>2 DEF Alone, Paths
<1>11. stored' \subseteq Begun' /\ \A s, t \in stored' : path'[s] = path'[t] => s = t
  BY <1>1, <1>3, <1>5, <1>6 DEF Paths
<1>12. path' \in [Records -> Records]
  BY <1>2, <1>3, <1>4
<1> QED
  BY <1>1, <1>5, <1>7, <1>8, <1>9, <1>10, <1>11, <1>12 DEF Paths

LEMMA StartKeeps ==
    ASSUME RecordsInv, NEW r \in Records, StartRecording(r)
    PROVE  RecordsInv' /\ ContentsStay
<1> DEFINE record == Record("Recording", NoSum)
<1>1. /\ recorder = None /\ r \notin Begun /\ recorder' = r /\ booked' = TRUE /\ updating = "no"
      /\ writer' = [record |-> r, phase |-> "create", held |-> 0, idle |-> FALSE]
      /\ UNCHANGED <<updating, content, stored, holds, flushed, news, removed, asked, sum, mail, checking, crashed>>
  BY DEF StartRecording, Serving, Begun, sumVars
<1>2. \/ /\ DOMAIN file' = DOMAIN file \cup {r} /\ file'[r] = record
         /\ \A s \in DOMAIN file \ {r} : file'[s] = file[s]
         /\ unsaved' = unsaved
      \/ file' = file /\ unsaved' = unsaved \cup {r}
  BY SaveForm DEF StartRecording
<1>3. record.status = "Recording" /\ record.sha256 = NoSum
      /\ record \in [status : {"Recording", "Finished", "Failed", "Canceled"}, sha256 : Int]
  BY DEF Record, NoSum
<1> HIDE DEF record
<1>4. RecordsTypeOK /\ r \notin DOMAIN file /\ writer.phase = "ended"
  BY <1>1 DEF RecordsInv, BeingMade, Begun
<1>5. Begun \subseteq Begun'
  BY <1>1, <1>2 DEF Begun
<1>6. ContentsStay /\ Sums \subseteq Sums'
  BY <1>1, <1>5, ContentsSame
<1>7. RecordsTypeOK'
  BY <1>1, <1>2, <1>3, <1>4, StartKeepsPaths DEF RecordsTypeOK
<1>8. BeingMade'
  <2>1. r \notin removed' \cup crashed'
    BY <1>1 DEF Begun
  <2>2. IF r \in DOMAIN file' THEN file'[r].status = "Recording" ELSE r \in unsaved'
    BY <1>2, <1>3, <1>4
  <2>3. recorder' # None /\ writer'.record = r
    BY <1>1, NoneIsNoRecord
  <2> QED
    BY <1>1, <2>1, <2>2, <2>3 DEF BeingMade
<1>9. Buffers'
  <2>1. \A s \in Records : content[s] \in Nat /\ content[s] + 0 <= MaxUnits
    BY <1>4 DEF RecordsInv, Buffers, Writes, RecordsTypeOK
  <2> QED
    BY <1>1, <2>1 DEF Buffers, Writes
<1>10. \A s \in DOMAIN file' : (s = r /\ file'[s] = record) \/ (s \in DOMAIN file \ {r} /\ file'[s] = file[s])
  BY <1>2, <1>4
<1>11. SumsAreTrue'
  <2>1. asked \in Seq(Sealed') /\ checking \subseteq Sealed' /\ sum \in Seq(Sums') /\ mail \in Seq(Sums')
    BY <1>6, MessagesStay DEF RecordsInv, ContentsStay
  <2> QED
    BY <1>1, <1>3, <1>6, <1>10, <2>1 DEF RecordsInv, SumsAreTrue, ContentsStay
<1>12. flushed' \subseteq Sealed' /\ DOMAIN file' \cap removed' = {}
  BY <1>1, <1>6, <1>10 DEF RecordsInv, ContentsStay, Begun
<1>13. RecordingRecordsHaveRecorders'
  <2> SUFFICES ASSUME NEW s \in DOMAIN file', s \notin unsaved' \cup crashed'
               PROVE  file'[s].status = "Recording" <=> recorder' = s
    BY DEF RecordingRecordsHaveRecorders
  <2>1. s \notin unsaved \cup crashed
    BY <1>1, <1>2
  <2>2. s # None
    BY <1>7, NoneIsNoRecord DEF RecordsTypeOK
  <2> QED
    BY <1>1, <1>3, <1>10, <2>1, <2>2 DEF RecordsInv, RecordingRecordsHaveRecorders
<1> QED
  BY <1>6, <1>7, <1>8, <1>9, <1>11, <1>12, <1>13, StartKeepsPaths DEF RecordsInv

(* A record that is saved keeps its name; what was known of the others      *)
(* stays.                                                                   *)
LEMMA SaveKeeps ==
    ASSUME RecordsInv, NEW r \in Records \ removed, NEW record, Save(r, record),
           record \in [status : {"Recording", "Finished", "Failed", "Canceled"}, sha256 : Int],
           record.sha256 # NoSum => r \in Sealed /\ (r \in stored => record.sha256 = content[r]),
           r \in DOMAIN file \/ (r \in unsaved /\ recorder = r),
           \/ UNCHANGED <<recorder, updating>>
           \/ recorder' = None /\ updating' = "no" /\ recorder = r /\ writer.phase = "ended",
           \/ recorder' = recorder /\ (r \in DOMAIN file => record.status = file[r].status)
              /\ (r \notin DOMAIN file => record.status = "Recording")
           \/ recorder' = None /\ (record.status # "Recording" \/ r \in unsaved),
           UNCHANGED <<contentVars, removed, crashed>>,
           booked' \in BOOLEAN,
           asked' \in Seq(Sealed), checking' \subseteq Sealed, sum' \in Seq(Sums), mail' \in Seq(Sums)
    PROVE  RecordsInv' /\ ContentsStay
<1> USE DEF contentVars, fileSystem
<1>1. \/ /\ DOMAIN file' = DOMAIN file \cup {r} /\ file'[r] = record
         /\ \A s \in DOMAIN file \ {r} : file'[s] = file[s]
         /\ unsaved' = unsaved
      \/ file' = file /\ unsaved' = unsaved \cup {r}
  BY SaveForm
<1>2. Begun' = Begun
  BY <1>1 DEF Begun
<1>3. ContentsStay /\ Sums \subseteq Sums'
  BY <1>2, ContentsSame
<1>4. RecordsTypeOK /\ BeingMade
  BY DEF RecordsInv
<1>5. /\ asked' \in Seq(Sealed') /\ sum' \in Seq(Sums') /\ mail' \in Seq(Sums')
      /\ checking' \subseteq Sealed'
  BY <1>3, SeqMonotonic DEF ContentsStay
<1>6. /\ asked' \in Seq(Records) /\ sum' \in Seq([record : Records, sha256 : Nat])
      /\ mail' \in Seq([record : Records, sha256 : Nat]) /\ checking' \subseteq Records
  <2>1. Sealed \subseteq Records /\ Sums \subseteq [record : Records, sha256 : Nat]
    BY DEF Sealed, Sums
  <2> QED
    BY <2>1, SeqMonotonic
<1>7. \A s \in DOMAIN file' : (s = r /\ file'[s] = record) \/ (s \in DOMAIN file /\ file'[s] = file[s])
  BY <1>1
<1>8. RecordsTypeOK'
  BY <1>4, <1>6, <1>7 DEF RecordsTypeOK
<1>9. BeingMade'
  <2>1. CASE recorder' = None
    BY <1>4, <2>1 DEF BeingMade
  <2>2. CASE recorder' # None
    <3>1. recorder' = recorder
      BY <2>2
    <3> QED
      BY <1>1, <1>4, <2>2, <3>1 DEF BeingMade
  <2> QED
    BY <2>1, <2>2
<1>10. Buffers' /\ Paths'
  <2>1. Paths'
    BY <1>2, PathsStay DEF RecordsInv
  <2> QED
    BY <2>1 DEF RecordsInv, Buffers, Writes
<1>11. SumsAreTrue'
  BY <1>3, <1>5, <1>7 DEF RecordsInv, SumsAreTrue, ContentsStay
<1>12. flushed' \subseteq Sealed' /\ DOMAIN file' \cap removed' = {}
  BY <1>3, <1>7 DEF RecordsInv, ContentsStay
<1>13. RecordingRecordsHaveRecorders'
  <2> SUFFICES ASSUME NEW s \in DOMAIN file', s \notin unsaved' \cup crashed'
               PROVE  file'[s].status = "Recording" <=> recorder' = s
    BY DEF RecordingRecordsHaveRecorders
  <2>1. s \notin unsaved \cup crashed
    BY <1>1
  <2>2. s # None
    BY <1>8, NoneIsNoRecord DEF RecordsTypeOK
  <2>3. CASE s = r /\ file'[s] = record
    <3>1. r \in DOMAIN file
      BY <2>1, <2>3
    <3> QED
      BY <2>1, <2>2, <2>3, <3>1 DEF RecordsInv, RecordingRecordsHaveRecorders
  <2>4. CASE s \in DOMAIN file /\ file'[s] = file[s]
    <3>1. file[s].status = "Recording" <=> recorder = s
      BY <2>1, <2>4 DEF RecordsInv, RecordingRecordsHaveRecorders
    <3>2. CASE recorder' = recorder
      BY <2>4, <3>1, <3>2
    <3>3. CASE recorder' # recorder /\ s # r
      BY <2>2, <2>4, <3>1, <3>3
    <3>4. CASE recorder' # recorder /\ s = r
      BY <1>1, <2>1, <2>2, <2>4, <3>4
    <3> QED
      BY <3>2, <3>3, <3>4
  <2> QED
    BY <1>7, <2>3, <2>4
<1> QED
  BY <1>3, <1>8, <1>9, <1>10, <1>11, <1>12, <1>13 DEF RecordsInv

(* Messages come and go.                                                    *)
LEMMA MessageKeeps ==
    ASSUME RecordsInv, UNCHANGED <<contentVars, fileVars, crashed>>, booked' \in BOOLEAN,
           updating' \in {"no", "Finished", "Failed"},
           updating' # "no" => recorder' # None /\ writer.phase = "ended",
           recorder' = recorder \/
               (recorder' = None /\ writer.phase = "ended" /\ recorder \notin DOMAIN file),
           asked' \in Seq(Sealed), checking' \subseteq Sealed, sum' \in Seq(Sums), mail' \in Seq(Sums)
    PROVE  RecordsInv' /\ ContentsStay
<1> USE DEF contentVars, fileSystem, fileVars
<1>1. Begun' = Begun
  BY DEF Begun
<1>2. ContentsStay /\ Sums \subseteq Sums'
  BY <1>1, ContentsSame
<1>3. Sealed \subseteq Records /\ Sums \subseteq [record : Records, sha256 : Nat]
  BY DEF Sealed, Sums
<1>4. /\ asked' \in Seq(Sealed') /\ sum' \in Seq(Sums') /\ mail' \in Seq(Sums')
      /\ checking' \subseteq Sealed'
  BY <1>2, SeqMonotonic DEF ContentsStay
<1>5. RecordsTypeOK'
  <2>1. asked' \in Seq(Records)
    BY <1>3, SeqMonotonic
  <2>2. /\ sum' \in Seq([record : Records, sha256 : Nat])
        /\ mail' \in Seq([record : Records, sha256 : Nat])
    BY <1>3, SeqMonotonic
  <2> QED
    BY <1>3, <2>1, <2>2 DEF RecordsInv, RecordsTypeOK
<1>6. BeingMade' /\ Buffers' /\ Paths'
  <2>1. Paths'
    BY <1>1, PathsStay DEF RecordsInv
  <2> QED
    BY <2>1 DEF RecordsInv, BeingMade, Buffers, Writes
<1>7. SumsAreTrue'
  BY <1>2, <1>4 DEF RecordsInv, SumsAreTrue, ContentsStay
<1>8. flushed' \subseteq Sealed' /\ DOMAIN file' \cap removed' = {}
  BY <1>2 DEF RecordsInv, ContentsStay
<1>9. RecordingRecordsHaveRecorders'
  BY NoneIsNoRecord DEF RecordsInv, RecordsTypeOK, RecordingRecordsHaveRecorders
<1> QED
  BY <1>2, <1>5, <1>6, <1>7, <1>8, <1>9 DEF RecordsInv

LEMMA StoppingKeeps ==
    ASSUME RecordsInv, NEW status \in {"Finished", "Failed"}, RecordingStopped(status)
    PROVE  RecordsInv' /\ ContentsStay
<1>1. /\ recorder # None /\ writer.phase = "ended" /\ updating' = status
      /\ UNCHANGED <<recorder, booked, contentVars, fileVars, sumVars, checking, crashed>>
  BY DEF RecordingStopped
<1>2. RecordsTypeOK /\ SumsAreTrue
  BY DEF RecordsInv
<1>3. /\ booked' \in BOOLEAN /\ asked' \in Seq(Sealed) /\ checking' \subseteq Sealed
      /\ sum' \in Seq(Sums) /\ mail' \in Seq(Sums)
  BY <1>1, <1>2 DEF RecordsTypeOK, SumsAreTrue, sumVars
<1> QED
  BY <1>1, <1>3, MessageKeeps

LEMMA StoppedKeeps ==
    ASSUME RecordsInv, RecorderRemoved
    PROVE  RecordsInv' /\ ContentsStay
<1> DEFINE r == recorder
<1> DEFINE status == updating
<1>1. /\ r # None /\ writer.phase = "ended" /\ UpdateRecord(r, status) /\ recorder' = None
      /\ updating' = "no" /\ status \in {"Finished", "Failed"}
      /\ UNCHANGED <<booked, contentVars, sum, mail, checking, crashed>>
  BY DEF RecorderRemoved, RecordsInv, RecordsTypeOK, BeingMade
<1>2. RecordsTypeOK /\ BeingMade /\ SumsAreTrue
  BY DEF RecordsInv
<1>3. /\ r \in Records \ removed
      /\ r \in DOMAIN file => file[r].status = "Recording"
      /\ r \notin DOMAIN file => r \in unsaved
  BY <1>1, <1>2 DEF RecordsTypeOK, BeingMade
<1>4. r \in Sealed
  BY <1>1, <1>3 DEF Sealed, Begun, Writes
<1> HIDE DEF r, status
<1>5. CASE r \notin DOMAIN file /\ ~booked
  <2>1. UNCHANGED <<fileVars, asked>>
    BY <1>1, <1>5 DEF UpdateRecord
  <2> QED
    BY <1>1, <1>2, <1>5, <2>1, MessageKeeps DEF RecordsTypeOK, SumsAreTrue, r
<1>6. CASE r \in DOMAIN file \/ booked
  <2> DEFINE record == Updated(r, status)
  <2>1. /\ asked' = asked \/ asked' = Append(asked, r)
        /\ Save(r, record) /\ removed' = removed
    BY <1>1, <1>6 DEF UpdateRecord, CalculateSha256
  <2>2. asked' \in Seq(Sealed)
    BY <1>2, <1>4, <2>1 DEF SumsAreTrue
  <2>3. CASE r \in DOMAIN file
    <3>1. record = [file[r] EXCEPT !.status = IF booked THEN status ELSE "Canceled"]
      BY <2>3 DEF Updated
    <3>2. /\ record \in [status : {"Recording", "Finished", "Failed", "Canceled"}, sha256 : Int]
          /\ record.sha256 = file[r].sha256 /\ record.status # "Recording"
      BY <1>1, <1>2, <2>3, <3>1 DEF RecordsTypeOK
    <3> HIDE DEF record
    <3>3. record.sha256 # NoSum => r \in Sealed /\ (r \in stored => record.sha256 = content[r])
      BY <1>2, <2>3, <3>2 DEF SumsAreTrue
    <3> QED
      BY <1>1, <1>2, <1>3, <2>1, <2>2, <2>3, <3>2, <3>3, SaveKeeps DEF RecordsTypeOK, SumsAreTrue, r
  <2>4. CASE r \notin DOMAIN file
    <3>1. record = Record("Recording", NoSum)
      BY <2>4 DEF Updated
    <3>2. /\ record \in [status : {"Recording", "Finished", "Failed", "Canceled"}, sha256 : Int]
          /\ record.sha256 = NoSum
      BY <3>1 DEF Record, NoSum
    <3> HIDE DEF record
    <3> QED
      BY <1>1, <1>2, <1>3, <2>1, <2>2, <2>4, <3>2, SaveKeeps DEF RecordsTypeOK, SumsAreTrue, r
  <2> QED
    BY <2>3, <2>4
<1> QED
  BY <1>5, <1>6

LEMMA CalculatedKeeps ==
    ASSUME RecordsInv, ContentSha256Calculated
    PROVE  RecordsInv' /\ ContentsStay
<1> DEFINE r == Head(mail).record
<1>1. /\ mail # <<>> /\ mail' = Tail(mail)
      /\ UNCHANGED <<recorder, booked, updating, contentVars, removed, asked, sum, checking, crashed>>
  BY DEF ContentSha256Calculated, managerVars
<1>2. RecordsTypeOK /\ SumsAreTrue /\ BeingMade
  BY DEF RecordsInv
<1>3. Head(mail) \in Sums /\ mail' \in Seq(Sums)
  BY <1>1, <1>2, HeadTailProperties DEF SumsAreTrue
<1>4. r \in Sealed /\ (r \in stored => Head(mail).sha256 = content[r]) /\ Head(mail).sha256 \in Nat
  BY <1>3 DEF Sums
<1>5. CASE r \in DOMAIN file
  <2> DEFINE record == [file[r] EXCEPT !.sha256 = Head(mail).sha256]
  <2>1. Save(r, record)
    BY <1>5 DEF ContentSha256Calculated
  <2>2. /\ record \in [status : {"Recording", "Finished", "Failed", "Canceled"}, sha256 : Int]
        /\ record.sha256 = Head(mail).sha256 /\ record.status = file[r].status
    <3> DEFINE h == Head(mail).sha256
    <3>1. file[r] \in [status : {"Recording", "Finished", "Failed", "Canceled"}, sha256 : Int]
      BY <1>2, <1>5 DEF RecordsTypeOK
    <3>2. h \in Int
      BY <1>4
    <3>3. record = [file[r] EXCEPT !.sha256 = h]
      OBVIOUS
    <3> HIDE DEF record, r
    <3> SUFFICES /\ record \in [status : {"Recording", "Finished", "Failed", "Canceled"}, sha256 : Int]
                 /\ record.sha256 = h /\ record.status = file[r].status
      OBVIOUS
    <3> HIDE DEF h
    <3> QED
      BY <3>1, <3>2, <3>3
  <2> HIDE DEF record, r
  <2>3. r \in Records \ removed
    BY <1>2, <1>5 DEF RecordsInv, RecordsTypeOK
  <2> QED
    BY <1>1, <1>2, <1>3, <1>4, <1>5, <2>1, <2>2, <2>3, SaveKeeps DEF RecordsTypeOK, SumsAreTrue
<1>6. CASE r \notin DOMAIN file
  <2>1. UNCHANGED fileVars
    BY <1>1, <1>6 DEF ContentSha256Calculated, fileVars
  <2> QED
    BY <1>1, <1>2, <1>3, <2>1, MessageKeeps DEF RecordsTypeOK, SumsAreTrue, BeingMade
<1> QED
  BY <1>5, <1>6

LEMMA CalculatorKeeps ==
    ASSUME RecordsInv, CalculatorStep \/ RemoveSchedule \/ \E r \in Records : CheckRecord(r)
    PROVE  RecordsInv' /\ ContentsStay
<1>1. RecordsTypeOK /\ SumsAreTrue /\ BeingMade
  BY DEF RecordsInv
<1>2. UNCHANGED <<recorder, updating, contentVars, fileVars, crashed>> /\ booked' \in BOOLEAN
  BY <1>1 DEF managerVars, CalculatorStep, Calculate, EmitSha256, RemoveSchedule, CheckRecord, RecordsTypeOK, sumVars
<1>3. /\ asked' \in Seq(Sealed) /\ checking' \subseteq Sealed
      /\ sum' \in Seq(Sums) /\ mail' \in Seq(Sums)
  <2>1. CASE Calculate
    <3>1. Head(asked) \in Sealed /\ Tail(asked) \in Seq(Sealed)
      BY <1>1, <2>1, HeadTailProperties DEF Calculate, SumsAreTrue
    <3>2. ASSUME HasFile(Head(asked))
          PROVE  [record |-> Head(asked), sha256 |-> content[FileOf(Head(asked))]] \in Sums
      <4>1. FileOf(Head(asked)) \in stored /\ path[FileOf(Head(asked))] = path[Head(asked)]
        BY <3>2 DEF HasFile, FileOf
      <4>2. Head(asked) \in stored => FileOf(Head(asked)) = Head(asked)
        BY <4>1 DEF RecordsInv, Paths
      <4> QED
        BY <1>1, <3>1, <4>1, <4>2 DEF Sealed, Sums, RecordsTypeOK
    <3> QED
      BY <1>1, <2>1, <3>1, <3>2 DEF Calculate, SumsAreTrue
  <2>2. CASE EmitSha256
    <3>1. mail \o sum \in Seq(Sums) /\ <<>> \in Seq(Sums)
      BY <1>1, ConcatProperties DEF SumsAreTrue
    <3> QED
      BY <1>1, <2>2, <3>1 DEF EmitSha256, SumsAreTrue
  <2>3. CASE RemoveSchedule
    BY <1>1, <2>3 DEF RemoveSchedule, SumsAreTrue, sumVars
  <2>4. ASSUME NEW r \in Records, CheckRecord(r)
        PROVE  /\ asked' \in Seq(Sealed) /\ checking' \subseteq Sealed
               /\ sum' \in Seq(Sums) /\ mail' \in Seq(Sums)
    <3>1. r \in Sealed /\ (asked' = asked \/ asked' = Append(asked, r))
      BY <1>1, <2>4 DEF CheckRecord, CalculateSha256, SumsAreTrue
    <3>2. asked' \in Seq(Sealed)
      BY <1>1, <3>1, AppendProperties DEF SumsAreTrue
    <3>3. checking' \subseteq Sealed /\ sum' = sum /\ mail' = mail
      BY <1>1, <2>4 DEF CheckRecord, SumsAreTrue
    <3> QED
      BY <1>1, <3>2, <3>3 DEF SumsAreTrue
  <2> QED
    BY <2>1, <2>2, <2>3, <2>4 DEF CalculatorStep
<1> QED
  BY <1>1, <1>2, <1>3, MessageKeeps DEF RecordsTypeOK, BeingMade

LEMMA RemoveRecordKeeps ==
    ASSUME RecordsInv, NEW r \in Records, NEW purge \in BOOLEAN, RemoveRecord(r, purge)
    PROVE  RecordsInv' /\ ContentsStay
<1>1. /\ r \in DOMAIN file /\ file[r].status # "Recording"
      /\ DOMAIN file' = DOMAIN file \ {r} /\ \A s \in DOMAIN file' : file'[s] = file[s]
      /\ removed' = removed \cup {r} /\ stored' \subseteq stored
      /\ UNCHANGED <<recorder, booked, updating, writer, content, path, holds, flushed, news, unsaved,
                     asked, sum, mail, checking, crashed>>
  BY DEF RemoveRecord, sumVars, managerVars
<1>2. RecordsTypeOK /\ BeingMade /\ SumsAreTrue
  BY DEF RecordsInv
<1>3. Begun' = Begun
  BY <1>1 DEF Begun
<1>4. ContentsStay /\ Sums \subseteq Sums'
  BY <1>1, <1>3, ContentsSame
<1>5. RecordsTypeOK'
  BY <1>1, <1>2 DEF RecordsTypeOK
<1>6. BeingMade' /\ Buffers' /\ Paths'
  <2>1. Paths'
    BY <1>1, <1>3, PathsStay DEF RecordsInv
  <2> QED
    BY <1>1, <1>2, <2>1 DEF RecordsInv, BeingMade, Buffers, Writes
<1>7. SumsAreTrue'
  <2>1. asked \in Seq(Sealed') /\ checking \subseteq Sealed' /\ sum \in Seq(Sums') /\ mail \in Seq(Sums')
    BY <1>2, <1>4, MessagesStay DEF ContentsStay
  <2> QED
    BY <1>1, <1>2, <1>4, <2>1 DEF SumsAreTrue, ContentsStay
<1>8. flushed' \subseteq Sealed' /\ DOMAIN file' \cap removed' = {}
  BY <1>1, <1>4 DEF RecordsInv, ContentsStay
<1>9. RecordingRecordsHaveRecorders'
  BY <1>1 DEF RecordsInv, RecordingRecordsHaveRecorders
<1> QED
  BY <1>4, <1>5, <1>6, <1>7, <1>8, <1>9 DEF RecordsInv

LEMMA NoWriterType ==
    NoWriter \in [record : Records \union {None}, phase : {"create", "copy", "ended"},
                  held : Nat, idle : BOOLEAN]
<1>1. None \in Records \union {None} /\ FALSE \in BOOLEAN /\ 0 \in Nat
  OBVIOUS
<1> QED
  BY <1>1 DEF NoWriter

LEMMA NoMessages ==
    /\ <<>> \in Seq(Records) /\ <<>> \in Seq([record : Records, sha256 : Nat])
    /\ DOMAIN <<>> = {}
OBVIOUS

LEMMA CrashKeeps == ASSUME RecordsInv, Crash PROVE RecordsInv' /\ ContentsStay
<1>1. /\ crashed' = crashed \cup ({recorder} \ {None}) /\ recorder' = None /\ booked' = FALSE /\ updating' = "no"
      /\ writer' = NoWriter /\ asked' = <<>> /\ sum' = <<>> /\ mail' = <<>>
      /\ checking' = DOMAIN file
      /\ UNCHANGED <<content, path, stored, holds, flushed, news, file, removed, unsaved>>
  BY DEF Crash, fileVars, fileSystem
<1>2. RecordsTypeOK /\ BeingMade /\ SumsAreTrue
  BY DEF RecordsInv
<1>3. Begun' = Begun
  BY <1>1, <1>2 DEF Begun, BeingMade
<1>4. writer'.phase = "ended" /\ ~writer'.idle /\ \A r \in Records : ~Writes(r)'
  BY <1>1 DEF NoWriter, Writes
<1>5. ContentsStay /\ Sums \subseteq Sums'
  BY <1>1, <1>3, <1>4, ContentsSame
<1>6. RecordsTypeOK'
  BY <1>1, <1>2, NoWriterType, NoMessages DEF RecordsTypeOK
<1>7. BeingMade'
  BY <1>1, <1>4 DEF BeingMade
<1>8. Buffers'
  <2>1. ASSUME NEW r \in Records PROVE content[r] + 0 <= MaxUnits
    <3>1. CASE Writes(r)
      <4>1. writer.phase # "ended" /\ writer.record = r
        BY <3>1 DEF Writes
      <4>2. content[r] \in Nat /\ writer.held \in Nat /\ content[r] + writer.held <= MaxUnits
        BY <4>1, BufferBounds
      <4> QED
        BY <4>2, RecordsAssumption
    <3>2. CASE ~Writes(r)
      BY <3>2 DEF RecordsInv, Buffers
    <3> QED
      BY <3>1, <3>2
  <2> QED
    BY <1>1, <1>4, <2>1 DEF Buffers
<1>9. SumsAreTrue'
  <2>1. DOMAIN file \subseteq Sealed'
    BY <1>1, <1>2, <1>4 DEF Sealed, Begun, RecordsTypeOK
  <2> QED
    BY <1>1, <1>2, <1>5, <2>1 DEF SumsAreTrue, ContentsStay
<1>10. flushed' \subseteq Sealed' /\ DOMAIN file' \cap removed' = {}
  BY <1>1, <1>5 DEF RecordsInv, ContentsStay
<1>11. RecordingRecordsHaveRecorders'
  BY <1>1, <1>6, NoneIsNoRecord DEF RecordsInv, RecordingRecordsHaveRecorders, RecordsTypeOK
<1>12. Paths'
  BY <1>1, <1>3, <1>4, PathsStay DEF RecordsInv
<1> QED
  BY <1>12, <1>5, <1>6, <1>7, <1>8, <1>9, <1>10, <1>11 DEF RecordsInv

LEMMA RecordsStepKeeps == ASSUME RecordsInv, RecordsStep \/ Crash PROVE RecordsInv' /\ ContentsStay
<1>1. CASE WriterStep
  BY <1>1, WriterStepKeeps DEF ContentsStay
<1>2. CASE CalculatorStep
  BY <1>2, CalculatorKeeps
<1>3. CASE ManagerStep
  BY <1>3, StartKeeps, CalculatorKeeps, RemoveRecordKeeps, StoppingKeeps, StoppedKeeps, CalculatedKeeps DEF ManagerStep
<1> QED
  BY <1>1, <1>2, <1>3, CrashKeeps DEF RecordsStep

LEMMA InitRecords == ASSUME RecordsInit PROVE RecordsInv
<1>1. RecordsTypeOK
  BY NoWriterType, NoMessages DEF RecordsInit, RecordsTypeOK
<1>4. BeingMade
  BY DEF RecordsInit, BeingMade, NoWriter
<1>2. Buffers
  BY RecordsAssumption DEF RecordsInit, Buffers, NoWriter, Writes
<1>3. SumsAreTrue
  BY DEF RecordsInit, SumsAreTrue
<1>5. Paths
  <2>1. \A r \in Records : path[r] = r /\ holds[r] = r /\ r <= r
    BY RecordsAssumption, FS_CardinalityType DEF RecordsInit
  <2> QED
    BY <2>1 DEF RecordsInit, Paths, Begun, NoWriter
<1> QED
  BY <1>1, <1>2, <1>3, <1>4, <1>5 DEF RecordsInit, RecordsInv, RecordingRecordsHaveRecorders

-----------------------------------------------------------------------------
(* What a step of the whole system does to the records.                     *)

storeVars == <<managerVars, writer, content, fileSystem, flushed, fileVars, sumVars, checking, crashed>>

LEMMA WebSteps ==
    ASSUME RecordsTypeOK, [Next]_vars
    PROVE  \/ RecordsStep /\ UNCHANGED webVars
           \/ Crash
           \/ UNCHANGED storeVars /\ news' \subseteq Records
<1> USE DEF recordVars, storeVars, managerVars, fileSystem, contentVars, fileVars, sumVars, RecordsTypeOK
<1>1. CASE UNCHANGED vars
  BY <1>1 DEF vars
<1>2. CASE RecordsStep /\ UNCHANGED webVars
  BY <1>2
<1>3. CASE TunerOutput \/ TunerEnds \/ StopStreaming
  BY <1>3 DEF TunerOutput, TunerEnds, StopStreaming
<1>4. CASE HandlerStep \/ CannotFilter \/ CannotSpawn
  BY <1>4 DEF HandlerStep, StartStreaming, QueryRecord, OpenContent, Spawn, CannotFilter, CannotSpawn,
              Refused
<1>5. CASE SourceStep
  BY <1>5 DEF SourceStep, PollLive, ReadFlag, ReadFile, Changed
<1>6. CASE TaskStep
  BY <1>6 DEF TaskStep, FeederBreaks, ReadOutput, EndOfPipeline
<1>7. CASE ProcessStep
  BY <1>7 DEF ProcessStep, FilterUnit, FilterExits
<1>8. CASE \E i \in Filters : FilterDies(i)
  BY <1>8 DEF FilterDies
<1>9. CASE ClientStep \/ NoPacket \/ ClientLeaves
  BY <1>9 DEF ClientStep, Peek, ClientReads, ClientSeesEnd, NoPacket, ClientLeaves
<1>10. CASE Restart
  BY <1>10 DEF Restart
<1> QED
  BY <1>1, <1>2, <1>3, <1>4, <1>5, <1>6, <1>7, <1>8, <1>9, <1>10 DEF Next

LEMMA StoreStays ==
    ASSUME RecordsInv, UNCHANGED storeVars, news' \subseteq Records
    PROVE  RecordsInv' /\ ContentsStay
<1> USE DEF storeVars, managerVars, fileSystem, fileVars, sumVars
<1>1. Begun' = Begun /\ Sealed' = Sealed /\ Sums' = Sums
  BY DEF Begun, Sealed, Sums, Writes
<1>2. RecordsTypeOK' /\ BeingMade' /\ Buffers' /\ Paths'
  BY <1>1 DEF RecordsInv, RecordsTypeOK, BeingMade, Buffers, Writes, Paths, Alone
<1>3. SumsAreTrue'
  BY <1>1 DEF RecordsInv, SumsAreTrue
<1> QED
  BY <1>1, <1>2, <1>3 DEF RecordsInv, ContentsStay, RecordingRecordsHaveRecorders, Sealed, RecordsTypeOK

(* The inductive invariant of the records: the recorder and the files       *)
(* agree, what is written has room, and every checksum, computed, sent or   *)
(* saved, is that of a content nobody writes to any more.                   *)
THEOREM RecordsAreKept == Spec => []RecordsInv
<1>1. Init => RecordsInv
  BY InitRecords DEF Init
<1>2. RecordsInv /\ [Next]_vars => RecordsInv'
  BY WebSteps, RecordsStepKeeps, StoreStays DEF RecordsInv
<1> QED
  BY <1>1, <1>2, PTL DEF Spec

(* A record says that it is being recorded exactly while its recorder       *)
(* exists, unless a file could not be saved or the process died             *)
(* (RecordingManager::handle_recording_stopped and remove_record).          *)
THEOREM RecordingsHaveRecorders == Spec => []RecordingRecordsHaveRecorders
<1>1. RecordsInv => RecordingRecordsHaveRecorders
  BY DEF RecordsInv
<1> QED
  BY <1>1, RecordsAreKept, PTL

(* A checksum in a record whose content is under its path is that of its    *)
(* whole content, whatever other recordings have the same path (File::create *)
(* truncates what is there); and a late result of the Sha256Calculator does *)
(* not bring a removed record back.                                         *)
THEOREM ChecksumsAreTrue == Spec => []ChecksumsAreOfTheContent
<1>1. RecordsInv => ChecksumsAreOfTheContent
  BY DEF RecordsInv, SumsAreTrue, Sealed, ChecksumsAreOfTheContent
<1> QED
  BY <1>1, RecordsAreKept, PTL

-----------------------------------------------------------------------------
(* The reader of a content.  A request has a source once source.end > 0.    *)

LEMMA BegunGrows == ASSUME RecordsInv, [Next]_vars PROVE Begun \subseteq Begun'
<1>1. CASE UNCHANGED storeVars
  BY <1>1 DEF storeVars, Begun, fileVars
<1>2. ASSUME NEW r, NEW record, Save(r, record), removed' = removed, crashed' = crashed
      PROVE  Begun \subseteq Begun'
  BY <1>2, SaveForm DEF Begun
<1>3. CASE UNCHANGED <<fileVars, crashed>>
  BY <1>3 DEF Begun, fileVars
<1>4. CASE WriterStep \/ CalculatorStep \/ RemoveSchedule
  BY <1>3, <1>4 DEF WriterStep, CreateContent, WriteUnit, LandUnit, Flush, EndOfOutput, WriteFails,
                    CalculatorStep, Calculate, EmitSha256, RemoveSchedule
<1>5. ASSUME NEW r \in Records, StartRecording(r)
      PROVE  Begun \subseteq Begun'
  BY <1>2, <1>5 DEF StartRecording
<1>6. ASSUME NEW r \in Records, CheckRecord(r)
      PROVE  Begun \subseteq Begun'
  BY <1>3, <1>6 DEF CheckRecord
<1>7. ASSUME NEW r \in Records, NEW purge \in BOOLEAN, RemoveRecord(r, purge)
      PROVE  Begun \subseteq Begun'
  <2>1. /\ removed' = removed \cup {r} /\ DOMAIN file' = DOMAIN file \ {r}
        /\ unsaved' = unsaved /\ crashed' = crashed
    BY <1>7 DEF RemoveRecord
  <2> QED
    BY <2>1 DEF Begun
<1>8. CASE RecorderRemoved \/ \E status \in {"Finished", "Failed"} : RecordingStopped(status)
  <2>1. crashed' = crashed /\ (UpdateRecord(recorder, updating) \/ UNCHANGED fileVars)
    BY <1>8 DEF RecordingStopped, RecorderRemoved
  <2>2. \/ UNCHANGED fileVars
        \/ Save(recorder, Updated(recorder, updating)) /\ UNCHANGED removed
    BY <2>1 DEF UpdateRecord
  <2> QED
    BY <1>2, <1>3, <2>1, <2>2
<1>9. CASE ContentSha256Calculated
  <2>1. removed' = removed /\ crashed' = crashed
    BY <1>9 DEF ContentSha256Calculated
  <2>2. \/ UNCHANGED fileVars
        \/ \E r, record : Save(r, record)
    BY <1>9, <2>1 DEF ContentSha256Calculated, fileVars
  <2> QED
    BY <1>2, <1>3, <2>1, <2>2
<1>10. CASE Crash
  BY <1>10 DEF Crash, Begun, fileVars
<1> QED
  BY <1>1, <1>4, <1>5, <1>6, <1>7, <1>8, <1>9, <1>10, WebSteps
     DEF RecordsInv, RecordsStep, ManagerStep

(* A record that shares its path goes on to.                                *)
LEMMA AloneWas ==
    ASSUME RecordsInv, [Next]_vars, NEW r \in Records, Alone(r)'
    PROVE  Alone(r)
<1>1. path' = path => Alone(r)
  BY DEF Alone
<1>2. CASE UNCHANGED storeVars \/ Crash
  BY <1>1, <1>2 DEF storeVars, Crash, fileSystem
<1>3. CASE WriterStep \/ CalculatorStep \/ RemoveSchedule \/ ContentSha256Calculated \/ RecorderRemoved
  BY <1>1, <1>3 DEF WriterStep, CreateContent, WriteUnit, LandUnit, Flush, EndOfOutput, WriteFails,
                    CalculatorStep, Calculate, EmitSha256, RemoveSchedule, ContentSha256Calculated,
                    RecorderRemoved, contentVars, fileSystem
<1>4. ASSUME NEW s \in Records, StartRecording(s)
      PROVE  Alone(r)
  BY <1>4, StartKeepsPaths
<1>5. ASSUME NEW s \in Records, CheckRecord(s) \/ (\E purge \in BOOLEAN : RemoveRecord(s, purge))
      PROVE  Alone(r)
  BY <1>1, <1>5 DEF CheckRecord, RemoveRecord, contentVars, fileSystem
<1>6. ASSUME NEW status, RecordingStopped(status)
      PROVE  Alone(r)
  BY <1>1, <1>6 DEF RecordingStopped, contentVars, fileSystem
<1> QED
  BY <1>2, <1>3, <1>4, <1>5, <1>6, WebSteps DEF RecordsInv, RecordsStep, ManagerStep

Opened == phase \in {"peeking", "streaming", "ended"}
Running == phase = "started" \/ Opened
Sources == [file : Records \cup {None}, ranged : BOOLEAN, pos : Nat, end : Nat, follow : BOOLEAN,
            step : {"flag", "read", "wait", "end"}, done : BOOLEAN]
WebTypeOK ==
    /\ req \in Requests
    /\ phase \in {"new", "queried", "started", "peeking", "streaming", "ended", "error", "gone"}
    /\ source \in Sources
    /\ feeder \in {"run", "done"} /\ reader \in {"run", "done"}
    /\ proc \in [Filters -> {"run", "dead"}] /\ pipe \in [1..LastPipe -> Nat]
    /\ queue \in 0..QueueSize /\ sent \in Nat /\ chan \in Nat /\ got \in Nat
    /\ ended \in BOOLEAN /\ damaged \in BOOLEAN /\ closed \in BOOLEAN

(* A whole content that was read to its end, or is read without looking at  *)
(* its progress, is complete.                                               *)
SourceInv ==
    /\ phase = "new" => source.end = 0 /\ length = NoLength
    /\ phase \in {"new", "queried"} => source.step = "flag" /\ ~source.follow
    /\ phase \in {"new", "queried", "started"} => feeder = "done"
    /\ phase = "queried" \/ (~Live /\ (Running \/ feeder = "run")) => source.end > 0
    /\ ~Live /\ (Running \/ feeder = "run") => source.file # None
    /\ source.end = 0 => ~source.ranged /\ source.pos = 0
    /\ source.end > 0 =>
          /\ ~Live /\ TheRecord \in Records \cap Begun
          /\ source.ranged => /\ req.range \in Nat \X Nat /\ source.end = req.range[2] + 1
                              /\ req.range[1] <= source.pos /\ source.pos <= source.end
          /\ ~source.ranged => source.end = MaxUnits
    /\ source.follow => ~source.ranged /\ source.end > 0
    /\ source.step = "read" /\ ~source.done => source.follow
    /\ source.step = "wait" => source.follow
    /\ ~Live /\ Running /\ ~source.ranged =>
          /\ ~source.follow => TheRecord \in Sealed
          /\ source.step = "read" /\ source.done => TheRecord \in Sealed
          /\ source.step = "end" => TheRecord \in Sealed
    /\ length # NoLength =>
          /\ source.end > 0
          /\ source.ranged => length = Bytes(req.range)
          /\ ~source.ranged => TheRecord \in Sealed
(* While no other record has the path, what was read is in the content.     *)
Undisturbed == TheRecord \in Records /\ Alone(TheRecord)
ContentInv ==
    Undisturbed =>
        /\ source.file # None => source.file = TheRecord
        /\ source.end > 0 => /\ source.ranged => source.end <= content[TheRecord]
                             /\ ~source.ranged => source.pos <= content[TheRecord]
        /\ ~Live /\ Running /\ source.step = "end" =>
              source.pos = IF source.ranged THEN source.end ELSE content[TheRecord]
        /\ length # NoLength /\ ~source.ranged => length = content[TheRecord]

(***************************************************************************)
(* The units between the source and the client.  count[i] is the number of  *)
(* units that went into pipe i, count[LastPipe + 1] what came out of the    *)
(* last one.                                                                *)
(***************************************************************************)
Yielded ==
    IF Live THEN sent - queue ELSE source.pos - (IF source.ranged THEN req.range[1] ELSE 0)
Exhausted == IF Live THEN closed /\ queue = 0 ELSE source.step = "end"
Counts(count) ==
    /\ count \in [1..(LastPipe + 1) -> Int]
    /\ count[1] = Yielded /\ count[LastPipe + 1] = chan + got
    /\ \A i \in 1..LastPipe : count[i] = count[i + 1] + pipe[i]
Flow == \E count \in [1..(LastPipe + 1) -> Int] : Counts(count)

(* A process or a task ends only when nothing can come any more.            *)
Drained ==
    /\ \A i \in Filters : proc[i] = "dead" =>
          feeder = "done" /\ \A j \in 1..i : proc[j] = "dead" /\ pipe[j] = 0
    /\ Filtered /\ feeder = "done" => Exhausted
    /\ reader = "done" => pipe[LastPipe] = 0 /\ \A i \in Filters : proc[i] = "dead"
    /\ Filtered /\ ended => reader = "done"
    /\ ~Filtered => pipe[LastPipe] = 0 /\ (ended => Exhausted)
    /\ phase = "ended" => chan = 0 /\ ended
Untouched ==
    /\ feeder = "done" /\ reader = "done" /\ ~ended /\ chan = 0 /\ got = 0
    /\ pipe = [i \in 1..LastPipe |-> 0] /\ proc = [i \in Filters |-> "dead"]
    /\ ~damaged => Yielded = 0
StreamInv ==
    /\ phase \in {"new", "queried", "started"} => Untouched
    /\ Opened /\ ~damaged => Flow /\ Drained

LEMMA RequestTypes ==
    ASSUME WebTypeOK
    PROVE  /\ req.filters \in Nat /\ req.kind \in {"live", "record"} /\ req.seekable \in BOOLEAN
           /\ req.range = <<>> \/ req.range \in Nat \X Nat
           /\ LastPipe \in Nat /\ LastPipe \in 1..LastPipe /\ 1 \in 1..LastPipe
           /\ \A i \in Filters : i \in 1..LastPipe /\ i + 1 \in 1..LastPipe
<1>1. req \in [kind : {"live", "record"}, filters : Nat, seekable : BOOLEAN,
               range : {<<>>} \union (Nat \X Nat)]
  BY RequestsAssumption DEF WebTypeOK
<1> QED
  BY <1>1 DEF Filters, LastPipe

LEMMA HandlerTypes ==
    ASSUME WebTypeOK, RecordsTypeOK,
           HandlerStep \/ CannotFilter \/ CannotSpawn \/ ClientStep \/ NoPacket \/ ClientLeaves \/ Restart
    PROVE  WebTypeOK'
<1> USE DEF WebTypeOK, tunerVars, pipelineVars, clientVars, serverVars, LastPipe, Filters
<1>1. CASE StartStreaming
  BY <1>1 DEF StartStreaming
<1>2. CASE QueryRecord
  <2>1. \/ source' = source
        \/ ComputeContentRange \in Nat \X Nat /\ HasContent
           /\ source' = [source EXCEPT !.ranged = TRUE, !.pos = ComputeContentRange[1],
                                       !.end = ComputeContentRange[2] + 1]
        \/ source' = [source EXCEPT !.ranged = FALSE, !.pos = 0, !.end = MaxUnits]
    BY <1>2, RequestTypes DEF QueryRecord, ComputeContentRange
  <2>2. \A range \in Nat \X Nat : range[1] \in Nat /\ range[2] + 1 \in Nat
    OBVIOUS
  <2>3. MaxUnits \in Nat
    BY RecordsAssumption
  <2>4. source' \in Sources
    <3>1. ASSUME NEW a \in BOOLEAN, NEW p \in Nat, NEW e \in Nat
          PROVE  [source EXCEPT !.ranged = a, !.pos = p, !.end = e] \in Sources
      BY DEF Sources
    <3>2. CASE source' = source
      BY <3>2
    <3>3. CASE source' = [source EXCEPT !.ranged = FALSE, !.pos = 0, !.end = MaxUnits]
      BY <2>3, <3>1, <3>3
    <3>4. ASSUME NEW range \in Nat \X Nat,
                 source' = [source EXCEPT !.ranged = TRUE, !.pos = range[1], !.end = range[2] + 1]
          PROVE  source' \in Sources
      <4>1. range[1] \in Nat /\ range[2] + 1 \in Nat
        BY <2>2
      <4> HIDE DEF WebTypeOK
      <4> QED
        BY <3>1, <3>4, <4>1
    <3> QED
      BY <2>1, <3>2, <3>3, <3>4
  <2> QED
    BY <1>2, <2>4 DEF QueryRecord
<1>3. CASE OpenContent
  <2> DEFINE opened == IF HasContent THEN FileOf(TheRecord) ELSE None
  <2> DEFINE follow == HasContent /\ ~source.ranged /\ recorder = TheRecord
  <2>1. opened \in Records \cup {None} /\ follow \in BOOLEAN
    BY DEF HasContent, HasFile, FileOf, RecordsTypeOK
  <2>2. source' = [source EXCEPT !.file = opened, !.follow = follow]
    BY <1>3 DEF OpenContent
  <2> HIDE DEF opened, follow
  <2>3. source' \in Sources
    BY <2>1, <2>2 DEF Sources
  <2> QED
    BY <1>3, <2>3 DEF OpenContent
<1>4. CASE CannotFilter \/ CannotSpawn
  BY <1>4 DEF CannotFilter, CannotSpawn, Refused, Fail
<1>5. CASE Spawn
  BY <1>5 DEF Spawn, Processes
<1>6. CASE Peek
  BY <1>6 DEF Peek
<1>7. CASE ClientReads
  BY <1>7 DEF ClientReads
<1>8. CASE ClientSeesEnd \/ NoPacket \/ ClientLeaves
  BY <1>8 DEF ClientSeesEnd, NoPacket, ClientLeaves, Fail
<1>9. CASE Restart
  BY <1>9 DEF Restart, NoPipeline
<1> QED
  BY <1>1, <1>2, <1>3, <1>4, <1>5, <1>6, <1>7, <1>8, <1>9 DEF HandlerStep, ClientStep

LEMMA YieldTypes ==
    ASSUME WebTypeOK, UNCHANGED <<req, proc, reader>>,
           \/ Yield
           \/ EndOfSource
           \/ UNCHANGED <<feeder, pipe, chan, ended>>
    PROVE  /\ feeder' \in {"run", "done"} /\ pipe' \in [1..LastPipe -> Nat]
           /\ chan' \in Nat /\ ended' \in BOOLEAN
<1> USE DEF WebTypeOK
<1>1. [pipe EXCEPT ![1] = @ + 1] \in [1..LastPipe -> Nat]
  <2>1. pipe[1] + 1 \in Nat
    BY RequestTypes
  <2> QED
    BY <2>1
<1>2. CASE Yield
  BY <1>1, <1>2 DEF Yield
<1>3. CASE EndOfSource
  BY <1>3 DEF EndOfSource
<1> QED
  BY <1>2, <1>3

LEMMA SourceTypes == ASSUME WebTypeOK, SourceStep PROVE WebTypeOK'
<1> USE DEF tunerVars, pipelineVars, clientVars, serverVars
<1>1. UNCHANGED <<req, phase, proc, reader, sent, got, damaged, closed>>
  BY DEF SourceStep, PollLive, ReadFlag, ReadFile, Changed
<1>2. \/ Yield
      \/ EndOfSource
      \/ UNCHANGED <<feeder, pipe, chan, ended>>
  BY DEF SourceStep, PollLive, ReadFlag, ReadFile, Changed
<1>3. /\ feeder' \in {"run", "done"} /\ pipe' \in [1..LastPipe -> Nat]
      /\ chan' \in Nat /\ ended' \in BOOLEAN
  BY <1>1, <1>2, YieldTypes
<1>4. queue' \in 0..QueueSize
  BY RequestsAssumption DEF SourceStep, PollLive, ReadFlag, ReadFile, Changed, WebTypeOK
<1>5. source' \in Sources
  <2>1. CASE PollLive
    BY <2>1 DEF PollLive, WebTypeOK
  <2>2. CASE ReadFlag
    BY <2>2 DEF ReadFlag, WebTypeOK, Sources
  <2>3. CASE ReadFile
    <3>1. source.pos + 1 \in Nat
      BY DEF WebTypeOK, Sources
    <3>2. /\ [source EXCEPT !.pos = @ + 1, !.step = "flag"] \in Sources
          /\ [source EXCEPT !.step = "end"] \in Sources
          /\ [source EXCEPT !.step = "wait"] \in Sources
      BY <3>1 DEF WebTypeOK, Sources
    <3>3. \/ source' = [source EXCEPT !.pos = @ + 1, !.step = "flag"]
          \/ source' = [source EXCEPT !.step = "end"]
          \/ source' = [source EXCEPT !.step = "wait"]
      BY <2>3 DEF ReadFile
    <3> QED
      BY <3>2, <3>3, Zenon
  <2>4. CASE Changed
    <3>1. \A b \in BOOLEAN : [source EXCEPT !.step = "flag", !.follow = b] \in Sources
      BY DEF WebTypeOK, Sources
    <3> DEFINE woken == TheRecord \in news
    <3>2. source' = [source EXCEPT !.step = "flag", !.follow = woken] /\ woken \in BOOLEAN
      BY <2>4 DEF Changed
    <3> HIDE DEF woken
    <3> QED
      BY <3>1, <3>2
  <2> QED
    BY <2>1, <2>2, <2>3, <2>4 DEF SourceStep
<1> QED
  BY <1>1, <1>3, <1>4, <1>5 DEF WebTypeOK, LastPipe, Filters

LEMMA TaskTypes ==
    ASSUME WebTypeOK,
           TaskStep \/ ProcessStep \/ (\E i \in Filters : FilterDies(i))
           \/ TunerOutput \/ TunerEnds \/ StopStreaming
    PROVE  WebTypeOK'
<1> USE DEF WebTypeOK, tunerVars, pipelineVars, clientVars, serverVars, LastPipe, Filters
<1>1. CASE TunerOutput
  BY <1>1, RequestsAssumption DEF TunerOutput
<1>2. CASE TunerEnds \/ StopStreaming
  BY <1>2 DEF TunerEnds, StopStreaming
<1>3. CASE FeederBreaks \/ EndOfPipeline
  BY <1>3 DEF FeederBreaks, EndOfPipeline, Kill
<1>4. CASE ReadOutput
  <2>1. pipe[LastPipe] > 0 /\ [pipe EXCEPT ![LastPipe] = @ - 1] \in [1..LastPipe -> Nat]
    BY <1>4, RequestTypes DEF ReadOutput
  <2>2. reader' \in {"run", "done"} /\ proc' \in [Filters -> {"run", "dead"}]
    BY <1>4 DEF ReadOutput, Kill
  <2>3. pipe' \in [1..LastPipe -> Nat] /\ chan' \in Nat /\ ended' \in BOOLEAN
    <3>1. pipe' = pipe \/ pipe' = [pipe EXCEPT ![LastPipe] = @ - 1]
      BY <1>4 DEF ReadOutput
    <3>2. chan' \in Nat /\ ended' \in BOOLEAN
      <4>1. chan + 1 \in Nat /\ chan \in Nat
        OBVIOUS
      <4>2. chan' = chan + 1 \/ chan' = chan
        BY <1>4 DEF ReadOutput
      <4>3. ended' \in BOOLEAN
        BY <1>4 DEF ReadOutput
      <4> HIDE DEF WebTypeOK
      <4> QED
        BY <4>1, <4>2, <4>3
    <3> QED
      BY <2>1, <3>1, <3>2
  <2> QED
    BY <1>4, <2>2, <2>3 DEF ReadOutput
<1>5. ASSUME NEW i \in Filters, FilterUnit(i)
      PROVE  WebTypeOK'
  <2>1. pipe[i] > 0 /\ pipe' = [pipe EXCEPT ![i] = @ - 1, ![i + 1] = @ + 1]
    BY <1>5 DEF FilterUnit
  <2>2. i \in 1..LastPipe /\ i + 1 \in 1..LastPipe /\ i # i + 1
    BY RequestTypes
  <2>3. pipe' \in [1..LastPipe -> Nat]
    BY <2>1, <2>2
  <2> QED
    BY <1>5, <2>3 DEF FilterUnit
<1>6. ASSUME NEW i \in Filters, FilterExits(i) \/ FilterDies(i)
      PROVE  WebTypeOK'
  BY <1>6 DEF FilterExits, FilterDies, Exit
<1> QED
  BY <1>1, <1>2, <1>3, <1>4, <1>5, <1>6 DEF TaskStep, ProcessStep

LEMMA WebTypes == ASSUME WebTypeOK, RecordsTypeOK, [Next]_vars PROVE WebTypeOK'
<1>1. CASE UNCHANGED webVars
  BY <1>1 DEF WebTypeOK, webVars, tunerVars, pipelineVars, clientVars, LastPipe, Filters
<1>2. UNCHANGED vars => UNCHANGED webVars
  BY DEF vars
<1> QED
  BY <1>1, <1>2, HandlerTypes, SourceTypes, TaskTypes DEF Next

LEMMA RecordsStay ==
    ASSUME RecordsInv, [Next]_vars
    PROVE  /\ RecordsInv' /\ ContentsStay /\ Begun \subseteq Begun'
           /\ TheRecord \in Records => content[TheRecord] \in Nat /\ content'[TheRecord] \in Nat
                                       /\ content[TheRecord] <= content'[TheRecord]
                                       /\ content[TheRecord] <= MaxUnits
                                       /\ content'[TheRecord] <= MaxUnits
           /\ TheRecord \in Sealed => TheRecord \in Sealed' /\ content'[TheRecord] = content[TheRecord]
           /\ Undisturbed' => Undisturbed
<1>1. RecordsInv' /\ ContentsStay
  BY WebSteps, RecordsStepKeeps, StoreStays DEF RecordsInv
<1>2. ASSUME NEW r \in Records, RecordsInv PROVE content[r] <= MaxUnits /\ content[r] \in Nat
  <2>1. content[r] \in Nat /\ writer.held \in Nat /\ MaxUnits \in Nat
    BY <1>2, RecordsAssumption DEF RecordsInv, RecordsTypeOK
  <2>2. content[r] + (IF Writes(r) THEN writer.held ELSE 0) <= MaxUnits
    BY <1>2 DEF RecordsInv, Buffers
  <2> QED
    BY <2>1, <2>2
<1>3. ASSUME NEW r \in Records PROVE content'[r] <= MaxUnits /\ content'[r] \in Nat
  <2>1. content'[r] \in Nat /\ writer'.held \in Nat /\ MaxUnits \in Nat
    BY <1>1, RecordsAssumption DEF RecordsInv, RecordsTypeOK
  <2>2. content'[r] + (IF Writes(r)' THEN writer'.held ELSE 0) <= MaxUnits
    BY <1>1 DEF RecordsInv, Buffers
  <2> QED
    BY <2>1, <2>2
<1>4. Undisturbed' => Undisturbed
  BY AloneWas DEF Undisturbed
<1> QED
  BY <1>1, <1>2, <1>3, <1>4, BegunGrows DEF ContentsStay

(* A step that does not read or open the content.                           *)
LEMMA SourceStays ==
    ASSUME RecordsInv, WebTypeOK, SourceInv, ContentInv, [Next]_vars,
           UNCHANGED <<source, length, req>>,
           phase' = phase \/ phase' \in {"error", "gone"} \/ (Running /\ Opened'),
           \/ feeder' = feeder \/ feeder' = "done"
           \/ phase = "started" /\ phase' \notin {"new", "queried", "started"}
    PROVE  SourceInv' /\ ContentInv'
<1>1. /\ Begun \subseteq Begun'
      /\ TheRecord \in Records => content[TheRecord] \in Nat /\ content'[TheRecord] \in Nat
                                  /\ content[TheRecord] <= content'[TheRecord]
      /\ TheRecord \in Sealed => TheRecord \in Sealed' /\ content'[TheRecord] = content[TheRecord]
      /\ Undisturbed' => Undisturbed
  BY RecordsStay
<1>2. source.pos \in Nat /\ source.end \in Nat /\ feeder \in {"run", "done"}
  BY DEF WebTypeOK, Sources
<1>3. Live' = Live /\ Bytes(req.range)' = Bytes(req.range)
  BY DEF Live, Bytes
<1>4. (Running' => Running \/ phase' = phase) /\ (phase' = phase => Running' = Running)
  BY DEF Running, Opened
<1>5. Running' => Running
  BY <1>4
<1>6. /\ phase' = "new" => source.end = 0 /\ length = NoLength
      /\ phase' \in {"new", "queried"} => source.step = "flag" /\ ~source.follow
      /\ phase' \in {"new", "queried", "started"} => feeder' = "done"
      /\ phase' = "queried" \/ (~Live /\ (Running' \/ feeder' = "run")) => source.end > 0
      /\ ~Live /\ (Running' \/ feeder' = "run") => source.file # None
  BY <1>4 DEF SourceInv, Running, Opened
<1>7. SourceInv'
  BY <1>1, <1>3, <1>5, <1>6 DEF SourceInv
<1>8. ContentInv'
  <2> SUFFICES ASSUME Undisturbed' PROVE ContentInv'
    BY DEF ContentInv
  <2>1. Undisturbed /\ TheRecord \in Records
    BY <1>1 DEF Undisturbed
  <2>2. source.end > 0 => /\ source.ranged => source.end <= content'[TheRecord]
                          /\ ~source.ranged => source.pos <= content'[TheRecord]
    BY <1>1, <1>2, <2>1 DEF ContentInv
  <2>3. ~Live /\ Running /\ source.step = "end" =>
           source.pos = IF source.ranged THEN source.end ELSE content'[TheRecord]
    BY <1>1, <2>1 DEF ContentInv, SourceInv
  <2>4. length # NoLength /\ ~source.ranged => length = content'[TheRecord]
    BY <1>1, <2>1 DEF ContentInv, SourceInv
  <2>5. source.file # None => source.file = TheRecord
    BY <2>1 DEF ContentInv
  <2> QED
    BY <1>3, <1>5, <2>2, <2>3, <2>4, <2>5 DEF ContentInv
<1> QED
  BY <1>7, <1>8

(* The content that is under the path of the record.                        *)
LEMMA TheFile ==
    ASSUME RecordsInv, HasContent
    PROVE  /\ TheRecord \in Records \cap Begun /\ FileOf(TheRecord) \in Records
           /\ Size \in Nat /\ Size > 0 /\ Size <= MaxUnits /\ MaxUnits \in Nat
           /\ Undisturbed => FileOf(TheRecord) = TheRecord
<1> DEFINE f == FileOf(TheRecord)
<1>1. f \in stored /\ path[f] = path[TheRecord] /\ Size = content[f] /\ content[f] > 0
  BY DEF HasContent, HasFile, FileOf, Size
<1> HIDE DEF f
<1>2. TheRecord \in Records \cap Begun /\ f \in Records /\ content[f] \in Nat
  BY <1>1 DEF HasContent, RecordsInv, RecordsTypeOK, Begun
<1>3. writer.held \in Nat /\ content[f] + (IF Writes(f) THEN writer.held ELSE 0) <= MaxUnits
  BY <1>2 DEF RecordsInv, RecordsTypeOK, Buffers
<1>4. Undisturbed => f = TheRecord
  BY <1>1, <1>2 DEF Undisturbed, Alone
<1>5. content[f] <= MaxUnits /\ MaxUnits \in Nat
  BY <1>2, <1>3, RecordsAssumption
<1> QED
  BY <1>1, <1>2, <1>4, <1>5 DEF f

LEMMA StatusTellsTheRecorder ==
    ASSUME RecordsInv, TheRecord \in DOMAIN file
    PROVE  /\ recorder # TheRecord => TheRecord \in Sealed
           /\ file[TheRecord].status # "Recording" => TheRecord \in Sealed
<1>1. recorder # TheRecord => ~Writes(TheRecord)
  BY DEF RecordsInv, BeingMade, Writes
<1>2. TheRecord \in Records /\ TheRecord \in Begun
  BY DEF RecordsInv, RecordsTypeOK, Begun
<1>3. recorder = TheRecord => file[TheRecord].status = "Recording"
  <2>1. recorder # None => (recorder \in DOMAIN file => file[recorder].status = "Recording")
    BY DEF RecordsInv, BeingMade
  <2>2. TheRecord # None
    BY DEF TheRecord, None
  <2> QED
    BY <2>1, <2>2
<1> QED
  BY <1>1, <1>2, <1>3 DEF Sealed

LEMMA QueryKeeps ==
    ASSUME RecordsInv, WebTypeOK, SourceInv, ContentInv, QueryRecord
    PROVE  SourceInv' /\ ContentInv'
<1>1. /\ phase = "new" /\ ~Live /\ UNCHANGED <<recordVars, req, feeder>>
      /\ source.step = "flag" /\ ~source.follow /\ feeder = "done" /\ ~source.ranged /\ source.pos = 0
      /\ source.end = 0 /\ length = NoLength /\ Live' = Live
  BY DEF QueryRecord, SourceInv, pipelineVars, Live
<1>4. Undisturbed' = Undisturbed
  BY <1>1 DEF Undisturbed, Alone, recordVars, contentVars, fileSystem
<1>2. CASE ~(HasContent /\ Satisfiable)
  <2>1. phase' = "error" /\ length' = length /\ source' = source
    BY <1>2 DEF QueryRecord
  <2> QED
    BY <1>1, <1>4, <2>1 DEF SourceInv, ContentInv, Running, Opened
<1>3. CASE HasContent /\ Satisfiable
  <2> DEFINE range == ComputeContentRange
  <2> DEFINE whole == range = <<>>
  <2>1. /\ phase' = "queried"
        /\ length' = IF req.seekable THEN ComputeContentLength(range) ELSE NoLength
        /\ source' = [source EXCEPT !.ranged = ~whole, !.pos = IF whole THEN 0 ELSE range[1],
                                    !.end = IF whole THEN MaxUnits ELSE range[2] + 1]
    BY <1>3 DEF QueryRecord
  <2>2. /\ TheRecord \in Records \cap Begun
        /\ Size \in Nat /\ Size > 0 /\ Size <= MaxUnits /\ MaxUnits \in Nat
        /\ Undisturbed => Size = content[TheRecord]
    BY <1>3, TheFile DEF Size
  <2>3. /\ source'.pos = (IF whole THEN 0 ELSE range[1]) /\ source'.ranged = ~whole
        /\ source'.end = (IF whole THEN MaxUnits ELSE range[2] + 1)
        /\ source'.step = "flag" /\ ~source'.follow /\ source'.file = source.file
    BY <1>1, <2>1 DEF WebTypeOK, Sources
  <2>4. ~whole => /\ range = req.range /\ req.range \in Nat \X Nat
                  /\ req.range[1] <= req.range[2] /\ req.range[2] < Size
    BY <1>3, RequestTypes DEF ComputeContentRange, Satisfiable
  <2>5. ~whole => req.range[1] \in Nat /\ req.range[2] \in Nat
    BY <2>4
  <2>6. /\ source'.end > 0
        /\ ~whole => source'.pos <= source'.end /\ source'.end <= Size
                     /\ source'.pos = req.range[1] /\ source'.end = req.range[2] + 1
    BY <2>2, <2>3, <2>4, <2>5
  <2>7. length' # NoLength =>
          /\ ~whole => length' = Bytes(req.range)
          /\ whole => TheRecord \in Sealed /\ length' = Size
    BY <1>3, <2>1, <2>4, StatusTellsTheRecorder DEF ComputeContentLength, Incomplete, HasContent
  <2>8. /\ Begun' = Begun /\ content' = content /\ feeder' = feeder /\ req' = req
        /\ Bytes(req.range)' = Bytes(req.range) /\ Sealed' = Sealed
    BY <1>1 DEF recordVars, fileVars, contentVars, Begun, Bytes, Sealed, Writes
  <2>9. /\ whole => source'.end = MaxUnits /\ source'.pos = 0 /\ ~source'.ranged
        /\ ~whole => source'.ranged
    BY <2>3
  <2> HIDE DEF range, whole, Size
  <2>10. /\ phase' = "queried" /\ ~Live' /\ ~Running' /\ feeder' = "done"
         /\ TheRecord \in Records' \cap Begun'
    BY <1>1, <2>1, <2>2, <2>8 DEF Running, Opened
  <2>11. source'.end # 0
    BY <2>6
  <2>12. /\ source'.ranged =>
               /\ req'.range \in Nat \X Nat /\ source'.end = req'.range[2] + 1
               /\ req'.range[1] <= source'.pos /\ source'.pos <= source'.end
         /\ ~source'.ranged => source'.end = MaxUnits
    BY <2>2, <2>4, <2>5, <2>6, <2>8, <2>9
  <2>13. length' # NoLength =>
           /\ source'.ranged => length' = Bytes(req.range)'
           /\ ~source'.ranged => TheRecord \in Sealed'
    BY <2>7, <2>8, <2>9
  <2>14. SourceInv'
    BY <2>3, <2>6, <2>9, <2>10, <2>11, <2>12, <2>13 DEF SourceInv
  <2>15. ContentInv'
    <3> SUFFICES ASSUME Undisturbed PROVE ContentInv'
      BY <1>4 DEF ContentInv
    <3>1. Size = content'[TheRecord] /\ source.file # None => source.file = TheRecord
      BY <2>2, <2>8 DEF ContentInv
    <3>2. /\ source'.ranged => source'.end <= content'[TheRecord]
          /\ ~source'.ranged => source'.pos <= content'[TheRecord]
      BY <2>2, <2>6, <2>8, <2>9
    <3>3. length' # NoLength /\ ~source'.ranged => length' = content'[TheRecord]
      BY <2>2, <2>7, <2>8, <2>9
    <3> QED
      BY <2>2, <2>3, <2>10, <3>1, <3>2, <3>3 DEF ContentInv
  <2> QED
    BY <2>14, <2>15
<1> QED
  BY <1>2, <1>3

LEMMA OpenKeeps ==
    ASSUME RecordsInv, WebTypeOK, SourceInv, ContentInv, OpenContent
    PROVE  SourceInv' /\ ContentInv'
<1> DEFINE follow == HasContent /\ ~source.ranged /\ recorder = TheRecord
<1> DEFINE opened == IF HasContent THEN FileOf(TheRecord) ELSE None
<1>1. /\ phase = "queried" /\ UNCHANGED <<recordVars, req, length, feeder>>
      /\ source.step = "flag" /\ ~source.follow /\ feeder = "done"
      /\ phase' = (IF HasContent THEN "started" ELSE "error")
      /\ source' = [source EXCEPT !.file = opened, !.follow = follow]
  BY DEF OpenContent, SourceInv, pipelineVars
<1>2. /\ source'.follow = follow /\ source'.ranged = source.ranged /\ source'.pos = source.pos
      /\ source'.end = source.end /\ source'.step = "flag" /\ source'.done = source.done
      /\ source'.file = opened /\ source.end \in Nat
  BY <1>1 DEF WebTypeOK, Sources
<1>3. follow \/ TheRecord \in Sealed \/ source.ranged \/ ~HasContent
  BY StatusTellsTheRecorder DEF HasContent
<1>4. /\ Begun' = Begun /\ content' = content /\ Live' = Live
      /\ Bytes(req.range)' = Bytes(req.range) /\ Sealed' = Sealed /\ Undisturbed' = Undisturbed
  BY <1>1 DEF recordVars, fileVars, contentVars, fileSystem, Begun, Bytes, Sealed, Writes, Live,
              Undisturbed, Alone
<1>5. source.end > 0 /\ ~Live
  BY <1>1 DEF SourceInv
<1>6. source'.follow => ~source.ranged
  BY <1>2
<1>9. /\ HasContent => opened # None /\ (Undisturbed => opened = TheRecord)
      /\ ~HasContent => opened = None
  BY TheFile, NoneIsNoRecord
<1> HIDE DEF follow, opened
<1>7. phase' # "new" /\ phase' # "queried" /\ feeder' = "done" /\ (Running' => HasContent)
  BY <1>1 DEF Running, Opened
<1>8. ~source'.follow /\ ~source.ranged /\ Running' => TheRecord \in Sealed
  BY <1>1, <1>2, <1>3 DEF Running, Opened
<1>10. SourceInv'
  BY <1>1, <1>2, <1>4, <1>5, <1>6, <1>7, <1>8, <1>9 DEF SourceInv
<1>11. ContentInv'
  BY <1>1, <1>2, <1>4, <1>9 DEF ContentInv
<1> QED
  BY <1>10, <1>11

(* What a poll of the content needs.                                        *)
LEMMA PolledSource ==
    ASSUME RecordsInv, WebTypeOK, SourceInv, ContentInv, ~Live, Polled
    PROVE  /\ Opened \/ feeder = "run"
           /\ phase \notin {"new", "queried"} /\ phase # "started"
           /\ source.end > 0 /\ TheRecord \in Records
           /\ source.pos \in Nat /\ source.end \in Nat /\ content[TheRecord] \in Nat
           /\ content[TheRecord] <= MaxUnits /\ MaxUnits \in Nat
           /\ Undisturbed => holds[source.file] = TheRecord
<1>1. Opened \/ feeder = "run"
  BY DEF Polled, Open, Opened
<1>2. phase \notin {"new", "queried"} /\ phase # "started" /\ source.end > 0 /\ source.file # None
  BY <1>1 DEF SourceInv, Opened, Running
<1>3. TheRecord \in Records
  BY <1>2 DEF SourceInv
<1>4. /\ writer.held \in Nat /\ content[TheRecord] \in Nat
      /\ content[TheRecord] + (IF Writes(TheRecord) THEN writer.held ELSE 0) <= MaxUnits
  BY <1>3 DEF RecordsInv, RecordsTypeOK, Buffers
<1>5. Undisturbed => holds[source.file] = TheRecord
  BY <1>2 DEF ContentInv, Undisturbed, RecordsInv, Paths
<1> QED
  BY <1>1, <1>2, <1>3, <1>4, <1>5, RecordsAssumption DEF WebTypeOK, Sources

LEMMA StoreOfSource ==
    ASSUME UNCHANGED <<managerVars, writer, content, fileSystem, flushed, fileVars, crashed>>,
           UNCHANGED <<req, length, phase>>
    PROVE  /\ Begun' = Begun /\ Sealed' = Sealed /\ content' = content /\ Live' = Live
           /\ Bytes(req.range)' = Bytes(req.range) /\ Running' = Running /\ Opened' = Opened
           /\ Undisturbed' = Undisturbed
BY DEF fileVars, fileSystem, Begun, Sealed, Writes, Live, Bytes, Running, Opened, Undisturbed, Alone

LEMMA ReadFlagKeeps ==
    ASSUME RecordsInv, WebTypeOK, SourceInv, ContentInv, ReadFlag
    PROVE  SourceInv' /\ ContentInv'
<1> DEFINE done == source.follow => TheRecord \in flushed
<1>1. /\ ~Live /\ Polled /\ source.step = "flag"
      /\ source' = [source EXCEPT !.step = "read", !.done = done]
      /\ UNCHANGED <<managerVars, writer, content, fileSystem, flushed, fileVars, crashed>>
      /\ UNCHANGED <<req, length, phase, feeder>>
  BY DEF ReadFlag, serverVars, pipelineVars
<1>2. /\ source'.follow = source.follow /\ source'.ranged = source.ranged /\ source'.pos = source.pos
      /\ source'.end = source.end /\ source'.step = "read" /\ source'.done = done
      /\ source'.file = source.file
  BY <1>1 DEF WebTypeOK, Sources
<1>3. ~done => source.follow
  OBVIOUS
<1>4. done => ~source.follow \/ TheRecord \in Sealed
  BY DEF RecordsInv
<1>5. (source'.done => done) /\ (~source'.done => ~done)
  BY <1>2
<1> HIDE DEF done
<1>6. phase \notin {"new", "queried"} /\ source.end > 0
  BY <1>1, PolledSource
<1> QED
  BY <1>1, <1>2, <1>3, <1>4, <1>5, <1>6, StoreOfSource DEF SourceInv, ContentInv

LEMMA ReadFileKeeps ==
    ASSUME RecordsInv, WebTypeOK, SourceInv, ContentInv, ReadFile
    PROVE  SourceInv' /\ ContentInv'
<1>1. /\ ~Live /\ Polled /\ source.step = "read"
      /\ UNCHANGED <<managerVars, writer, content, fileSystem, flushed, fileVars, crashed>>
      /\ UNCHANGED <<req, length, phase>>
      /\ feeder' = feeder \/ feeder' = "done"
  BY DEF ReadFile, serverVars, recordVars, contentVars, Yield, EndOfSource
<1>2. \/ ~AtEnd /\ source' = [source EXCEPT !.pos = @ + 1, !.step = "flag"]
      \/ AtEnd /\ source.done /\ source' = [source EXCEPT !.step = "end"]
      \/ AtEnd /\ ~source.done /\ source' = [source EXCEPT !.step = "wait"]
  BY DEF ReadFile
<1>3. /\ source'.follow = source.follow /\ source'.ranged = source.ranged
      /\ source'.end = source.end /\ source'.done = source.done /\ source'.file = source.file
      /\ \/ ~AtEnd /\ source'.pos = source.pos + 1 /\ source'.step = "flag"
         \/ AtEnd /\ source.done /\ source'.step = "end" /\ source'.pos = source.pos
         \/ AtEnd /\ ~source.done /\ source'.step = "wait" /\ source'.pos = source.pos
  BY <1>2 DEF WebTypeOK, Sources
<1>4. /\ phase \notin {"new", "queried"} /\ phase # "started" /\ source.end > 0 /\ TheRecord \in Records
      /\ source.pos \in Nat /\ source.end \in Nat /\ content[TheRecord] \in Nat
      /\ content[TheRecord] <= MaxUnits /\ MaxUnits \in Nat
      /\ Undisturbed => holds[source.file] = TheRecord
  BY <1>1, PolledSource
<1>5. /\ source.ranged => source.pos <= source.end
      /\ ~source.ranged => source.end = MaxUnits
      /\ Undisturbed => /\ source.ranged => source.end <= content[TheRecord]
                        /\ ~source.ranged => source.pos <= content[TheRecord]
  BY <1>4 DEF SourceInv, ContentInv
<1>6. /\ ~AtEnd => source.pos + 1 <= source.end
      /\ Undisturbed => /\ ~AtEnd => source.pos + 1 <= content[TheRecord]
                        /\ AtEnd /\ source.ranged => source.pos = source.end
                        /\ AtEnd /\ ~source.ranged => source.pos = content[TheRecord]
  BY <1>4, <1>5 DEF AtEnd
<1>7. source.ranged => req.range \in Nat \X Nat /\ req.range[1] <= source.pos
  BY <1>4 DEF SourceInv
<1>8. source.ranged => req.range[1] <= source.pos + 1
  <2>1. source.ranged => req.range[1] \in Nat
    BY <1>7
  <2> QED
    BY <1>4, <1>7, <2>1
<1> HIDE DEF AtEnd
<1>9. SourceInv'
  BY <1>1, <1>3, <1>4, <1>6, <1>8, StoreOfSource DEF SourceInv
<1>10. ContentInv'
  BY <1>1, <1>3, <1>4, <1>6, StoreOfSource DEF ContentInv
<1> QED
  BY <1>9, <1>10

LEMMA ChangedKeeps ==
    ASSUME RecordsInv, WebTypeOK, SourceInv, ContentInv, Changed
    PROVE  SourceInv' /\ ContentInv'
<1> DEFINE woken == TheRecord \in news
<1>1. /\ ~Live /\ Polled /\ source.step = "wait" /\ (woken \/ ~Writes(TheRecord))
      /\ source' = [source EXCEPT !.step = "flag", !.follow = woken]
      /\ UNCHANGED <<managerVars, writer, content, fileSystem, flushed, fileVars, crashed>>
      /\ UNCHANGED <<req, length, phase, feeder>>
  BY DEF Changed, serverVars, pipelineVars, recordVars, contentVars
<1>2. /\ source'.ranged = source.ranged /\ source'.pos = source.pos /\ source'.file = source.file
      /\ source'.end = source.end /\ source'.step = "flag" /\ source'.done = source.done
      /\ (source'.follow => woken) /\ (~source'.follow => ~woken)
  BY <1>1 DEF WebTypeOK, Sources
<1>3. phase \notin {"new", "queried"} /\ source.end > 0 /\ TheRecord \in Records
  BY <1>1, PolledSource
<1>4. source.follow /\ ~source.ranged /\ TheRecord \in Begun
  BY <1>1, <1>3 DEF SourceInv
<1>5. ~woken => TheRecord \in Sealed
  BY <1>1, <1>3, <1>4 DEF Sealed
<1> HIDE DEF woken
<1> QED
  BY <1>1, <1>2, <1>3, <1>4, <1>5, StoreOfSource DEF SourceInv, ContentInv

LEMMA SourceKeeps ==
    ASSUME RecordsInv, WebTypeOK, SourceInv, ContentInv, [Next]_vars
    PROVE  SourceInv' /\ ContentInv'
<1> USE DEF tunerVars, pipelineVars, clientVars, serverVars
<1>1. CASE UNCHANGED webVars
  BY <1>1, SourceStays DEF webVars
<1>2. CASE TunerOutput \/ TunerEnds \/ StopStreaming
  BY <1>2, SourceStays DEF TunerOutput, TunerEnds, StopStreaming
<1>3. CASE StartStreaming
  <2>1. /\ phase = "new" /\ Live /\ UNCHANGED <<req, length, source, feeder>>
        /\ phase' \in {"started", "error"}
    BY <1>3 DEF StartStreaming
  <2>2. /\ source.end = 0 /\ length = NoLength /\ source.step = "flag" /\ ~source.follow
        /\ feeder = "done" /\ ~source.ranged /\ source.pos = 0 /\ Live'
    BY <2>1 DEF SourceInv, Live
  <2>3. Undisturbed' = Undisturbed
    BY <1>3 DEF StartStreaming, Undisturbed, Alone, recordVars, contentVars, fileSystem
  <2> QED
    BY <2>1, <2>2, <2>3 DEF SourceInv, ContentInv
<1>4. CASE CannotFilter \/ CannotSpawn \/ ClientSeesEnd \/ NoPacket \/ ClientLeaves
  <2>1. UNCHANGED <<source, length, req, feeder>>
    BY <1>4 DEF CannotFilter, CannotSpawn, Refused, ClientSeesEnd, NoPacket, ClientLeaves
  <2>2. phase' \in {"error", "gone"} \/ (phase = "streaming" /\ phase' = "ended")
    BY <1>4 DEF CannotFilter, CannotSpawn, Refused, ClientSeesEnd, NoPacket, ClientLeaves, Fail
  <2> QED
    BY <2>1, <2>2, SourceStays DEF Running, Opened
<1>5. CASE Spawn
  <2>1. /\ phase = "started" /\ phase' = "peeking" /\ UNCHANGED <<source, length, req>>
    BY <1>5 DEF Spawn
  <2> QED
    BY <2>1, SourceStays DEF Running, Opened
<1>6. CASE PollLive
  <2>1. UNCHANGED <<source, length, req, phase>> /\ (feeder' = feeder \/ feeder' = "done")
    BY <1>6 DEF PollLive, Yield, EndOfSource
  <2> QED
    BY <2>1, SourceStays
<1>7. CASE ReadFlag \/ ReadFile \/ Changed
  BY <1>7, ReadFlagKeeps, ReadFileKeeps, ChangedKeeps
<1>8. CASE TaskStep
  <2>1. UNCHANGED <<source, length, req, phase>> /\ (feeder' = feeder \/ feeder' = "done")
    BY <1>8 DEF TaskStep, FeederBreaks, ReadOutput, EndOfPipeline
  <2> QED
    BY <2>1, SourceStays
<1>9. ASSUME NEW i \in Filters, FilterUnit(i) \/ FilterExits(i) \/ FilterDies(i)
      PROVE  SourceInv' /\ ContentInv'
  <2>1. UNCHANGED <<source, length, req, phase, feeder>>
    BY <1>9 DEF FilterUnit, FilterExits, FilterDies
  <2> QED
    BY <2>1, SourceStays
<1>10. CASE Peek \/ ClientReads
  <2>1. UNCHANGED <<source, length, req, feeder>>
        /\ (phase' = phase \/ (phase = "peeking" /\ phase' = "streaming"))
    BY <1>10 DEF Peek, ClientReads
  <2> QED
    BY <2>1, SourceStays DEF Running, Opened
<1>11. CASE Restart
  BY <1>11, SourceStays DEF Restart, NoPipeline
<1>12. UNCHANGED vars => UNCHANGED webVars
  BY DEF vars
<1> QED
  BY <1>1, <1>2, <1>3, <1>4, <1>5, <1>6, <1>7, <1>8, <1>9, <1>10, <1>11, <1>12, QueryKeeps, OpenKeeps
     DEF Next, HandlerStep, SourceStep, ProcessStep, ClientStep

LEMMA InitStream == ASSUME Init PROVE WebTypeOK /\ SourceInv /\ ContentInv
<1>1. WebTypeOK
  <2>1. [file |-> None, ranged |-> FALSE, pos |-> 0, end |-> 0, follow |-> FALSE,
        step |-> "flag", done |-> FALSE] \in Sources
    BY DEF Sources
  <2>2. 0 \in 0..QueueSize
    BY RequestsAssumption
  <2> QED
    BY <2>1, <2>2 DEF Init, WebTypeOK
<1>2. SourceInv /\ ContentInv
  BY DEF Init, SourceInv, ContentInv, Running, Opened, Live
<1> QED
  BY <1>1, <1>2

ReadInv == RecordsInv /\ WebTypeOK /\ SourceInv /\ ContentInv

THEOREM ReadersKeep == Spec => []ReadInv
<1>1. Init => ReadInv
  BY InitRecords, InitStream DEF ReadInv, Init
<1>2. ReadInv /\ [Next]_vars => ReadInv'
  BY RecordsStay, WebTypes, SourceKeeps DEF ReadInv, RecordsInv
<1> QED
  BY <1>1, <1>2, PTL DEF Spec

-----------------------------------------------------------------------------
(* Wake-ups.                                                                *)

LEMMA WritersWake ==
    ASSUME RecordsInv, NoWakeUpIsLost, source' = source, RecordsStep \/ Crash
    PROVE  NoWakeUpIsLost'
<1> USE DEF NoWakeUpIsLost, fileVars, sumVars, contentVars
<1>1. CASE UNCHANGED contentVars
  BY <1>1 DEF Writes
<1>2. CASE CreateContent
  BY <1>2 DEF CreateContent, Writes, RecordsInv, RecordsTypeOK, Buffers
<1>3. CASE WriteUnit
  <2>1. ~writer'.idle
    BY <1>3 DEF WriteUnit, RecordsInv, RecordsTypeOK
  <2> QED
    BY <2>1
<1>4. CASE LandUnit
  <2>1. ~writer.idle
    BY <1>4 DEF LandUnit, RecordsInv, RecordsTypeOK, Buffers
  <2>2. writer'.idle = writer.idle
    BY <1>4 DEF LandUnit, RecordsInv, RecordsTypeOK
  <2> QED
    BY <2>1, <2>2
<1>5. CASE Flush
  <2>1. news' = news \cup {writer.record} /\ writer'.record = writer.record
    BY <1>5 DEF Flush, Flushed, Notify, RecordsInv, RecordsTypeOK
  <2> QED
    BY <2>1 DEF Writes
<1>6. CASE EndOfOutput \/ WriteFails
  <2>1. writer'.phase = "ended"
    BY <1>6 DEF EndOfOutput, WriteFails, RecordsInv, RecordsTypeOK
  <2> QED
    BY <2>1 DEF Writes
<1>7. CASE Crash
  BY <1>7 DEF Crash, NoWriter, Writes
<1>8. ASSUME NEW r \in Records, StartRecording(r)
      PROVE  NoWakeUpIsLost'
  BY <1>8 DEF StartRecording
<1>9. ASSUME NEW r \in Records, NEW purge \in BOOLEAN, RemoveRecord(r, purge)
      PROVE  NoWakeUpIsLost'
  BY <1>9 DEF RemoveRecord, Writes
<1>10. CASE CalculatorStep \/ RemoveSchedule \/ ContentSha256Calculated
            \/ (\E r \in Records : CheckRecord(r))
            \/ RecorderRemoved \/ (\E status \in {"Finished", "Failed"} : RecordingStopped(status))
  BY <1>1, <1>10 DEF CalculatorStep, Calculate, EmitSha256, RemoveSchedule, ContentSha256Calculated,
                     CheckRecord, RecordingStopped, RecorderRemoved
<1> QED
  BY <1>2, <1>3, <1>4, <1>5, <1>6, <1>7, <1>8, <1>9, <1>10 DEF RecordsStep, WriterStep, ManagerStep

(* Later records are not begun while this one, the first, is written.       *)
LEMMA WritersAreAlone ==
    ASSUME RecordsInv, TheRecord \in Records, Writes(TheRecord)
    PROVE  Undisturbed
<1>1. /\ writer.phase # "ended" /\ writer.record = TheRecord
      /\ Paths /\ Records \subseteq Nat \ {0} /\ path \in [Records -> Records]
  BY RecordsAssumption, FS_CardinalityType DEF Writes, RecordsInv, RecordsTypeOK
<1>2. path[TheRecord] = TheRecord
  <2>1. path[TheRecord] \in Nat \ {0} /\ path[TheRecord] <= TheRecord
    BY <1>1 DEF Paths
  <2> QED
    BY <2>1 DEF TheRecord
<1>3. ASSUME NEW s \in Records \ {TheRecord}
      PROVE  path[s] = s
  <2>1. ~(s <= TheRecord)
    BY <1>1, <1>3 DEF TheRecord
  <2> QED
    BY <1>1, <2>1 DEF Paths
<1> QED
  BY <1>2, <1>3 DEF Undisturbed, Alone

LEMMA SleepersRead ==
    ASSUME ReadInv, NoWakeUpIsLost, UNCHANGED storeVars, SourceStep
    PROVE  NoWakeUpIsLost'
<1> USE DEF NoWakeUpIsLost, storeVars, ReadInv
<1>1. CASE PollLive
  BY <1>1 DEF PollLive, recordVars, contentVars, Writes
<1>2. CASE ReadFlag
  BY <1>2 DEF ReadFlag, WebTypeOK, Sources
<1>3. CASE ReadFile
  <2>1. source'.step = "wait" => AtEnd /\ ~source.done /\ source'.pos = source.pos
    BY <1>3 DEF ReadFile, WebTypeOK, Sources
  <2>2. ~source.done => ~source.ranged /\ source.end = MaxUnits
    BY <1>3 DEF ReadFile, SourceInv
  <2>3. /\ source.pos \in Nat /\ content[TheRecord] \in Nat /\ TheRecord \in Records
        /\ content[TheRecord] <= MaxUnits /\ MaxUnits \in Nat
        /\ Undisturbed => holds[source.file] = TheRecord
    BY <1>3, PolledSource DEF ReadFile
  <2>4. Writes(TheRecord) => Undisturbed
    BY <2>3, WritersAreAlone
  <2>5. ~source.done /\ AtEnd /\ Writes(TheRecord) => ~(source.pos < content[TheRecord])
    BY <2>2, <2>3, <2>4 DEF AtEnd
  <2>6. Writes(TheRecord)' = Writes(TheRecord)
    BY DEF Writes
  <2> QED
    BY <2>1, <2>5, <2>6 DEF contentVars
<1>4. CASE Changed
  BY <1>4 DEF Changed, WebTypeOK, Sources
<1> QED
  BY <1>1, <1>2, <1>3, <1>4 DEF SourceStep

(* A follower of a recording does not sleep on data that it could read      *)
(* while the writer waits for input (ProgressWriter and content_stream).    *)
THEOREM FollowersAreWoken == Spec => []NoWakeUpIsLost
<1>1. Init => NoWakeUpIsLost
  BY DEF Init, NoWakeUpIsLost
<1>2. ReadInv /\ NoWakeUpIsLost /\ [Next]_vars => NoWakeUpIsLost'
  <2> SUFFICES ASSUME ReadInv, NoWakeUpIsLost, [Next]_vars
               PROVE  NoWakeUpIsLost'
    OBVIOUS
  <2>1. CASE RecordsStep /\ UNCHANGED webVars
    BY <2>1, WritersWake DEF ReadInv, webVars
  <2>2. CASE Restart
    BY <2>2, WritersWake DEF ReadInv, Restart
  <2>3. CASE SourceStep /\ UNCHANGED storeVars
    BY <2>3, SleepersRead
  <2>4. CASE UNCHANGED <<recordVars, source>>
    BY <2>4 DEF NoWakeUpIsLost, Writes, recordVars, contentVars
  <2>5. CASE \E i \in Filters : FilterDies(i)
    BY <2>5 DEF FilterDies, contentVars, NoWakeUpIsLost, Writes
  <2>6. ASSUME ReadInv, QueryRecord \/ OpenContent PROVE source'.step = "flag"
    BY <2>6 DEF QueryRecord, OpenContent, SourceInv, ReadInv, WebTypeOK, Sources
  <2>7. SourceStep => UNCHANGED storeVars
    BY DEF SourceStep, PollLive, ReadFlag, ReadFile, Changed, storeVars, recordVars, contentVars,
           fileVars, sumVars
  <2>8. UNCHANGED vars => UNCHANGED <<recordVars, source>>
    BY DEF vars, webVars
  <2>9. TunerOutput \/ TunerEnds \/ StopStreaming \/ StartStreaming \/ Spawn \/ CannotFilter \/ CannotSpawn
        \/ TaskStep \/ ProcessStep \/ ClientStep \/ NoPacket \/ ClientLeaves => UNCHANGED <<recordVars, source>>
    BY DEF TunerOutput, TunerEnds, StopStreaming, StartStreaming, Spawn, CannotFilter, CannotSpawn, Refused,
           TaskStep, FeederBreaks, ReadOutput, EndOfPipeline, ProcessStep, FilterUnit, FilterExits,
           ClientStep, Peek, ClientReads, ClientSeesEnd, NoPacket, ClientLeaves
  <2> QED
    BY <2>1, <2>2, <2>3, <2>4, <2>5, <2>6, <2>7, <2>8, <2>9 DEF Next, HandlerStep, NoWakeUpIsLost
<1> QED
  BY <1>1, <1>2, ReadersKeep, PTL DEF Spec

Early == phase \in {"new", "queried", "started"}

LEMMA NoSmallest ==
    ASSUME NEW D, D \subseteq Nat, \A i \in D : \E j \in D : j < i
    PROVE  D = {}
<1> SUFFICES ASSUME D # {} PROVE FALSE
  OBVIOUS
<1>1. PICK i \in D : \A j \in D : <<j, i>> \notin OpToRel(<, Nat)
  BY NatLessThanWellFounded, WFMin
<1> QED
  BY <1>1 DEF OpToRel

(* With empty pipes the client has what the source gave.                    *)
LEMMA EmptyPipes ==
    ASSUME WebTypeOK, NEW count, Counts(count), \A i \in 1..LastPipe : pipe[i] = 0
    PROVE  Yielded = chan + got
<1> DEFINE D == {i \in 1..(LastPipe + 1) : count[i] # count[1]}
<1>1. LastPipe \in Nat /\ count \in [1..(LastPipe + 1) -> Int]
  BY RequestTypes DEF Counts
<1>2. ASSUME NEW i \in D PROVE i - 1 \in D /\ i - 1 < i
  <2>1. i # 1 /\ i \in 1..(LastPipe + 1)
    OBVIOUS
  <2>2. i - 1 \in 1..LastPipe /\ (i - 1) + 1 = i
    BY <1>1, <2>1
  <2>3. count[i - 1] = count[i] + 0
    BY <2>2 DEF Counts
  <2>4. count[i] \in Int
    BY <1>1, <2>1
  <2> QED
    BY <1>1, <2>1, <2>2, <2>3, <2>4
<1>3. D = {}
  <2>1. D \subseteq Nat
    BY <1>1
  <2> HIDE DEF D
  <2> QED
    BY <1>2, <2>1, NoSmallest
<1>4. LastPipe + 1 \in 1..(LastPipe + 1)
  BY <1>1
<1>5. count[LastPipe + 1] = count[1]
  BY <1>3, <1>4
<1> QED
  BY <1>5 DEF Counts

LEMMA FlowMoves ==
    ASSUME WebTypeOK, Flow, req' = req, NEW d \in [1..(LastPipe + 1) -> Int],
           Yielded \in Int, Yielded' = Yielded + d[1], chan' + got' = chan + got + d[LastPipe + 1],
           \A i \in 1..LastPipe : pipe'[i] = pipe[i] + d[i] - d[i + 1]
    PROVE  Flow'
<1>1. PICK count : Counts(count)
  BY DEF Flow
<1> DEFINE new == [i \in 1..(LastPipe + 1) |-> count[i] + d[i]]
<1>2. /\ LastPipe \in Nat /\ LastPipe' = LastPipe
      /\ 1 \in 1..(LastPipe + 1) /\ LastPipe + 1 \in 1..(LastPipe + 1)
      /\ \A i \in 1..LastPipe : i \in 1..(LastPipe + 1) /\ i + 1 \in 1..(LastPipe + 1)
  BY RequestTypes DEF LastPipe
<1>3. count \in [1..(LastPipe + 1) -> Int] /\ new \in [1..(LastPipe + 1) -> Int]
  BY <1>1 DEF Counts
<1>4. /\ new[1] = count[1] + d[1] /\ new[LastPipe + 1] = count[LastPipe + 1] + d[LastPipe + 1]
      /\ \A i \in 1..LastPipe : new[i] = count[i] + d[i] /\ new[i + 1] = count[i + 1] + d[i + 1]
  BY <1>2
<1> HIDE DEF new
<1>5. new[1] = Yielded' /\ new[LastPipe + 1] = chan' + got'
  BY <1>1, <1>4 DEF Counts
<1>6. ASSUME NEW i \in 1..LastPipe PROVE new[i] = new[i + 1] + pipe'[i]
  <2>1. count[i] = count[i + 1] + pipe[i]
    BY <1>1 DEF Counts
  <2>2. /\ count[i] \in Int /\ count[i + 1] \in Int /\ d[i] \in Int /\ d[i + 1] \in Int
        /\ pipe[i] \in Nat
    BY <1>2, <1>3 DEF WebTypeOK
  <2>3. pipe'[i] = pipe[i] + d[i] - d[i + 1]
    OBVIOUS
  <2> QED
    BY <1>4, <2>1, <2>2, <2>3
<1>7. \E c \in [1..(LastPipe + 1) -> Int] :
         /\ c[1] = Yielded' /\ c[LastPipe + 1] = chan' + got'
         /\ \A i \in 1..LastPipe : c[i] = c[i + 1] + pipe'[i]
  BY <1>3, <1>5, <1>6
<1>8. \E c \in [1..(LastPipe' + 1) -> Int] :
         /\ c \in [1..(LastPipe' + 1) -> Int]
         /\ c[1] = Yielded' /\ c[LastPipe' + 1] = chan' + got'
         /\ \A i \in 1..LastPipe' : c[i] = c[i + 1] + pipe'[i]
  BY <1>2, <1>7
<1> QED
  BY <1>8 DEF Flow, Counts

LEMMA YieldedIsInt == ASSUME ReadInv PROVE Yielded \in Int
<1>1. sent - queue \in Int
  BY DEF ReadInv, WebTypeOK
<1>2. source.ranged => req.range[1] \in Nat
  <2>1. source.ranged => req.range \in Nat \X Nat
    BY DEF ReadInv, SourceInv, WebTypeOK, Sources
  <2> QED
    BY <2>1
<1>3. source.pos \in Nat
  BY DEF ReadInv, WebTypeOK, Sources
<1> QED
  BY <1>1, <1>2, <1>3 DEF Yielded

(* A step that moves no unit.                                               *)
LEMMA StreamStays ==
    ASSUME StreamInv,
           UNCHANGED <<req, chan, got, ended, feeder, reader, pipe, proc>>,
           damaged => damaged',
           ~damaged' => Yielded' = Yielded /\ (Opened /\ Exhausted => Exhausted'),
           \/ phase' = phase
           \/ phase' \in {"error", "gone"}
           \/ Early /\ Early'
           \/ phase = "peeking" /\ phase' = "streaming"
    PROVE  StreamInv'
<1> USE DEF Early
<1>1. LastPipe' = LastPipe /\ Filters' = Filters /\ Filtered' = Filtered
  BY DEF LastPipe, Filters, Filtered
<1>2. Early' => Untouched'
  BY <1>1 DEF StreamInv, Untouched
<1>3. Opened' /\ ~damaged' => Flow' /\ Drained'
  <2> SUFFICES ASSUME Opened', ~damaged' PROVE Flow' /\ Drained'
    OBVIOUS
  <2>1. Opened /\ ~damaged /\ Flow /\ Drained /\ (phase' = "ended" => phase = "ended")
    BY DEF Opened, StreamInv
  <2>2. Flow'
    BY <1>1, <2>1 DEF Flow, Counts
  <2>3. Drained'
    BY <1>1, <2>1 DEF Drained
  <2> QED
    BY <2>2, <2>3
<1> QED
  BY <1>2, <1>3 DEF StreamInv

(* The source gives a unit.                                                 *)
LEMMA YieldKeeps ==
    ASSUME ReadInv, StreamInv, Polled, Yield, Yielded' = Yielded + 1, ~(Opened /\ Exhausted),
           UNCHANGED <<req, phase, got, damaged, proc, reader>>
    PROVE  StreamInv'
<1> USE DEF Early
<1>1. /\ LastPipe' = LastPipe /\ Filters' = Filters /\ Filtered' = Filtered
      /\ Early' = Early /\ Opened' = Opened /\ Yielded \in Int /\ LastPipe \in Nat
      /\ req.filters \in Nat /\ Filters = 1..req.filters /\ LastPipe = req.filters + 1
  BY YieldedIsInt, RequestTypes DEF LastPipe, Filters, Filtered, Opened, ReadInv
<1>2. ~Early
  BY DEF Polled, Open, StreamInv, Untouched
<1>3. ASSUME Opened, ~damaged PROVE Flow' /\ Drained'
  <2>1. Flow /\ Drained /\ ~Exhausted /\ WebTypeOK
    BY <1>3 DEF StreamInv, ReadInv
  <2>2. chan \in Nat /\ got \in Nat /\ pipe \in [1..LastPipe -> Nat]
    BY <2>1 DEF WebTypeOK
  <2>3. CASE Filtered
    <3> DEFINE d == [i \in 1..(LastPipe + 1) |-> IF i = 1 THEN 1 ELSE 0]
    <3>1. /\ feeder = "run" /\ proc[1] = "run" /\ UNCHANGED <<feeder, chan, ended>>
          /\ pipe' = [pipe EXCEPT ![1] = @ + 1] /\ req.filters > 0
      BY <2>3 DEF Polled, Yield, Filtered
    <3>2. /\ d \in [1..(LastPipe + 1) -> Int] /\ d[1] = 1 /\ d[LastPipe + 1] = 0
          /\ \A i \in 1..LastPipe : pipe'[i] = pipe[i] + d[i] - d[i + 1]
      <4>1. d \in [1..(LastPipe + 1) -> Int] /\ d[1] = 1 /\ d[LastPipe + 1] = 0
        BY <1>1, <3>1
      <4>2. \A i \in 1..LastPipe : d[i] = (IF i = 1 THEN 1 ELSE 0) /\ d[i + 1] = 0
        BY <1>1
      <4>3. \A i \in 1..LastPipe : pipe'[i] = (IF i = 1 THEN pipe[1] + 1 ELSE pipe[i]) /\ pipe[i] \in Nat
        BY <2>2, <3>1
      <4> HIDE DEF d
      <4> QED
        BY <4>1, <4>2, <4>3
    <3>3. Flow'
      <4>1. chan' + got' = chan + got + 0
        BY <2>2, <3>1
      <4> HIDE DEF d
      <4> QED
        BY <1>1, <2>1, <3>2, <4>1, FlowMoves
    <3>4. /\ 1 \in Filters /\ ~ended /\ reader # "done" /\ phase # "ended"
          /\ \A i \in Filters : proc[i] # "dead"
      <4>1. 1 \in Filters /\ \A i \in Filters : 1 \in 1..i
        BY <1>1, <3>1
      <4> QED
        BY <2>1, <2>3, <3>1, <4>1 DEF Drained
    <3>5. Drained'
      BY <1>1, <2>3, <3>1, <3>4 DEF Drained
    <3> QED
      BY <3>3, <3>5
  <2>4. CASE ~Filtered
    <3> DEFINE d == [i \in 1..(LastPipe + 1) |-> 1]
    <3>1. ~ended /\ chan' = chan + 1 /\ UNCHANGED <<feeder, pipe, ended>> /\ req.filters = 0
      BY <1>1, <2>4 DEF Polled, Yield, Filtered
    <3>2. /\ d \in [1..(LastPipe + 1) -> Int] /\ d[1] = 1 /\ d[LastPipe + 1] = 1
          /\ \A i \in 1..LastPipe : pipe'[i] = pipe[i] + d[i] - d[i + 1]
      BY <1>1, <2>2, <3>1
    <3>3. Flow'
      <4> HIDE DEF d
      <4> QED
        BY <1>1, <2>1, <2>2, <3>1, <3>2, FlowMoves
    <3>4. Drained'
      BY <1>1, <2>1, <2>4, <3>1 DEF Drained
    <3> QED
      BY <3>3, <3>4
  <2> QED
    BY <2>3, <2>4
<1> QED
  BY <1>1, <1>2, <1>3 DEF StreamInv

(* The source has nothing more.                                             *)
LEMMA EndKeeps ==
    ASSUME ReadInv, StreamInv, Polled, EndOfSource, Yielded' = Yielded, Exhausted',
           UNCHANGED <<req, phase, got, damaged, proc, reader>>
    PROVE  StreamInv'
<1> USE DEF Early
<1>1. LastPipe' = LastPipe /\ Filters' = Filters /\ Filtered' = Filtered /\ Opened' = Opened
  BY DEF LastPipe, Filters, Filtered, Opened
<1>2. ~Early
  BY DEF Polled, Open, StreamInv, Untouched
<1>3. UNCHANGED <<chan, pipe>> /\ (feeder' = "done" \/ feeder' = feeder)
  BY DEF EndOfSource
<1>4. ASSUME Opened, ~damaged PROVE Flow' /\ Drained'
  <2>1. Flow /\ Drained
    BY <1>4 DEF StreamInv
  <2>2. Flow'
    BY <1>1, <1>3, <2>1 DEF Flow, Counts
  <2>3. ASSUME Filtered PROVE Drained'
    BY <1>1, <1>3, <2>1, <2>3 DEF Drained, EndOfSource
  <2>4. ASSUME ~Filtered PROVE Drained'
    BY <1>1, <1>3, <2>1, <2>4 DEF Drained, EndOfSource
  <2> QED
    BY <2>2, <2>3, <2>4
<1> QED
  BY <1>1, <1>2, <1>4 DEF StreamInv

LEMMA SourceMoves == ASSUME ReadInv, StreamInv, SourceStep PROVE StreamInv'
<1> USE DEF serverVars, tunerVars, pipelineVars, clientVars
<1>1. CASE PollLive
  <2>1. /\ Live /\ Polled /\ UNCHANGED <<req, phase, got, damaged, proc, reader, closed, sent>>
        /\ \/ queue > 0 /\ queue' = queue - 1 /\ Yield
           \/ queue = queue' /\ closed /\ ~(queue > 0) /\ EndOfSource
    BY <1>1 DEF PollLive
  <2>2. Live' /\ sent \in Nat /\ queue \in Nat
    BY <2>1 DEF Live, ReadInv, WebTypeOK
  <2>3. CASE queue > 0 /\ queue' = queue - 1 /\ Yield
    <3>1. Yielded' = Yielded + 1 /\ ~Exhausted
      BY <2>1, <2>2, <2>3 DEF Yielded, Exhausted
    <3> QED
      BY <2>1, <2>3, <3>1, YieldKeeps
  <2>4. CASE queue = queue' /\ closed /\ ~(queue > 0) /\ EndOfSource
    <3>1. Yielded' = Yielded /\ Exhausted'
      BY <2>1, <2>2, <2>4 DEF Yielded, Exhausted
    <3> QED
      BY <2>1, <2>4, <3>1, EndKeeps
  <2> QED
    BY <2>1, <2>3, <2>4
<1>2. CASE ReadFlag \/ Changed
  <2>1. /\ ~Live /\ UNCHANGED <<req, phase, chan, got, ended, feeder, reader, pipe, proc, damaged>>
        /\ source.step \in {"flag", "wait"}
    BY <1>2 DEF ReadFlag, Changed
  <2>2. source'.ranged = source.ranged /\ source'.pos = source.pos
    BY <1>2 DEF ReadFlag, Changed, ReadInv, WebTypeOK, Sources
  <2>3. Yielded' = Yielded /\ ~Exhausted
    BY <2>1, <2>2 DEF Yielded, Exhausted, Live
  <2> QED
    BY <2>1, <2>3, StreamStays
<1>3. CASE ReadFile
  <2>1. /\ ~Live /\ Polled /\ UNCHANGED <<req, phase, got, damaged, proc, reader>>
        /\ source.step = "read" /\ ~Exhausted /\ ~Live'
    BY <1>3 DEF ReadFile, Exhausted, Live
  <2>2. source.pos \in Nat /\ Yielded \in Int /\ (source.ranged => req.range[1] \in Nat)
    <3>1. source.ranged => req.range \in Nat \X Nat
      BY DEF ReadInv, SourceInv, WebTypeOK, Sources
    <3>2. source.ranged => req.range[1] \in Nat
      BY <3>1
    <3> QED
      BY <3>2, YieldedIsInt DEF ReadInv, WebTypeOK, Sources
  <2>3. \/ /\ source'.pos = source.pos + 1 /\ source'.ranged = source.ranged /\ Yield
        \/ /\ source'.pos = source.pos /\ source'.ranged = source.ranged
           /\ source'.step = "end" /\ EndOfSource
        \/ /\ source'.pos = source.pos /\ source'.ranged = source.ranged
           /\ UNCHANGED <<feeder, pipe, chan, ended>>
    BY <1>3 DEF ReadFile, ReadInv, WebTypeOK, Sources
  <2>4. CASE source'.pos = source.pos + 1 /\ source'.ranged = source.ranged /\ Yield
    <3>1. Yielded' = Yielded + 1
      BY <2>1, <2>2, <2>4 DEF Yielded
    <3> QED
      BY <2>1, <2>4, <3>1, YieldKeeps
  <2>5. CASE /\ source'.pos = source.pos /\ source'.ranged = source.ranged
             /\ source'.step = "end" /\ EndOfSource
    <3>1. Yielded' = Yielded /\ Exhausted'
      BY <2>1, <2>5 DEF Yielded, Exhausted
    <3> QED
      BY <2>1, <2>5, <3>1, EndKeeps
  <2>6. CASE /\ source'.pos = source.pos /\ source'.ranged = source.ranged
             /\ UNCHANGED <<feeder, pipe, chan, ended>>
    <3>1. Yielded' = Yielded
      BY <2>1, <2>6 DEF Yielded
    <3> QED
      BY <2>1, <2>6, <3>1, StreamStays
  <2> QED
    BY <2>3, <2>4, <2>5, <2>6
<1> QED
  BY <1>1, <1>2, <1>3 DEF SourceStep

(* A filter takes a unit and gives it on.                                   *)
LEMMA FilterKeeps ==
    ASSUME ReadInv, StreamInv, NEW i \in Filters, FilterUnit(i)
    PROVE  StreamInv'
<1> USE DEF Early
<1>1. /\ proc[i] = "run" /\ pipe[i] > 0 /\ pipe' = [pipe EXCEPT ![i] = @ - 1, ![i + 1] = @ + 1]
      /\ UNCHANGED <<req, phase, chan, got, ended, damaged, proc, reader, feeder, source, sent, queue, closed>>
  BY DEF FilterUnit, Alive, serverVars, tunerVars, clientVars
<1>2. /\ LastPipe' = LastPipe /\ Filters' = Filters /\ Filtered' = Filtered
      /\ Opened' = Opened /\ Yielded \in Int /\ LastPipe \in Nat /\ Yielded' = Yielded
      /\ req.filters \in Nat /\ Filters = 1..req.filters /\ LastPipe = req.filters + 1
      /\ Exhausted' = Exhausted
  BY <1>1, YieldedIsInt, RequestTypes
     DEF LastPipe, Filters, Filtered, Opened, Yielded, Exhausted, Live, ReadInv
<1>3. /\ i \in 1..LastPipe /\ i + 1 \in 1..LastPipe /\ i # i + 1 /\ i \in Nat
      /\ chan \in Nat /\ got \in Nat /\ pipe \in [1..LastPipe -> Nat] /\ WebTypeOK
  BY <1>2 DEF ReadInv, WebTypeOK
<1>4. ~Early
  BY <1>1 DEF StreamInv, Untouched
<1>5. ASSUME Opened, ~damaged PROVE Flow' /\ Drained'
  <2> DEFINE d == [k \in 1..(LastPipe + 1) |-> IF k = i + 1 THEN 1 ELSE 0]
  <2>1. Flow /\ Drained
    BY <1>5 DEF StreamInv
  <2>2. /\ d \in [1..(LastPipe + 1) -> Int] /\ d[1] = 0 /\ d[LastPipe + 1] = 0
        /\ \A k \in 1..LastPipe : d[k] = (IF k = i + 1 THEN 1 ELSE 0) /\ d[k + 1] = (IF k = i THEN 1 ELSE 0)
    <3>1. d \in [1..(LastPipe + 1) -> Int]
      OBVIOUS
    <3>2. \A k \in 1..(LastPipe + 1) : d[k] = IF k = i + 1 THEN 1 ELSE 0
      OBVIOUS
    <3> HIDE DEF d
    <3>3. /\ 1 \in 1..(LastPipe + 1) /\ 1 # i + 1
          /\ LastPipe + 1 \in 1..(LastPipe + 1) /\ LastPipe + 1 # i + 1
      BY <1>2, <1>3
    <3>4. \A k \in 1..LastPipe : /\ k \in 1..(LastPipe + 1) /\ k + 1 \in 1..(LastPipe + 1)
                                 /\ (k + 1 = i + 1 <=> k = i)
      BY <1>2, <1>3
    <3> QED
      BY <3>1, <3>2, <3>3, <3>4
  <2> HIDE DEF d
  <2>3. \A k \in 1..LastPipe : pipe[k] \in Nat /\ pipe'[k] = pipe[k] + d[k] - d[k + 1]
    BY <1>1, <1>3, <2>2
  <2>4. Flow'
    <3>1. chan' + got' = chan + got + 0 /\ Yielded' = Yielded + 0
      BY <1>1, <1>2, <1>3
    <3> QED
      BY <1>1, <1>2, <1>3, <2>1, <2>2, <2>3, <3>1, FlowMoves
  <2>5. ASSUME NEW k \in Filters, proc[k] = "dead"
        PROVE  feeder = "done" /\ \A j \in 1..k : proc[j] = "dead" /\ pipe'[j] = 0
    <3>1. feeder = "done" /\ \A j \in 1..k : proc[j] = "dead" /\ pipe[j] = 0
      BY <2>1, <2>5 DEF Drained
    <3>2. k < i
      <4>1. i \notin 1..k
        BY <1>1, <3>1
      <4> QED
        BY <1>2, <1>3, <4>1
    <3>3. \A j \in 1..k : j \in 1..LastPipe /\ j # i /\ j # i + 1
      BY <1>2, <1>3, <3>2
    <3> QED
      BY <1>1, <1>3, <3>1, <3>3
  <2>6. reader # "done" /\ Filtered
    BY <1>1, <1>2, <1>3, <2>1 DEF Drained, Filtered
  <2>7. Drained'
    BY <1>1, <1>2, <2>1, <2>5, <2>6 DEF Drained
  <2> QED
    BY <2>4, <2>7
<1> QED
  BY <1>1, <1>2, <1>4, <1>5 DEF StreamInv

(* A process ends at the end of its input.                                  *)
LEMMA ExitKeeps ==
    ASSUME ReadInv, StreamInv, NEW i \in Filters, FilterExits(i)
    PROVE  StreamInv'
<1> USE DEF Early
<1>1. /\ proc[i] = "run" /\ proc' = [proc EXCEPT ![i] = "dead"]
      /\ (pipe[i] = 0 /\ ~WriteEndOpen(i)) \/ ~ReadEndOpen(i + 1)
      /\ UNCHANGED <<req, phase, chan, got, ended, damaged, pipe, reader, feeder, source, sent, queue, closed>>
  BY DEF FilterExits, Alive, Exit, serverVars, tunerVars, clientVars
<1>2. /\ LastPipe' = LastPipe /\ Filters' = Filters /\ Filtered' = Filtered
      /\ Opened' = Opened /\ Yielded' = Yielded
      /\ req.filters \in Nat /\ Filters = 1..req.filters /\ LastPipe = req.filters + 1
      /\ Exhausted' = Exhausted
  BY <1>1, RequestTypes DEF LastPipe, Filters, Filtered, Opened, Yielded, Exhausted, Live, ReadInv
<1>3. i \in Nat /\ i > 0 /\ i <= req.filters /\ proc \in [Filters -> {"run", "dead"}]
  BY <1>2 DEF ReadInv, WebTypeOK
<1>4. ~Early
  BY <1>1 DEF StreamInv, Untouched
<1>5. ASSUME Opened, ~damaged PROVE Flow' /\ Drained'
  <2>1. Flow /\ Drained
    BY <1>5 DEF StreamInv
  <2>2. Flow'
    BY <1>1, <1>2, <2>1 DEF Flow, Counts
  <2>3. reader # "done"
    BY <1>1, <2>1 DEF Drained
  <2>4. ReadEndOpen(i + 1)
    <3>1. CASE i + 1 = LastPipe
      BY <2>3, <3>1 DEF ReadEndOpen, ReadInv, WebTypeOK
    <3>2. CASE i + 1 # LastPipe
      <4>1. i + 1 \in Filters /\ i \in 1..(i + 1)
        BY <1>2, <1>3, <3>2
      <4>2. proc[i + 1] # "dead"
        BY <1>1, <2>1, <4>1 DEF Drained
      <4> QED
        BY <1>3, <3>2, <4>1, <4>2 DEF ReadEndOpen
    <3> QED
      BY <3>1, <3>2
  <2>5. pipe[i] = 0 /\ ~WriteEndOpen(i)
    BY <1>1, <2>4
  <2>6. feeder = "done" /\ \A j \in 1..i : j # i => proc[j] = "dead" /\ pipe[j] = 0
    <3>1. CASE i = 1
      BY <2>5, <3>1 DEF WriteEndOpen, ReadInv, WebTypeOK
    <3>2. CASE i # 1
      <4>1. i - 1 \in Filters /\ \A j \in 1..i : j # i => j \in 1..(i - 1)
        BY <1>2, <1>3, <3>2
      <4>2. proc[i - 1] = "dead"
        BY <1>3, <2>5, <3>2, <4>1 DEF WriteEndOpen
      <4> QED
        BY <2>1, <4>1, <4>2 DEF Drained
    <3> QED
      BY <3>1, <3>2
  <2>7. ASSUME NEW k \in Filters, proc'[k] = "dead"
        PROVE  feeder = "done" /\ \A j \in 1..k : proc'[j] = "dead" /\ pipe[j] = 0
    <3>0. \A j \in Filters : proc'[j] = (IF j = i THEN "dead" ELSE proc[j])
      BY <1>1, <1>3
    <3>1. CASE k = i
      <4>1. \A j \in 1..k : j \in Filters
        BY <1>2, <1>3, <3>1
      <4> QED
        BY <2>5, <2>6, <3>0, <3>1, <4>1
    <3>2. CASE k # i
      <4>1. \A j \in 1..k : j \in Filters
        BY <1>2
      <4>2. proc[k] = "dead"
        BY <2>7, <3>0, <3>2
      <4> QED
        BY <2>1, <3>0, <4>1, <4>2 DEF Drained
    <3> QED
      BY <3>1, <3>2
  <2>8. Drained'
    BY <1>1, <1>2, <2>1, <2>3, <2>7 DEF Drained
  <2> QED
    BY <2>2, <2>8
<1> QED
  BY <1>1, <1>2, <1>4, <1>5 DEF StreamInv

LEMMA NothingDies ==
    ASSUME ReadInv, StreamInv, damaged' = damaged \/ damaged', UNCHANGED phase,
           \/ \E i \in Filters : FilterDies(i)
           \/ FeederBreaks
    PROVE  StreamInv'
<1>1. CASE \E i \in Filters : FilterDies(i)
  <2>1. ~Early /\ damaged'
    BY <1>1 DEF FilterDies, Alive, StreamInv, Untouched, Early
  <2> QED
    BY <2>1 DEF StreamInv, Early, Opened
<1>2. CASE FeederBreaks
  <2>1. feeder = "run" /\ proc[1] = "dead" /\ Filtered /\ damaged' = damaged
    BY <1>2 DEF FeederBreaks
  <2>2. 1 \in Filters
    BY <2>1, RequestTypes DEF Filtered, Filters, ReadInv
  <2>3. ~Early /\ ~(Opened /\ ~damaged)
    BY <2>1, <2>2 DEF StreamInv, Untouched, Drained, Early
  <2> QED
    BY <2>1, <2>3 DEF StreamInv, Early, Opened
<1> QED
  BY <1>1, <1>2

LEMMA TaskKeeps == ASSUME ReadInv, StreamInv, ReadOutput \/ EndOfPipeline PROVE StreamInv'
<1> USE DEF Early
<1>1. /\ Filtered /\ reader = "run"
      /\ UNCHANGED <<req, phase, got, damaged, feeder, source, sent, queue, closed>>
  BY DEF ReadOutput, EndOfPipeline, serverVars, tunerVars
<1>2. /\ LastPipe' = LastPipe /\ Filters' = Filters /\ Filtered' = Filtered
      /\ Opened' = Opened /\ Yielded' = Yielded /\ Yielded \in Int /\ LastPipe \in Nat
      /\ req.filters \in Nat /\ Filters = 1..req.filters /\ LastPipe = req.filters + 1
      /\ Exhausted' = Exhausted
  BY <1>1, YieldedIsInt, RequestTypes
     DEF LastPipe, Filters, Filtered, Opened, Yielded, Exhausted, Live, ReadInv
<1>3. chan \in Nat /\ got \in Nat /\ pipe \in [1..LastPipe -> Nat] /\ WebTypeOK /\ req.filters > 0
  BY <1>1 DEF ReadInv, WebTypeOK, Filtered
<1>4. ~Early
  BY <1>1 DEF StreamInv, Untouched
<1>5. ASSUME Opened, ~damaged PROVE Flow' /\ Drained'
  <2>1. Flow /\ Drained
    BY <1>5 DEF StreamInv
  <2>2. ~ended /\ phase # "ended" /\ Open
    BY <1>1, <1>5, <2>1 DEF Drained, Open, Opened
  <2>3. CASE /\ chan' = chan + 1 /\ pipe' = [pipe EXCEPT ![LastPipe] = @ - 1]
             /\ UNCHANGED <<reader, proc, ended>>
    <3> DEFINE d == [k \in 1..(LastPipe + 1) |-> IF k = LastPipe + 1 THEN 1 ELSE 0]
    <3>1. d \in [1..(LastPipe + 1) -> Int]
      OBVIOUS
    <3>2. \A k \in 1..(LastPipe + 1) : d[k] = IF k = LastPipe + 1 THEN 1 ELSE 0
      OBVIOUS
    <3> HIDE DEF d
    <3>3. d[1] = 0 /\ d[LastPipe + 1] = 1
      BY <1>2, <1>3, <3>2
    <3>4. \A k \in 1..LastPipe : /\ d[k] = 0 /\ d[k + 1] = (IF k = LastPipe THEN 1 ELSE 0)
                                 /\ pipe[k] \in Nat
      <4>1. \A k \in 1..LastPipe : /\ k \in 1..(LastPipe + 1) /\ k # LastPipe + 1
                                   /\ k + 1 \in 1..(LastPipe + 1)
                                   /\ (k + 1 = LastPipe + 1 <=> k = LastPipe)
        BY <1>2
      <4> QED
        BY <1>3, <3>2, <4>1
    <3>5. \A k \in 1..LastPipe : pipe'[k] = pipe[k] + d[k] - d[k + 1]
      BY <1>3, <2>3, <3>4
    <3>6. chan' + got' = chan + got + 1 /\ Yielded' = Yielded + 0
      BY <1>1, <1>2, <1>3, <2>3
    <3>7. Flow'
      BY <1>1, <1>2, <1>3, <2>1, <3>1, <3>3, <3>5, <3>6, FlowMoves
    <3>8. \A k \in Filters : \A j \in 1..k : pipe'[j] = pipe[j]
      <4>1. \A k \in Filters : \A j \in 1..k : j \in 1..LastPipe /\ j # LastPipe
        BY <1>2
      <4> QED
        BY <1>3, <2>3, <4>1
    <3>9. Drained'
      BY <1>1, <1>2, <2>1, <2>2, <2>3, <3>8 DEF Drained
    <3> QED
      BY <3>7, <3>9
  <2>4. CASE EndOfPipeline
    <3>1. /\ pipe[LastPipe] = 0 /\ ~WriteEndOpen(LastPipe) /\ reader' = "done" /\ ended'
          /\ proc' = [i \in Filters |-> "dead"] /\ UNCHANGED <<pipe, chan>>
      BY <2>4 DEF EndOfPipeline, Kill
    <3>2. req.filters \in Filters /\ proc[req.filters] = "dead"
      <4>1. LastPipe # 1 /\ LastPipe - 1 = req.filters /\ req.filters \in Filters
        BY <1>2, <1>3
      <4> QED
        BY <1>3, <3>1, <4>1 DEF WriteEndOpen, WebTypeOK
    <3>3. feeder = "done" /\ \A j \in Filters : pipe[j] = 0
      BY <1>2, <2>1, <3>2 DEF Drained
    <3>4. Flow'
      BY <1>1, <1>2, <2>1, <3>1 DEF Flow, Counts
    <3>5. \A k \in Filters : \A j \in 1..k : j \in Filters
      BY <1>2
    <3>6. Drained'
      BY <1>1, <1>2, <2>1, <2>2, <3>1, <3>3, <3>5 DEF Drained
    <3> QED
      BY <3>4, <3>6
  <2> QED
    BY <2>2, <2>3, <2>4 DEF ReadOutput
<1> QED
  BY <1>1, <1>2, <1>4, <1>5 DEF StreamInv

LEMMA SpawnKeeps == ASSUME ReadInv, StreamInv, Spawn PROVE StreamInv'
<1>1. /\ phase = "started" /\ phase' = "peeking" /\ Untouched
      /\ UNCHANGED <<req, pipe, chan, got, ended, damaged, source, sent, queue, closed>>
  BY DEF Spawn, StreamInv, tunerVars, clientVars
<1>2. /\ LastPipe' = LastPipe /\ Filters' = Filters /\ Filtered' = Filtered /\ Yielded' = Yielded
      /\ LastPipe \in Nat /\ req.filters \in Nat /\ Filters = 1..req.filters
  BY <1>1, RequestTypes DEF LastPipe, Filters, Filtered, Yielded, Live, ReadInv
<1>3. ASSUME ~damaged PROVE Flow' /\ Drained'
  <2> DEFINE zero == [i \in 1..(LastPipe + 1) |-> 0]
  <2>1. /\ zero \in [1..(LastPipe + 1) -> Int] /\ zero[1] = 0 /\ zero[LastPipe + 1] = 0
        /\ \A i \in 1..LastPipe : zero[i] = 0 /\ zero[i + 1] = 0
    BY <1>2
  <2> HIDE DEF zero
  <2>2. \A i \in 1..LastPipe : zero[i] = zero[i + 1] + pipe'[i]
    BY <1>1, <2>1 DEF Untouched
  <2>3. Yielded' = 0 /\ chan' + got' = 0
    BY <1>1, <1>2, <1>3 DEF Untouched
  <2>4. \E c \in [1..(LastPipe' + 1) -> Int] :
           /\ c \in [1..(LastPipe' + 1) -> Int]
           /\ c[1] = Yielded' /\ c[LastPipe' + 1] = chan' + got'
           /\ \A i \in 1..LastPipe' : c[i] = c[i + 1] + pipe'[i]
    BY <1>2, <2>1, <2>2, <2>3
  <2>5. Flow'
    BY <2>4 DEF Flow, Counts
  <2>6. CASE Filtered
    <3>1. feeder' = "run" /\ reader' = "run" /\ \A i \in Filters : proc'[i] = "run"
      BY <2>6 DEF Spawn, Processes
    <3>2. Drained'
      BY <1>1, <1>2, <2>6, <3>1 DEF Drained, Untouched
    <3> QED
      BY <2>5, <3>2
  <2>7. CASE ~Filtered
    <3>1. UNCHANGED <<feeder, reader, proc>> /\ Filters = {}
      BY <1>2, <2>7 DEF Spawn, Filtered
    <3>2. LastPipe \in 1..LastPipe /\ pipe[LastPipe] = 0
      BY <1>1, RequestTypes DEF ReadInv, Untouched
    <3>3. ~ended' /\ pipe'[LastPipe'] = 0 /\ ~Filtered' /\ Filters' = {} /\ phase' # "ended"
      BY <1>1, <1>2, <2>7, <3>1, <3>2 DEF Untouched
    <3>4. Drained'
      BY <3>3 DEF Drained
    <3> QED
      BY <2>5, <3>4
  <2> QED
    BY <2>6, <2>7
<1> QED
  BY <1>1, <1>3 DEF StreamInv, Opened

LEMMA ClientKeeps == ASSUME ReadInv, StreamInv, ClientReads \/ ClientSeesEnd PROVE StreamInv'
<1>1. /\ phase = "streaming" /\ phase' \in {"streaming", "ended"}
      /\ UNCHANGED <<req, pipe, ended, damaged, feeder, reader, proc, source, sent, queue, closed>>
  BY DEF ClientReads, ClientSeesEnd, Fail, serverVars, tunerVars, pipelineVars, clientVars
<1>2. /\ LastPipe' = LastPipe /\ Filters' = Filters /\ Filtered' = Filtered /\ Yielded' = Yielded
      /\ Exhausted' = Exhausted
  BY <1>1 DEF LastPipe, Filters, Filtered, Yielded, Exhausted, Live
<1>3. chan' + got' = chan + got /\ (phase' = "ended" => chan' = 0 /\ ended')
  <2>1. chan \in Nat /\ got \in Nat
    BY DEF ReadInv, WebTypeOK
  <2>2. CASE ClientReads
    BY <2>1, <2>2 DEF ClientReads, serverVars
  <2>3. CASE ClientSeesEnd
    BY <2>1, <2>3 DEF ClientSeesEnd, Fail, clientVars
  <2> QED
    BY <2>2, <2>3
<1>4. ASSUME ~damaged PROVE Flow' /\ Drained'
  <2>1. Flow /\ Drained
    BY <1>1, <1>4 DEF StreamInv, Opened
  <2>2. Flow'
    BY <1>1, <1>2, <1>3, <2>1 DEF Flow, Counts
  <2>3. Drained'
    BY <1>1, <1>2, <1>3, <2>1 DEF Drained
  <2> QED
    BY <2>2, <2>3
<1> QED
  BY <1>1, <1>4 DEF StreamInv, Opened

LEMMA TunerMoves ==
    ASSUME ReadInv, StreamInv, TunerOutput \/ TunerEnds \/ StopStreaming
    PROVE  StreamInv'
<1>1. UNCHANGED <<req, phase, source, chan, got, ended, feeder, reader, pipe, proc>>
  BY DEF TunerOutput, TunerEnds, StopStreaming, serverVars, pipelineVars, clientVars
<1>2. Live' = Live /\ sent \in Nat /\ queue \in 0..QueueSize /\ QueueSize \in Nat
  BY <1>1, RequestsAssumption DEF Live, ReadInv, WebTypeOK
<1>3. CASE TunerOutput
  <2>1. /\ ~closed /\ closed' = closed /\ sent' = sent + 1
        /\ queue' = (IF queue < QueueSize THEN queue + 1 ELSE queue)
        /\ (damaged \/ queue = QueueSize) => damaged'
    BY <1>3 DEF TunerOutput
  <2>2. /\ ~damaged' => Yielded' = Yielded
        /\ Exhausted => Exhausted'
    BY <1>1, <1>2, <2>1 DEF Yielded, Exhausted
  <2> QED
    BY <1>1, <2>1, <2>2, StreamStays
<1>4. CASE TunerEnds \/ StopStreaming
  <2>1. UNCHANGED <<sent, queue, damaged>> /\ closed'
    BY <1>4 DEF TunerEnds, StopStreaming
  <2>2. Yielded' = Yielded /\ (Exhausted => Exhausted')
    BY <1>1, <1>2, <2>1 DEF Yielded, Exhausted
  <2> QED
    BY <1>1, <2>1, <2>2, StreamStays
<1> QED
  BY <1>3, <1>4

LEMMA QueryMoves == ASSUME ReadInv, StreamInv, QueryRecord PROVE StreamInv'
<1>1. /\ phase = "new" /\ ~Live /\ ~Live' /\ phase' \in {"queried", "error"}
      /\ UNCHANGED <<req, chan, got, ended, feeder, reader, pipe, proc, damaged>>
      /\ source.end = 0
  BY DEF QueryRecord, ReadInv, SourceInv, tunerVars, pipelineVars, clientVars, Live
<1>2. Yielded = 0
  BY <1>1 DEF Yielded, ReadInv, SourceInv
<1>3. Yielded' = 0
  <2>1. CASE source' = source
    BY <1>1, <1>2, <2>1 DEF Yielded
  <2> DEFINE range == ComputeContentRange
  <2>2. CASE source' = [source EXCEPT !.ranged = range # <<>>,
                                      !.pos = IF range = <<>> THEN 0 ELSE range[1],
                                      !.end = IF range = <<>> THEN MaxUnits ELSE range[2] + 1]
    <3>1. source'.ranged = (range # <<>>) /\ source'.pos = (IF range = <<>> THEN 0 ELSE range[1])
      BY <2>2 DEF ReadInv, WebTypeOK, Sources
    <3>2. range # <<>> => range = req'.range /\ req'.range \in Nat \X Nat
      BY <1>1, RequestTypes DEF ComputeContentRange, ReadInv
    <3>3. range # <<>> => range[1] \in Nat
      BY <3>2
    <3>4. (source'.ranged => range # <<>>) /\ (range # <<>> => source'.ranged)
      BY <3>1
    <3> HIDE DEF range
    <3> QED
      BY <1>1, <3>1, <3>2, <3>3, <3>4 DEF Yielded
  <2> QED
    BY <2>1, <2>2 DEF QueryRecord
<1>4. ~(Opened /\ Exhausted)
  BY <1>1 DEF Opened
<1> QED
  BY <1>1, <1>2, <1>3, <1>4, StreamStays DEF Early

LEMMA StreamKeeps == ASSUME ReadInv, StreamInv, [Next]_vars PROVE StreamInv'
<1> USE DEF tunerVars, pipelineVars, clientVars, serverVars
<1>1. ASSUME UNCHANGED <<req, source, sent, queue, closed>>
      PROVE  Yielded' = Yielded /\ Exhausted' = Exhausted
  BY <1>1 DEF Yielded, Exhausted, Live
<1>2. CASE UNCHANGED webVars
  BY <1>1, <1>2, StreamStays DEF webVars
<1>3. CASE StartStreaming
  <2>1. /\ phase = "new" /\ phase' \in {"started", "error"}
        /\ UNCHANGED <<req, source, sent, queue, closed, chan, got, ended, damaged>>
        /\ UNCHANGED <<feeder, reader, pipe, proc>>
    BY <1>3 DEF StartStreaming
  <2> QED
    BY <1>1, <2>1, StreamStays DEF Early
<1>4. CASE OpenContent
  <2>1. /\ phase = "queried" /\ phase' \in {"started", "error"}
        /\ UNCHANGED <<req, sent, queue, closed, chan, got, ended, damaged>>
        /\ UNCHANGED <<feeder, reader, pipe, proc>>
    BY <1>4 DEF OpenContent
  <2>2. source'.pos = source.pos /\ source'.ranged = source.ranged /\ source'.step = source.step
    BY <1>4 DEF OpenContent, ReadInv, WebTypeOK, Sources
  <2>3. Yielded' = Yielded /\ Exhausted' = Exhausted
    BY <2>1, <2>2 DEF Yielded, Exhausted, Live
  <2> QED
    BY <2>1, <2>3, StreamStays DEF Early
<1>5. CASE CannotFilter \/ CannotSpawn \/ NoPacket \/ ClientLeaves
  <2>1. /\ phase' \in {"error", "gone"}
        /\ UNCHANGED <<req, source, sent, queue, closed, chan, got, ended, damaged>>
        /\ UNCHANGED <<feeder, reader, pipe, proc>>
    BY <1>5 DEF CannotFilter, CannotSpawn, Refused, NoPacket, ClientLeaves, Fail
  <2> QED
    BY <1>1, <2>1, StreamStays
<1>6. CASE Peek
  <2>1. /\ phase = "peeking" /\ phase' = "streaming"
        /\ UNCHANGED <<req, source, sent, queue, closed, chan, got, ended, damaged>>
        /\ UNCHANGED <<feeder, reader, pipe, proc>>
    BY <1>6 DEF Peek
  <2> QED
    BY <1>1, <2>1, StreamStays
<1>7. CASE Restart
  <2>1. phase' = "gone"
    BY <1>7 DEF Restart
  <2> QED
    BY <2>1 DEF StreamInv, Opened
<1>8. CASE FeederBreaks \/ \E i \in Filters : FilterDies(i)
  <2>1. UNCHANGED phase /\ (damaged' = damaged \/ damaged')
    BY <1>8 DEF FeederBreaks, FilterDies
  <2> QED
    BY <1>8, <2>1, NothingDies
<1>9. UNCHANGED vars => UNCHANGED webVars
  BY DEF vars
<1> QED
  BY <1>2, <1>3, <1>4, <1>5, <1>6, <1>7, <1>8, <1>9, TunerMoves, QueryMoves, SpawnKeeps, SourceMoves,
     FilterKeeps, ExitKeeps, TaskKeeps, ClientKeeps
     DEF Next, HandlerStep, TaskStep, ProcessStep, ClientStep

LEMMA InitFlow == ASSUME Init PROVE StreamInv
<1>1. Untouched /\ ~Opened
  BY DEF Init, Untouched, Opened, Yielded
<1> QED
  BY <1>1 DEF StreamInv, Opened

(* The inductive invariant of a stream: what the source gave is what is in  *)
(* the pipes and what the client has, and what ended before had nothing     *)
(* left to give.                                                            *)
THEOREM UnitsAreKept == Spec => []StreamInv
<1>1. Init => StreamInv
  BY InitFlow
<1>2. ReadInv /\ StreamInv /\ [Next]_vars => StreamInv'
  BY StreamKeeps
<1> QED
  BY <1>1, <1>2, ReadersKeep, PTL DEF Spec

LEMMA EndedHasAll ==
    ASSUME ReadInv, StreamInv, phase = "ended", ~damaged
    PROVE  Exhausted /\ Yielded = got
<1>1. Flow /\ Drained /\ chan = 0 /\ ended
  BY DEF StreamInv, Opened, Drained
<1>2. /\ LastPipe = req.filters + 1 /\ req.filters \in Nat /\ Filters = 1..req.filters
      /\ pipe \in [1..LastPipe -> Nat] /\ WebTypeOK
  BY RequestTypes DEF ReadInv, LastPipe, Filters, WebTypeOK
<1>3. CASE Filtered
  <2>1. reader = "done" /\ pipe[LastPipe] = 0 /\ \A i \in Filters : proc[i] = "dead"
    BY <1>1, <1>3 DEF Drained
  <2>2. req.filters \in Filters
    BY <1>2, <1>3 DEF Filtered
  <2>3. feeder = "done" /\ \A j \in 1..req.filters : pipe[j] = 0
    BY <1>1, <2>1, <2>2 DEF Drained
  <2>4. \A j \in 1..LastPipe : pipe[j] = 0
    BY <1>2, <2>1, <2>3
  <2>5. Yielded = chan + got
    BY <1>1, <1>2, <2>4, EmptyPipes DEF Flow
  <2> QED
    BY <1>1, <1>3, <2>3, <2>5 DEF Drained, ReadInv, WebTypeOK
<1>4. CASE ~Filtered
  <2>1. LastPipe = 1
    BY <1>2, <1>4 DEF Filtered
  <2>2. Exhausted /\ \A j \in 1..LastPipe : pipe[j] = 0
    BY <1>1, <1>4, <2>1 DEF Drained
  <2>3. Yielded = chan + got
    BY <1>1, <1>2, <2>2, EmptyPipes DEF Flow
  <2> QED
    BY <1>1, <2>2, <2>3 DEF ReadInv, WebTypeOK
<1> QED
  BY <1>3, <1>4

(* A stream that ends normally was complete (do_streaming, streaming,       *)
(* content_stream and CommandPipeline), and has the announced length, that  *)
(* of a record as long as no other recording has its content path.          *)
THEOREM StreamsAreComplete == Spec => []EndMeansComplete
<1>1. ReadInv /\ StreamInv => EndMeansComplete
  <2> SUFFICES ASSUME ReadInv, StreamInv, phase = "ended", ~damaged
               PROVE  /\ Live => got = sent
                      /\ ~Live /\ Alone(TheRecord) =>
                            /\ ~source.ranged => got = content[TheRecord] /\ ~Writes(TheRecord)
                            /\ length # NoLength => got = length
    BY DEF EndMeansComplete
  <2>1. Exhausted /\ Yielded = got /\ Running
    BY EndedHasAll DEF Running, Opened
  <2>2. Live => got = sent
    BY <2>1 DEF Exhausted, Yielded, ReadInv, WebTypeOK
  <2> SUFFICES ASSUME ~Live, Alone(TheRecord)
               PROVE  /\ ~source.ranged => got = content[TheRecord] /\ ~Writes(TheRecord)
                      /\ length # NoLength => got = length
    BY <2>2
  <2>3. Undisturbed /\ source.end > 0
    BY <2>1 DEF ReadInv, SourceInv, Undisturbed
  <2>4. source.pos = IF source.ranged THEN source.end ELSE content[TheRecord]
    BY <2>1, <2>3 DEF Exhausted, ReadInv, ContentInv
  <2>5. ~source.ranged => TheRecord \in Sealed /\ got = content[TheRecord]
    BY <2>1, <2>4 DEF Exhausted, Yielded, ReadInv, SourceInv, WebTypeOK, Sources
  <2>6. ASSUME source.ranged, length # NoLength PROVE got = length
    <3>1. req.range \in Nat \X Nat /\ source.end = req.range[2] + 1 /\ source.pos = source.end
      BY <2>3, <2>4, <2>6 DEF ReadInv, SourceInv
    <3>2. req.range[1] \in Nat /\ req.range[2] \in Nat
      BY <3>1
    <3> QED
      BY <2>1, <2>6, <3>1, <3>2 DEF Yielded, Bytes, ReadInv, SourceInv
  <2>7. ~source.ranged /\ length # NoLength => got = length
    BY <2>3, <2>5 DEF ReadInv, ContentInv
  <2> QED
    BY <2>5, <2>6, <2>7 DEF Sealed
<1> QED
  BY <1>1, ReadersKeep, UnitsAreKept, PTL
=============================================================================
