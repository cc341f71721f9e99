----------------------------- MODULE OnairProofs -----------------------------
(***************************************************************************)
(* Proofs about Onair for all services, trackers, clients and bounds.       *)
(***************************************************************************)
EXTENDS Onair, SequenceTheorems, FiniteSetTheorems, TLAPS

(***************************************************************************)
(* What the operators of the community modules return.                      *)
(***************************************************************************)
LEMMA SetToSeqLists ==
    ASSUME NEW S, IsFiniteSet(S)
    PROVE  /\ SetToSeq(S) \in Seq(S)
           /\ DOMAIN SetToSeq(S) = 1..Cardinality(S)
           /\ \A x \in S : \E i \in DOMAIN SetToSeq(S) : SetToSeq(S)[i] = x
           /\ IsInjective(SetToSeq(S))
<1> DEFINE n == Cardinality(S)
<1>1. n \in Nat /\ ExistsBijection(1..n, S)
  BY FS_CardinalityType
<1>2. \E f \in [1..n -> S] : IsInjective(f)
  BY <1>1 DEF ExistsBijection, Bijection, Injection, IsInjective
<1>3. SetToSeq(S) \in [1..n -> S] /\ IsInjective(SetToSeq(S))
  BY <1>2 DEF SetToSeq
<1>4. SetToSeq(S) \in Injection(1..n, S)
  BY <1>3 DEF Injection
<1>5. IsFiniteSet(1..n) /\ Cardinality(1..n) = n
  BY <1>1, FS_Interval
<1>6. SetToSeq(S) \in Surjection(1..n, S)
  BY <1>4, <1>5, FS_Injection
<1>7. \A x \in S : \E i \in 1..n : SetToSeq(S)[i] = x
  BY <1>6 DEF Surjection
<1>8. SetToSeq(S) \in Seq(S)
  BY <1>1, <1>3
<1> QED
  BY <1>3, <1>7, <1>8

LEMMA MaxOfBounded ==
    ASSUME NEW n \in Nat, NEW S \in SUBSET (0..n), S # {}
    PROVE  Max(S) \in S /\ \A y \in S : y <= Max(S)
<1> DEFINE T == {x \in 0..n : n - x \in S}
<1>1. \A x \in T : x \in Nat /\ x \in 0..n /\ n - x \in S
  OBVIOUS
<1>2. ASSUME NEW x \in S PROVE n - x \in T /\ x \in Int
  <2>1. x \in 0..n
    OBVIOUS
  <2>2. n - x \in 0..n /\ n - (n - x) = x
    BY <2>1
  <2> QED
    BY <2>1, <2>2
<1> HIDE DEF T
<1>3. T \subseteq Nat /\ T # {}
  BY <1>1, <1>2
<1>4. PICK m \in T : \A y \in T : ~(<<y, m>> \in OpToRel(<, Nat))
  <2>1. IsWellFoundedOn(OpToRel(<, Nat), Nat)
    BY NatLessThanWellFounded
  <2> QED
    BY <1>3, <2>1, WFMin
<1>5. n - m \in S /\ \A y \in S : n - m >= y
  <2>1. ASSUME NEW y \in S PROVE n - m >= y
    <3>1. n - y \in T /\ y \in Int /\ n - y \in Nat /\ m \in Nat
      BY <1>1, <1>2
    <3>2. ~(<<n - y, m>> \in OpToRel(<, Nat))
      BY <1>4, <3>1
    <3>3. ~(n - y < m)
      BY <3>1, <3>2 DEF OpToRel
    <3> QED
      BY <3>1, <3>3
  <2> QED
    BY <1>1, <2>1
<1>6. \E x \in S : \A y \in S : x >= y
  BY <1>5
<1>7. Max(S) \in S /\ \A y \in S : Max(S) >= y
  BY <1>6 DEF Max
<1> QED
  BY <1>7

LEMMA AppendIsTyped ==
    ASSUME NEW T, NEW q \in Seq(T), NEW x \in T
    PROVE  /\ Append(q, x) \in Seq(T) /\ Len(Append(q, x)) = Len(q) + 1
           /\ DOMAIN q = 1..Len(q) /\ DOMAIN Append(q, x) = 1..Len(q) + 1
           /\ \A i \in 1..Len(q) : Append(q, x)[i] = q[i]
           /\ Append(q, x)[Len(q) + 1] = x
BY AppendProperties

LEMMA TailIsTyped ==
    ASSUME NEW T, NEW q \in Seq(T), q # <<>>
    PROVE  /\ Head(q) \in T /\ Head(q) = q[1]
           /\ Tail(q) \in Seq(T) /\ Len(Tail(q)) = Len(q) - 1 /\ Len(q) \in Nat /\ Len(q) >= 1
           /\ DOMAIN q = 1..Len(q) /\ DOMAIN Tail(q) = 1..Len(q) - 1
           /\ \A i \in 1..Len(q) - 1 : Tail(q)[i] = q[i + 1]
BY HeadTailProperties

(***************************************************************************)
(* Types.                                                                   *)
(***************************************************************************)
(* A tracker of the configuration never stops: only a temporal one does.    *)
ShapedTracker(t) ==
    tracker[t] = [on |-> tracker[t].on, svcs |-> tracker[t].svcs, todo |-> tracker[t].todo,
                  out |-> tracker[t].out, entries |-> tracker[t].entries]
TrackersAreShaped ==
    \A t \in DOMAIN tracker :
       ShapedTracker(t) /\ (tracker[t].on = "stopping" => t \in Streams)
TypeInv == TypeOK /\ config \in Configs /\ TrackersAreShaped

AiredType == aired \in [Services -> 1..MaxVersion] /\ services \subseteq Services
TrackerType ==
    /\ DOMAIN tracker \subseteq Names /\ TrackersAreShaped
    /\ \A t \in DOMAIN tracker : tracker[t].out \subseteq Notices
MailType == mail \in Seq(Messages) /\ Len(mail) <= MailSize
CacheType == DOMAIN cache \subseteq Services /\ \A s \in DOMAIN cache : cache[s] \in 1..MaxVersion
SubType == registered \in BOOLEAN /\ inbox \in Seq(Notices) /\ view \in [Services -> 0..MaxVersion]

LEMMA TypesTogether ==
    TypeInv <=> /\ config \in Configs /\ AiredType /\ TrackerType /\ MailType /\ CacheType
                /\ SubType /\ fetching \subseteq Services
BY DEF TypeInv, TypeOK, AiredType, TrackerType, MailType, CacheType, SubType

LEMMA ProgramIsTyped ==
    ASSUME AiredType, NEW s \in Services
    PROVE  /\ Program(s, aired[s]) \in 0..MaxVersion
           /\ [s |-> s, program |-> Program(s, aired[s])] \in Notices
<1>1. aired[s] \in 1..MaxVersion /\ MaxVersion \in Nat
  BY BoundsAssumption DEF AiredType
<1>2. Program(s, aired[s]) \in 0..MaxVersion
  BY <1>1 DEF Program, None
<1> QED
  BY <1>2 DEF Notices

LEMMA PostIsTyped ==
    ASSUME MailType, NEW m \in Messages, Post(m)
    PROVE  MailType'
<1>1. Len(mail) < MailSize /\ mail' = Append(mail, m) /\ Len(mail) \in Nat /\ MailSize \in Nat
  BY BoundsAssumption, LenProperties DEF Post, MailType
<1>2. mail' \in Seq(Messages) /\ Len(mail') = Len(mail) + 1
  BY <1>1, AppendIsTyped DEF MailType
<1> QED
  BY <1>1, <1>2 DEF MailType

LEMMA ReceiveIsTyped ==
    ASSUME MailType, NEW kind, Receive(kind)
    PROVE  MailType' /\ Head(mail) \in Messages /\ Head(mail).kind = kind
<1>1. mail # <<>> /\ mail' = Tail(mail) /\ Head(mail).kind = kind
  BY DEF Receive
<1>2. /\ Head(mail) \in Messages /\ mail' \in Seq(Messages)
      /\ Len(mail') = Len(mail) - 1 /\ Len(mail) \in Nat /\ MailSize \in Nat
  BY <1>1, TailIsTyped, BoundsAssumption DEF MailType
<1> QED
  BY <1>1, <1>2 DEF MailType

LEMMA ArgsAreTyped ==
    ASSUME NEW m \in Messages
    PROVE  /\ m.kind = "ServicesUpdated" => m.arg \in SUBSET Services
           /\ m.kind = "SpawnTemporalTracker" => m.arg \in Streams
           /\ m.kind = "TrackerStopped" => m.arg \in Streams
           /\ m.kind = "OnairProgramChanged" =>
                /\ m.arg \in Notices /\ m.arg.s \in Services /\ m.arg.program \in 0..MaxVersion
BY DEF Messages, Notices

LEMMA MessagesAreTyped ==
    /\ \A S \in SUBSET Services : Msg("ServicesUpdated", S) \in Messages
    /\ \A t \in Streams : Msg("SpawnTemporalTracker", t) \in Messages
                          /\ Msg("TrackerStopped", t) \in Messages
    /\ \A o \in Notices : Msg("OnairProgramChanged", o) \in Messages
BY DEF Messages, Msg

(* A step of one tracker, given what it becomes.                            *)
LEMMA TrackerChange ==
    ASSUME TrackerType, NEW t \in DOMAIN tracker, NEW r,
           tracker' = [tracker EXCEPT ![t] = r],
           r = [on |-> r.on, svcs |-> r.svcs, todo |-> r.todo, out |-> r.out, entries |-> r.entries],
           r.on = "stopping" => t \in Streams, r.out \subseteq Notices
    PROVE  TrackerType'
<1>1. /\ DOMAIN tracker' = DOMAIN tracker
      /\ \A x \in DOMAIN tracker' : tracker'[x] = IF x = t THEN r ELSE tracker[x]
  OBVIOUS
<1>2. Notices' = Notices /\ Names' = Names
  BY DEF Notices, Names
<1>3. ASSUME NEW x \in DOMAIN tracker'
      PROVE  /\ ShapedTracker(x)' /\ (tracker'[x].on = "stopping" => x \in Streams)
             /\ tracker'[x].out \subseteq Notices
  <2>1. CASE x = t
    BY <1>1, <2>1 DEF ShapedTracker
  <2>2. CASE x # t
    BY <1>1, <2>2 DEF ShapedTracker, TrackerType, TrackersAreShaped
  <2> QED
    BY <2>1, <2>2
<1> QED
  BY <1>1, <1>2, <1>3 DEF TrackerType, TrackersAreShaped

LEMMA TypesStay ==
    /\ AiredType /\ UNCHANGED <<aired, services>> => AiredType'
    /\ TrackerType /\ UNCHANGED tracker => TrackerType'
    /\ MailType /\ UNCHANGED mail => MailType'
    /\ CacheType /\ UNCHANGED cache => CacheType'
    /\ SubType /\ UNCHANGED <<registered, inbox, view>> => SubType'
BY DEF AiredType, TrackerType, TrackersAreShaped, ShapedTracker, MailType, CacheType, SubType,
       Notices, Names, Messages

LEMMA TypesTogetherNext ==
    /\ config' \in Configs /\ AiredType' /\ TrackerType' /\ MailType' /\ CacheType'
    /\ SubType' /\ fetching' \subseteq Services
    => TypeInv'
BY DEF TypeInv, TypeOK, AiredType, TrackerType, MailType, CacheType, SubType, Notices, Names, Messages

LEMMA WorldKeepsTypes ==
    ASSUME TypeInv, World \/ OpenEventSource \/ CloseEventSource, ~RegisterEmitter
    PROVE  TypeInv'
<1> USE TypesTogether, TypesTogetherNext DEF airVars, streamVars, mgrVars, remoteVars, subVars
<1>0. config \in Configs /\ AiredType /\ TrackerType /\ MailType /\ CacheType /\ SubType
      /\ fetching \subseteq Services /\ config.services \subseteq Services
      /\ config.streams \subseteq Streams
  BY ConfigsAssumption
<1>1. ASSUME NEW s \in config.services, Broadcast(s) PROVE TypeInv'
  <2>1. /\ LastChange < MaxVersion /\ aired' = [aired EXCEPT ![s] = LastChange + 1]
        /\ UNCHANGED <<config, services, tracker, cache, mail, fetching, registered, inbox, view>>
    BY <1>1 DEF Broadcast
  <2>2. s \in Services /\ aired \in [Services -> 1..MaxVersion] /\ MaxVersion \in Nat
    BY <1>0, BoundsAssumption DEF AiredType
  <2>3. {aired[x] : x \in Services} \in SUBSET (0..MaxVersion) /\ {aired[x] : x \in Services} # {}
    BY <2>2
  <2>4. LastChange \in {aired[x] : x \in Services}
    BY <2>2, <2>3, MaxOfBounded DEF LastChange
  <2>5. LastChange + 1 \in 1..MaxVersion
    BY <2>1, <2>2, <2>4
  <2>6. AiredType'
    BY <1>0, <2>1, <2>2, <2>5 DEF AiredType
  <2>7. TrackerType' /\ MailType' /\ CacheType' /\ SubType'
    BY <1>0, <2>1, TypesStay
  <2>8. config' \in Configs /\ fetching' \subseteq Services
    BY <1>0, <2>1
  <2> QED
    BY <2>6, <2>7, <2>8, TypesTogetherNext
<1>2. ASSUME Scan PROVE TypeInv'
  <2>1. PICK found \in SUBSET config.services :
           services' = found /\ Post(Msg("ServicesUpdated", found))
    BY <1>2 DEF Scan
  <2>2. UNCHANGED <<config, aired, tracker, cache, fetching, registered, inbox, view>>
    BY <1>2 DEF Scan
  <2>3. MailType' /\ services' \subseteq Services
    BY <1>0, <2>1, PostIsTyped, MessagesAreTyped
  <2>4. AiredType'
    BY <1>0, <2>2, <2>3 DEF AiredType
  <2> QED
    BY <1>0, <2>2, <2>3, <2>4, TypesStay
<1>3. ASSUME NEW t \in Streams, OpenStream(t) PROVE TypeInv'
  <2>1. /\ Post(Msg("SpawnTemporalTracker", t))
        /\ UNCHANGED <<config, services, aired, tracker, cache, fetching, registered, inbox, view>>
    BY <1>3 DEF OpenStream
  <2>2. MailType'
    BY <1>0, <2>1, PostIsTyped, MessagesAreTyped
  <2> QED
    BY <1>0, <2>1, <2>2, TypesStay
<1>4. ASSUME OpenEventSource \/ CloseEventSource \/ \E t \in Streams : CloseStream(t)
      PROVE  TypeInv'
  <2>1. UNCHANGED <<config, services, aired, tracker, cache, mail, fetching, registered, inbox, view>>
    BY <1>4 DEF OpenEventSource, CloseEventSource, CloseStream
  <2> QED
    BY <1>0, <2>1, TypesStay
<1> QED
  BY <1>1, <1>2, <1>3, <1>4 DEF World

LEMMA TrackersKeepTypes ==
    ASSUME TypeInv, NEW t \in Names, TrackerStep(t)
    PROVE  TypeInv'
<1> USE TypesTogether, TypesTogetherNext DEF airVars, streamVars, mgrVars, remoteVars, subVars
<1>0. config \in Configs /\ AiredType /\ TrackerType /\ MailType /\ CacheType /\ SubType
      /\ fetching \subseteq Services
  OBVIOUS
<1>1. /\ t \in DOMAIN tracker
      /\ UNCHANGED <<config, services, aired, cache, fetching, registered, inbox, view>>
  BY DEF TrackerStep, Poll, Track, BrokenLine, TunerUnavailable, EmitChanged, SetTimer, Stopping, Busy
<1>2. ShapedTracker(t) /\ (tracker[t].on = "stopping" => t \in Streams)
      /\ tracker[t].out \subseteq Notices
  BY <1>0, <1>1 DEF TrackerType, TrackersAreShaped
<1>3. SUFFICES TrackerType' /\ MailType'
  BY <1>0, <1>1, TypesStay
<1>4. ASSUME NEW on, NEW todo, NEW entries, NEW out,
             on = "stopping" => t \in Streams, out \subseteq Notices,
             tracker' = [tracker EXCEPT ![t] = [on |-> on, svcs |-> tracker[t].svcs,
                            todo |-> todo, out |-> out, entries |-> entries]]
      PROVE  TrackerType'
  <2> DEFINE r == [on |-> on, svcs |-> tracker[t].svcs, todo |-> todo, out |-> out, entries |-> entries]
  <2>1. r.on = on /\ r.out = out
        /\ r = [on |-> r.on, svcs |-> r.svcs, todo |-> r.todo, out |-> r.out, entries |-> r.entries]
    OBVIOUS
  <2>2. tracker' = [tracker EXCEPT ![t] = r]
    BY <1>4
  <2> HIDE DEF r
  <2> QED
    BY <1>0, <1>1, <1>4, <2>1, <2>2, TrackerChange
<1> DEFINE tr == tracker[t]
           Is(on, todo, entries, out) ==
              tracker' = [tracker EXCEPT ![t] = [on |-> on, svcs |-> tr.svcs,
                             todo |-> todo, out |-> out, entries |-> entries]]
<1>5. CASE Poll(t) \/ SetTimer(t)
  <2>1. /\ \/ Is("polling", Matches(t), tr.entries, tr.out)
           \/ Is("idle", tr.todo, tr.entries, tr.out)
        /\ mail' = mail
    BY <1>1, <1>2, <1>5 DEF Poll, SetTimer, ShapedTracker
  <2> QED
    BY <1>0, <1>2, <1>4, <2>1, TypesStay
<1>6. ASSUME NEW s \in Services, Track(t, s) \/ BrokenLine(t, s) \/ TunerUnavailable(t, s)
      PROVE  TrackerType' /\ MailType'
  <2> DEFINE read == [tr.entries EXCEPT ![s] = aired[s] % VersionSize]
             told == [s |-> s, program |-> Program(s, aired[s])]
  <2>1. told \in Notices /\ tr.on \in {tr.on}
    BY <1>0, ProgramIsTyped
  <2>2. mail' = mail /\ tr.on = "polling"
    BY <1>6 DEF Track, BrokenLine, TunerUnavailable, Busy
  <2>3. CASE Track(t, s)
    <3>1. \/ Is(tr.on, tr.todo \ {s}, read, {told})
          \/ Is(tr.on, tr.todo \ {s}, read, {})
      <4>1. PICK out \in {{told}, {}} :
               tracker' = [tracker EXCEPT ![t].todo = @ \ {s},
                             ![t].entries[s] = aired[s] % VersionSize, ![t].out = out]
        BY <2>3 DEF Track
      <4>2. [tr EXCEPT !.todo = @ \ {s}, !.entries = read, !.out = out] =
              [on |-> tr.on, svcs |-> tr.svcs, todo |-> tr.todo \ {s}, out |-> out, entries |-> read]
        <5> DEFINE todo == tr.todo \ {s}
                   r1 == [tr EXCEPT !.todo = todo]
                   r2 == [r1 EXCEPT !.entries = read]
        <5>1. r1 = [on |-> tr.on, svcs |-> tr.svcs, todo |-> tr.todo \ {s}, out |-> tr.out,
                    entries |-> tr.entries]
          <6> HIDE DEF todo, read
          <6>1. r1 = [on |-> tr.on, svcs |-> tr.svcs, todo |-> todo, out |-> tr.out,
                      entries |-> tr.entries]
            BY <1>2 DEF ShapedTracker
          <6> QED
            BY <6>1 DEF todo
        <5>2. r2 = [on |-> tr.on, svcs |-> tr.svcs, todo |-> tr.todo \ {s}, out |-> tr.out,
                    entries |-> read]
          <6> HIDE DEF r1, read
          <6> QED
            BY <5>1
        <5>3. [r2 EXCEPT !.out = out] = [on |-> tr.on, svcs |-> tr.svcs, todo |-> tr.todo \ {s},
                                         out |-> out, entries |-> read]
          <6> HIDE DEF r1, r2, read, told
          <6> QED
            BY <5>2
        <5>4. [tr EXCEPT !.todo = @ \ {s}, !.entries = read, !.out = out] = [r2 EXCEPT !.out = out]
          OBVIOUS
        <5> QED
          BY <5>3, <5>4
      <4>3. tracker' = [tracker EXCEPT ![t] = [tr EXCEPT !.todo = @ \ {s}, !.entries = read, !.out = out]]
        BY <1>1, <1>2, <4>1 DEF ShapedTracker
      <4> QED
        BY <4>1, <4>2, <4>3
    <3> HIDE DEF told, read
    <3> QED
      BY <1>0, <1>4, <2>1, <2>2, <3>1, TypesStay
  <2>4. CASE BrokenLine(t, s)
    <3>1. Is(tr.on, tr.todo \ {s}, read, tr.out)
      <4>1. tracker' = [tracker EXCEPT ![t].todo = @ \ {s},
                          ![t].entries[s] = aired[s] % VersionSize]
        BY <2>4 DEF BrokenLine
      <4>2. [tr EXCEPT !.todo = @ \ {s}, !.entries = read] =
              [on |-> tr.on, svcs |-> tr.svcs, todo |-> tr.todo \ {s}, out |-> tr.out, entries |-> read]
        <5> DEFINE todo == tr.todo \ {s}
                   r1 == [tr EXCEPT !.todo = todo]
                   r2 == [r1 EXCEPT !.entries = read]
        <5>1. r1 = [on |-> tr.on, svcs |-> tr.svcs, todo |-> tr.todo \ {s}, out |-> tr.out,
                    entries |-> tr.entries]
          <6> HIDE DEF todo, read
          <6>1. r1 = [on |-> tr.on, svcs |-> tr.svcs, todo |-> todo, out |-> tr.out,
                      entries |-> tr.entries]
            BY <1>2 DEF ShapedTracker
          <6> QED
            BY <6>1 DEF todo
        <5>2. r2 = [on |-> tr.on, svcs |-> tr.svcs, todo |-> tr.todo \ {s}, out |-> tr.out,
                    entries |-> read]
          <6> HIDE DEF r1, read
          <6> QED
            BY <5>1
        <5>3. [tr EXCEPT !.todo = @ \ {s}, !.entries = read] = r2
          OBVIOUS
        <5> QED
          BY <5>2, <5>3
      <4>3. tracker' = [tracker EXCEPT ![t] = [tr EXCEPT !.todo = @ \ {s}, !.entries = read]]
        BY <1>1, <1>2, <4>1 DEF ShapedTracker
      <4> QED
        BY <4>2, <4>3
    <3> HIDE DEF told, read
    <3> QED
      BY <1>0, <1>2, <1>4, <2>2, <3>1, TypesStay
  <2>5. CASE TunerUnavailable(t, s)
    <3>1. CASE t = LOCAL0
      <4>1. Is(tr.on, tr.todo \ {s}, tr.entries, tr.out)
        BY <1>1, <1>2, <2>5, <3>1 DEF TunerUnavailable, ShapedTracker
      <4> QED
        BY <1>0, <1>2, <1>4, <2>2, <4>1, TypesStay
    <3>2. CASE t # LOCAL0
      <4>1. Is("stopping", {}, tr.entries, tr.out) /\ t \in Streams
        BY <1>1, <1>2, <2>5, <3>2 DEF TunerUnavailable, ShapedTracker, Names
      <4> QED
        BY <1>0, <1>2, <1>4, <2>2, <4>1, TypesStay
    <3> QED
      BY <3>1, <3>2
  <2> QED
    BY <1>6, <2>3, <2>4, <2>5
<1>7. CASE EmitChanged(t)
  <2>1. PICK o \in tr.out : Post(Msg("OnairProgramChanged", o))
    BY <1>7 DEF EmitChanged
  <2>2. MailType'
    BY <1>0, <1>2, <2>1, PostIsTyped, MessagesAreTyped
  <2>3. Is(tr.on, tr.todo, tr.entries, {})
    <3>1. tracker' = [tracker EXCEPT ![t].out = {}]
      BY <1>7 DEF EmitChanged
    <3>2. [tr EXCEPT !.out = {}] =
             [on |-> tr.on, svcs |-> tr.svcs, todo |-> tr.todo, out |-> {}, entries |-> tr.entries]
      BY <1>2 DEF ShapedTracker
    <3> QED
      BY <1>1, <3>1, <3>2
  <2>4. TrackerType'
    <3> DEFINE none == {}
    <3>1. none \subseteq Notices /\ (tr.on = "stopping" => t \in Streams)
      BY <1>2
    <3>2. Is(tr.on, tr.todo, tr.entries, none)
      BY <2>3
    <3> HIDE DEF none
    <3> QED
      BY <1>4, <3>1, <3>2
  <2> QED
    BY <2>2, <2>4
<1>8. CASE Stopping(t)
  <2>1. Post(Msg("TrackerStopped", t)) /\ t \in Streams
    BY <1>2, <1>8 DEF Stopping
  <2>2. MailType'
    BY <1>0, <2>1, PostIsTyped, MessagesAreTyped
  <2>3. Is("stopped", tr.todo, tr.entries, tr.out)
    <3>1. tracker' = [tracker EXCEPT ![t].on = "stopped"]
      BY <1>8 DEF Stopping
    <3>2. [tr EXCEPT !.on = "stopped"] =
             [on |-> "stopped", svcs |-> tr.svcs, todo |-> tr.todo, out |-> tr.out, entries |-> tr.entries]
      BY <1>2 DEF ShapedTracker
    <3> QED
      BY <1>1, <3>1, <3>2
  <2>4. TrackerType'
    BY <1>2, <1>4, <2>1, <2>3
  <2> QED
    BY <2>2, <2>4
<1> QED
  BY <1>5, <1>6, <1>7, <1>8 DEF TrackerStep

LEMMA RemoteKeepsTypes ==
    ASSUME TypeInv, ProcessEvent \/ FetchOnairProgram \/ FetchFails
    PROVE  TypeInv'
<1> USE TypesTogether, TypesTogetherNext DEF airVars, streamVars, mgrVars, subVars
<1>0. config \in Configs /\ AiredType /\ TrackerType /\ MailType /\ CacheType /\ SubType
      /\ fetching \subseteq Services
  OBVIOUS
<1>1. UNCHANGED <<config, services, aired, tracker, cache, registered, inbox, view>>
  BY DEF ProcessEvent, FetchOnairProgram, FetchFails
<1>2. fetching' \subseteq Services
  BY <1>0 DEF ProcessEvent, FetchOnairProgram, FetchFails, AiredType
<1>3. MailType'
  <2>1. CASE FetchOnairProgram
    <3>1. PICK s \in fetching :
             Post(Msg("OnairProgramChanged", [s |-> s, program |-> Program(s, aired[s])]))
      BY <2>1 DEF FetchOnairProgram
    <3>2. [s |-> s, program |-> Program(s, aired[s])] \in Notices
      BY <1>0, ProgramIsTyped
    <3> QED
      BY <1>0, <3>1, <3>2, PostIsTyped, MessagesAreTyped
  <2>2. CASE ProcessEvent \/ FetchFails
    BY <1>0, <2>2, TypesStay DEF ProcessEvent, FetchFails
  <2> QED
    BY <2>1, <2>2
<1> QED
  BY <1>0, <1>1, <1>2, <1>3, TypesStay

LEMMA ManagerKeepsTypes ==
    ASSUME TypeInv, Handle
    PROVE  TypeInv'
<1> USE TypesTogether, TypesTogetherNext DEF airVars, streamVars, mgrVars, remoteVars, subVars
<1>0. config \in Configs /\ AiredType /\ TrackerType /\ MailType /\ CacheType /\ SubType
      /\ fetching \subseteq Services
  OBVIOUS
<1>1. CASE SpawnTemporalTracker
  <2>1. Receive("SpawnTemporalTracker")
        /\ UNCHANGED <<config, services, aired, cache, fetching, registered, inbox, view>>
    BY <1>1 DEF SpawnTemporalTracker
  <2>2. MailType' /\ Arg \in Streams
    BY <1>0, <2>1, ReceiveIsTyped, ArgsAreTyped DEF Arg
  <2>3. CASE tracker' = tracker
    BY <1>0, <2>1, <2>2, <2>3, TypesStay
  <2>4. CASE tracker' = With(tracker, Arg, NewTracker({ServiceOf[Arg]}))
    <3> DEFINE a == Arg
               r == NewTracker({ServiceOf[Arg]})
    <3>1. /\ r = [on |-> r.on, svcs |-> r.svcs, todo |-> r.todo, out |-> r.out, entries |-> r.entries]
          /\ r.on = "idle" /\ r.out = {}
      BY DEF NewTracker
    <3>2. /\ DOMAIN tracker' = DOMAIN tracker \union {a}
          /\ \A t \in DOMAIN tracker' : tracker'[t] = IF t = a THEN r ELSE tracker[t]
          /\ a \in Names
      BY <2>2, <2>4 DEF With, Names
    <3> HIDE DEF a, r
    <3>3. ASSUME NEW t \in DOMAIN tracker'
          PROVE  /\ ShapedTracker(t)' /\ (tracker'[t].on = "stopping" => t \in Streams)
                 /\ tracker'[t].out \subseteq Notices
      <4>1. CASE t = a
        BY <3>1, <3>2, <4>1 DEF ShapedTracker
      <4>2. CASE t # a
        BY <1>0, <3>2, <4>2 DEF ShapedTracker, TrackerType, TrackersAreShaped
      <4> QED
        BY <4>1, <4>2
    <3>4. Notices' = Notices /\ Names' = Names
      BY DEF Notices, Names
    <3>5. TrackerType'
      BY <1>0, <3>2, <3>3, <3>4 DEF TrackerType, TrackersAreShaped
    <3> QED
      BY <1>0, <2>1, <2>2, <3>5, TypesStay
  <2> QED
    BY <1>1, <2>3, <2>4 DEF SpawnTemporalTracker
<1>2. CASE ServicesUpdated
  <2>1. Receive("ServicesUpdated") /\ cache' = Without(cache, Services \ Arg)
        /\ UNCHANGED <<config, services, aired, tracker, fetching, registered, inbox, view>>
    BY <1>2 DEF ServicesUpdated
  <2>2. MailType'
    BY <1>0, <2>1, ReceiveIsTyped
  <2>3. CacheType'
    BY <1>0, <2>1 DEF CacheType, Without
  <2> QED
    BY <1>0, <2>1, <2>2, <2>3, TypesStay
<1>3. CASE OnairProgramChanged
  <2>1. Receive("OnairProgramChanged")
        /\ UNCHANGED <<config, services, aired, tracker, fetching, registered, view>>
    BY <1>3 DEF OnairProgramChanged
  <2>2. MailType' /\ Arg \in Notices /\ Arg.s \in Services /\ Arg.program \in 0..MaxVersion
    BY <1>0, <2>1, ReceiveIsTyped, ArgsAreTyped DEF Arg
  <2>3. CacheType'
    <3>1. CASE Arg.program = None
      BY <1>0, <1>3, <3>1, TypesStay DEF OnairProgramChanged
    <3>2. CASE Arg.program # None
      <4>1. cache' = [z \in DOMAIN cache \union {Arg.s} |-> IF z = Arg.s THEN Arg.program ELSE cache[z]]
        BY <1>3, <3>2 DEF OnairProgramChanged, With
      <4>2. Arg.program \in 1..MaxVersion
        BY <2>2, <3>2, BoundsAssumption DEF None
      <4> QED
        BY <1>0, <2>2, <4>1, <4>2 DEF CacheType
    <3> QED
      BY <3>1, <3>2
  <2>4. SubType'
    <3>1. inbox' = inbox \/ inbox' = Append(inbox, Arg)
      BY <1>3 DEF OnairProgramChanged
    <3>2. inbox' \in Seq(Notices)
      BY <1>0, <2>2, <3>1, AppendIsTyped DEF SubType
    <3>3. Notices' = Notices
      BY DEF Notices
    <3> QED
      BY <1>0, <2>1, <3>2, <3>3 DEF SubType
  <2> QED
    BY <1>0, <2>1, <2>2, <2>3, <2>4, TypesStay
<1>4. CASE TrackerStopped
  <2>1. Receive("TrackerStopped") /\ tracker' = Without(tracker, {Arg})
        /\ (cache' = cache \/ cache' = Without(cache, {temporal[Arg]}))
        /\ UNCHANGED <<config, services, aired, fetching, registered, inbox, view>>
    BY <1>4 DEF TrackerStopped
  <2>2. MailType'
    BY <1>0, <2>1, ReceiveIsTyped
  <2>3. CacheType'
    BY <1>0, <2>1 DEF CacheType, Without
  <2>4. TrackerType'
    <3>1. DOMAIN tracker' \subseteq DOMAIN tracker
          /\ \A t \in DOMAIN tracker' : tracker'[t] = tracker[t]
      BY <2>1 DEF Without
    <3>2. Notices' = Notices /\ Names' = Names
      BY DEF Notices, Names
    <3> QED
      BY <1>0, <3>1, <3>2 DEF TrackerType, TrackersAreShaped, ShapedTracker
  <2> QED
    BY <1>0, <2>1, <2>2, <2>3, <2>4, TypesStay
<1> QED
  BY <1>1, <1>2, <1>3, <1>4 DEF Handle

LEMMA SubscriberKeepsTypes ==
    ASSUME TypeInv, TakeNotice \/ RegisterEmitter
    PROVE  TypeInv'
<1> USE TypesTogether, TypesTogetherNext DEF airVars, streamVars, mgrVars, remoteVars
<1>0. config \in Configs /\ AiredType /\ TrackerType /\ MailType /\ CacheType /\ SubType
      /\ fetching \subseteq Services
  OBVIOUS
<1>1. UNCHANGED <<config, services, aired, tracker, mail, cache, fetching>>
  BY DEF TakeNotice, RegisterEmitter
<1>2. Notices' = Notices
  BY DEF Notices
<1>3. CASE TakeNotice
  <2>1. inbox # <<>> /\ inbox' = Tail(inbox) /\ registered' = registered
        /\ (view' = view \/ view' = [view EXCEPT ![Head(inbox).s] = Head(inbox).program])
    BY <1>3 DEF TakeNotice
  <2>2. inbox' \in Seq(Notices) /\ Head(inbox) \in Notices
    BY <1>0, <2>1, TailIsTyped DEF SubType
  <2>3. view' \in [Services -> 0..MaxVersion]
    <3>1. Head(inbox).s \in Services /\ Head(inbox).program \in 0..MaxVersion
      BY <2>2 DEF Notices
    <3> QED
      BY <1>0, <2>1, <3>1 DEF SubType
  <2>4. SubType'
    BY <1>0, <1>2, <2>1, <2>2, <2>3 DEF SubType
  <2> QED
    BY <1>0, <1>1, <2>4, TypesStay
<1>4. CASE RegisterEmitter
  <2> DEFINE held == SetToSeq(DOMAIN cache)
  <2>1. registered' = TRUE /\ view' = view
        /\ inbox' = [i \in DOMAIN held |-> [s |-> held[i], program |-> cache[held[i]]]]
    BY <1>4 DEF RegisterEmitter
  <2>2. IsFiniteSet(DOMAIN cache)
    BY <1>0, BoundsAssumption, FS_Subset DEF CacheType
  <2>3. /\ held \in Seq(DOMAIN cache) /\ DOMAIN held = 1..Cardinality(DOMAIN cache)
        /\ Cardinality(DOMAIN cache) \in Nat
    BY <2>2, SetToSeqLists, FS_CardinalityType
  <2> HIDE DEF held
  <2>4. \A i \in DOMAIN held : [s |-> held[i], program |-> cache[held[i]]] \in Notices
    <3> TAKE i \in DOMAIN held
    <3>1. held[i] \in DOMAIN cache
      BY <2>3
    <3>2. held[i] \in Services /\ cache[held[i]] \in 0..MaxVersion
      BY <1>0, <3>1, BoundsAssumption DEF CacheType
    <3> QED
      BY <3>2 DEF Notices
  <2>5. inbox' \in Seq(Notices)
    BY <2>1, <2>3, <2>4
  <2>6. SubType'
    BY <1>0, <1>2, <2>1, <2>5 DEF SubType
  <2> QED
    BY <1>0, <1>1, <2>6, TypesStay
<1> QED
  BY <1>3, <1>4

(* Every variable has its type, whatever trackers, scans and clients do.    *)
THEOREM TypeCorrect == Spec => []TypeInv
<1>1. Init => TypeInv
  <2> SUFFICES ASSUME Init PROVE TypeInv
    OBVIOUS
  <2>1. /\ config \in Configs /\ config.services \subseteq Services /\ config.local \subseteq Services
        /\ services = config.services /\ aired = [s \in Services |-> 1] /\ MaxVersion \in Nat \ {0}
        /\ cache = <<>> /\ mail = <<>> /\ inbox = <<>> /\ fetching = {} /\ registered = FALSE
        /\ view = [s \in Services |-> 0] /\ MailSize \in Nat
        /\ tracker = [t \in {x \in {LOCAL0} : Local # {}} |-> NewTracker(Local)]
    BY ConfigsAssumption, BoundsAssumption DEF Init, None
  <2>2. AiredType /\ CacheType /\ MailType /\ SubType
    <3>1. AiredType /\ CacheType
      BY <2>1 DEF AiredType, CacheType
    <3>2. mail \in Seq(Messages) /\ Len(mail) = 0 /\ inbox \in Seq(Notices)
      BY <2>1, EmptySeq
    <3>3. MailType
      BY <2>1, <3>2 DEF MailType
    <3>4. SubType
      <4>1. 0 \in 0..MaxVersion
        BY <2>1
      <4>2. registered \in BOOLEAN
        <5>1. registered = FALSE
          BY <2>1
        <5> QED
          BY <5>1, Zenon
      <4> QED
        BY <2>1, <3>2, <4>1, <4>2 DEF SubType
    <3> QED
      BY <3>1, <3>3, <3>4
  <2>3. TrackerType
    <3> DEFINE r == NewTracker(Local)
    <3>1. /\ r = [on |-> r.on, svcs |-> r.svcs, todo |-> r.todo, out |-> r.out, entries |-> r.entries]
          /\ r.on = "idle" /\ r.out = {}
      BY DEF NewTracker
    <3>2. DOMAIN tracker \subseteq Names /\ \A t \in DOMAIN tracker : tracker[t] = r
      BY <2>1 DEF Names
    <3> HIDE DEF r
    <3> QED
      BY <3>1, <3>2 DEF TrackerType, TrackersAreShaped, ShapedTracker
  <2> QED
    BY <2>1, <2>2, <2>3, TypesTogether
<1>2. TypeInv /\ [Next]_vars => TypeInv'
  <2> SUFFICES ASSUME TypeInv, [Next]_vars PROVE TypeInv'
    OBVIOUS
  <2>1. CASE UNCHANGED vars
    BY <2>1, TypesTogether, TypesTogetherNext, TypesStay
       DEF vars, airVars, streamVars, mgrVars, remoteVars, subVars
  <2>2. CASE RemoteStep
    <3>1. CASE OpenEventSource
      <4>1. ~RegisterEmitter
        BY <3>1 DEF OpenEventSource, RegisterEmitter, subVars
      <4> QED
        BY <3>1, <4>1, WorldKeepsTypes
    <3> QED
      BY <2>2, <3>1, RemoteKeepsTypes DEF RemoteStep
  <2>3. CASE World
    BY <2>3, WorldKeepsTypes, SubscriberKeepsTypes
  <2> QED
    BY <2>1, <2>2, <2>3, ManagerKeepsTypes, TrackersKeepTypes, SubscriberKeepsTypes DEF Next
<1> QED
  BY <1>1, <1>2, PTL DEF Spec

(***************************************************************************)
(* The subscriber.                                                          *)
(***************************************************************************)
(* The last notice about s that tells a program tells what the cache holds; *)
(* the view holds it when no such notice is left.                           *)
Silent(j, s) == inbox[j].s # s \/ inbox[j].program = None
Follows(s) ==
    \/ \E i \in DOMAIN inbox :
          /\ inbox[i].s = s /\ inbox[i].program = cache[s]
          /\ \A j \in DOMAIN inbox : i < j => Silent(j, s)
    \/ view[s] = cache[s] /\ \A j \in DOMAIN inbox : Silent(j, s)
NoticesFollow ==
    IF registered THEN \A s \in DOMAIN cache : Follows(s) ELSE inbox = <<>>
NoticesInv == TypeInv /\ NoticesFollow

LEMMA DroppedEntriesFollow ==
    ASSUME NoticesFollow, UNCHANGED subVars, DOMAIN cache' \subseteq DOMAIN cache,
           \A s \in DOMAIN cache' : cache'[s] = cache[s]
    PROVE  NoticesFollow'
BY DEF NoticesFollow, Follows, Silent, subVars

LEMMA ManagerNotices ==
    ASSUME NoticesInv, Handle
    PROVE  NoticesFollow'
<1> USE DEF NoticesInv
<1>1. CASE SpawnTemporalTracker \/ ServicesUpdated \/ TrackerStopped
  <2>1. UNCHANGED subVars
    BY <1>1 DEF SpawnTemporalTracker, ServicesUpdated, TrackerStopped
  <2>2. cache' = cache \/ \E S : cache' = Without(cache, S)
    BY <1>1 DEF SpawnTemporalTracker, ServicesUpdated, TrackerStopped
  <2> QED
    BY <2>1, <2>2, DroppedEntriesFollow DEF Without
<1>2. CASE OnairProgramChanged
  <2> DEFINE a == Arg
  <2>1. /\ Receive("OnairProgramChanged") /\ registered' = registered /\ view' = view
        /\ cache' = IF a.program = None THEN cache ELSE With(cache, a.s, a.program)
        /\ IF registered THEN inbox' = Append(inbox, a) ELSE inbox' = inbox
    BY <1>2 DEF OnairProgramChanged
  <2>2. a \in Notices /\ inbox \in Seq(Notices)
    BY <2>1, TypesTogether, ReceiveIsTyped, ArgsAreTyped DEF SubType, Arg
  <2> HIDE DEF a
  <2>3. CASE registered
    <3>1. /\ inbox' = Append(inbox, a) /\ Len(inbox) \in Nat
          /\ DOMAIN inbox = 1..Len(inbox) /\ DOMAIN inbox' = 1..Len(inbox) + 1
          /\ \A i \in DOMAIN inbox : inbox'[i] = inbox[i]
          /\ inbox'[Len(inbox) + 1] = a
      BY <2>1, <2>2, <2>3, AppendIsTyped, LenProperties
    <3>2. ASSUME NEW s \in DOMAIN cache' PROVE Follows(s)'
      <4>1. CASE a.program # None /\ a.s = s
        <5>1. cache'[s] = a.program
          BY <2>1, <4>1 DEF With
        <5> DEFINE i == Len(inbox) + 1
        <5>2. i \in DOMAIN inbox' /\ \A j \in DOMAIN inbox' : ~(i < j)
          BY <3>1
        <5>3. inbox'[i].s = s /\ inbox'[i].program = cache'[s]
          BY <3>1, <4>1, <5>1
        <5> QED
          BY <5>2, <5>3 DEF Follows
      <4>2. CASE ~(a.program # None /\ a.s = s)
        <5>1. s \in DOMAIN cache /\ cache'[s] = cache[s]
          BY <2>1, <4>2 DEF With
        <5>2. Follows(s)
          BY <2>3, <5>1 DEF NoticesFollow
        <5>3. \A j \in DOMAIN inbox' :
                 Silent(j, s)' \/ (j \in DOMAIN inbox /\ ~Silent(j, s))
          <6> TAKE j \in DOMAIN inbox'
          <6>1. CASE j = Len(inbox) + 1
            BY <3>1, <4>2, <6>1 DEF Silent
          <6>2. CASE j # Len(inbox) + 1
            BY <3>1, <6>2 DEF Silent
          <6> QED
            BY <6>1, <6>2
        <5>4. CASE \E i \in DOMAIN inbox :
                     /\ inbox[i].s = s /\ inbox[i].program = cache[s]
                     /\ \A j \in DOMAIN inbox : i < j => Silent(j, s)
          <6>1. PICK i \in DOMAIN inbox :
                     /\ inbox[i].s = s /\ inbox[i].program = cache[s]
                     /\ \A j \in DOMAIN inbox : i < j => Silent(j, s)
            BY <5>4
          <6>2. /\ i \in DOMAIN inbox' /\ inbox'[i].s = s /\ inbox'[i].program = cache'[s]
                /\ \A j \in DOMAIN inbox' : i < j => Silent(j, s)'
            BY <3>1, <5>1, <5>3, <6>1
          <6> QED
            BY <6>2 DEF Follows
        <5>5. CASE view[s] = cache[s] /\ \A j \in DOMAIN inbox : Silent(j, s)
          <6>1. view'[s] = cache'[s] /\ \A j \in DOMAIN inbox' : Silent(j, s)'
            BY <2>1, <5>1, <5>3, <5>5
          <6> QED
            BY <6>1 DEF Follows
        <5> QED
          BY <5>2, <5>4, <5>5 DEF Follows
      <4> QED
        BY <4>1, <4>2
    <3> QED
      BY <2>1, <2>3, <3>2 DEF NoticesFollow
  <2>4. CASE ~registered
    BY <2>1, <2>4 DEF NoticesFollow
  <2> QED
    BY <2>3, <2>4
<1> QED
  BY <1>1, <1>2 DEF Handle

LEMMA SubscriberNotices ==
    ASSUME NoticesInv, TakeNotice \/ RegisterEmitter
    PROVE  NoticesFollow'
<1> USE DEF NoticesInv
<1>0. inbox \in Seq(Notices) /\ CacheType /\ view \in [Services -> 0..MaxVersion]
  BY TypesTogether DEF SubType
<1>1. CASE TakeNotice
  <2> DEFINE h == Head(inbox)
  <2>1. /\ inbox # <<>> /\ inbox' = Tail(inbox) /\ UNCHANGED <<registered, cache>>
        /\ view' = IF h.program = None THEN view ELSE [view EXCEPT ![h.s] = h.program]
    BY <1>1 DEF TakeNotice, mgrVars
  <2>2. /\ h = inbox[1] /\ Len(inbox) \in Nat /\ Len(inbox) >= 1
        /\ DOMAIN inbox = 1..Len(inbox) /\ DOMAIN inbox' = 1..Len(inbox) - 1
        /\ \A i \in 1..Len(inbox) - 1 : inbox'[i] = inbox[i + 1]
    BY <1>0, <2>1, TailIsTyped
  <2> HIDE DEF h
  <2>3. registered /\ registered'
    BY <2>1 DEF NoticesFollow
  <2>4. ASSUME NEW s \in DOMAIN cache PROVE Follows(s)'
    <3>1. s \in Services /\ cache[s] # None /\ Follows(s)
      BY <1>0, <2>3, BoundsAssumption DEF CacheType, None, NoticesFollow
    <3>2. \A j \in DOMAIN inbox' : j + 1 \in DOMAIN inbox /\ (Silent(j, s)' <=> Silent(j + 1, s))
      BY <2>2 DEF Silent
    <3>3. CASE \E i \in DOMAIN inbox :
                 /\ inbox[i].s = s /\ inbox[i].program = cache[s]
                 /\ \A j \in DOMAIN inbox : i < j => Silent(j, s)
      <4>1. PICK i \in DOMAIN inbox :
                 /\ inbox[i].s = s /\ inbox[i].program = cache[s]
                 /\ \A j \in DOMAIN inbox : i < j => Silent(j, s)
        BY <3>3
      <4>2. CASE i = 1
        <5>1. view'[s] = cache'[s]
          BY <1>0, <2>1, <2>2, <3>1, <4>1, <4>2
        <5>2. \A j \in DOMAIN inbox' : Silent(j, s)'
          BY <2>2, <3>2, <4>1, <4>2
        <5> QED
          BY <5>1, <5>2 DEF Follows
      <4>3. CASE i # 1
        <5> DEFINE k == i - 1
        <5>1. k \in DOMAIN inbox' /\ inbox'[k] = inbox[i]
          BY <2>2, <4>1, <4>3
        <5>2. \A j \in DOMAIN inbox' : k < j => Silent(j, s)'
          BY <2>2, <3>2, <4>1
        <5>3. inbox'[k].s = s /\ inbox'[k].program = cache'[s]
          BY <2>1, <4>1, <5>1
        <5> HIDE DEF k
        <5> QED
          BY <5>1, <5>2, <5>3 DEF Follows
      <4> QED
        BY <4>2, <4>3
    <3>4. CASE view[s] = cache[s] /\ \A j \in DOMAIN inbox : Silent(j, s)
      <4>1. Silent(1, s)
        BY <2>2, <3>4
      <4>2. view'[s] = view[s]
        BY <1>0, <2>1, <2>2, <3>1, <4>1 DEF Silent
      <4>3. \A j \in DOMAIN inbox' : Silent(j, s)'
        BY <3>2, <3>4
      <4> QED
        BY <2>1, <3>4, <4>2, <4>3 DEF Follows
    <3> QED
      BY <3>1, <3>3, <3>4 DEF Follows
  <2> QED
    BY <2>1, <2>3, <2>4 DEF NoticesFollow
<1>2. CASE RegisterEmitter
  <2> DEFINE held == SetToSeq(DOMAIN cache)
  <2>1. /\ registered' = TRUE /\ UNCHANGED <<view, cache>>
        /\ inbox' = [i \in DOMAIN held |-> [s |-> held[i], program |-> cache[held[i]]]]
    BY <1>2 DEF RegisterEmitter, mgrVars
  <2>2. IsFiniteSet(DOMAIN cache)
    BY <1>0, BoundsAssumption, FS_Subset DEF CacheType
  <2>3. /\ \A s \in DOMAIN cache : \E i \in DOMAIN held : held[i] = s
        /\ \A i, j \in DOMAIN held : held[i] = held[j] => i = j
        /\ DOMAIN held = 1..Cardinality(DOMAIN cache) /\ Cardinality(DOMAIN cache) \in Nat
    BY <2>2, SetToSeqLists, FS_CardinalityType DEF IsInjective
  <2> HIDE DEF held
  <2>4. ASSUME NEW s \in DOMAIN cache PROVE Follows(s)'
    <3>1. PICK i \in DOMAIN held : held[i] = s
      BY <2>3
    <3>2. i \in DOMAIN inbox' /\ inbox'[i].s = s /\ inbox'[i].program = cache'[s]
      BY <2>1, <3>1
    <3>3. \A j \in DOMAIN inbox' : i < j => inbox'[j].s # s
      BY <2>1, <2>3, <3>1
    <3> QED
      BY <3>2, <3>3 DEF Follows, Silent
  <2> QED
    BY <2>1, <2>4 DEF NoticesFollow
<1> QED
  BY <1>1, <1>2

LEMMA OtherNotices ==
    ASSUME NoticesInv, Next \/ UNCHANGED vars, ~Handle, ~TakeNotice, ~RegisterEmitter
    PROVE  NoticesFollow'
<1>1. UNCHANGED <<cache, registered, inbox, view>>
  <2>1. ASSUME NEW t \in Names, TrackerStep(t) PROVE UNCHANGED <<cache, registered, inbox, view>>
    BY <2>1 DEF TrackerStep, Poll, Track, BrokenLine, TunerUnavailable, EmitChanged, SetTimer,
                Stopping, mgrVars, subVars
  <2>2. CASE RemoteStep
    BY <2>2 DEF RemoteStep, OpenEventSource, ProcessEvent, FetchOnairProgram, FetchFails,
                mgrVars, subVars
  <2>3. CASE World
    BY <2>3 DEF World, Broadcast, Scan, CloseEventSource, OpenStream, CloseStream, mgrVars, subVars
  <2>4. CASE UNCHANGED vars
    BY <2>4 DEF vars, mgrVars, subVars
  <2> QED
    BY <2>1, <2>2, <2>3, <2>4 DEF Next
<1> QED
  BY <1>1 DEF NoticesInv, NoticesFollow, Follows, Silent

(* The inductive invariant: what the subscriber knows and what is on its    *)
(* way agrees with the cache.                                               *)
THEOREM NoticesAreKept == Spec => []NoticesInv
<1>1. Init => NoticesFollow
  BY DEF Init, NoticesFollow
<1>2. TypeInv /\ NoticesFollow /\ [Next]_vars => NoticesFollow'
  BY ManagerNotices, SubscriberNotices, OtherNotices DEF NoticesInv
<1>3. NoticesInv <=> TypeInv /\ NoticesFollow
  BY DEF NoticesInv
<1> QED
  BY <1>1, <1>2, <1>3, TypeCorrect, PTL DEF Spec

(* A subscriber that has read its notices knows what the cache of           *)
(* OnairProgramManager holds, whenever it registered.                       *)
THEOREM SubscribersKnow == Spec => []SubscribersKnowTheCache
<1>1. NoticesInv => SubscribersKnowTheCache
  <2> SUFFICES ASSUME NoticesInv, registered, inbox = <<>>, NEW s \in DOMAIN cache
               PROVE  view[s] = cache[s]
    BY DEF SubscribersKnowTheCache
  <2>1. Follows(s) /\ DOMAIN inbox = {}
    BY DEF NoticesInv, NoticesFollow
  <2> QED
    BY <2>1 DEF Follows
<1> QED
  BY <1>1, NoticesAreKept, PTL

(***************************************************************************)
(* Trackers of what the cache holds.                                        *)
(***************************************************************************)
(* Temporal trackers are for services that no configured tracker watches;   *)
(* each reads and reports its own service and is silent once it stops; and  *)
(* what waits in the mailbox comes from a tracker that is still known when  *)
(* the message is handled.                                                  *)
Watched == Local \union Remote
Stops(i, t) == mail[i].kind = "TrackerStopped" /\ mail[i].arg = t
(* t still reports for s when message i is handled.                         *)
ReportsAt(t, s, i) ==
    /\ t \in DOMAIN temporal /\ temporal[t] = s
    /\ \A j \in 1..Len(mail) : j < i => ~Stops(j, t)
Bound ==
    /\ DOMAIN temporal \subseteq Streams /\ DOMAIN tracker \ {LOCAL0} = DOMAIN temporal
    /\ \A t \in DOMAIN temporal : temporal[t] = ServiceOf[t] /\ ServiceOf[t] \notin Watched
Reads(t) ==
    /\ tracker[t].todo \subseteq tracker[t].svcs
    /\ \A o \in tracker[t].out : o.s \in tracker[t].svcs
    /\ tracker[t].svcs = IF t = LOCAL0 THEN Local ELSE {ServiceOf[t]}
    /\ tracker[t].out # {} => tracker[t].on = "polling"
Fetches ==
    /\ fetching \subseteq Remote
    /\ sse = [open |-> sse.open, queue |-> sse.queue] /\ sse.queue \in Seq(Remote)
Ends ==
    \A i \in 1..Len(mail) : mail[i].kind = "TrackerStopped" =>
       /\ mail[i].arg \in DOMAIN temporal /\ tracker[mail[i].arg].on = "stopped"
       /\ \A j \in 1..Len(mail) : Stops(j, mail[i].arg) => j = i
Reported ==
    \A i \in 1..Len(mail) :
       mail[i].kind = "OnairProgramChanged" /\ mail[i].arg.s \notin Watched =>
       \E t \in DOMAIN temporal : ReportsAt(t, mail[i].arg.s, i)
TrackInv ==
    /\ Bound /\ (\A t \in DOMAIN tracker : Reads(t)) /\ Fetches /\ Ends /\ Reported
    /\ EntriesHaveTrackers

(* The mailbox grows: what a message says still holds when it is handled.   *)
StoppedStay ==
    \A t \in DOMAIN temporal : tracker[t].on = "stopped" => tracker'[t].on = "stopped"

LEMMA PostedIsTracked ==
    ASSUME MailType, Ends, Reported, UNCHANGED <<config, temporal>>, StoppedStay,
           NEW m, Post(m), m \in Messages,
           m.kind = "TrackerStopped" =>
              /\ m.arg \in DOMAIN temporal /\ tracker'[m.arg].on = "stopped"
              /\ tracker[m.arg].on # "stopped",
           m.kind = "OnairProgramChanged" /\ m.arg.s \notin Watched =>
              \E t \in DOMAIN temporal : temporal[t] = m.arg.s /\ tracker[t].on # "stopped"
    PROVE  Ends' /\ Reported'
<1>0. PICK n \in Nat : n = Len(mail)
  BY LenProperties DEF MailType
<1>1. /\ n \in Nat /\ mail' \in Seq(Messages) /\ Len(mail') = n + 1
      /\ (\A i \in 1..n : mail'[i] = mail[i]) /\ mail'[n + 1] = m
  BY <1>0, AppendIsTyped DEF Post, MailType
<1>2. n = Len(mail) /\ Watched' = Watched
  BY <1>0 DEF Watched, Local, Remote
<1>3. \A i \in 1..n : \A t : Stops(i, t)' <=> Stops(i, t)
  BY <1>1 DEF Stops
<1>4. \A t : Stops(n + 1, t)' <=> m.kind = "TrackerStopped" /\ m.arg = t
  BY <1>1 DEF Stops
<1>5. \A i \in 1..n : \A t : Stops(i, t) => t \in DOMAIN temporal /\ tracker[t].on = "stopped"
  BY <1>2 DEF Ends, Stops
<1>6. Ends'
  <2>1. ASSUME NEW i \in 1..n + 1, NEW t, Stops(i, t)'
        PROVE  /\ t \in DOMAIN temporal' /\ tracker'[t].on = "stopped"
               /\ \A j \in 1..n + 1 : Stops(j, t)' => j = i
    <3>1. CASE i = n + 1
      <4>1. m.kind = "TrackerStopped" /\ m.arg = t
        BY <1>4, <2>1, <3>1
      <4>2. \A j \in 1..n : ~Stops(j, t)
        BY <1>5, <4>1
      <4> QED
        BY <1>1, <1>3, <3>1, <4>1, <4>2
    <3>2. CASE i # n + 1
      <4>1. i \in 1..n /\ Stops(i, t)
        BY <1>1, <1>3, <2>1, <3>2
      <4>2. t \in DOMAIN temporal /\ tracker[t].on = "stopped" /\ tracker'[t].on = "stopped"
        BY <1>5, <4>1 DEF StoppedStay
      <4>3. ~Stops(n + 1, t)'
        BY <1>4, <4>2
      <4>4. \A j \in 1..n : Stops(j, t) => j = i
        BY <1>2, <4>1 DEF Ends, Stops
      <4> QED
        BY <1>1, <1>3, <4>2, <4>3, <4>4
    <3> QED
      BY <3>1, <3>2
  <2> QED
    BY <1>1, <2>1 DEF Ends, Stops
<1>7. Reported'
  <2>1. ASSUME NEW i \in 1..n + 1, mail'[i].kind = "OnairProgramChanged",
               mail'[i].arg.s \notin Watched
        PROVE  \E t \in DOMAIN temporal' : ReportsAt(t, mail[i].arg.s, i)'
    <3>1. CASE i = n + 1
      <4>1. PICK t \in DOMAIN temporal : temporal[t] = m.arg.s /\ tracker[t].on # "stopped"
        BY <1>1, <2>1, <3>1
      <4>2. \A j \in 1..n : ~Stops(j, t)
        BY <1>5, <4>1
      <4> QED
        BY <1>1, <1>3, <3>1, <4>1, <4>2 DEF ReportsAt
    <3>2. CASE i # n + 1
      <4>1. i \in 1..n /\ mail'[i] = mail[i]
        BY <1>1, <3>2
      <4>2. PICK t \in DOMAIN temporal : ReportsAt(t, mail[i].arg.s, i)
        BY <1>2, <2>1, <4>1 DEF Reported
      <4>3. \A j \in 1..n + 1 : j < i => ~Stops(j, t)'
        BY <1>1, <1>2, <1>3, <4>1, <4>2 DEF ReportsAt
      <4> QED
        BY <1>1, <4>1, <4>2, <4>3 DEF ReportsAt
    <3> QED
      BY <3>1, <3>2
  <2> QED
    BY <1>1, <1>2, <2>1 DEF Reported
<1> QED
  BY <1>6, <1>7

LEMMA KeptMailIsTracked ==
    ASSUME Ends, Reported, UNCHANGED <<config, temporal, mail>>, StoppedStay
    PROVE  Ends' /\ Reported'
BY DEF Ends, Reported, ReportsAt, Stops, StoppedStay, Watched, Local, Remote

(* The first message is handled: a tracker that goes is the one it names.   *)
LEMMA TakenMailIsTracked ==
    ASSUME MailType, Ends, Reported, config' = config, mail # <<>>, mail' = Tail(mail),
           \A t \in DOMAIN temporal :
              \/ Stops(1, t)
              \/ /\ t \in DOMAIN temporal' /\ temporal'[t] = temporal[t]
                 /\ tracker[t].on = "stopped" => tracker'[t].on = "stopped"
    PROVE  Ends' /\ Reported'
<1> DEFINE n == Len(mail)
<1>1. /\ n \in Nat /\ n >= 1 /\ Len(mail') = n - 1
      /\ \A i \in 1..n - 1 : mail'[i] = mail[i + 1]
  BY TailIsTyped DEF MailType
<1> HIDE DEF n
<1>2. n = Len(mail) /\ Watched' = Watched
  BY DEF n, Watched, Local, Remote
<1>3. \A i \in 1..n - 1 : \A t : Stops(i, t)' <=> Stops(i + 1, t)
  BY <1>1 DEF Stops
<1>4. Ends'
  <2>1. ASSUME NEW i \in 1..n - 1, NEW t, Stops(i, t)'
        PROVE  /\ t \in DOMAIN temporal' /\ tracker'[t].on = "stopped"
               /\ \A j \in 1..n - 1 : Stops(j, t)' => j = i
    <3>1. i + 1 \in 1..n /\ Stops(i + 1, t) /\ 1 \in 1..n
      BY <1>1, <1>3, <2>1
    <3>2. /\ t \in DOMAIN temporal /\ tracker[t].on = "stopped"
          /\ \A j \in 1..n : Stops(j, t) => j = i + 1
      BY <1>2, <3>1 DEF Ends, Stops
    <3>3. ~Stops(1, t)
      BY <1>1, <3>1, <3>2
    <3>4. \A j \in 1..n - 1 : Stops(j, t)' => j = i
      <4> SUFFICES ASSUME NEW j \in 1..n - 1, Stops(j, t)' PROVE j = i
        OBVIOUS
      <4>1. j + 1 \in 1..n /\ Stops(j + 1, t)
        BY <1>1, <1>3
      <4> QED
        BY <1>1, <3>2, <4>1
    <3> QED
      BY <3>2, <3>3, <3>4
  <2> QED
    BY <1>1, <2>1 DEF Ends, Stops
<1>5. Reported'
  <2>1. ASSUME NEW i \in 1..n - 1, mail'[i].kind = "OnairProgramChanged",
               mail'[i].arg.s \notin Watched
        PROVE  \E t \in DOMAIN temporal' : ReportsAt(t, mail[i].arg.s, i)'
    <3>1. i + 1 \in 1..n /\ mail'[i] = mail[i + 1]
      BY <1>1
    <3>2. PICK t \in DOMAIN temporal : ReportsAt(t, mail[i + 1].arg.s, i + 1)
      BY <1>2, <2>1, <3>1 DEF Reported
    <3>3. ~Stops(1, t)
      BY <1>1, <1>2, <3>2 DEF ReportsAt
    <3>4. \A j \in 1..n - 1 : j < i => ~Stops(j, t)'
      <4> SUFFICES ASSUME NEW j \in 1..n - 1, j < i PROVE ~Stops(j, t)'
        OBVIOUS
      <4>1. j + 1 \in 1..n /\ j + 1 < i + 1
        BY <1>1
      <4> QED
        BY <1>2, <1>3, <3>2, <4>1 DEF ReportsAt
    <3> QED
      BY <1>1, <3>1, <3>2, <3>3, <3>4 DEF ReportsAt
  <2> QED
    BY <1>1, <1>2, <2>1 DEF Reported
<1> QED
  BY <1>4, <1>5

(* One step of a tracker: it reads and reports only services it is for, and *)
(* does not go on once it has stopped.                                      *)
Kept(t) ==
    /\ DOMAIN tracker' = DOMAIN tracker
    /\ \A x \in DOMAIN tracker : x # t => tracker'[x] = tracker[x]
    /\ tracker[t].on = "stopped" => tracker'[t].on = "stopped"

Becomes(t, on, todo, out, entries) ==
    tracker' = [tracker EXCEPT ![t] = [on |-> on, svcs |-> tracker[t].svcs,
                  todo |-> todo, out |-> out, entries |-> entries]]

LEMMA TrackerBecomes ==
    ASSUME Bound, NEW t \in DOMAIN tracker, Reads(t), config' = config,
           NEW on, NEW todo, NEW out, NEW entries,
           Becomes(t, on, todo, out, entries),
           tracker[t].on = "stopped" => on = "stopped", todo \subseteq tracker[t].svcs,
           \A o \in out : o.s \in tracker[t].svcs, out # {} => on = "polling"
    PROVE  Kept(t) /\ Reads(t)'
<1>1. tracker'[t] = [on |-> on, svcs |-> tracker[t].svcs,
                     todo |-> todo, out |-> out, entries |-> entries]
  BY DEF Becomes
<1>2. /\ tracker'[t].on = on /\ tracker'[t].svcs = tracker[t].svcs
      /\ tracker'[t].todo = todo /\ tracker'[t].out = out
  BY <1>1
<1>3. Kept(t)
  BY <1>2 DEF Kept, Becomes
<1> QED
  BY <1>2, <1>3 DEF Reads, Local

LEMMA TrackerReads ==
    ASSUME TypeInv, Bound, NEW t \in DOMAIN tracker, Reads(t), TrackerStep(t)
    PROVE  Kept(t) /\ Reads(t)' /\ UNCHANGED <<config, temporal, cache, fetching, sse>>
<1> DEFINE tr == tracker[t]
<1>1. /\ UNCHANGED <<config, temporal, cache, fetching, sse>>
      /\ t \in DOMAIN tracker /\ ShapedTracker(t)
  BY DEF TrackerStep, Poll, Track, BrokenLine, TunerUnavailable, EmitChanged, SetTimer, Stopping,
         airVars, mgrVars, remoteVars, TypeInv, TrackersAreShaped
<1>2. /\ tr.todo \subseteq tr.svcs /\ (tr.out # {} => tr.on = "polling")
      /\ \A o \in tr.out : o.s \in tr.svcs
  BY DEF Reads
<1>3. CASE Poll(t)
  <2> DEFINE todo == Matches(t)
  <2>1. tracker' = [tracker EXCEPT ![t] = [tr EXCEPT !.on = "polling", !.todo = todo]]
    BY <1>3 DEF Poll
  <2>2. tr.on = "idle" /\ todo \subseteq tr.svcs
    BY <1>3 DEF Poll, Matches
  <2> HIDE DEF todo
  <2>3. [tr EXCEPT !.on = "polling", !.todo = todo] =
           [on |-> "polling", svcs |-> tr.svcs, todo |-> todo, out |-> tr.out, entries |-> tr.entries]
    <3> DEFINE r1 == [tr EXCEPT !.on = "polling"]
    <3>1. r1 = [on |-> "polling", svcs |-> tr.svcs, todo |-> tr.todo, out |-> tr.out,
                entries |-> tr.entries]
      BY <1>1 DEF ShapedTracker
    <3>2. [r1 EXCEPT !.todo = todo] = [on |-> "polling", svcs |-> tr.svcs, todo |-> todo,
                                       out |-> tr.out, entries |-> tr.entries]
      <4> HIDE DEF r1
      <4> QED
        BY <3>1
    <3>3. [tr EXCEPT !.on = "polling", !.todo = todo] = [r1 EXCEPT !.todo = todo]
      OBVIOUS
    <3> QED
      BY <3>2, <3>3
  <2>4. Becomes(t, "polling", todo, tr.out, tr.entries)
    BY <2>1, <2>3 DEF Becomes
  <2> QED
    BY <1>1, <1>2, <2>2, <2>4, TrackerBecomes
<1>4. CASE SetTimer(t)
  <2>1. Becomes(t, "idle", tr.todo, tr.out, tr.entries) /\ tr.on = "polling" /\ tr.out = {}
    <3>1. tracker' = [tracker EXCEPT ![t] = [tr EXCEPT !.on = "idle"]] /\ tr.on = "polling" /\ tr.out = {}
      BY <1>4 DEF SetTimer
    <3>2. [tr EXCEPT !.on = "idle"] =
             [on |-> "idle", svcs |-> tr.svcs, todo |-> tr.todo, out |-> tr.out, entries |-> tr.entries]
      BY <1>1 DEF ShapedTracker
    <3> QED
      BY <3>1, <3>2 DEF Becomes
  <2> QED
    BY <1>1, <1>2, <2>1, TrackerBecomes
<1>5. CASE EmitChanged(t)
  <2> DEFINE none == {}
  <2>1. Becomes(t, tr.on, tr.todo, none, tr.entries) /\ none = {}
    <3>1. tracker' = [tracker EXCEPT ![t] = [tr EXCEPT !.out = {}]] /\ none = {}
      BY <1>5 DEF EmitChanged
    <3>2. [tr EXCEPT !.out = {}] =
             [on |-> tr.on, svcs |-> tr.svcs, todo |-> tr.todo, out |-> none, entries |-> tr.entries]
      BY <1>1 DEF ShapedTracker
    <3> QED
      BY <3>1, <3>2 DEF Becomes
  <2> HIDE DEF none
  <2> QED
    BY <1>1, <1>2, <2>1, TrackerBecomes
<1>6. CASE Stopping(t)
  <2>1. Becomes(t, "stopped", tr.todo, tr.out, tr.entries) /\ tr.on = "stopping"
    <3>1. tracker' = [tracker EXCEPT ![t] = [tr EXCEPT !.on = "stopped"]] /\ tr.on = "stopping"
      BY <1>6 DEF Stopping
    <3>2. [tr EXCEPT !.on = "stopped"] =
             [on |-> "stopped", svcs |-> tr.svcs, todo |-> tr.todo, out |-> tr.out, entries |-> tr.entries]
      BY <1>1 DEF ShapedTracker
    <3> QED
      BY <3>1, <3>2 DEF Becomes
  <2> QED
    BY <1>1, <1>2, <2>1, TrackerBecomes
<1>7. ASSUME NEW s \in Services, TunerUnavailable(t, s) PROVE Kept(t) /\ Reads(t)'
  <2>1. \/ Becomes(t, tr.on, tr.todo \ {s}, tr.out, tr.entries)
        \/ Becomes(t, "stopping", {}, tr.out, tr.entries)
    BY <1>1, <1>7 DEF TunerUnavailable, ShapedTracker, Becomes
  <2>2. tr.on = "polling" /\ tr.out = {}
    BY <1>7 DEF TunerUnavailable, Busy
  <2> QED
    BY <1>1, <1>2, <2>1, <2>2, TrackerBecomes
<1>8. ASSUME NEW s \in Services, NEW out, NEW entries,
             tracker' = [tracker EXCEPT ![t].todo = @ \ {s}, ![t].entries[s] = aired[s] % VersionSize,
                                        ![t].out = out],
             tr.on = "polling", \A o \in out : o.s \in tr.svcs,
             entries = [tr.entries EXCEPT ![s] = aired[s] % VersionSize]
      PROVE  Kept(t) /\ Reads(t)'
  <2> DEFINE todo == tr.todo \ {s}
  <2>1. tracker' = [tracker EXCEPT ![t] = [tr EXCEPT !.todo = todo, !.entries = entries, !.out = out]]
    BY <1>1, <1>8
  <2>2. [tr EXCEPT !.todo = todo, !.entries = entries, !.out = out] =
          [on |-> tr.on, svcs |-> tr.svcs, todo |-> todo, out |-> out, entries |-> entries]
    <3> DEFINE r1 == [tr EXCEPT !.todo = todo]
               r2 == [r1 EXCEPT !.entries = entries]
    <3>1. r1 = [on |-> tr.on, svcs |-> tr.svcs, todo |-> todo, out |-> tr.out, entries |-> tr.entries]
      <4> HIDE DEF todo
      <4> QED
        BY <1>1 DEF ShapedTracker
    <3>2. r2 = [on |-> tr.on, svcs |-> tr.svcs, todo |-> todo, out |-> tr.out, entries |-> entries]
      <4> HIDE DEF r1, todo
      <4> QED
        BY <3>1
    <3>3. [r2 EXCEPT !.out = out] =
             [on |-> tr.on, svcs |-> tr.svcs, todo |-> todo, out |-> out, entries |-> entries]
      <4> HIDE DEF r1, r2, todo
      <4> QED
        BY <3>2
    <3>4. [tr EXCEPT !.todo = todo, !.entries = entries, !.out = out] = [r2 EXCEPT !.out = out]
      OBVIOUS
    <3> QED
      BY <3>3, <3>4
  <2>3. Becomes(t, tr.on, todo, out, entries)
    BY <2>1, <2>2 DEF Becomes
  <2>4. todo \subseteq tr.svcs
    BY <1>2 DEF todo
  <2> HIDE DEF todo
  <2> QED
    BY <1>1, <1>2, <1>8, <2>3, <2>4, TrackerBecomes
<1>9. ASSUME NEW s \in Services, BrokenLine(t, s) \/ Track(t, s) PROVE Kept(t) /\ Reads(t)'
  <2>1. s \in tr.todo /\ tr.on = "polling"
    BY <1>9 DEF Track, BrokenLine, Busy
  <2> DEFINE read == [tr.entries EXCEPT ![s] = aired[s] % VersionSize]
             told == [s |-> s, program |-> Program(s, aired[s])]
  <2>2. CASE Track(t, s)
    <3>1. PICK out \in {{told}, {}} :
             tracker' = [tracker EXCEPT ![t].todo = @ \ {s}, ![t].entries[s] = aired[s] % VersionSize,
                                        ![t].out = out]
      BY <2>2 DEF Track
    <3>2. \A o \in out : o.s \in tr.svcs
      <4>1. told.s = s
        OBVIOUS
      <4> HIDE DEF told
      <4> QED
        BY <1>2, <2>1, <3>1, <4>1
    <3> QED
      BY <1>8, <2>1, <3>1, <3>2
  <2>3. CASE BrokenLine(t, s)
    <3>1. tracker' = [tracker EXCEPT ![t].todo = @ \ {s}, ![t].entries[s] = aired[s] % VersionSize]
      BY <2>3 DEF BrokenLine
    <3> DEFINE todo == tr.todo \ {s}
               r1 == [tr EXCEPT !.todo = todo]
    <3>2. r1 = [on |-> tr.on, svcs |-> tr.svcs, todo |-> todo, out |-> tr.out, entries |-> tr.entries]
      <4> HIDE DEF todo
      <4> QED
        BY <1>1 DEF ShapedTracker
    <3>3. [r1 EXCEPT !.entries = read] =
             [on |-> tr.on, svcs |-> tr.svcs, todo |-> todo, out |-> tr.out, entries |-> read]
      <4> HIDE DEF r1, todo, read
      <4> QED
        BY <3>2
    <3>4. [tr EXCEPT !.todo = todo, !.entries = read] = [r1 EXCEPT !.entries = read]
      OBVIOUS
    <3>5. tracker' = [tracker EXCEPT ![t] = [tr EXCEPT !.todo = todo, !.entries = read]]
      BY <1>1, <3>1
    <3>6. Becomes(t, tr.on, todo, tr.out, read)
      BY <3>3, <3>4, <3>5 DEF Becomes
    <3>7. todo \subseteq tr.svcs
      <4> HIDE DEF read
      <4> QED
        BY <1>2
    <3> HIDE DEF todo, read
    <3> QED
      BY <1>1, <1>2, <3>6, <3>7, TrackerBecomes
  <2> QED
    BY <1>9, <2>2, <2>3
<1> QED
  BY <1>1, <1>3, <1>4, <1>5, <1>6, <1>7, <1>9 DEF TrackerStep

LEMMA TrackerIsTracked ==
    ASSUME TypeInv, TrackInv, NEW t \in Names, TrackerStep(t)
    PROVE  TrackInv'
<1>1. t \in DOMAIN tracker
  BY DEF TrackerStep, Poll, Track, BrokenLine, TunerUnavailable, EmitChanged, SetTimer, Stopping, Busy
<1>2. MailType /\ Bound /\ Reads(t) /\ Ends /\ Reported
  BY <1>1, TypesTogether DEF TrackInv
<1>3. Kept(t) /\ Reads(t)' /\ UNCHANGED <<config, temporal, cache, fetching, sse>>
  BY <1>1, <1>2, TrackerReads
<1>4. StoppedStay
  BY <1>1, <1>3 DEF StoppedStay, Kept, Bound, TrackInv
<1>5. Bound' /\ (\A x \in DOMAIN tracker' : Reads(x)') /\ Fetches' /\ EntriesHaveTrackers'
  <2>1. Bound' /\ Fetches' /\ EntriesHaveTrackers'
    BY <1>3 DEF TrackInv, Bound, Fetches, EntriesHaveTrackers, Kept, Watched, Local, Remote
  <2>2. ASSUME NEW x \in DOMAIN tracker', x # t PROVE Reads(x)'
    BY <1>3, <2>2 DEF TrackInv, Reads, Kept, Local
  <2> QED
    BY <1>3, <2>1, <2>2
<1>6. Ends' /\ Reported'
  <2>1. CASE mail' = mail
    BY <1>2, <1>3, <1>4, <2>1, KeptMailIsTracked
  <2>2. CASE EmitChanged(t)
    <3>1. PICK o \in tracker[t].out : Post(Msg("OnairProgramChanged", o))
      BY <2>2 DEF EmitChanged
    <3> DEFINE m == Msg("OnairProgramChanged", o)
    <3>2. m.kind = "OnairProgramChanged" /\ m.arg = o /\ Post(m)
      BY <3>1 DEF Msg
    <3>3. m \in Messages
      BY <1>1, <3>1, MessagesAreTyped DEF TypeInv, TypeOK
    <3>4. o.s \notin Watched => t \in DOMAIN temporal /\ temporal[t] = o.s /\ tracker[t].on # "stopped"
      BY <1>1, <1>2, <3>1 DEF Reads, Bound, Watched
    <3> HIDE DEF m
    <3> QED
      BY <1>2, <1>3, <1>4, <3>2, <3>3, <3>4, PostedIsTracked
  <2>3. CASE Stopping(t)
    <3> DEFINE m == Msg("TrackerStopped", t)
    <3>1. m.kind = "TrackerStopped" /\ m.arg = t /\ Post(m) /\ tracker[t].on = "stopping"
      BY <2>3 DEF Msg, Stopping
    <3>2. t \in Streams
      BY <1>1, <3>1 DEF TypeInv, TrackersAreShaped
    <3>3. m \in Messages /\ t # LOCAL0
      BY <3>2, MessagesAreTyped, NamesAssumption DEF LOCAL0
    <3>4. t \in DOMAIN temporal /\ tracker'[t].on = "stopped" /\ tracker[t].on # "stopped"
      <4>1. tracker' = [tracker EXCEPT ![t] = [tracker[t] EXCEPT !.on = "stopped"]]
        BY <2>3 DEF Stopping
      <4>2. tracker'[t].on = "stopped"
        BY <1>1, <4>1 DEF TypeInv, TrackersAreShaped, ShapedTracker
      <4> QED
        BY <1>1, <1>2, <3>1, <3>3, <4>2 DEF Bound
    <3> HIDE DEF m
    <3> QED
      BY <1>2, <1>3, <1>4, <3>1, <3>3, <3>4, PostedIsTracked
  <2> QED
    BY <2>1, <2>2, <2>3 DEF TrackerStep, Poll, Track, BrokenLine, TunerUnavailable, SetTimer
<1> QED
  BY <1>5, <1>6 DEF TrackInv

(* What the others do: they only add to the mailbox.                        *)
LEMMA OthersAreTracked ==
    ASSUME TypeInv, TrackInv, RemoteStep \/ World \/ TakeNotice \/ UNCHANGED vars
    PROVE  TrackInv'
<1> USE DEF airVars, streamVars, mgrVars, remoteVars, subVars
<1>0. MailType /\ AiredType /\ Ends /\ Reported /\ Fetches /\ Remote \subseteq Services
      /\ config.services \subseteq Services
  BY TypesTogether, ConfigsAssumption DEF TrackInv, Remote
<1>1. UNCHANGED <<config, temporal, tracker, cache>>
  BY DEF RemoteStep, World, OpenEventSource, ProcessEvent, FetchOnairProgram, FetchFails, Broadcast,
         Scan, CloseEventSource, RegisterEmitter, OpenStream, CloseStream, TakeNotice, vars
<1>2. Bound' /\ (\A t \in DOMAIN tracker' : Reads(t)') /\ EntriesHaveTrackers' /\ StoppedStay
      /\ Local' = Local /\ Remote' = Remote /\ Watched' = Watched
  BY <1>1 DEF TrackInv, Bound, Reads, EntriesHaveTrackers, StoppedStay, Watched, Local, Remote
<1>3. Ends' /\ Reported'
  <2>1. CASE mail' = mail
    BY <1>0, <1>1, <1>2, <2>1, KeptMailIsTracked
  <2>2. CASE Scan
    <3>1. PICK found \in SUBSET Services : Post(Msg("ServicesUpdated", found))
      BY <1>0, <2>2 DEF Scan
    <3> DEFINE m == Msg("ServicesUpdated", found)
    <3>2. m.kind = "ServicesUpdated" /\ m \in Messages /\ Post(m)
      BY <3>1, MessagesAreTyped DEF Msg
    <3> HIDE DEF m
    <3> QED
      BY <1>0, <1>1, <1>2, <3>2, PostedIsTracked
  <2>3. ASSUME NEW t \in Streams, OpenStream(t) PROVE Ends' /\ Reported'
    <3> DEFINE m == Msg("SpawnTemporalTracker", t)
    <3>1. m.kind = "SpawnTemporalTracker" /\ m \in Messages /\ Post(m)
      BY <2>3, MessagesAreTyped DEF Msg, OpenStream
    <3> HIDE DEF m
    <3> QED
      BY <1>0, <1>1, <1>2, <3>1, PostedIsTracked
  <2>4. CASE FetchOnairProgram
    <3> DEFINE o(s) == [s |-> s, program |-> Program(s, aired[s])]
    <3>1. PICK s \in fetching : Post(Msg("OnairProgramChanged", o(s)))
      BY <2>4 DEF FetchOnairProgram
    <3>2. s \in Remote /\ s \in Services /\ s \in Watched
      BY <1>0, <3>1 DEF Fetches, Watched
    <3>3. o(s) \in Notices /\ o(s).s = s
      BY <1>0, <3>2, ProgramIsTyped
    <3> DEFINE m == Msg("OnairProgramChanged", o(s))
    <3>4. m.kind = "OnairProgramChanged" /\ m.arg = o(s)
      BY DEF Msg
    <3>5. m \in Messages /\ m.arg.s = s /\ Post(m)
      BY <3>1, <3>3, <3>4, MessagesAreTyped
    <3> HIDE DEF m, o
    <3> QED
      BY <1>0, <1>1, <1>2, <3>2, <3>4, <3>5, PostedIsTracked
  <2> QED
    BY <2>1, <2>2, <2>3, <2>4 DEF RemoteStep, World, OpenEventSource, ProcessEvent, FetchFails,
       Broadcast, CloseEventSource, RegisterEmitter, CloseStream, TakeNotice, vars
<1>4. Fetches'
  <2>1. CASE UNCHANGED <<sse, fetching>>
    BY <1>0, <1>2, <2>1 DEF Fetches
  <2>2. ASSUME NEW s \in Services, Broadcast(s), s \in Remote, sse.open PROVE Fetches'
    <3>1. sse' = [sse EXCEPT !.queue = Append(sse.queue, s)] /\ fetching' = fetching
      BY <2>2 DEF Broadcast
    <3>2. Append(sse.queue, s) \in Seq(Remote)
      BY <1>0, <2>2, AppendIsTyped DEF Fetches
    <3>3. sse' = [open |-> sse.open, queue |-> Append(sse.queue, s)]
      <4> DEFINE q == Append(sse.queue, s)
      <4> HIDE DEF q
      <4>1. [sse EXCEPT !.queue = q] = [open |-> sse.open, queue |-> q]
        BY <1>0 DEF Fetches
      <4> QED
        BY <3>1, <4>1 DEF q
    <3>4. sse'.open = sse.open /\ sse'.queue = Append(sse.queue, s)
      BY <3>3
    <3> QED
      BY <1>0, <1>2, <3>1, <3>2, <3>3, <3>4 DEF Fetches
  <2>3. CASE OpenEventSource
    <3> DEFINE S == {s \in Remote : Program(s, aired[s]) # None}
               q == SetToSeq(S)
    <3>1. q \in Seq(Remote)
      <4>1. S \subseteq Remote /\ IsFiniteSet(S)
        BY <1>0, BoundsAssumption, FS_Subset
      <4> HIDE DEF S
      <4>2. q \in Seq(S)
        BY <4>1, SetToSeqLists
      <4> QED
        BY <4>1, <4>2
    <3>2. sse' = [open |-> TRUE, queue |-> q] /\ fetching' = fetching
      BY <2>3 DEF OpenEventSource
    <3> HIDE DEF q
    <3>3. sse' = [open |-> sse'.open, queue |-> sse'.queue] /\ sse'.queue = q
      BY <3>2
    <3> QED
      BY <1>0, <1>2, <3>1, <3>2, <3>3 DEF Fetches
  <2>4. CASE CloseEventSource
    <3>1. sse' = [open |-> FALSE, queue |-> <<>>] /\ fetching' = {}
      BY <2>4 DEF CloseEventSource
    <3>2. sse' = [open |-> sse'.open, queue |-> sse'.queue] /\ sse'.queue = <<>>
      BY <3>1
    <3>3. <<>> \in Seq(Remote)
      BY EmptySeq
    <3> QED
      BY <1>2, <3>1, <3>2, <3>3 DEF Fetches
  <2>5. CASE ProcessEvent
    <3> DEFINE q == Tail(sse.queue)
    <3>1. /\ sse.queue # <<>> /\ sse' = [sse EXCEPT !.queue = q]
          /\ fetching' \in {fetching, {Head(sse.queue)}}
      BY <2>5 DEF ProcessEvent
    <3>2. q \in Seq(Remote) /\ Head(sse.queue) \in Remote
      BY <1>0, <3>1, TailIsTyped DEF Fetches
    <3> HIDE DEF q
    <3>3. sse' = [open |-> sse.open, queue |-> q]
      BY <1>0, <3>1 DEF Fetches
    <3>4. sse'.open = sse.open /\ sse'.queue = q
      BY <3>3
    <3> QED
      BY <1>0, <1>2, <3>1, <3>2, <3>3, <3>4 DEF Fetches
  <2>6. CASE FetchOnairProgram \/ FetchFails
    <3>1. fetching' = {} /\ sse' = sse
      BY <2>6 DEF FetchOnairProgram, FetchFails
    <3> QED
      BY <1>0, <1>2, <3>1 DEF Fetches
  <2> QED
    <3>1. ASSUME NEW s \in config.services, Broadcast(s) PROVE Fetches'
      <4>1. s \in Services
        BY <1>0
      <4>2. CASE s \in Remote /\ sse.open
        BY <2>2, <3>1, <4>1, <4>2
      <4>3. CASE ~(s \in Remote /\ sse.open)
        BY <2>1, <3>1, <4>3 DEF Broadcast
      <4> QED
        BY <4>2, <4>3
    <3> QED
      BY <2>1, <2>3, <2>4, <2>5, <2>6, <3>1 DEF RemoteStep, World, Scan, RegisterEmitter,
         OpenStream, CloseStream, TakeNotice, vars
<1> QED
  BY <1>2, <1>3, <1>4 DEF TrackInv

(* The manager.                                                             *)
LEMMA HandledIsTracked ==
    ASSUME TypeInv, TrackInv, Handle
    PROVE  TrackInv'
<1> USE DEF airVars, streamVars, mgrVars, remoteVars, subVars
<1> DEFINE a == Arg
<1>0. /\ MailType /\ Ends /\ Reported /\ Bound /\ Fetches /\ EntriesHaveTrackers
      /\ \A t \in DOMAIN tracker : Reads(t)
  BY TypesTogether DEF TrackInv
<1>1. /\ UNCHANGED <<config, sse, fetching>> /\ mail # <<>> /\ mail' = Tail(mail)
      /\ mail[1] \in Messages /\ mail[1].arg = a /\ 1 \in 1..Len(mail)
  <2>1. UNCHANGED <<config, sse, fetching>> /\ mail # <<>> /\ mail' = Tail(mail)
    BY DEF Handle, SpawnTemporalTracker, ServicesUpdated, OnairProgramChanged, TrackerStopped, Receive
  <2>2. Head(mail) = mail[1] /\ Head(mail) \in Messages /\ Len(mail) \in Nat /\ Len(mail) >= 1
    BY <1>0, <2>1, TailIsTyped DEF MailType
  <2> QED
    BY <2>1, <2>2 DEF Arg
<1>2. Fetches' /\ Local' = Local /\ Remote' = Remote /\ Watched' = Watched
  BY <1>0, <1>1 DEF Fetches, Local, Remote, Watched
<1>3. CASE UNCHANGED <<tracker, temporal>>
  <2>1. Bound' /\ \A t \in DOMAIN tracker' : Reads(t)'
    BY <1>0, <1>2, <1>3 DEF Bound, Reads
  <2>2. Ends' /\ Reported'
    BY <1>0, <1>1, <1>3, TakenMailIsTracked
  <2>3. ASSUME NEW s \in DOMAIN cache', s \notin Watched PROVE \E t \in DOMAIN temporal : temporal[t] = s
    <3>1. CASE s \in DOMAIN cache
      BY <1>0, <2>3, <3>1 DEF EntriesHaveTrackers, Watched
    <3>2. CASE s \notin DOMAIN cache
      <4>1. OnairProgramChanged /\ s = a.s
        BY <2>3, <3>2 DEF Handle, SpawnTemporalTracker, ServicesUpdated, OnairProgramChanged,
           TrackerStopped, With, Without
      <4>2. mail[1].kind = "OnairProgramChanged"
        BY <1>0, <1>1, <4>1, TailIsTyped DEF OnairProgramChanged, Receive, MailType
      <4> HIDE DEF a
      <4> QED
        BY <1>0, <1>1, <2>3, <4>1, <4>2 DEF Reported, ReportsAt
    <3> QED
      BY <3>1, <3>2
  <2> QED
    BY <1>2, <1>3, <2>1, <2>2, <2>3 DEF TrackInv, EntriesHaveTrackers, Watched
<1>4. CASE SpawnTemporalTracker /\ ~UNCHANGED <<tracker, temporal>>
  <2> DEFINE r == NewTracker({ServiceOf[a]})
  <2>1. /\ ServiceOf[a] \notin Watched /\ a \notin DOMAIN tracker /\ cache' = cache
        /\ tracker' = With(tracker, a, r) /\ temporal' = With(temporal, a, ServiceOf[a])
    BY <1>4 DEF SpawnTemporalTracker, Watched
  <2>2. a \in Streams /\ a # LOCAL0
    <3>1. mail[1].kind = "SpawnTemporalTracker"
      BY <1>0, <1>1, <1>4, TailIsTyped DEF SpawnTemporalTracker, Receive, MailType
    <3> HIDE DEF a
    <3>2. a \in Streams
      BY <1>1, <3>1, ArgsAreTyped
    <3> QED
      BY <3>2, NamesAssumption DEF LOCAL0
  <2>3. r.svcs = {ServiceOf[a]} /\ r.todo = {} /\ r.out = {}
    BY DEF NewTracker
  <2> HIDE DEF a, r
  <2>4. /\ DOMAIN tracker' = DOMAIN tracker \union {a} /\ tracker'[a] = r
        /\ \A t \in DOMAIN tracker : tracker'[t] = tracker[t]
        /\ DOMAIN temporal' = DOMAIN temporal \union {a} /\ temporal'[a] = ServiceOf[a]
        /\ \A t \in DOMAIN temporal : temporal'[t] = temporal[t]
        /\ DOMAIN temporal \subseteq DOMAIN tracker
    BY <1>0, <2>1 DEF With, Bound
  <2>5. Bound' /\ EntriesHaveTrackers'
    BY <1>0, <1>2, <2>1, <2>2, <2>4 DEF Bound, EntriesHaveTrackers
  <2>6. ASSUME NEW t \in DOMAIN tracker' PROVE Reads(t)'
    <3>1. CASE t = a
      BY <1>2, <2>2, <2>3, <2>4, <3>1 DEF Reads
    <3>2. CASE t # a
      BY <1>0, <1>2, <2>4, <3>2 DEF Reads
    <3> QED
      BY <3>1, <3>2
  <2>7. Ends' /\ Reported'
    BY <1>0, <1>1, <2>4, TakenMailIsTracked
  <2> QED
    BY <1>2, <2>5, <2>6, <2>7 DEF TrackInv
<1>5. CASE TrackerStopped
  <2>1. mail[1].kind = "TrackerStopped"
    BY <1>0, <1>1, <1>5, TailIsTyped DEF TrackerStopped, Receive, MailType
  <2>2. /\ tracker' = Without(tracker, {a}) /\ temporal' = Without(temporal, {a})
        /\ cache' = IF \E t \in DOMAIN temporal' : temporal'[t] = temporal[a] THEN cache
                    ELSE Without(cache, {temporal[a]})
    BY <1>5 DEF TrackerStopped
  <2> HIDE DEF a
  <2>3. a \in DOMAIN temporal /\ a \in Streams /\ a # LOCAL0 /\ Stops(1, a)
    <3>1. Stops(1, a)
      BY <1>1, <2>1 DEF Stops
    <3>2. a \in DOMAIN temporal
      BY <1>0, <1>1, <2>1 DEF Ends
    <3> QED
      BY <1>0, <3>1, <3>2, NamesAssumption DEF Bound, LOCAL0
  <2>4. /\ DOMAIN tracker' = DOMAIN tracker \ {a} /\ DOMAIN temporal' = DOMAIN temporal \ {a}
        /\ \A t \in DOMAIN tracker' : tracker'[t] = tracker[t]
        /\ \A t \in DOMAIN temporal' : temporal'[t] = temporal[t]
    BY <2>2 DEF Without
  <2>5. Bound' /\ \A t \in DOMAIN tracker' : Reads(t)'
    BY <1>0, <1>2, <2>3, <2>4 DEF Bound, Reads
  <2>6. Ends' /\ Reported'
    <3>1. DOMAIN temporal \subseteq DOMAIN tracker
      BY <1>0 DEF Bound
    <3>2. ASSUME NEW t \in DOMAIN temporal, ~Stops(1, t)
          PROVE  /\ t \in DOMAIN temporal' /\ temporal'[t] = temporal[t]
                 /\ tracker[t].on = "stopped" => tracker'[t].on = "stopped"
      BY <2>3, <2>4, <3>1, <3>2
    <3> QED
      BY <1>0, <1>1, <3>2, TakenMailIsTracked
  <2>7. ASSUME NEW s \in DOMAIN cache', s \notin Watched
        PROVE  \E t \in DOMAIN temporal' : temporal'[t] = s
    <3>1. s \in DOMAIN cache
      BY <2>2 DEF Without
    <3>2. PICK t \in DOMAIN temporal : temporal[t] = s
      BY <1>0, <2>7, <3>1 DEF EntriesHaveTrackers, Watched
    <3>3. CASE t # a
      BY <2>4, <3>2, <3>3
    <3>4. CASE t = a
      BY <2>2, <3>2, <3>4 DEF Without
    <3> QED
      BY <3>3, <3>4
  <2> QED
    BY <1>2, <2>5, <2>6, <2>7 DEF TrackInv, EntriesHaveTrackers, Watched
<1> QED
  BY <1>3, <1>4, <1>5 DEF Handle, ServicesUpdated, OnairProgramChanged

(* The inductive invariant: whoever reports a service is a tracker that the *)
(* manager still knows when it handles the report.                          *)
THEOREM ReportsAreTracked == Spec => []TrackInv
<1>1. Init => TrackInv
  <2> SUFFICES ASSUME Init PROVE TrackInv
    OBVIOUS
  <2>1. /\ tracker = [t \in {x \in {LOCAL0} : Local # {}} |-> NewTracker(Local)]
        /\ temporal = <<>> /\ cache = <<>> /\ mail = <<>> /\ fetching = {}
        /\ sse = [open |-> FALSE, queue |-> <<>>]
    BY DEF Init
  <2>2. DOMAIN temporal = {} /\ DOMAIN cache = {} /\ Len(mail) = 0
    BY <2>1
  <2>3. Ends /\ Reported /\ EntriesHaveTrackers
    BY <2>2 DEF Ends, Reported, EntriesHaveTrackers
  <2>4. Bound
    BY <2>1, <2>2 DEF Bound
  <2>5. Fetches
    <3>1. sse.open = FALSE /\ sse.queue = <<>>
      BY <2>1
    <3>2. <<>> \in Seq(Remote)
      BY EmptySeq
    <3> QED
      BY <2>1, <3>1, <3>2 DEF Fetches
  <2>6. ASSUME NEW t \in DOMAIN tracker PROVE Reads(t)
    <3>1. t = LOCAL0 /\ tracker[t] = NewTracker(Local)
      BY <2>1
    <3>2. tracker[t].todo = {} /\ tracker[t].out = {} /\ tracker[t].svcs = Local
      BY <3>1 DEF NewTracker
    <3> QED
      BY <3>1, <3>2 DEF Reads
  <2> QED
    BY <2>3, <2>4, <2>5, <2>6 DEF TrackInv
<1>2. TypeInv /\ TrackInv /\ [Next]_vars => TrackInv'
  BY OthersAreTracked, HandledIsTracked, TrackerIsTracked DEF Next
<1> QED
  BY <1>1, <1>2, TypeCorrect, PTL DEF Spec

(* The cache of OnairProgramManager holds a service without a configured    *)
(* tracker only while a temporal tracker of it is known: the last report of *)
(* a tracker is handled before stopping() of that tracker.                  *)
THEOREM EntriesGoWithTrackers == Spec => []EntriesHaveTrackers
<1>1. TrackInv => EntriesHaveTrackers
  BY DEF TrackInv
<1> QED
  BY <1>1, ReportsAreTracked, PTL
=============================================================================
