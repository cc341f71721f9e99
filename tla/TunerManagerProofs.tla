-------------------------- MODULE TunerManagerProofs --------------------------
(***************************************************************************)
(* Proofs about TunerManager and Streaming for every configuration that    *)
(* satisfies their assumptions: any number of tuners, channels, users and  *)
(* requests.                                                               *)
(*                                                                         *)
(* The eight outcomes of StartStreaming are first reduced to three: the    *)
(* user joins a session, opens one, or fails.  The invariants are then     *)
(* proved in layers, each from the layers before it: TypeOK, UseInv (who   *)
(* may use which tuner), OwnerInv (who will give it back) and ChannelInv   *)
(* (what it is tuned to).  They carry the action properties and the        *)
(* refinement of TunerSharing.                                             *)
(*                                                                         *)
(* The second part is about Streaming.  The state of a broadcaster is      *)
(* described relative to the session it belongs to, as long as the manager *)
(* keeps that session (AgreesWith).  That the messages under way find the  *)
(* broadcaster they were meant for rests on what the manager knows of its  *)
(* own numbers (NumbersInv).                                               *)
(***************************************************************************)
EXTENDS Streaming, TunerRefinement, SequenceTheorems, FiniteSetTheorems,
        WellFoundedInduction, TLAPS

-----------------------------------------------------------------------------
(* The outcomes of StartStreaming.                                          *)

JoinReason(u, r, t, s) ==
    \/ \E id \in r.stream : id.tuner = t
    \/ r.stream = {} /\ IsReservedFor(t, u)
    \/ r.stream = {} /\ ~Exclusive(t) /\ s.channel = r.channel
Joins(u) == \E r \in req[u], t \in Tuners : \E s \in tuner[t] :
    /\ Serves(u, r)
    /\ JoinReason(u, r, t, s)
    /\ Subscribe(t, s, u)
    /\ sessions' = sessions
    /\ Emit({t}, {})

OpenReason(u, r, t) ==
    \/ IsReservedFor(t, u)
    \/ ChannelOnly(t) /\ r.channel = DedicatedChannel(t)
    \/ Unrestricted(t)
Opens(u) == \E r \in req[u], t \in Tuners :
    /\ Serves(u, r)
    /\ r.stream = {}
    /\ OpenReason(u, r, t)
    /\ Subscribe(t, NewSession(r.channel), u)
    /\ sessions' = sessions + 1
    /\ Emit({t}, {})

Fails(u) ==
    /\ call = {} /\ Waiting(u)
    /\ Fail(u)
    /\ CannotActivate
    /\ call' = call
    /\ \/ tuner' = tuner /\ Emit({}, {})
       \/ \E t \in Tuners : tuner' = [tuner EXCEPT ![t] = {}] /\ Emit({t}, {t})

LEMMA ActivateCases ==
    ASSUME NEW u \in Users, NEW r \in req[u], NEW t \in Tuners,
           Serves(u, r), r.stream = {}, OpenReason(u, r, t), Activate(t, u, r)
    PROVE  Opens(u) \/ Fails(u)
<1>1. CASE Subscribe(t, NewSession(r.channel), u) /\ sessions' = sessions + 1 /\ Emit({t}, {})
  BY <1>1 DEF Opens
<1>2. CASE CannotActivate /\ Fail(u) /\ Emit({}, {}) /\ UNCHANGED <<tuner, call>>
  BY <1>2 DEF Fails, Serves
<1> QED
  BY <1>1, <1>2 DEF Activate

LEMMA StartStreamingCases ==
    ASSUME TypeOK, NEW u \in Users, StartStreaming(u)
    PROVE  Joins(u) \/ Opens(u) \/ Fails(u)
<1> USE DEF Serves
<1>1. CASE UseSpecifiedTuner(u)
  <2>1. PICK r \in req[u] : \E id \in r.stream : \E s \in tuner[id.tuner] :
            Serves(u, r) /\ Subscribe(id.tuner, s, u) /\ Emit({id.tuner}, {}) /\ sessions' = sessions
    BY <1>1 DEF UseSpecifiedTuner
  <2> PICK id \in r.stream : \E s \in tuner[id.tuner] :
            Serves(u, r) /\ Subscribe(id.tuner, s, u) /\ Emit({id.tuner}, {}) /\ sessions' = sessions
    BY <2>1
  <2>2. id.tuner \in Tuners
    BY DEF TypeOK, Request, SubscriptionId
  <2> QED
    BY <2>2 DEF Joins, JoinReason
<1>2. CASE SpecifiedTunerLost(u)
  BY <1>2 DEF SpecifiedTunerLost, Fails, CannotActivate
<1>3. CASE UseReservedTuner(u)
  <2>1. PICK r \in req[u], t \in Tuners :
            /\ Serves(u, r) /\ r.stream = {}
            /\ IsFirst(t, ReservedTuners(u))
            /\ \/ Activate(t, u, r)
               \/ /\ \E s \in tuner[t] : Subscribe(t, s, u)
                  /\ Emit({t}, {})
                  /\ UNCHANGED sessions
    BY <1>3 DEF UseReservedTuner
  <2>2. IsReservedFor(t, u)
    BY <2>1 DEF IsFirst, ReservedTuners
  <2>3. CASE Activate(t, u, r)
    BY <2>1, <2>2, <2>3, ActivateCases DEF OpenReason
  <2>4. CASE (\E s \in tuner[t] : Subscribe(t, s, u)) /\ Emit({t}, {}) /\ UNCHANGED sessions
    BY <2>1, <2>2, <2>4 DEF Joins, JoinReason
  <2> QED
    BY <2>1, <2>3, <2>4
<1>4. CASE ReuseActiveTuner(u)
  <2>1. PICK r \in req[u], t \in Tuners :
            /\ Serves(u, r) /\ r.stream = {}
            /\ IsFirst(t, ReusableTuners(r.channel))
            /\ \E s \in tuner[t] : Subscribe(t, s, u)
            /\ Emit({t}, {}) /\ sessions' = sessions
    BY <1>4 DEF ReuseActiveTuner
  <2>2. ~Exclusive(t) /\ \A s \in tuner[t] : s.channel = r.channel
    BY <2>1 DEF IsFirst, ReusableTuners, IsReusable, TypeOK
  <2> QED
    BY <2>1, <2>2 DEF Joins, JoinReason
<1>5. CASE UseAvailableTuner(u)
  <2>1. PICK r \in req[u], t \in Tuners :
            /\ Serves(u, r) /\ r.stream = {}
            /\ IsFirst(t, AvailableTuners(r.channel))
            /\ Activate(t, u, r)
    BY <1>5 DEF UseAvailableTuner
  <2>2. OpenReason(u, r, t)
    BY <2>1 DEF IsFirst, AvailableTuners, IsAvailableFor, OpenReason
  <2> QED
    BY <2>1, <2>2, ActivateCases
<1>6. CASE GrabTuner(u)
  <2>1. PICK r \in req[u], t \in Tuners :
            /\ MustGrab(u, r)
            /\ IsLowestRanked(t, GrabbableTuners(u, r.channel))
            /\ \/ /\ Subscribe(t, NewSession(r.channel), u)
                  /\ sessions' = sessions + 1
                  /\ Emit({t}, {})
               \/ /\ CannotActivate
                  /\ Fail(u)
                  /\ tuner' = [tuner EXCEPT ![t] = {}]
                  /\ Emit({t}, {t})
                  /\ UNCHANGED call
               \/ /\ Fail(u)
                  /\ Emit({}, {})
                  /\ UNCHANGED <<tuner, sessions, call>>
    BY <1>6 DEF GrabTuner
  <2>2. Serves(u, r) /\ r.stream = {}
    BY <2>1 DEF MustGrab
  <2>3. OpenReason(u, r, t)
    BY <2>1 DEF IsLowestRanked, GrabbableTuners, CanGrab, OpenReason
  <2>4. CASE Subscribe(t, NewSession(r.channel), u) /\ sessions' = sessions + 1 /\ Emit({t}, {})
    BY <2>2, <2>3, <2>4 DEF Opens
  <2>5. CASE /\ CannotActivate /\ Fail(u)
             /\ tuner' = [tuner EXCEPT ![t] = {}]
             /\ Emit({t}, {t}) /\ UNCHANGED call
    BY <2>2, <2>5 DEF Fails
  <2>6. CASE Fail(u) /\ Emit({}, {}) /\ UNCHANGED <<tuner, sessions, call>>
    BY <2>2, <2>6 DEF Fails, CannotActivate
  <2> QED
    BY <2>1, <2>4, <2>5, <2>6
<1>7. CASE NoTunerAvailable(u)
  BY <1>7 DEF NoTunerAvailable, MustGrab, Fails, CannotActivate
<1>8. CASE RefusedInShutdown(u)
  BY <1>8 DEF RefusedInShutdown, Fails, CannotActivate
<1> QED
  BY <1>1, <1>2, <1>3, <1>4, <1>5, <1>6, <1>7, <1>8 DEF StartStreaming

-----------------------------------------------------------------------------
(* Types.                                                                   *)

LEMMA ReservedUsers ==
    ASSUME NEW t \in Tuners
    PROVE  /\ Exclusive(t) => ReservedFor(t) \in Trackers
           /\ ChannelOnly(t) => ReservedFor(t) \in Recorders
<1>1. Exclusive(t) => ReservedFor(t) \in TrackersOf(t)
  BY DEF Exclusive, ReservedFor
<1>2. ChannelOnly(t) => ReservedFor(t) \in RecordersOf(t)
  BY DEF ChannelOnly, ReservedFor
<1> QED
  BY <1>1, <1>2 DEF TrackersOf, RecordersOf

LEMMA SubscriberAdded ==
    ASSUME NEW s \in Session, NEW u \in Users
    PROVE  /\ WithSubscriber(s, u) \in Session
           /\ WithSubscriber(s, u).id = s.id
           /\ WithSubscriber(s, u).channel = s.channel
           /\ WithSubscriber(s, u).subs = s.subs \cup {[serial |-> s.next, user |-> u]}
<1>1. s.id \in Nat /\ s.channel \in Channels /\ s.subs \subseteq Subscriber /\ s.next + 1 \in Nat
  BY DEF Session
<1>2. [serial |-> s.next, user |-> u] \in Subscriber
  BY DEF Session, Subscriber
<1>3. s.subs \cup {[serial |-> s.next, user |-> u]} \in SUBSET Subscriber
  BY <1>1, <1>2
<1> QED
  BY <1>1, <1>3 DEF Session, WithSubscriber

LEMMA SubscriberRemoved ==
    ASSUME NEW s \in Session, NEW n
    PROVE  /\ WithoutSubscriber(s, n) \in Session
           /\ WithoutSubscriber(s, n).id = s.id
           /\ WithoutSubscriber(s, n).channel = s.channel
           /\ WithoutSubscriber(s, n).subs = {x \in s.subs : x.serial # n}
<1>1. WithoutSubscriber(s, n) = [id |-> s.id, channel |-> s.channel,
                                 subs |-> {x \in s.subs : x.serial # n}, next |-> s.next]
  BY DEF WithoutSubscriber, Session
<1>2. s.id \in Nat /\ s.channel \in Channels /\ s.subs \subseteq Subscriber /\ s.next \in Nat
  BY DEF Session
<1>3. {x \in s.subs : x.serial # n} \subseteq Subscriber
  BY <1>2
<1> QED
  BY <1>1, <1>2, <1>3 DEF Session

LEMMA SubscribeTypes ==
    ASSUME TypeOK, NEW t \in Tuners, NEW s \in Session, NEW u \in Users, Subscribe(t, s, u)
    PROVE  /\ tuner' \in [Tuners -> SUBSET Session]
           /\ \A t2 \in Tuners : \A s1, s2 \in tuner'[t2] : s1 = s2
           /\ tuner'[t] = {WithSubscriber(s, u)}
           /\ \A t2 \in Tuners \ {t} : tuner'[t2] = tuner[t2]
           /\ call' \subseteq [user : Users, id : SubscriptionId]
           /\ \A c1, c2 \in call' : c1 = c2
<1>1. {WithSubscriber(s, u)} \in SUBSET Session
  BY SubscriberAdded
<1>2. tuner' = [tuner EXCEPT ![t] = {WithSubscriber(s, u)}] /\ call' = {[user |-> u, id |-> IdOf(t, s)]}
  BY DEF Subscribe
<1>3. IdOf(t, s) \in SubscriptionId
  BY DEF IdOf, SubscriptionId, Session
<1>4. /\ call' \subseteq [user : Users, id : SubscriptionId]
      /\ \A c1, c2 \in call' : c1 = c2
  BY <1>2, <1>3
<1>5. \A s1, s2 \in {WithSubscriber(s, u)} : s1 = s2
  OBVIOUS
<1>6. tuner' = [tuner EXCEPT ![t] = {WithSubscriber(s, u)}]
  BY <1>2
<1>7. /\ tuner' \in [Tuners -> SUBSET Session]
      /\ \A t2 \in Tuners : \A s1, s2 \in tuner'[t2] : s1 = s2
      /\ tuner'[t] = {WithSubscriber(s, u)}
      /\ \A t2 \in Tuners \ {t} : tuner'[t2] = tuner[t2]
  BY <1>1, <1>5, <1>6 DEF TypeOK
<1> QED
  BY <1>4, <1>7

LEMMA NewSessionType ==
    ASSUME TypeOK, NEW ch \in Channels
    PROVE  /\ NewSession(ch) \in Session
           /\ NewSession(ch).id = sessions
           /\ NewSession(ch).channel = ch
           /\ NewSession(ch).subs = {}
  BY DEF NewSession, Session, TypeOK

LEMMA EmitType ==
    ASSUME NEW S \in SUBSET Tuners, NEW A \in SUBSET Tuners, Emit(S, A)
    PROVE  out' \in [status : SUBSET Tuners, available : SUBSET Tuners]
  BY DEF Emit

LEMMA JoinsTypeOK == ASSUME TypeOK, NEW u \in Users, Joins(u) PROVE TypeOK'
<1>1. PICK r \in req[u], t \in Tuners : \E s \in tuner[t] :
          Subscribe(t, s, u) /\ sessions' = sessions /\ Emit({t}, {})
  BY DEF Joins
<1>2. PICK s \in tuner[t] : Subscribe(t, s, u)
  BY <1>1
<1>3. s \in Session
  BY DEF TypeOK
<1>4. /\ tuner' \in [Tuners -> SUBSET Session]
      /\ \A t2 \in Tuners : \A s1, s2 \in tuner'[t2] : s1 = s2
      /\ call' \subseteq [user : Users, id : SubscriptionId]
      /\ \A c1, c2 \in call' : c1 = c2
  BY <1>2, <1>3, SubscribeTypes
<1>5. out' \in [status : SUBSET Tuners, available : SUBSET Tuners]
  BY <1>1 DEF Emit
<1>6. UNCHANGED <<stopping, req, got, gone, stops, follow, asked>>
  BY <1>2 DEF Subscribe, userVars
<1> QED
  BY <1>1, <1>4, <1>5, <1>6 DEF TypeOK

LEMMA OpensTypeOK == ASSUME TypeOK, NEW u \in Users, Opens(u) PROVE TypeOK'
<1>1. PICK r \in req[u], t \in Tuners :
          Subscribe(t, NewSession(r.channel), u) /\ sessions' = sessions + 1 /\ Emit({t}, {})
  BY DEF Opens
<1>2. NewSession(r.channel) \in Session
  <2>1. r.channel \in Channels
    BY DEF TypeOK, Request
  <2> QED
    BY <2>1, NewSessionType
<1>4. /\ tuner' \in [Tuners -> SUBSET Session]
      /\ \A t2 \in Tuners : \A s1, s2 \in tuner'[t2] : s1 = s2
      /\ call' \subseteq [user : Users, id : SubscriptionId]
      /\ \A c1, c2 \in call' : c1 = c2
  BY <1>1, <1>2, SubscribeTypes
<1>5. out' \in [status : SUBSET Tuners, available : SUBSET Tuners]
  BY <1>1 DEF Emit
<1>6. UNCHANGED <<stopping, req, got, gone, stops, follow, asked>>
  BY <1>1 DEF Subscribe, userVars
<1>7. sessions' \in Nat
  BY <1>1 DEF TypeOK
<1> QED
  BY <1>4, <1>5, <1>6, <1>7 DEF TypeOK

LEMMA FailsTypeOK == ASSUME TypeOK, NEW u \in Users, Fails(u) PROVE TypeOK'
<1>1. /\ tuner' \in [Tuners -> SUBSET Session]
      /\ \A t2 \in Tuners : \A s1, s2 \in tuner'[t2] : s1 = s2
  <2>1. CASE tuner' = tuner
    BY <2>1 DEF TypeOK
  <2>2. CASE \E t \in Tuners : tuner' = [tuner EXCEPT ![t] = {}]
    BY <2>2 DEF TypeOK
  <2> QED
    BY <2>1, <2>2 DEF Fails
<1>2. out' \in [status : SUBSET Tuners, available : SUBSET Tuners]
  BY DEF Fails, Emit
<1>3. sessions' \in Nat
  BY DEF Fails, CannotActivate, TypeOK
<1>4. /\ req' \in [Users -> SUBSET Request]
      /\ \A u2 \in Users : \A r1, r2 \in req'[u2] : r1 = r2
      /\ follow' \in [Users -> SUBSET Request]
      /\ \A u2 \in Users : \A r1, r2 \in follow'[u2] : r1 = r2
  BY DEF Fails, Fail, TypeOK
<1>5. gone' \subseteq Users
  BY DEF Fails, Fail, TypeOK
<1>6. UNCHANGED <<stopping, call, got, stops, asked>>
  BY DEF Fails, Fail
<1> QED
  BY <1>1, <1>2, <1>3, <1>4, <1>5, <1>6 DEF TypeOK

LEMMA RepliesTypeOK == ASSUME TypeOK, SubscribeOk \/ SubscribeFailed PROVE TypeOK'
<1>2. \A d \in call : d.user \in Users /\ d.id \in SubscriptionId /\ d.id.tuner \in Tuners
  BY DEF TypeOK, SubscriptionId
<1>3. CASE SubscribeOk
  <2>1. PICK d \in call :
            /\ got' = [got EXCEPT ![d.user] = IF d.user \in gone THEN {} ELSE {d.id}]
            /\ req' = [req EXCEPT ![d.user] = IF d.user \in gone THEN {} ELSE @]
    BY <1>3 DEF SubscribeOk
  <2>2. /\ got' \in [Users -> SUBSET SubscriptionId]
        /\ \A u2 \in Users : \A id1, id2 \in got'[u2] : id1 = id2
    BY <1>2, <2>1 DEF TypeOK
  <2>3. /\ req' \in [Users -> SUBSET Request]
        /\ \A u2 \in Users : \A r1, r2 \in req'[u2] : r1 = r2
    BY <1>2, <2>1 DEF TypeOK
  <2>4. out' \in [status : SUBSET Tuners, available : SUBSET Tuners]
    BY <1>3 DEF SubscribeOk, Emit
  <2>5. call' = {} /\ gone' \subseteq gone /\ UNCHANGED <<tuner, sessions, stopping, stops, follow, asked>>
    BY <1>3 DEF SubscribeOk
  <2> QED
    BY <2>2, <2>3, <2>4, <2>5 DEF TypeOK
<1>4. CASE SubscribeFailed
  <2>1. PICK d \in call :
            /\ tuner' = [tuner EXCEPT ![d.id.tuner] = {}]
            /\ req' = [req EXCEPT ![d.user] = {}]
            /\ Emit({d.id.tuner}, {d.id.tuner})
    BY <1>4 DEF SubscribeFailed
  <2>2. /\ tuner' \in [Tuners -> SUBSET Session]
        /\ \A t2 \in Tuners : \A s1, s2 \in tuner'[t2] : s1 = s2
    BY <1>2, <2>1 DEF TypeOK
  <2>3. /\ req' \in [Users -> SUBSET Request]
        /\ \A u2 \in Users : \A r1, r2 \in req'[u2] : r1 = r2
    BY <1>2, <2>1 DEF TypeOK
  <2>4. out' \in [status : SUBSET Tuners, available : SUBSET Tuners]
    BY <1>2, <2>1 DEF Emit
  <2>5. call' = {} /\ gone' \subseteq gone /\ UNCHANGED <<sessions, stopping, got, stops, follow, asked>>
    BY <1>4 DEF SubscribeFailed
  <2> QED
    BY <2>2, <2>3, <2>4, <2>5 DEF TypeOK
<1> QED
  BY <1>3, <1>4

LEMMA StopTypeOK == ASSUME TypeOK, NEW m \in stops, StopStreaming(m) PROVE TypeOK'
<1> DEFINE t == m.id.tuner
<1>1. t \in Tuners /\ tuner[t] \subseteq Session
  BY DEF TypeOK, SubscriptionId
<1>2. /\ tuner' \in [Tuners -> SUBSET Session]
      /\ \A t2 \in Tuners : \A s1, s2 \in tuner'[t2] : s1 = s2
  <2>1. CASE IgnoreStop(m)
    BY <2>1 DEF IgnoreStop, TypeOK
  <2>2. CASE StopUnmatched(m)
    <3>1. PICK s \in tuner[t] : tuner' = [tuner EXCEPT ![t] = Remaining(s)]
      BY <2>2 DEF StopUnmatched
    <3>2. Remaining(s) \subseteq {s}
      BY DEF Remaining
    <3> HIDE DEF t
    <3> QED
      BY <1>1, <3>1, <3>2 DEF TypeOK
  <2>3. CASE StopMatched(m)
    <3>1. PICK s \in tuner[t] :
              tuner' = [tuner EXCEPT ![t] = Remaining(WithoutSubscriber(s, m.id.serial))]
      BY <2>3 DEF StopMatched
    <3> DEFINE w == WithoutSubscriber(s, m.id.serial)
    <3>2. Remaining(w) \subseteq {w}
      BY DEF Remaining
    <3>3. w \in Session
      BY <1>1, SubscriberRemoved
    <3> HIDE DEF t, w
    <3> QED
      BY <1>1, <3>1, <3>2, <3>3 DEF TypeOK, w
  <2> QED
    BY <2>1, <2>2, <2>3 DEF StopStreaming
<1>3. out' \in [status : SUBSET Tuners, available : SUBSET Tuners]
  <2>1. CASE IgnoreStop(m)
    BY <2>1 DEF IgnoreStop, Emit
  <2>2. CASE StopUnmatched(m)
    BY <2>2 DEF StopUnmatched, Emit
  <2>3. CASE StopMatched(m)
    BY <1>1, <2>3 DEF StopMatched, Emit
  <2> QED
    BY <2>1, <2>2, <2>3 DEF StopStreaming
<1>4. stops' \subseteq stops /\ UNCHANGED <<sessions, stopping, call, req, got, gone, follow, asked>>
  BY DEF StopStreaming
<1> QED
  BY <1>2, <1>3, <1>4 DEF TypeOK

LEMMA UserTypeOK == ASSUME TypeOK, NEW u \in Users, UserStep(u) PROVE TypeOK'
<1>1. UNCHANGED managerVars /\ Emit({}, {})
  BY DEF UserStep, RequestStream, CancelRequest, DropStream
<1>2. out' \in [status : SUBSET Tuners, available : SUBSET Tuners]
  BY <1>1 DEF Emit
<1>3. CASE RequestStream(u)
  <2>1. UNCHANGED <<got, gone, stops, follow>> /\ asked' \in Nat
    BY <1>3 DEF RequestStream, TypeOK
  <2>2. PICK r \in Request : req' = [req EXCEPT ![u] = {r}] \/ req' = [req EXCEPT ![u] = follow[u]]
    <3>1. CASE \E ch \in Asks[u] : req' = [req EXCEPT ![u] = {[channel |-> ch, stream |-> {}]}]
      <4>1. PICK ch \in Asks[u] : req' = [req EXCEPT ![u] = {[channel |-> ch, stream |-> {}]}]
        BY <3>1
      <4>2. [channel |-> ch, stream |-> {}] \in Request
        BY ConfigAssumption DEF Request
      <4> QED
        BY <4>1, <4>2
    <3>2. CASE follow[u] # {} /\ req' = [req EXCEPT ![u] = follow[u]]
      BY <3>2 DEF TypeOK
    <3> QED
      BY <1>3, <3>1, <3>2 DEF RequestStream
  <2>3. req' \in [Users -> SUBSET Request]
    BY <2>2 DEF TypeOK
  <2>4. \A u2 \in Users : \A r1, r2 \in req'[u2] : r1 = r2
    BY <2>2 DEF TypeOK
  <2> QED
    BY <1>1, <1>2, <2>1, <2>3, <2>4 DEF TypeOK, managerVars
<1>4. CASE CancelRequest(u)
  BY <1>1, <1>2, <1>4 DEF CancelRequest, TypeOK, managerVars
<1>5. CASE DropStream(u)
  <2>1. PICK id \in got[u] : stops' = stops \cup {[id |-> id, user |-> u]}
    BY <1>5 DEF DropStream
  <2>2. stops' \subseteq [user : Users, id : SubscriptionId]
    BY <2>1 DEF TypeOK
  <2>3. got' = [got EXCEPT ![u] = {}] /\ req' = [req EXCEPT ![u] = {}] /\ UNCHANGED <<gone, follow, asked>>
    BY <1>5 DEF DropStream
  <2>4. got' \in [Users -> SUBSET SubscriptionId] /\ req' \in [Users -> SUBSET Request]
    BY <2>3 DEF TypeOK
  <2>5. \A u2 \in Users : /\ \A r1, r2 \in req'[u2] : r1 = r2
                          /\ \A id1, id2 \in got'[u2] : id1 = id2
    BY <2>3 DEF TypeOK
  <2> QED
    BY <1>1, <1>2, <2>2, <2>3, <2>4, <2>5 DEF TypeOK, managerVars
<1> QED
  BY <1>3, <1>4, <1>5 DEF UserStep

LEMMA InitTypeOK == Init => TypeOK
<1> SUFFICES ASSUME Init PROVE TypeOK
  OBVIOUS
<1>1. tuner \in [Tuners -> SUBSET Session] /\ \A t \in Tuners : \A s1, s2 \in tuner[t] : s1 = s2
  BY DEF Init
<1>2. sessions \in Nat /\ stopping \in BOOLEAN /\ asked \in Nat
  BY DEF Init
<1>3. /\ req \in [Users -> SUBSET Request]
      /\ got \in [Users -> SUBSET SubscriptionId]
      /\ follow \in [Users -> SUBSET Request]
  BY DEF Init
<1>4. \A u \in Users : req[u] = {} /\ got[u] = {} /\ follow[u] = {}
  BY DEF Init
<1>5. out \in [status : SUBSET Tuners, available : SUBSET Tuners]
  BY DEF Init, Quiet
<1>6. call \subseteq [user : Users, id : SubscriptionId] /\ \A c1, c2 \in call : c1 = c2
  BY DEF Init
<1>7. stops \subseteq [user : Users, id : SubscriptionId] /\ gone \subseteq Users
  BY DEF Init
<1> QED
  BY <1>1, <1>2, <1>3, <1>4, <1>5, <1>6, <1>7 DEF TypeOK

LEMMA NextTypeOK == TypeOK /\ [Next]_vars => TypeOK'
<1> SUFFICES ASSUME TypeOK, [Next]_vars PROVE TypeOK'
  OBVIOUS
<1>1. CASE \E u \in Users : StartStreaming(u)
  BY <1>1, StartStreamingCases, JoinsTypeOK, OpensTypeOK, FailsTypeOK
<1>2. CASE \E u \in Users : UserStep(u)
  BY <1>2, UserTypeOK
<1>3. CASE SubscribeOk \/ SubscribeFailed
  BY <1>3, RepliesTypeOK
<1>4. CASE \E m \in stops : StopStreaming(m)
  BY <1>4, StopTypeOK
<1>5. CASE Shutdown
  <2>1. tuner' = [t \in Tuners |-> {}] /\ stopping' = TRUE
    BY <1>5 DEF Shutdown
  <2>2. out' \in [status : SUBSET Tuners, available : SUBSET Tuners]
    BY <1>5 DEF Shutdown, Emit
  <2>3. UNCHANGED <<sessions, call, req, got, gone, stops, follow, asked>>
    BY <1>5 DEF Shutdown, userVars
  <2> QED
    BY <2>1, <2>2, <2>3 DEF TypeOK
<1>6. CASE \E u \in Followers, w \in Viewers : SpawnFollower(u, w)
  <2>1. PICK u \in Followers, w \in Viewers : SpawnFollower(u, w)
    BY <1>6
  <2>2. PICK r \in req[w] : follow' = [follow EXCEPT ![u] = {[channel |-> r.channel, stream |-> got[w]]}]
    BY <2>1 DEF SpawnFollower
  <2>3. u \in Users /\ w \in Users
    BY ConfigAssumption
  <2>4. [channel |-> r.channel, stream |-> got[w]] \in Request
    BY <2>3 DEF TypeOK, Request
  <2>5. /\ follow' \in [Users -> SUBSET Request]
        /\ \A u2 \in Users : \A r1, r2 \in follow'[u2] : r1 = r2
    BY <2>2, <2>3, <2>4 DEF TypeOK
  <2>6. out' \in [status : SUBSET Tuners, available : SUBSET Tuners]
    BY <2>1 DEF SpawnFollower, Emit
  <2>7. UNCHANGED <<tuner, sessions, stopping, call, req, got, gone, stops, asked>>
    BY <2>1 DEF SpawnFollower, managerVars
  <2> QED
    BY <2>5, <2>6, <2>7 DEF TypeOK
<1>7. CASE UNCHANGED vars
  BY <1>7 DEF vars, TypeOK
<1> QED
  BY <1>1, <1>2, <1>3, <1>4, <1>5, <1>6, <1>7 DEF Next

(* Every variable keeps its type; in particular no tuner ever has two       *)
(* sessions and no user two requests or two streams.                        *)
THEOREM TypeCorrect == Spec => []TypeOK
  BY InitTypeOK, NextTypeOK, PTL DEF Spec

-----------------------------------------------------------------------------
(* Who may use which tuner.                                                 *)

(* Every session was there before, on the same channel and with at least    *)
(* the same subscribers: what all steps do but joining and opening.         *)
Shrinks == \A t \in Tuners : \A s2 \in tuner'[t] : \E s \in tuner[t] :
    /\ s2.id = s.id
    /\ s2.channel = s.channel
    /\ s2.subs \subseteq s.subs

(* What is left of a tuner after StopStreaming.                             *)
AfterStop(m, t, s, s2) ==
    /\ s2.id = s.id
    /\ s2.channel = s.channel
    /\ s2.subs \subseteq s.subs
    /\ s2.subs # {} \/ s2 = s
    /\ (~stopping /\ t = m.id.tuner /\ s.id = m.id.session) =>
           \A x \in s2.subs : x.serial # m.id.serial

LEMMA StopEffect ==
    ASSUME TypeOK, NEW m \in stops, StopStreaming(m)
    PROVE  \A t \in Tuners : \A s2 \in tuner'[t] : \E s \in tuner[t] : AfterStop(m, t, s, s2)
<1> DEFINE k == m.id.tuner
<1>1. k \in Tuners /\ tuner[k] \subseteq Session /\ tuner \in [Tuners -> SUBSET Session]
  BY DEF TypeOK, SubscriptionId
<1>2. \A s1, s2 \in tuner[k] : s1 = s2
  BY <1>1 DEF TypeOK
<1>3. CASE IgnoreStop(m)
  <2>1. \A t \in Tuners : \A s \in tuner[t] : AfterStop(m, t, s, s)
    BY <1>3 DEF IgnoreStop, AfterStop
  <2> QED
    BY <1>3, <2>1 DEF IgnoreStop
<1>4. CASE StopUnmatched(m)
  <2>1. PICK s \in tuner[k] : tuner' = [tuner EXCEPT ![k] = Remaining(s)] /\ s.id # m.id.session
    BY <1>4 DEF StopUnmatched
  <2>2. Remaining(s) \subseteq {s}
    BY DEF Remaining
  <2>3. \A t \in Tuners : \A s2 \in tuner[t] : AfterStop(m, t, s2, s2)
    BY <1>2, <2>1 DEF AfterStop
  <2> HIDE DEF k
  <2>4. \A t \in Tuners : tuner'[t] \subseteq tuner[t]
    BY <1>1, <2>1, <2>2
  <2> QED
    BY <2>3, <2>4
<1>5. CASE StopMatched(m)
  <2>1. PICK s \in tuner[k] :
            tuner' = [tuner EXCEPT ![k] = Remaining(WithoutSubscriber(s, m.id.serial))]
    BY <1>5 DEF StopMatched
  <2> DEFINE w == WithoutSubscriber(s, m.id.serial)
  <2>2. \A s2 \in Remaining(w) : s2 = w /\ w.subs # {}
    BY DEF Remaining
  <2>3. /\ w.id = s.id /\ w.channel = s.channel
        /\ w.subs = {x \in s.subs : x.serial # m.id.serial}
    BY <1>1, SubscriberRemoved
  <2>4. tuner' = [tuner EXCEPT ![k] = Remaining(w)]
    BY <2>1
  <2>5. \A t \in Tuners \ {k} : \A s2 \in tuner[t] : AfterStop(m, t, s2, s2)
    BY DEF AfterStop
  <2> HIDE DEF k, w
  <2>6. (\A t \in Tuners \ {k} : tuner'[t] = tuner[t]) /\ tuner'[k] = Remaining(w)
    BY <1>1, <2>4
  <2>7. \A s2 \in tuner'[k] : AfterStop(m, k, s, s2)
    BY <2>2, <2>3, <2>6 DEF AfterStop
  <2> QED
    BY <2>5, <2>6, <2>7
<1> QED
  BY <1>3, <1>4, <1>5 DEF StopStreaming

(* Only StopStreaming leaves a session with fewer subscribers.              *)
Releases == \A t \in Tuners : tuner'[t] \subseteq tuner[t]

LEMMA ReleasingSteps ==
    ASSUME TypeOK, [Next]_vars
    PROVE  \/ \E u \in Users : Joins(u) \/ Opens(u)
           \/ \E m \in stops : StopStreaming(m)
           \/ Releases
<1> USE DEF Releases
<1>1. CASE \E u \in Users : StartStreaming(u)
  <2>1. PICK u \in Users : Joins(u) \/ Opens(u) \/ Fails(u)
    BY <1>1, StartStreamingCases
  <2>2. CASE Fails(u)
    <3>1. CASE tuner' = tuner
      BY <3>1
    <3>2. CASE \E t \in Tuners : tuner' = [tuner EXCEPT ![t] = {}]
      BY <3>2 DEF TypeOK
    <3> QED
      BY <2>2, <3>1, <3>2 DEF Fails
  <2> QED
    BY <2>1, <2>2
<1>2. CASE \E u \in Users : UserStep(u)
  BY <1>2 DEF UserStep, RequestStream, CancelRequest, DropStream, managerVars
<1>3. CASE SubscribeOk
  BY <1>3 DEF SubscribeOk
<1>4. CASE SubscribeFailed
  <2>1. PICK c \in call : tuner' = [tuner EXCEPT ![c.id.tuner] = {}]
    BY <1>4 DEF SubscribeFailed
  <2>2. c.id.tuner \in Tuners
    BY DEF TypeOK, SubscriptionId
  <2> QED
    BY <2>1, <2>2 DEF TypeOK
<1>5. CASE Shutdown
  BY <1>5 DEF Shutdown
<1>6. CASE \E u \in Followers, w \in Viewers : SpawnFollower(u, w)
  BY <1>6 DEF SpawnFollower, managerVars
<1>7. CASE UNCHANGED vars
  BY <1>7 DEF vars
<1> QED
  BY <1>1, <1>2, <1>3, <1>4, <1>5, <1>6, <1>7 DEF Next

LEMMA OtherStepsShrink ==
    ASSUME TypeOK, [Next]_vars
    PROVE  (\E u \in Users : Joins(u) \/ Opens(u)) \/ Shrinks
<1>1. CASE \E m \in stops : StopStreaming(m)
  <2>1. PICK m \in stops : StopStreaming(m)
    BY <1>1
  <2>2. \A t \in Tuners : \A s2 \in tuner'[t] : \E s \in tuner[t] : AfterStop(m, t, s, s2)
    BY <2>1, StopEffect
  <2> QED
    BY <2>2 DEF AfterStop, Shrinks
<1>2. CASE Releases
  BY <1>2 DEF Releases, Shrinks
<1> QED
  BY <1>1, <1>2, ReleasingSteps

LEMMA JoinReasonIsPrivate ==
    ASSUME UseInv, NEW u \in Users, NEW r \in req[u], NEW t \in Tuners, NEW s \in tuner[t],
           JoinReason(u, r, t, s), Exclusive(t)
    PROVE  u = ReservedFor(t)
<1>1. \A id \in r.stream : ~Exclusive(id.tuner)
  BY DEF UseInv, ExclusiveIdsStayPrivate
<1> QED
  BY <1>1 DEF JoinReason, IsReservedFor

LEMMA OpenReasonIsDedicated ==
    ASSUME UseInv, NEW u \in Users, NEW r \in req[u], NEW t \in Tuners,
           r.stream = {}, OpenReason(u, r, t)
    PROVE  /\ Exclusive(t) => u = ReservedFor(t)
           /\ ChannelOnly(t) => r.channel \in {DedicatedChannel(t)} \cup Asks[ReservedFor(t)]
<1>1. r.channel \in Asks[u]
  BY DEF UseInv, RequestsAreAllowed
<1>2. Exclusive(t) => u = ReservedFor(t)
  BY DEF OpenReason, IsReservedFor, ChannelOnly, Unrestricted
<1>3. ChannelOnly(t) /\ IsReservedFor(t, u) => r.channel \in Asks[ReservedFor(t)]
  BY <1>1 DEF IsReservedFor
<1> QED
  BY <1>2, <1>3 DEF OpenReason, Unrestricted

LEMMA UsersStep ==
    ASSUME TypeOK, UseInv, [Next]_vars
    PROVE  ExclusiveUse' /\ DedicatedUse'
<1>1. ExclusiveUse /\ DedicatedUse
  BY DEF UseInv
<1>2. CASE \E u \in Users : Joins(u)
  <2>1. PICK u \in Users : Joins(u)
    BY <1>2
  <2>2. PICK r \in req[u], t \in Tuners : \E s \in tuner[t] : JoinReason(u, r, t, s) /\ Subscribe(t, s, u)
    BY <2>1 DEF Joins
  <2>3. PICK s \in tuner[t] : JoinReason(u, r, t, s) /\ Subscribe(t, s, u)
    BY <2>2
  <2> DEFINE w == WithSubscriber(s, u)
  <2>4. s \in Session
    BY DEF TypeOK
  <2>5. tuner'[t] = {w} /\ \A t2 \in Tuners \ {t} : tuner'[t2] = tuner[t2]
    BY <2>3, <2>4, SubscribeTypes
  <2>6. w.channel = s.channel /\ w.subs = s.subs \cup {[serial |-> s.next, user |-> u]}
    BY <2>4, SubscriberAdded
  <2>7. Exclusive(t) => u = ReservedFor(t)
    BY <2>3, JoinReasonIsPrivate
  <2> HIDE DEF w
  <2> QED
    BY <1>1, <2>5, <2>6, <2>7 DEF ExclusiveUse, DedicatedUse
<1>3. CASE \E u \in Users : Opens(u)
  <2>1. PICK u \in Users : Opens(u)
    BY <1>3
  <2>2. PICK r \in req[u], t \in Tuners :
            r.stream = {} /\ OpenReason(u, r, t) /\ Subscribe(t, NewSession(r.channel), u)
    BY <2>1 DEF Opens
  <2> DEFINE s == NewSession(r.channel)
             w == WithSubscriber(s, u)
  <2>3. r.channel \in Channels
    BY DEF TypeOK, Request
  <2>4. s \in Session /\ s.channel = r.channel /\ s.subs = {}
    BY <2>3, NewSessionType
  <2>5. Subscribe(t, s, u)
    BY <2>2
  <2> HIDE DEF s
  <2>6. tuner'[t] = {w} /\ \A t2 \in Tuners \ {t} : tuner'[t2] = tuner[t2]
    BY <2>4, <2>5, SubscribeTypes
  <2>7. w.channel = r.channel /\ w.subs = {[serial |-> s.next, user |-> u]}
    BY <2>4, SubscriberAdded
  <2>8. /\ Exclusive(t) => u = ReservedFor(t)
        /\ ChannelOnly(t) => r.channel \in {DedicatedChannel(t)} \cup Asks[ReservedFor(t)]
    BY <2>2, OpenReasonIsDedicated
  <2> HIDE DEF w
  <2> QED
    BY <1>1, <2>6, <2>7, <2>8 DEF ExclusiveUse, DedicatedUse
<1>4. CASE Shrinks
  BY <1>1, <1>4 DEF Shrinks, ExclusiveUse, DedicatedUse
<1> QED
  BY <1>2, <1>3, <1>4, OtherStepsShrink

(* The users learn nothing new: no request, stream or call is added.        *)
Forgets ==
    /\ \A u \in Users : req'[u] \subseteq req[u] /\ got'[u] \subseteq got[u] /\ follow'[u] \subseteq follow[u]
    /\ call' \subseteq call

LEMMA ForgettingSteps ==
    ASSUME TypeOK, [Next]_vars
    PROVE  \/ \E u \in Users : Joins(u) \/ Opens(u) \/ RequestStream(u)
           \/ SubscribeOk
           \/ \E u \in Followers, w \in Viewers : SpawnFollower(u, w)
           \/ Forgets
<1> USE DEF Forgets
<1>1. CASE \E u \in Users : StartStreaming(u)
  <2>1. PICK u \in Users : Joins(u) \/ Opens(u) \/ Fails(u)
    BY <1>1, StartStreamingCases
  <2>2. CASE Fails(u)
    BY <2>2 DEF Fails, Fail, TypeOK
  <2> QED
    BY <2>1, <2>2
<1>2. CASE \E u \in Users : UserStep(u)
  <2>1. PICK u \in Users : UserStep(u)
    BY <1>2
  <2>2. CASE CancelRequest(u)
    BY <2>2 DEF CancelRequest, managerVars
  <2>3. CASE DropStream(u)
    BY <2>3 DEF DropStream, managerVars, TypeOK
  <2> QED
    BY <2>1, <2>2, <2>3 DEF UserStep
<1>3. CASE SubscribeFailed
  BY <1>3 DEF SubscribeFailed, TypeOK
<1>4. CASE \E m \in stops : StopStreaming(m)
  BY <1>4 DEF StopStreaming
<1>5. CASE Shutdown
  BY <1>5 DEF Shutdown, userVars
<1>6. CASE UNCHANGED vars
  BY <1>6 DEF vars
<1> QED
  BY <1>1, <1>2, <1>3, <1>4, <1>5, <1>6 DEF Next

LEMMA RequestsStep ==
    ASSUME TypeOK, UseInv, [Next]_vars
    PROVE  RequestsAreAllowed' /\ ExclusiveIdsStayPrivate'
<1> USE DEF RequestsAreAllowed, ExclusiveIdsStayPrivate
<1>1. RequestsAreAllowed /\ ExclusiveIdsStayPrivate
  BY DEF UseInv
<1>2. CASE \E u \in Users : Joins(u)
  <2>1. PICK u \in Users : Joins(u)
    BY <1>2
  <2>2. PICK r \in req[u], t \in Tuners : \E s \in tuner[t] : JoinReason(u, r, t, s) /\ Subscribe(t, s, u)
    BY <2>1 DEF Joins
  <2>3. PICK s \in tuner[t] : JoinReason(u, r, t, s) /\ Subscribe(t, s, u)
    BY <2>2
  <2>4. Exclusive(t) => u = ReservedFor(t)
    BY <2>3, JoinReasonIsPrivate
  <2>5. \A c \in call' : c.user = u /\ c.id.tuner = t
    BY <2>3 DEF Subscribe, IdOf
  <2>6. UNCHANGED <<req, got, follow>>
    BY <2>3 DEF Subscribe, userVars
  <2> QED
    BY <1>1, <2>4, <2>5, <2>6
<1>3. CASE \E u \in Users : Opens(u)
  <2>1. PICK u \in Users : Opens(u)
    BY <1>3
  <2>2. PICK r \in req[u], t \in Tuners :
            r.stream = {} /\ OpenReason(u, r, t) /\ Subscribe(t, NewSession(r.channel), u)
    BY <2>1 DEF Opens
  <2>4. Exclusive(t) => u = ReservedFor(t)
    BY <2>2, OpenReasonIsDedicated
  <2>5. \A c \in call' : c.user = u /\ c.id.tuner = t
    BY <2>2 DEF Subscribe, IdOf
  <2>6. UNCHANGED <<req, got, follow>>
    BY <2>2 DEF Subscribe, userVars
  <2> QED
    BY <1>1, <2>4, <2>5, <2>6
<1>4. CASE \E u \in Users : RequestStream(u)
  <2>1. PICK u \in Users : RequestStream(u)
    BY <1>4
  <2>2. UNCHANGED <<got, follow, call>> /\ \A v \in Users \ {u} : req'[v] = req[v]
    BY <2>1 DEF RequestStream, managerVars, TypeOK
  <2>3. CASE \E ch \in Asks[u] : req' = [req EXCEPT ![u] = {[channel |-> ch, stream |-> {}]}]
    <3>1. PICK ch \in Asks[u] : req' = [req EXCEPT ![u] = {[channel |-> ch, stream |-> {}]}]
      BY <2>3
    <3>2. req'[u] = {[channel |-> ch, stream |-> {}]}
      BY <3>1 DEF TypeOK
    <3> QED
      BY <1>1, <2>2, <3>2
  <2>4. CASE req' = [req EXCEPT ![u] = follow[u]]
    <3>1. req'[u] = follow[u]
      BY <2>4 DEF TypeOK
    <3> QED
      BY <1>1, <2>2, <3>1
  <2> QED
    BY <2>1, <2>3, <2>4 DEF RequestStream
<1>5. CASE SubscribeOk
  <2>1. PICK c \in call :
            /\ call' = {}
            /\ got' = [got EXCEPT ![c.user] = IF c.user \in gone THEN {} ELSE {c.id}]
            /\ req' = [req EXCEPT ![c.user] = IF c.user \in gone THEN {} ELSE @]
            /\ UNCHANGED follow
    BY <1>5 DEF SubscribeOk
  <2>2. c.user \in Users
    BY DEF TypeOK
  <2>3. got'[c.user] \subseteq {c.id} /\ \A v \in Users \ {c.user} : got'[v] = got[v]
    BY <2>1, <2>2 DEF TypeOK
  <2>4. \A v \in Users : req'[v] \subseteq req[v]
    BY <2>1, <2>2 DEF TypeOK
  <2>5. \A v \in Users : \A id \in got'[v] : Exclusive(id.tuner) => v = ReservedFor(id.tuner)
    BY <1>1, <2>3
  <2> QED
    BY <1>1, <2>1, <2>4, <2>5
<1>6. CASE \E u \in Followers, w \in Viewers : SpawnFollower(u, w)
  <2>1. PICK u \in Followers, w \in Viewers : SpawnFollower(u, w)
    BY <1>6
  <2>2. PICK r \in req[w] :
            /\ got[w] # {}
            /\ follow' = [follow EXCEPT ![u] = {[channel |-> r.channel, stream |-> got[w]]}]
            /\ UNCHANGED <<req, got, call>>
    BY <2>1 DEF SpawnFollower, managerVars
  <2>3. u \in Users /\ w \in Users /\ w \notin Trackers
    BY ConfigAssumption, WebAssumption
  <2>4. \A id \in got[w] : ~Exclusive(id.tuner)
    <3>1. \A id \in got[w] : id.tuner \in Tuners
      BY <2>3 DEF TypeOK, SubscriptionId
    <3> QED
      BY <1>1, <2>3, <3>1, ReservedUsers
  <2>5. /\ follow'[u] = {[channel |-> r.channel, stream |-> got[w]]}
        /\ \A v \in Users \ {u} : follow'[v] = follow[v]
    BY <2>2, <2>3 DEF TypeOK
  <2> QED
    BY <1>1, <2>2, <2>4, <2>5
<1>7. CASE Forgets
  BY <1>1, <1>7 DEF Forgets
<1> QED
  BY <1>2, <1>3, <1>4, <1>5, <1>6, <1>7, ForgettingSteps

LEMMA InitUseInv == Init => UseInv
<1> SUFFICES ASSUME Init PROVE UseInv
  OBVIOUS
<1>1. \A t \in Tuners : tuner[t] = {}
  BY DEF Init
<1>2. \A u \in Users : req[u] = {} /\ got[u] = {} /\ follow[u] = {}
  BY DEF Init
<1>3. call = {}
  BY DEF Init
<1> QED
  BY <1>1, <1>2, <1>3
     DEF UseInv, DedicatedUse, ExclusiveUse, RequestsAreAllowed, ExclusiveIdsStayPrivate

LEMMA NextUseInv == TypeOK /\ UseInv /\ [Next]_vars => UseInv'
<1> SUFFICES ASSUME TypeOK, UseInv, [Next]_vars PROVE UseInv'
  OBVIOUS
<1> QED
  BY UsersStep, RequestsStep DEF UseInv

LEMMA UseCorrect == Spec => []UseInv
  BY InitTypeOK, NextTypeOK, InitUseInv, NextUseInv, PTL DEF Spec

(* A tuner dedicated to an on-air program tracker is never shared, with any *)
(* number of tuners and users and any mix of reservation, reuse, grabbing   *)
(* and stream ids.                                                          *)
THEOREM TrackerTunersAreExclusive == Spec => []ExclusiveUse
<1>1. UseInv => ExclusiveUse
  BY DEF UseInv
<1> QED
  BY <1>1, UseCorrect, PTL

(* Nobody but its recorder can bring a tuner that is dedicated to a         *)
(* timeshift recorder to another channel than the one of its configuration  *)
(* (is_available_for, is_reserved_for, can_grab).                           *)
THEOREM RecorderTunersKeepTheirChannel == Spec => []DedicatedUse
<1>1. UseInv => DedicatedUse
  BY DEF UseInv
<1> QED
  BY <1>1, UseCorrect, PTL

(* TunerActivity::activate never panics: although is_available_for ignores  *)
(* the activity of a channel-restricted tuner, an active one would be tuned *)
(* to the dedicated channel and would have been reused.  This needs that    *)
(* the recorder asks for no other channel.                                  *)
THEOREM ActivationNeverPanics ==
    ASSUME RecordersAskForTheirChannel PROVE Spec => []ActivatesOnlyInactive
<1>1. UseInv => ActivatesOnlyInactive
  <2> SUFFICES ASSUME UseInv, NEW u \in Users, NEW r \in req[u],
                      ReusableTuners(r.channel) = {},
                      NEW t \in AvailableTuners(r.channel), Active(t)
               PROVE  FALSE
    BY DEF ActivatesOnlyInactive
  <2>1. t \in Tuners /\ r.channel \notin Excluded[t] /\ IsAvailableFor(t, r.channel)
    BY DEF AvailableTuners
  <2>2. ChannelOnly(t) /\ r.channel = DedicatedChannel(t)
    BY <2>1 DEF IsAvailableFor
  <2>3. PICK s \in tuner[t] : TRUE
    BY DEF Active
  <2>4. s.channel = DedicatedChannel(t)
    BY <2>1, <2>2 DEF UseInv, DedicatedUse, RecordersAskForTheirChannel
  <2>5. IsReusable(t, r.channel)
    BY <2>2, <2>4 DEF IsReusable, ChannelOnly
  <2> QED
    BY <2>1, <2>5 DEF ReusableTuners
<1> QED
  BY <1>1, UseCorrect, PTL

-----------------------------------------------------------------------------
(* Who will give a tuner back.                                              *)

LEMMA ServingStep ==
    ASSUME TypeOK, OwnerInv, [Next]_vars
    PROVE  StoppedManagerHoldsNothing' /\ ServedUsersWait'
<1>1. StoppedManagerHoldsNothing /\ ServedUsersWait
  BY DEF OwnerInv
<1>2. StoppedManagerHoldsNothing'
  <2>1. CASE \E u \in Users : Joins(u) \/ Opens(u)
    <3>1. ~stopping /\ stopping' = stopping
      BY <2>1 DEF Joins, Opens, Serves, Subscribe
    <3> QED
      BY <3>1 DEF StoppedManagerHoldsNothing
  <2>2. CASE Shrinks
    <3>1. CASE Shutdown
      BY <3>1 DEF Shutdown, StoppedManagerHoldsNothing
    <3>2. CASE stopping' = stopping
      BY <1>1, <2>2, <3>2 DEF Shrinks, StoppedManagerHoldsNothing
    <3>3. Shutdown \/ stopping' = stopping
      <4>1. CASE \E u \in Users : StartStreaming(u)
        BY <4>1, StartStreamingCases DEF Joins, Opens, Fails, Fail, Subscribe
      <4>2. CASE \E u \in Users : UserStep(u)
        BY <4>2 DEF UserStep, RequestStream, CancelRequest, DropStream, managerVars
      <4>3. CASE \E m \in stops : StopStreaming(m)
        BY <4>3 DEF StopStreaming
      <4>4. CASE \E u \in Followers, w \in Viewers : SpawnFollower(u, w)
        BY <4>4 DEF SpawnFollower, managerVars
      <4>5. CASE SubscribeOk \/ SubscribeFailed \/ UNCHANGED vars
        BY <4>5 DEF SubscribeOk, SubscribeFailed, vars
      <4> QED
        BY <4>1, <4>2, <4>3, <4>4, <4>5 DEF Next
    <3> QED
      BY <3>1, <3>2, <3>3
  <2> QED
    BY <2>1, <2>2, OtherStepsShrink
<1>3. ServedUsersWait'
  <2> USE <1>1 DEF ServedUsersWait, Waiting
  <2>1. CASE \E u \in Users : StartStreaming(u)
    <3>1. PICK u \in Users : Joins(u) \/ Opens(u) \/ Fails(u)
      BY <2>1, StartStreamingCases
    <3>2. CASE Joins(u) \/ Opens(u)
      <4>1. Waiting(u) /\ (\A c \in call' : c.user = u) /\ UNCHANGED <<req, got, gone>>
        <5>1. CASE Joins(u)
          BY <5>1 DEF Joins, Serves, Subscribe, userVars
        <5>2. CASE Opens(u)
          BY <5>2 DEF Opens, Serves, Subscribe, userVars
        <5> QED
          BY <3>2, <5>1, <5>2
      <4> QED
        BY <4>1
    <3>3. CASE Fails(u)
      BY <3>3 DEF Fails, Fail
    <3> QED
      BY <3>1, <3>2, <3>3
  <2>2. CASE \E u \in Users : RequestStream(u)
    <3>1. PICK u \in Users : RequestStream(u)
      BY <2>2
    <3>2. UNCHANGED <<call, got, gone>> /\ req[u] = {} /\ \A v \in Users \ {u} : req'[v] = req[v]
      BY <3>1 DEF RequestStream, managerVars, TypeOK
    <3>3. \A c \in call : c.user \in Users \ {u}
      BY <3>2 DEF TypeOK
    <3> QED
      BY <3>2, <3>3
  <2>3. CASE \E u \in Users : CancelRequest(u)
    BY <2>3 DEF CancelRequest, managerVars
  <2>4. CASE \E u \in Users : DropStream(u)
    <3>1. PICK u \in Users : DropStream(u)
      BY <2>4
    <3>2. /\ UNCHANGED <<call, gone>> /\ got[u] # {}
          /\ \A v \in Users \ {u} : req'[v] = req[v] /\ got'[v] = got[v]
      BY <3>1 DEF DropStream, managerVars, TypeOK
    <3>3. \A c \in call : c.user \in Users \ {u}
      BY <3>2 DEF TypeOK
    <3> QED
      BY <3>2, <3>3
  <2>5. CASE SubscribeOk
    BY <2>5 DEF SubscribeOk
  <2>6. CASE SubscribeFailed
    BY <2>6 DEF SubscribeFailed
  <2>7. CASE \E m \in stops : StopStreaming(m)
    BY <2>7 DEF StopStreaming
  <2>8. CASE Shutdown
    BY <2>8 DEF Shutdown, userVars
  <2>9. CASE \E u \in Followers, w \in Viewers : SpawnFollower(u, w)
    BY <2>9 DEF SpawnFollower, managerVars
  <2>10. CASE UNCHANGED vars
    BY <2>10 DEF vars
  <2> QED
    BY <2>1, <2>2, <2>3, <2>4, <2>5, <2>6, <2>7, <2>8, <2>9, <2>10 DEF Next, UserStep
<1> QED
  BY <1>2, <1>3

LEMMA NewSubscriber ==
    ASSUME TypeOK, NEW u \in Users, Joins(u) \/ Opens(u)
    PROVE  \E t \in Tuners, s \in Session :
             /\ call = {} /\ Subscribe(t, s, u)
             /\ s \in tuner[t] \/ s.subs = {}
<1>1. CASE Joins(u)
  <2>1. PICK r \in req[u], t \in Tuners : Serves(u, r) /\ \E s \in tuner[t] : Subscribe(t, s, u)
    BY <1>1 DEF Joins
  <2>2. tuner[t] \subseteq Session
    BY DEF TypeOK
  <2> QED
    BY <2>1, <2>2 DEF Serves
<1>2. CASE Opens(u)
  <2>1. PICK r \in req[u], t \in Tuners : Serves(u, r) /\ Subscribe(t, NewSession(r.channel), u)
    BY <1>2 DEF Opens
  <2>2. r.channel \in Channels
    BY DEF TypeOK, Request
  <2>3. NewSession(r.channel) \in Session /\ NewSession(r.channel).subs = {}
    BY <2>2, NewSessionType
  <2> QED
    BY <2>1, <2>3 DEF Serves
<1> QED
  BY <1>1, <1>2

LEMMA SomeoneStep ==
    ASSUME TypeOK, ActiveTunersServeSomeone, [Next]_vars
    PROVE  ActiveTunersServeSomeone'
<1> USE DEF ActiveTunersServeSomeone
<1>1. CASE \E u \in Users : Joins(u) \/ Opens(u)
  <2>1. PICK u \in Users : Joins(u) \/ Opens(u)
    BY <1>1
  <2>2. PICK t \in Tuners, s \in Session : Subscribe(t, s, u)
    BY <2>1, NewSubscriber
  <2>3. /\ tuner'[t] = {WithSubscriber(s, u)}
        /\ \A t2 \in Tuners \ {t} : tuner'[t2] = tuner[t2]
    BY <2>2, SubscribeTypes
  <2>4. WithSubscriber(s, u).subs # {}
    BY SubscriberAdded
  <2> QED
    BY <2>3, <2>4
<1>2. CASE \E m \in stops : StopStreaming(m)
  <2>1. PICK m \in stops : StopStreaming(m)
    BY <1>2
  <2>2. \A t \in Tuners : \A s2 \in tuner'[t] : \E s \in tuner[t] : AfterStop(m, t, s, s2)
    BY <2>1, StopEffect
  <2> QED
    BY <2>2 DEF AfterStop
<1>3. CASE Releases
  BY <1>3 DEF Releases
<1> QED
  BY <1>1, <1>2, <1>3, ReleasingSteps

(* Every subscription that is still there had an owner and has one now.     *)
LEMMA OwnersKept ==
    ASSUME Shrinks, SubscriptionsAreOwned,
           \A t \in Tuners : \A s \in tuner'[t] : \A x \in s.subs :
               LET id == [tuner |-> t, session |-> s.id, serial |-> x.serial]
               IN  x.user \notin Cancellable /\ Owned(id, x.user) => Owned(id, x.user)'
    PROVE  SubscriptionsAreOwned'
<1> SUFFICES ASSUME NEW t \in Tuners, NEW s2 \in tuner'[t], NEW x \in s2.subs,
                    x.user \in Users \ Cancellable
             PROVE  Owned([tuner |-> t, session |-> s2.id, serial |-> x.serial], x.user)'
  BY DEF SubscriptionsAreOwned, OwnedBy
<1>1. PICK s \in tuner[t] : s2.id = s.id /\ x \in s.subs
  BY DEF Shrinks
<1>2. Owned([tuner |-> t, session |-> s2.id, serial |-> x.serial], x.user)
  BY <1>1 DEF SubscriptionsAreOwned, OwnedBy
<1> QED
  BY <1>2

LEMMA OwnedStep ==
    ASSUME TypeOK, OwnerInv, [Next]_vars
    PROVE  SubscriptionsAreOwned'
<1>1. SubscriptionsAreOwned /\ ServedUsersWait /\ StoppedManagerHoldsNothing
  BY DEF OwnerInv
<1>2. CASE \E u \in Users : Joins(u) \/ Opens(u)
  <2>1. PICK u \in Users : Joins(u) \/ Opens(u)
    BY <1>2
  <2>2. PICK t \in Tuners, s \in Session :
            call = {} /\ Subscribe(t, s, u) /\ (s \in tuner[t] \/ s.subs = {})
    BY <2>1, NewSubscriber
  <2> DEFINE w == WithSubscriber(s, u)
  <2>3. tuner'[t] = {w} /\ \A t2 \in Tuners \ {t} : tuner'[t2] = tuner[t2]
    BY <2>2, SubscribeTypes
  <2>4. w.id = s.id /\ w.subs = s.subs \cup {[serial |-> s.next, user |-> u]}
    BY SubscriberAdded
  <2>5. call' = {[user |-> u, id |-> IdOf(t, s)]} /\ UNCHANGED <<got, stops>>
    BY <2>2 DEF Subscribe, userVars
  <2> HIDE DEF w
  <2> SUFFICES ASSUME NEW t2 \in Tuners, NEW s2 \in tuner'[t2], NEW x \in s2.subs,
                      x.user \in Users \ Cancellable
               PROVE  Owned([tuner |-> t2, session |-> s2.id, serial |-> x.serial], x.user)'
    BY DEF SubscriptionsAreOwned, OwnedBy
  <2>6. CASE t2 = t /\ x = [serial |-> s.next, user |-> u]
    BY <2>3, <2>4, <2>5, <2>6 DEF Owned, IdOf
  <2>7. CASE t2 = t /\ x \in s.subs
    <3>1. s2.id = s.id /\ s \in tuner[t]
      BY <2>2, <2>3, <2>4, <2>7
    <3>2. Owned([tuner |-> t2, session |-> s2.id, serial |-> x.serial], x.user)
      BY <1>1, <2>7, <3>1 DEF SubscriptionsAreOwned, OwnedBy
    <3> QED
      BY <2>2, <2>5, <3>2 DEF Owned
  <2>8. CASE t2 # t
    <3>1. s2 \in tuner[t2]
      BY <2>3, <2>8
    <3>2. Owned([tuner |-> t2, session |-> s2.id, serial |-> x.serial], x.user)
      BY <1>1, <3>1 DEF SubscriptionsAreOwned, OwnedBy
    <3> QED
      BY <2>2, <2>5, <3>2 DEF Owned
  <2> QED
    BY <2>3, <2>4, <2>6, <2>7, <2>8
<1>3. CASE Shrinks /\ ~\E u \in Users : Joins(u) \/ Opens(u)
  <2> SUFFICES ASSUME NEW t \in Tuners, NEW s2 \in tuner'[t], NEW x \in s2.subs,
                      x.user \notin Cancellable,
                      NEW id, id = [tuner |-> t, session |-> s2.id, serial |-> x.serial],
                      Owned(id, x.user)
               PROVE  Owned(id, x.user)'
    BY <1>1, <1>3, OwnersKept
  <2>0. /\ id.tuner = t /\ id.session = s2.id /\ id.serial = x.serial
        /\ x.user \in Users
    <3>1. tuner' \in [Tuners -> SUBSET Session]
      BY NextTypeOK DEF TypeOK
    <3> QED
      BY <3>1 DEF Session, Subscriber
  <2>1. CASE UNCHANGED <<call, got, stops>>
    BY <2>1 DEF Owned
  <2>2. CASE \E u \in Users : DropStream(u)
    <3>1. PICK u \in Users : DropStream(u)
      BY <2>2
    <3>2. PICK g \in got[u] :
              stops' = stops \cup {[id |-> g, user |-> u]} /\ got' = [got EXCEPT ![u] = {}] /\ call' = call
      BY <3>1 DEF DropStream, managerVars
    <3>3. CASE x.user = u /\ id \in got[u]
      <4>1. id = g
        BY <3>3 DEF TypeOK
      <4>2. [user |-> x.user, id |-> id] \in stops'
        BY <3>2, <3>3, <4>1
      <4> QED
        BY <4>2 DEF Owned
    <3>4. CASE x.user # u \/ id \notin got[u]
      <4>1. x.user # u => got'[x.user] = got[x.user]
        BY <2>0, <3>2 DEF TypeOK
      <4> QED
        BY <3>2, <3>4, <4>1 DEF Owned
    <3> QED
      BY <3>3, <3>4
  <2>3. CASE SubscribeOk
    <3>1. PICK c \in call :
              /\ got' = [got EXCEPT ![c.user] = IF c.user \in gone THEN {} ELSE {c.id}]
              /\ stops' = stops
      BY <2>3 DEF SubscribeOk
    <3>2. c.user \in Users /\ got[c.user] = {} /\ gone \subseteq Cancellable
      BY <1>1 DEF TypeOK, ServedUsersWait, Waiting
    <3>3. CASE [user |-> x.user, id |-> id] \in call
      <4>1. c = [user |-> x.user, id |-> id]
        BY <3>3 DEF TypeOK
      <4>2. c.user = x.user /\ c.id = id /\ c.user \notin gone
        BY <3>2, <4>1
      <4>3. got'[x.user] = {id}
        BY <3>1, <3>2, <4>2 DEF TypeOK
      <4> QED
        BY <4>3 DEF Owned
    <3>4. CASE id \in got[x.user]
      <4>1. got'[x.user] = got[x.user]
        BY <2>0, <3>1, <3>2, <3>4 DEF TypeOK
      <4> QED
        BY <3>4, <4>1 DEF Owned
    <3>5. CASE [user |-> x.user, id |-> id] \in stops
      BY <3>1, <3>5 DEF Owned
    <3> QED
      BY <3>3, <3>4, <3>5 DEF Owned
  <2>4. CASE SubscribeFailed
    <3>1. PICK c \in call : tuner' = [tuner EXCEPT ![c.id.tuner] = {}] /\ UNCHANGED <<got, stops>>
      BY <2>4 DEF SubscribeFailed
    <3>2. c.id.tuner # t
      BY <3>1 DEF TypeOK
    <3>3. [user |-> x.user, id |-> id] \notin call
      BY <2>0, <3>2 DEF TypeOK
    <3> QED
      BY <3>1, <3>3 DEF Owned
  <2>5. CASE \E m \in stops : StopStreaming(m)
    <3>1. PICK m \in stops : StopStreaming(m)
      BY <2>5
    <3>2. stops' = stops \ {m} /\ UNCHANGED <<call, got>>
      BY <3>1 DEF StopStreaming
    <3>3. PICK s \in tuner[t] : AfterStop(m, t, s, s2)
      BY <3>1, StopEffect
    <3>4. ~stopping
      BY <1>1 DEF StoppedManagerHoldsNothing
    <3>5. m # [user |-> x.user, id |-> id]
      BY <2>0, <3>3, <3>4 DEF AfterStop
    <3> QED
      BY <3>2, <3>5 DEF Owned
  <2>6. UNCHANGED <<call, got, stops>> \/ (\E u \in Users : DropStream(u)) \/ SubscribeOk
          \/ SubscribeFailed \/ \E m \in stops : StopStreaming(m)
    <3>1. CASE \E u \in Users : StartStreaming(u)
      <4>1. PICK u \in Users : Fails(u)
        BY <1>3, <3>1, StartStreamingCases
      <4> QED
        BY <4>1 DEF Fails, Fail
    <3>2. CASE \E u \in Users : RequestStream(u) \/ CancelRequest(u)
      BY <3>2 DEF RequestStream, CancelRequest, managerVars
    <3>3. CASE Shutdown
      BY <3>3 DEF Shutdown, userVars
    <3>4. CASE \E u \in Followers, w \in Viewers : SpawnFollower(u, w)
      BY <3>4 DEF SpawnFollower, managerVars
    <3>5. CASE UNCHANGED vars
      BY <3>5 DEF vars
    <3> QED
      BY <3>1, <3>2, <3>3, <3>4, <3>5 DEF Next, UserStep
  <2> QED
    BY <2>1, <2>2, <2>3, <2>4, <2>5, <2>6
<1> QED
  BY <1>2, <1>3, OtherStepsShrink

LEMMA InitOwnerInv == Init => OwnerInv
<1> SUFFICES ASSUME Init PROVE OwnerInv
  OBVIOUS
<1>1. (\A t \in Tuners : tuner[t] = {}) /\ call = {} /\ gone = {}
  BY DEF Init
<1> QED
  BY <1>1 DEF OwnerInv, ActiveTunersServeSomeone, StoppedManagerHoldsNothing,
              ServedUsersWait, SubscriptionsAreOwned, OwnedBy

LEMMA NextOwnerInv == TypeOK /\ OwnerInv /\ [Next]_vars => OwnerInv'
<1> SUFFICES ASSUME TypeOK, OwnerInv, [Next]_vars PROVE OwnerInv'
  OBVIOUS
<1>1. ActiveTunersServeSomeone'
  BY SomeoneStep DEF OwnerInv
<1> QED
  BY <1>1, ServingStep, OwnedStep DEF OwnerInv

LEMMA OwnersCorrect == Spec => []OwnerInv
  BY InitTypeOK, NextTypeOK, InitOwnerInv, NextOwnerInv, PTL DEF Spec

(* A tuner is released with its last subscriber: no session is ever left    *)
(* without one.                                                             *)
THEOREM IdleTunersAreReleased == Spec => []ActiveTunersServeSomeone
<1>1. OwnerInv => ActiveTunersServeSomeone
  BY DEF OwnerInv
<1> QED
  BY <1>1, OwnersCorrect, PTL

(* No subscription is left behind by a user that awaits its replies: it is  *)
(* in use, being set up, or about to be stopped.  The proof needs that the  *)
(* user being served still waits and that stops are told apart by session.  *)
THEOREM TunersDoNotLeak == Spec => []SubscriptionsAreOwned
<1>1. OwnerInv => SubscriptionsAreOwned
  BY DEF OwnerInv
<1> QED
  BY <1>1, OwnersCorrect, PTL

-----------------------------------------------------------------------------
(* What a tuner is tuned to.                                                *)

LEMMA ChannelsKept ==
    ASSUME TypeOK, [Next]_vars
    PROVE  /\ sessions' \in Nat /\ sessions <= sessions'
           /\ \A t \in Tuners : \A s2 \in tuner'[t] :
                \/ \E s \in tuner[t] : s2.id = s.id /\ s2.channel = s.channel
                \/ s2.id = sessions /\ sessions' = sessions + 1
<1>0. sessions \in Nat
  BY DEF TypeOK
<1>1. sessions' \in Nat
  BY NextTypeOK DEF TypeOK
<1>2. sessions' \in {sessions, sessions + 1}
  <2>1. CASE \E u \in Users : StartStreaming(u)
    <3>1. PICK u \in Users : Joins(u) \/ Opens(u) \/ Fails(u)
      BY <2>1, StartStreamingCases
    <3>2. CASE Joins(u)
      BY <3>2 DEF Joins
    <3>3. CASE Opens(u)
      BY <3>3 DEF Opens
    <3>4. CASE Fails(u)
      BY <3>4 DEF Fails, CannotActivate
    <3> QED
      BY <3>1, <3>2, <3>3, <3>4
  <2>2. CASE \E u \in Users : UserStep(u)
    BY <2>2 DEF UserStep, RequestStream, CancelRequest, DropStream, managerVars
  <2>3. CASE \E m \in stops : StopStreaming(m)
    BY <2>3 DEF StopStreaming
  <2>4. CASE \E u \in Followers, w \in Viewers : SpawnFollower(u, w)
    BY <2>4 DEF SpawnFollower, managerVars
  <2>5. CASE SubscribeOk \/ SubscribeFailed \/ Shutdown \/ UNCHANGED vars
    BY <2>5 DEF SubscribeOk, SubscribeFailed, Shutdown, vars
  <2> QED
    BY <2>1, <2>2, <2>3, <2>4, <2>5 DEF Next
<1>3. \A t \in Tuners : \A s2 \in tuner'[t] :
          \/ \E s \in tuner[t] : s2.id = s.id /\ s2.channel = s.channel
          \/ s2.id = sessions /\ sessions' = sessions + 1
  <2>1. CASE \E u \in Users : Joins(u)
    <3>1. PICK u \in Users : Joins(u)
      BY <2>1
    <3>2. PICK r \in req[u], t \in Tuners : \E s \in tuner[t] : Subscribe(t, s, u)
      BY <3>1 DEF Joins
    <3>3. PICK s \in tuner[t] : Subscribe(t, s, u)
      BY <3>2
    <3>4. s \in Session
      BY DEF TypeOK
    <3>5. /\ tuner'[t] = {WithSubscriber(s, u)}
          /\ \A t2 \in Tuners \ {t} : tuner'[t2] = tuner[t2]
      BY <3>3, <3>4, SubscribeTypes
    <3>6. WithSubscriber(s, u).id = s.id /\ WithSubscriber(s, u).channel = s.channel
      BY <3>4, SubscriberAdded
    <3> QED
      BY <3>5, <3>6
  <2>2. CASE \E u \in Users : Opens(u)
    <3>1. PICK u \in Users : Opens(u)
      BY <2>2
    <3>2. PICK r \in req[u], t \in Tuners :
              Subscribe(t, NewSession(r.channel), u) /\ sessions' = sessions + 1
      BY <3>1 DEF Opens
    <3>3. r.channel \in Channels
      BY DEF TypeOK, Request
    <3>4. NewSession(r.channel) \in Session /\ NewSession(r.channel).id = sessions
      BY <3>3, NewSessionType
    <3>5. /\ tuner'[t] = {WithSubscriber(NewSession(r.channel), u)}
          /\ \A t2 \in Tuners \ {t} : tuner'[t2] = tuner[t2]
      BY <3>2, <3>4, SubscribeTypes
    <3>6. WithSubscriber(NewSession(r.channel), u).id = sessions
      BY <3>4, SubscriberAdded
    <3> QED
      BY <3>2, <3>5, <3>6
  <2>3. CASE Shrinks
    BY <2>3 DEF Shrinks
  <2> QED
    BY <2>1, <2>2, <2>3, OtherStepsShrink
<1> QED
  BY <1>0, <1>1, <1>2, <1>3

LEMMA CallStep ==
    ASSUME TypeOK, [Next]_vars
    PROVE  \/ call' \subseteq call
           \/ \E u \in Users, t \in Tuners, s \in Session :
                /\ Joins(u) \/ Opens(u)
                /\ call = {} /\ Subscribe(t, s, u)
                /\ s \in tuner[t] \/ s.subs = {}
<1>1. CASE \E u \in Users : Joins(u) \/ Opens(u)
  BY <1>1, NewSubscriber
<1>2. CASE \E u \in Users : RequestStream(u)
  BY <1>2 DEF RequestStream, managerVars
<1>3. CASE SubscribeOk
  BY <1>3 DEF SubscribeOk
<1>4. CASE \E u \in Followers, w \in Viewers : SpawnFollower(u, w)
  BY <1>4 DEF SpawnFollower, managerVars
<1>5. CASE Forgets
  BY <1>5 DEF Forgets
<1> QED
  BY <1>1, <1>2, <1>3, <1>4, <1>5, ForgettingSteps

LEMMA StreamStep ==
    ASSUME TypeOK, [Next]_vars, NEW u \in Users
    PROVE  \/ got'[u] \subseteq got[u]
           \/ SubscribeOk /\ \E c \in call : c.user = u /\ got'[u] = {c.id}
<1>1. CASE \E v \in Users : Joins(v) \/ Opens(v)
  BY <1>1, NewSubscriber DEF Subscribe, userVars
<1>2. CASE \E v \in Users : RequestStream(v)
  BY <1>2 DEF RequestStream
<1>3. CASE SubscribeOk
  <2>1. PICK c \in call : got' = [got EXCEPT ![c.user] = IF c.user \in gone THEN {} ELSE {c.id}]
    BY <1>3 DEF SubscribeOk
  <2>2. c.user # u => got'[u] = got[u]
    BY <2>1 DEF TypeOK
  <2>3. c.user = u => got'[u] \in {{}, {c.id}}
    BY <2>1 DEF TypeOK
  <2> QED
    BY <1>3, <2>2, <2>3
<1>4. CASE \E v \in Followers, w \in Viewers : SpawnFollower(v, w)
  BY <1>4 DEF SpawnFollower
<1>5. CASE Forgets
  BY <1>5 DEF Forgets
<1> QED
  BY <1>1, <1>2, <1>3, <1>4, <1>5, ForgettingSteps

LEMMA RequestStep ==
    ASSUME TypeOK, [Next]_vars, NEW u \in Users
    PROVE  req'[u] \subseteq req[u] \/ (RequestStream(u) /\ req[u] = {} /\ UNCHANGED <<got, stops, call>>)
<1>1. CASE \E v \in Users : Joins(v) \/ Opens(v)
  BY <1>1, NewSubscriber DEF Subscribe, userVars
<1>2. CASE \E v \in Users : RequestStream(v)
  <2>1. PICK v \in Users : RequestStream(v)
    BY <1>2
  <2>2. req[v] = {} /\ \A v2 \in Users \ {v} : req'[v2] = req[v2]
    BY <2>1 DEF RequestStream, TypeOK
  <2>3. UNCHANGED <<got, stops, call>>
    BY <2>1 DEF RequestStream, managerVars
  <2> QED
    BY <2>1, <2>2, <2>3
<1>3. CASE SubscribeOk
  BY <1>3 DEF SubscribeOk, TypeOK
<1>4. CASE \E v \in Followers, w \in Viewers : SpawnFollower(v, w)
  BY <1>4 DEF SpawnFollower
<1>5. CASE Forgets
  BY <1>5 DEF Forgets
<1> QED
  BY <1>1, <1>2, <1>3, <1>4, <1>5, ForgettingSteps

LEMMA FreshStep ==
    ASSUME TypeOK, SessionNumbersAreFresh, [Next]_vars
    PROVE  SessionNumbersAreFresh'
<1> USE DEF SessionNumbersAreFresh
<1>0. /\ sessions \in Nat
      /\ \A t \in Tuners : \A s \in tuner[t] : s.id \in Nat
      /\ \A c \in call : c.user \in Users /\ c.id.session \in Nat
      /\ \A u \in Users : \A id \in got[u] : id.session \in Nat
  BY DEF TypeOK, Session, SubscriptionId
<1>1. sessions' \in Nat /\ sessions <= sessions'
  BY ChannelsKept
<1>2. \A t \in Tuners : \A s2 \in tuner'[t] : s2.id < sessions'
  <2> SUFFICES ASSUME NEW t \in Tuners, NEW s2 \in tuner'[t] PROVE s2.id < sessions'
    OBVIOUS
  <2>1. \/ \E s \in tuner[t] : s2.id = s.id
        \/ s2.id = sessions /\ sessions' = sessions + 1
    BY ChannelsKept
  <2> QED
    BY <1>0, <1>1, <2>1
<1>3. \A u \in Users : \A id \in got'[u] : id.session < sessions'
  <2> SUFFICES ASSUME NEW u \in Users, NEW id \in got'[u] PROVE id.session < sessions'
    OBVIOUS
  <2>1. id \in got[u] \/ \E c \in call : id = c.id
    BY StreamStep
  <2> QED
    BY <1>0, <1>1, <2>1
<1>4. \A c \in call' : c.id.session < sessions'
  <2>1. CASE call' \subseteq call
    BY <1>0, <1>1, <2>1
  <2>2. CASE \E u \in Users, t \in Tuners, s \in Session : Subscribe(t, s, u)
    <3>1. PICK u \in Users, t \in Tuners, s \in Session : Subscribe(t, s, u)
      BY <2>2
    <3>2. WithSubscriber(s, u) \in tuner'[t] /\ WithSubscriber(s, u).id = s.id
      BY <3>1, SubscribeTypes, SubscriberAdded
    <3>3. \A c \in call' : c.id.session = s.id
      BY <3>1 DEF Subscribe, IdOf
    <3> QED
      BY <1>2, <3>2, <3>3
  <2> QED
    BY <2>1, <2>2, CallStep
<1> QED
  BY <1>2, <1>3, <1>4

LEMMA StopsStep ==
    ASSUME TypeOK, [Next]_vars
    PROVE  stops' \subseteq stops \/ \E u \in Users : DropStream(u)
<1>1. CASE \E u \in Users : StartStreaming(u)
  <2>1. PICK u \in Users : Joins(u) \/ Opens(u) \/ Fails(u)
    BY <1>1, StartStreamingCases
  <2>2. CASE Fails(u)
    BY <2>2 DEF Fails, Fail
  <2> QED
    BY <2>1, <2>2, NewSubscriber DEF Subscribe, userVars
<1>2. CASE \E u \in Users : RequestStream(u) \/ CancelRequest(u)
  BY <1>2 DEF RequestStream, CancelRequest
<1>3. CASE \E m \in stops : StopStreaming(m)
  BY <1>3 DEF StopStreaming
<1>4. CASE \E u \in Followers, w \in Viewers : SpawnFollower(u, w)
  BY <1>4 DEF SpawnFollower
<1>5. CASE SubscribeOk \/ SubscribeFailed
  BY <1>5 DEF SubscribeOk, SubscribeFailed
<1>6. CASE Shutdown \/ UNCHANGED vars
  BY <1>6 DEF Shutdown, userVars, vars
<1> QED
  BY <1>1, <1>2, <1>3, <1>4, <1>5, <1>6 DEF Next, UserStep

LEMMA StopsPrecedeStep ==
    ASSUME TypeOK, StopsPrecedeRequests, [Next]_vars
    PROVE  StopsPrecedeRequests'
<1> SUFFICES ASSUME ~StopMayLag, NEW u \in Users, req'[u] # {}, NEW m \in stops'
             PROVE  m.user # u
  BY DEF StopsPrecedeRequests
<1>1. CASE m \in stops
  <2>1. CASE req'[u] \subseteq req[u]
    BY <1>1, <2>1 DEF StopsPrecedeRequests
  <2>2. CASE RequestStream(u)
    BY <1>1, <2>2 DEF RequestStream, NothingInFlight
  <2> QED
    BY <2>1, <2>2, RequestStep
<1>2. CASE m \notin stops
  <2>1. PICK v \in Users : DropStream(v)
    BY <1>2, StopsStep
  <2>2. m.user = v
    BY <1>2, <2>1 DEF DropStream
  <2>3. req'[v] = {}
    BY <2>1 DEF DropStream, TypeOK
  <2> QED
    BY <2>2, <2>3
<1> QED
  BY <1>1, <1>2

LEMMA StreamsHaveRequestsStep ==
    ASSUME TypeOK, ServedUsersWait, StreamsHaveRequests, [Next]_vars
    PROVE  StreamsHaveRequests'
<1> USE DEF StreamsHaveRequests
<1>1. CASE \E u \in Users : StartStreaming(u)
  <2>1. PICK u \in Users : Joins(u) \/ Opens(u) \/ Fails(u)
    BY <1>1, StartStreamingCases
  <2>2. CASE Joins(u) \/ Opens(u)
    BY <2>2, NewSubscriber DEF Subscribe, userVars
  <2>3. CASE Fails(u)
    <3>1. got' = got /\ got[u] = {} /\ \A v \in Users \ {u} : req'[v] = req[v]
      BY <2>3 DEF Fails, Fail, Waiting, TypeOK
    <3> QED
      BY <3>1
  <2> QED
    BY <2>1, <2>2, <2>3
<1>2. CASE \E u \in Users : RequestStream(u)
  <2>1. PICK u \in Users : RequestStream(u)
    BY <1>2
  <2>2. got' = got /\ req[u] = {} /\ \A v \in Users \ {u} : req'[v] = req[v]
    BY <2>1 DEF RequestStream, TypeOK
  <2> QED
    BY <2>2
<1>3. CASE \E u \in Users : CancelRequest(u)
  BY <1>3 DEF CancelRequest
<1>4. CASE \E u \in Users : DropStream(u)
  BY <1>4 DEF DropStream, TypeOK
<1>5. CASE SubscribeOk
  <2>1. PICK c \in call :
            /\ got' = [got EXCEPT ![c.user] = IF c.user \in gone THEN {} ELSE {c.id}]
            /\ req' = [req EXCEPT ![c.user] = IF c.user \in gone THEN {} ELSE @]
    BY <1>5 DEF SubscribeOk
  <2>2. c.user \in Users /\ req[c.user] # {}
    BY DEF TypeOK, ServedUsersWait, Waiting
  <2>3. \A v \in Users \ {c.user} : req'[v] = req[v] /\ got'[v] = got[v]
    BY <2>1 DEF TypeOK
  <2>4. got'[c.user] # {} => req'[c.user] = req[c.user]
    BY <2>1, <2>2 DEF TypeOK
  <2> QED
    BY <2>2, <2>3, <2>4
<1>6. CASE SubscribeFailed
  <2>1. PICK c \in call : got' = got /\ req' = [req EXCEPT ![c.user] = {}]
    BY <1>6 DEF SubscribeFailed
  <2>2. got[c.user] = {} /\ \A v \in Users \ {c.user} : req'[v] = req[v]
    BY <2>1 DEF TypeOK, ServedUsersWait, Waiting
  <2> QED
    BY <2>1, <2>2
<1>7. CASE \E m \in stops : StopStreaming(m)
  BY <1>7 DEF StopStreaming
<1>8. CASE \E u \in Followers, w \in Viewers : SpawnFollower(u, w)
  BY <1>8 DEF SpawnFollower
<1>9. CASE Shutdown \/ UNCHANGED vars
  BY <1>9 DEF Shutdown, userVars, vars
<1> QED
  BY <1>1, <1>2, <1>3, <1>4, <1>5, <1>6, <1>7, <1>8, <1>9 DEF Next, UserStep

(* A reserved tuner that is still active when its user asks again would     *)
(* have a subscription of that user, whose owner can only be a stop that    *)
(* was handled before the request.                                          *)
LEMMA ReservedMatches ==
    ASSUME TypeOK, UseInv, OwnerInv, StopsPrecedeRequests, ~StopMayLag, RecordersAskForTheirChannel,
           NEW u \in Users, NEW r \in req[u], NEW t \in Tuners, NEW s \in tuner[t],
           Serves(u, r), r.stream = {}, IsReservedFor(t, u)
    PROVE  s.channel = r.channel
<1>1. CASE Exclusive(t)
  <2>1. PICK x \in s.subs : TRUE
    BY DEF OwnerInv, ActiveTunersServeSomeone
  <2>2. x.user = u
    BY <1>1 DEF UseInv, ExclusiveUse, IsReservedFor
  <2>3. u \in Trackers
    BY <1>1, ReservedUsers DEF IsReservedFor
  <2>4. u \notin Cancellable
    BY <2>3, WebAssumption
  <2> DEFINE id == [tuner |-> t, session |-> s.id, serial |-> x.serial]
  <2>5. Owned(id, u)
    BY <2>2, <2>4 DEF OwnerInv, SubscriptionsAreOwned, OwnedBy
  <2> HIDE DEF id
  <2>6. got[u] = {} /\ call = {} /\ req[u] # {}
    BY DEF Serves, Waiting
  <2>7. [user |-> u, id |-> id] \in stops
    BY <2>5, <2>6 DEF Owned
  <2> QED
    BY <2>6, <2>7 DEF StopsPrecedeRequests
<1>2. CASE ChannelOnly(t)
  <2>1. s.channel = DedicatedChannel(t)
    BY <1>2 DEF UseInv, DedicatedUse, RecordersAskForTheirChannel
  <2>2. r.channel \in Asks[u]
    BY DEF UseInv, RequestsAreAllowed
  <2>3. r.channel = DedicatedChannel(t)
    BY <1>2, <2>2 DEF IsReservedFor, RecordersAskForTheirChannel
  <2> QED
    BY <2>1, <2>3
<1> QED
  BY <1>1, <1>2 DEF IsReservedFor, Unrestricted

LEMMA CallMatchesStep ==
    ASSUME TypeOK, UseInv, OwnerInv, SessionNumbersAreFresh, StopsPrecedeRequests,
           CallMatchesRequest, ~StopMayLag, RecordersAskForTheirChannel, [Next]_vars
    PROVE  CallMatchesRequest'
<1>1. CASE \E u \in Users : Joins(u)
  <2>1. PICK u \in Users : Joins(u)
    BY <1>1
  <2>2. PICK r \in req[u], t \in Tuners : \E s \in tuner[t] :
            Serves(u, r) /\ JoinReason(u, r, t, s) /\ Subscribe(t, s, u)
    BY <2>1 DEF Joins
  <2>3. PICK s \in tuner[t] : Serves(u, r) /\ JoinReason(u, r, t, s) /\ Subscribe(t, s, u)
    BY <2>2
  <2>4. s \in Session
    BY DEF TypeOK
  <2>5. tuner'[t] = {WithSubscriber(s, u)} /\ WithSubscriber(s, u).channel = s.channel
    BY <2>3, <2>4, SubscribeTypes, SubscriberAdded
  <2>6. \A c \in call' : c.user = u /\ c.id.tuner = t
    BY <2>3 DEF Subscribe, IdOf
  <2>7. req' = req /\ \A r2 \in req[u] : r2 = r
    BY <2>3 DEF Subscribe, userVars, TypeOK
  <2>8. u \notin Followers => s.channel = r.channel
    <3> SUFFICES ASSUME u \notin Followers PROVE s.channel = r.channel
      OBVIOUS
    <3>1. r.stream = {}
      BY DEF UseInv, RequestsAreAllowed
    <3>2. CASE IsReservedFor(t, u)
      BY <2>3, <3>1, <3>2, ReservedMatches
    <3> QED
      BY <2>3, <3>1, <3>2 DEF JoinReason
  <2> QED
    BY <2>5, <2>6, <2>7, <2>8 DEF CallMatchesRequest
<1>2. CASE \E u \in Users : Opens(u)
  <2>1. PICK u \in Users : Opens(u)
    BY <1>2
  <2>2. PICK r \in req[u], t \in Tuners : Subscribe(t, NewSession(r.channel), u)
    BY <2>1 DEF Opens
  <2>3. r.channel \in Channels
    BY DEF TypeOK, Request
  <2> DEFINE s == NewSession(r.channel)
  <2>4. s \in Session /\ s.channel = r.channel /\ Subscribe(t, s, u)
    BY <2>2, <2>3, NewSessionType
  <2> HIDE DEF s
  <2>5. tuner'[t] = {WithSubscriber(s, u)} /\ WithSubscriber(s, u).channel = r.channel
    BY <2>4, SubscribeTypes, SubscriberAdded
  <2>6. \A c \in call' : c.user = u /\ c.id.tuner = t
    BY <2>4 DEF Subscribe, IdOf
  <2>7. req' = req /\ \A r2 \in req[u] : r2 = r
    BY <2>4 DEF Subscribe, userVars, TypeOK
  <2> QED
    BY <2>5, <2>6, <2>7 DEF CallMatchesRequest
<1>3. CASE call' \subseteq call
  <2> SUFFICES ASSUME NEW c \in call', c.user \notin Followers, NEW r \in req'[c.user],
                      NEW s2 \in tuner'[c.id.tuner], s2.id = c.id.session
               PROVE  s2.channel = r.channel
    BY DEF CallMatchesRequest
  <2>1. c \in call /\ c.user \in Users /\ c.id.tuner \in Tuners
    BY <1>3 DEF TypeOK, SubscriptionId
  <2>2. c.id.session < sessions /\ c.id.session \in Nat /\ sessions \in Nat
    BY <2>1 DEF SessionNumbersAreFresh, TypeOK, SubscriptionId
  <2>3. s2.id # sessions
    BY <2>2
  <2>4. PICK s \in tuner[c.id.tuner] : s2.id = s.id /\ s2.channel = s.channel
    BY <2>1, <2>3, ChannelsKept
  <2>5. req[c.user] # {}
    BY <2>1 DEF OwnerInv, ServedUsersWait, Waiting
  <2>6. r \in req[c.user]
    BY <2>1, <2>5, RequestStep
  <2> QED
    BY <2>1, <2>4, <2>6 DEF CallMatchesRequest
<1> QED
  BY <1>1, <1>2, <1>3, CallStep

LEMMA StreamMatchesStep ==
    ASSUME TypeOK, SessionNumbersAreFresh, StreamsHaveRequests,
           CallMatchesRequest, StreamMatchesRequest, [Next]_vars
    PROVE  StreamMatchesRequest'
<1> SUFFICES ASSUME NEW u \in Users \ Followers, NEW id \in got'[u], NEW r \in req'[u],
                    NEW s2 \in tuner'[id.tuner], s2.id = id.session
             PROVE  s2.channel = r.channel
  BY DEF StreamMatchesRequest
<1>1. CASE id \in got[u]
  <2>1. id.tuner \in Tuners /\ id.session \in Nat /\ sessions \in Nat /\ id.session < sessions
    BY <1>1 DEF TypeOK, SubscriptionId, SessionNumbersAreFresh
  <2>2. s2.id # sessions
    BY <2>1
  <2>3. PICK s \in tuner[id.tuner] : s2.id = s.id /\ s2.channel = s.channel
    BY <2>1, <2>2, ChannelsKept
  <2>4. r \in req[u]
    <3>1. req[u] # {}
      BY <1>1 DEF StreamsHaveRequests
    <3> QED
      BY <3>1, RequestStep
  <2> QED
    <3>1. s.id = id.session
      BY <2>3
    <3>2. s.channel = r.channel
      BY <1>1, <2>3, <2>4, <3>1 DEF StreamMatchesRequest
    <3> QED
      BY <2>3, <3>2
<1>2. CASE id \notin got[u]
  <2>1. PICK c \in call : SubscribeOk /\ c.user = u /\ id = c.id
    BY <1>2, StreamStep
  <2>2. tuner' = tuner /\ req'[u] \subseteq req[u]
    BY <2>1 DEF SubscribeOk, TypeOK
  <2> QED
    BY <2>1, <2>2 DEF CallMatchesRequest
<1> QED
  BY <1>1, <1>2

LEMMA InitChannelInv == Init => ChannelInv
<1> SUFFICES ASSUME Init PROVE ChannelInv
  OBVIOUS
<1>1. /\ \A t \in Tuners : tuner[t] = {}
      /\ \A u \in Users : req[u] = {} /\ got[u] = {}
      /\ call = {} /\ stops = {}
  BY DEF Init
<1> QED
  BY <1>1 DEF ChannelInv, SessionNumbersAreFresh, StreamsHaveRequests, StopsPrecedeRequests,
              StreamMatchesRequest, CallMatchesRequest

LEMMA NextChannelInv ==
    TypeOK /\ UseInv /\ OwnerInv /\ ChannelInv /\ [Next]_vars => ChannelInv'
<1> SUFFICES ASSUME TypeOK, UseInv, OwnerInv, ChannelInv, [Next]_vars PROVE ChannelInv'
  OBVIOUS
<1>1. SessionNumbersAreFresh'
  BY FreshStep DEF ChannelInv
<1>2. StreamsHaveRequests'
  BY StreamsHaveRequestsStep DEF ChannelInv, OwnerInv
<1>3. StopsPrecedeRequests'
  BY StopsPrecedeStep DEF ChannelInv
<1>4. ~StopMayLag /\ RecordersAskForTheirChannel => StreamMatchesRequest' /\ CallMatchesRequest'
  BY CallMatchesStep, StreamMatchesStep DEF ChannelInv
<1> QED
  BY <1>1, <1>2, <1>3, <1>4 DEF ChannelInv, RecordersAskForTheirChannel

(* IInv is inductive: it holds at the start and every step keeps it.        *)
THEOREM Inductive == (Init => IInv) /\ (IInv /\ [Next]_vars => IInv')
  BY InitTypeOK, InitUseInv, InitOwnerInv, InitChannelInv,
     NextTypeOK, NextUseInv, NextOwnerInv, NextChannelInv DEF IInv

(* If stops are handled before the next request of their sender, a live     *)
(* stream carries the channel its user asked for, although a reserved tuner *)
(* is joined whatever it is tuned to; for a recorder this needs that it     *)
(* asks for the channel its tuner is dedicated to.                          *)
THEOREM StreamsCarryTheirChannel ==
    ASSUME ~StopMayLag, RecordersAskForTheirChannel PROVE Spec => []StreamMatchesRequest
<1>1. IInv => StreamMatchesRequest
  BY DEF IInv, ChannelInv
<1> QED
  BY <1>1, Inductive, PTL DEF Spec

-----------------------------------------------------------------------------
(* What is announced.                                                       *)

Announced(t) == t \in out'.status /\ (tuner'[t] = {} => t \in out'.available)

LEMMA EmptiedIsAnnounced ==
    ASSUME TypeOK, NEW k \in Tuners, tuner' = [tuner EXCEPT ![k] = {}], Emit({k}, {k})
    PROVE  \A t \in Tuners : tuner'[t] # tuner[t] => Announced(t)
<1>1. \A t \in Tuners \ {k} : tuner'[t] = tuner[t]
  BY DEF TypeOK
<1>2. out'.status = {k} /\ out'.available = {k}
  BY DEF Emit
<1> QED
  BY <1>1, <1>2 DEF Announced

LEMMA NewSubscriberIsAnnounced ==
    ASSUME TypeOK, NEW u \in Users, Joins(u) \/ Opens(u)
    PROVE  \A t \in Tuners : tuner'[t] # tuner[t] => Announced(t)
<1>1. \E t \in Tuners, s \in Session : Subscribe(t, s, u) /\ Emit({t}, {})
  <2>1. CASE Joins(u)
    <3>1. PICK r \in req[u], t \in Tuners : Emit({t}, {}) /\ \E s \in tuner[t] : Subscribe(t, s, u)
      BY <2>1 DEF Joins
    <3>2. tuner[t] \subseteq Session
      BY DEF TypeOK
    <3> QED
      BY <3>1, <3>2
  <2>2. CASE Opens(u)
    <3>1. PICK r \in req[u], t \in Tuners : Emit({t}, {}) /\ Subscribe(t, NewSession(r.channel), u)
      BY <2>2 DEF Opens
    <3>2. r.channel \in Channels
      BY DEF TypeOK, Request
    <3>3. NewSession(r.channel) \in Session
      BY <3>2, NewSessionType
    <3> QED
      BY <3>1, <3>3
  <2> QED
    BY <2>1, <2>2
<1>2. PICK k \in Tuners, s \in Session : Subscribe(k, s, u) /\ Emit({k}, {})
  BY <1>1
<1>3. tuner'[k] = {WithSubscriber(s, u)} /\ \A t \in Tuners \ {k} : tuner'[t] = tuner[t]
  BY <1>2, SubscribeTypes
<1>4. out'.status = {k}
  BY <1>2 DEF Emit
<1> QED
  BY <1>3, <1>4 DEF Announced

LEMMA StopIsAnnounced ==
    ASSUME TypeOK, OwnerInv, NEW m \in stops, StopStreaming(m)
    PROVE  \A t \in Tuners : tuner'[t] # tuner[t] => Announced(t)
<1> DEFINE k == m.id.tuner
<1>1. k \in Tuners /\ tuner \in [Tuners -> SUBSET Session] /\ \A s1, s2 \in tuner[k] : s1 = s2
  BY DEF TypeOK, SubscriptionId
<1>2. CASE IgnoreStop(m)
  BY <1>2 DEF IgnoreStop
<1>3. CASE StopUnmatched(m)
  <2>1. PICK s \in tuner[k] : tuner' = [tuner EXCEPT ![k] = Remaining(s)]
    BY <1>3 DEF StopUnmatched
  <2>2. Remaining(s) = {s} /\ tuner[k] = {s}
    BY <1>1 DEF Remaining, OwnerInv, ActiveTunersServeSomeone
  <2> HIDE DEF k
  <2> QED
    BY <1>1, <2>1, <2>2
<1>4. CASE StopMatched(m)
  <2>1. PICK left \in SUBSET {WithoutSubscriber(s, m.id.serial) : s \in tuner[k]} :
            /\ tuner' = [tuner EXCEPT ![k] = left]
            /\ Emit({k}, IF left = {} THEN {k} ELSE {})
    BY <1>4 DEF StopMatched, Remaining
  <2> HIDE DEF k
  <2>2. tuner'[k] = left /\ \A t \in Tuners \ {k} : tuner'[t] = tuner[t]
    BY <1>1, <2>1
  <2>3. out'.status = {k} /\ out'.available = IF left = {} THEN {k} ELSE {}
    BY <2>1 DEF Emit
  <2> QED
    BY <2>2, <2>3 DEF Announced
<1> QED
  BY <1>2, <1>3, <1>4 DEF StopStreaming

LEMMA AnnouncedStep ==
    ASSUME TypeOK, OwnerInv, [Next]_vars, ~stopping'
    PROVE  \A t \in Tuners : tuner'[t] # tuner[t] => Announced(t)
<1>1. CASE \E u \in Users : StartStreaming(u)
  <2>1. PICK u \in Users : Joins(u) \/ Opens(u) \/ Fails(u)
    BY <1>1, StartStreamingCases
  <2>2. CASE Fails(u)
    <3>1. CASE tuner' = tuner
      BY <3>1
    <3>2. CASE \E t \in Tuners : tuner' = [tuner EXCEPT ![t] = {}] /\ Emit({t}, {t})
      BY <3>2, EmptiedIsAnnounced
    <3> QED
      BY <2>2, <3>1, <3>2 DEF Fails
  <2> QED
    BY <2>1, <2>2, NewSubscriberIsAnnounced
<1>2. CASE \E u \in Users : UserStep(u)
  BY <1>2 DEF UserStep, RequestStream, CancelRequest, DropStream, managerVars
<1>3. CASE SubscribeOk
  BY <1>3 DEF SubscribeOk
<1>4. CASE SubscribeFailed
  <2>1. PICK c \in call : tuner' = [tuner EXCEPT ![c.id.tuner] = {}] /\ Emit({c.id.tuner}, {c.id.tuner})
    BY <1>4 DEF SubscribeFailed
  <2>2. c.id.tuner \in Tuners
    BY DEF TypeOK, SubscriptionId
  <2> QED
    BY <2>1, <2>2, EmptiedIsAnnounced
<1>5. CASE \E m \in stops : StopStreaming(m)
  BY <1>5, StopIsAnnounced
<1>6. CASE Shutdown
  BY <1>6 DEF Shutdown
<1>7. CASE \E u \in Followers, w \in Viewers : SpawnFollower(u, w)
  BY <1>7 DEF SpawnFollower, managerVars
<1>8. CASE UNCHANGED vars
  BY <1>8 DEF vars
<1> QED
  BY <1>1, <1>2, <1>3, <1>4, <1>5, <1>6, <1>7, <1>8 DEF Next

(* Every step that changes the users of a tuner tells so, and every step    *)
(* that frees a tuner makes it known to those who wait for one.             *)
THEOREM ChangesAreAnnounced == Spec => StatusIsAnnounced /\ AvailabilityIsAnnounced
<1>1. TypeOK /\ OwnerInv /\ [Next]_vars =>
          /\ [\A t \in Tuners : tuner'[t] # tuner[t] /\ ~stopping' => t \in out'.status]_vars
          /\ [\A t \in Tuners : Active(t) /\ tuner'[t] = {} /\ ~stopping' => t \in out'.available]_vars
  BY AnnouncedStep DEF Announced, Active
<1> QED
  BY <1>1, TypeCorrect, OwnersCorrect, PTL DEF Spec, StatusIsAnnounced, AvailabilityIsAnnounced

-----------------------------------------------------------------------------
(* Why a session ends.                                                      *)

LEMMA TopPriorityIsInt ==
    ASSUME NEW s \in Session, s.subs # {}
    PROVE  TopPriority(s) \in Int
<1> DEFINE P == {Priority[x.user] : x \in s.subs}
           D == {GRAB - p : p \in P}
<1>1. P \in SUBSET (-128..GRAB) /\ P # {}
  <2>1. \A x \in s.subs : x.user \in Users
    BY DEF Session, Subscriber
  <2> QED
    BY <2>1, ConfigAssumption
<1>2. D \in SUBSET Nat /\ D # {}
  BY <1>1 DEF GRAB
<1>3. PICK d \in D : \A e \in D : ~(<<e, d>> \in OpToRel(<, Nat))
  <2>1. IsWellFoundedOn(OpToRel(<, Nat), Nat)
    BY NatLessThanWellFounded
  <2> HIDE DEF D
  <2> QED
    BY <1>2, <2>1, WFMin
<1>4. \A e \in D : d <= e
  <2> TAKE e \in D
  <2>1. d \in Nat /\ e \in Nat /\ ~(<<e, d>> \in OpToRel(<, Nat))
    BY <1>2, <1>3
  <2> HIDE DEF D
  <2> QED
    BY <2>1 DEF OpToRel
<1>5. PICK p \in P : d = GRAB - p
  OBVIOUS
<1>6. \A q \in P : p >= q
  <2> TAKE q \in P
  <2>1. d <= GRAB - q
    BY <1>4
  <2>2. p \in Int /\ q \in Int
    BY <1>1
  <2> QED
    BY <1>5, <2>1, <2>2 DEF GRAB
<1>7. Max(P) \in P
  <2> HIDE DEF P
  <2> QED
    BY <1>6 DEF Max
<1> QED
  BY <1>1, <1>7 DEF TopPriority

(* A session that is joined goes on, and so do those of other tuners.       *)
LEMMA JoinedGoOn ==
    ASSUME TypeOK, NEW k \in Tuners, NEW s0 \in tuner[k], NEW u \in Users, Subscribe(k, s0, u)
    PROVE  \A t \in Tuners : \A s \in tuner[t] : ~Ends(s, t)
<1>1. s0 \in Session /\ \A s \in tuner[k] : s = s0
  BY DEF TypeOK
<1>2. tuner'[k] = {WithSubscriber(s0, u)} /\ \A t \in Tuners \ {k} : tuner'[t] = tuner[t]
  BY <1>1, SubscribeTypes
<1>3. WithSubscriber(s0, u).id = s0.id
  BY <1>1, SubscriberAdded
<1> QED
  BY <1>1, <1>2, <1>3 DEF Ends

LEMMA OthersGoOn ==
    ASSUME TypeOK, NEW k \in Tuners, NEW T, tuner' = [tuner EXCEPT ![k] = T]
    PROVE  \A t \in Tuners \ {k} : \A s \in tuner[t] : ~Ends(s, t)
BY DEF Ends, TypeOK

LEMMA UntouchedGoOn ==
    ASSUME tuner' = tuner
    PROVE  \A t \in Tuners : \A s \in tuner[t] : ~Ends(s, t)
BY DEF Ends

LEMMA ActivatedWasInactive ==
    ASSUME TypeOK, NEW u \in Users, NEW r \in req[u], NEW k \in Tuners, Activate(k, u, r)
    PROVE  \A t \in Tuners : \A s \in tuner[t] : ~Ends(s, t)
<1>1. tuner[k] = {}
  BY DEF Activate
<1>2. CASE Subscribe(k, NewSession(r.channel), u)
  BY <1>1, <1>2, OthersGoOn DEF Subscribe
<1>3. CASE UNCHANGED <<tuner, call>>
  BY <1>3, UntouchedGoOn
<1> QED
  BY <1>2, <1>3 DEF Activate

(* Who takes a tuner outranks its users, and no other tuner would do.       *)
LEMMA GrabbedForAReason ==
    ASSUME TypeOK, OwnerInv, NEW u \in Users, NEW r \in req[u], NEW t \in Tuners, NEW s \in tuner[t],
           MustGrab(u, r), IsLowestRanked(t, GrabbableTuners(u, r.channel))
    PROVE  GrabIsJustified(u, t, s)
<1>1. CanGrab(t, u)
  BY DEF IsLowestRanked, GrabbableTuners
<1>2. Waiting(u) /\ Unrestricted(t)
  BY <1>1 DEF CanGrab, MustGrab, Serves
<1>3. \A x \in s.subs : Priority[u] = GRAB \/ Priority[u] > Priority[x.user]
  BY <1>1 DEF CanGrab, Outranks
<1>4. ASSUME NEW t2 \in Tuners, r.channel \notin Excluded[t2]
      PROVE  ~(IsReusable(t2, r.channel) \/ IsAvailableFor(t2, r.channel))
  BY <1>4 DEF MustGrab, ReusableTuners, AvailableTuners
<1>5. ASSUME NEW t2 \in Tuners, r.channel \notin Excluded[t2],
             CanGrab(t2, u), SupportsType(t2, r.channel), NEW s2 \in tuner[t2]
      PROVE  TopPriority(s) <= TopPriority(s2)
  <2>1. ~RanksBelow(t2, t)
    BY <1>5 DEF IsLowestRanked, GrabbableTuners
  <2>2. s \in Session /\ s.subs # {} /\ s2 \in Session /\ s2.subs # {}
    BY DEF TypeOK, OwnerInv, ActiveTunersServeSomeone
  <2>3. TopPriority(s) \in Int /\ TopPriority(s2) \in Int
    BY <2>2, TopPriorityIsInt
  <2>4. ~(TopPriority(s2) < TopPriority(s))
    BY <2>1 DEF RanksBelow
  <2> QED
    BY <2>3, <2>4
<1> QED
  BY <1>2, <1>3, <1>4, <1>5 DEF GrabIsJustified

LEMMA StartEndsForAReason ==
    ASSUME TypeOK, OwnerInv, NEW u \in Users, StartStreaming(u),
           NEW t \in Tuners, NEW s \in tuner[t], Ends(s, t)
    PROVE  GrabIsJustified(u, t, s)
<1>1. CASE UseSpecifiedTuner(u)
  <2>1. PICK r \in req[u] : \E id \in r.stream : \E s0 \in tuner[id.tuner] : Subscribe(id.tuner, s0, u)
    BY <1>1 DEF UseSpecifiedTuner
  <2>2. \A id \in r.stream : id.tuner \in Tuners
    BY DEF TypeOK, Request, SubscriptionId
  <2> QED
    BY <2>1, <2>2, JoinedGoOn
<1>2. CASE UseReservedTuner(u)
  <2>1. PICK r \in req[u], k \in Tuners : Activate(k, u, r) \/ \E s0 \in tuner[k] : Subscribe(k, s0, u)
    BY <1>2 DEF UseReservedTuner
  <2> QED
    BY <2>1, JoinedGoOn, ActivatedWasInactive
<1>3. CASE ReuseActiveTuner(u)
  <2>1. PICK k \in Tuners : \E s0 \in tuner[k] : Subscribe(k, s0, u)
    BY <1>3 DEF ReuseActiveTuner
  <2> QED
    BY <2>1, JoinedGoOn
<1>4. CASE UseAvailableTuner(u)
  <2>1. PICK r \in req[u], k \in Tuners : Activate(k, u, r)
    BY <1>4 DEF UseAvailableTuner
  <2> QED
    BY <2>1, ActivatedWasInactive
<1>5. CASE GrabTuner(u)
  <2>1. PICK r \in req[u], k \in Tuners :
          /\ MustGrab(u, r) /\ IsLowestRanked(k, GrabbableTuners(u, r.channel))
          /\ (\E T : tuner' = [tuner EXCEPT ![k] = T]) \/ tuner' = tuner
    BY <1>5 DEF GrabTuner, Subscribe
  <2>2. t = k
    BY <2>1, OthersGoOn, UntouchedGoOn
  <2> QED
    BY <2>1, <2>2, GrabbedForAReason
<1>6. CASE tuner' = tuner
  BY <1>6, UntouchedGoOn
<1>7. SpecifiedTunerLost(u) \/ NoTunerAvailable(u) \/ RefusedInShutdown(u) => tuner' = tuner
  BY DEF SpecifiedTunerLost, NoTunerAvailable, RefusedInShutdown
<1> QED
  BY <1>1, <1>2, <1>3, <1>4, <1>5, <1>6, <1>7 DEF StartStreaming

LEMMA StopEndsForAReason ==
    ASSUME TypeOK, OwnerInv, NEW m \in stops, StopStreaming(m),
           NEW t \in Tuners, NEW s \in tuner[t], Ends(s, t)
    PROVE  m \in stops \ stops' /\ m.id.session = s.id /\ \A x \in s.subs : x.serial = m.id.serial
<1>1. m \in stops \ stops' /\ m.id.tuner \in Tuners
  BY DEF StopStreaming, TypeOK, SubscriptionId
<1>2. s \in Session /\ s.subs # {} /\ \A s2 \in tuner[t] : s2 = s
  BY DEF TypeOK, OwnerInv, ActiveTunersServeSomeone
<1>3. CASE IgnoreStop(m)
  BY <1>3, UntouchedGoOn DEF IgnoreStop
<1>4. CASE StopUnmatched(m)
  <2>1. PICK s0 \in tuner[m.id.tuner] : tuner' = [tuner EXCEPT ![m.id.tuner] = Remaining(s0)]
    BY <1>4 DEF StopUnmatched
  <2>2. t = m.id.tuner /\ s0 = s
    BY <1>1, <1>2, <2>1, OthersGoOn
  <2>3. tuner'[t] = {s}
    BY <1>2, <2>1, <2>2 DEF Remaining, TypeOK
  <2> QED
    BY <2>3 DEF Ends
<1>5. CASE StopMatched(m)
  <2>1. PICK s0 \in tuner[m.id.tuner] :
          /\ s0.id = m.id.session
          /\ tuner' = [tuner EXCEPT ![m.id.tuner] = Remaining(WithoutSubscriber(s0, m.id.serial))]
    BY <1>5 DEF StopMatched
  <2>2. t = m.id.tuner /\ s0 = s
    BY <1>1, <1>2, <2>1, OthersGoOn
  <2>3. tuner'[t] = Remaining(WithoutSubscriber(s, m.id.serial))
    BY <2>1, <2>2 DEF TypeOK
  <2>4. /\ WithoutSubscriber(s, m.id.serial).id = s.id
        /\ WithoutSubscriber(s, m.id.serial).subs = {x \in s.subs : x.serial # m.id.serial}
    BY <1>2, SubscriberRemoved
  <2>5. {x \in s.subs : x.serial # m.id.serial} = {}
    BY <2>3, <2>4 DEF Remaining, Ends
  <2> QED
    BY <1>1, <2>1, <2>2, <2>5
<1> QED
  BY <1>3, <1>4, <1>5 DEF StopStreaming

(* The manager takes a tuner from its users only for a request that         *)
(* outranks them all and that nothing else could serve; otherwise a session *)
(* ends with its last user, with its broadcaster, or at shutdown.           *)
THEOREM SessionsEndJustly == Spec => SessionsEndForAReason
<1> DEFINE Reason(t, s) ==
      \/ stopping'
      \/ \E c \in call : c.id.tuner = t /\ call' = {}
      \/ \E m \in stops \ stops' :
           m.id.session = s.id /\ \A x \in s.subs : x.serial = m.id.serial
      \/ \E u \in Users : GrabIsJustified(u, t, s)
<1>1. ASSUME TypeOK, OwnerInv, Next, NEW t \in Tuners, NEW s \in tuner[t], Ends(s, t)
      PROVE  Reason(t, s)
  <2>1. CASE \E u \in Users : StartStreaming(u)
    BY <1>1, <2>1, StartEndsForAReason
  <2>2. CASE \E u \in Users : UserStep(u)
    BY <1>1, <2>2, UntouchedGoOn DEF UserStep, RequestStream, CancelRequest, DropStream, managerVars
  <2>3. CASE SubscribeOk
    BY <1>1, <2>3, UntouchedGoOn DEF SubscribeOk
  <2>4. CASE SubscribeFailed
    <3>1. PICK c \in call : call' = {} /\ tuner' = [tuner EXCEPT ![c.id.tuner] = {}]
      BY <2>4 DEF SubscribeFailed
    <3>2. c.id.tuner \in Tuners
      BY <1>1 DEF TypeOK, SubscriptionId
    <3> QED
      BY <1>1, <3>1, <3>2, OthersGoOn
  <2>5. CASE \E m \in stops : StopStreaming(m)
    BY <1>1, <2>5, StopEndsForAReason
  <2>6. CASE Shutdown
    BY <2>6 DEF Shutdown
  <2>7. CASE \E u \in Followers, w \in Viewers : SpawnFollower(u, w)
    BY <1>1, <2>7, UntouchedGoOn DEF SpawnFollower, managerVars
  <2> QED
    BY <1>1, <2>1, <2>2, <2>3, <2>4, <2>5, <2>6, <2>7 DEF Next
<1>2. TypeOK /\ OwnerInv /\ [Next]_vars =>
          [\A t \in Tuners : \A s \in tuner[t] : Ends(s, t) => Reason(t, s)]_vars
  BY <1>1
<1> QED
  BY <1>2, TypeCorrect, OwnersCorrect, PTL DEF Spec, SessionsEndForAReason

-----------------------------------------------------------------------------
(***************************************************************************)
(* TunerManager implements TunerSharing.  The invariant is IInv with       *)
(* SerialsAreUnique.  Every way a request is served is mapped to Join,     *)
(* Open, TakeOver or Refuse; a stop to Leave or to a stutter; a            *)
(* broadcaster found dead to Break; the rest of the users' steps to Ask or *)
(* to a stutter.                                                           *)
(***************************************************************************)
(* Serial numbers.                                                          *)

(* What is left of session s without the subscribers of serial number n.    *)
Without(s, n) ==
    [id |-> s.id, channel |-> s.channel, subs |-> {x \in s.subs : x.serial # n}, next |-> s.next]

LEMMA WithoutIs ==
    ASSUME NEW s \in Session, NEW n
    PROVE  WithoutSubscriber(s, n) = Without(s, n)
  BY DEF WithoutSubscriber, Without, Session

LEMMA StopCases ==
    ASSUME TypeOK, ActiveTunersServeSomeone, NEW m \in stops, StopStreaming(m)
    PROVE  \/ tuner' = tuner
           \/ \E t \in Tuners : \E s \in tuner[t] :
                 tuner' = [tuner EXCEPT ![t] = Remaining(Without(s, m.id.serial))]
<1>1. m.id.tuner \in Tuners /\ tuner[m.id.tuner] \subseteq Session
  BY DEF TypeOK, SubscriptionId
<1>2. CASE IgnoreStop(m)
  BY <1>2 DEF IgnoreStop
<1>3. CASE StopUnmatched(m)
  <2>1. PICK s \in tuner[m.id.tuner] : tuner' = [tuner EXCEPT ![m.id.tuner] = Remaining(s)]
    BY <1>3 DEF StopUnmatched
  <2>2. Remaining(s) = {s}
    BY <1>1 DEF Remaining, ActiveTunersServeSomeone
  <2>3. tuner[m.id.tuner] = {s}
    BY <1>1 DEF TypeOK
  <2> QED
    BY <1>1, <2>1, <2>2, <2>3 DEF TypeOK
<1>4. CASE StopMatched(m)
  <2>1. PICK s \in tuner[m.id.tuner] :
            tuner' = [tuner EXCEPT ![m.id.tuner] = Remaining(WithoutSubscriber(s, m.id.serial))]
    BY <1>4 DEF StopMatched
  <2>2. WithoutSubscriber(s, m.id.serial) = Without(s, m.id.serial)
    BY <1>1, WithoutIs
  <2> QED
    BY <1>1, <2>1, <2>2
<1> QED
  BY <1>2, <1>3, <1>4 DEF StopStreaming

(* The serial numbers of one session.                                       *)
Numbered(s) ==
    \A x \in s.subs : x.serial < s.next /\ \A y \in s.subs : x.serial = y.serial => x = y

LEMMA NumberedWithSubscriber ==
    ASSUME NEW s \in Session, Numbered(s), NEW u \in Users
    PROVE  Numbered(WithSubscriber(s, u))
<1>1. /\ WithSubscriber(s, u).subs = s.subs \cup {[serial |-> s.next, user |-> u]}
      /\ WithSubscriber(s, u).next = s.next + 1
  BY DEF WithSubscriber
<1>2. s.next \in Nat /\ \A x \in s.subs : x.serial \in Nat
  BY DEF Session, Subscriber
<1> QED
  BY <1>1, <1>2 DEF Numbered

LEMMA NumberedWithout ==
    ASSUME NEW s \in Session, Numbered(s), NEW n
    PROVE  \A s2 \in Remaining(Without(s, n)) : Numbered(s2)
<1>1. \A s2 \in Remaining(Without(s, n)) : s2 = Without(s, n)
  BY DEF Remaining
<1>2. /\ Without(s, n).subs = {x \in s.subs : x.serial # n}
      /\ Without(s, n).next = s.next
  BY DEF Without
<1> QED
  BY <1>1, <1>2 DEF Numbered

LEMMA SerialsStep ==
    ASSUME TypeOK, ActiveTunersServeSomeone, SerialsAreUnique, [Next]_vars
    PROVE  SerialsAreUnique'
<1>1. \A t \in Tuners : tuner[t] \subseteq Session /\ \A s \in tuner[t] : Numbered(s)
  BY DEF SerialsAreUnique, TypeOK, Numbered
<1>2. SUFFICES \A t \in Tuners : \A s \in tuner'[t] : Numbered(s)
  BY DEF SerialsAreUnique, Numbered
<1>3. CASE \E u \in Users : Joins(u) \/ Opens(u)
  <2>1. PICK u \in Users : Joins(u) \/ Opens(u)
    BY <1>3
  <2>2. PICK t \in Tuners, s \in Session : Subscribe(t, s, u) /\ (s \in tuner[t] \/ s.subs = {})
    BY <2>1, NewSubscriber
  <2>3. Numbered(s)
    BY <1>1, <2>2 DEF Numbered
  <2>4. Numbered(WithSubscriber(s, u))
    BY <2>3, NumberedWithSubscriber
  <2>5. /\ tuner'[t] = {WithSubscriber(s, u)}
        /\ \A t2 \in Tuners \ {t} : tuner'[t2] = tuner[t2]
    BY <2>2, SubscribeTypes
  <2> QED
    BY <1>1, <2>4, <2>5
<1>4. CASE \E m \in stops : StopStreaming(m)
  <2>1. PICK m \in stops : StopStreaming(m)
    BY <1>4
  <2>2. CASE tuner' = tuner
    BY <1>1, <2>2
  <2>3. CASE \E t \in Tuners : \E s \in tuner[t] :
                 tuner' = [tuner EXCEPT ![t] = Remaining(Without(s, m.id.serial))]
    <3> PICK t \in Tuners : \E s \in tuner[t] :
                 tuner' = [tuner EXCEPT ![t] = Remaining(Without(s, m.id.serial))]
      BY <2>3
    <3>1. PICK s \in tuner[t] : tuner' = [tuner EXCEPT ![t] = Remaining(Without(s, m.id.serial))]
      OBVIOUS
    <3>2. \A s2 \in Remaining(Without(s, m.id.serial)) : Numbered(s2)
      BY <1>1, NumberedWithout
    <3>3. /\ tuner'[t] = Remaining(Without(s, m.id.serial))
          /\ \A t2 \in Tuners \ {t} : tuner'[t2] = tuner[t2]
      BY <3>1 DEF TypeOK
    <3> QED
      BY <1>1, <3>2, <3>3
  <2> QED
    BY <2>1, <2>2, <2>3, StopCases
<1>5. CASE Releases
  BY <1>1, <1>5 DEF Releases
<1> QED
  BY <1>3, <1>4, <1>5, ReleasingSteps

-----------------------------------------------------------------------------
(* What a step does to the uses and the wants.                              *)

Names(S) == {x.user : x \in S}
Use(s) == [channel |-> s.channel, users |-> Names(s.subs)]
UsesIn(S) == {Use(s) : s \in S}

LEMMA NamesOfMore ==
    ASSUME NEW S, NEW x
    PROVE  Names(S \cup {x}) = Names(S) \cup {x.user}
<1>1. Names(S \cup {x}) \subseteq Names(S) \cup {x.user}
  BY DEF Names
<1>2. Names(S) \cup {x.user} \subseteq Names(S \cup {x})
  BY DEF Names
<1> QED
  BY <1>1, <1>2

LEMMA UsesAre == TunerUses = [t \in Tuners |-> UsesIn(tuner[t])]
  BY DEF TunerUses, UseOf, UsesIn, Use, Names

LEMMA UsesAfter ==
    ASSUME TypeOK, NEW t \in Tuners, NEW S, tuner' = [tuner EXCEPT ![t] = S]
    PROVE  TunerUses' = [TunerUses EXCEPT ![t] = UsesIn(S)]
<1>1. tuner'[t] = S /\ \A t2 \in Tuners \ {t} : tuner'[t2] = tuner[t2]
  BY DEF TypeOK
<1>2. TunerUses' = [t2 \in Tuners |-> UsesIn(tuner'[t2])]
  BY DEF TunerUses, UseOf, UsesIn, Use, Names
<1>3. TunerUses = [t2 \in Tuners |-> UsesIn(tuner[t2])]
  BY UsesAre
<1> HIDE DEF TunerUses
<1> QED
  BY <1>1, <1>2, <1>3

LEMMA UsesKept == ASSUME tuner' = tuner PROVE TunerUses' = TunerUses
  BY DEF TunerUses, UseOf

(* The wants do not change where requests, streams and calls do not.        *)
LEMMA WantsKept ==
    ASSUME \A u \in Users : WantOf(u)' = WantOf(u)
    PROVE  Wants' = Wants
  BY DEF Wants

LEMMA WantServed ==
    ASSUME NEW u \in Users, WantOf(u)' = {},
           \A v \in Users \ {u} : WantOf(v)' = WantOf(v)
    PROVE  Wants' = [Wants EXCEPT ![u] = {}]
<1>1. Wants = [v \in Users |-> WantOf(v)] /\ Wants' = [v \in Users |-> WantOf(v)']
  BY DEF Wants
<1> HIDE DEF Wants, WantOf
<1> QED
  BY <1>1

LEMMA WaitingWants ==
    ASSUME TypeOK, call = {}, NEW u \in Users, Waiting(u)
    PROVE  Wants[u] # {} /\ \A r \in req[u] : Wants[u] = {r.channel}
<1>1. Wants[u] = {r.channel : r \in req[u]}
  BY DEF Wants, WantOf, InCall, Waiting
<1>2. req[u] # {} /\ \A r1, r2 \in req[u] : r1 = r2
  BY DEF Waiting, TypeOK
<1> QED
  BY <1>1, <1>2

(* A user whose request is answered, by a subscription or by an error, does *)
(* not want anything any more.                                              *)
LEMMA SubscribedWants ==
    ASSUME call = {}, NEW u \in Users, NEW t, NEW s, Subscribe(t, s, u)
    PROVE  Wants' = [Wants EXCEPT ![u] = {}]
<1>1. call' = {[user |-> u, id |-> IdOf(t, s)]} /\ req' = req /\ got' = got
  BY DEF Subscribe, userVars
<1>2. InCall(u)' /\ \A v \in Users \ {u} : ~InCall(v) /\ ~InCall(v)'
  BY <1>1 DEF InCall
<1>3. WantOf(u)' = {} /\ \A v \in Users \ {u} : WantOf(v)' = WantOf(v)
  BY <1>1, <1>2 DEF WantOf
<1> QED
  BY <1>3, WantServed

LEMMA FailedWants ==
    ASSUME TypeOK, NEW u \in Users, Fail(u), call' = call
    PROVE  Wants' = [Wants EXCEPT ![u] = {}]
<1>1. got' = got /\ req'[u] = {} /\ \A v \in Users \ {u} : req'[v] = req[v]
  BY DEF Fail, TypeOK
<1>2. WantOf(u)' = {} /\ \A v \in Users \ {u} : WantOf(v)' = WantOf(v)
  BY <1>1 DEF WantOf, InCall
<1> QED
  BY <1>2, WantServed

-----------------------------------------------------------------------------
(* StartStreaming.                                                          *)

LEMMA ServedMaps ==
    ASSUME TypeOK, call = {}, NEW u \in Users, Waiting(u), stopping' = stopping,
           Wants' = [Wants EXCEPT ![u] = {}]
    PROVE  Sharing!Served(u)
  BY WaitingWants DEF Sharing!Served

LEMMA RefuseMaps ==
    ASSUME TypeOK, NEW u \in Users, call = {}, Waiting(u), Fail(u), call' = call, tuner' = tuner
    PROVE  Sharing!Refuse(u)
<1>1. stopping' = stopping
  BY DEF Fail
<1>2. Sharing!Served(u)
  BY <1>1, FailedWants, ServedMaps
<1> QED
  BY <1>2, UsesKept DEF Sharing!Refuse

LEMMA UseOfNew ==
    ASSUME TypeOK, NEW u \in Users, NEW ch \in Channels
    PROVE  UsesIn({WithSubscriber(NewSession(ch), u)}) = Sharing!Opened(u, ch)
<1>1. /\ WithSubscriber(NewSession(ch), u).channel = ch
      /\ WithSubscriber(NewSession(ch), u).subs = {[serial |-> 1, user |-> u]}
  BY DEF WithSubscriber, NewSession
<1>2. Names({[serial |-> 1, user |-> u]}) = {u}
  BY DEF Names
<1> QED
  BY <1>1, <1>2 DEF UsesIn, Use, Sharing!Opened

LEMMA UseOfJoined ==
    ASSUME NEW s \in Session, NEW u \in Users
    PROVE  UsesIn({WithSubscriber(s, u)}) = Sharing!Joined(Use(s), u)
<1>1. /\ WithSubscriber(s, u).channel = s.channel
      /\ WithSubscriber(s, u).subs = s.subs \cup {[serial |-> s.next, user |-> u]}
  BY SubscriberAdded
<1>2. Names(s.subs \cup {[serial |-> s.next, user |-> u]}) = Names(s.subs) \cup {u}
  BY NamesOfMore
<1>3. UsesIn({WithSubscriber(s, u)}) = {[channel |-> s.channel, users |-> Names(s.subs) \cup {u}]}
  BY <1>1, <1>2 DEF UsesIn, Use
<1>4. Use(s).channel = s.channel /\ Use(s).users = Names(s.subs)
  BY DEF Use
<1> QED
  BY <1>3, <1>4 DEF Sharing!Joined

LEMMA JoinMaps ==
    ASSUME TypeOK, UseInv, NEW u \in Users, Joins(u)
    PROVE  \E t \in Tuners : Sharing!Join(u, t)
<1>1. PICK r \in req[u], t \in Tuners : \E s \in tuner[t] :
          Serves(u, r) /\ JoinReason(u, r, t, s) /\ Subscribe(t, s, u)
  BY DEF Joins
<1>2. PICK s \in tuner[t] : Serves(u, r) /\ JoinReason(u, r, t, s) /\ Subscribe(t, s, u)
  BY <1>1
<1>3. s \in Session /\ tuner[t] = {s}
  BY DEF TypeOK
<1>4. call = {} /\ ~stopping /\ Waiting(u) /\ stopping' = stopping
  BY <1>2 DEF Serves, Subscribe
<1>5. Sharing!Served(u)
  BY <1>2, <1>4, SubscribedWants, ServedMaps
<1>6. Use(s) \in TunerUses[t]
  BY UsesAre DEF UsesIn
<1>7. TunerUses' = [TunerUses EXCEPT ![t] = Sharing!Joined(Use(s), u)]
  BY <1>2, <1>3, UsesAfter, UseOfJoined DEF Subscribe
<1>8. \/ t \in SharedTuners /\ (Use(s).channel \in Wants[u] \/ u \in Followers)
      \/ <<t, u>> \in OwnTuners
  <2>1. CASE \E id \in r.stream : id.tuner = t
    <3>1. u \in Followers /\ ~Exclusive(t)
      BY <2>1 DEF UseInv, RequestsAreAllowed, ExclusiveIdsStayPrivate
    <3> QED
      BY <3>1 DEF SharedTuners
  <2>2. CASE IsReservedFor(t, u)
    BY <2>2 DEF OwnTuners
  <2>3. CASE ~Exclusive(t) /\ s.channel = r.channel
    <3>1. Wants[u] = {r.channel}
      BY <1>4, WaitingWants
    <3> QED
      BY <2>3, <3>1 DEF SharedTuners, Use
  <2> QED
    BY <1>2, <2>1, <2>2, <2>3 DEF JoinReason
<1> QED
  BY <1>4, <1>5, <1>6, <1>7, <1>8 DEF Sharing!Join

LEMMA OpenMaps ==
    ASSUME TypeOK, NEW u \in Users, NEW r \in req[u], NEW t \in Tuners, Serves(u, r),
           tuner[t] = {}, Fits(t, u, r.channel), Subscribe(t, NewSession(r.channel), u)
    PROVE  \E ch \in Channels : Sharing!Open(u, t, ch)
<1>1. call = {} /\ ~stopping /\ Waiting(u) /\ stopping' = stopping
  BY DEF Serves, Subscribe
<1>2. Sharing!Served(u) /\ r.channel \in Wants[u]
  BY <1>1, SubscribedWants, ServedMaps, WaitingWants
<1>3. r.channel \in Channels
  BY DEF TypeOK, Request
<1>4. TunerUses[t] = {}
  BY UsesAre DEF UsesIn
<1>5. <<t, u, r.channel>> \in Carriers
  BY <1>3 DEF Carriers
<1>6. TunerUses' = [TunerUses EXCEPT ![t] = Sharing!Opened(u, r.channel)]
  BY <1>3, UsesAfter, UseOfNew DEF Subscribe
<1> QED
  BY <1>1, <1>2, <1>3, <1>4, <1>5, <1>6 DEF Sharing!Open

LEMMA TakeOverMaps ==
    ASSUME TypeOK, NEW u \in Users, NEW r \in req[u], NEW t \in Tuners, Serves(u, r),
           tuner[t] # {}, CanGrab(t, u), Fits(t, u, r.channel),
           \/ Subscribe(t, NewSession(r.channel), u)
           \/ Fail(u) /\ tuner' = [tuner EXCEPT ![t] = {}] /\ call' = call
    PROVE  \E ch \in Channels : Sharing!TakeOver(u, t, ch)
<1>1. call = {} /\ ~stopping /\ Waiting(u) /\ stopping' = stopping
  BY DEF Serves, Subscribe, Fail
<1>2. Sharing!Served(u) /\ r.channel \in Wants[u]
  BY <1>1, SubscribedWants, FailedWants, ServedMaps, WaitingWants
<1>3. r.channel \in Channels
  BY DEF TypeOK, Request
<1>4. PICK s \in tuner[t] : TRUE
  OBVIOUS
<1>5. Use(s) \in TunerUses[t]
  BY UsesAre DEF UsesIn
<1>6. t \in SpareTuners /\ <<t, u, r.channel>> \in Carriers
  BY <1>3 DEF Carriers, SpareTuners, CanGrab
<1>7. Priority[u] = GRAB \/ \A v \in Use(s).users : Priority[u] > Priority[v]
  BY DEF CanGrab, Outranks, Use, Names
<1>8. \E after \in {Sharing!Opened(u, r.channel), {}} : TunerUses' = [TunerUses EXCEPT ![t] = after]
  <2>1. CASE Subscribe(t, NewSession(r.channel), u)
    <3>1. TunerUses' = [TunerUses EXCEPT ![t] = Sharing!Opened(u, r.channel)]
      BY <1>3, <2>1, UsesAfter, UseOfNew DEF Subscribe
    <3> QED
      BY <3>1
  <2>2. CASE tuner' = [tuner EXCEPT ![t] = {}]
    <3>1. UsesIn({}) = {}
      BY DEF UsesIn
    <3>2. TunerUses' = [TunerUses EXCEPT ![t] = {}]
      BY <2>2, <3>1, UsesAfter
    <3> QED
      BY <3>2
  <2> QED
    BY <2>1, <2>2
<1> QED
  BY <1>1, <1>2, <1>3, <1>5, <1>6, <1>7, <1>8 DEF Sharing!TakeOver

(* A tuner is activated for u: it is opened, or u is refused.               *)
LEMMA ActivateMaps ==
    ASSUME TypeOK, NEW u \in Users, NEW r \in req[u], NEW t \in Tuners, Serves(u, r),
           Fits(t, u, r.channel), Activate(t, u, r)
    PROVE  Sharing!UserStep(u)
<1>1. CASE Subscribe(t, NewSession(r.channel), u)
  BY <1>1, OpenMaps DEF Activate, Sharing!UserStep
<1>2. CASE Fail(u) /\ UNCHANGED <<tuner, call>>
  BY <1>2, RefuseMaps DEF Serves, Sharing!UserStep
<1> QED
  BY <1>1, <1>2 DEF Activate

Activates(u) == \E r \in req[u], t \in Tuners :
    Serves(u, r) /\ Fits(t, u, r.channel) /\ Activate(t, u, r)

LEMMA StartMaps ==
    ASSUME TypeOK, UseInv, NEW u \in Users, StartStreaming(u)
    PROVE  Sharing!UserStep(u)
<1>1. CASE Joins(u)
  BY <1>1, JoinMaps DEF Sharing!UserStep
<1>2. CASE SpecifiedTunerLost(u) \/ NoTunerAvailable(u) \/ RefusedInShutdown(u)
  <2>1. call = {} /\ Waiting(u) /\ Fail(u) /\ call' = call /\ tuner' = tuner
    BY <1>2 DEF SpecifiedTunerLost, NoTunerAvailable, RefusedInShutdown, MustGrab, Serves
  <2> QED
    BY <2>1, RefuseMaps DEF Sharing!UserStep
<1>3. CASE Activates(u)
  BY <1>3, ActivateMaps DEF Activates
<1>4. CASE GrabTuner(u)
  <2>1. PICK r \in req[u], t \in Tuners :
            /\ MustGrab(u, r) /\ t \in GrabbableTuners(u, r.channel)
            /\ \/ Subscribe(t, NewSession(r.channel), u)
               \/ Fail(u) /\ tuner' = [tuner EXCEPT ![t] = {}] /\ call' = call
               \/ Fail(u) /\ tuner' = tuner /\ call' = call
    BY <1>4 DEF GrabTuner, IsLowestRanked
  <2>2. Serves(u, r) /\ AvailableTuners(r.channel) = {}
    BY <2>1 DEF MustGrab
  <2>3. CanGrab(t, u) /\ SupportsType(t, r.channel) /\ r.channel \notin Excluded[t]
    BY <2>1 DEF GrabbableTuners
  <2>4. tuner[t] # {}
    BY <2>2, <2>3 DEF AvailableTuners, IsAvailableFor, Active, CanGrab
  <2>5. Fits(t, u, r.channel)
    BY <2>3 DEF Fits, CanGrab
  <2>6. CASE \/ Subscribe(t, NewSession(r.channel), u)
             \/ Fail(u) /\ tuner' = [tuner EXCEPT ![t] = {}] /\ call' = call
    BY <2>2, <2>3, <2>4, <2>5, <2>6, TakeOverMaps DEF Sharing!UserStep
  <2>7. CASE Fail(u) /\ tuner' = tuner /\ call' = call
    BY <2>2, <2>7, RefuseMaps DEF Serves, Sharing!UserStep
  <2> QED
    BY <2>1, <2>6, <2>7
<1>5. \/ Joins(u) \/ Activates(u) \/ GrabTuner(u)
      \/ SpecifiedTunerLost(u) \/ NoTunerAvailable(u) \/ RefusedInShutdown(u)
  <2>1. CASE UseSpecifiedTuner(u)
    <3>1. PICK r \in req[u] : \E id \in r.stream : \E s \in tuner[id.tuner] :
              Serves(u, r) /\ Subscribe(id.tuner, s, u) /\ Emit({id.tuner}, {}) /\ sessions' = sessions
      BY <2>1 DEF UseSpecifiedTuner
    <3> PICK id \in r.stream : \E s \in tuner[id.tuner] :
              Serves(u, r) /\ Subscribe(id.tuner, s, u) /\ Emit({id.tuner}, {}) /\ sessions' = sessions
      BY <3>1
    <3>2. id.tuner \in Tuners
      BY DEF TypeOK, Request, SubscriptionId
    <3> QED
      BY <3>2 DEF Joins, JoinReason
  <2>2. CASE UseReservedTuner(u)
    <3>1. PICK r \in req[u], t \in Tuners :
              /\ Serves(u, r) /\ r.stream = {} /\ IsReservedFor(t, u)
              /\ \/ Activate(t, u, r)
                 \/ /\ \E s \in tuner[t] : Subscribe(t, s, u)
                    /\ Emit({t}, {}) /\ sessions' = sessions
      BY <2>2 DEF UseReservedTuner, IsFirst, ReservedTuners
    <3> QED
      BY <3>1 DEF Joins, JoinReason, Activates, Fits
  <2>3. CASE ReuseActiveTuner(u)
    <3>1. PICK r \in req[u], t \in Tuners :
              /\ Serves(u, r) /\ r.stream = {} /\ IsReusable(t, r.channel)
              /\ \E s \in tuner[t] : Subscribe(t, s, u)
              /\ Emit({t}, {}) /\ sessions' = sessions
      BY <2>3 DEF ReuseActiveTuner, IsFirst, ReusableTuners
    <3>2. ~Exclusive(t) /\ \A s \in tuner[t] : s.channel = r.channel
      BY <3>1 DEF IsReusable, TypeOK
    <3> QED
      BY <3>1, <3>2 DEF Joins, JoinReason
  <2>4. CASE UseAvailableTuner(u)
    <3>1. PICK r \in req[u], t \in Tuners :
              /\ Serves(u, r) /\ r.channel \notin Excluded[t] /\ IsAvailableFor(t, r.channel)
              /\ Activate(t, u, r)
      BY <2>4 DEF UseAvailableTuner, IsFirst, AvailableTuners
    <3> QED
      BY <3>1 DEF IsAvailableFor, Activates, Fits
  <2> QED
    BY <2>1, <2>2, <2>3, <2>4 DEF StartStreaming
<1> QED
  BY <1>1, <1>2, <1>3, <1>4, <1>5

-----------------------------------------------------------------------------
(* StopStreaming.                                                           *)

(* A session loses the subscriber of one serial number: its use loses the   *)
(* user of this subscriber, unless he has another one in the session.       *)
LEMMA LeftUses ==
    ASSUME NEW s \in Session, s.subs # {}, Numbered(s), NEW n
    PROVE  \/ UsesIn(Remaining(Without(s, n))) = {Use(s)}
           \/ \E x \in s.subs : UsesIn(Remaining(Without(s, n))) = Sharing!Left(Use(s), x.user)
<1> DEFINE left == {x \in s.subs : x.serial # n}
<1>1. /\ Without(s, n).subs = left /\ Without(s, n).channel = s.channel
      /\ Remaining(Without(s, n)) = IF left = {} THEN {} ELSE {Without(s, n)}
  BY DEF Without, Remaining
<1>2. UsesIn(Remaining(Without(s, n))) =
          IF left = {} THEN {} ELSE {[channel |-> s.channel, users |-> Names(left)]}
  BY <1>1 DEF UsesIn, Use
<1>3. CASE left # {} /\ Names(left) = Names(s.subs)
  BY <1>2, <1>3 DEF Use
<1>4. CASE left = {} \/ Names(left) # Names(s.subs)
  <2>1. PICK x \in s.subs : x.serial = n
    BY <1>4
  <2>2. left = s.subs \ {x}
    BY <2>1 DEF Numbered
  <2>3. \A y \in left : y.user # x.user
    BY <1>4, <2>2 DEF Names
  <2>4. Names(left) = Names(s.subs) \ {x.user}
    BY <2>2, <2>3 DEF Names
  <2>5. left = {} <=> Names(s.subs) = {x.user}
    BY <2>2, <2>4 DEF Names
  <2>6. Sharing!Left(Use(s), x.user) =
            IF Names(s.subs) = {x.user} THEN {}
            ELSE {[channel |-> s.channel, users |-> Names(s.subs) \ {x.user}]}
    BY DEF Sharing!Left, Use
  <2> QED
    BY <1>2, <2>4, <2>5, <2>6
<1> QED
  BY <1>3, <1>4

LEMMA StopMaps ==
    ASSUME TypeOK, ActiveTunersServeSomeone, SerialsAreUnique,
           NEW m \in stops, StopStreaming(m)
    PROVE  \/ UNCHANGED Sharing!vars
           \/ \E u \in Users, t \in Tuners : Sharing!Leave(u, t)
<1>1. UNCHANGED <<stopping, call, req, got>>
  BY DEF StopStreaming, IgnoreStop, StopUnmatched, StopMatched
<1>2. Wants' = Wants
  BY <1>1 DEF Wants, WantOf, InCall
<1>3. CASE tuner' = tuner
  BY <1>1, <1>2, <1>3, UsesKept DEF Sharing!vars
<1>4. CASE \E t \in Tuners : \E s \in tuner[t] :
               tuner' = [tuner EXCEPT ![t] = Remaining(Without(s, m.id.serial))]
  <2>1. PICK t \in Tuners : \E s \in tuner[t] :
               tuner' = [tuner EXCEPT ![t] = Remaining(Without(s, m.id.serial))]
    BY <1>4
  <2>2. PICK s \in tuner[t] : tuner' = [tuner EXCEPT ![t] = Remaining(Without(s, m.id.serial))]
    BY <2>1
  <2> DEFINE rest == UsesIn(Remaining(Without(s, m.id.serial)))
  <2>3. s \in Session /\ s.subs # {} /\ Numbered(s) /\ tuner[t] = {s}
    BY DEF TypeOK, ActiveTunersServeSomeone, SerialsAreUnique, Numbered
  <2>4. TunerUses' = [TunerUses EXCEPT ![t] = rest]
    BY <2>2, UsesAfter
  <2>5. TunerUses[t] = {Use(s)} /\ TunerUses = [t2 \in Tuners |-> UsesIn(tuner[t2])]
    BY <2>3, UsesAre DEF UsesIn
  <2> HIDE DEF rest
  <2>6. CASE rest = {Use(s)}
    <3>1. TunerUses' = TunerUses
      BY <2>4, <2>5, <2>6
    <3> QED
      BY <1>1, <1>2, <3>1 DEF Sharing!vars
  <2>7. CASE \E x \in s.subs : rest = Sharing!Left(Use(s), x.user)
    <3>1. PICK x \in s.subs : rest = Sharing!Left(Use(s), x.user)
      BY <2>7
    <3>2. x.user \in Users /\ x.user \in Use(s).users
      BY <2>3 DEF Session, Subscriber, Use, Names
    <3>3. Sharing!Leave(x.user, t)
      BY <1>1, <1>2, <2>4, <2>5, <3>1, <3>2 DEF Sharing!Leave
    <3> QED
      BY <3>2, <3>3
  <2> QED
    BY <2>3, <2>6, <2>7, LeftUses DEF rest
<1> QED
  BY <1>3, <1>4, StopCases

-----------------------------------------------------------------------------
(* The broadcasters' replies, the users and the stop.                       *)

LEMMA AskMaps ==
    ASSUME TypeOK, ServedUsersWait, StreamsHaveRequests, NEW u \in Users, RequestStream(u)
    PROVE  \E ch \in Channels : Sharing!Ask(u, ch)
<1>1. req[u] = {} /\ UNCHANGED <<tuner, stopping, call, got>>
  BY DEF RequestStream, managerVars
<1>2. got[u] = {} /\ ~InCall(u)
  BY <1>1 DEF StreamsHaveRequests, ServedUsersWait, Waiting, InCall
<1>3. PICK r \in Request : req' = [req EXCEPT ![u] = {r}]
  <2>1. CASE \E ch \in Asks[u] : req' = [req EXCEPT ![u] = {[channel |-> ch, stream |-> {}]}]
    <3>1. \A ch \in Asks[u] : [channel |-> ch, stream |-> {}] \in Request
      BY ConfigAssumption DEF Request
    <3> QED
      BY <2>1, <3>1
  <2>2. CASE follow[u] # {} /\ req' = [req EXCEPT ![u] = follow[u]]
    <3>1. \E r \in Request : follow[u] = {r}
      BY <2>2 DEF TypeOK
    <3> QED
      BY <2>2, <3>1
  <2> QED
    BY <2>1, <2>2 DEF RequestStream
<1>4. req'[u] = {r} /\ \A v \in Users \ {u} : req'[v] = req[v]
  BY <1>3 DEF TypeOK
<1>5. /\ WantOf(u) = {} /\ WantOf(u)' = {r.channel}
      /\ \A v \in Users \ {u} : WantOf(v)' = WantOf(v)
  BY <1>1, <1>2, <1>4 DEF WantOf, InCall
<1>6. Wants = [v \in Users |-> WantOf(v)] /\ Wants' = [v \in Users |-> WantOf(v)']
  BY DEF Wants
<1>7. Wants[u] = {} /\ Wants' = [Wants EXCEPT ![u] = {r.channel}]
  <2> HIDE DEF Wants, WantOf
  <2> QED
    BY <1>5, <1>6
<1>8. r.channel \in Channels
  BY DEF Request
<1> QED
  BY <1>1, <1>7, <1>8, UsesKept DEF Sharing!Ask

LEMMA IdleSteps ==
    ASSUME TypeOK, NEW u \in Users, CancelRequest(u) \/ DropStream(u)
    PROVE  UNCHANGED Sharing!vars
<1>1. UNCHANGED <<tuner, stopping, call>>
  BY DEF CancelRequest, DropStream, managerVars
<1>2. \A v \in Users : WantOf(v)' = WantOf(v)
  <2>1. CASE CancelRequest(u)
    BY <1>1, <2>1 DEF CancelRequest, WantOf, InCall
  <2>2. CASE DropStream(u)
    <3>1. got[u] # {} /\ req'[u] = {} /\ \A v \in Users \ {u} : req'[v] = req[v] /\ got'[v] = got[v]
      BY <2>2 DEF DropStream, TypeOK
    <3>2. WantOf(u) = {} /\ WantOf(u)' = {}
      BY <3>1 DEF WantOf
    <3>3. \A v \in Users \ {u} : WantOf(v)' = WantOf(v)
      BY <1>1, <3>1 DEF WantOf, InCall
    <3> QED
      BY <3>2, <3>3
  <2> QED
    BY <2>1, <2>2
<1> QED
  BY <1>1, <1>2, UsesKept, WantsKept DEF Sharing!vars

(* The user whose broadcaster answers wants nothing before or after.        *)
LEMMA ReplyKeepsWants ==
    ASSUME TypeOK, NEW c \in call, call' = {}, got'[c.user] # {} \/ req'[c.user] = {},
           \A v \in Users \ {c.user} : req'[v] = req[v] /\ got'[v] = got[v]
    PROVE  Wants' = Wants
<1>1. \A c2 \in call : c2 = c
  BY DEF TypeOK
<1>2. \A v \in Users : (InCall(v) <=> v = c.user) /\ ~InCall(v)'
  BY <1>1 DEF InCall
<1>3. \A v \in Users : v = c.user => WantOf(v) = {} /\ WantOf(v)' = {}
  BY <1>2 DEF WantOf
<1>4. \A v \in Users \ {c.user} : WantOf(v)' = WantOf(v)
  BY <1>2 DEF WantOf
<1> QED
  BY <1>3, <1>4, WantsKept

LEMMA ReplyMaps ==
    ASSUME TypeOK, SubscribeOk \/ SubscribeFailed
    PROVE  UNCHANGED Sharing!vars \/ \E t \in Tuners : Sharing!Break(t)
<1>1. CASE SubscribeOk
  <2>1. PICK c \in call :
            /\ call' = {}
            /\ got' = [got EXCEPT ![c.user] = IF c.user \in gone THEN {} ELSE {c.id}]
            /\ req' = [req EXCEPT ![c.user] = IF c.user \in gone THEN {} ELSE @]
            /\ UNCHANGED <<tuner, stopping>>
    BY <1>1 DEF SubscribeOk
  <2>2. c.user \in Users
    BY DEF TypeOK
  <2>3. /\ got'[c.user] # {} \/ req'[c.user] = {}
        /\ \A v \in Users \ {c.user} : req'[v] = req[v] /\ got'[v] = got[v]
    BY <2>1, <2>2 DEF TypeOK
  <2> QED
    BY <2>1, <2>3, ReplyKeepsWants, UsesKept DEF Sharing!vars
<1>2. CASE SubscribeFailed
  <2>1. PICK c \in call :
            /\ call' = {}
            /\ tuner' = [tuner EXCEPT ![c.id.tuner] = {}]
            /\ req' = [req EXCEPT ![c.user] = {}]
            /\ UNCHANGED <<stopping, got>>
    BY <1>2 DEF SubscribeFailed
  <2>2. c.user \in Users /\ c.id.tuner \in Tuners
    BY DEF TypeOK, SubscriptionId
  <2>3. req'[c.user] = {} /\ \A v \in Users \ {c.user} : req'[v] = req[v] /\ got'[v] = got[v]
    BY <2>1, <2>2 DEF TypeOK
  <2>4. Wants' = Wants
    BY <2>1, <2>3, ReplyKeepsWants
  <2>5. TunerUses' = [TunerUses EXCEPT ![c.id.tuner] = {}]
    <3>1. UsesIn({}) = {}
      BY DEF UsesIn
    <3> QED
      BY <2>1, <2>2, <3>1, UsesAfter
  <2> QED
    BY <2>1, <2>2, <2>4, <2>5 DEF Sharing!Break
<1> QED
  BY <1>1, <1>2

LEMMA CloseMaps == ASSUME TypeOK, Shutdown PROVE Sharing!Close
<1>1. tuner' = [t \in Tuners |-> {}] /\ stopping' = TRUE /\ UNCHANGED <<call, req, got>>
  BY DEF Shutdown, userVars
<1>2. Wants' = Wants
  BY <1>1 DEF Wants, WantOf, InCall
<1>3. TunerUses' = [t \in Tuners |-> {}]
  BY <1>1 DEF TunerUses, UseOf
<1> QED
  BY <1>1, <1>2, <1>3 DEF Sharing!Close

-----------------------------------------------------------------------------

LEMMA InitMaps == Init => Sharing!Init /\ SerialsAreUnique
<1> SUFFICES ASSUME Init PROVE Sharing!Init /\ SerialsAreUnique
  OBVIOUS
<1>1. TunerUses = [t \in Tuners |-> {}]
  BY DEF Init, TunerUses, UseOf
<1>2. Wants = [u \in Users |-> {}]
  BY DEF Init, Wants, WantOf, InCall
<1>3. SerialsAreUnique
  BY DEF Init, SerialsAreUnique
<1> QED
  BY <1>1, <1>2, <1>3 DEF Init, Sharing!Init

LEMMA StepMaps ==
    ASSUME IInv, SerialsAreUnique, [Next]_vars
    PROVE  Sharing!Next \/ UNCHANGED Sharing!vars
<1>1. /\ TypeOK /\ UseInv /\ ActiveTunersServeSomeone
      /\ ServedUsersWait /\ StreamsHaveRequests
  BY DEF IInv, OwnerInv, ChannelInv
<1>2. CASE \E u \in Users : StartStreaming(u)
  BY <1>1, <1>2, StartMaps DEF Sharing!Next
<1>3. CASE \E u \in Users : RequestStream(u)
  BY <1>1, <1>3, AskMaps DEF Sharing!Next, Sharing!UserStep
<1>4. CASE \E u \in Users : CancelRequest(u) \/ DropStream(u)
  BY <1>1, <1>4, IdleSteps
<1>5. CASE SubscribeOk \/ SubscribeFailed
  BY <1>1, <1>5, ReplyMaps DEF Sharing!Next
<1>6. CASE \E m \in stops : StopStreaming(m)
  BY <1>1, <1>6, StopMaps DEF Sharing!Next, Sharing!UserStep
<1>7. CASE Shutdown
  BY <1>1, <1>7, CloseMaps DEF Sharing!Next
<1>8. CASE (\E u \in Followers, w \in Viewers : SpawnFollower(u, w)) \/ UNCHANGED vars
  <2>1. UNCHANGED <<tuner, stopping, call, req, got>>
    BY <1>8 DEF SpawnFollower, managerVars, vars
  <2>2. TunerUses' = TunerUses /\ Wants' = Wants
    BY <2>1, UsesKept DEF Wants, WantOf, InCall
  <2> QED
    BY <2>1, <2>2 DEF Sharing!vars
<1> QED
  BY <1>2, <1>3, <1>4, <1>5, <1>6, <1>7, <1>8 DEF Next, UserStep

(* The manager implements TunerSharing: whatever the mix of requests, a     *)
(* tuner is opened on a channel it carries, joined by who may share it,     *)
(* taken from users who are outranked, and never used after the stop.       *)
THEOREM ManagerImplementsSharing == Spec => ImplementsSharing
<1>1. IInv => TypeOK /\ ActiveTunersServeSomeone
  BY DEF IInv, OwnerInv
<1>2. IInv /\ SerialsAreUnique /\ [Next]_vars => SerialsAreUnique'
  BY <1>1, SerialsStep
<1>3. IInv /\ SerialsAreUnique /\ [Next]_vars => [Sharing!Next]_(Sharing!vars)
  BY StepMaps
<1> QED
  BY <1>2, <1>3, InitMaps, Inductive, PTL DEF Spec, ImplementsSharing, Sharing!Spec

(***************************************************************************)
(* Streaming: the manager with its broadcasters.                           *)
(***************************************************************************)
-----------------------------------------------------------------------------
(* Sessions, calls and stops of the manager.                                *)

(* Users that may still cause a session to be opened.                       *)
Askers == {u \in Users : Waiting(u) /\ \A c \in call : c.user # u}
EnoughNumbers ==
    /\ IsFiniteSet(Askers)
    /\ sessions + Cardinality(Askers) <= asked /\ asked <= MaxRequests

(* The subscription the manager calls about is one it holds.                *)
CallIsCurrent ==
    \A c \in call : \E s \in tuner[c.id.tuner] :
        s.id = c.id.session /\ \E x \in s.subs : x.serial = c.id.serial

(* Two tuners never have a session of the same number, and no id of a       *)
(* stream names a serial number that is still to come.                      *)
SessionsDiffer ==
    \A t1, t2 \in Tuners : \A s1 \in tuner[t1], s2 \in tuner[t2] : s1.id = s2.id => t1 = t2
HandedOut(id) ==
    /\ id.session < sessions
    /\ \A s \in tuner[id.tuner] : s.id = id.session => id.serial < s.next
IdsAreHandedOut ==
    /\ \A c \in call : HandedOut(c.id)
    /\ \A u \in Users : \A id \in got[u] : HandedOut(id)
    /\ \A m \in stops : HandedOut(m.id)

NumbersInv ==
    /\ EnoughNumbers /\ CallIsCurrent /\ SessionsDiffer /\ IdsAreHandedOut
    /\ SerialsAreUnique /\ SessionNumbersAreFresh
ManagerInv == TypeOK /\ OwnerInv /\ NumbersInv

-----------------------------------------------------------------------------
(* Broadcasters.                                                            *)

Serials(s) == {x.serial : x \in s.subs}
Pending(n) == {c.id.serial : c \in {c2 \in call : c2.id.session = n}}
Holds(b, msg) == \E i \in DOMAIN b.mailbox : b.mailbox[i] = msg

(* BindStream comes first, StreamEnded once, while the stream is bound.     *)
Bindings(b, src) ==
    /\ \A i \in DOMAIN b.mailbox : b.mailbox[i] = B!BindStream => i = 1 /\ ~b.stream_bound
    /\ \A i \in DOMAIN b.mailbox : b.mailbox[i] = B!StreamEnded =>
          /\ b.stream_bound /\ src = "ended"
          /\ \A j \in DOMAIN b.mailbox : b.mailbox[j] = B!StreamEnded => i = j
    /\ src = "reading" => b.stream_bound

(* Subscribe is under way only for the call, Unsubscribe only for           *)
(* subscribers the manager has forgotten.                                   *)
Requested(b, s, P) ==
    /\ \A i \in DOMAIN b.mailbox : b.mailbox[i].type = "Subscribe" =>
          /\ b.mailbox[i].serial \in P \ b.subscribers
          /\ \A j \in DOMAIN b.mailbox : b.mailbox[j] = b.mailbox[i] => i = j
    /\ \A i \in DOMAIN b.mailbox : b.mailbox[i].type = "Unsubscribe" =>
          b.mailbox[i].serial < s.next /\ b.mailbox[i].serial \notin Serials(s)

(* The lists of subscribers differ by the messages under way.               *)
SameSubscribers(b, s, P) ==
    /\ \A n \in Serials(s) \ b.subscribers : n \in P /\ Holds(b, B!Subscribe(n))
    /\ \A n \in b.subscribers \ Serials(s) : Holds(b, B!Unsubscribe(n))

(* The broadcaster is not idle: it serves somebody, or is about to.         *)
Busy(b, s, P) ==
    \/ Serials(s) \cap b.subscribers # {}
    \/ \E n \in P : \/ b.stream_bound /\ Len(b.mailbox) >= 1 /\ b.mailbox[1] = B!Subscribe(n)
                    \/ /\ ~b.stream_bound /\ Len(b.mailbox) >= 2
                       /\ b.mailbox[1] = B!BindStream /\ b.mailbox[2] = B!Subscribe(n)

AgreesWith(b, s, P, src) ==
    \/ b = B!Panicked /\ P # {}
    \/ /\ b.phase = "running"
       /\ Bindings(b, src) /\ Requested(b, s, P) /\ SameSubscribers(b, s, P) /\ Busy(b, s, P)

AgreeInv ==
    /\ stopping => shutdown
    /\ ~shutdown =>
          /\ \A t \in Tuners : \A s \in tuner[t] : AgreesWith(bc[s.id], s, Pending(s.id), source[s.id])
          /\ \A n \in SessionIds : n >= sessions => bc[n] = B!Absent /\ source[n] = "none"
StreamInv == ManagerInv /\ StreamTypeOK /\ AgreeInv

-----------------------------------------------------------------------------
(* There is a broadcaster for every session.                                *)

LEMMA FewerAskers ==
    ASSUME TypeOK, EnoughNumbers, Askers' \subseteq Askers, sessions' = sessions, asked' = asked
    PROVE  EnoughNumbers'
<1>1. sessions \in Nat /\ asked \in Nat
  BY DEF TypeOK
<1>2. /\ IsFiniteSet(Askers') /\ Cardinality(Askers') <= Cardinality(Askers)
      /\ Cardinality(Askers) \in Nat /\ Cardinality(Askers') \in Nat
  BY FS_Subset, FS_CardinalityType DEF EnoughNumbers
<1> QED
  BY <1>1, <1>2 DEF EnoughNumbers

LEMMA AskerServed ==
    ASSUME TypeOK, EnoughNumbers, NEW u \in Askers, Askers' \subseteq Askers \ {u},
           sessions' \in {sessions, sessions + 1}, asked' = asked
    PROVE  EnoughNumbers'
<1>1. sessions \in Nat /\ asked \in Nat
  BY DEF TypeOK
<1>2. IsFiniteSet(Askers \ {u}) /\ Cardinality(Askers \ {u}) = Cardinality(Askers) - 1
  BY FS_RemoveElement DEF EnoughNumbers
<1>3. /\ IsFiniteSet(Askers') /\ Cardinality(Askers') <= Cardinality(Askers) - 1
      /\ Cardinality(Askers) \in Nat /\ Cardinality(Askers') \in Nat
  BY <1>2, FS_Subset, FS_CardinalityType DEF EnoughNumbers
<1> QED
  BY <1>1, <1>3 DEF EnoughNumbers

LEMMA AskerAdded ==
    ASSUME TypeOK, EnoughNumbers, NEW u, Askers' \subseteq Askers \cup {u},
           sessions' = sessions, asked' = asked + 1, asked < MaxRequests
    PROVE  EnoughNumbers'
<1>1. sessions \in Nat /\ asked \in Nat /\ MaxRequests \in Nat
  BY ConfigAssumption DEF TypeOK
<1>2. /\ IsFiniteSet(Askers \cup {u}) /\ Cardinality(Askers) \in Nat
      /\ Cardinality(Askers \cup {u}) \in Nat
      /\ Cardinality(Askers \cup {u}) <= Cardinality(Askers) + 1
  BY FS_AddElement, FS_CardinalityType DEF EnoughNumbers
<1>3. /\ IsFiniteSet(Askers') /\ Cardinality(Askers') <= Cardinality(Askers) + 1
      /\ Cardinality(Askers') \in Nat
  BY <1>2, FS_Subset, FS_CardinalityType
<1> QED
  BY <1>1, <1>2, <1>3 DEF EnoughNumbers

LEMMA AskersStep ==
    ASSUME TypeOK, EnoughNumbers, [Next]_vars
    PROVE  EnoughNumbers'
<1>1. CASE \E u \in Users : StartStreaming(u)
  <2>1. PICK u \in Users : Joins(u) \/ Opens(u) \/ Fails(u)
    BY <1>1, StartStreamingCases
  <2>2. u \in Askers /\ call = {}
    BY <2>1 DEF Joins, Opens, Fails, Serves, Askers
  <2>3. CASE Joins(u) \/ Opens(u)
    <3>1. /\ sessions' \in {sessions, sessions + 1}
          /\ UNCHANGED userVars /\ \E c \in call' : c.user = u
      <4>1. sessions' \in {sessions, sessions + 1} /\ \E t, x : Subscribe(t, x, u)
        BY <2>3 DEF Joins, Opens
      <4>2. PICK t, x : Subscribe(t, x, u)
        BY <4>1
      <4>3. UNCHANGED userVars /\ call' = {[user |-> u, id |-> IdOf(t, x)]}
        BY <4>2 DEF Subscribe
      <4> QED
        BY <4>1, <4>3
    <3>2. Askers' \subseteq Askers \ {u}
      BY <2>2, <3>1 DEF Askers, Waiting, userVars
    <3> QED
      BY <2>2, <3>1, <3>2, AskerServed DEF userVars
  <2>4. CASE Fails(u)
    <3>1. /\ sessions' \in {sessions, sessions + 1} /\ call' = call
          /\ req' = [req EXCEPT ![u] = {}] /\ got' = got /\ asked' = asked
      BY <2>4 DEF Fails, Fail, CannotActivate
    <3>2. Askers' \subseteq Askers \ {u}
      BY <2>2, <3>1 DEF Askers, Waiting, TypeOK
    <3> QED
      BY <2>2, <3>1, <3>2, AskerServed
  <2> QED
    BY <2>1, <2>3, <2>4
<1>2. CASE \E u \in Users : RequestStream(u)
  <2>1. PICK u \in Users : /\ asked < MaxRequests /\ asked' = asked + 1
                           /\ UNCHANGED <<managerVars, got>>
                           /\ \E R : req' = [req EXCEPT ![u] = R]
    BY <1>2 DEF RequestStream
  <2>2. Askers' \subseteq Askers \cup {u}
    BY <2>1 DEF Askers, Waiting, TypeOK, managerVars
  <2> QED
    BY <2>1, <2>2, AskerAdded DEF managerVars
<1>3. CASE \E u \in Users : DropStream(u)
  <2>1. PICK u \in Users : /\ UNCHANGED <<managerVars, asked>>
                           /\ got' = [got EXCEPT ![u] = {}] /\ req' = [req EXCEPT ![u] = {}]
    BY <1>3 DEF DropStream
  <2>2. Askers' \subseteq Askers
    BY <2>1 DEF Askers, Waiting, TypeOK, managerVars
  <2> QED
    BY <2>1, <2>2, FewerAskers DEF managerVars
<1>4. CASE SubscribeOk
  <2>1. PICK c \in call :
          /\ call' = {} /\ sessions' = sessions /\ asked' = asked
          /\ got' = [got EXCEPT ![c.user] = IF c.user \in gone THEN {} ELSE {c.id}]
          /\ req' = [req EXCEPT ![c.user] = IF c.user \in gone THEN {} ELSE req[c.user]]
    BY <1>4 DEF SubscribeOk
  <2>2. c.user \in Users /\ \A c2 \in call : c2 = c
    BY DEF TypeOK
  <2>3. Askers' \subseteq Askers
    <3> SUFFICES ASSUME NEW u \in Askers' PROVE u \in Askers
      OBVIOUS
    <3>1. u \in Users /\ req'[u] # {} /\ got'[u] = {}
      BY DEF Askers, Waiting
    <3>2. u # c.user
      BY <2>1, <2>2, <3>1 DEF TypeOK
    <3> QED
      BY <2>1, <2>2, <3>1, <3>2 DEF Askers, Waiting, TypeOK
  <2> QED
    BY <2>1, <2>3, FewerAskers
<1>5. CASE SubscribeFailed
  <2>1. PICK c \in call :
          /\ call' = {} /\ sessions' = sessions /\ asked' = asked
          /\ got' = got /\ req' = [req EXCEPT ![c.user] = {}]
    BY <1>5 DEF SubscribeFailed
  <2>2. c.user \in Users /\ \A c2 \in call : c2 = c
    BY DEF TypeOK
  <2>3. Askers' \subseteq Askers
    BY <2>1, <2>2 DEF Askers, Waiting, TypeOK
  <2> QED
    BY <2>1, <2>3, FewerAskers
<1>6. CASE UNCHANGED <<sessions, call, req, got, asked>>
  <2>1. Askers' \subseteq Askers
    BY <1>6 DEF Askers, Waiting
  <2> QED
    BY <1>6, <2>1, FewerAskers
<1>7. CASE \/ \E u \in Users : CancelRequest(u)
           \/ \E m \in stops : StopStreaming(m)
           \/ Shutdown
           \/ \E u \in Followers, w \in Viewers : SpawnFollower(u, w)
           \/ UNCHANGED vars
  BY <1>6, <1>7 DEF CancelRequest, StopStreaming, Shutdown, SpawnFollower, managerVars, userVars, vars
<1> QED
  BY <1>1, <1>2, <1>3, <1>4, <1>5, <1>7 DEF Next, UserStep

-----------------------------------------------------------------------------
(* The numbers the manager hands out.                                       *)

IsNew(s) == s.id = sessions /\ s.subs = {} /\ s.next = 1

LEMMA Subscribed ==
    ASSUME TypeOK, NEW u \in Users, Joins(u) \/ Opens(u)
    PROVE  \E t \in Tuners, s \in Session :
             /\ call = {} /\ Subscribe(t, s, u)
             /\ \/ s \in tuner[t] /\ sessions' = sessions
                \/ IsNew(s) /\ sessions' = sessions + 1
<1>1. CASE Joins(u)
  <2>1. PICK r \in req[u], t \in Tuners :
          Serves(u, r) /\ sessions' = sessions /\ \E s \in tuner[t] : Subscribe(t, s, u)
    BY <1>1 DEF Joins
  <2>2. PICK s \in tuner[t] : Subscribe(t, s, u)
    BY <2>1
  <2>3. s \in Session
    BY DEF TypeOK
  <2> QED
    BY <2>1, <2>2, <2>3 DEF Serves
<1>2. CASE Opens(u)
  <2>1. PICK r \in req[u], t \in Tuners :
          Serves(u, r) /\ sessions' = sessions + 1 /\ Subscribe(t, NewSession(r.channel), u)
    BY <1>2 DEF Opens
  <2>2. r.channel \in Channels
    BY DEF TypeOK, Request
  <2>3. NewSession(r.channel) \in Session /\ IsNew(NewSession(r.channel))
    BY <2>2, NewSessionType DEF IsNew, NewSession
  <2> QED
    BY <2>1, <2>3 DEF Serves
<1> QED
  BY <1>1, <1>2

(* What Subscribe leaves in the tuner and in the call.                      *)
LEMMA SubscribedState ==
    ASSUME TypeOK, NEW t \in Tuners, NEW s \in Session, NEW u \in Users, Subscribe(t, s, u)
    PROVE  \E s2 \in Session :
             /\ tuner'[t] = {s2} /\ \A t2 \in Tuners \ {t} : tuner'[t2] = tuner[t2]
             /\ s2.id = s.id /\ s2.next = s.next + 1
             /\ s2.subs = s.subs \cup {[serial |-> s.next, user |-> u]}
             /\ call' = {[user |-> u, id |-> [tuner |-> t, session |-> s.id, serial |-> s.next]]}
<1>1. WithSubscriber(s, u) \in Session /\ WithSubscriber(s, u).next = s.next + 1
  BY SubscriberAdded DEF WithSubscriber
<1> QED
  BY <1>1, SubscribeTypes, SubscriberAdded DEF Subscribe, IdOf

LEMMA CallIsCurrentStep ==
    ASSUME TypeOK, CallIsCurrent, [Next]_vars
    PROVE  CallIsCurrent'
<1>1. CASE \E u \in Users : Joins(u) \/ Opens(u)
  <2>1. PICK u \in Users : Joins(u) \/ Opens(u)
    BY <1>1
  <2>2. PICK t \in Tuners, s \in Session : Subscribe(t, s, u)
    BY <2>1, Subscribed
  <2>3. PICK s2 \in Session :
          /\ tuner'[t] = {s2} /\ s2.id = s.id
          /\ s2.subs = s.subs \cup {[serial |-> s.next, user |-> u]}
          /\ call' = {[user |-> u, id |-> [tuner |-> t, session |-> s.id, serial |-> s.next]]}
    BY <2>2, SubscribedState
  <2>4. [serial |-> s.next, user |-> u] \in s2.subs /\ [serial |-> s.next, user |-> u].serial = s.next
    BY <2>3
  <2>5. \A c \in call' : c.id.tuner = t /\ c.id.session = s.id /\ c.id.serial = s.next
    BY <2>3
  <2> QED
    BY <2>3, <2>4, <2>5 DEF CallIsCurrent
<1>2. CASE call' = {}
  BY <1>2 DEF CallIsCurrent
<1>3. CASE call' = call /\ tuner' = tuner
  BY <1>3 DEF CallIsCurrent
<1>4. CASE \E u \in Users : StartStreaming(u)
  BY <1>1, <1>2, <1>4, StartStreamingCases DEF Fails
<1>5. CASE SubscribeOk \/ SubscribeFailed
  BY <1>2, <1>5 DEF SubscribeOk, SubscribeFailed
<1>6. CASE (\E m \in stops : StopStreaming(m)) \/ Shutdown
  BY <1>2, <1>6 DEF StopStreaming, Shutdown
<1>7. CASE \/ \E u \in Users : UserStep(u)
           \/ \E u \in Followers, w \in Viewers : SpawnFollower(u, w)
           \/ UNCHANGED vars
  BY <1>3, <1>7 DEF UserStep, RequestStream, CancelRequest, DropStream, SpawnFollower, managerVars, vars
<1> QED
  BY <1>4, <1>5, <1>6, <1>7 DEF Next

LEMMA SessionsDifferStep ==
    ASSUME TypeOK, SessionsDiffer, SessionNumbersAreFresh, [Next]_vars
    PROVE  SessionsDiffer'
<1>1. CASE \E u \in Users : Joins(u) \/ Opens(u)
  <2>1. PICK u \in Users : Joins(u) \/ Opens(u)
    BY <1>1
  <2>2. PICK t \in Tuners, s \in Session : Subscribe(t, s, u) /\ (s \in tuner[t] \/ s.id = sessions)
    BY <2>1, Subscribed DEF IsNew
  <2>3. PICK s2 \in Session : /\ tuner'[t] = {s2} /\ s2.id = s.id
                              /\ \A t2 \in Tuners \ {t} : tuner'[t2] = tuner[t2]
    BY <2>2, SubscribedState
  <2>4. \A t2 \in Tuners \ {t} : \A s3 \in tuner[t2] : s3.id # s.id
    <3>1. \A t2 \in Tuners : \A s3 \in tuner[t2] : s3.id < sessions /\ s3.id \in Nat /\ sessions \in Nat
      BY DEF SessionNumbersAreFresh, TypeOK, Session
    <3>2. CASE s \in tuner[t]
      BY <3>2 DEF SessionsDiffer
    <3>3. CASE s.id = sessions
      BY <3>1, <3>3
    <3> QED
      BY <2>2, <3>2, <3>3
  <2> QED
    BY <2>3, <2>4 DEF SessionsDiffer
<1>2. CASE Shrinks
  BY <1>2 DEF Shrinks, SessionsDiffer
<1> QED
  BY <1>1, <1>2, OtherStepsShrink

(* Within a session the next serial number only grows.                      *)
LEMMA SerialsGrow ==
    ASSUME TypeOK, ActiveTunersServeSomeone, [Next]_vars
    PROVE  \A t \in Tuners : \A s2 \in tuner'[t] :
              (\E s \in tuner[t] : s2.id = s.id /\ s.next <= s2.next) \/ s2.id = sessions
<1>0. \A t \in Tuners : \A s \in tuner[t] : s.next \in Nat
  BY DEF TypeOK, Session
<1>1. CASE \E u \in Users : Joins(u) \/ Opens(u)
  <2>1. PICK u \in Users : Joins(u) \/ Opens(u)
    BY <1>1
  <2>2. PICK t \in Tuners, s \in Session : Subscribe(t, s, u) /\ (s \in tuner[t] \/ s.id = sessions)
    BY <2>1, Subscribed DEF IsNew
  <2>3. PICK s2 \in Session : /\ tuner'[t] = {s2} /\ s2.id = s.id /\ s2.next = s.next + 1
                              /\ \A t2 \in Tuners \ {t} : tuner'[t2] = tuner[t2]
    BY <2>2, SubscribedState
  <2>4. s.next \in Nat
    BY DEF Session
  <2> QED
    BY <1>0, <2>2, <2>3, <2>4
<1>2. CASE \E m \in stops : StopStreaming(m)
  <2>1. PICK m \in stops : StopStreaming(m)
    BY <1>2
  <2>2. CASE tuner' = tuner
    BY <1>0, <2>2
  <2>3. CASE \E t \in Tuners : \E s \in tuner[t] :
               tuner' = [tuner EXCEPT ![t] = Remaining(Without(s, m.id.serial))]
    <3>1. PICK t \in Tuners : \E s \in tuner[t] :
               tuner' = [tuner EXCEPT ![t] = Remaining(Without(s, m.id.serial))]
      BY <2>3
    <3>2. PICK s \in tuner[t] : tuner' = [tuner EXCEPT ![t] = Remaining(Without(s, m.id.serial))]
      BY <3>1
    <3>3. \A s2 \in Remaining(Without(s, m.id.serial)) : s2.id = s.id /\ s2.next = s.next
      BY DEF Remaining, Without
    <3>4. /\ tuner'[t] = Remaining(Without(s, m.id.serial))
          /\ \A t2 \in Tuners \ {t} : tuner'[t2] = tuner[t2]
      BY <3>2 DEF TypeOK
    <3> QED
      BY <1>0, <3>3, <3>4
  <2> QED
    BY <2>1, <2>2, <2>3, StopCases
<1>3. CASE Releases
  BY <1>0, <1>3 DEF Releases
<1> QED
  BY <1>1, <1>2, <1>3, ReleasingSteps

LEMMA HandedOutStays ==
    ASSUME TypeOK, ActiveTunersServeSomeone, [Next]_vars, NEW id \in SubscriptionId, HandedOut(id)
    PROVE  HandedOut(id)'
<1>1. /\ id.session \in Nat /\ id.serial \in Nat /\ id.tuner \in Tuners
      /\ sessions \in Nat /\ sessions' \in Nat /\ sessions <= sessions'
  BY ChannelsKept DEF TypeOK, SubscriptionId
<1>2. id.session < sessions'
  BY <1>1 DEF HandedOut
<1>3. ASSUME NEW s2 \in tuner'[id.tuner], s2.id = id.session
      PROVE  id.serial < s2.next
  <2>1. s2.id # sessions
    BY <1>1, <1>3 DEF HandedOut
  <2>2. PICK s \in tuner[id.tuner] : s2.id = s.id /\ s.next <= s2.next
    BY <1>1, <2>1, SerialsGrow
  <2>3. id.serial < s.next
    BY <1>3, <2>2 DEF HandedOut
  <2>4. s.next \in Nat
    BY <1>1 DEF TypeOK, Session
  <2>5. s2.next \in Nat
    BY <1>1, NextTypeOK DEF TypeOK, Session
  <2> QED
    BY <1>1, <2>2, <2>3, <2>4, <2>5
<1> QED
  BY <1>2, <1>3 DEF HandedOut

LEMMA IdsStep ==
    ASSUME TypeOK, ActiveTunersServeSomeone, IdsAreHandedOut, SessionNumbersAreFresh, [Next]_vars
    PROVE  IdsAreHandedOut'
<1>1. /\ \A c \in call : c.id \in SubscriptionId /\ HandedOut(c.id)'
      /\ \A u \in Users : \A id \in got[u] : HandedOut(id)'
      /\ \A m \in stops : HandedOut(m.id)'
  BY HandedOutStays DEF IdsAreHandedOut, TypeOK
<1>2. \A c \in call' : HandedOut(c.id)'
  <2>1. CASE call' \subseteq call
    BY <1>1, <2>1
  <2>2. CASE \E u \in Users, t \in Tuners, s \in Session : Subscribe(t, s, u)
    <3>1. PICK u \in Users, t \in Tuners, s \in Session : Subscribe(t, s, u)
      BY <2>2
    <3>2. PICK s2 \in Session :
            /\ tuner'[t] = {s2} /\ s2.id = s.id /\ s2.next = s.next + 1
            /\ call' = {[user |-> u, id |-> [tuner |-> t, session |-> s.id, serial |-> s.next]]}
      BY <3>1, SubscribedState
    <3>3. s.id < sessions'
      BY <3>2, FreshStep DEF SessionNumbersAreFresh
    <3>4. s.next \in Nat
      BY DEF Session
    <3>5. \A c \in call' : c.id.tuner = t /\ c.id.session = s.id /\ c.id.serial = s.next
      BY <3>2
    <3> QED
      BY <3>2, <3>3, <3>4, <3>5 DEF HandedOut
  <2> QED
    BY <2>1, <2>2, CallStep
<1>3. \A u \in Users : \A id \in got'[u] : HandedOut(id)'
  <2> SUFFICES ASSUME NEW u \in Users, NEW id \in got'[u] PROVE HandedOut(id)'
    OBVIOUS
  <2>1. id \in got[u] \/ \E c \in call : id = c.id
    BY StreamStep
  <2> QED
    BY <1>1, <2>1
<1>4. \A m \in stops' : HandedOut(m.id)'
  <2>1. CASE \E u \in Users : DropStream(u)
    <3>1. PICK u \in Users : \E id \in got[u] : stops' = stops \cup {[id |-> id, user |-> u]}
      BY <2>1 DEF DropStream
    <3> QED
      BY <1>1, <3>1
  <2> QED
    BY <1>1, <2>1, StopsStep
<1> QED
  BY <1>2, <1>3, <1>4 DEF IdsAreHandedOut

-----------------------------------------------------------------------------
(* The manager's own invariant.                                             *)

LEMMA NextManagerInv == ManagerInv /\ [Next]_vars => ManagerInv'
<1> SUFFICES ASSUME ManagerInv, [Next]_vars PROVE ManagerInv'
  OBVIOUS
<1>1. TypeOK /\ OwnerInv /\ ActiveTunersServeSomeone
  BY DEF ManagerInv, OwnerInv
<1>2. /\ EnoughNumbers /\ CallIsCurrent /\ SessionsDiffer /\ IdsAreHandedOut
      /\ SerialsAreUnique /\ SessionNumbersAreFresh
  BY DEF ManagerInv, NumbersInv
<1>3. TypeOK' /\ OwnerInv'
  BY <1>1, NextTypeOK, NextOwnerInv
<1>4. EnoughNumbers' /\ CallIsCurrent' /\ SessionsDiffer'
  BY <1>1, <1>2, AskersStep, CallIsCurrentStep, SessionsDifferStep
<1>5. IdsAreHandedOut' /\ SerialsAreUnique' /\ SessionNumbersAreFresh'
  BY <1>1, <1>2, IdsStep, SerialsStep, FreshStep
<1> QED
  BY <1>3, <1>4, <1>5 DEF ManagerInv, NumbersInv

LEMMA QuietManager ==
    ASSUME ManagerInv, UNCHANGED <<managerVars, userVars>>, Emit({}, {})
    PROVE  ManagerInv'
<1> USE DEF managerVars, userVars
<1>1. out' \in [status : SUBSET Tuners, available : SUBSET Tuners]
  BY DEF Emit
<1>2. TypeOK'
  BY <1>1 DEF ManagerInv, TypeOK
<1>3. OwnerInv'
  BY DEF ManagerInv, OwnerInv, ActiveTunersServeSomeone, StoppedManagerHoldsNothing, ServedUsersWait,
         SubscriptionsAreOwned, OwnedBy, Owned, Waiting
<1>4. EnoughNumbers'
  <2>1. Askers' \subseteq Askers
    BY DEF Askers, Waiting
  <2> QED
    BY <2>1, FewerAskers DEF ManagerInv, NumbersInv
<1>5. CallIsCurrent' /\ SessionsDiffer' /\ IdsAreHandedOut'
  BY DEF ManagerInv, NumbersInv, CallIsCurrent, SessionsDiffer, IdsAreHandedOut, HandedOut
<1>6. SerialsAreUnique' /\ SessionNumbersAreFresh'
  BY DEF ManagerInv, NumbersInv, SerialsAreUnique, SessionNumbersAreFresh
<1> QED
  BY <1>2, <1>3, <1>4, <1>5, <1>6 DEF ManagerInv, NumbersInv

LEMMA InitManagerInv == Init => ManagerInv
<1> SUFFICES ASSUME Init PROVE ManagerInv
  OBVIOUS
<1>1. TypeOK /\ OwnerInv /\ SerialsAreUnique
  BY InitTypeOK, InitOwnerInv, InitMaps
<1>2. EnoughNumbers
  <2>1. Askers = {} /\ sessions = 0 /\ asked = 0
    BY DEF Init, Askers, Waiting
  <2> QED
    BY <2>1, FS_EmptySet, ConfigAssumption DEF EnoughNumbers
<1>3. /\ \A t \in Tuners : tuner[t] = {}
      /\ call = {} /\ stops = {} /\ \A u \in Users : got[u] = {}
  BY DEF Init
<1> QED
  BY <1>1, <1>2, <1>3 DEF ManagerInv, NumbersInv, CallIsCurrent, SessionsDiffer, IdsAreHandedOut,
                          SessionNumbersAreFresh

-----------------------------------------------------------------------------
(* Messages sent to a broadcaster and handled by it.                        *)

LEMMA MessageTypes ==
    /\ B!BindStream \in B!Message /\ B!StreamEnded \in B!Message
    /\ \A n \in Nat : B!Subscribe(n) \in B!Message /\ B!Unsubscribe(n) \in B!Message
  BY DEF B!Message, B!BindStream, B!StreamEnded, B!Subscribe, B!Unsubscribe

LEMMA MessagesDiffer ==
    /\ B!BindStream.type = "BindStream" /\ B!StreamEnded.type = "StreamEnded"
    /\ \A n : /\ B!Subscribe(n).type = "Subscribe" /\ B!Subscribe(n).serial = n
              /\ B!Unsubscribe(n).type = "Unsubscribe" /\ B!Unsubscribe(n).serial = n
  BY DEF B!BindStream, B!StreamEnded, B!Subscribe, B!Unsubscribe

LEMMA MessagesAre ==
    ASSUME NEW m \in B!Message
    PROVE  /\ m.type = "BindStream" => m = B!BindStream
           /\ m.type = "StreamEnded" => m = B!StreamEnded
           /\ m.type = "Subscribe" => m = B!Subscribe(m.serial) /\ m.serial \in Nat
           /\ m.type = "Unsubscribe" => m = B!Unsubscribe(m.serial) /\ m.serial \in Nat
           /\ m.type \in {"BindStream", "StreamEnded", "Subscribe", "Unsubscribe"}
  BY DEF B!Message, B!BindStream, B!StreamEnded, B!Subscribe, B!Unsubscribe

(* q2 is q without its first element, q2 is q with m at its end.            *)
IsTailOf(q2, q) ==
    /\ q \in Seq(B!Message) /\ q2 \in Seq(B!Message)
    /\ Len(q) \in Nat /\ Len(q) >= 1 /\ Len(q2) = Len(q) - 1
    /\ DOMAIN q = 1..Len(q) /\ DOMAIN q2 = 1..Len(q2)
    /\ \A i \in DOMAIN q2 : i + 1 \in DOMAIN q /\ q2[i] = q[i + 1]
    /\ \A i \in DOMAIN q : i # 1 => i - 1 \in DOMAIN q2 /\ q[i] = q2[i - 1]
IsLonger(q2, q, m) ==
    /\ q \in Seq(B!Message) /\ q2 \in Seq(B!Message)
    /\ Len(q) \in Nat /\ Len(q2) = Len(q) + 1
    /\ DOMAIN q = 1..Len(q) /\ DOMAIN q2 = 1..Len(q2)
    /\ \A i \in DOMAIN q : q2[i] = q[i]
    /\ q2[Len(q) + 1] = m

LEMMA TailIs ==
    ASSUME NEW q \in Seq(B!Message), q # <<>>
    PROVE  IsTailOf(Tail(q), q) /\ Head(q) = q[1]
<1>1. Len(q) \in Nat /\ DOMAIN q = 1..Len(q) /\ Len(q) # 0
  BY EmptySeq, LenProperties
<1>2. Tail(q) \in Seq(B!Message) /\ Len(Tail(q)) = Len(q) - 1
  BY HeadTailProperties
<1>3. \A i \in 1..(Len(q) - 1) : Tail(q)[i] = q[i + 1]
  BY HeadTailProperties, <1>1, <1>2
<1>4. DOMAIN Tail(q) = 1..(Len(q) - 1)
  BY <1>2, LenProperties
<1>5. Head(q) = q[1]
  BY <1>1
<1> QED
  BY <1>1, <1>2, <1>3, <1>4, <1>5 DEF IsTailOf

LEMMA AppendIs ==
    ASSUME NEW q \in Seq(B!Message), NEW m \in B!Message
    PROVE  IsLonger(Append(q, m), q, m)
<1>1. Len(q) \in Nat /\ DOMAIN q = 1..Len(q)
  BY LenProperties
<1>2. /\ Append(q, m) \in Seq(B!Message) /\ Len(Append(q, m)) = Len(q) + 1
      /\ \A i \in 1..Len(q) : Append(q, m)[i] = q[i]
      /\ Append(q, m)[Len(q) + 1] = m
  BY AppendProperties
<1>3. DOMAIN Append(q, m) = 1..(Len(q) + 1)
  BY <1>2, LenProperties
<1> QED
  BY <1>1, <1>2, <1>3 DEF IsLonger

LEMMA WithMailbox ==
    ASSUME NEW b \in B!Broadcasters, NEW q \in Seq(B!Message)
    PROVE  LET b2 == [b EXCEPT !.mailbox = q] IN
           /\ b2 \in B!Broadcasters
           /\ b2.phase = b.phase /\ b2.stream_bound = b.stream_bound
           /\ b2.subscribers = b.subscribers /\ b2.mailbox = q
  BY DEF B!Broadcasters

LEMMA SentIs ==
    ASSUME NEW b \in B!Broadcasters, NEW m \in B!Message
    PROVE  /\ B!Send(b, m) \in B!Broadcasters
           /\ ~B!Receives(b) => B!Send(b, m) = b
           /\ B!Receives(b) =>
                /\ B!Send(b, m).phase = b.phase
                /\ B!Send(b, m).stream_bound = b.stream_bound
                /\ B!Send(b, m).subscribers = b.subscribers
                /\ IsLonger(B!Send(b, m).mailbox, b.mailbox, m)
<1>1. b.mailbox \in Seq(B!Message)
  BY DEF B!Broadcasters
<1>2. IsLonger(Append(b.mailbox, m), b.mailbox, m)
  BY <1>1, AppendIs
<1>3. Append(b.mailbox, m) \in Seq(B!Message)
  BY <1>2 DEF IsLonger
<1>4. CASE B!Receives(b)
  <2> DEFINE q == Append(b.mailbox, m)
             b2 == [b EXCEPT !.mailbox = q]
  <2>1. B!Send(b, m) = b2
    BY <1>4 DEF B!Send
  <2>2. q \in Seq(B!Message) /\ IsLonger(q, b.mailbox, m)
    BY <1>2, <1>3
  <2> HIDE DEF q
  <2>3. /\ b2 \in B!Broadcasters
        /\ b2.phase = b.phase /\ b2.stream_bound = b.stream_bound
        /\ b2.subscribers = b.subscribers /\ b2.mailbox = q
    BY <2>2, WithMailbox
  <2> HIDE DEF b2
  <2> QED
    BY <1>4, <2>1, <2>2, <2>3
<1>5. CASE ~B!Receives(b)
  BY <1>5 DEF B!Send
<1> QED
  BY <1>4, <1>5

LEMMA BlankType ==
    /\ B!Absent \in B!Broadcasters /\ B!Spawned \in B!Broadcasters
    /\ B!Dummy \in B!Broadcasters /\ B!Panicked \in B!Broadcasters /\ B!Blank("closed") \in B!Broadcasters
<1>1. <<>> \in Seq(B!Message)
  OBVIOUS
<1> QED
  BY <1>1 DEF B!Broadcasters, B!Absent, B!Spawned, B!Dummy, B!Panicked, B!Blank

(* What the handlers make of an actor r.                                    *)
LEMMA HandlersDo ==
    ASSUME NEW r \in B!Broadcasters, NEW n \in Nat
    PROVE  /\ B!OnBindStream(r) \in B!Broadcasters
           /\ ~r.stream_bound =>
                /\ B!OnBindStream(r).phase = r.phase /\ B!OnBindStream(r).stream_bound
                /\ B!OnBindStream(r).subscribers = r.subscribers
                /\ B!OnBindStream(r).mailbox = r.mailbox
           /\ B!OnSubscribe(r, n) \in B!Broadcasters
           /\ r.stream_bound =>
                /\ B!OnSubscribe(r, n).phase = r.phase /\ B!OnSubscribe(r, n).stream_bound
                /\ B!OnSubscribe(r, n).subscribers = r.subscribers \cup {n}
                /\ B!OnSubscribe(r, n).mailbox = r.mailbox
           /\ ~r.stream_bound => B!OnSubscribe(r, n) = B!Panicked
<1> USE DEF B!Broadcasters
<1>1. B!OnBindStream(r) \in B!Broadcasters
  BY BlankType DEF B!OnBindStream
<1>2. ~r.stream_bound =>
         /\ B!OnBindStream(r).phase = r.phase /\ B!OnBindStream(r).stream_bound
         /\ B!OnBindStream(r).subscribers = r.subscribers
         /\ B!OnBindStream(r).mailbox = r.mailbox
  BY DEF B!OnBindStream
<1>3. B!OnSubscribe(r, n) \in B!Broadcasters
  BY BlankType DEF B!OnSubscribe
<1>4. r.stream_bound =>
         /\ B!OnSubscribe(r, n).phase = r.phase /\ B!OnSubscribe(r, n).stream_bound
         /\ B!OnSubscribe(r, n).subscribers = r.subscribers \cup {n}
         /\ B!OnSubscribe(r, n).mailbox = r.mailbox
  BY DEF B!OnSubscribe
<1>5. ~r.stream_bound => B!OnSubscribe(r, n) = B!Panicked
  BY DEF B!OnSubscribe
<1> QED
  BY <1>1, <1>2, <1>3, <1>4, <1>5

(* An actor that still has subscribers does not stop.                       *)
LEMMA OthersDo ==
    ASSUME NEW r \in B!Broadcasters, NEW n \in Nat
    PROVE  /\ B!OnUnsubscribe(r, n) \in B!Broadcasters
           /\ r.subscribers \ {n} # {} =>
                /\ B!OnUnsubscribe(r, n).phase = r.phase
                /\ B!OnUnsubscribe(r, n).stream_bound = r.stream_bound
                /\ B!OnUnsubscribe(r, n).subscribers = r.subscribers \ {n}
                /\ B!OnUnsubscribe(r, n).mailbox = r.mailbox
           /\ B!OnStreamEnded(r) \in B!Broadcasters
           /\ r.subscribers # {} /\ r.stream_bound =>
                /\ B!OnStreamEnded(r).phase = r.phase
                /\ ~B!OnStreamEnded(r).stream_bound
                /\ B!OnStreamEnded(r).subscribers = r.subscribers
                /\ B!OnStreamEnded(r).mailbox = r.mailbox
<1> DEFINE u == [r EXCEPT !.subscribers = @ \ {n}, !.senders = @ \ {n}]
           e == [r EXCEPT !.senders = {}, !.stream_bound = FALSE]
<1>1. /\ u \in B!Broadcasters /\ u.phase = r.phase /\ u.stream_bound = r.stream_bound
      /\ u.subscribers = r.subscribers \ {n} /\ u.mailbox = r.mailbox
  BY DEF B!Broadcasters
<1>2. /\ e \in B!Broadcasters /\ e.phase = r.phase /\ e.stream_bound = FALSE
      /\ e.subscribers = r.subscribers /\ e.mailbox = r.mailbox
  BY DEF B!Broadcasters
<1>3. B!OnUnsubscribe(r, n) = B!StopIfInactive(u)
  BY DEF B!OnUnsubscribe
<1>4. B!OnStreamEnded(r) = IF ~r.stream_bound THEN B!Panicked ELSE B!StopIfInactive(e)
  BY DEF B!OnStreamEnded
<1> HIDE DEF u, e
<1>5. \A x \in B!Broadcasters : /\ B!StopIfInactive(x) \in B!Broadcasters
                                /\ x.subscribers # {} => B!StopIfInactive(x) = x
  BY DEF B!StopIfInactive, B!IsInactive, B!Broadcasters
<1> QED
  BY <1>1, <1>2, <1>3, <1>4, <1>5, BlankType

(* What is left of the mailbox when its first message is handled.           *)
Rest(b) == [b EXCEPT !.mailbox = Tail(@)]

LEMMA RestIs ==
    ASSUME NEW b \in B!Broadcasters, b.mailbox # <<>>
    PROVE  /\ Rest(b) \in B!Broadcasters /\ Rest(b).phase = b.phase
           /\ Rest(b).stream_bound = b.stream_bound /\ Rest(b).subscribers = b.subscribers
           /\ IsTailOf(Rest(b).mailbox, b.mailbox)
           /\ 1 \in DOMAIN b.mailbox /\ Head(b.mailbox) = b.mailbox[1] /\ b.mailbox[1] \in B!Message
<1>1. b.mailbox \in Seq(B!Message)
  BY DEF B!Broadcasters
<1> DEFINE q == Tail(b.mailbox)
<1>2. IsTailOf(q, b.mailbox) /\ Head(b.mailbox) = b.mailbox[1]
  BY <1>1, TailIs
<1>3. q \in Seq(B!Message) /\ 1 \in DOMAIN b.mailbox
  BY <1>2 DEF IsTailOf
<1>4. b.mailbox[1] \in B!Message
  BY <1>1, <1>3, ElementOfSeq, LenProperties
<1>5. Rest(b) = [b EXCEPT !.mailbox = q]
  BY DEF Rest
<1> HIDE DEF q
<1> QED
  BY <1>2, <1>3, <1>4, <1>5, WithMailbox

LEMMA HandleIs ==
    ASSUME NEW b, b.mailbox # <<>>
    PROVE  LET m == Head(b.mailbox) IN
           /\ m.type = "BindStream" => B!Handle(b) = B!OnBindStream(Rest(b))
           /\ m.type = "StreamEnded" => B!Handle(b) = B!OnStreamEnded(Rest(b))
           /\ m.type = "Subscribe" => B!Handle(b) = B!OnSubscribe(Rest(b), m.serial)
           /\ m.type = "Unsubscribe" => B!Handle(b) = B!OnUnsubscribe(Rest(b), m.serial)
  BY DEF B!Handle, Rest

LEMMA HandleType ==
    ASSUME NEW b \in B!Broadcasters, b.mailbox # <<>>
    PROVE  B!Handle(b) \in B!Broadcasters
<1>1. Rest(b) \in B!Broadcasters /\ Head(b.mailbox) \in B!Message
  BY RestIs
<1> DEFINE m == Head(b.mailbox)
<1>2. /\ m.type \in {"BindStream", "StreamEnded", "Subscribe", "Unsubscribe"}
      /\ m.type \in {"Subscribe", "Unsubscribe"} => m.serial \in Nat
  BY <1>1, MessagesAre
<1>3. /\ B!OnBindStream(Rest(b)) \in B!Broadcasters
      /\ \A n \in Nat : B!OnSubscribe(Rest(b), n) \in B!Broadcasters
  BY <1>1, HandlersDo
<1>4. /\ B!OnStreamEnded(Rest(b)) \in B!Broadcasters
      /\ \A n \in Nat : B!OnUnsubscribe(Rest(b), n) \in B!Broadcasters
  BY <1>1, OthersDo
<1>5. /\ m.type = "BindStream" => B!Handle(b) = B!OnBindStream(Rest(b))
      /\ m.type = "StreamEnded" => B!Handle(b) = B!OnStreamEnded(Rest(b))
      /\ m.type = "Subscribe" => B!Handle(b) = B!OnSubscribe(Rest(b), m.serial)
      /\ m.type = "Unsubscribe" => B!Handle(b) = B!OnUnsubscribe(Rest(b), m.serial)
  BY HandleIs
<1> HIDE DEF m
<1> QED
  BY <1>2, <1>3, <1>4, <1>5

-----------------------------------------------------------------------------
(* A broadcaster that handles a message keeps agreeing with its session.    *)

LEMMA PanickedIs ==
    /\ B!Panicked.mailbox = <<>> /\ B!Panicked.subscribers = {}
    /\ B!Panicked.phase = "panicked" /\ ~B!Receives(B!Panicked)
  BY DEF B!Panicked, B!Blank, B!Receives

LEMMA RunningAgrees ==
    ASSUME NEW b, NEW s, NEW P, NEW src, AgreesWith(b, s, P, src), b.mailbox # <<>>
    PROVE  /\ b.phase = "running"
           /\ Bindings(b, src) /\ Requested(b, s, P) /\ SameSubscribers(b, s, P) /\ Busy(b, s, P)
  BY PanickedIs DEF AgreesWith

(* Requests still under way after the first message was handled.            *)
LEMMA RequestsLeft ==
    ASSUME NEW b, NEW b2, NEW s, NEW P, Requested(b, s, P), IsTailOf(b2.mailbox, b.mailbox),
           \A i \in DOMAIN b2.mailbox :
               b2.mailbox[i].type = "Subscribe" /\ b2.mailbox[i].serial \in b2.subscribers
                 => b2.mailbox[i].serial \in b.subscribers
    PROVE  Requested(b2, s, P)
<1>1. \A i \in DOMAIN b2.mailbox : i \in Int /\ i + 1 \in DOMAIN b.mailbox /\ b2.mailbox[i] = b.mailbox[i + 1]
  BY DEF IsTailOf
<1>2. ASSUME NEW i \in DOMAIN b2.mailbox, b2.mailbox[i].type = "Subscribe"
      PROVE  /\ b2.mailbox[i].serial \in P \ b2.subscribers
             /\ \A j \in DOMAIN b2.mailbox : b2.mailbox[j] = b2.mailbox[i] => i = j
  <2>1. /\ b.mailbox[i + 1].serial \in P \ b.subscribers
        /\ \A j \in DOMAIN b.mailbox : b.mailbox[j] = b.mailbox[i + 1] => i + 1 = j
    BY <1>1, <1>2 DEF Requested
  <2>2. b2.mailbox[i].serial \in P \ b2.subscribers
    BY <1>1, <1>2, <2>1
  <2>3. ASSUME NEW j \in DOMAIN b2.mailbox, b2.mailbox[j] = b2.mailbox[i] PROVE i = j
    BY <1>1, <2>1, <2>3
  <2> QED
    BY <2>2, <2>3
<1>3. ASSUME NEW i \in DOMAIN b2.mailbox, b2.mailbox[i].type = "Unsubscribe"
      PROVE  b2.mailbox[i].serial < s.next /\ b2.mailbox[i].serial \notin Serials(s)
  BY <1>1, <1>3 DEF Requested
<1> QED
  BY <1>2, <1>3 DEF Requested

(* A message that is not the first one is still there.                      *)
LEMMA StillHeld ==
    ASSUME NEW b, NEW b2, NEW m, IsTailOf(b2.mailbox, b.mailbox), Holds(b, m), b.mailbox[1] # m
    PROVE  Holds(b2, m)
<1>1. PICK i \in DOMAIN b.mailbox : b.mailbox[i] = m
  BY DEF Holds
<1>2. i - 1 \in DOMAIN b2.mailbox /\ b2.mailbox[i - 1] = m
  BY <1>1 DEF IsTailOf
<1> QED
  BY <1>2 DEF Holds

LEMMA BindAgrees ==
    ASSUME NEW b \in B!Broadcasters, NEW s, NEW P, NEW src, AgreesWith(b, s, P, src),
           b.mailbox # <<>>, Head(b.mailbox) = B!BindStream
    PROVE  AgreesWith(B!Handle(b), s, P, "reading") /\ B!Handle(b).phase # "panicked"
<1> DEFINE b2 == B!Handle(b)
<1>1. /\ b.phase = "running"
      /\ Bindings(b, src) /\ Requested(b, s, P) /\ SameSubscribers(b, s, P) /\ Busy(b, s, P)
  BY RunningAgrees
<1>2. /\ 1 \in DOMAIN b.mailbox /\ b.mailbox[1] = B!BindStream /\ ~b.stream_bound
  BY <1>1, RestIs DEF Bindings
<1>3. /\ b2.phase = "running" /\ b2.stream_bound /\ b2.subscribers = b.subscribers
      /\ IsTailOf(b2.mailbox, b.mailbox)
  <2>1. b2 = B!OnBindStream(Rest(b))
    BY HandleIs, MessagesDiffer
  <2>2. /\ Rest(b) \in B!Broadcasters /\ Rest(b).phase = b.phase
        /\ Rest(b).stream_bound = b.stream_bound /\ Rest(b).subscribers = b.subscribers
        /\ IsTailOf(Rest(b).mailbox, b.mailbox)
    BY RestIs
  <2>3. 0 \in Nat
    OBVIOUS
  <2> QED
    BY <1>1, <1>2, <2>1, <2>2, <2>3, HandlersDo
<1> HIDE DEF b2
<1>4. \A i \in DOMAIN b2.mailbox : /\ i \in Int /\ i >= 1 /\ i + 1 \in DOMAIN b.mailbox
                                   /\ b2.mailbox[i] = b.mailbox[i + 1]
  BY <1>3 DEF IsTailOf
<1>5. Bindings(b2, "reading")
  BY <1>1, <1>2, <1>3, <1>4 DEF Bindings
<1>6. Requested(b2, s, P)
  BY <1>1, <1>3, RequestsLeft
<1>7. \A n : Holds(b, B!Subscribe(n)) => Holds(b2, B!Subscribe(n))
  BY <1>2, <1>3, StillHeld, MessagesDiffer
<1>8. \A n : Holds(b, B!Unsubscribe(n)) => Holds(b2, B!Unsubscribe(n))
  BY <1>2, <1>3, StillHeld, MessagesDiffer
<1>9. SameSubscribers(b2, s, P)
  BY <1>1, <1>3, <1>7, <1>8 DEF SameSubscribers
<1>10. Busy(b2, s, P)
  <2>1. CASE Serials(s) \cap b.subscribers # {}
    BY <1>3, <2>1 DEF Busy
  <2>2. CASE \E n \in P : Len(b.mailbox) >= 2 /\ b.mailbox[2] = B!Subscribe(n)
    <3>1. PICK n \in P : Len(b.mailbox) >= 2 /\ b.mailbox[2] = B!Subscribe(n)
      BY <2>2
    <3>2. Len(b2.mailbox) >= 1 /\ Len(b2.mailbox) \in Nat /\ DOMAIN b2.mailbox = 1..Len(b2.mailbox)
      BY <1>3, <3>1 DEF IsTailOf
    <3>3. 1 \in DOMAIN b2.mailbox /\ 1 + 1 = 2
      BY <3>2
    <3>4. b2.mailbox[1] = b.mailbox[2]
      BY <1>4, <3>3
    <3> QED
      BY <1>3, <3>1, <3>2, <3>4 DEF Busy
  <2> QED
    BY <1>1, <1>2, <2>1, <2>2 DEF Busy
<1> QED
  BY <1>3, <1>5, <1>6, <1>9, <1>10 DEF AgreesWith, b2

LEMMA SubscribeAgrees ==
    ASSUME NEW b \in B!Broadcasters, NEW s, NEW P, NEW src, AgreesWith(b, s, P, src),
           P \subseteq Serials(s), b.mailbox # <<>>, Head(b.mailbox).type = "Subscribe"
    PROVE  AgreesWith(B!Handle(b), s, P, src)
<1> DEFINE b2 == B!Handle(b)
           k == b.mailbox[1].serial
<1>1. /\ b.phase = "running"
      /\ Bindings(b, src) /\ Requested(b, s, P) /\ SameSubscribers(b, s, P) /\ Busy(b, s, P)
  BY RunningAgrees
<1>2. /\ 1 \in DOMAIN b.mailbox /\ b.mailbox[1] = Head(b.mailbox) /\ k \in Nat
      /\ b.mailbox[1] = B!Subscribe(k)
  BY RestIs, MessagesAre
<1>3. /\ k \in P \ b.subscribers
      /\ \A j \in DOMAIN b.mailbox : b.mailbox[j] = b.mailbox[1] => j = 1
  BY <1>1, <1>2 DEF Requested
<1>4. /\ b2 = B!OnSubscribe(Rest(b), k)
      /\ Rest(b) \in B!Broadcasters /\ Rest(b).phase = b.phase
      /\ Rest(b).stream_bound = b.stream_bound /\ Rest(b).subscribers = b.subscribers
      /\ IsTailOf(Rest(b).mailbox, b.mailbox)
  BY <1>2, HandleIs, RestIs
<1> HIDE DEF b2, k
<1>5. CASE ~b.stream_bound
  <2>1. b2 = B!Panicked
    BY <1>2, <1>4, <1>5, HandlersDo
  <2> QED
    BY <1>3, <2>1 DEF AgreesWith, b2
<1>6. CASE b.stream_bound
  <2>1. /\ b2.phase = "running" /\ b2.stream_bound
        /\ b2.subscribers = b.subscribers \cup {k} /\ IsTailOf(b2.mailbox, b.mailbox)
    BY <1>1, <1>2, <1>4, <1>6, HandlersDo
  <2>2. \A i \in DOMAIN b2.mailbox : /\ i \in Int /\ i >= 1 /\ i + 1 \in DOMAIN b.mailbox
                                     /\ b2.mailbox[i] = b.mailbox[i + 1]
    BY <2>1 DEF IsTailOf
  <2>3. Bindings(b2, src)
    <3>1. \A i \in DOMAIN b2.mailbox : b2.mailbox[i] # B!BindStream
      BY <1>1, <2>2 DEF Bindings
    <3>2. ASSUME NEW i \in DOMAIN b2.mailbox, b2.mailbox[i] = B!StreamEnded
          PROVE  src = "ended" /\ \A j \in DOMAIN b2.mailbox : b2.mailbox[j] = B!StreamEnded => i = j
      <4>1. src = "ended" /\ \A j \in DOMAIN b.mailbox : b.mailbox[j] = B!StreamEnded => i + 1 = j
        BY <1>1, <2>2, <3>2 DEF Bindings
      <4>2. ASSUME NEW j \in DOMAIN b2.mailbox, b2.mailbox[j] = B!StreamEnded PROVE i = j
        BY <2>2, <4>1, <4>2
      <4> QED
        BY <4>1, <4>2
    <3> QED
      BY <2>1, <3>1, <3>2 DEF Bindings
  <2>4. Requested(b2, s, P)
    <3>1. ASSUME NEW i \in DOMAIN b2.mailbox, b2.mailbox[i].type = "Subscribe",
                 b2.mailbox[i].serial \in b2.subscribers
          PROVE  b2.mailbox[i].serial \in b.subscribers
      <4>1. i + 1 # 1 /\ i + 1 \in DOMAIN b.mailbox /\ b.mailbox[i + 1] = b2.mailbox[i]
        BY <2>2
      <4>2. b.mailbox[i + 1] # b.mailbox[1]
        BY <1>3, <4>1
      <4>3. b.mailbox[i + 1] \in B!Message
        BY <4>1, ElementOfSeq, LenProperties DEF B!Broadcasters
      <4>4. b2.mailbox[i].serial # k
        BY <1>2, <3>1, <4>1, <4>2, <4>3, MessagesAre
      <4> QED
        BY <2>1, <3>1, <4>4
    <3> QED
      BY <1>1, <2>1, <3>1, RequestsLeft
  <2>5. \A n : n # k /\ Holds(b, B!Subscribe(n)) => Holds(b2, B!Subscribe(n))
    BY <1>2, <2>1, StillHeld, MessagesDiffer
  <2>6. \A n : Holds(b, B!Unsubscribe(n)) => Holds(b2, B!Unsubscribe(n))
    BY <1>2, <2>1, StillHeld, MessagesDiffer
  <2>7. SameSubscribers(b2, s, P)
    BY <1>1, <1>3, <2>1, <2>5, <2>6 DEF SameSubscribers
  <2>8. k \in Serials(s) \cap b2.subscribers
    BY <1>3, <2>1
  <2> QED
    BY <2>1, <2>3, <2>4, <2>7, <2>8 DEF AgreesWith, Busy, b2
<1> QED
  BY <1>5, <1>6

(* Whatever comes first but BindStream and Subscribe finds it serving.      *)
LEMMA ServesSomebody ==
    ASSUME NEW b, NEW s, NEW P, Busy(b, s, P), b.mailbox[1] # B!BindStream,
           b.mailbox[1].type # "Subscribe"
    PROVE  Serials(s) \cap b.subscribers # {}
  BY MessagesDiffer DEF Busy

LEMMA UnsubscribeAgrees ==
    ASSUME NEW b \in B!Broadcasters, NEW s, NEW P, NEW src, AgreesWith(b, s, P, src),
           b.mailbox # <<>>, Head(b.mailbox).type = "Unsubscribe"
    PROVE  AgreesWith(B!Handle(b), s, P, src)
<1> DEFINE b2 == B!Handle(b)
           k == b.mailbox[1].serial
<1>1. /\ b.phase = "running"
      /\ Bindings(b, src) /\ Requested(b, s, P) /\ SameSubscribers(b, s, P) /\ Busy(b, s, P)
  BY RunningAgrees
<1>2. /\ 1 \in DOMAIN b.mailbox /\ b.mailbox[1] = Head(b.mailbox) /\ k \in Nat
      /\ b.mailbox[1] = B!Unsubscribe(k)
  BY RestIs, MessagesAre
<1>3. k \notin Serials(s)
  BY <1>1, <1>2 DEF Requested
<1>4. Serials(s) \cap b.subscribers # {}
  BY <1>1, <1>2, ServesSomebody, MessagesDiffer
<1>5. /\ b2 = B!OnUnsubscribe(Rest(b), k)
      /\ Rest(b) \in B!Broadcasters /\ Rest(b).phase = b.phase
      /\ Rest(b).stream_bound = b.stream_bound /\ Rest(b).subscribers = b.subscribers
      /\ IsTailOf(Rest(b).mailbox, b.mailbox)
  BY <1>2, HandleIs, RestIs
<1> HIDE DEF b2, k
<1>6. b.subscribers \ {k} # {}
  BY <1>3, <1>4
<1>7. /\ b2.phase = "running" /\ b2.stream_bound = b.stream_bound
      /\ b2.subscribers = b.subscribers \ {k} /\ IsTailOf(b2.mailbox, b.mailbox)
  BY <1>1, <1>2, <1>5, <1>6, OthersDo
<1>8. \A i \in DOMAIN b2.mailbox : /\ i \in Int /\ i >= 1 /\ i + 1 \in DOMAIN b.mailbox
                                   /\ b2.mailbox[i] = b.mailbox[i + 1]
  BY <1>7 DEF IsTailOf
<1>9. Bindings(b2, src)
  <2>1. \A i \in DOMAIN b2.mailbox : b2.mailbox[i] # B!BindStream
    BY <1>1, <1>8 DEF Bindings
  <2>2. ASSUME NEW i \in DOMAIN b2.mailbox, b2.mailbox[i] = B!StreamEnded
        PROVE  /\ b2.stream_bound /\ src = "ended"
               /\ \A j \in DOMAIN b2.mailbox : b2.mailbox[j] = B!StreamEnded => i = j
    <3>1. /\ b.stream_bound /\ src = "ended"
          /\ \A j \in DOMAIN b.mailbox : b.mailbox[j] = B!StreamEnded => i + 1 = j
      BY <1>1, <1>8, <2>2 DEF Bindings
    <3>2. ASSUME NEW j \in DOMAIN b2.mailbox, b2.mailbox[j] = B!StreamEnded PROVE i = j
      BY <1>8, <3>1, <3>2
    <3> QED
      BY <1>7, <3>1, <3>2
  <2> QED
    BY <1>1, <1>7, <2>1, <2>2 DEF Bindings
<1>10. Requested(b2, s, P)
  BY <1>1, <1>7, RequestsLeft
<1>11. \A n : Holds(b, B!Subscribe(n)) => Holds(b2, B!Subscribe(n))
  BY <1>2, <1>7, StillHeld, MessagesDiffer
<1>12. \A n : n # k /\ Holds(b, B!Unsubscribe(n)) => Holds(b2, B!Unsubscribe(n))
  BY <1>2, <1>7, StillHeld, MessagesDiffer
<1>13. SameSubscribers(b2, s, P)
  BY <1>1, <1>3, <1>7, <1>11, <1>12 DEF SameSubscribers
<1>14. Serials(s) \cap b2.subscribers # {}
  BY <1>3, <1>4, <1>7
<1> QED
  BY <1>7, <1>9, <1>10, <1>13, <1>14 DEF AgreesWith, Busy, b2

LEMMA StreamEndedAgrees ==
    ASSUME NEW b \in B!Broadcasters, NEW s, NEW P, NEW src, AgreesWith(b, s, P, src),
           b.mailbox # <<>>, Head(b.mailbox) = B!StreamEnded
    PROVE  AgreesWith(B!Handle(b), s, P, src)
<1> DEFINE b2 == B!Handle(b)
<1>1. /\ b.phase = "running"
      /\ Bindings(b, src) /\ Requested(b, s, P) /\ SameSubscribers(b, s, P) /\ Busy(b, s, P)
  BY RunningAgrees
<1>2. 1 \in DOMAIN b.mailbox /\ b.mailbox[1] = B!StreamEnded
  BY RestIs
<1>3. /\ b.stream_bound /\ src = "ended"
      /\ \A j \in DOMAIN b.mailbox : b.mailbox[j] = B!StreamEnded => j = 1
  BY <1>1, <1>2 DEF Bindings
<1>4. Serials(s) \cap b.subscribers # {}
  BY <1>1, <1>2, ServesSomebody, MessagesDiffer
<1>5. /\ b2 = B!OnStreamEnded(Rest(b))
      /\ Rest(b) \in B!Broadcasters /\ Rest(b).phase = b.phase
      /\ Rest(b).stream_bound = b.stream_bound /\ Rest(b).subscribers = b.subscribers
      /\ IsTailOf(Rest(b).mailbox, b.mailbox)
  BY HandleIs, RestIs, MessagesDiffer
<1> HIDE DEF b2
<1>6. /\ b2.phase = "running" /\ ~b2.stream_bound
      /\ b2.subscribers = b.subscribers /\ IsTailOf(b2.mailbox, b.mailbox)
  <2>1. b.subscribers # {} /\ 0 \in Nat
    BY <1>4
  <2> QED
    BY <1>1, <1>3, <1>5, <2>1, OthersDo
<1>7. \A i \in DOMAIN b2.mailbox : /\ i \in Int /\ i >= 1 /\ i + 1 \in DOMAIN b.mailbox
                                   /\ b2.mailbox[i] = b.mailbox[i + 1]
  BY <1>6 DEF IsTailOf
<1>8. Bindings(b2, src)
  <2>1. \A i \in DOMAIN b2.mailbox : b2.mailbox[i] # B!BindStream
    BY <1>1, <1>7 DEF Bindings
  <2>2. \A i \in DOMAIN b2.mailbox : b2.mailbox[i] # B!StreamEnded
    BY <1>3, <1>7
  <2> QED
    BY <1>3, <2>1, <2>2 DEF Bindings
<1>9. Requested(b2, s, P)
  BY <1>1, <1>6, RequestsLeft
<1>10. \A n : /\ Holds(b, B!Subscribe(n)) => Holds(b2, B!Subscribe(n))
              /\ Holds(b, B!Unsubscribe(n)) => Holds(b2, B!Unsubscribe(n))
  BY <1>2, <1>6, StillHeld, MessagesDiffer
<1>11. SameSubscribers(b2, s, P)
  BY <1>1, <1>6, <1>10 DEF SameSubscribers
<1> QED
  BY <1>4, <1>6, <1>8, <1>9, <1>11 DEF AgreesWith, Busy, b2

-----------------------------------------------------------------------------
(* A broadcaster that is sent a message keeps agreeing with its session.    *)

LEMMA KeepsHolding ==
    ASSUME NEW b, NEW b2, NEW m, NEW m2, IsLonger(b2.mailbox, b.mailbox, m2), Holds(b, m)
    PROVE  Holds(b2, m)
<1>1. PICK i \in DOMAIN b.mailbox : b.mailbox[i] = m
  BY DEF Holds
<1>2. i \in DOMAIN b2.mailbox /\ b2.mailbox[i] = m
  BY <1>1 DEF IsLonger
<1> QED
  BY <1>2 DEF Holds

LEMMA HoldsTheLast ==
    ASSUME NEW b, NEW b2, NEW m, IsLonger(b2.mailbox, b.mailbox, m)
    PROVE  Holds(b2, m)
<1>1. Len(b.mailbox) + 1 \in DOMAIN b2.mailbox
  BY DEF IsLonger
<1> QED
  BY <1>1 DEF Holds, IsLonger

(* What is in the longer mailbox.                                           *)
LEMMA LongerHas ==
    ASSUME NEW q2, NEW q, NEW m, IsLonger(q2, q, m)
    PROVE  /\ \A i \in DOMAIN q2 : (i \in DOMAIN q /\ q2[i] = q[i]) \/ (i = Len(q) + 1 /\ q2[i] = m)
           /\ \A i \in DOMAIN q : i \in 1..Len(q)
           /\ Len(q) \in Nat
<1>1. /\ Len(q) \in Nat /\ DOMAIN q = 1..Len(q) /\ DOMAIN q2 = 1..(Len(q) + 1)
      /\ \A i \in DOMAIN q : q2[i] = q[i]
      /\ q2[Len(q) + 1] = m
  BY DEF IsLonger
<1>2. \A i \in 1..(Len(q) + 1) : i \in 1..Len(q) \/ i = Len(q) + 1
  BY <1>1
<1> QED
  BY <1>1, <1>2

LEMMA BusyStays ==
    ASSUME NEW b, NEW b2, NEW s, NEW P, NEW m, IsLonger(b2.mailbox, b.mailbox, m),
           b2.stream_bound = b.stream_bound, b2.subscribers = b.subscribers, Busy(b, s, P)
    PROVE  Busy(b2, s, P)
<1>1. /\ Len(b.mailbox) \in Nat /\ Len(b2.mailbox) = Len(b.mailbox) + 1
      /\ \A i \in 1..Len(b.mailbox) : b2.mailbox[i] = b.mailbox[i]
  BY DEF IsLonger
<1>2. Len(b.mailbox) >= 1 => Len(b2.mailbox) >= 1 /\ b2.mailbox[1] = b.mailbox[1]
  BY <1>1
<1>3. Len(b.mailbox) >= 2 => Len(b2.mailbox) >= 2 /\ b2.mailbox[2] = b.mailbox[2]
  BY <1>1
<1>4. Len(b.mailbox) >= 2 => Len(b.mailbox) >= 1
  BY <1>1
<1> QED
  BY <1>2, <1>3, <1>4 DEF Busy

(* Any message but those the manager counts on.                             *)
LEMMA RequestsStay ==
    ASSUME NEW b, NEW b2, NEW s, NEW P, NEW m, IsLonger(b2.mailbox, b.mailbox, m),
           b2.subscribers = b.subscribers, Requested(b, s, P), m.type # "Subscribe",
           m.type = "Unsubscribe" => m.serial < s.next /\ m.serial \notin Serials(s)
    PROVE  Requested(b2, s, P)
<1>1. /\ \A i \in DOMAIN b2.mailbox :
           (i \in DOMAIN b.mailbox /\ b2.mailbox[i] = b.mailbox[i])
             \/ (i = Len(b.mailbox) + 1 /\ b2.mailbox[i] = m)
  BY LongerHas
<1>2. ASSUME NEW i \in DOMAIN b2.mailbox, b2.mailbox[i].type = "Subscribe"
      PROVE  /\ b2.mailbox[i].serial \in P \ b2.subscribers
             /\ \A j \in DOMAIN b2.mailbox : b2.mailbox[j] = b2.mailbox[i] => i = j
  <2>1. i \in DOMAIN b.mailbox /\ b2.mailbox[i] = b.mailbox[i]
    BY <1>1, <1>2
  <2>2. /\ b.mailbox[i].serial \in P \ b.subscribers
        /\ \A j \in DOMAIN b.mailbox : b.mailbox[j] = b.mailbox[i] => i = j
    BY <1>2, <2>1 DEF Requested
  <2>3. ASSUME NEW j \in DOMAIN b2.mailbox, b2.mailbox[j] = b2.mailbox[i] PROVE i = j
    <3>1. j \in DOMAIN b.mailbox /\ b2.mailbox[j] = b.mailbox[j]
      BY <1>1, <1>2, <2>3
    <3> QED
      BY <2>1, <2>2, <2>3, <3>1
  <2> QED
    BY <2>1, <2>2, <2>3
<1>3. ASSUME NEW i \in DOMAIN b2.mailbox, b2.mailbox[i].type = "Unsubscribe"
      PROVE  b2.mailbox[i].serial < s.next /\ b2.mailbox[i].serial \notin Serials(s)
  BY <1>1, <1>3 DEF Requested
<1> QED
  BY <1>2, <1>3 DEF Requested

LEMMA BindingsStay ==
    ASSUME NEW b, NEW b2, NEW src, NEW m, IsLonger(b2.mailbox, b.mailbox, m),
           b2.stream_bound = b.stream_bound, Bindings(b, src),
           m.type \in {"Subscribe", "Unsubscribe"}
    PROVE  Bindings(b2, src)
<1>1. \A i \in DOMAIN b2.mailbox : b2.mailbox[i] \in {B!BindStream, B!StreamEnded}
          => i \in DOMAIN b.mailbox /\ b2.mailbox[i] = b.mailbox[i]
  BY LongerHas, MessagesDiffer
<1>2. \A i \in DOMAIN b2.mailbox : b2.mailbox[i] = B!BindStream => i = 1 /\ ~b2.stream_bound
  BY <1>1 DEF Bindings
<1>3. ASSUME NEW i \in DOMAIN b2.mailbox, b2.mailbox[i] = B!StreamEnded
      PROVE  /\ b2.stream_bound /\ src = "ended"
             /\ \A j \in DOMAIN b2.mailbox : b2.mailbox[j] = B!StreamEnded => i = j
  BY <1>1, <1>3 DEF Bindings
<1> QED
  BY <1>2, <1>3 DEF Bindings

(* The source ended.                                                        *)
LEMMA EndSentAgrees ==
    ASSUME NEW b \in B!Broadcasters, NEW s, NEW P, AgreesWith(b, s, P, "reading")
    PROVE  AgreesWith(B!Send(b, B!StreamEnded), s, P, "ended")
<1> DEFINE b2 == B!Send(b, B!StreamEnded)
<1>1. CASE b = B!Panicked /\ P # {}
  BY <1>1, SentIs, MessageTypes, PanickedIs DEF AgreesWith
<1>2. CASE /\ b.phase = "running"
           /\ Bindings(b, "reading") /\ Requested(b, s, P) /\ SameSubscribers(b, s, P) /\ Busy(b, s, P)
  <2>1. /\ b2.phase = "running" /\ b2.stream_bound = b.stream_bound
        /\ b2.subscribers = b.subscribers /\ IsLonger(b2.mailbox, b.mailbox, B!StreamEnded)
    BY <1>2, SentIs, MessageTypes DEF B!Receives
  <2> HIDE DEF b2
  <2>2. b.stream_bound /\ \A i \in DOMAIN b.mailbox : b.mailbox[i] # B!StreamEnded /\ b.mailbox[i] # B!BindStream
    BY <1>2 DEF Bindings
  <2>3. \A i \in DOMAIN b2.mailbox :
           (i \in DOMAIN b.mailbox /\ b2.mailbox[i] = b.mailbox[i])
             \/ (i = Len(b.mailbox) + 1 /\ b2.mailbox[i] = B!StreamEnded)
    BY <2>1, LongerHas
  <2>4. Bindings(b2, "ended")
    BY <2>1, <2>2, <2>3, MessagesDiffer DEF Bindings
  <2>5. Requested(b2, s, P)
    BY <1>2, <2>1, RequestsStay, MessagesDiffer
  <2>6. SameSubscribers(b2, s, P)
    BY <1>2, <2>1, KeepsHolding DEF SameSubscribers
  <2>7. Busy(b2, s, P)
    BY <1>2, <2>1, BusyStays
  <2> QED
    BY <2>1, <2>4, <2>5, <2>6, <2>7 DEF AgreesWith, b2
<1> QED
  BY <1>1, <1>2 DEF AgreesWith

(* What the manager does to its session while nobody is being subscribed.   *)
LEMMA Settled ==
    ASSUME NEW b, NEW s, NEW src, AgreesWith(b, s, {}, src)
    PROVE  /\ b.phase = "running" /\ Bindings(b, src)
           /\ \A i \in DOMAIN b.mailbox : b.mailbox[i].type # "Subscribe"
           /\ \A i \in DOMAIN b.mailbox : b.mailbox[i].type = "Unsubscribe" =>
                b.mailbox[i].serial < s.next /\ b.mailbox[i].serial \notin Serials(s)
           /\ Serials(s) \subseteq b.subscribers
           /\ \A n \in b.subscribers \ Serials(s) : Holds(b, B!Unsubscribe(n))
           /\ Serials(s) \cap b.subscribers # {}
<1>1. b.phase = "running" /\ Bindings(b, src)
  BY DEF AgreesWith
<1>2. /\ \A i \in DOMAIN b.mailbox : b.mailbox[i].type # "Subscribe"
      /\ \A i \in DOMAIN b.mailbox : b.mailbox[i].type = "Unsubscribe" =>
            b.mailbox[i].serial < s.next /\ b.mailbox[i].serial \notin Serials(s)
  BY DEF AgreesWith, Requested
<1>3. /\ Serials(s) \subseteq b.subscribers
      /\ \A n \in b.subscribers \ Serials(s) : Holds(b, B!Unsubscribe(n))
  BY DEF AgreesWith, SameSubscribers
<1>4. Serials(s) \cap b.subscribers # {}
  BY DEF AgreesWith, Busy
<1> QED
  BY <1>1, <1>2, <1>3, <1>4

(* A user joins the session.                                                *)
LEMMA SubscribeSentAgrees ==
    ASSUME NEW b \in B!Broadcasters, NEW s, NEW s2, NEW src, NEW n \in Nat, AgreesWith(b, s, {}, src),
           s.next = n, s2.next = n + 1, Serials(s2) = Serials(s) \cup {n},
           \A k \in Serials(s) : k < n
    PROVE  AgreesWith(B!Send(b, B!Subscribe(n)), s2, {n}, src)
<1> DEFINE m == B!Subscribe(n)
           b2 == B!Send(b, m)
<1>0. m \in B!Message /\ m.type = "Subscribe" /\ m.serial = n
  BY MessageTypes, MessagesDiffer
<1> HIDE DEF m
<1>1. /\ b.phase = "running" /\ Bindings(b, src)
      /\ \A i \in DOMAIN b.mailbox : b.mailbox[i].type # "Subscribe"
      /\ \A i \in DOMAIN b.mailbox : b.mailbox[i].type = "Unsubscribe" =>
            b.mailbox[i].serial < n /\ b.mailbox[i].serial \notin Serials(s)
      /\ Serials(s) \subseteq b.subscribers
      /\ \A k \in b.subscribers \ Serials(s) : Holds(b, B!Unsubscribe(k))
      /\ Serials(s) \cap b.subscribers # {}
  BY Settled
<1>2. /\ b2.phase = "running" /\ b2.stream_bound = b.stream_bound
      /\ b2.subscribers = b.subscribers /\ IsLonger(b2.mailbox, b.mailbox, m)
  BY <1>0, <1>1, SentIs DEF B!Receives
<1> HIDE DEF b2
<1>3. /\ \A i \in DOMAIN b2.mailbox :
           (i \in DOMAIN b.mailbox /\ b2.mailbox[i] = b.mailbox[i])
             \/ (i = Len(b.mailbox) + 1 /\ b2.mailbox[i] = m)
  BY <1>2, LongerHas
<1>4. n \notin b.subscribers
  <2> SUFFICES ASSUME n \in b.subscribers PROVE FALSE
    OBVIOUS
  <2>1. n \notin Serials(s)
    OBVIOUS
  <2>2. PICK i \in DOMAIN b.mailbox : b.mailbox[i] = B!Unsubscribe(n)
    BY <1>1, <2>1 DEF Holds
  <2>3. n < n
    BY <1>1, <2>2, MessagesDiffer
  <2> QED
    BY <2>3
<1>5. Bindings(b2, src)
  BY <1>0, <1>1, <1>2, BindingsStay
<1>6. Requested(b2, s2, {n})
  <2>1. ASSUME NEW i \in DOMAIN b2.mailbox, b2.mailbox[i].type = "Subscribe"
        PROVE  /\ b2.mailbox[i].serial \in {n} \ b2.subscribers
               /\ \A j \in DOMAIN b2.mailbox : b2.mailbox[j] = b2.mailbox[i] => i = j
    <3>1. i = Len(b.mailbox) + 1 /\ b2.mailbox[i] = m
      BY <1>1, <1>3, <2>1
    <3>2. ASSUME NEW j \in DOMAIN b2.mailbox, b2.mailbox[j] = b2.mailbox[i] PROVE i = j
      BY <1>1, <1>3, <2>1, <3>1, <3>2
    <3> QED
      BY <1>0, <1>2, <1>4, <3>1, <3>2
  <2>2. ASSUME NEW i \in DOMAIN b2.mailbox, b2.mailbox[i].type = "Unsubscribe"
        PROVE  b2.mailbox[i].serial < s2.next /\ b2.mailbox[i].serial \notin Serials(s2)
    <3>1. i \in DOMAIN b.mailbox /\ b2.mailbox[i] = b.mailbox[i]
      BY <1>0, <1>3, <2>2
    <3>2. b.mailbox[i].serial < n /\ b.mailbox[i].serial \notin Serials(s)
      BY <1>1, <2>2, <3>1
    <3>3. b.mailbox[i].serial \in Nat
      <4>1. b.mailbox[i] \in B!Message
        BY <3>1, ElementOfSeq, LenProperties DEF B!Broadcasters
      <4> QED
        BY <2>2, <3>1, <4>1, MessagesAre
    <3> QED
      BY <3>1, <3>2, <3>3
  <2> QED
    BY <2>1, <2>2 DEF Requested
<1>7. SameSubscribers(b2, s2, {n})
  <2>1. Holds(b2, m)
    BY <1>2, HoldsTheLast
  <2>2. \A k \in b2.subscribers \ Serials(s2) : Holds(b2, B!Unsubscribe(k))
    BY <1>1, <1>2, KeepsHolding
  <2>3. \A k \in Serials(s2) \ b2.subscribers : k = n
    BY <1>1, <1>2
  <2> QED
    BY <2>1, <2>2, <2>3 DEF SameSubscribers, m
<1>8. Serials(s2) \cap b2.subscribers # {}
  BY <1>1, <1>2
<1> QED
  BY <1>2, <1>5, <1>6, <1>7, <1>8 DEF AgreesWith, Busy, b2, m

(* The session of a new tuner process.                                      *)
LEMMA OpenedAgrees ==
    ASSUME NEW s2, s2.next = 2, Serials(s2) = {1}
    PROVE  AgreesWith(B!Send(B!Send(B!Spawned, B!BindStream), B!Subscribe(1)), s2, {1}, "none")
<1> DEFINE b0 == B!Spawned
           b1 == B!Send(b0, B!BindStream)
           m == B!Subscribe(1)
           b2 == B!Send(b1, m)
<1>1. /\ b0 \in B!Broadcasters /\ b0.phase = "running" /\ ~b0.stream_bound /\ b0.subscribers = {}
      /\ b0.mailbox = <<>>
  BY BlankType DEF B!Spawned, B!Blank
<1>2. B!BindStream \in B!Message /\ m \in B!Message /\ m.type = "Subscribe" /\ m.serial = 1
  BY MessageTypes, MessagesDiffer
<1> HIDE DEF b0, m
<1>3. /\ b1 \in B!Broadcasters /\ b1.phase = "running" /\ ~b1.stream_bound /\ b1.subscribers = {}
      /\ IsLonger(b1.mailbox, <<>>, B!BindStream)
  BY <1>1, <1>2, SentIs DEF B!Receives
<1> HIDE DEF b1
<1>4. /\ b2.phase = "running" /\ ~b2.stream_bound /\ b2.subscribers = {}
      /\ IsLonger(b2.mailbox, b1.mailbox, m)
  BY <1>2, <1>3, SentIs DEF B!Receives
<1> HIDE DEF b2
<1>5. Len(b1.mailbox) = 1 /\ b1.mailbox[1] = B!BindStream
  BY <1>3 DEF IsLonger
<1>6. /\ Len(b2.mailbox) = 2 /\ DOMAIN b2.mailbox = 1..2
      /\ b2.mailbox[1] = B!BindStream /\ b2.mailbox[2] = m
  <2>1. /\ DOMAIN b1.mailbox = 1..1 /\ \A i \in DOMAIN b1.mailbox : b2.mailbox[i] = b1.mailbox[i]
        /\ Len(b2.mailbox) = 1 + 1 /\ DOMAIN b2.mailbox = 1..(1 + 1) /\ b2.mailbox[1 + 1] = m
    BY <1>4, <1>5 DEF IsLonger
  <2> QED
    BY <1>5, <2>1
<1>7. Bindings(b2, "none")
  BY <1>2, <1>4, <1>6, MessagesDiffer DEF Bindings
<1>8. Requested(b2, s2, {1})
  BY <1>2, <1>4, <1>6, MessagesDiffer DEF Requested
<1>9. SameSubscribers(b2, s2, {1})
  <2>1. Holds(b2, m)
    BY <1>6 DEF Holds
  <2> QED
    BY <1>4, <2>1 DEF SameSubscribers, m
<1>10. Busy(b2, s2, {1})
  BY <1>4, <1>6 DEF Busy, m
<1> QED
  BY <1>4, <1>7, <1>8, <1>9, <1>10 DEF AgreesWith, b0, b1, b2, m

(* A user that is not the last one stops.                                   *)
LEMMA UnsubscribeSentAgrees ==
    ASSUME NEW b \in B!Broadcasters, NEW s, NEW s2, NEW src, NEW n \in Nat, AgreesWith(b, s, {}, src),
           n < s.next, s2.next = s.next, Serials(s2) = Serials(s) \ {n}, Serials(s2) # {}
    PROVE  AgreesWith(B!Send(b, B!Unsubscribe(n)), s2, {}, src)
<1> DEFINE m == B!Unsubscribe(n)
           b2 == B!Send(b, m)
<1>0. m \in B!Message /\ m.type = "Unsubscribe" /\ m.serial = n
  BY MessageTypes, MessagesDiffer
<1> HIDE DEF m
<1>1. /\ b.phase = "running" /\ Bindings(b, src)
      /\ \A i \in DOMAIN b.mailbox : b.mailbox[i].type # "Subscribe"
      /\ \A i \in DOMAIN b.mailbox : b.mailbox[i].type = "Unsubscribe" =>
            b.mailbox[i].serial < s.next /\ b.mailbox[i].serial \notin Serials(s)
      /\ Serials(s) \subseteq b.subscribers
      /\ \A k \in b.subscribers \ Serials(s) : Holds(b, B!Unsubscribe(k))
      /\ Serials(s) \cap b.subscribers # {}
  BY Settled
<1>2. /\ b2.phase = "running" /\ b2.stream_bound = b.stream_bound
      /\ b2.subscribers = b.subscribers /\ IsLonger(b2.mailbox, b.mailbox, m)
  BY <1>0, <1>1, SentIs DEF B!Receives
<1> HIDE DEF b2
<1>3. Bindings(b2, src)
  BY <1>0, <1>1, <1>2, BindingsStay
<1>4. Requested(b, s2, {})
  BY <1>1 DEF Requested
<1>5. Requested(b2, s2, {})
  BY <1>0, <1>2, <1>4, RequestsStay
<1>6. SameSubscribers(b2, s2, {})
  <2>1. Holds(b2, B!Unsubscribe(n))
    BY <1>2, HoldsTheLast DEF m
  <2>2. \A k \in b2.subscribers \ Serials(s2) : Holds(b2, B!Unsubscribe(k))
    BY <1>1, <1>2, <2>1, KeepsHolding
  <2>3. Serials(s2) \subseteq b2.subscribers
    BY <1>1, <1>2
  <2> QED
    BY <2>2, <2>3 DEF SameSubscribers
<1>7. Serials(s2) \cap b2.subscribers # {}
  BY <1>1, <1>2
<1> QED
  BY <1>2, <1>3, <1>5, <1>6, <1>7 DEF AgreesWith, Busy, b2, m

(* The broadcaster replied.                                                 *)
LEMMA RepliedAgrees ==
    ASSUME NEW b, NEW s, NEW src, NEW n \in Serials(s) \cap b.subscribers,
           AgreesWith(b, s, {n}, src)
    PROVE  AgreesWith(b, s, {}, src)
<1>1. /\ b.phase = "running" /\ Bindings(b, src)
      /\ Requested(b, s, {n}) /\ SameSubscribers(b, s, {n})
  BY PanickedIs DEF AgreesWith
<1>2. Requested(b, s, {})
  BY <1>1 DEF Requested
<1>3. SameSubscribers(b, s, {})
  BY <1>1 DEF SameSubscribers
<1> QED
  BY <1>1, <1>2, <1>3 DEF AgreesWith, Busy

-----------------------------------------------------------------------------
(* The steps of the composition are steps of the manager, or leave it alone.*)

StreamTypes ==
    /\ bc \in [SessionIds -> B!Broadcasters]
    /\ source \in [SessionIds -> {"none", "reading", "ended"}]
    /\ shutdown \in BOOLEAN

LEMMA ManagerSteps ==
    ASSUME [StreamNext]_allVars
    PROVE  \/ [Next]_vars
           \/ UNCHANGED <<managerVars, userVars>> /\ Emit({}, {})
<1>1. CASE Manager
  BY <1>1 DEF Manager, HandleStartStreaming, SubscribeReplied, SubscribeLost, HandleStopStreaming,
              StopManager, Next
<1>2. CASE \E n \in SessionIds :
             BroadcasterStep(n) \/ SourceEnds(n) \/ CloseBroadcaster(n) \/ StopBroadcaster(n)
  BY <1>2 DEF BroadcasterStep, SourceEnds, CloseBroadcaster, StopBroadcaster
<1>3. CASE \E u \in Users : UserActs(u)
  BY <1>3 DEF UserActs, Next
<1>4. CASE Follow
  BY <1>4 DEF Follow, Next
<1>5. CASE SystemShutdown
  BY <1>5 DEF SystemShutdown
<1>6. CASE UNCHANGED allVars
  BY <1>6 DEF allVars
<1> QED
  BY <1>1, <1>2, <1>3, <1>4, <1>5, <1>6 DEF StreamNext

LEMMA ManagerInvKept == ManagerInv /\ [StreamNext]_allVars => ManagerInv'
  BY ManagerSteps, NextManagerInv, QuietManager

LEMMA SessionsHaveBroadcasters ==
    ASSUME ManagerInv
    PROVE  /\ sessions \in Nat /\ sessions <= MaxRequests
           /\ \A t \in Tuners : \A s \in tuner[t] :
                s \in Session /\ s.id < sessions /\ s.id \in SessionIds
<1>1. /\ sessions \in Nat /\ asked \in Nat /\ MaxRequests \in Nat
      /\ \A t \in Tuners : tuner[t] \subseteq Session
  BY ConfigAssumption DEF ManagerInv, TypeOK
<1>2. Cardinality(Askers) \in Nat
  BY FS_CardinalityType DEF ManagerInv, NumbersInv, EnoughNumbers
<1>3. sessions <= MaxRequests
  BY <1>1, <1>2 DEF ManagerInv, NumbersInv, EnoughNumbers
<1>4. \A t \in Tuners : \A s \in tuner[t] : s \in Session /\ s.id \in Nat /\ s.id < sessions
  BY <1>1 DEF ManagerInv, NumbersInv, SessionNumbersAreFresh, Session
<1> QED
  BY <1>1, <1>3, <1>4 DEF SessionIds

-----------------------------------------------------------------------------
(* Types.                                                                   *)

LEMMA OpenedType ==
    ASSUME bc \in [SessionIds -> B!Broadcasters], NEW n \in SessionIds
    PROVE  Opened(n) \in B!Broadcasters
<1>1. bc[n] \in B!Broadcasters
  OBVIOUS
<1>2. B!Send(B!Spawned, B!BindStream) \in B!Broadcasters
  BY BlankType, SentIs, MessageTypes
<1> QED
  BY <1>1, <1>2, BlankType DEF Opened

LEMMA StartTypes ==
    ASSUME StreamTypes, TypeOK', HandleStartStreaming
    PROVE  StreamTypes'
<1> DEFINE m == B!Subscribe((CHOOSE c \in call' : TRUE).id.serial)
<1>1. bc' = [n \in SessionIds |->
               IF \E c \in call' : c.id.session = n THEN B!Send(Opened(n), m) ELSE bc[n]]
  BY DEF HandleStartStreaming
<1>2. (\E c \in call' : TRUE) => m \in B!Message
  <2>1. \A c \in call' : c.id.serial \in Nat
    BY DEF TypeOK, SubscriptionId
  <2> QED
    BY <2>1, MessageTypes
<1> HIDE DEF m
<1>3. ASSUME NEW n \in SessionIds, NEW c \in call'
      PROVE  B!Send(Opened(n), m) \in B!Broadcasters
  BY <1>2, <1>3, OpenedType, SentIs DEF StreamTypes
<1>4. bc' \in [SessionIds -> B!Broadcasters]
  BY <1>1, <1>3 DEF StreamTypes
<1> QED
  BY <1>4 DEF HandleStartStreaming, StreamTypes

LEMMA StopTypes ==
    ASSUME TypeOK, StreamTypes, HandleStopStreaming
    PROVE  StreamTypes'
<1>1. PICK m \in stops :
          bc' = bc \/ bc' = [bc EXCEPT ![m.id.session] = B!Send(@, B!Unsubscribe(m.id.serial))]
  BY DEF HandleStopStreaming
<1>2. B!Unsubscribe(m.id.serial) \in B!Message
  BY MessageTypes DEF TypeOK, SubscriptionId
<1>3. \A n \in SessionIds : B!Send(bc[n], B!Unsubscribe(m.id.serial)) \in B!Broadcasters
  BY <1>2, SentIs DEF StreamTypes
<1>4. bc' \in [SessionIds -> B!Broadcasters]
  BY <1>1, <1>3 DEF StreamTypes
<1> QED
  BY <1>4 DEF HandleStopStreaming, StreamTypes

LEMMA BroadcasterTypes ==
    ASSUME StreamTypes, NEW n \in SessionIds,
           BroadcasterStep(n) \/ SourceEnds(n) \/ CloseBroadcaster(n) \/ StopBroadcaster(n)
    PROVE  StreamTypes'
<1>0. bc[n] \in B!Broadcasters
  BY DEF StreamTypes
<1>1. CASE BroadcasterStep(n)
  <2>1. bc' = [bc EXCEPT ![n] = B!Handle(bc[n])] /\ bc[n].mailbox # <<>>
    BY <1>1 DEF BroadcasterStep
  <2>2. bc' \in [SessionIds -> B!Broadcasters]
    BY <1>0, <2>1, HandleType DEF StreamTypes
  <2>3. source' \in [SessionIds -> {"none", "reading", "ended"}] /\ shutdown' = shutdown
    BY <1>1 DEF BroadcasterStep, StreamTypes
  <2> QED
    BY <2>2, <2>3 DEF StreamTypes
<1>2. CASE SourceEnds(n)
  <2>1. bc' = [bc EXCEPT ![n] = B!Send(bc[n], B!StreamEnded)]
    BY <1>2 DEF SourceEnds
  <2>2. bc' \in [SessionIds -> B!Broadcasters]
    BY <1>0, <2>1, SentIs, MessageTypes DEF StreamTypes
  <2>3. source' \in [SessionIds -> {"none", "reading", "ended"}] /\ shutdown' = shutdown
    BY <1>2 DEF SourceEnds, StreamTypes
  <2> QED
    BY <2>2, <2>3 DEF StreamTypes
<1>3. CASE CloseBroadcaster(n)
  <2>1. bc' \in [SessionIds -> B!Broadcasters]
    BY <1>3, BlankType DEF CloseBroadcaster, StreamTypes
  <2> QED
    BY <1>3, <2>1 DEF CloseBroadcaster, StreamTypes
<1>4. CASE StopBroadcaster(n)
  <2>1. bc' = [bc EXCEPT ![n] = [bc[n] EXCEPT !.phase = "stopping"]]
    BY <1>4 DEF StopBroadcaster
  <2>2. [bc[n] EXCEPT !.phase = "stopping"] \in B!Broadcasters
    BY <1>0 DEF B!Broadcasters
  <2>3. bc' \in [SessionIds -> B!Broadcasters]
    BY <2>1, <2>2 DEF StreamTypes
  <2> QED
    BY <1>4, <2>3 DEF StopBroadcaster, StreamTypes
<1> QED
  BY <1>1, <1>2, <1>3, <1>4

LEMMA StreamTypesKept ==
    ASSUME ManagerInv, StreamTypes, [StreamNext]_allVars
    PROVE  StreamTypes'
<1>1. TypeOK /\ TypeOK'
  BY ManagerInvKept DEF ManagerInv
<1>2. CASE UNCHANGED streamVars
  BY <1>2 DEF streamVars, StreamTypes
<1>3. CASE HandleStartStreaming
  BY <1>1, <1>3, StartTypes
<1>4. CASE HandleStopStreaming
  BY <1>1, <1>4, StopTypes
<1>5. CASE \E n \in SessionIds :
             BroadcasterStep(n) \/ SourceEnds(n) \/ CloseBroadcaster(n) \/ StopBroadcaster(n)
  BY <1>5, BroadcasterTypes
<1>6. CASE SystemShutdown
  BY <1>6 DEF SystemShutdown, StreamTypes
<1>7. CASE \/ SubscribeReplied \/ SubscribeLost \/ StopManager \/ Follow
           \/ (\E u \in Users : UserActs(u)) \/ UNCHANGED allVars
  BY <1>2, <1>7 DEF SubscribeReplied, SubscribeLost, StopManager, Follow, UserActs, allVars
<1> QED
  BY <1>3, <1>4, <1>5, <1>6, <1>7 DEF StreamNext, Manager

-----------------------------------------------------------------------------
(* Every step keeps the sessions and their broadcasters in agreement.       *)

(* Sessions may end.                                                        *)
LEMMA QuietBroadcasters ==
    ASSUME ManagerInv, AgreeInv, sessions' \in Nat, sessions <= sessions',
           stopping' = stopping, shutdown' = shutdown,
           \A n \in SessionIds : bc'[n] = bc[n] /\ source'[n] = source[n],
           \A t \in Tuners : \A s \in tuner'[t] : s \in tuner[t] /\ Pending(s.id)' = Pending(s.id)
    PROVE  AgreeInv'
<1>1. sessions \in Nat /\ \A t \in Tuners : \A s \in tuner[t] : s.id \in SessionIds
  BY SessionsHaveBroadcasters
<1>2. stopping' => shutdown'
  BY DEF AgreeInv
<1>3. ASSUME ~shutdown', NEW t \in Tuners, NEW s \in tuner'[t]
      PROVE  AgreesWith(bc'[s.id], s, Pending(s.id)', source'[s.id])
  <2>1. s \in tuner[t] /\ AgreesWith(bc[s.id], s, Pending(s.id), source[s.id])
    BY <1>3 DEF AgreeInv
  <2> QED
    BY <1>1, <2>1
<1>4. ASSUME ~shutdown', NEW n \in SessionIds, n >= sessions'
      PROVE  bc'[n] = B!Absent /\ source'[n] = "none"
  <2>1. n >= sessions
    BY <1>1, <1>4, ConfigAssumption DEF SessionIds
  <2> QED
    BY <1>4, <2>1 DEF AgreeInv
<1> QED
  BY <1>2, <1>3, <1>4 DEF AgreeInv

(* While the system shuts down nothing is claimed.                          *)
LEMMA ShutDownAgrees ==
    ASSUME shutdown' PROVE AgreeInv'
  BY DEF AgreeInv

NumbersFit ==
    /\ sessions \in Nat
    /\ \A t \in Tuners : \A s \in tuner[t] : s.id < sessions /\ s.id \in SessionIds

LEMMA NumbersWillFit == ManagerInv' => NumbersFit'
<1>1. ManagerInv => NumbersFit
  BY SessionsHaveBroadcasters DEF NumbersFit
<1> QED
  BY <1>1, PTL

LEMMA SerialAdded ==
    ASSUME NEW s, NEW s2, NEW x, s2.subs = s.subs \cup {x}
    PROVE  Serials(s2) = Serials(s) \cup {x.serial}
  BY DEF Serials

LEMMA PendingIs ==
    ASSUME NEW c, call' = {c}
    PROVE  /\ \A n : Pending(n)' = IF n = c.id.session THEN {c.id.serial} ELSE {}
           /\ (CHOOSE d \in call' : TRUE) = c
           /\ \A n : (\E d \in call' : d.id.session = n) <=> n = c.id.session
<1>1. ASSUME NEW n, n = c.id.session PROVE Pending(n)' = {c.id.serial}
  BY <1>1 DEF Pending
<1>2. ASSUME NEW n, n # c.id.session PROVE Pending(n)' = {}
  BY <1>2 DEF Pending
<1>3. c \in call' /\ \A d \in call' : d = c
  OBVIOUS
<1>4. (CHOOSE d \in call' : TRUE) = c
  BY <1>3
<1>5. \A n : (\E d \in call' : d.id.session = n) <=> n = c.id.session
  BY <1>3
<1> QED
  BY <1>1, <1>2, <1>4, <1>5

LEMMA NothingPending ==
    ASSUME call = {}, NEW n PROVE Pending(n) = {}
  BY DEF Pending

LEMMA SubscribingAgrees ==
    ASSUME ManagerInv, ManagerInv', StreamTypes, AgreeInv, HandleStartStreaming, ~shutdown,
           NEW u \in Users, Joins(u) \/ Opens(u)
    PROVE  AgreeInv'
<1>1. PICK t \in Tuners, s \in Session :
        /\ call = {} /\ Subscribe(t, s, u)
        /\ \/ s \in tuner[t] /\ sessions' = sessions
           \/ IsNew(s) /\ sessions' = sessions + 1
  BY Subscribed DEF ManagerInv
<1>2. PICK s2 \in Session :
        /\ tuner'[t] = {s2} /\ \A t2 \in Tuners \ {t} : tuner'[t2] = tuner[t2]
        /\ s2.id = s.id /\ s2.next = s.next + 1
        /\ s2.subs = s.subs \cup {[serial |-> s.next, user |-> u]}
        /\ call' = {[user |-> u, id |-> [tuner |-> t, session |-> s.id, serial |-> s.next]]}
  BY <1>1, SubscribedState DEF ManagerInv
<1>3. /\ s.id \in SessionIds /\ s.next \in Nat /\ s.id < sessions' /\ sessions' \in Nat
      /\ sessions \in Nat /\ sessions <= sessions' /\ s.id \in Nat
  <2>1. s2 \in tuner'[t]
    BY <1>2
  <2>2. s2.id < sessions' /\ s2.id \in SessionIds /\ sessions' \in Nat
    BY <2>1, NumbersWillFit DEF NumbersFit
  <2>3. s.next \in Nat /\ s.id \in Nat /\ sessions \in Nat
    BY SessionsHaveBroadcasters DEF Session
  <2> QED
    BY <1>1, <1>2, <2>2, <2>3
<1>4. Serials(s2) = Serials(s) \cup {s.next}
  <2> DEFINE x == [serial |-> s.next, user |-> u]
  <2>1. x.serial = s.next /\ s2.subs = s.subs \cup {x}
    BY <1>2
  <2> HIDE DEF x
  <2> QED
    BY <2>1, SerialAdded
<1> DEFINE c == [user |-> u, id |-> [tuner |-> t, session |-> s.id, serial |-> s.next]]
<1>c. call' = {c} /\ c.id.session = s.id /\ c.id.serial = s.next
  BY <1>2
<1> HIDE DEF c
<1>5. \A n : Pending(n) = {} /\ Pending(n)' = IF n = s.id THEN {s.next} ELSE {}
  BY <1>1, <1>c, NothingPending, PendingIs
<1>6. /\ bc'[s.id] = B!Send(Opened(s.id), B!Subscribe(s.next))
      /\ \A n \in SessionIds : n # s.id => bc'[n] = bc[n]
  <2> DEFINE m == B!Subscribe((CHOOSE d \in call' : TRUE).id.serial)
  <2>1. bc' = [n \in SessionIds |->
                 IF \E d \in call' : d.id.session = n THEN B!Send(Opened(n), m) ELSE bc[n]]
    BY DEF HandleStartStreaming
  <2>2. (CHOOSE d \in call' : TRUE) = c
    BY <1>c, PendingIs
  <2>3. m = B!Subscribe(s.next)
    BY <1>c, <2>2
  <2> HIDE DEF m
  <2>4. \A n : (\E d \in call' : d.id.session = n) <=> n = s.id
    BY <1>c, PendingIs
  <2> QED
    BY <1>3, <2>1, <2>3, <2>4
<1>7. source' = source /\ shutdown' = shutdown /\ stopping' = stopping
  BY <1>1 DEF HandleStartStreaming, Subscribe
<1>8. AgreesWith(bc'[s.id], s2, {s.next}, source'[s.id])
  <2>1. CASE s \in tuner[t]
    <3>1. AgreesWith(bc[s.id], s, {}, source[s.id])
      BY <1>5, <2>1 DEF AgreeInv
    <3>2. Opened(s.id) = bc[s.id]
      BY <3>1 DEF Opened, AgreesWith
    <3>3. \A k \in Serials(s) : k < s.next
      BY <2>1 DEF Serials, ManagerInv, NumbersInv, SerialsAreUnique
    <3>4. bc[s.id] \in B!Broadcasters
      BY <1>3 DEF StreamTypes
    <3> QED
      BY <1>2, <1>3, <1>4, <1>6, <1>7, <3>1, <3>2, <3>3, <3>4, SubscribeSentAgrees
  <2>2. CASE IsNew(s)
    <3>1. bc[s.id] = B!Absent /\ source[s.id] = "none"
      BY <1>3, <2>2 DEF AgreeInv, IsNew
    <3>2. Opened(s.id) = B!Send(B!Spawned, B!BindStream)
      BY <3>1 DEF Opened, B!Absent, B!Blank
    <3>3. s.next = 1 /\ s2.next = 2 /\ Serials(s2) = {1}
      BY <1>2, <1>4, <2>2 DEF IsNew, Serials
    <3> QED
      BY <1>6, <1>7, <3>1, <3>2, <3>3, OpenedAgrees
  <2> QED
    BY <1>1, <2>1, <2>2
<1>9. ASSUME NEW t2 \in Tuners, NEW s3 \in tuner'[t2]
      PROVE  AgreesWith(bc'[s3.id], s3, Pending(s3.id)', source'[s3.id])
  <2>1. CASE t2 = t
    <3>1. s3 = s2
      BY <1>2, <2>1
    <3> QED
      BY <1>2, <1>5, <1>8, <3>1
  <2>2. CASE t2 # t
    <3>1. s3 \in tuner[t2]
      BY <1>2, <2>2
    <3>2. s3.id # s.id
      BY <1>2, <2>2 DEF ManagerInv, NumbersInv, SessionsDiffer
    <3>3. s3.id \in SessionIds
      BY <3>1, SessionsHaveBroadcasters
    <3>4. AgreesWith(bc[s3.id], s3, Pending(s3.id), source[s3.id])
      BY <3>1 DEF AgreeInv
    <3> QED
      BY <1>5, <1>6, <1>7, <3>2, <3>3, <3>4
  <2> QED
    BY <2>1, <2>2
<1>10. ASSUME NEW n \in SessionIds, n >= sessions'
       PROVE  bc'[n] = B!Absent /\ source'[n] = "none"
  <2>1. n >= sessions /\ n # s.id
    BY <1>3, <1>10, ConfigAssumption DEF SessionIds
  <2> QED
    BY <1>6, <1>7, <2>1 DEF AgreeInv
<1> QED
  BY <1>7, <1>9, <1>10 DEF AgreeInv

LEMMA FailingAgrees ==
    ASSUME ManagerInv, StreamTypes, AgreeInv, HandleStartStreaming, NEW u \in Users, Fails(u)
    PROVE  AgreeInv'
<1>1. /\ call = {} /\ call' = {} /\ sessions' \in {sessions, sessions + 1}
      /\ stopping' = stopping /\ source' = source /\ shutdown' = shutdown
  BY DEF Fails, Fail, CannotActivate, HandleStartStreaming
<1>2. \A n \in SessionIds : bc'[n] = bc[n]
  BY <1>1 DEF HandleStartStreaming
<1>3. \A t \in Tuners : tuner'[t] \subseteq tuner[t]
  <2>1. CASE tuner' = tuner
    BY <2>1
  <2>2. CASE \E t \in Tuners : tuner' = [tuner EXCEPT ![t] = {}]
    BY <2>2 DEF ManagerInv, TypeOK
  <2> QED
    BY <2>1, <2>2 DEF Fails
<1>4. \A n : Pending(n)' = Pending(n)
  BY <1>1 DEF Pending
<1>5. sessions \in Nat
  BY SessionsHaveBroadcasters
<1> QED
  BY <1>1, <1>2, <1>3, <1>4, <1>5, QuietBroadcasters

LEMMA StartAgrees ==
    ASSUME ManagerInv, ManagerInv', StreamTypes, AgreeInv, HandleStartStreaming, ~shutdown
    PROVE  AgreeInv'
<1>1. PICK u \in Users : StartStreaming(u)
  BY DEF HandleStartStreaming
<1>2. Joins(u) \/ Opens(u) \/ Fails(u)
  BY <1>1, StartStreamingCases DEF ManagerInv
<1> QED
  BY <1>2, SubscribingAgrees, FailingAgrees

(* The session the manager calls about, and the others.                     *)
LEMMA TheCall ==
    ASSUME ManagerInv, NEW c \in call, NEW t \in Tuners, NEW s \in tuner[t]
    PROVE  /\ s.id = c.id.session => /\ t = c.id.tuner
                                     /\ Pending(s.id) = {c.id.serial}
                                     /\ c.id.serial \in Serials(s)
           /\ s.id # c.id.session => Pending(s.id) = {}
<1>1. \A d \in call : d = c
  BY DEF ManagerInv, TypeOK
<1>2. CASE s.id = c.id.session
  <2>1. c.id.tuner \in Tuners
    BY DEF ManagerInv, TypeOK, SubscriptionId
  <2>2. PICK s0 \in tuner[c.id.tuner] : s0.id = c.id.session /\ \E x \in s0.subs : x.serial = c.id.serial
    BY DEF ManagerInv, NumbersInv, CallIsCurrent
  <2>3. t = c.id.tuner
    BY <1>2, <2>1, <2>2 DEF ManagerInv, NumbersInv, SessionsDiffer
  <2>4. s = s0
    BY <2>1, <2>2, <2>3 DEF ManagerInv, TypeOK
  <2>5. c.id.serial \in Serials(s)
    BY <2>2, <2>4 DEF Serials
  <2>6. Pending(s.id) = {c.id.serial}
    BY <1>1, <1>2 DEF Pending
  <2> QED
    BY <1>2, <2>3, <2>5, <2>6
<1>3. CASE s.id # c.id.session
  BY <1>1, <1>3 DEF Pending
<1> QED
  BY <1>2, <1>3

LEMMA ReplyAgrees ==
    ASSUME ManagerInv, StreamTypes, AgreeInv, SubscribeReplied, ~shutdown
    PROVE  AgreeInv'
<1>1. /\ call' = {} /\ tuner' = tuner /\ sessions' = sessions /\ stopping' = stopping
      /\ bc' = bc /\ source' = source /\ shutdown' = shutdown
  BY DEF SubscribeReplied, SubscribeOk, streamVars
<1>2. PICK c \in call : c.id.serial \in bc[c.id.session].subscribers
  BY DEF SubscribeReplied
<1>3. \A n : Pending(n)' = {}
  BY <1>1 DEF Pending
<1>4. ASSUME NEW t \in Tuners, NEW s \in tuner[t]
      PROVE  AgreesWith(bc[s.id], s, {}, source[s.id])
  <2>1. AgreesWith(bc[s.id], s, Pending(s.id), source[s.id])
    BY DEF AgreeInv
  <2>2. CASE s.id = c.id.session
    <3>1. Pending(s.id) = {c.id.serial} /\ c.id.serial \in Serials(s) \cap bc[s.id].subscribers
      BY <1>2, <2>2, TheCall
    <3> QED
      BY <2>1, <3>1, RepliedAgrees
  <2>3. CASE s.id # c.id.session
    BY <2>1, <2>3, TheCall
  <2> QED
    BY <2>2, <2>3
<1> QED
  BY <1>1, <1>3, <1>4 DEF AgreeInv

LEMMA LossAgrees ==
    ASSUME ManagerInv, StreamTypes, AgreeInv, SubscribeLost
    PROVE  AgreeInv'
<1>1. PICK c \in call :
        /\ call' = {} /\ tuner' = [tuner EXCEPT ![c.id.tuner] = {}]
        /\ sessions' = sessions /\ stopping' = stopping
        /\ bc' = bc /\ source' = source /\ shutdown' = shutdown
  BY DEF SubscribeLost, SubscribeFailed, streamVars
<1>2. \A n : Pending(n)' = {}
  BY <1>1 DEF Pending
<1>3. sessions \in Nat
  BY SessionsHaveBroadcasters
<1>4. ASSUME NEW t \in Tuners, NEW s \in tuner'[t]
      PROVE  s \in tuner[t] /\ Pending(s.id)' = Pending(s.id)
  <2>1. t # c.id.tuner /\ s \in tuner[t]
    BY <1>1, <1>4 DEF ManagerInv, TypeOK
  <2> QED
    BY <1>2, <2>1, TheCall
<1> QED
  BY <1>1, <1>3, <1>4, QuietBroadcasters

LEMMA StoppingAgrees ==
    ASSUME ManagerInv, StreamTypes, AgreeInv, HandleStopStreaming, ~shutdown
    PROVE  AgreeInv'
<1>1. PICK m \in stops :
        /\ StopStreaming(m)
        /\ bc' = IF \E s \in tuner[m.id.tuner] : ~stopping /\ s.id = m.id.session
                 THEN [bc EXCEPT ![m.id.session] = B!Send(@, B!Unsubscribe(m.id.serial))]
                 ELSE bc
        /\ UNCHANGED <<source, shutdown>>
  BY DEF HandleStopStreaming
<1>2. /\ call = {} /\ call' = {} /\ sessions' = sessions /\ stopping' = stopping
      /\ source' = source /\ shutdown' = shutdown /\ ~stopping
  BY <1>1 DEF StopStreaming, AgreeInv
<1>3. /\ m.id.tuner \in Tuners /\ m.id.serial \in Nat /\ tuner \in [Tuners -> SUBSET Session]
      /\ \A s1, s2 \in tuner[m.id.tuner] : s1 = s2
      /\ sessions \in Nat
  BY DEF ManagerInv, TypeOK, SubscriptionId
<1>4. \A n : Pending(n) = {} /\ Pending(n)' = {}
  BY <1>2 DEF Pending
<1>5. CASE tuner' = tuner /\ bc' = bc
  BY <1>2, <1>3, <1>4, <1>5, QuietBroadcasters
<1>6. CASE IgnoreStop(m)
  BY <1>1, <1>2, <1>5, <1>6 DEF IgnoreStop
<1>7. CASE StopUnmatched(m)
  <2>1. PICK s \in tuner[m.id.tuner] :
          s.id # m.id.session /\ tuner' = [tuner EXCEPT ![m.id.tuner] = Remaining(s)]
    BY <1>7 DEF StopUnmatched
  <2>2. Remaining(s) = tuner[m.id.tuner]
    BY <1>3 DEF Remaining, ManagerInv, OwnerInv, ActiveTunersServeSomeone
  <2>3. tuner' = tuner
    BY <1>3, <2>1, <2>2
  <2> QED
    BY <1>1, <1>3, <1>5, <2>1, <2>3
<1>8. CASE StopMatched(m)
  <2>1. PICK s \in tuner[m.id.tuner] :
          /\ s.id = m.id.session
          /\ tuner' = [tuner EXCEPT ![m.id.tuner] = Remaining(WithoutSubscriber(s, m.id.serial))]
    BY <1>8 DEF StopMatched
  <2>2. s \in Session /\ s.id \in SessionIds /\ s.id < sessions
    BY <1>3, SessionsHaveBroadcasters
  <2> DEFINE s2 == Without(s, m.id.serial)
  <2>3. WithoutSubscriber(s, m.id.serial) = s2
    BY <2>2, WithoutIs
  <2>4. /\ s2.id = s.id /\ s2.next = s.next
        /\ s2.subs = {x \in s.subs : x.serial # m.id.serial}
    BY DEF Without
  <2>5. \A s3 \in Remaining(s2) : s3 = s2 /\ s2.subs # {}
    BY DEF Remaining
  <2> HIDE DEF s2
  <2>6. /\ tuner'[m.id.tuner] = Remaining(s2)
        /\ \A t \in Tuners \ {m.id.tuner} : tuner'[t] = tuner[t]
    BY <1>3, <2>1, <2>3
  <2>7. /\ bc'[s.id] = B!Send(bc[s.id], B!Unsubscribe(m.id.serial))
        /\ \A n \in SessionIds \ {s.id} : bc'[n] = bc[n]
    BY <1>1, <1>2, <2>1, <2>2 DEF StreamTypes
  <2>8. ASSUME NEW t \in Tuners, NEW s3 \in tuner'[t]
        PROVE  AgreesWith(bc'[s3.id], s3, Pending(s3.id)', source'[s3.id])
    <3>1. CASE t = m.id.tuner
      <4>1. s3 = s2 /\ s2.subs # {}
        BY <2>5, <2>6, <2>8, <3>1
      <4>2. Serials(s2) = Serials(s) \ {m.id.serial} /\ Serials(s2) # {}
        <5> DEFINE k == m.id.serial
        <5>1. s2.subs = {x \in s.subs : x.serial # k} /\ s2.subs # {}
          BY <2>4, <4>1
        <5> HIDE DEF k
        <5>2. Serials(s2) = Serials(s) \ {k} /\ Serials(s2) # {}
          BY <5>1 DEF Serials
        <5> QED
          BY <5>2 DEF k
      <4>3. m.id.serial < s.next
        BY <2>1 DEF ManagerInv, NumbersInv, IdsAreHandedOut, HandedOut
      <4>4. bc[s.id] \in B!Broadcasters
        BY <2>2 DEF StreamTypes
      <4>5. AgreesWith(bc[s.id], s, {}, source[s.id])
        BY <1>3, <1>4 DEF AgreeInv
      <4>6. AgreesWith(bc'[s.id], s2, {}, source[s.id])
        BY <1>3, <2>4, <2>7, <4>2, <4>3, <4>4, <4>5, UnsubscribeSentAgrees
      <4> QED
        BY <1>2, <1>4, <2>4, <4>1, <4>6
    <3>2. CASE t # m.id.tuner
      <4>1. s3 \in tuner[t]
        BY <2>6, <3>2
      <4>2. s3.id # s.id
        BY <1>3, <3>2, <4>1 DEF ManagerInv, NumbersInv, SessionsDiffer
      <4>3. s3.id \in SessionIds /\ AgreesWith(bc[s3.id], s3, {}, source[s3.id])
        BY <1>4, <4>1, SessionsHaveBroadcasters DEF AgreeInv
      <4> QED
        BY <1>2, <1>4, <2>7, <4>2, <4>3
    <3> QED
      BY <3>1, <3>2
  <2>9. ASSUME NEW n \in SessionIds, n >= sessions'
        PROVE  bc'[n] = B!Absent /\ source'[n] = "none"
    <3>1. n # s.id
      BY <1>2, <1>3, <2>2, <2>9 DEF Session
    <3> QED
      BY <1>2, <2>7, <2>9, <3>1 DEF AgreeInv
  <2> QED
    BY <1>2, <2>8, <2>9 DEF AgreeInv
<1> QED
  BY <1>1, <1>6, <1>7, <1>8 DEF StopStreaming

(* A step of one broadcaster, or of its source.                             *)
LEMMA OneBroadcaster ==
    ASSUME ManagerInv, StreamTypes, AgreeInv, UNCHANGED <<managerVars, userVars, shutdown>>,
           NEW n \in SessionIds, n < sessions,
           \A k \in SessionIds \ {n} : bc'[k] = bc[k] /\ source'[k] = source[k],
           \A t \in Tuners : \A s \in tuner[t] :
               s.id = n => AgreesWith(bc'[n], s, Pending(n), source'[n])
    PROVE  AgreeInv'
<1>1. \A t \in Tuners : \A s \in tuner[t] : s.id \in SessionIds
  BY SessionsHaveBroadcasters
<1>2. /\ tuner' = tuner /\ sessions' = sessions /\ stopping' = stopping /\ call' = call
      /\ shutdown' = shutdown
  BY DEF managerVars
<1>3. \A k : Pending(k)' = Pending(k)
  BY <1>2 DEF Pending
<1>4. ASSUME ~shutdown, NEW t \in Tuners, NEW s \in tuner[t]
      PROVE  AgreesWith(bc'[s.id], s, Pending(s.id), source'[s.id])
  <2>1. CASE s.id = n
    BY <2>1
  <2>2. CASE s.id # n
    BY <1>1, <1>4, <2>2 DEF AgreeInv
  <2> QED
    BY <2>1, <2>2
<1>5. ASSUME ~shutdown, NEW k \in SessionIds, k >= sessions
      PROVE  bc'[k] = B!Absent /\ source'[k] = "none"
  <2>1. k # n
    BY <1>5, SessionsHaveBroadcasters, ConfigAssumption DEF SessionIds
  <2> QED
    BY <1>5, <2>1 DEF AgreeInv
<1> QED
  BY <1>2, <1>3, <1>4, <1>5 DEF AgreeInv

LEMMA AbsentIs == B!Absent.phase = "absent" /\ ~B!Receives(B!Absent)
  BY DEF B!Absent, B!Blank, B!Receives

LEMMA HandlingAgrees ==
    ASSUME ManagerInv, StreamTypes, AgreeInv, ~shutdown, NEW n \in SessionIds, BroadcasterStep(n)
    PROVE  AgreeInv'
<1>1. /\ B!Receives(bc[n]) /\ bc[n].mailbox # <<>> /\ bc' = [bc EXCEPT ![n] = B!Handle(bc[n])]
      /\ source' = IF Head(bc[n].mailbox) = B!BindStream /\ bc'[n].phase # "panicked"
                   THEN [source EXCEPT ![n] = "reading"] ELSE source
      /\ UNCHANGED <<managerVars, userVars, shutdown>>
  BY DEF BroadcasterStep
<1>2. bc[n] \in B!Broadcasters /\ bc'[n] = B!Handle(bc[n])
  BY <1>1 DEF StreamTypes
<1>3. n < sessions
  <2>1. ~(n >= sessions)
    BY <1>1, AbsentIs DEF AgreeInv
  <2> QED
    BY <2>1, SessionsHaveBroadcasters, ConfigAssumption DEF SessionIds
<1>4. \A k \in SessionIds \ {n} : bc'[k] = bc[k] /\ source'[k] = source[k]
  BY <1>1 DEF StreamTypes
<1>5. ASSUME NEW t \in Tuners, NEW s \in tuner[t], s.id = n
      PROVE  AgreesWith(bc'[n], s, Pending(n), source'[n])
  <2> DEFINE m == Head(bc[n].mailbox)
  <2>1. AgreesWith(bc[n], s, Pending(n), source[n])
    BY <1>5 DEF AgreeInv
  <2>2. m \in B!Message
    BY <1>1, <1>2, RestIs
  <2>3. CASE m.type = "BindStream"
    <3>1. m = B!BindStream
      BY <2>2, <2>3, MessagesAre
    <3>2. AgreesWith(bc'[n], s, Pending(n), "reading") /\ bc'[n].phase # "panicked"
      BY <1>1, <1>2, <2>1, <3>1, BindAgrees
    <3>3. source'[n] = "reading"
      BY <1>1, <3>1, <3>2 DEF StreamTypes
    <3> QED
      BY <3>2, <3>3
  <2>4. CASE m.type # "BindStream"
    <3>1. source'[n] = source[n]
      BY <1>1, <2>4, MessagesDiffer
    <3>2. CASE m.type = "StreamEnded"
      <4>1. m = B!StreamEnded
        BY <2>2, <3>2, MessagesAre
      <4> QED
        BY <1>1, <1>2, <2>1, <3>1, <4>1, StreamEndedAgrees
    <3>3. CASE m.type = "Subscribe"
      <4>1. Pending(n) \subseteq Serials(s)
        <5>1. CASE call = {}
          BY <5>1 DEF Pending
        <5>2. CASE call # {}
          <6>1. PICK c \in call : TRUE
            BY <5>2
          <6> QED
            BY <1>5, <6>1, TheCall
        <5> QED
          BY <5>1, <5>2
      <4> QED
        BY <1>1, <1>2, <2>1, <3>1, <3>3, <4>1, SubscribeAgrees
    <3>4. CASE m.type = "Unsubscribe"
      BY <1>1, <1>2, <2>1, <3>1, <3>4, UnsubscribeAgrees
    <3> QED
      BY <2>2, <2>4, <3>2, <3>3, <3>4, MessagesAre
  <2> QED
    BY <2>3, <2>4
<1> QED
  BY <1>1, <1>3, <1>4, <1>5, OneBroadcaster

LEMMA EndingAgrees ==
    ASSUME ManagerInv, StreamTypes, AgreeInv, ~shutdown, NEW n \in SessionIds, SourceEnds(n)
    PROVE  AgreeInv'
<1>1. /\ source[n] = "reading" /\ source' = [source EXCEPT ![n] = "ended"]
      /\ bc' = [bc EXCEPT ![n] = B!Send(bc[n], B!StreamEnded)]
      /\ UNCHANGED <<managerVars, userVars, shutdown>>
  BY DEF SourceEnds
<1>2. /\ bc[n] \in B!Broadcasters /\ bc'[n] = B!Send(bc[n], B!StreamEnded) /\ source'[n] = "ended"
  BY <1>1 DEF StreamTypes
<1>3. n < sessions
  <2>1. ~(n >= sessions)
    BY <1>1 DEF AgreeInv
  <2> QED
    BY <2>1, SessionsHaveBroadcasters, ConfigAssumption DEF SessionIds
<1>4. \A k \in SessionIds \ {n} : bc'[k] = bc[k] /\ source'[k] = source[k]
  BY <1>1 DEF StreamTypes
<1>5. ASSUME NEW t \in Tuners, NEW s \in tuner[t], s.id = n
      PROVE  AgreesWith(bc'[n], s, Pending(n), source'[n])
  <2>1. AgreesWith(bc[n], s, Pending(n), "reading")
    BY <1>1, <1>5 DEF AgreeInv
  <2> QED
    BY <1>2, <2>1, EndSentAgrees
<1> QED
  BY <1>1, <1>3, <1>4, <1>5, OneBroadcaster

LEMMA ClosingAgrees ==
    ASSUME ManagerInv, StreamTypes, AgreeInv, ~shutdown, NEW n \in SessionIds, CloseBroadcaster(n)
    PROVE  AgreeInv'
<1>1. /\ bc[n].phase = "stopping" /\ bc' = [bc EXCEPT ![n] = B!Blank("closed")] /\ source' = source
      /\ UNCHANGED <<managerVars, userVars, shutdown>>
  BY DEF CloseBroadcaster
<1>2. n < sessions
  <2>1. ~(n >= sessions)
    BY <1>1, AbsentIs DEF AgreeInv
  <2> QED
    BY <2>1, SessionsHaveBroadcasters, ConfigAssumption DEF SessionIds
<1>3. \A k \in SessionIds \ {n} : bc'[k] = bc[k] /\ source'[k] = source[k]
  BY <1>1 DEF StreamTypes
<1>4. ASSUME NEW t \in Tuners, NEW s \in tuner[t], s.id = n
      PROVE  FALSE
  BY <1>1, <1>4, PanickedIs DEF AgreeInv, AgreesWith
<1> QED
  BY <1>1, <1>2, <1>3, <1>4, OneBroadcaster

LEMMA IdleAgrees ==
    ASSUME ManagerInv, AgreeInv, UNCHANGED <<managerVars, streamVars>>
    PROVE  AgreeInv'
<1>1. \A n : Pending(n)' = Pending(n)
  BY DEF Pending, managerVars
<1>2. sessions \in Nat
  BY SessionsHaveBroadcasters
<1> QED
  BY <1>1, <1>2, QuietBroadcasters DEF managerVars, streamVars

LEMMA AgreeStep ==
    ASSUME ManagerInv, StreamTypes, AgreeInv, [StreamNext]_allVars
    PROVE  AgreeInv'
<1>0. ManagerInv'
  BY ManagerInvKept
<1>1. CASE shutdown'
  BY <1>1, ShutDownAgrees
<1>2. CASE ~shutdown'
  <2>1. CASE SystemShutdown \/ StopManager \/ \E n \in SessionIds : StopBroadcaster(n)
    BY <1>2, <2>1 DEF SystemShutdown, StopManager, StopBroadcaster, streamVars
  <2>2. ~shutdown \/ SystemShutdown
    BY <1>2 DEF StreamNext, Manager, HandleStartStreaming, SubscribeReplied, SubscribeLost,
                HandleStopStreaming, StopManager, BroadcasterStep, SourceEnds, CloseBroadcaster,
                StopBroadcaster, UserActs, Follow, streamVars, allVars
  <2>3. CASE HandleStartStreaming
    BY <1>0, <2>1, <2>2, <2>3, StartAgrees
  <2>4. CASE SubscribeReplied
    BY <2>1, <2>2, <2>4, ReplyAgrees
  <2>5. CASE SubscribeLost
    BY <2>5, LossAgrees
  <2>6. CASE HandleStopStreaming
    BY <2>1, <2>2, <2>6, StoppingAgrees
  <2>7. CASE \E n \in SessionIds : BroadcasterStep(n)
    BY <2>1, <2>2, <2>7, HandlingAgrees
  <2>8. CASE \E n \in SessionIds : SourceEnds(n)
    BY <2>1, <2>2, <2>8, EndingAgrees
  <2>9. CASE \E n \in SessionIds : CloseBroadcaster(n)
    BY <2>1, <2>2, <2>9, ClosingAgrees
  <2>10. CASE Follow \/ (\E u \in Users : UserActs(u)) \/ UNCHANGED allVars
    <3>1. UNCHANGED <<managerVars, streamVars>>
      BY <2>10 DEF Follow, UserActs, UserStep, RequestStream, CancelRequest, DropStream,
                   SpawnFollower, allVars, vars, managerVars
    <3> QED
      BY <3>1, IdleAgrees
  <2> QED
    BY <2>1, <2>3, <2>4, <2>5, <2>6, <2>7, <2>8, <2>9, <2>10 DEF StreamNext, Manager
<1> QED
  BY <1>1, <1>2

-----------------------------------------------------------------------------
(* The theorem.                                                             *)

LEMMA StreamInductive ==
    /\ StreamInit => StreamInv
    /\ StreamInv /\ [StreamNext]_allVars => StreamInv'
<1>1. ASSUME StreamInit PROVE StreamInv
  <2>1. ManagerInv
    BY <1>1, InitManagerInv DEF StreamInit
  <2>2. StreamTypes
    BY <1>1, BlankType DEF StreamInit, StreamTypes
  <2>3. AgreeInv
    BY <1>1 DEF StreamInit, Init, AgreeInv
  <2> QED
    BY <2>1, <2>2, <2>3 DEF StreamInv, StreamTypeOK, StreamTypes, ManagerInv
<1>2. ASSUME StreamInv, [StreamNext]_allVars PROVE StreamInv'
  <2>1. ManagerInv /\ StreamTypes /\ AgreeInv
    BY <1>2 DEF StreamInv, StreamTypeOK, StreamTypes
  <2>2. ManagerInv' /\ StreamTypes' /\ AgreeInv'
    BY <1>2, <2>1, ManagerInvKept, StreamTypesKept, AgreeStep
  <2> QED
    BY <2>2 DEF StreamInv, StreamTypeOK, StreamTypes, ManagerInv
<1> QED
  BY <1>1, <1>2

LEMMA AgreementSuffices == StreamInv => SubscribersAgree
<1> SUFFICES ASSUME StreamInv, call = {}, ~shutdown, NEW t \in Tuners, NEW s \in tuner[t]
             PROVE  /\ bc[s.id].phase = "running"
                    /\ {x.serial : x \in s.subs} \subseteq bc[s.id].subscribers
                    /\ \A n \in bc[s.id].subscribers \ {x.serial : x \in s.subs} :
                         \E i \in 1..Len(bc[s.id].mailbox) : bc[s.id].mailbox[i] = B!Unsubscribe(n)
  BY DEF SubscribersAgree
<1>1. AgreesWith(bc[s.id], s, {}, source[s.id])
  BY NothingPending DEF StreamInv, AgreeInv
<1>2. DOMAIN bc[s.id].mailbox = 1..Len(bc[s.id].mailbox)
  <2>1. bc[s.id] \in B!Broadcasters
    BY SessionsHaveBroadcasters DEF StreamInv, StreamTypeOK
  <2> QED
    BY <2>1, LenProperties DEF B!Broadcasters
<1> QED
  BY <1>1, <1>2, Settled DEF Serials, Holds

(* Between two requests the manager and the live broadcaster of each        *)
(* session agree on who is subscribed (tuner.rs, TunerSession, and          *)
(* broadcaster.rs), up to Unsubscribe messages under way: with any number   *)
(* of tuners, users and requests, tuner processes that end at any moment,   *)
(* requests that are dropped while they are served, and late stops.         *)
THEOREM ManagerAndBroadcastersAgree == StreamSpec => []SubscribersAgree
  BY StreamInductive, AgreementSuffices, PTL DEF StreamSpec

(* The states of manager, broadcasters and sources stay well-typed, and the *)
(* sessions opened never outnumber the broadcasters of the model (a request *)
(* opens one at most; TunerSession::new spawns one each).                   *)
THEOREM StreamingTypesCorrect == StreamSpec => []StreamTypeOK
<1>1. StreamInv => StreamTypeOK
  BY DEF StreamInv
<1> QED
  BY <1>1, StreamInductive, PTL DEF StreamSpec
=============================================================================
