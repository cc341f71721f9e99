---------------------------- MODULE TunerManager ----------------------------
(***************************************************************************)
(* The actor that owns the tuners (mirakc-core/src/tuner.rs) together with *)
(* the users that ask it for streams.  A user sends StartStreaming, gets a *)
(* subscription, and sends StopStreaming from a trigger it drops when it   *)
(* is done.  The manager reuses, opens or takes over ("grabs") tuners.     *)
(*                                                                         *)
(* An optional value (Option<T>, TunerActivity) is a set with at most one  *)
(* element: tuner[t] = {} is TunerActivity::Inactive and tuner[t] = {s} is *)
(* Active(s).                                                              *)
(*                                                                         *)
(* The outcome of the Subscribe call to the broadcaster is a free choice   *)
(* here; module Streaming composes the manager with the broadcasters and   *)
(* resolves it.                                                            *)
(***************************************************************************)
EXTENDS Integers, FiniteSets, FiniteSetsExt

CONSTANTS
    NumTuners,    \* number of enabled tuners; a tuner is its index
    Channels,
    TypeOf,       \* channel -> channel type
    Supports,     \* tuner -> set of channel types
    Excluded,     \* tuner -> set of excluded channels
    Users,        \* TunerUserInfo values: jobs, recorders, trackers, Web clients
    Priority,     \* user -> priority of its requests, -128..128
    Asks,         \* user -> channels it may ask for
    Trackers,     \* local on-air program trackers of the configuration
    Recorders,    \* timeshift recorders of the configuration
    Uses,         \* tracker or recorder -> tuner dedicated to it
    Dedicated,    \* timeshift recorder -> channel of its tuner
    Followers,    \* temporal on-air trackers, which name an existing stream
    Viewers,      \* users whose stream a follower may name
    Cancellable,  \* users whose request may be dropped while it is served
    StopMayLag,   \* a StopStreaming may be overtaken by its sender's next request
    MaxRequests   \* bound on the number of requests

Tuners == 1..NumTuners
GRAB == 128

(* load_tuners: a tracker comes before a recorder naming the same tuner.    *)
TrackersOf(t) == {u \in Trackers : Uses[u] = t}
RecordersOf(t) == {u \in Recorders : Uses[u] = t}
Exclusive(t) == TrackersOf(t) # {}
ChannelOnly(t) == ~Exclusive(t) /\ RecordersOf(t) # {}
Unrestricted(t) == ~Exclusive(t) /\ ~ChannelOnly(t)
ReservedFor(t) ==
    IF Exclusive(t) THEN CHOOSE u \in TrackersOf(t) : TRUE
                    ELSE CHOOSE u \in RecordersOf(t) : TRUE
IsReservedFor(t, u) == ~Unrestricted(t) /\ ReservedFor(t) = u
DedicatedChannel(t) == Dedicated[ReservedFor(t)]

ASSUME ConfigAssumption ==
    /\ NumTuners \in Nat
    /\ MaxRequests \in Nat
    /\ StopMayLag \in BOOLEAN
    /\ Trackers \subseteq Users
    /\ Recorders \subseteq Users
    /\ Followers \subseteq Users
    /\ Viewers \subseteq Users
    /\ Cancellable \subseteq Users
    /\ Uses \in [Trackers \cup Recorders -> Tuners]
    /\ Dedicated \in [Recorders -> Channels]
    /\ Asks \in [Users -> SUBSET Channels]
    /\ Priority \in [Users -> -128..GRAB]
    /\ Supports \in [Tuners -> SUBSET {TypeOf[ch] : ch \in Channels}]
    /\ Excluded \in [Tuners -> SUBSET Channels]
    \* Tuner::set_channel_user asserts it at start
    /\ \A r \in Recorders : TypeOf[Dedicated[r]] \in Supports[Uses[r]]

(* A temporal tracker is spawned for the stream of a Web request, and only  *)
(* an HTTP handler is dropped while it awaits a reply.  A Web client is not *)
(* a configured tracker or recorder.                                        *)
ASSUME WebAssumption ==
    (Viewers \cup Cancellable) \cap (Trackers \cup Recorders \cup Followers) = {}
ASSUME FollowersAssumption == Followers \cap (Trackers \cup Recorders) = {}

(* A recorder asks for the channel its tuner is dedicated to.  The          *)
(* configuration names this channel and the recorder's service; nothing in  *)
(* the code compares them.                                                  *)
RecordersAskForTheirChannel ==
    \A t \in Tuners : ChannelOnly(t) => Asks[ReservedFor(t)] \subseteq {DedicatedChannel(t)}

SubscriptionId == [tuner : Tuners, session : Nat, serial : Nat]
Request == [channel : Channels, stream : SUBSET SubscriptionId]
Subscriber == [serial : Nat, user : Users]
Session == [id : Nat, channel : Channels, subs : SUBSET Subscriber, next : Nat]

VARIABLES
    tuner,     \* tuner -> its session, if it is active
    sessions,  \* the session counter shared by all tuners
    stopping,  \* set by the stop hook; requests fail from then on
    call,      \* the Subscribe call the manager awaits, with its user
    req,       \* user -> its StartStreaming request, until it is done with it
    got,       \* user -> the subscription it streams from
    gone,      \* users that dropped their request while it was served
    stops,     \* StopStreaming messages on their way, with their senders
    follow,    \* follower -> the request it repeats
    asked,     \* number of requests sent
    out        \* events the last step emitted

managerVars == <<tuner, sessions, stopping, call>>
userVars == <<req, got, gone, stops, follow, asked>>
vars == <<tuner, sessions, stopping, call, req, got, gone, stops, follow, asked, out>>

Quiet == [status |-> {}, available |-> {}]

Init ==
    /\ tuner = [t \in Tuners |-> {}]
    /\ sessions = 0
    /\ stopping = FALSE
    /\ call = {}
    /\ req = [u \in Users |-> {}]
    /\ got = [u \in Users |-> {}]
    /\ gone = {}
    /\ stops = {}
    /\ follow = [u \in Users |-> {}]
    /\ asked = 0
    /\ out = Quiet

-----------------------------------------------------------------------------
(* Questions the manager asks of a tuner.                                   *)

Active(t) == tuner[t] # {}
SupportsType(t, ch) == TypeOf[ch] \in Supports[t]
(* Fault: the channel of the session is not compared.                       *)
IsReusableOnAnyChannel(t, ch) == ~Exclusive(t) /\ Active(t)
(* Fault: exclusive tuners are shared, too.                                 *)
IsReusableThoughExclusive(t, ch) == \E s \in tuner[t] : s.channel = ch
IsReusable(t, ch) == ~Exclusive(t) /\ \E s \in tuner[t] : s.channel = ch
(* Fault: a channel-restricted tuner serves every channel of its types.     *)
IsAvailableForType(t, ch) ==
    \/ ChannelOnly(t) /\ SupportsType(t, ch)
    \/ Unrestricted(t) /\ ~Active(t) /\ SupportsType(t, ch)
IsAvailableFor(t, ch) ==
    \/ ChannelOnly(t) /\ ch = DedicatedChannel(t)
    \/ Unrestricted(t) /\ ~Active(t) /\ SupportsType(t, ch)
(* Fault: a user of the same priority is evicted.                           *)
OutranksOrEquals(u, t) == \A s \in tuner[t] : \A x \in s.subs : Priority[u] >= Priority[x.user]
Outranks(u, t) == \A s \in tuner[t] : \A x \in s.subs : Priority[u] > Priority[x.user]
CanGrab(t, u) == Unrestricted(t) /\ (Priority[u] = GRAB \/ Outranks(u, t))

ReservedTuners(u) == {t \in Tuners : IsReservedFor(t, u)}
ReusableTuners(ch) == {t \in Tuners : ch \notin Excluded[t] /\ IsReusable(t, ch)}
AvailableTuners(ch) == {t \in Tuners : ch \notin Excluded[t] /\ IsAvailableFor(t, ch)}
GrabbableTuners(u, ch) ==
    {t \in Tuners : SupportsType(t, ch) /\ ch \notin Excluded[t] /\ CanGrab(t, u)}

IsFirst(t, S) == t \in S /\ \A t2 \in S : t <= t2

TopPriority(s) == Max({Priority[x.user] : x \in s.subs})
(* Option<TunerPriority>: an inactive tuner ranks lowest, then the highest  *)
(* priority among the subscribers, then their number.                       *)
RanksBelow(t1, t2) ==
    \/ tuner[t1] = {} /\ tuner[t2] # {}
    \/ \E s1 \in tuner[t1], s2 \in tuner[t2] :
         \/ TopPriority(s1) < TopPriority(s2)
         \/ /\ TopPriority(s1) = TopPriority(s2)
            /\ Cardinality(s1.subs) < Cardinality(s2.subs)
IsLowestRanked(t, S) ==
    /\ t \in S
    /\ \A t2 \in S : ~RanksBelow(t2, t) /\ (RanksBelow(t, t2) \/ t <= t2)

-----------------------------------------------------------------------------
(* The StartStreaming handler.                                              *)

NewSession(ch) == [id |-> sessions, channel |-> ch, subs |-> {}, next |-> 1]
WithSubscriber(s, u) ==
    [id |-> s.id, channel |-> s.channel,
     subs |-> s.subs \cup {[serial |-> s.next, user |-> u]}, next |-> s.next + 1]
IdOf(t, s) == [tuner |-> t, session |-> s.id, serial |-> s.next]

Emit(status, available) == out' = [status |-> status, available |-> available]

(* The request the manager takes from its mailbox.                          *)
Waiting(u) == req[u] # {} /\ got[u] = {}
Serves(u, r) == call = {} /\ ~stopping /\ Waiting(u) /\ r \in req[u]

(* u becomes a subscriber of session s of tuner t and the manager calls the *)
(* broadcaster of s.                                                        *)
Subscribe(t, s, u) ==
    /\ tuner' = [tuner EXCEPT ![t] = {WithSubscriber(s, u)}]
    /\ call' = {[user |-> u, id |-> IdOf(t, s)]}
    /\ UNCHANGED <<stopping, userVars>>

(* The user gets an error.  A follower told TunerUnavailable stops.         *)
Fail(u) ==
    /\ req' = [req EXCEPT ![u] = {}]
    /\ gone' = gone \ {u}
    /\ follow' = [follow EXCEPT ![u] = {}]
    /\ UNCHANGED <<stopping, got, stops, asked>>

(* Rendering a command failed, or spawning the pipeline did after the       *)
(* session number was taken.                                                *)
CannotActivate == sessions' \in {sessions, sessions + 1}

Activate(t, u, r) ==
    /\ tuner[t] = {}   \* TunerActivity::activate panics otherwise
    /\ \/ /\ Subscribe(t, NewSession(r.channel), u)
          /\ sessions' = sessions + 1
          /\ Emit({t}, {})
       \/ /\ CannotActivate
          /\ Fail(u)
          /\ Emit({}, {})
          /\ UNCHANGED <<tuner, call>>

UseSpecifiedTuner(u) == \E r \in req[u] : \E id \in r.stream :
    /\ Serves(u, r)
    /\ \E s \in tuner[id.tuner] :
         /\ \E x \in s.subs : x.serial = id.serial
         /\ Subscribe(id.tuner, s, u)
    /\ Emit({id.tuner}, {})
    /\ UNCHANGED sessions

SpecifiedTunerLost(u) == \E r \in req[u] : \E id \in r.stream :
    /\ Serves(u, r)
    /\ \A s \in tuner[id.tuner] : \A x \in s.subs : x.serial # id.serial
    /\ Fail(u)
    /\ Emit({}, {})
    /\ UNCHANGED <<tuner, sessions, call>>

UseReservedTuner(u) == \E r \in req[u], t \in Tuners :
    /\ Serves(u, r) /\ r.stream = {}
    /\ IsFirst(t, ReservedTuners(u))
    /\ \/ Activate(t, u, r)
       \/ /\ \E s \in tuner[t] : Subscribe(t, s, u)
          /\ Emit({t}, {})
          /\ UNCHANGED sessions

ReuseActiveTuner(u) == \E r \in req[u], t \in Tuners :
    /\ Serves(u, r) /\ r.stream = {}
    /\ ReservedTuners(u) = {}
    /\ IsFirst(t, ReusableTuners(r.channel))
    /\ \E s \in tuner[t] : Subscribe(t, s, u)
    /\ Emit({t}, {})
    /\ UNCHANGED sessions

UseAvailableTuner(u) == \E r \in req[u], t \in Tuners :
    /\ Serves(u, r) /\ r.stream = {}
    /\ ReservedTuners(u) = {}
    /\ ReusableTuners(r.channel) = {}
    /\ IsFirst(t, AvailableTuners(r.channel))
    /\ Activate(t, u, r)

(* The last resort: the lowest ranked tuner that may be grabbed.            *)
MustGrab(u, r) ==
    /\ Serves(u, r) /\ r.stream = {}
    /\ ReservedTuners(u) = {}
    /\ ReusableTuners(r.channel) = {}
    /\ AvailableTuners(r.channel) = {}

GrabTuner(u) == \E r \in req[u], t \in Tuners :
    /\ MustGrab(u, r)
    /\ IsLowestRanked(t, GrabbableTuners(u, r.channel))
    /\ \/ /\ Subscribe(t, NewSession(r.channel), u)
          /\ sessions' = sessions + 1
          /\ Emit({t}, {})
       \/ \* deactivated, then the activation fails
          /\ CannotActivate
          /\ Fail(u)
          /\ tuner' = [tuner EXCEPT ![t] = {}]
          /\ Emit({t}, {t})
          /\ UNCHANGED call
       \/ \* the filter command cannot be rendered: nothing is deactivated
          /\ Fail(u)
          /\ Emit({}, {})
          /\ UNCHANGED <<tuner, sessions, call>>

NoTunerAvailable(u) == \E r \in req[u] :
    /\ MustGrab(u, r)
    /\ GrabbableTuners(u, r.channel) = {}
    /\ Fail(u)
    /\ Emit({}, {})
    /\ UNCHANGED <<tuner, sessions, call>>

RefusedInShutdown(u) ==
    /\ stopping /\ call = {} /\ Waiting(u)
    /\ Fail(u)
    /\ Emit({}, {})
    /\ UNCHANGED <<tuner, sessions, call>>

(* The reply of Subscribe.  A user that dropped its request never sees the  *)
(* stream, and there is no trigger yet that would stop it.                  *)
SubscribeOk == \E c \in call :
    /\ call' = {}
    /\ got' = [got EXCEPT ![c.user] = IF c.user \in gone THEN {} ELSE {c.id}]
    /\ req' = [req EXCEPT ![c.user] = IF c.user \in gone THEN {} ELSE @]
    /\ gone' = gone \ {c.user}
    /\ Emit({}, {})
    /\ UNCHANGED <<tuner, sessions, stopping, stops, follow, asked>>

(* "Broadcaster may have stopped": deactivate_tuner.  A follower goes on.   *)
SubscribeFailed == \E c \in call :
    /\ call' = {}
    /\ tuner' = [tuner EXCEPT ![c.id.tuner] = {}]
    /\ req' = [req EXCEPT ![c.user] = {}]
    /\ gone' = gone \ {c.user}
    /\ Emit({c.id.tuner}, {c.id.tuner})
    /\ UNCHANGED <<sessions, stopping, got, stops, follow, asked>>

-----------------------------------------------------------------------------
(* The StopStreaming handler.  TunerActivity::unsubscript deactivates a     *)
(* tuner left without subscribers; an id of another session is an error,    *)
(* after which nothing is emitted.                                          *)

Remaining(s) == IF s.subs = {} THEN {} ELSE {s}
(* Fault: the subscriber stays in the map.                                  *)
WithoutSubscriberForgotten(s, n) == s
WithoutSubscriber(s, n) == [s EXCEPT !.subs = {x \in @ : x.serial # n}]

IgnoreStop(m) ==
    /\ stopping \/ tuner[m.id.tuner] = {}
    /\ Emit({}, {})
    /\ UNCHANGED tuner

StopUnmatched(m) == \E s \in tuner[m.id.tuner] :
    /\ ~stopping /\ s.id # m.id.session
    /\ tuner' = [tuner EXCEPT ![m.id.tuner] = Remaining(s)]
    /\ Emit({}, {})

(* Fault: TunerAvailable is not emitted.                                    *)
StopMatchedQuietly(m) == \E s \in tuner[m.id.tuner] :
    /\ ~stopping /\ s.id = m.id.session
    /\ tuner' = [tuner EXCEPT ![m.id.tuner] = Remaining(WithoutSubscriber(s, m.id.serial))]
    /\ Emit({m.id.tuner}, {})

StopMatched(m) == \E s \in tuner[m.id.tuner] :
    LET left == Remaining(WithoutSubscriber(s, m.id.serial)) IN
    /\ ~stopping /\ s.id = m.id.session
    /\ tuner' = [tuner EXCEPT ![m.id.tuner] = left]
    /\ Emit({m.id.tuner}, IF left = {} THEN {m.id.tuner} ELSE {})

StopStreaming(m) ==
    /\ call = {}
    /\ m \in stops
    /\ IgnoreStop(m) \/ StopUnmatched(m) \/ StopMatched(m)
    /\ stops' = stops \ {m}
    /\ UNCHANGED <<sessions, stopping, call, req, got, gone, follow, asked>>

(* TunerManager::stopping.                                                  *)
Shutdown ==
    /\ ~stopping /\ call = {}
    /\ tuner' = [t \in Tuners |-> {}]
    /\ stopping' = TRUE
    /\ Emit({}, {})
    /\ UNCHANGED <<sessions, call, userVars>>

-----------------------------------------------------------------------------
(* The users.                                                               *)

(* A trigger sends its StopStreaming synchronously while the mailbox has    *)
(* room, so it is handled before a later request of the same sender; when   *)
(* the mailbox is full a task sends it later (StopMayLag).                  *)
(* Fault: a tracker does not wait for the task that dropped its trigger.    *)
NothingInFlightUnchecked(u) == TRUE
NothingInFlight(u) == StopMayLag \/ \A m \in stops : m.user # u

RequestStream(u) ==
    /\ req[u] = {} /\ asked < MaxRequests /\ NothingInFlight(u)
    /\ \/ \E ch \in Asks[u] :
             u \notin Followers /\ req' = [req EXCEPT ![u] = {[channel |-> ch, stream |-> {}]}]
       \/ u \in Followers /\ follow[u] # {} /\ req' = [req EXCEPT ![u] = follow[u]]
    /\ asked' = asked + 1
    /\ Emit({}, {})
    /\ UNCHANGED <<managerVars, got, gone, stops, follow>>

(* The future that awaits the reply is dropped: an HTTP client disconnects. *)
CancelRequest(u) ==
    /\ u \in Cancellable \ gone /\ Waiting(u)
    /\ gone' = gone \cup {u}
    /\ Emit({}, {})
    /\ UNCHANGED <<managerVars, req, got, stops, follow, asked>>

(* The stream ended, or its user lost interest: the trigger is dropped.     *)
DropStream(u) == \E id \in got[u] :
    /\ stops' = stops \cup {[id |-> id, user |-> u]}
    /\ got' = [got EXCEPT ![u] = {}]
    /\ req' = [req EXCEPT ![u] = {}]
    /\ Emit({}, {})
    /\ UNCHANGED <<managerVars, gone, follow, asked>>

(* SpawnTemporalTracker: the tracker names the stream of viewer w for the   *)
(* rest of its life.                                                        *)
SpawnFollower(u, w) == \E r \in req[w] :
    /\ got[w] # {} /\ r.stream = {}
    /\ follow[u] = {} /\ req[u] = {}
    /\ follow' = [follow EXCEPT ![u] = {[channel |-> r.channel, stream |-> got[w]]}]
    /\ Emit({}, {})
    /\ UNCHANGED <<managerVars, req, got, gone, stops, asked>>

StartStreaming(u) ==
    \/ UseSpecifiedTuner(u) \/ SpecifiedTunerLost(u)
    \/ UseReservedTuner(u) \/ ReuseActiveTuner(u) \/ UseAvailableTuner(u)
    \/ GrabTuner(u) \/ NoTunerAvailable(u) \/ RefusedInShutdown(u)

UserStep(u) ==
    \/ RequestStream(u)
    \/ CancelRequest(u)
    \/ DropStream(u)

Next ==
    \/ \E u \in Users : StartStreaming(u) \/ UserStep(u)
    \/ SubscribeOk
    \/ SubscribeFailed
    \/ \E m \in stops : StopStreaming(m)
    \/ Shutdown
    \/ \E u \in Followers, w \in Viewers : SpawnFollower(u, w)

Spec == Init /\ [][Next]_vars

-----------------------------------------------------------------------------
(* Properties.                                                              *)

TypeOK ==
    /\ tuner \in [Tuners -> SUBSET Session]
    /\ \A t \in Tuners : \A s1, s2 \in tuner[t] : s1 = s2
    /\ sessions \in Nat
    /\ stopping \in BOOLEAN
    /\ call \subseteq [user : Users, id : SubscriptionId]
    /\ \A c1, c2 \in call : c1 = c2
    /\ req \in [Users -> SUBSET Request]
    /\ \A u \in Users : \A r1, r2 \in req[u] : r1 = r2
    /\ got \in [Users -> SUBSET SubscriptionId]
    /\ \A u \in Users : \A id1, id2 \in got[u] : id1 = id2
    /\ gone \subseteq Users
    /\ stops \subseteq [user : Users, id : SubscriptionId]
    /\ follow \in [Users -> SUBSET Request]
    /\ \A u \in Users : \A r1, r2 \in follow[u] : r1 = r2
    /\ asked \in Nat
    /\ out \in [status : SUBSET Tuners, available : SUBSET Tuners]

(* A tuner whose last subscriber left is released: no session survives      *)
(* without a user that could ever stop it (unsubscript, has_no_subscriber). *)
ActiveTunersServeSomeone == \A t \in Tuners : \A s \in tuner[t] : s.subs # {}

(* A tuner used by an on-air program tracker is "dedicated for the local    *)
(* tracker and never shared with others" (docs/config.md), whatever mix of  *)
(* reuse, reservation, grabbing and stream ids the requests go through.     *)
ExclusiveUse ==
    \A t \in Tuners : Exclusive(t) =>
        \A s \in tuner[t] : \A x \in s.subs : x.user = ReservedFor(t)

(* A timeshift recorder's tuner is tuned only to the channel it is          *)
(* dedicated to or to one that the recorder itself asks for, whatever the   *)
(* others ask for.                                                          *)
DedicatedUse ==
    \A t \in Tuners : ChannelOnly(t) =>
        \A s \in tuner[t] : s.channel \in {DedicatedChannel(t)} \cup Asks[ReservedFor(t)]

(* TunerActivity::activate panics on an active tuner ("Must be deactivated  *)
(* before activating").  is_available_for does not look at the activity of  *)
(* a channel-restricted tuner, so this rests on the reuse tried before it,  *)
(* and on RecordersAskForTheirChannel.                                      *)
ActivatesOnlyInactive ==
    \A u \in Users : \A r \in req[u] :
        (/\ Serves(u, r) /\ r.stream = {}
         /\ ReservedTuners(u) = {} /\ ReusableTuners(r.channel) = {})
        => \A t \in AvailableTuners(r.channel) : ~Active(t)

(* Somebody will send StopStreaming for subscription id.                    *)
Owned(id, u) ==
    \/ id \in got[u]
    \/ [user |-> u, id |-> id] \in call
    \/ [user |-> u, id |-> id] \in stops
OwnedBy(U) ==
    \A t \in Tuners : \A s \in tuner[t] : \A x \in s.subs :
        x.user \in U => Owned([tuner |-> t, session |-> s.id, serial |-> x.serial], x.user)

(* No tuner leaks: every subscription the manager holds has an owner that   *)
(* streams from it, waits for it or has already asked to stop it.  Stated   *)
(* for the users that await the reply of StartStreaming to its end.         *)
SubscriptionsAreOwned == OwnedBy(Users \ Cancellable)

(* The handlers create the stop trigger right after the reply "in order to  *)
(* stop streaming when an error occurs" (web/api/channels/stream.rs), so    *)
(* that no user can leave its tuner behind.                                 *)
EverySubscriptionIsOwned == OwnedBy(Users)

(* A live stream carries the channel its user asked for.  A reserved tuner  *)
(* is used whatever it is tuned to, so this rests on the previous           *)
(* subscription of its user being gone by then, and for a recorder on       *)
(* RecordersAskForTheirChannel.                                             *)
StreamMatchesRequest ==
    \A u \in Users \ Followers : \A id \in got[u], r \in req[u] :
        \A s \in tuner[id.tuner] : s.id = id.session => s.channel = r.channel

(* A temporal tracker ends when the stream it was spawned for has stopped   *)
(* (web/api/programs/stream.rs: it "will stop within 1 minute after the     *)
(* streaming stopped"), so it never streams from another session.           *)
FollowerStaysInItsSession ==
    \A u \in Followers : \A id \in got[u], r \in req[u] :
        \A named \in r.stream : named.session = id.session

-----------------------------------------------------------------------------
(* What the proofs add to the properties to make them inductive.            *)

(* A session number is never handed out twice.                              *)
SessionNumbersAreFresh ==
    /\ \A t \in Tuners : \A s \in tuner[t] : s.id < sessions
    /\ \A u \in Users : \A id \in got[u] : id.session < sessions
    /\ \A c \in call : c.id.session < sessions

(* The user the manager is serving still waits for the reply, and only an   *)
(* HTTP handler can have gone meanwhile.                                    *)
ServedUsersWait ==
    /\ \A c \in call : Waiting(c.user)
    /\ gone \subseteq Cancellable

StoppedManagerHoldsNothing == stopping => \A t \in Tuners : tuner[t] = {}

(* Only followers name streams, the others ask for what they are allowed.   *)
RequestsAreAllowed ==
    \A u \in Users :
        /\ \A r \in follow[u] : u \in Followers /\ r.stream # {}
        /\ \A r \in req[u] : r.stream = {} => r.channel \in Asks[u]
        /\ \A r \in req[u] : r.stream # {} => u \in Followers

(* Nobody but its tracker learns the id of a stream of an exclusive tuner.  *)
ExclusiveIdsStayPrivate ==
    /\ \A u \in Users : \A id \in got[u] :
         Exclusive(id.tuner) => u = ReservedFor(id.tuner)
    /\ \A c \in call : Exclusive(c.id.tuner) => c.user = ReservedFor(c.id.tuner)
    /\ \A u \in Users : \A r \in req[u] \cup follow[u] : \A id \in r.stream :
         ~Exclusive(id.tuner)

(* Unless stops may lag, no user asks again before its stop was handled.    *)
StopsPrecedeRequests ==
    ~StopMayLag => \A u \in Users : req[u] # {} => \A m \in stops : m.user # u

StreamsHaveRequests == \A u \in Users : got[u] # {} => req[u] # {}

(* StreamMatchesRequest, already while the broadcaster is called.           *)
CallMatchesRequest ==
    \A c \in call : c.user \notin Followers =>
        \A r \in req[c.user] : \A s \in tuner[c.id.tuner] :
            s.id = c.id.session => s.channel = r.channel

UseInv == DedicatedUse /\ ExclusiveUse /\ RequestsAreAllowed /\ ExclusiveIdsStayPrivate
OwnerInv ==
    /\ ActiveTunersServeSomeone /\ StoppedManagerHoldsNothing
    /\ ServedUsersWait /\ SubscriptionsAreOwned
ChannelInv ==
    /\ SessionNumbersAreFresh /\ StreamsHaveRequests /\ StopsPrecedeRequests
    /\ ~StopMayLag /\ RecordersAskForTheirChannel => StreamMatchesRequest /\ CallMatchesRequest
IInv == TypeOK /\ UseInv /\ OwnerInv /\ ChannelInv

-----------------------------------------------------------------------------
(* What a step may not do.                                                  *)

(* A session ends only at shutdown, when its own last subscriber stops,     *)
(* when its broadcaster is found dead, or when it is grabbed: by a request  *)
(* that outranks all its users (or has priority 128), on a tuner that is    *)
(* not dedicated, with no tuner to reuse or to open, and no tuner with a    *)
(* lower top priority to grab instead.                                      *)
Ends(s, t) == \A s2 \in tuner'[t] : s2.id # s.id
GrabIsJustified(u, t, s) == \E r \in req[u] :
    /\ Waiting(u)
    /\ Unrestricted(t)
    /\ \A x \in s.subs : Priority[u] = GRAB \/ Priority[u] > Priority[x.user]
    /\ \A t2 \in Tuners : r.channel \notin Excluded[t2] =>
         /\ ~(IsReusable(t2, r.channel) \/ IsAvailableFor(t2, r.channel))
         /\ CanGrab(t2, u) /\ SupportsType(t2, r.channel) =>
              \A s2 \in tuner[t2] : TopPriority(s) <= TopPriority(s2)
SessionsEndForAReason ==
    [][\A t \in Tuners : \A s \in tuner[t] : Ends(s, t) =>
         \/ stopping'
         \/ \E c \in call : c.id.tuner = t /\ call' = {}
         \/ \E m \in stops \ stops' :
              m.id.session = s.id /\ \A x \in s.subs : x.serial = m.id.serial
         \/ \E u \in Users : GrabIsJustified(u, t, s)]_vars

(* Whoever waits for a tuner hears of each one that becomes free            *)
(* (RegisterEmitter::TunerAvailable), except at shutdown.                   *)
AvailabilityIsAnnounced ==
    [][\A t \in Tuners : Active(t) /\ tuner'[t] = {} /\ ~stopping'
         => t \in out'.available]_vars

(* Whoever watches the tuners (RegisterEmitter::TunerStatusChanged) hears   *)
(* of every change of a tuner's users.                                      *)
StatusIsAnnounced ==
    [][\A t \in Tuners : tuner'[t] # tuner[t] /\ ~stopping' => t \in out'.status]_vars
=============================================================================
