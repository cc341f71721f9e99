------------------------------ MODULE Streaming ------------------------------
(***************************************************************************)
(* The tuner manager, its users and the broadcasters of its sessions: each *)
(* step of the manager also delivers the messages it sends to a            *)
(* broadcaster, and the outcome of its Subscribe call is the broadcaster's.*)
(* A tuner process is represented by the task that reads its output        *)
(* (ChunkSource).                                                          *)
(***************************************************************************)
EXTENDS TunerManager, Sequences

B == INSTANCE Broadcaster

CONSTANT SourceMayEnd   \* a tuner command may exit or stall on its own

ASSUME SourceAssumption == SourceMayEnd \in BOOLEAN

VARIABLES
    bc,         \* session number -> its broadcaster
    source,     \* session number -> state of its ChunkSource task
    shutdown    \* System::shutdown was called

streamVars == <<bc, source, shutdown>>
allVars == <<vars, streamVars>>

SessionIds == 0..MaxRequests

StreamInit ==
    /\ Init
    /\ bc = [n \in SessionIds |-> B!Absent]
    /\ source = [n \in SessionIds |-> "none"]
    /\ shutdown = FALSE

Current(n) == \E t \in Tuners : \E s \in tuner[t] : s.id = n

-----------------------------------------------------------------------------
(* Steps of the manager.                                                    *)

(* TunerSession::new spawns the broadcaster and sends BindStream.           *)
Opened(n) ==
    IF bc[n].phase # "absent" THEN bc[n]
    ELSE IF shutdown THEN B!Dummy ELSE B!Send(B!Spawned, B!BindStream)

HandleStartStreaming ==
    /\ \E u \in Users : StartStreaming(u)
    /\ bc' = [n \in SessionIds |->
                IF \E c \in call' : c.id.session = n
                THEN B!Send(Opened(n), B!Subscribe((CHOOSE c \in call' : TRUE).id.serial))
                ELSE bc[n]]
    /\ UNCHANGED <<source, shutdown>>

SubscribeReplied ==
    /\ \E c \in call : c.id.serial \in bc[c.id.session].subscribers
    /\ SubscribeOk
    /\ UNCHANGED streamVars

(* Fault: a broadcaster that panicked keeps the manager waiting.            *)
SubscribeLostIfClosed ==
    /\ \E c \in call : bc[c.id.session].phase = "closed"
    /\ SubscribeFailed
    /\ UNCHANGED streamVars

(* Error::Send or Error::Recv: the actor is gone.                           *)
SubscribeLost ==
    /\ \E c \in call : ~B!Receives(bc[c.id.session])
    /\ SubscribeFailed
    /\ UNCHANGED streamVars

(* Fault: the broadcaster is not told.                                      *)
HandleStopStreamingSilently == \E m \in stops :
    StopStreaming(m) /\ UNCHANGED streamVars

(* TunerSession::unsubscribe sends Unsubscribe when the session matches.    *)
HandleStopStreaming == \E m \in stops :
    /\ StopStreaming(m)
    /\ bc' = IF \E s \in tuner[m.id.tuner] : ~stopping /\ s.id = m.id.session
             THEN [bc EXCEPT ![m.id.session] = B!Send(@, B!Unsubscribe(m.id.serial))]
             ELSE bc
    /\ UNCHANGED <<source, shutdown>>

StopManager ==
    /\ shutdown
    /\ Shutdown
    /\ UNCHANGED streamVars

-----------------------------------------------------------------------------
(* Steps of broadcaster n and of its ChunkSource.                           *)

BroadcasterStep(n) ==
    /\ B!Receives(bc[n]) /\ bc[n].mailbox # <<>>
    /\ bc' = [bc EXCEPT ![n] = B!Handle(@)]
    /\ source' = IF Head(bc[n].mailbox) = B!BindStream /\ bc'[n].phase # "panicked"
                 THEN [source EXCEPT ![n] = "reading"] ELSE source
    /\ Emit({}, {})
    /\ UNCHANGED <<managerVars, userVars, shutdown>>

(* EOF, a read error or the time limit.  Dropping the session kills the     *)
(* tuner process.  Without a broadcaster the task just ends.                *)
SourceEnds(n) ==
    /\ source[n] = "reading"
    /\ SourceMayEnd \/ ~Current(n) \/ ~B!Receives(bc[n])
    /\ source' = [source EXCEPT ![n] = "ended"]
    /\ bc' = [bc EXCEPT ![n] = B!Send(@, B!StreamEnded)]
    /\ Emit({}, {})
    /\ UNCHANGED <<managerVars, userVars, shutdown>>

(* The message loop ends after its mailbox stayed empty for a while.        *)
CloseBroadcaster(n) ==
    /\ bc[n].phase = "stopping" /\ bc[n].mailbox = <<>>
    /\ bc' = [bc EXCEPT ![n] = B!Blank("closed")]
    /\ Emit({}, {})
    /\ UNCHANGED <<managerVars, userVars, source, shutdown>>

(* The promoter sends Stop to every actor.                                  *)
SystemShutdown ==
    /\ ~shutdown
    /\ shutdown' = TRUE
    /\ Emit({}, {})
    /\ UNCHANGED <<managerVars, userVars, bc, source>>
StopBroadcaster(n) ==
    /\ shutdown /\ bc[n].phase = "running"
    /\ bc' = [bc EXCEPT ![n].phase = "stopping"]
    /\ Emit({}, {})
    /\ UNCHANGED <<managerVars, userVars, source, shutdown>>

-----------------------------------------------------------------------------
(* The users see the end of their stream when the sender is dropped.        *)

StreamClosed(u) == \E id \in got[u] : id.serial \notin bc[id.session].senders

UserActs(u) == UserStep(u) /\ UNCHANGED streamVars
Follow == \E u \in Followers, w \in Viewers : SpawnFollower(u, w) /\ UNCHANGED streamVars

Manager ==
    HandleStartStreaming \/ SubscribeReplied \/ SubscribeLost \/ HandleStopStreaming \/ StopManager

StreamNext ==
    \/ Manager
    \/ \E n \in SessionIds :
         BroadcasterStep(n) \/ SourceEnds(n) \/ CloseBroadcaster(n) \/ StopBroadcaster(n)
    \/ \E u \in Users : UserActs(u)
    \/ Follow
    \/ SystemShutdown

(* Actors and tasks run when they have something to do; a user whose stream *)
(* ended drops it.  Nobody has to send a request, to leave a stream that    *)
(* goes on, or to shut the system down.                                     *)
Fairness ==
    /\ WF_allVars(Manager)
    /\ \A n \in SessionIds :
         /\ WF_allVars(BroadcasterStep(n))
         /\ WF_allVars(~Current(n) /\ SourceEnds(n))
         /\ WF_allVars(CloseBroadcaster(n))
         /\ WF_allVars(StopBroadcaster(n))
    /\ \A u \in Users : WF_allVars(StreamClosed(u) /\ DropStream(u) /\ UNCHANGED streamVars)

StreamSpec == StreamInit /\ [][StreamNext]_allVars
FairStreamSpec == StreamSpec /\ Fairness

-----------------------------------------------------------------------------
(* Properties.                                                              *)

StreamTypeOK ==
    /\ TypeOK
    /\ bc \in [SessionIds -> B!Broadcasters]
    /\ source \in [SessionIds -> {"none", "reading", "ended"}]
    /\ shutdown \in BOOLEAN

(* Between two requests, every subscription the manager counts on a tuner   *)
(* is a subscriber of the live broadcaster of that tuner's session, except  *)
(* while the system shuts down: the two lists of subscribers agree although *)
(* each is updated by messages of its own.                                  *)
SubscribersAgree ==
    call = {} /\ ~shutdown =>
        \A t \in Tuners : \A s \in tuner[t] :
            /\ bc[s.id].phase = "running"
            /\ {x.serial : x \in s.subs} \subseteq bc[s.id].subscribers
            /\ \A n \in bc[s.id].subscribers \ {x.serial : x \in s.subs} :
                 \E i \in 1..Len(bc[s.id].mailbox) : bc[s.id].mailbox[i] = B!Unsubscribe(n)

(* Broadcaster::subscribe asserts that its stream is bound                  *)
(* (broadcaster.rs, assert!(self.stream_bound)), and the other handlers     *)
(* assert that binding and unbinding alternate.                             *)
NoAssertionFails == \A n \in SessionIds : bc[n].phase # "panicked"

(* Every request is answered: a dead broadcaster never blocks the manager.  *)
RequestsAreAnswered == \A u \in Users : Waiting(u) ~> ~Waiting(u)

(* A tuner whose process died is released: its users see the end of their   *)
(* streams and stop them, or the next request meets the dead broadcaster.   *)
DeadTunersAreReleased ==
    \A n \in SessionIds : (Current(n) /\ source[n] = "ended") ~> ~Current(n)

(* A broadcaster ends after its session: the manager "does NOT leak memory" *)
(* (docs/notes.md), so no actor stays behind waiting for an Unsubscribe.    *)
BroadcastersEnd ==
    \A n \in SessionIds :
        (bc[n].phase # "absent" /\ ~Current(n)) ~> bc[n].phase \in {"closed", "panicked"}
=============================================================================
