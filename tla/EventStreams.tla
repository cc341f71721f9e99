---------------------------- MODULE EventStreams ----------------------------
(***************************************************************************)
(* The event streams of the Web API (mirakc-core/src/web/sse.rs) and the   *)
(* emitter registries of the managers they listen to (EmitterRegistry in   *)
(* actlet/src/lib.rs).                                                     *)
(*                                                                         *)
(* A client of GET /events registers one emitter after the other, several  *)
(* with the same manager, which has a registry for each kind of event.     *)
(* All its emitters feed one bounded channel, which is read only once all  *)
(* are registered; a manager that emits into a full channel waits.  What   *)
(* is ongoing is told to a new emitter by the manager after its reply, or  *)
(* by a task.  The first manager also serves calls of the others           *)
(* (StartStreaming), and emits events before it replies.                   *)
(***************************************************************************)
EXTENDS Integers, Sequences, FiniteSets, FiniteSetsExt

CONSTANTS
    Managers,     \* the registries in the order of registration: the manager of each
    Telling,      \* how a registry's new emitter is told what is ongoing:
                  \* "post" in a post-process, "task" by a task, "none" not at all
    Clients,      \* connections; each is made at most once
    Cancellable,  \* clients that may disconnect while they register
    Capacity,     \* EmitterRegistry: room for emitters
    Channel,      \* room in the channel of a client
    Ongoing,      \* what a new emitter is told of: active tuners, services, recorders
    MaxEvents,    \* bound on the other events
    MaxCalls,     \* bound on the calls to the first manager
    MayStop       \* the managers may be stopped

M == DOMAIN Managers                    \* the registries
Actors == {Managers[m] : m \in M}
TunerManager == Managers[1]
Callers == Actors \ {TunerManager}
Ids == 0..Capacity                      \* register() returns 0 if there is no room

ASSUME EventsAssumption ==
    /\ Managers \in Seq(STRING) /\ Managers # <<>>
    /\ Cancellable \subseteq Clients
    /\ {Capacity, Channel, MaxEvents, MaxCalls} \subseteq Nat
    /\ Capacity > 0 /\ Channel > 0
    /\ Telling \in [M -> {"post", "task", "none"}] /\ Ongoing \in [M -> Nat]
    /\ MayStop \in BOOLEAN

VARIABLES
    emitters,   \* registry -> registered emitters, [id, client]
    nextId,     \* registry -> EmitterRegistry::next_id
    todo,       \* registry -> client -> messages its manager is still sending to it
    tasks,      \* registry -> client -> messages a task is still sending to it
    post,       \* managers whose post-process was set and not taken
    awaits,     \* managers that await the reply of the tuner manager
    serving,    \* the call the tuner manager handles: its sender
    stopped,    \* managers that left their message loop
    inbox,      \* registry -> clients whose RegisterEmitter was not handled
    unregister, \* registry -> UnregisterEmitter messages, [id, client]
    at,         \* client -> number of its requests that were replied to
    phase,      \* client -> "new", "registering", "streaming" or "gone"
    ids,        \* client -> ids it got so far
    channel,    \* client -> messages in its channel
    panicked,   \* assertions that failed
    events, calls

vars == <<emitters, nextId, todo, tasks, post, awaits, serving, stopped, inbox,
          unregister, at, phase, ids, channel, panicked, events, calls>>

Init ==
    /\ emitters = [m \in M |-> {}]
    /\ nextId = [m \in M |-> 1]
    /\ todo = [m \in M |-> [c \in Clients |-> 0]]
    /\ tasks = [m \in M |-> [c \in Clients |-> 0]]
    /\ post = {}
    /\ awaits = {}
    /\ serving = {}
    /\ stopped = {}
    /\ inbox = [m \in M |-> {}]
    /\ unregister = [m \in M |-> {}]
    /\ at = [c \in Clients |-> 0]
    /\ phase = [c \in Clients |-> "new"]
    /\ ids = [c \in Clients |-> <<>>]
    /\ channel = [c \in Clients |-> 0]
    /\ panicked = {}
    /\ events = 0
    /\ calls = 0

-----------------------------------------------------------------------------
(* EmitterRegistry.                                                         *)

Registered(m) == {e.id : e \in emitters[m]}
Full(m) == Cardinality(emitters[m]) = Capacity
Successor(id) == IF id = Capacity THEN 1 ELSE id + 1
(* Faults: the next number is taken though it may be in use; the emitters   *)
(* are numbered by their count.                                             *)
UniqueIdUnchecked(m) == nextId[m]
UniqueIdByCount(m) == Cardinality(emitters[m]) + 1
(* unique_id(): the first number from next_id on that is not in use.        *)
UniqueId(m) ==
    LET free(k) == ((nextId[m] - 1 + k) % Capacity) + 1 IN
    free(Min({k \in 0..(Capacity - 1) : free(k) \notin Registered(m)}))

(* A manager handles its next message when it has sent everything.          *)
Sending(a) == \E m \in M, c \in Clients : Managers[m] = a /\ todo[m][c] > 0
Idle(a) ==
    /\ ~Sending(a) /\ a \notin awaits /\ panicked = {}
    /\ a = TunerManager => serving = {}

(* emit(): one message for each emitter, each waits for room in its channel.*)
Broadcast(m) ==
    todo' = [todo EXCEPT ![m] =
        [c \in Clients |-> Cardinality({e \in emitters[m] : e.client = c})]]

Arrives(c) ==
    /\ phase[c] = "gone" \/ channel[c] < Channel
    /\ channel' = IF phase[c] = "gone" THEN channel ELSE [channel EXCEPT ![c] = @ + 1]

Send(m, c) ==
    /\ todo[m][c] > 0 /\ Arrives(c)
    /\ todo' = [todo EXCEPT ![m][c] = @ - 1]
    /\ UNCHANGED <<emitters, nextId, tasks, post, awaits, serving, stopped, inbox,
                   unregister, at, phase, ids, panicked, events, calls>>

(* A task of a manager (Context::spawn_task) ends when its manager stops.   *)
SendTask(m, c) ==
    /\ tasks[m][c] > 0
    /\ \/ Arrives(c) /\ tasks' = [tasks EXCEPT ![m][c] = @ - 1]
       \/ Managers[m] \in stopped /\ tasks' = [tasks EXCEPT ![m][c] = 0] /\ UNCHANGED channel
    /\ UNCHANGED <<emitters, nextId, todo, post, awaits, serving, stopped, inbox,
                   unregister, at, phase, ids, panicked, events, calls>>

-----------------------------------------------------------------------------
(* The RegisterEmitter handlers.  A task is spawned in the handler; a       *)
(* post-process runs after the reply, which lets the client ask the same    *)
(* manager again.  The loop that drains the mailbox of a stopping actor     *)
(* does not run post-processes.                                             *)

Reply(m, c, id) ==
    IF phase[c] = "gone" THEN UNCHANGED <<at, phase, ids>> ELSE
    /\ ids' = [ids EXCEPT ![c] = Append(@, id)]
    /\ at' = [at EXCEPT ![c] = m]
    /\ phase' = [phase EXCEPT ![c] = IF m = Len(Managers) THEN "streaming" ELSE "registering"]

(* The client's next request, if there is another registry.                 *)
NextRequest(m, c) ==
    inbox' = [k \in M |->
        CASE k = m -> inbox[k] \ {c}
          [] k = m + 1 /\ phase[c] # "gone" -> inbox[k] \cup {c}
          [] OTHER -> inbox[k]]

RegisterFull(m, c) ==
    /\ Full(m)
    /\ Reply(m, c, 0)
    /\ UNCHANGED <<emitters, nextId, post, todo, panicked>>

(* Fault: what is ongoing is told before the reply, in the handler.         *)
TellOngoingFirst(m, c) ==
    /\ channel[c] + Ongoing[m] <= Channel
    /\ todo' = [todo EXCEPT ![m][c] = Ongoing[m]]
    /\ UNCHANGED <<post, panicked>>
TellOngoing(m, c) ==
    IF Telling[m] # "post" THEN UNCHANGED <<todo, post, panicked>>
    ELSE IF Managers[m] \in stopped
         THEN /\ post' = post \cup {Managers[m]}
              /\ panicked' = IF Managers[m] \in post THEN panicked \cup {"post_process"} ELSE panicked
              /\ UNCHANGED todo
         ELSE /\ todo' = [todo EXCEPT ![m][c] = Ongoing[m]]
              /\ UNCHANGED <<post, panicked>>
SpawnTask(m, c) ==
    tasks' = IF Telling[m] = "task" THEN [tasks EXCEPT ![m][c] = Ongoing[m]] ELSE tasks

RegisterOk(m, c) ==
    LET id == UniqueId(m) IN
    /\ ~Full(m)
    /\ emitters' = [emitters EXCEPT ![m] =
           {e \in @ : e.id # id} \cup {[id |-> id, client |-> c]}]
    /\ nextId' = [nextId EXCEPT ![m] = Successor(id)]
    /\ TellOngoing(m, c)
    /\ Reply(m, c, id)

RegisterEmitter(m, c) ==
    /\ Idle(Managers[m]) /\ c \in inbox[m]
    /\ NextRequest(m, c) /\ SpawnTask(m, c)
    /\ IF Full(m) THEN RegisterFull(m, c) ELSE RegisterOk(m, c)
    /\ UNCHANGED <<awaits, serving, stopped, unregister, channel, events, calls>>

RemoveEmitter(m, u) == emitters' = [emitters EXCEPT ![m] = {e \in @ : e.id # u.id}]

(* unregister() asserts that the id is registered.                          *)
UnregisterEmitter(m, u) ==
    /\ Idle(Managers[m]) /\ u \in unregister[m]
    /\ unregister' = [unregister EXCEPT ![m] = @ \ {u}]
    /\ IF u.id \in Registered(m)
         THEN RemoveEmitter(m, u) /\ UNCHANGED panicked
         ELSE panicked' = panicked \cup {"unregister"} /\ UNCHANGED emitters
    /\ UNCHANGED <<nextId, todo, tasks, post, awaits, serving, stopped, inbox, at,
                   phase, ids, channel, events, calls>>

-----------------------------------------------------------------------------
(* Other work of the managers.                                              *)

Emit(m) ==
    /\ Idle(Managers[m]) /\ events < MaxEvents
    /\ Broadcast(m)
    /\ events' = events + 1
    /\ UNCHANGED <<emitters, nextId, tasks, post, awaits, serving, stopped, inbox,
                   unregister, at, phase, ids, channel, panicked, calls>>

Call(a) ==
    /\ a \in Callers /\ Idle(a) /\ calls < MaxCalls
    /\ awaits' = awaits \cup {a}
    /\ calls' = calls + 1
    /\ UNCHANGED <<emitters, nextId, todo, tasks, post, serving, stopped, inbox,
                   unregister, at, phase, ids, channel, panicked, events>>

(* StartStreaming: the change of the tuner is announced before the reply.   *)
HandleCall(a) ==
    /\ a \in awaits /\ Idle(TunerManager)
    /\ serving' = {a}
    /\ Broadcast(1)
    /\ UNCHANGED <<emitters, nextId, tasks, post, awaits, stopped, inbox, unregister,
                   at, phase, ids, channel, panicked, events, calls>>

ReplyCall(a) ==
    /\ a \in serving /\ ~Sending(TunerManager)
    /\ serving' = {}
    /\ awaits' = awaits \ {a}
    /\ UNCHANGED <<emitters, nextId, todo, tasks, post, stopped, inbox, unregister,
                   at, phase, ids, channel, panicked, events, calls>>

Stop(a) ==
    /\ MayStop /\ a \notin stopped /\ Idle(a)
    /\ stopped' = stopped \cup {a}
    /\ UNCHANGED <<emitters, nextId, todo, tasks, post, awaits, serving, inbox,
                   unregister, at, phase, ids, channel, panicked, events, calls>>

-----------------------------------------------------------------------------
(* The clients.                                                             *)

Connect(c) ==
    /\ phase[c] = "new" /\ stopped = {}
    /\ phase' = [phase EXCEPT ![c] = "registering"]
    /\ inbox' = [inbox EXCEPT ![1] = @ \cup {c}]
    /\ UNCHANGED <<emitters, nextId, todo, tasks, post, awaits, serving, stopped,
                   unregister, at, ids, channel, panicked, events, calls>>

Read(c) ==
    /\ phase[c] = "streaming" /\ channel[c] > 0
    /\ channel' = [channel EXCEPT ![c] = @ - 1]
    /\ UNCHANGED <<emitters, nextId, todo, tasks, post, awaits, serving, stopped, inbox,
                   unregister, at, phase, ids, panicked, events, calls>>

(* Fault: only the first trigger is kept.                                   *)
DropFirstTrigger(c) ==
    unregister' = [m \in M |->
        IF m = 1 /\ at[c] >= 1 THEN unregister[m] \cup {[id |-> ids[c][m], client |-> c]}
                               ELSE unregister[m]]
(* The triggers of the emitters registered so far are dropped.              *)
DropTriggers(c) ==
    unregister' = [m \in M |->
        IF m <= at[c] THEN unregister[m] \cup {[id |-> ids[c][m], client |-> c]}
                      ELSE unregister[m]]

(* The stream is dropped, or the handler while it awaits a reply; a request *)
(* it has sent is still handled.                                            *)
Disconnect(c) ==
    /\ \/ phase[c] = "streaming"
       \/ phase[c] = "registering" /\ c \in Cancellable
    /\ DropTriggers(c)
    /\ phase' = [phase EXCEPT ![c] = "gone"]
    /\ channel' = [channel EXCEPT ![c] = 0]
    /\ UNCHANGED <<emitters, nextId, todo, tasks, post, awaits, serving, stopped, inbox,
                   at, ids, panicked, events, calls>>

RegistryStep(m) ==
    \/ \E c \in Clients : Send(m, c) \/ SendTask(m, c) \/ RegisterEmitter(m, c)
    \/ \E u \in unregister[m] : UnregisterEmitter(m, u)
    \/ Emit(m)
ManagerStep(a) == Call(a) \/ HandleCall(a) \/ ReplyCall(a) \/ Stop(a)
ClientStep(c) == Connect(c) \/ Read(c) \/ Disconnect(c)

Next ==
    \/ \E m \in M : RegistryStep(m)
    \/ \E a \in Actors : ManagerStep(a)
    \/ \E c \in Clients : ClientStep(c)

Spec == Init /\ [][Next]_vars

(* A manager handles its messages in order of arrival, so none waits for    *)
(* ever; a client reads its stream.  Every message is handled once and      *)
(* their number is finite, so it is enough that one of those that can be    *)
(* handled again and again is.                                              *)
Fairness ==
    /\ WF_vars(\E m \in M, c \in Clients : Send(m, c) \/ SendTask(m, c))
    /\ SF_vars(\E m \in M, c \in Clients : RegisterEmitter(m, c))
    /\ SF_vars(\E a \in Actors : HandleCall(a)) /\ WF_vars(\E a \in Actors : ReplyCall(a))
    /\ WF_vars(\E c \in Clients : Read(c))
FairSpec == Spec /\ Fairness

-----------------------------------------------------------------------------
(* Properties.                                                              *)

TypeOK ==
    /\ emitters \in [M -> SUBSET [id : 1..Capacity, client : Clients]]
    /\ \A m \in M : \A e1, e2 \in emitters[m] : e1.id = e2.id => e1 = e2
    /\ nextId \in [M -> 1..Capacity]
    /\ todo \in [M -> [Clients -> Nat]] /\ tasks \in [M -> [Clients -> Nat]]
    /\ post \subseteq Actors /\ awaits \subseteq Callers
    /\ serving \subseteq Callers /\ stopped \subseteq Actors
    /\ inbox \in [M -> SUBSET Clients]
    /\ unregister \in [M -> SUBSET [id : Ids, client : Clients]]
    /\ at \in [Clients -> 0..Len(Managers)]
    /\ phase \in [Clients -> {"new", "registering", "streaming", "gone"}]
    /\ ids \in [Clients -> Seq(Ids)] /\ \A c \in Clients : Len(ids[c]) = at[c]
    /\ channel \in [Clients -> 0..Channel]
    /\ panicked \subseteq {"unregister", "post_process"}

(* The assertion of EmitterRegistry::unregister ("contains_key") holds      *)
(* unless a client found no room, and that of Context::set_post_process     *)
(* ("is_none") always.                                                      *)
UnregistersAreMatched ==
    "unregister" \in panicked => \E c \in Clients, m \in M : m <= at[c] /\ ids[c][m] = 0
PostProcessesAreTaken == "post_process" \notin panicked

(* A registered emitter belongs to a client that is connected, or that has  *)
(* asked to unregister it: the stream holds the triggers "in order to       *)
(* unregister emitters" (web/sse.rs), so no slot of a registry is lost.     *)
EmittersAreOwned ==
    \A m \in M : \A e \in emitters[m] :
        \/ phase[e.client] # "gone" /\ at[e.client] >= m /\ ids[e.client][m] = e.id
        \/ e \in unregister[m]

(* An emitter keeps its number until its client asks to unregister it: a    *)
(* number is not given to a second client meanwhile (unique_id).            *)
EmittersKeepTheirNumbers ==
    [][\A m \in M : \A e \in emitters[m] : e \in emitters'[m] \/ e \in unregister[m]]_vars

(* The manager that a connecting client waits for waits for room in the     *)
(* client's channel, which is read only after the connection.               *)
WaitForEachOther(a, c) ==
    /\ phase[c] = "registering" /\ channel[c] = Channel
    /\ \E m \in M : Managers[m] = a /\ c \in inbox[m]
    /\ \E m \in M : Managers[m] = a /\ todo[m][c] > 0

(* Whoever connects gets its stream, though managers wait for room in its   *)
(* channel meanwhile ("We can solve the deadlock by ... performing it after *)
(* sending a reply", actlet/src/lib.rs), unless a manager stops, panics,    *)
(* waits for another one, or is asked again by a client for whose channel   *)
(* it waits.                                                                *)
ConnectionsComplete ==
    \A c \in Clients :
        phase[c] = "registering" ~>
            \/ phase[c] # "registering" \/ stopped # {} \/ panicked # {} \/ calls > 0
            \/ \E a \in Actors, d \in Clients : WaitForEachOther(a, d)

(* The same as the comment has it; see the README for a client that asks a  *)
(* manager again.                                                           *)
ConnectionsAlwaysComplete ==
    \A c \in Clients :
        phase[c] = "registering" ~>
            (phase[c] # "registering" \/ stopped # {} \/ panicked # {} \/ calls > 0)
=============================================================================
