-------------------------- MODULE EventStreamsProofs --------------------------
(***************************************************************************)
(* Proofs about EventStreams for every sequence of registries, every set of*)
(* clients, and every size of the registries and of the channels.          *)
(*                                                                         *)
(* A number that is free exists unless the registry is full (FreeNumber):  *)
(* that is arithmetic modulo the capacity and a count of the emitters.     *)
(* With it, registering removes nobody's emitter, and what a client knows  *)
(* of its emitters agrees with the registries (OwnershipInv).              *)
(***************************************************************************)
EXTENDS EventStreams, FiniteSetTheorems, WellFoundedInduction, TLAPS

-----------------------------------------------------------------------------
(* The numbers of the emitters.                                             *)

LEMMA MinOfNaturals ==
    ASSUME NEW S, S \subseteq Nat, S # {}
    PROVE  Min(S) \in S /\ \A n \in S : Min(S) <= n
<1> DEFINE Less == {ss \in Nat \X Nat : ss[1] < ss[2]}
<1>1. IsWellFoundedOn(Less, Nat)
  BY NatLessThanWellFounded DEF OpToRel
<1>2. \A x, y \in Nat : <<x, y>> \in Less <=> x < y
  OBVIOUS
<1> HIDE DEF Less
<1>3. PICK x \in S : \A y \in S : ~(<<y, x>> \in Less)
  BY <1>1, WFMin
<1>4. \A y \in S : x <= y
  <2> TAKE y \in S
  <2>1. x \in Nat /\ y \in Nat
    OBVIOUS
  <2>2. ~(y < x)
    BY <1>2, <1>3, <2>1
  <2> QED
    BY <2>1, <2>2
<1> QED
  BY <1>4 DEF Min

(* Counting on from n, modulo C, reaches every number of 1..C.              *)
LEMMA CountingReaches ==
    ASSUME NEW C \in Nat, C > 0, NEW n \in 1..C, NEW j \in 1..C
    PROVE  \E k \in 0..(C - 1) : ((n - 1 + k) % C) + 1 = j
<1>1. (j - 1) % C = j - 1 /\ (C + (j - 1)) % C = j - 1
  OBVIOUS
<1>2. CASE j >= n
  <2>1. j - n \in 0..(C - 1) /\ n - 1 + (j - n) = j - 1
    BY <1>2
  <2>2. ((n - 1 + (j - n)) % C) + 1 = j
    BY <1>1, <2>1
  <2> QED
    BY <2>1, <2>2
<1>3. CASE j < n
  <2>1. j - n + C \in 0..(C - 1) /\ n - 1 + (j - n + C) = C + (j - 1)
    BY <1>3
  <2>2. ((n - 1 + (j - n + C)) % C) + 1 = j
    BY <1>1, <2>1
  <2> QED
    BY <2>1, <2>2
<1> QED
  BY <1>2, <1>3

LEMMA CountingStays ==
    ASSUME NEW C \in Nat, C > 0, NEW i \in Int
    PROVE  (i % C) + 1 \in 1..C
OBVIOUS

LEMMA Capacities ==
    /\ Capacity \in Nat /\ Capacity > 0
    /\ Channel \in Nat /\ Channel > 0
    /\ Len(Managers) \in Nat /\ Len(Managers) > 0
    /\ M = 1..Len(Managers)
    /\ \A m \in M : Managers[m] \in Actors
BY EventsAssumption DEF M, Actors

(* The emitters of a registry are as many as their numbers.                 *)
LEMMA EmittersAreFinite ==
    ASSUME TypeOK, NEW m \in M
    PROVE  /\ IsFiniteSet(emitters[m])
           /\ Registered(m) \subseteq 1..Capacity
           /\ Cardinality(emitters[m]) = Cardinality(Registered(m))
<1> DEFINE number == [e \in emitters[m] |-> e.id]
<1>1. Registered(m) \subseteq 1..Capacity
  BY DEF TypeOK, Registered
<1>2. IsFiniteSet(1..Capacity)
  BY Capacities, FS_Interval
<1>3. IsFiniteSet(Registered(m))
  BY <1>1, <1>2, FS_Subset
<1>4. number \in Injection(emitters[m], Registered(m))
  BY DEF TypeOK, Registered, Injection, IsInjective
<1>5. number \in Surjection(emitters[m], Registered(m))
  BY DEF TypeOK, Registered, Surjection
<1> QED
  BY <1>1, <1>3, <1>4, <1>5, FS_Injection

(* unique_id(): the number is free, and one of the registry's.              *)
LEMMA FreeNumber ==
    ASSUME TypeOK, NEW m \in M, ~Full(m)
    PROVE  UniqueId(m) \in 1..Capacity /\ UniqueId(m) \notin Registered(m)
<1> DEFINE free(k) == ((nextId[m] - 1 + k) % Capacity) + 1
           Free == {k \in 0..(Capacity - 1) : free(k) \notin Registered(m)}
<1>1. nextId[m] \in 1..Capacity
  BY DEF TypeOK
<1>2. Registered(m) # 1..Capacity
  <2>1. Cardinality(1..Capacity) = Capacity
    BY Capacities, FS_Interval
  <2> QED
    BY <2>1, EmittersAreFinite DEF Full
<1>3. PICK j \in 1..Capacity : j \notin Registered(m)
  BY <1>2, EmittersAreFinite
<1>4. \E k \in 0..(Capacity - 1) : free(k) = j
  BY <1>1, Capacities, CountingReaches
<1>5. Free # {} /\ Free \subseteq Nat
  BY <1>3, <1>4, Capacities
<1>6. Min(Free) \in Free
  BY <1>5, MinOfNaturals
<1>7. UniqueId(m) = free(Min(Free))
  BY DEF UniqueId
<1>8. nextId[m] - 1 + Min(Free) \in Int
  BY <1>1, <1>6, Capacities
<1>9. free(Min(Free)) \in 1..Capacity
  BY <1>8, Capacities, CountingStays
<1> QED
  BY <1>6, <1>7, <1>9

-----------------------------------------------------------------------------
(* The types.                                                               *)

LEMMA InitTypes == Init => TypeOK
BY Capacities DEF Init, TypeOK

LEMMA BroadcastTypes ==
    ASSUME TypeOK, NEW m \in M, Broadcast(m)
    PROVE  todo' \in [M -> [Clients -> Nat]]
<1>1. \A c \in Clients : Cardinality({e \in emitters[m] : e.client = c}) \in Nat
  BY EmittersAreFinite, FS_Subset, FS_CardinalityType
<1> QED
  BY <1>1 DEF TypeOK, Broadcast

LEMMA TodoTypes ==
    ASSUME NEW f \in [M -> [Clients -> Nat]], NEW m \in M, NEW c \in Clients, NEW n \in Nat
    PROVE  [f EXCEPT ![m][c] = n] \in [M -> [Clients -> Nat]]
OBVIOUS

(* Arrives(c): a message finds room, or nobody.                             *)
LEMMA ArrivesTypes ==
    ASSUME TypeOK, NEW c \in Clients, Arrives(c)
    PROVE  channel' \in [Clients -> 0..Channel]
BY Capacities DEF TypeOK, Arrives

(* The answer to a client that is still there is the next one it gets.      *)
LEMMA ReplyTypes ==
    ASSUME TypeOK, NEW m \in M, NEW c \in Clients, NEW id \in Ids, Reply(m, c, id),
           phase[c] # "gone" => at[c] = m - 1
    PROVE  /\ at' \in [Clients -> 0..Len(Managers)]
           /\ phase' \in [Clients -> {"new", "registering", "streaming", "gone"}]
           /\ ids' \in [Clients -> Seq(Ids)]
           /\ \A d \in Clients : Len(ids'[d]) = at'[d]
<1>1. CASE phase[c] = "gone"
  BY <1>1 DEF TypeOK, Reply
<1>2. CASE phase[c] # "gone"
  <2>1. /\ ids[c] \in Seq(Ids) /\ Append(ids[c], id) \in Seq(Ids)
        /\ Len(Append(ids[c], id)) = Len(ids[c]) + 1
    BY DEF TypeOK
  <2>2. Len(ids[c]) = m - 1
    BY <1>2 DEF TypeOK
  <2>3. /\ ids' = [ids EXCEPT ![c] = Append(ids[c], id)]
        /\ at' = [at EXCEPT ![c] = m]
    BY <1>2 DEF Reply
  <2>4. at' \in [Clients -> 0..Len(Managers)]
    BY <2>3, Capacities DEF TypeOK
  <2>5. phase' \in [Clients -> {"new", "registering", "streaming", "gone"}]
    BY <1>2 DEF TypeOK, Reply
  <2>6. ids' \in [Clients -> Seq(Ids)]
    BY <2>1, <2>3 DEF TypeOK
  <2>7. \A d \in Clients : Len(ids'[d]) = at'[d]
    BY <2>1, <2>2, <2>3, Capacities DEF TypeOK
  <2> QED
    BY <2>4, <2>5, <2>6, <2>7
<1> QED
  BY <1>1, <1>2

(* A request waits for its client's turn: those before it were replied to,  *)
(* unless the client has gone meanwhile.                                    *)
Turns ==
    \A m \in M : \A c \in inbox[m] :
        \/ phase[c] = "registering" /\ at[c] = m - 1
        \/ phase[c] = "gone" /\ c \in Cancellable

LEMMA RegisterTypes ==
    ASSUME TypeOK, Turns, NEW m \in M, NEW c \in Clients, RegisterEmitter(m, c)
    PROVE  TypeOK'
<1>1. phase[c] # "gone" => at[c] = m - 1
  BY DEF Turns, RegisterEmitter
<1>2. inbox' \in [M -> SUBSET Clients]
  BY DEF TypeOK, RegisterEmitter, NextRequest
<1>3. 0 \in Ids /\ 1..Capacity \subseteq Ids
  BY Capacities DEF Ids
<1>3a. Ongoing[m] \in Nat
  BY EventsAssumption
<1>3b. tasks' \in [M -> [Clients -> Nat]]
  BY <1>3a, TodoTypes DEF TypeOK, RegisterEmitter, SpawnTask
<1>4. CASE Full(m)
  <2>1. RegisterFull(m, c) /\ Reply(m, c, 0)
    BY <1>4 DEF RegisterEmitter, RegisterFull
  <2> QED
    BY <1>1, <1>2, <1>3, <1>3b, <2>1, ReplyTypes DEF TypeOK, RegisterEmitter, RegisterFull
<1>5. CASE ~Full(m)
  <2> DEFINE id == UniqueId(m)
  <2>1. id \in 1..Capacity
    BY <1>5, FreeNumber
  <2>2. RegisterOk(m, c) /\ Reply(m, c, id)
    BY <1>5 DEF RegisterEmitter, RegisterOk
  <2>3. emitters' = [emitters EXCEPT ![m] =
            {e \in @ : e.id # id} \cup {[id |-> id, client |-> c]}]
    BY <2>2 DEF RegisterOk
  <2>4. nextId' = [nextId EXCEPT ![m] = Successor(id)] /\ Successor(id) \in 1..Capacity
    BY <2>1, <2>2, Capacities DEF RegisterOk, Successor
  <2> HIDE DEF id
  <2>5. /\ emitters' \in [M -> SUBSET [id : 1..Capacity, client : Clients]]
        /\ \A k \in M : \A e1, e2 \in emitters'[k] : e1.id = e2.id => e1 = e2
    BY <2>1, <2>3 DEF TypeOK
  <2>6. nextId' \in [M -> 1..Capacity]
    BY <2>4 DEF TypeOK
  <2>8. /\ todo' \in [M -> [Clients -> Nat]] /\ post' \subseteq Actors
        /\ panicked' \subseteq {"unregister", "post_process"}
    <3>1. TellOngoing(m, c)
      BY <2>2 DEF RegisterOk
    <3>2. CASE Telling[m] # "post"
      BY <3>1, <3>2 DEF TypeOK, TellOngoing
    <3>3. CASE Telling[m] = "post" /\ Managers[m] \in stopped
      BY <3>1, <3>3, Capacities DEF TypeOK, TellOngoing
    <3>4. CASE Telling[m] = "post" /\ Managers[m] \notin stopped
      <4>1. /\ todo' = [todo EXCEPT ![m][c] = Ongoing[m]]
            /\ post' = post /\ panicked' = panicked
        BY <3>1, <3>4 DEF TellOngoing
      <4> QED
        BY <1>3a, <4>1, TodoTypes DEF TypeOK
    <3> QED
      BY <3>2, <3>3, <3>4
  <2>9. /\ at' \in [Clients -> 0..Len(Managers)]
        /\ phase' \in [Clients -> {"new", "registering", "streaming", "gone"}]
        /\ ids' \in [Clients -> Seq(Ids)]
        /\ \A d \in Clients : Len(ids'[d]) = at'[d]
    BY <1>1, <1>3, <2>1, <2>2, ReplyTypes
  <2> QED
    BY <1>2, <1>3b, <2>5, <2>6, <2>8, <2>9 DEF TypeOK, RegisterEmitter
<1> QED
  BY <1>4, <1>5

LEMMA StepTypes == TypeOK /\ Turns /\ [Next]_vars => TypeOK'
<1> SUFFICES ASSUME TypeOK, Turns, [Next]_vars PROVE TypeOK'
  OBVIOUS
<1>1. CASE UNCHANGED vars
  BY <1>1 DEF TypeOK, vars
<1>2. ASSUME NEW m \in M, NEW c \in Clients, Send(m, c) PROVE TypeOK'
  <2>1. todo' = [todo EXCEPT ![m][c] = todo[m][c] - 1] /\ todo[m][c] - 1 \in Nat
    BY <1>2 DEF TypeOK, Send
  <2>2. todo' \in [M -> [Clients -> Nat]]
    BY <2>1, TodoTypes DEF TypeOK
  <2>3. channel' \in [Clients -> 0..Channel]
    BY <1>2, ArrivesTypes DEF Send
  <2> QED
    BY <1>2, <2>2, <2>3 DEF TypeOK, Send
<1>2a. ASSUME NEW m \in M, NEW c \in Clients, SendTask(m, c) PROVE TypeOK'
  <2>1. /\ tasks' = [tasks EXCEPT ![m][c] = tasks[m][c] - 1]
        /\ channel' \in [Clients -> 0..Channel]
     \/ /\ tasks' = [tasks EXCEPT ![m][c] = 0]
        /\ channel' = channel
    BY <1>2a, ArrivesTypes DEF SendTask
  <2>2. /\ tasks \in [M -> [Clients -> Nat]]
        /\ tasks[m][c] - 1 \in Nat /\ 0 \in Nat
    BY <1>2a DEF TypeOK, SendTask
  <2>3. /\ [tasks EXCEPT ![m][c] = tasks[m][c] - 1] \in [M -> [Clients -> Nat]]
        /\ [tasks EXCEPT ![m][c] = 0] \in [M -> [Clients -> Nat]]
    BY <2>2, TodoTypes
  <2>4. channel' \in [Clients -> 0..Channel]
    BY <2>1 DEF TypeOK
  <2>5. tasks' \in [M -> [Clients -> Nat]]
    BY <2>1, <2>3
  <2> QED
    BY <1>2a, <2>4, <2>5 DEF TypeOK, SendTask
<1>3. ASSUME NEW m \in M, NEW c \in Clients, RegisterEmitter(m, c) PROVE TypeOK'
  BY <1>3, RegisterTypes
<1>4. ASSUME NEW m \in M, NEW u \in unregister[m], UnregisterEmitter(m, u) PROVE TypeOK'
  <2>1. unregister' \in [M -> SUBSET [id : Ids, client : Clients]]
    BY <1>4 DEF TypeOK, UnregisterEmitter
  <2>2. CASE u.id \in Registered(m)
    <3>1. emitters' = [emitters EXCEPT ![m] = {e \in emitters[m] : e.id # u.id}]
      BY <1>4, <2>2 DEF UnregisterEmitter, RemoveEmitter
    <3>2. /\ emitters' \in [M -> SUBSET [id : 1..Capacity, client : Clients]]
          /\ \A k \in M : emitters'[k] \subseteq emitters[k]
      BY <3>1 DEF TypeOK
    <3>3. \A k \in M : \A e1, e2 \in emitters'[k] : e1.id = e2.id => e1 = e2
      BY <3>2 DEF TypeOK
    <3> QED
      BY <1>4, <2>1, <2>2, <3>2, <3>3 DEF TypeOK, UnregisterEmitter
  <2>3. CASE u.id \notin Registered(m)
    BY <1>4, <2>1, <2>3 DEF TypeOK, UnregisterEmitter
  <2> QED
    BY <2>2, <2>3
<1>5. ASSUME NEW a \in Actors, HandleCall(a) PROVE TypeOK'
  <2>1. todo' \in [M -> [Clients -> Nat]]
    BY <1>5, BroadcastTypes, Capacities DEF HandleCall
  <2>2. a \in Callers
    BY <1>5 DEF HandleCall, TypeOK
  <2> QED
    BY <1>5, <2>1, <2>2 DEF TypeOK, HandleCall
<1>6. ASSUME NEW a \in Actors, ReplyCall(a) PROVE TypeOK'
  BY <1>6 DEF TypeOK, ReplyCall
<1>7. ASSUME NEW m \in M, Emit(m) PROVE TypeOK'
  <2>1. todo' \in [M -> [Clients -> Nat]]
    BY <1>7, BroadcastTypes DEF Emit
  <2> QED
    BY <1>7, <2>1 DEF TypeOK, Emit
<1>8. ASSUME NEW a \in Actors, Call(a) PROVE TypeOK'
  BY <1>8 DEF TypeOK, Call
<1>9. ASSUME NEW a \in Actors, Stop(a) PROVE TypeOK'
  BY <1>9 DEF TypeOK, Stop
<1>10. ASSUME NEW c \in Clients, Connect(c) PROVE TypeOK'
  BY <1>10 DEF TypeOK, Connect
<1>11. ASSUME NEW c \in Clients, Read(c) PROVE TypeOK'
  BY <1>11, Capacities DEF TypeOK, Read
<1>12. ASSUME NEW c \in Clients, Disconnect(c) PROVE TypeOK'
  <2>1. \A m \in M : m <= at[c] => ids[c][m] \in Ids
    BY Capacities DEF TypeOK
  <2> QED
    BY <1>12, <2>1, Capacities DEF TypeOK, Disconnect, DropTriggers
<1> QED
  BY <1>1, <1>2, <1>2a, <1>3, <1>4, <1>5, <1>6, <1>7, <1>8, <1>9, <1>10, <1>11, <1>12
     DEF Next, RegistryStep, ManagerStep, ClientStep

-----------------------------------------------------------------------------
(* Whose emitters they are.                                                 *)

Phases ==
    \A c \in Clients :
        /\ phase[c] = "new" => at[c] = 0
        /\ phase[c] = "streaming" => at[c] = Len(Managers)
        /\ phase[c] = "gone" /\ c \notin Cancellable => at[c] = Len(Managers)
Owned ==
    \A m \in M : \A e \in emitters[m] :
        \/ phase[e.client] # "gone" /\ at[e.client] >= m /\ ids[e.client][m] = e.id
        \/ e \in unregister[m]
        \/ e.client \in Cancellable
(* A client that is there has the emitters it was told of ...               *)
Kept ==
    \A c \in Clients, m \in M :
        phase[c] # "gone" /\ m <= at[c] /\ ids[c][m] # 0 =>
            [id |-> ids[c][m], client |-> c] \in emitters[m]
(* ... and one that has gone asks to unregister those, and none twice.      *)
Matched ==
    \A m \in M : \A u \in unregister[m] :
        /\ phase[u.client] = "gone" /\ m <= at[u.client] /\ ids[u.client][m] = u.id
        /\ u.id # 0 => u \in emitters[m]

OwnershipInv == TypeOK /\ Turns /\ Phases /\ Owned /\ Kept /\ Matched

(* An answer is appended to what the client was told.                       *)
LEMMA ReplyTells ==
    ASSUME TypeOK, NEW m \in M, NEW c \in Clients, NEW id \in Ids, Reply(m, c, id),
           phase[c] # "gone", at[c] = m - 1
    PROVE  /\ at' = [at EXCEPT ![c] = m]
           /\ \A d \in Clients \ {c} : ids'[d] = ids[d] /\ phase'[d] = phase[d]
           /\ phase'[c] = IF m = Len(Managers) THEN "streaming" ELSE "registering"
           /\ ids'[c][m] = id
           /\ \A k \in M : k < m => ids'[c][k] = ids[c][k]
<1>1. /\ ids[c] \in Seq(Ids) /\ Len(ids[c]) = m - 1
      /\ ids' = [ids EXCEPT ![c] = Append(ids[c], id)]
  BY DEF TypeOK, Reply
<1>2. ids'[c] = Append(ids[c], id)
  BY <1>1 DEF TypeOK
<1>3. Append(ids[c], id)[m] = id /\ \A k \in M : k < m => Append(ids[c], id)[k] = ids[c][k]
  BY <1>1, Capacities
<1>4. phase' = [phase EXCEPT ![c] = IF m = Len(Managers) THEN "streaming" ELSE "registering"]
  BY DEF Reply
<1> QED
  BY <1>1, <1>2, <1>3, <1>4 DEF TypeOK, Reply

(* What a client was told before stays; a registry loses nobody.            *)
LEMMA RegisterForm ==
    ASSUME OwnershipInv, NEW m \in M, NEW c \in Clients, RegisterEmitter(m, c)
    PROVE  \E id \in Ids :
             /\ Reply(m, c, id)
             /\ id = 0 => emitters' = emitters
             /\ id # 0 => emitters' =
                    [emitters EXCEPT ![m] = emitters[m] \cup {[id |-> id, client |-> c]}]
<1>1. CASE Full(m)
  BY <1>1, Capacities DEF RegisterEmitter, RegisterFull, Ids
<1>2. CASE ~Full(m)
  <2> DEFINE id == UniqueId(m)
  <2>1. id \in 1..Capacity /\ id \notin Registered(m)
    BY <1>2, FreeNumber DEF OwnershipInv
  <2>2. /\ Reply(m, c, id)
        /\ emitters' = [emitters EXCEPT ![m] =
               {e \in emitters[m] : e.id # id} \cup {[id |-> id, client |-> c]}]
    BY <1>2 DEF RegisterEmitter, RegisterOk
  <2> HIDE DEF id
  <2>3. {e \in emitters[m] : e.id # id} = emitters[m]
    BY <2>1 DEF Registered
  <2>4. id \in Ids /\ id # 0
    BY <2>1, Capacities DEF Ids
  <2>5. emitters' = [emitters EXCEPT ![m] = emitters[m] \cup {[id |-> id, client |-> c]}]
    BY <2>2, <2>3
  <2> QED
    BY <2>2, <2>4, <2>5
<1> QED
  BY <1>1, <1>2

LEMMA RegisterKeeps ==
    ASSUME OwnershipInv, TypeOK', NEW m \in M, NEW c \in Clients, RegisterEmitter(m, c)
    PROVE  OwnershipInv'
<1> USE DEF OwnershipInv
<1>1. PICK id \in Ids :
        /\ Reply(m, c, id)
        /\ id = 0 => emitters' = emitters
        /\ id # 0 => emitters' =
               [emitters EXCEPT ![m] = emitters[m] \cup {[id |-> id, client |-> c]}]
  BY RegisterForm
<1>2. /\ unregister' = unregister /\ c \in inbox[m] /\ NextRequest(m, c)
  BY DEF RegisterEmitter
<1>3. \A k \in M : emitters'[k] =
          IF k = m /\ id # 0 THEN emitters[k] \cup {[id |-> id, client |-> c]} ELSE emitters[k]
  <2>1. CASE id = 0
    BY <1>1, <2>1
  <2>2. CASE id # 0
    BY <1>1, <2>2 DEF TypeOK
  <2> QED
    BY <2>1, <2>2
<1>4. \A k \in M : emitters[k] \subseteq emitters'[k]
  BY <1>3
<1>5. \A k \in M : \A e \in emitters'[k] \ emitters[k] :
          k = m /\ id # 0 /\ e = [id |-> id, client |-> c]
  BY <1>3
<1>6. CASE phase[c] = "gone"
  <2>1. c \in Cancellable /\ UNCHANGED <<at, phase, ids>>
    BY <1>1, <1>2, <1>6 DEF Reply, Turns
  <2>2. \A k \in M : inbox'[k] \subseteq inbox[k]
    BY <1>2, <1>6 DEF NextRequest
  <2>3. Turns' /\ Phases'
    BY <2>1, <2>2 DEF Turns, Phases
  <2>4. Owned'
    BY <1>2, <1>5, <2>1 DEF Owned
  <2> QED
    BY <1>2, <1>4, <2>1, <2>3, <2>4 DEF Kept, Matched
<1>7. CASE phase[c] # "gone"
  <2>1. phase[c] = "registering" /\ at[c] = m - 1
    BY <1>2, <1>7 DEF Turns
  <2>2. /\ at' = [at EXCEPT ![c] = m]
        /\ \A d \in Clients \ {c} : ids'[d] = ids[d] /\ phase'[d] = phase[d]
        /\ phase'[c] = IF m = Len(Managers) THEN "streaming" ELSE "registering"
        /\ ids'[c][m] = id
        /\ \A k \in M : k < m => ids'[c][k] = ids[c][k]
    BY <1>1, <1>7, <2>1, ReplyTells
  <2>3. at'[c] = m /\ \A d \in Clients \ {c} : at'[d] = at[d]
    BY <2>2 DEF TypeOK
  <2>4. Turns'
    <3> SUFFICES ASSUME NEW k \in M, NEW d \in inbox'[k]
                 PROVE  \/ phase'[d] = "registering" /\ at'[d] = k - 1
                        \/ phase'[d] = "gone" /\ d \in Cancellable
      BY DEF Turns
    <3>1. CASE d = c
      <4>1. k = m + 1
        BY <1>2, <1>7, <2>1, <3>1, Capacities DEF NextRequest, Turns
      <4> QED
        BY <2>2, <2>3, <3>1, <4>1, Capacities
    <3>2. CASE d # c
      <4>1. d \in inbox[k] /\ d \in Clients
        BY <1>2, <3>2 DEF NextRequest, TypeOK
      <4> QED
        BY <2>2, <2>3, <3>2, <4>1 DEF Turns
    <3> QED
      BY <3>1, <3>2
  <2>5. Phases'
    BY <2>2, <2>3, Capacities DEF Phases
  <2>6. Owned'
    <3> SUFFICES ASSUME NEW k \in M, NEW e \in emitters'[k]
                 PROVE  \/ phase'[e.client] # "gone" /\ at'[e.client] >= k
                           /\ ids'[e.client][k] = e.id
                        \/ e \in unregister'[k]
                        \/ e.client \in Cancellable
      BY DEF Owned
    <3>1. CASE e \notin emitters[k]
      BY <1>5, <2>2, <2>3, <3>1, Capacities
    <3>2. CASE e \in emitters[k] /\ e.client # c
      <4>1. e.client \in Clients
        BY <3>2 DEF TypeOK
      <4> QED
        BY <1>2, <2>2, <2>3, <3>2, <4>1 DEF Owned
    <3>3. CASE e \in emitters[k] /\ e.client = c
      <4>1. CASE e \in unregister[k] \/ c \in Cancellable
        BY <1>2, <3>3, <4>1
      <4>2. CASE at[c] >= k /\ ids[c][k] = e.id
        BY <2>1, <2>2, <2>3, <3>3, <4>2, Capacities
      <4> QED
        BY <3>3, <4>1, <4>2 DEF Owned
    <3> QED
      BY <3>1, <3>2, <3>3
  <2>7. Kept'
    <3> SUFFICES ASSUME NEW d \in Clients, NEW k \in M, phase'[d] # "gone", k <= at'[d],
                        ids'[d][k] # 0
                 PROVE  [id |-> ids'[d][k], client |-> d] \in emitters'[k]
      BY DEF Kept
    <3>1. CASE d # c
      BY <1>4, <2>2, <2>3, <3>1 DEF Kept
    <3>2. CASE d = c /\ k < m
      BY <1>4, <1>7, <2>1, <2>2, <3>2, Capacities DEF Kept
    <3>3. CASE d = c /\ k = m
      BY <1>1, <2>2, <3>3 DEF TypeOK
    <3> QED
      BY <2>3, <3>1, <3>2, <3>3, Capacities
  <2>8. Matched'
    <3> SUFFICES ASSUME NEW k \in M, NEW u \in unregister[k]
                 PROVE  /\ phase'[u.client] = "gone" /\ k <= at'[u.client]
                        /\ ids'[u.client][k] = u.id
                        /\ u.id # 0 => u \in emitters'[k]
      BY <1>2 DEF Matched
    <3>1. u.client \in Clients /\ u.client # c
      BY <1>7 DEF Matched, TypeOK
    <3> QED
      BY <1>4, <2>2, <2>3, <3>1 DEF Matched
  <2> QED
    BY <2>4, <2>5, <2>6, <2>7, <2>8
<1> QED
  BY <1>6, <1>7

LEMMA UnregisterKeeps ==
    ASSUME OwnershipInv, TypeOK', NEW m \in M, NEW u \in unregister[m], UnregisterEmitter(m, u)
    PROVE  OwnershipInv' /\ \A k \in M : \A e \in emitters[k] : e \in emitters'[k] \/ e \in unregister[k]
<1> USE DEF OwnershipInv
<1>1. /\ UNCHANGED <<at, phase, ids, inbox>>
      /\ unregister' = [unregister EXCEPT ![m] = unregister[m] \ {u}]
  BY DEF UnregisterEmitter
<1>2. /\ phase[u.client] = "gone" /\ m <= at[u.client] /\ ids[u.client][m] = u.id
      /\ u.id # 0 => u \in emitters[m]
      /\ u \in [id : Ids, client : Clients]
  BY DEF Matched, TypeOK
<1>3. \A k \in M : \A e \in emitters[k] : e \in emitters'[k] \/ (k = m /\ e = u)
  <2>1. CASE u.id \in Registered(m)
    <3>1. emitters' = [emitters EXCEPT ![m] = {e \in emitters[m] : e.id # u.id}]
      BY <2>1 DEF UnregisterEmitter, RemoveEmitter
    <3>2. u.id # 0
      <4>1. PICK e \in emitters[m] : e.id = u.id
        BY <2>1 DEF Registered
      <4>2. emitters[m] \subseteq [id : 1..Capacity, client : Clients]
        BY DEF TypeOK
      <4> QED
        BY <4>1, <4>2, Capacities
    <3>3. u \in emitters[m]
      BY <1>2, <3>2
    <3> QED
      BY <3>1, <3>3 DEF TypeOK
  <2>2. CASE u.id \notin Registered(m)
    BY <2>2 DEF UnregisterEmitter
  <2> QED
    BY <2>1, <2>2
<1>4. \A k \in M : emitters'[k] \subseteq emitters[k] /\ unregister'[k] \subseteq unregister[k]
  <2>1. CASE u.id \in Registered(m)
    <3>1. emitters' = [emitters EXCEPT ![m] = {e \in emitters[m] : e.id # u.id}]
      BY <2>1 DEF UnregisterEmitter, RemoveEmitter
    <3> QED
      BY <1>1, <3>1 DEF TypeOK
  <2>2. CASE u.id \notin Registered(m)
    BY <1>1, <2>2 DEF UnregisterEmitter, TypeOK
  <2> QED
    BY <2>1, <2>2
<1>5. u \notin emitters'[m]
  <2>1. CASE u.id \in Registered(m)
    BY <2>1 DEF UnregisterEmitter, RemoveEmitter, TypeOK
  <2>2. CASE u.id \notin Registered(m)
    BY <2>2, <1>4 DEF Registered
  <2> QED
    BY <2>1, <2>2
<1>6. \A k \in M : \A e \in unregister[k] : e \in unregister'[k] \/ (k = m /\ e = u)
  BY <1>1 DEF TypeOK
<1>7. Turns' /\ Phases'
  BY <1>1 DEF Turns, Phases
<1>8. Owned'
  <2> SUFFICES ASSUME NEW k \in M, NEW e \in emitters'[k]
               PROVE  \/ phase[e.client] # "gone" /\ at[e.client] >= k
                         /\ ids[e.client][k] = e.id
                      \/ e \in unregister'[k]
                      \/ e.client \in Cancellable
    BY <1>1 DEF Owned
  <2> QED
    BY <1>4, <1>5, <1>6 DEF Owned
<1>9. Kept'
  BY <1>1, <1>2, <1>3 DEF Kept
<1>10. Matched'
  <2> SUFFICES ASSUME NEW k \in M, NEW v \in unregister'[k]
               PROVE  /\ phase[v.client] = "gone" /\ k <= at[v.client]
                      /\ ids[v.client][k] = v.id
                      /\ v.id # 0 => v \in emitters'[k]
    BY <1>1 DEF Matched
  <2>1. v \in unregister[k] /\ ~(k = m /\ v = u)
    BY <1>1, <1>4 DEF TypeOK
  <2> QED
    BY <1>3, <2>1 DEF Matched
<1> QED
  BY <1>3, <1>7, <1>8, <1>9, <1>10

LEMMA ConnectKeeps ==
    ASSUME OwnershipInv, TypeOK', NEW c \in Clients, Connect(c)
    PROVE  OwnershipInv'
<1> USE DEF OwnershipInv
<1>1. /\ phase[c] = "new" /\ phase' = [phase EXCEPT ![c] = "registering"]
      /\ inbox' = [inbox EXCEPT ![1] = inbox[1] \cup {c}]
      /\ UNCHANGED <<emitters, unregister, at, ids>>
  BY DEF Connect
<1>2. at[c] = 0 /\ 1 \in M
  BY <1>1, Capacities DEF Phases
<1>3. phase'[c] = "registering" /\ \A d \in Clients \ {c} : phase'[d] = phase[d]
  BY <1>1 DEF TypeOK
<1>4. \A k \in M : \A d \in inbox'[k] : d \in inbox[k] \/ (k = 1 /\ d = c)
  BY <1>1 DEF TypeOK
<1>5. Turns'
  <2> SUFFICES ASSUME NEW k \in M, NEW d \in inbox'[k]
               PROVE  \/ phase'[d] = "registering" /\ at[d] = k - 1
                      \/ phase'[d] = "gone" /\ d \in Cancellable
    BY <1>1 DEF Turns
  <2>1. d \in inbox[k] => d \in Clients /\ d # c
    BY <1>1 DEF Turns, TypeOK
  <2> QED
    BY <1>2, <1>3, <1>4, <2>1 DEF Turns
<1>6. Phases'
  BY <1>1, <1>2, <1>3 DEF Phases
<1>7. Owned'
  <2>1. \A k \in M : \A e \in emitters[k] : e.client \in Clients
    BY DEF TypeOK
  <2> QED
    BY <1>1, <1>3, <2>1 DEF Owned
<1>8. Kept'
  BY <1>1, <1>3 DEF Kept
<1>9. Matched'
  <2>1. \A k \in M : \A u \in unregister[k] : u.client \in Clients /\ u.client # c
    BY <1>1 DEF TypeOK, Matched
  <2> QED
    BY <1>1, <1>3, <2>1 DEF Matched
<1> QED
  BY <1>5, <1>6, <1>7, <1>8, <1>9

LEMMA DisconnectKeeps ==
    ASSUME OwnershipInv, TypeOK', NEW c \in Clients, Disconnect(c)
    PROVE  OwnershipInv'
<1> USE DEF OwnershipInv
<1>1. /\ phase[c] = "streaming" \/ (phase[c] = "registering" /\ c \in Cancellable)
      /\ phase' = [phase EXCEPT ![c] = "gone"]
      /\ UNCHANGED <<emitters, inbox, at, ids>>
  BY DEF Disconnect
<1>2. phase'[c] = "gone" /\ \A d \in Clients \ {c} : phase'[d] = phase[d]
  BY <1>1 DEF TypeOK
<1>3. \A k \in M : unregister'[k] =
          IF k <= at[c] THEN unregister[k] \cup {[id |-> ids[c][k], client |-> c]}
                        ELSE unregister[k]
  BY DEF Disconnect, DropTriggers
<1>4. Turns'
  <2> SUFFICES ASSUME NEW k \in M, NEW d \in inbox[k]
               PROVE  \/ phase'[d] = "registering" /\ at[d] = k - 1
                      \/ phase'[d] = "gone" /\ d \in Cancellable
    BY <1>1 DEF Turns
  <2>1. d \in Clients
    BY DEF TypeOK
  <2> QED
    BY <1>1, <1>2, <2>1 DEF Turns
<1>5. Phases'
  BY <1>1, <1>2 DEF Phases
<1>6. Owned'
  <2> SUFFICES ASSUME NEW k \in M, NEW e \in emitters[k]
               PROVE  \/ phase'[e.client] # "gone" /\ at[e.client] >= k
                         /\ ids[e.client][k] = e.id
                      \/ e \in unregister'[k]
                      \/ e.client \in Cancellable
    BY <1>1 DEF Owned
  <2>1. e.client \in Clients /\ e = [id |-> e.id, client |-> e.client]
    <3>1. e \in [id : 1..Capacity, client : Clients]
      BY DEF TypeOK
    <3> QED
      BY <3>1
  <2>2. CASE e.client = c
    BY <1>3, <2>1, <2>2, Capacities DEF Owned, TypeOK
  <2>3. CASE e.client # c
    BY <1>2, <1>3, <2>1, <2>3 DEF Owned
  <2> QED
    BY <2>2, <2>3
<1>7. Kept'
  BY <1>1, <1>2 DEF Kept
<1>8. Matched'
  <2> SUFFICES ASSUME NEW k \in M, NEW u \in unregister'[k]
               PROVE  /\ phase'[u.client] = "gone" /\ k <= at[u.client]
                      /\ ids[u.client][k] = u.id
                      /\ u.id # 0 => u \in emitters[k]
    BY <1>1 DEF Matched
  <2>1. CASE u \in unregister[k]
    <3>1. u.client \in Clients
      BY <2>1 DEF TypeOK
    <3> QED
      BY <1>2, <2>1, <3>1 DEF Matched
  <2>2. CASE u \notin unregister[k]
    <3>1. k <= at[c] /\ u = [id |-> ids[c][k], client |-> c]
      BY <1>3, <2>2
    <3> QED
      BY <1>1, <1>2, <3>1 DEF Kept
  <2> QED
    BY <2>1, <2>2
<1> QED
  BY <1>4, <1>5, <1>6, <1>7, <1>8

LEMMA OwnershipStep ==
    OwnershipInv /\ [Next]_vars =>
        /\ OwnershipInv'
        /\ \A m \in M : \A e \in emitters[m] : e \in emitters'[m] \/ e \in unregister[m]
<1> SUFFICES ASSUME OwnershipInv, [Next]_vars
             PROVE  /\ OwnershipInv'
                    /\ \A m \in M : \A e \in emitters[m] :
                           e \in emitters'[m] \/ e \in unregister[m]
  OBVIOUS
<1>1. TypeOK'
  BY StepTypes DEF OwnershipInv
<1>2. CASE UNCHANGED <<emitters, unregister, inbox, at, phase, ids>>
  BY <1>1, <1>2 DEF OwnershipInv, Turns, Phases, Owned, Kept, Matched
<1>3. ASSUME NEW m \in M, NEW c \in Clients, RegisterEmitter(m, c)
      PROVE  /\ OwnershipInv'
             /\ \A k \in M : emitters[k] \subseteq emitters'[k]
  <2>1. OwnershipInv'
    BY <1>1, <1>3, RegisterKeeps
  <2>2. \E id \in Ids :
           /\ id = 0 => emitters' = emitters
           /\ id # 0 => emitters' =
                  [emitters EXCEPT ![m] = emitters[m] \cup {[id |-> id, client |-> c]}]
    BY <1>3, RegisterForm
  <2>3. CASE emitters' = emitters
    BY <2>1, <2>3
  <2>4. CASE emitters' # emitters
    <3>1. PICK id \in Ids : emitters' =
              [emitters EXCEPT ![m] = emitters[m] \cup {[id |-> id, client |-> c]}]
      BY <2>2, <2>4
    <3> QED
      BY <2>1, <3>1 DEF OwnershipInv, TypeOK
  <2> QED
    BY <2>3, <2>4
<1>4. ASSUME NEW m \in M, NEW u \in unregister[m], UnregisterEmitter(m, u)
      PROVE  /\ OwnershipInv'
             /\ \A k \in M : \A e \in emitters[k] : e \in emitters'[k] \/ e \in unregister[k]
  BY <1>1, <1>4, UnregisterKeeps
<1>5. ASSUME NEW c \in Clients, Connect(c) \/ Disconnect(c)
      PROVE  OwnershipInv' /\ emitters' = emitters
  BY <1>1, <1>5, ConnectKeeps, DisconnectKeeps DEF Connect, Disconnect
<1>6. ASSUME \/ \E m \in M, c \in Clients : Send(m, c) \/ SendTask(m, c)
             \/ \E m \in M : Emit(m)
             \/ \E a \in Actors : ManagerStep(a)
      PROVE  UNCHANGED <<emitters, unregister, inbox, at, phase, ids>>
  BY <1>6 DEF Send, SendTask, ManagerStep, HandleCall, ReplyCall, Emit, Call, Stop
<1>7. ASSUME NEW c \in Clients, Read(c)
      PROVE  UNCHANGED <<emitters, unregister, inbox, at, phase, ids>>
  BY <1>7 DEF Read
<1>8. CASE UNCHANGED vars
  BY <1>2, <1>8 DEF vars
<1>9. CASE (\E m \in M : RegistryStep(m)) \/ (\E a \in Actors : ManagerStep(a))
  BY <1>2, <1>3, <1>4, <1>6, <1>9 DEF RegistryStep
<1>10. CASE \E c \in Clients : ClientStep(c)
  BY <1>2, <1>5, <1>7, <1>10 DEF ClientStep
<1> QED
  BY <1>8, <1>9, <1>10 DEF Next

(* Type correctness, and what clients and registries know of each other:    *)
(* nobody is forgotten, whatever the order of registrations, disconnections *)
(* and stops.                                                               *)
THEOREM OwnershipIsKept == Spec => []OwnershipInv
<1>1. Init => OwnershipInv
  <2> SUFFICES ASSUME Init PROVE OwnershipInv
    OBVIOUS
  <2>1. /\ \A m \in M : emitters[m] = {} /\ unregister[m] = {} /\ inbox[m] = {}
        /\ \A c \in Clients : at[c] = 0 /\ phase[c] = "new"
    BY DEF Init
  <2>2. Turns /\ Phases /\ Owned /\ Matched
    BY <2>1 DEF Turns, Phases, Owned, Matched
  <2>3. Kept
    BY <2>1, Capacities DEF Kept
  <2> QED
    BY <2>2, <2>3, InitTypes DEF OwnershipInv
<1>2. OwnershipInv /\ [Next]_vars => OwnershipInv'
  BY OwnershipStep
<1> QED
  BY <1>1, <1>2, PTL DEF Spec

(* EmittersAreOwned, if no client disconnects while it registers.           *)
THEOREM EmittersHaveOwners ==
    ASSUME Cancellable = {}
    PROVE  Spec => []EmittersAreOwned
<1>1. OwnershipInv => EmittersAreOwned
  BY DEF OwnershipInv, Owned, EmittersAreOwned
<1> QED
  BY <1>1, OwnershipIsKept, PTL

LEMMA RegisteringUnregistersNothing ==
    ASSUME NEW m \in M, NEW c \in Clients, RegisterEmitter(m, c), "unregister" \in panicked'
    PROVE  "unregister" \in panicked
<1>1. RegisterFull(m, c) \/ TellOngoing(m, c)
  BY DEF RegisterEmitter, RegisterOk
<1>2. panicked' = panicked \/ panicked' = panicked \cup {"post_process"}
  BY <1>1 DEF RegisterFull, TellOngoing
<1> QED
  BY <1>2

(* The assertion of EmitterRegistry::unregister, UnregistersAreMatched.     *)
THEOREM UnregistersMatch == Spec => []UnregistersAreMatched
<1>1. Init => UnregistersAreMatched
  BY DEF Init, UnregistersAreMatched
<1>2. OwnershipInv /\ UnregistersAreMatched /\ [Next]_vars => UnregistersAreMatched'
  <2> SUFFICES ASSUME OwnershipInv, UnregistersAreMatched, [Next]_vars, "unregister" \in panicked'
               PROVE  \E c \in Clients, m \in M : m <= at'[c] /\ ids'[c][m] = 0
    BY DEF UnregistersAreMatched
  <2>1. TypeOK
    BY DEF OwnershipInv
  <2>2. CASE UNCHANGED <<at, ids>>
    <3>1. CASE "unregister" \in panicked
      BY <2>2, <3>1 DEF UnregistersAreMatched
    <3>2. CASE "unregister" \notin panicked
      <4>1. PICK m \in M, u \in [id : Ids, client : Clients] :
                u \in unregister[m] /\ u.id \notin Registered(m)
        <5>1. ASSUME NEW m \in M, NEW u \in unregister[m], UnregisterEmitter(m, u)
              PROVE  u \in [id : Ids, client : Clients] /\ u.id \notin Registered(m)
          BY <2>1, <3>2, <5>1 DEF UnregisterEmitter, TypeOK
        <5>2. ASSUME NEW m \in M, NEW c \in Clients, RegisterEmitter(m, c)
              PROVE  FALSE
          BY <3>2, <5>2, RegisteringUnregistersNothing
        <5> QED
          BY <3>2, <5>1, <5>2 DEF Next, RegistryStep, ManagerStep, ClientStep, vars, Send, SendTask, HandleCall,
             ReplyCall, Emit, Call, Stop, Connect, Read, Disconnect
      <4>2. u.id = 0
        BY <4>1 DEF OwnershipInv, Matched, Registered
      <4> QED
        BY <2>2, <4>1, <4>2 DEF OwnershipInv, Matched
    <3> QED
      BY <3>1, <3>2
  <2>3. ASSUME NEW m \in M, NEW c \in Clients, RegisterEmitter(m, c), ~UNCHANGED <<at, ids>>
        PROVE  "unregister" \in panicked /\
               \A d \in Clients, k \in M : k <= at[d] => k <= at'[d] /\ ids'[d][k] = ids[d][k]
    <3>1. PICK id \in Ids : Reply(m, c, id)
      BY <2>3, RegisterForm
    <3>2. phase[c] # "gone" /\ at[c] = m - 1
      BY <2>3, <3>1 DEF Reply, RegisterEmitter, OwnershipInv, Turns
    <3>3. /\ at' = [at EXCEPT ![c] = m]
          /\ \A d \in Clients \ {c} : ids'[d] = ids[d]
          /\ \A k \in M : k < m => ids'[c][k] = ids[c][k]
      BY <2>1, <3>1, <3>2, ReplyTells
    <3>4. "unregister" \in panicked
      BY <2>3, RegisteringUnregistersNothing
    <3>5. ASSUME NEW d \in Clients, NEW k \in M, k <= at[d]
          PROVE  k <= at'[d] /\ ids'[d][k] = ids[d][k]
      <4>1. CASE d = c
        <5>1. k < m /\ at'[c] = m
          BY <2>1, <3>2, <3>3, <3>5, <4>1, Capacities DEF TypeOK
        <5> QED
          BY <3>3, <4>1, <5>1, Capacities
      <4>2. CASE d # c
        BY <2>1, <3>3, <3>5, <4>2 DEF TypeOK
      <4> QED
        BY <4>1, <4>2
    <3> QED
      BY <3>4, <3>5
  <2>4. CASE \E m \in M, c \in Clients : RegisterEmitter(m, c)
    BY <2>2, <2>3, <2>4 DEF UnregistersAreMatched
  <2>5. CASE ~\E m \in M, c \in Clients : RegisterEmitter(m, c)
    <3>1. UNCHANGED <<at, ids>>
      BY <2>5 DEF Next, RegistryStep, ManagerStep, ClientStep, vars, Send, SendTask, UnregisterEmitter, HandleCall,
         ReplyCall, Emit, Call, Stop, Connect, Read, Disconnect
    <3> QED
      BY <2>2, <3>1
  <2> QED
    BY <2>4, <2>5
<1> QED
  BY <1>1, <1>2, OwnershipIsKept, PTL DEF Spec

(* unique_id(): EmittersKeepTheirNumbers, for every order of registrations  *)
(* and disconnections.                                                      *)
THEOREM NumbersAreKept == Spec => EmittersKeepTheirNumbers
<1>1. OwnershipInv /\ [Next]_vars =>
          [\A m \in M : \A e \in emitters[m] : e \in emitters'[m] \/ e \in unregister[m]]_vars
  BY OwnershipStep
<1> QED
  BY <1>1, OwnershipIsKept, PTL DEF Spec, EmittersKeepTheirNumbers
=============================================================================
