----------------------------- MODULE Broadcaster -----------------------------
(***************************************************************************)
(* The actor that copies the output of a tuner to its subscribers          *)
(* (mirakc-core/src/broadcaster.rs), one per session, as functions from    *)
(* the actor's state to its state after a message.  Its mailbox is a       *)
(* sequence.  The chunks themselves are left out: a subscriber only sees   *)
(* whether its stream is still open.                                       *)
(***************************************************************************)
EXTENDS Naturals, Sequences

Message == [type : {"BindStream", "StreamEnded"}, serial : {0}]
             \cup [type : {"Subscribe", "Unsubscribe"}, serial : Nat]

BindStream == [type |-> "BindStream", serial |-> 0]
StreamEnded == [type |-> "StreamEnded", serial |-> 0]
Subscribe(n) == [type |-> "Subscribe", serial |-> n]
Unsubscribe(n) == [type |-> "Unsubscribe", serial |-> n]

(* phase: absent before it is spawned; stopping once Context::stop was      *)
(* called, when the message loop still handles what arrives; closed after   *)
(* its mailbox is; panicked after a failed assertion.                       *)
Broadcasters ==
    [phase : {"absent", "running", "stopping", "closed", "panicked"},
     stream_bound : BOOLEAN,
     subscribers : SUBSET Nat,   \* serial numbers
     senders : SUBSET Nat,       \* subscribers whose sender is Some
     mailbox : Seq(Message)]

Blank(phase) ==
    [phase |-> phase, stream_bound |-> FALSE, subscribers |-> {}, senders |-> {}, mailbox |-> <<>>]
Absent == Blank("absent")
Spawned == Blank("running")
(* The address the promoter returns once the system is shutting down.       *)
Dummy == Blank("closed")
Panicked == Blank("panicked")

Receives(b) == b.phase \in {"running", "stopping"}

(* A message to an actor that does not receive any more is lost.            *)
Send(b, msg) == IF Receives(b) THEN [b EXCEPT !.mailbox = Append(@, msg)] ELSE b

IsInactive(b) == b.subscribers = {} /\ ~b.stream_bound
StopIfInactive(b) == IF IsInactive(b) THEN [b EXCEPT !.phase = "stopping"] ELSE b

OnBindStream(b) == IF b.stream_bound THEN Panicked ELSE [b EXCEPT !.stream_bound = TRUE]
OnSubscribe(b, n) ==
    IF ~b.stream_bound THEN Panicked
    ELSE [b EXCEPT !.subscribers = @ \cup {n}, !.senders = @ \cup {n}]
OnUnsubscribe(b, n) ==
    StopIfInactive([b EXCEPT !.subscribers = @ \ {n}, !.senders = @ \ {n}])
(* Fault: the subscribers are not told that the stream ended.               *)
OnStreamEndedKeepsSenders(b) ==
    IF ~b.stream_bound THEN Panicked ELSE StopIfInactive([b EXCEPT !.stream_bound = FALSE])
OnStreamEnded(b) ==
    IF ~b.stream_bound THEN Panicked
    ELSE StopIfInactive([b EXCEPT !.senders = {}, !.stream_bound = FALSE])

(* The actor after it handled the first message of its mailbox.             *)
Handle(b) ==
    LET msg == Head(b.mailbox)
        rest == [b EXCEPT !.mailbox = Tail(@)]
    IN  CASE msg.type = "BindStream" -> OnBindStream(rest)
          [] msg.type = "StreamEnded" -> OnStreamEnded(rest)
          [] msg.type = "Subscribe" -> OnSubscribe(rest, msg.serial)
          [] msg.type = "Unsubscribe" -> OnUnsubscribe(rest, msg.serial)
=============================================================================
