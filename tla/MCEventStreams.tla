--------------------------- MODULE MCEventStreams ---------------------------
(* Small instances of EventStreams: the tuner manager, which serves calls,  *)
(* and the recording manager, which calls it, with two registries (for      *)
(* RecordingStarted and RecordSaved).                                       *)
EXTENDS EventStreams, TLC

CONSTANTS c1, c2, c3

MCManagers == <<"tuner", "recording", "recording">>
MCTelling == <<"post", "post", "task">>
MCOngoing == <<0, 1, 1>>
Order == <<c1, c2, c3>>

(* Bounds: in one behaviour there is an event, a call, a stop or a third    *)
(* client, which comes when the others have connected and read all they     *)
(* were told; clients, which are alike, connect in the given order.         *)
Settled(c) == phase[c] # "registering" /\ channel[c] = 0 /\ \A m \in M : tasks[m][c] = 0
Few ==
    \/ phase[c3] = "new" /\ events + calls + Cardinality(stopped) <= 1
    \/ events + calls + Cardinality(stopped) = 0 /\ Settled(c1) /\ Settled(c2)
MCNext ==
    /\ Next /\ Few'
    /\ \A i \in 2..Len(Order) : phase'[Order[i]] # "new" => phase'[Order[i - 1]] # "new"
MCSpec == Init /\ [][MCNext]_vars /\ Fairness
=============================================================================
