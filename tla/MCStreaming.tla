----------------------------- MODULE MCStreaming -----------------------------
(* Small instances of Streaming: ordinary tuners only, what the users may   *)
(* do is set by the configurations.                                         *)
EXTENDS Streaming

CONSTANTS web, job, rec, tmp, g1, g2

OneType == [ch \in Channels |-> "GR"]
AllSupport == [t \in Tuners |-> {"GR"}]
NothingExcluded == [t \in Tuners |-> {}]
Ranked == [u \in Users |-> IF u = rec THEN 1 ELSE IF u = web THEN 0 ELSE -1]
AskAny == [u \in Users |-> Channels]
NoUses == [u \in {} |-> 1]
NoDedicated == [u \in {} |-> g1]
=============================================================================
