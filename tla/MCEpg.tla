------------------------------- MODULE MCEpg -------------------------------
(* One service.  The process dies on the last day, or over midnight.        *)
EXTENDS Epg
CONSTANTS c1, s1
MCChannelOf == [s \in Services |-> c1]
MCNext == Next /\ (day' # day => crashes = 0 \/ ~up)
MCSpec == Init /\ [][MCNext]_vars /\ Fairness
=============================================================================
