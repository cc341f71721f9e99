---------------------------- MODULE TunerSharing ----------------------------
(* What the users of the tuners may rely on, whichever tuner the manager    *)
(* picks for a request: who may use a tuner, with whom, and when a tuner    *)
(* may be taken away.  There are no sessions, ids, messages or calls here;  *)
(* TunerRefinement shows that TunerManager implements this.                 *)
EXTENDS Integers

CONSTANTS
    Tuners, Users, Channels,
    Priority, GRAB,
    Carries,   \* <<t, u, ch>>: t may be opened on channel ch for user u
    Own,       \* <<t, u>>: t is dedicated to u
    Shared,    \* tuners that users of one channel share
    Spare,     \* tuners that may be taken over
    Guests     \* users that follow the stream of another one

VARIABLES
    use,       \* tuner -> its use, if any: a channel and the users of it
    want,      \* user -> the channel it waits for, if any
    closed     \* the manager was stopped

vars == <<use, want, closed>>

Init ==
    /\ use = [t \in Tuners |-> {}]
    /\ want = [u \in Users |-> {}]
    /\ closed = FALSE

Ask(u, ch) ==
    /\ want[u] = {}
    /\ want' = [want EXCEPT ![u] = {ch}]
    /\ UNCHANGED <<use, closed>>

Served(u) == want[u] # {} /\ want' = [want EXCEPT ![u] = {}] /\ UNCHANGED closed
Refuse(u) == Served(u) /\ UNCHANGED use

Opened(u, ch) == {[channel |-> ch, users |-> {u}]}
Joined(h, u) == {[channel |-> h.channel, users |-> h.users \cup {u}]}
Left(h, u) == IF h.users = {u} THEN {} ELSE {[channel |-> h.channel, users |-> h.users \ {u}]}

Open(u, t, ch) ==
    /\ ~closed /\ ch \in want[u]
    /\ use[t] = {} /\ <<t, u, ch>> \in Carries
    /\ use' = [use EXCEPT ![t] = Opened(u, ch)]
    /\ Served(u)

(* A shared tuner is joined by who wants its channel; a user whose own the  *)
(* tuner is, and a guest, take it as it is.                                 *)
Join(u, t) == \E h \in use[t] :
    /\ ~closed
    /\ \/ t \in Shared /\ (h.channel \in want[u] \/ u \in Guests)
       \/ <<t, u>> \in Own
    /\ use' = [use EXCEPT ![t] = Joined(h, u)]
    /\ Served(u)

(* A tuner is taken from its users only by one who outranks them all, and   *)
(* may be lost to both if it cannot be opened again.                        *)
TakeOver(u, t, ch) == \E h \in use[t] :
    /\ ~closed /\ ch \in want[u]
    /\ t \in Spare /\ <<t, u, ch>> \in Carries
    /\ Priority[u] = GRAB \/ \A v \in h.users : Priority[u] > Priority[v]
    /\ \E after \in {Opened(u, ch), {}} : use' = [use EXCEPT ![t] = after]
    /\ Served(u)

Leave(u, t) == \E h \in use[t] :
    /\ u \in h.users
    /\ use' = [use EXCEPT ![t] = Left(h, u)]
    /\ UNCHANGED <<want, closed>>

Break(t) == use' = [use EXCEPT ![t] = {}] /\ UNCHANGED <<want, closed>>

Close ==
    /\ closed' = TRUE /\ use' = [t \in Tuners |-> {}]
    /\ UNCHANGED want

UserStep(u) ==
    \/ Refuse(u)
    \/ \E ch \in Channels : Ask(u, ch)
    \/ \E t \in Tuners : Join(u, t) \/ Leave(u, t)
    \/ \E t \in Tuners, ch \in Channels : Open(u, t, ch) \/ TakeOver(u, t, ch)
Next == (\E u \in Users : UserStep(u)) \/ (\E t \in Tuners : Break(t)) \/ Close

Spec == Init /\ [][Next]_vars
=============================================================================
