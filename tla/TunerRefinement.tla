-------------------------- MODULE TunerRefinement --------------------------
(* TunerManager implements TunerSharing: the users of a tuner are those of  *)
(* its session, and a user waits from its request until it is a subscriber  *)
(* or refused.                                                              *)
EXTENDS TunerManager

UseOf(t) == {[channel |-> s.channel, users |-> {x.user : x \in s.subs}] : s \in tuner[t]}
InCall(u) == \E c \in call : c.user = u
WantOf(u) == IF got[u] # {} \/ InCall(u) THEN {} ELSE {r.channel : r \in req[u]}

Fits(t, u, ch) ==
    \/ IsReservedFor(t, u)
    \/ ch \notin Excluded[t] /\ Unrestricted(t) /\ SupportsType(t, ch)
    \/ ch \notin Excluded[t] /\ ChannelOnly(t) /\ ch = DedicatedChannel(t)

Carriers == {f \in Tuners \X Users \X Channels : Fits(f[1], f[2], f[3])}
OwnTuners == {o \in Tuners \X Users : IsReservedFor(o[1], o[2])}
SharedTuners == {t \in Tuners : ~Exclusive(t)}
SpareTuners == {t \in Tuners : Unrestricted(t)}
TunerUses == [t \in Tuners |-> UseOf(t)]
Wants == [u \in Users |-> WantOf(u)]

Sharing == INSTANCE TunerSharing WITH
    Carries <- Carriers, Own <- OwnTuners, Shared <- SharedTuners, Spare <- SpareTuners,
    Guests <- Followers, use <- TunerUses, want <- Wants, closed <- stopping

(* Subscribers of a session have serial numbers of their own.               *)
SerialsAreUnique ==
    \A t \in Tuners : \A s \in tuner[t] : \A x \in s.subs :
        x.serial < s.next /\ \A y \in s.subs : x.serial = y.serial => x = y

(* Every step of the manager and its users (activate_tuner, stop_streaming, *)
(* deactivate_tuner) is a step of TunerSharing: a tuner is opened only on a *)
(* channel it carries, joined only by who wants its channel, taken only     *)
(* from users who are outranked, and never used after the stop.             *)
ImplementsSharing == Sharing!Spec
=============================================================================
