--------------------------- MODULE MCTunerManager ---------------------------
(* Small instances of TunerManager.  Tuner 1 serves GR, tuner 2 serves GR   *)
(* and BS; in the dedicated instance tuner 1 belongs to a tracker and tuner *)
(* 2 to a timeshift recorder.                                               *)
EXTENDS TunerRefinement

CONSTANTS web, job, rec, trk, ts, tmp,   \* users
          g1, g2, b1                     \* channels

MCTypeOf == [ch \in {g1, g2, b1} |-> IF ch = b1 THEN "BS" ELSE "GR"]
MCSupports == [t \in Tuners |-> IF t = 1 THEN {"GR"} ELSE {"GR", "BS"} \cap {MCTypeOf[ch] : ch \in Channels}]
NothingExcluded == [t \in Tuners |-> {}]
Exclude2 == [t \in Tuners |-> IF t = 2 THEN {g2} ELSE {}]
MCPriority == [u \in Users |->
    CASE u = web -> 0
      [] u = rec -> 1
      [] u = ts -> GRAB
      [] OTHER -> -1]
AskAny == [u \in Users |-> Channels]
AskDedicated == [u \in Users |->
    CASE u = ts -> {g1}
      [] u = trk -> {g1, g2}
      [] OTHER -> Channels]
NoUses == [u \in {} |-> 1]
UsesBoth == [u \in Trackers \cup Recorders |-> IF u = trk THEN 1 ELSE 2]
MCDedicated == [u \in Recorders |-> g1]
=============================================================================
