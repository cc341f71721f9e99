---------------------------- MODULE MCTimeshift ----------------------------
(* A ring of four chunks.  The user of the file system comes in behaviours  *)
(* without faults and gaps, when the ring has been filled once, and while   *)
(* the service is there.  The command writes on while the user reads, so    *)
(* that the record being read loses its beginning.                          *)
EXTENDS TimeshiftFs

CONSTANTS UserComes,   \* bound: the user's first request comes at this time
          FaultyTime   \* bound: after a fault, or with gaps, nothing is written later

MCNext ==
    /\ Next
    /\ ts' # ts /\ (faults > 0 \/ gaps) => now < FaultyTime
    /\ ts' # ts /\ now >= UserComes => ops > 0                        \* bound
    /\ ops' > 0 => faults' = 0 /\ ~gaps' /\ available'
    /\ ops' = 1 /\ ops = 0 => now >= UserComes /\ Len(records) <= 1   \* bound
    \* bounds: beside the user there are few records, and the manager,
    \* of which the file system sees nothing, takes its mail at once
    /\ ops > 0 => Len(records') <= 2 /\ (mail # <<>> => mail' = <<>>)
MCSpec == Init /\ [][MCNext]_vars /\ TsFairness
=============================================================================
