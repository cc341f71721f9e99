------------------------------- MODULE MCWeb -------------------------------
(* Live streams; streams of the first record of one; and two records, the   *)
(* second of which is made while the first is streamed or removed.          *)
EXTENDS WebStream

Request(kind, filters, seekable, range) ==
    [kind |-> kind, filters |-> filters, seekable |-> seekable, range |-> range]
Plain == Request("record", 0, TRUE, <<>>)
MCRequests ==
    {Request("live", n, FALSE, <<>>) : n \in 0..2}
    \union {Request("record", 0, TRUE, range) : range \in {<<0, 0>>, <<0, 1>>, <<1, 1>>}}
    \union {Plain, Request("record", 1, FALSE, <<>>)}
(* Bounds: a second recording only beside a plain stream, of one unit and   *)
(* without faults.  A stream that was asked for beside it goes on to its    *)
(* end, without faults, and both have the same content path.                *)
MaxRecordings == IF req = Plain /\ faults = 0 THEN 2 ELSE 1
SecondBegun == 2 \in {recorder} \union DOMAIN file \union removed \union unsaved
Asked == source.end > 0
MCNext ==
    /\ Next
    /\ recorder' <= MaxRecordings
    /\ recorder' = 2 => content'[2] + writer'.held <= 1 /\ faults' = 0
    /\ SecondBegun' /\ Asked' => /\ faults' = 0 /\ path'[2] = path'[1]
                                 /\ phase' \notin {"error", "gone"}

MCSpec == Init /\ [][MCNext]_vars /\ Fairness
=============================================================================
