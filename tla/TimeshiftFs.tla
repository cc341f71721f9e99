---------------------------- MODULE TimeshiftFs ----------------------------
(* mirakc-timeshift-fs, a process of its own, beside a timeshift recorder:  *)
(* it offers the records of the data file as files and reads their packets  *)
(* from the ring.  One user, one open handle; FUSE requests come one after  *)
(* the other.                                                               *)
EXTENDS Timeshift

CONSTANTS ReadSize,   \* units asked for by one read
          MaxOps      \* bound: requests of the user

(* FUSE does not hand down a read of nothing.                               *)
ASSUME ReadAssumption == ReadSize \in Nat \ {0}

VARIABLES
    cache,     \* caches[recorder]: {} or {[mtime, records]}
    req,       \* the request being served: {} or {[op, id, mtime]}
    handle,    \* the open context: {} or {[kind, ids]}
    next,      \* the offset of the next sequential read
    got,       \* the times of the units returned by the last read
    ops

fsVars == <<cache, req, handle, next, got, ops>>
vars == <<tsVars, fsVars>>

The(S) == CHOOSE x \in S : TRUE
Ids(rs) == {rs[i].id : i \in DOMAIN rs}
CachedRecords == IF cache = {} THEN <<>> ELSE The(cache).records
(* get_record()                                                             *)
GetRecord(rs, id) == rs[CHOOSE i \in DOMAIN rs : rs[i].id = id]

(* calc_read_ranges(): at most two ranges <<first, end>> of the file.       *)
CalcReadRanges(size, pos, offset, want) ==
    LET read == Min({size - offset, want})
        start == (pos + offset) % FileSize
        end == (start + read) % FileSize
    IN  IF size = 0 \/ offset >= size THEN <<>>
        ELSE IF end = 0 THEN <<<<start, FileSize>>>>
        ELSE IF start < end THEN <<<<start, end>>>>
        ELSE <<<<start, FileSize>>, <<0, end>>>>
(* RecordBuffer::fill()                                                     *)
Fill(ranges) ==
    FlattenSeq([i \in DOMAIN ranges |->
        [k \in 1..(ranges[i][2] - ranges[i][1]) |-> ts[ranges[i][1] + k - 1]]])

(* update_cache() first reads the modification time of the data file ...    *)
Stat(op, id) ==
    /\ req = {} /\ ops < MaxOps
    /\ ops' = ops + 1
    /\ req' = {[op |-> op, id |-> id, mtime |-> IF data = {} THEN 0 ELSE The(data).mtime]}
    /\ UNCHANGED <<tsVars, cache, handle, next, got>>

(* ... and then loads the file, which may be a newer one by now.            *)
(* Fault: a cache that was filled is kept.                                  *)
UpdateCacheOnce(r) ==
    IF r.mtime # 0 /\ cache = {}
      THEN {[mtime |-> r.mtime, records |-> LoadedRecords]} ELSE cache
UpdateCache(r) ==
    IF r.mtime # 0 /\ (cache = {} \/ r.mtime > The(cache).mtime)
      THEN {[mtime |-> r.mtime, records |-> LoadedRecords]} ELSE cache

Request ==
    \/ Stat("getattr", None)
    \/ handle = {} /\ Stat("opendir", None)
    \* lookup_record() looks for the record before the cache is updated
    \/ \E id \in Ids(CachedRecords) : Stat("lookup", id)
    \/ handle = {} /\ \E id \in Ids(CachedRecords) : Stat("open", id)
    \/ \E h \in handle : h.kind = "record" /\ Stat("read", The(h.ids))

Serving(op) == \E r \in req : r.op = op /\ cache' = UpdateCache(r) /\ req' = {}
Found(id) == id \in Ids(IF cache' = {} THEN <<>> ELSE The(cache').records)

(* lookup and getattr only report attributes.                               *)
Attributes ==
    /\ Serving("lookup") \/ Serving("getattr")
    /\ UNCHANGED <<tsVars, handle, next, got, ops>>
OpenDir ==
    /\ Serving("opendir")
    /\ handle' = {[kind |-> "dir", ids |-> IF cache' = {} THEN {} ELSE Ids(The(cache').records)]}
    /\ UNCHANGED <<tsVars, next, got, ops>>
Open ==
    /\ Serving("open")
    /\ LET id == The(req).id IN
       handle' = IF Found(id) THEN {[kind |-> "record", ids |-> {id}]} ELSE {}
    /\ next' = 0
    /\ UNCHANGED <<tsVars, got, ops>>
(* A record that is gone gives ENOENT, an offset past its end no data.      *)
Read ==
    LET id == The(req).id
        r == GetRecord(The(cache').records, id)
    IN  /\ Serving("read")
        /\ got' = IF Found(id)
                    THEN Fill(CalcReadRanges(GetSize(r), r.start.pos, next, ReadSize))
                    ELSE <<>>
        /\ next' = next + Len(got')
        /\ UNCHANGED <<tsVars, handle, ops>>
Release ==
    /\ req = {} /\ handle # {}
    /\ handle' = {} /\ next' = 0 /\ got' = <<>>
    /\ UNCHANGED <<tsVars, cache, req, ops>>

FsInit == cache = {} /\ req = {} /\ handle = {} /\ next = 0 /\ got = <<>> /\ ops = 0
FsNext == Request \/ Attributes \/ OpenDir \/ Open \/ Read \/ Release

Init == TsInit /\ FsInit
(* A request is short beside the time a chunk takes: the command writes no  *)
(* unit while one is served, but the recorder may save its data file.       *)
Beside == TsNext /\ UNCHANGED fsVars /\ (req # {} => ts' = ts)
Next == Beside \/ FsNext
Spec == Init /\ [][Next]_vars /\ TsFairness

(* A read returns consecutive packets of one record as the data file has    *)
(* it, and never more than it was asked for: no packet of the next round    *)
(* of the ring and none of another record.                                  *)
ReadsReturnTheRecord ==
    [][next' # next /\ got' # <<>> =>
         /\ Len(got') <= ReadSize
         /\ \A i \in 1..(Len(got') - 1) : got'[i + 1] = got'[i] + 1
         /\ \E r \in Range(CachedRecords') :
              /\ \E h \in handle : r.id \in h.ids
              /\ got'[1] >= r.start.t /\ Last(got') < r.end.t]_vars

(* A cache that is as new as the data file has the records of that file.    *)
CacheIsCurrent ==
    \A c \in cache : \A d \in data : c.mtime = d.mtime => c.records = d.records

(* A sequential reader of a record never goes back in time.                 *)
ReadsGoForward ==
    [][got # <<>> /\ got' # <<>> /\ next' > next => got'[1] > Last(got) \/ got' = got]_vars
=============================================================================
