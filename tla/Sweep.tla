------------------------------- MODULE Sweep -------------------------------
(***************************************************************************)
(* internal/redis: the operations that walk the whole keyspace in pages.   *)
(* scanAll and scanEach read page after page, in cluster mode in one       *)
(* goroutine per master, and hand each page to the operation; bulk delete  *)
(* and batch TTL then write in chunks what the scan has found.  Meanwhile  *)
(* other clients change keys, and the user may connect to another server,  *)
(* which outside cluster mode the sweep follows in mid-scan.               *)
(***************************************************************************)
EXTENDS Integers, SequencesExt

CONSTANTS Keys,
          Masters,   \* the masters of the cluster
          HomeOf,    \* key -> the master that has it
          BucketOf,  \* key -> where SCAN finds it: its cursor runs over buckets
          Buckets,   \* buckets of a node
          Wanted,    \* the keys that match what the user asked for
          Score,     \* key -> fuzzyScore, 0 for no match
          Limit,     \* maxKeys
          Chunk,     \* chunkSize
          Kinds,     \* the operations the run may start
          NoNode,
          AtStart,   \* what the database may hold at first
          \* bounds on what a run may do
          MaxWrites, \* writes of other clients
          MaxRepeats,\* keys that SCAN returns twice
          MayFail,   \* calls may fail
          MayMove    \* the user may connect to another server

\* The searched text is in every string and every list; a sorted set is not searched.
Contents == {"gone", "string", "list", "zset"}
Searchable == {"string", "list"}
Servers == {"first", "second"}
Solo == CHOOSE m \in Masters : TRUE

Filtered == {"value", "delete", "expire"}              \* SCAN has the user's pattern
Limited == {"regex", "value", "sample"}                \* stop at maxKeys
Whole == {"prefixes", "delete", "expire"}              \* take every key
Written == {"delete", "expire"}                        \* then write in chunks

ASSUME SweepAssumption ==
  /\ IsFiniteSet(Keys) /\ Masters # {} /\ NoNode \notin Masters
  /\ HomeOf \in [Keys -> Masters]
  /\ Buckets \in Nat \ {0} /\ BucketOf \in [Keys -> 1 .. Buckets]
  /\ Wanted \subseteq Keys /\ Score \in [Keys -> Nat]
  /\ Limit \in Nat \ {0} /\ Chunk \in Nat \ {0}
  /\ Kinds \subseteq Limited \cup Whole \cup {"fuzzy"}
  /\ AtStart \subseteq [Keys -> Contents]
  /\ MaxWrites \in Nat /\ MaxRepeats \in Nat /\ MayFail \in BOOLEAN /\ MayMove \in BOOLEAN

VARIABLES db,      \* server -> key -> what it holds
          expires, \* server -> the keys whose TTL the batch has set, or removed
          at,      \* the server the installed client talks to
          clustered, \* isCluster when the sweep began
          kind,    \* which operation
          phase,   \* "idle", "scan", "chunks", "done" or "failed"
          pc,      \* node -> where its goroutine is
          pos,     \* node -> the bucket its cursor is at
          page,    \* node -> the page it has read
          read,    \* node -> key -> its answer to TYPE (SearchByValue)
          mu,      \* the goroutine that holds the mutex of scanEach
          stopped, \* stopped
          found,   \* the keys kept: allKeys, matchingKeys, matches or the heap
          next,    \* how many of them the chunks have been through
          count,   \* deleted, or count
          writes, repeats,
          moved,   \* history: the phase the user connected to the other server in, or "no"
          broken,  \* history: a pipeline of SearchByValue failed, which it ignores
          steady,  \* history: the keys no one else has written since the start
          live, ever \* history: as in ScanPromise, while the scan runs

store == <<db, expires, at>>
history == <<moved, broken, steady, live, ever>>
scan == <<pc, pos, page, read, mu, stopped>>
job == <<clustered, kind, phase>>
bounds == <<writes, repeats>>
vars == <<db, expires, at, clustered, kind, phase, pc, pos, page, read, mu, stopped, found,
          next, count, writes, repeats, moved, broken, steady, live, ever>>

Nodes == IF clustered THEN Masters ELSE {Solo}
Present(s) == {k \in Keys : db[s][k] # "gone"}
Matching(k) == kind \in Filtered => k \in Wanted

Init ==
  /\ db \in {[s \in Servers |-> IF s = "first" THEN d ELSE [k \in Keys |-> "string"]] : d \in AtStart}
  /\ expires = [s \in Servers |-> {}] /\ at = "first"
  /\ clustered \in BOOLEAN /\ kind \in Kinds /\ phase = "idle"
  /\ pc = [m \in Masters |-> "ended"] /\ pos = [m \in Masters |-> 1]
  /\ page = [m \in Masters |-> << >>]
  /\ read = [m \in Masters |-> [k \in Keys |-> "gone"]]
  /\ mu = NoNode /\ stopped = FALSE /\ found = << >> /\ next = 0 /\ count = 0
  /\ writes = 0 /\ repeats = 0 /\ moved = "no" /\ broken = FALSE
  /\ steady = {} /\ live = {} /\ ever = {}

\* ForEachMaster starts a goroutine per master; outside cluster mode there is one loop.
Begin ==
  /\ phase = "idle" /\ phase' = "scan"
  /\ pc' = [m \in Masters |-> IF m \in Nodes THEN "loop" ELSE "ended"]
  /\ LET there == {k \in Present(at) : Matching(k)}
     IN steady' = there /\ live' = there /\ ever' = there
  /\ UNCHANGED <<store, clustered, kind, pos, page, read, mu, stopped, found, next, count, bounds, moved, broken>>

------------------------------------------------------------------------------
(* What goes on beside the sweep *)

\* Another client, or another command, writes or deletes a key.
OtherWrites(k, c) ==
  /\ phase \in {"scan", "chunks"}
  /\ writes < MaxWrites /\ writes' = writes + 1
  /\ db["first"][k] # c
  /\ db' = [db EXCEPT !["first"][k] = c]
  /\ expires' = [expires EXCEPT !["first"] = @ \ {k}]
  /\ steady' = steady \ {k}
  /\ live' = IF phase = "scan" /\ c = "gone" THEN live \ {k} ELSE live
  /\ ever' = IF phase = "scan" /\ c # "gone" /\ Matching(k) THEN ever \cup {k} ELSE ever
  /\ UNCHANGED <<at, job, scan, found, next, count, repeats, moved, broken>>

\* Connect installs a client of another server and closes the first one's.
Move ==
  /\ MayMove /\ moved = "no" /\ phase \in {"scan", "chunks"}
  /\ at' = "second" /\ moved' = phase
  /\ UNCHANGED <<db, expires, job, scan, found, next, count, bounds, broken, steady, live, ever>>

------------------------------------------------------------------------------
(* The scan *)

\* What a node's bucket b holds for this SCAN.
KeysIn(m, b) ==
  {k \in Present(at) : Matching(k) /\ BucketOf[k] = b /\ (clustered => HomeOf[k] = m)}

\* SCAN guarantees the keys of the bucket; when the table is resized it may return one
\* of an earlier bucket again.
Pages(m) ==
  LET now == KeysIn(m, pos[m])
      again == UNION {KeysIn(m, b) : b \in 1 .. pos[m] - 1}
  IN SetToSeqs(now) \cup IF repeats = MaxRepeats THEN {}
                         ELSE UNION {SetToSeqs(now \cup {k}) : k \in again}

\* Outside cluster mode each page goes through cmdable, to the client of that moment; in
\* cluster mode through the client the sweep began with, which a reconnect has closed.
Scan(m) ==
  /\ pc[m] = "loop" /\ ~stopped
  /\ clustered => moved = "no"
  /\ \E p \in Pages(m) :
       /\ page' = [page EXCEPT ![m] = p]
       /\ repeats' = repeats + (Len(p) - Cardinality(KeysIn(m, pos[m])))
  /\ pos' = [pos EXCEPT ![m] = @ + 1]
  /\ pc' = [pc EXCEPT ![m] = "take"]
  /\ UNCHANGED <<store, job, read, mu, stopped, found, next, count, writes, history>>

ScanError(m) ==
  /\ pc[m] = "loop" /\ ~stopped
  /\ MayFail \/ (clustered /\ moved # "no")
  /\ pc' = [pc EXCEPT ![m] = "error"]
  /\ UNCHANGED <<store, job, pos, page, read, mu, stopped, found, next, count, bounds, history>>

\* The check of stopped at the head of the loop.
Leave(m) ==
  /\ pc[m] = "loop" /\ stopped
  /\ mu = NoNode
  /\ pc' = [pc EXCEPT ![m] = "ended"]
  /\ UNCHANGED <<store, job, pos, page, read, mu, stopped, found, next, count, bounds, history>>

\* Mutated form: an empty page ends the loop.
TurnAtEmptyPage(m) == IF pos[m] > Buckets \/ page[m] = << >> THEN "ended" ELSE "loop"

\* cursor == 0 ends the loop.
Turn(m) == IF pos[m] > Buckets THEN "ended" ELSE "loop"

\* consider: a full heap replaces its least element by a better one.
Consider(heap, k) ==
  IF Score[k] = 0 THEN heap
  ELSE IF Len(heap) < Limit THEN Append(heap, k)
  ELSE LET root == CHOOSE i \in DOMAIN heap : \A j \in DOMAIN heap : Score[heap[i]] <= Score[heap[j]]
       IN IF Score[k] > Score[heap[root]] THEN [heap EXCEPT ![root] = k] ELSE heap

\* consider, for each key of page p in turn.
Considered(p) ==
  LET heap[i \in 0 .. Len(p)] == IF i = 0 THEN found ELSE Consider(heap[i - 1], p[i])
  IN heap[Len(p)]

\* The search loops append a hit before they look at the limit.
UpToLimit(hits) == found \o SubSeq(hits, 1, Min({Len(hits), Max({1, Limit - Len(found)})}))

\* The keys of page p that are in S.
Picked(p, S) ==
  LET picked[i \in 0 .. Len(p)] ==
        IF i = 0 THEN << >> ELSE IF p[i] \in S THEN Append(picked[i - 1], p[i]) ELSE picked[i - 1]
  IN picked[Len(p)]

\* What an operation keeps of a page p.
Keep(p) ==
  CASE kind = "regex"  -> UpToLimit(Picked(p, Wanted))
    [] kind = "fuzzy"  -> Considered(p)
    [] OTHER           -> found \o p

\* Mutated form: the fuzzy search stops at maxKeys like the others.
FullFuzzy(kept) == kind \in Limited \cup {"fuzzy"} /\ Len(kept) >= Limit

Full(kept) == kind \in Limited /\ Len(kept) >= Limit

\* Mutated form: a page that was read before stopped was set is handed on all the same.
TakeUnchecked(m) ==
  /\ pc[m] = "take" /\ kind # "value" /\ mu = NoNode
  /\ found' = IF page[m] = << >> THEN found ELSE Keep(page[m])
  /\ stopped' = (stopped \/ Full(found'))
  /\ pc' = [pc EXCEPT ![m] = Turn(m)]
  /\ page' = [page EXCEPT ![m] = << >>]
  /\ UNCHANGED <<store, job, pos, read, mu, next, count, bounds, history>>

\* Under the mutex: fn, unless an earlier call of it said stop.
Take(m) ==
  /\ pc[m] = "take" /\ kind # "value" /\ mu = NoNode
  /\ found' = IF stopped \/ page[m] = << >> THEN found ELSE Keep(page[m])
  /\ stopped' = (stopped \/ Full(found'))
  /\ pc' = [pc EXCEPT ![m] = Turn(m)]
  /\ page' = [page EXCEPT ![m] = << >>]
  /\ UNCHANGED <<store, job, pos, read, mu, next, count, bounds, history>>

\* SearchByValue's fn makes two round trips while it holds the mutex: TYPE of each key, then
\* the beginning of each value.
TakeTypes(m) ==
  /\ pc[m] = "take" /\ kind = "value" /\ mu = NoNode
  /\ IF stopped \/ page[m] = << >>
       THEN /\ pc' = [pc EXCEPT ![m] = Turn(m)]
            /\ page' = [page EXCEPT ![m] = << >>]
            /\ UNCHANGED <<read, mu, broken>>
       ELSE /\ pc' = [pc EXCEPT ![m] = "values"]
            /\ mu' = m
            /\ \/ read' = [read EXCEPT ![m] = db[at]] /\ UNCHANGED broken
               \/ MayFail /\ broken' = TRUE /\ UNCHANGED read
            /\ UNCHANGED page
  /\ UNCHANGED <<store, job, pos, stopped, found, next, count, bounds, moved, steady, live, ever>>

\* A value of another type than TYPE said answers with an error, or not at all, and is no match.
Hits(m) == Picked(page[m], {k \in Keys : read[m][k] \in Searchable /\ db[at][k] = read[m][k]})

\* Mutated form: the call that stops the scan returns with the mutex still held.
TakeValuesKeepLock(m) ==
  /\ pc[m] = "values"
  /\ found' = UpToLimit(Hits(m))
  /\ stopped' = Full(found')
  /\ mu' = IF stopped' THEN mu ELSE NoNode
  /\ pc' = [pc EXCEPT ![m] = Turn(m)]
  /\ page' = [page EXCEPT ![m] = << >>]
  /\ read' = [read EXCEPT ![m] = [k \in Keys |-> "gone"]]
  /\ UNCHANGED <<store, job, pos, next, count, bounds, history>>

TakeValues(m) ==
  /\ pc[m] = "values"
  /\ \/ found' = UpToLimit(Hits(m)) /\ UNCHANGED broken
     \/ MayFail /\ broken' = TRUE /\ UNCHANGED found
  /\ stopped' = Full(found')
  /\ mu' = NoNode
  /\ pc' = [pc EXCEPT ![m] = Turn(m)]
  /\ page' = [page EXCEPT ![m] = << >>]
  /\ read' = [read EXCEPT ![m] = [k \in Keys |-> "gone"]]
  /\ UNCHANGED <<store, job, pos, next, count, bounds, moved, steady, live, ever>>

\* scanLimited cuts what the last page brought too much.
Cut == IF kind = "sample" THEN SubSeq(found, 1, Min({Len(found), Limit})) ELSE found

\* ForEachMaster waits for all and returns the first error, which ends the operation.
ScanEnds ==
  /\ phase = "scan" /\ \A m \in Nodes : pc[m] \in {"ended", "error"}
  /\ phase' = IF \E m \in Nodes : pc[m] = "error" THEN "failed"
              ELSE IF kind \in Written THEN "chunks" ELSE "done"
  /\ found' = Cut
  /\ UNCHANGED <<store, clustered, kind, scan, next, count, bounds, history>>

------------------------------------------------------------------------------
(* BulkDelete and BatchSetTTL: chunk after chunk, to the client of the moment *)

ChunkEnd == Min({next + Chunk, Len(found)})

InChunk == SubSeq(found, next + 1, ChunkEnd)

DeleteChunk ==
  /\ phase = "chunks" /\ kind = "delete" /\ next < Len(found)
  /\ LET gone == ToSet(InChunk) \cap Present(at)
     IN /\ db' = [db EXCEPT ![at] = [k \in Keys |-> IF k \in gone THEN "gone" ELSE @[k]]]
        /\ count' = count + Cardinality(gone)
  /\ next' = ChunkEnd
  /\ UNCHANGED <<expires, at, job, scan, found, bounds, history>>

\* An error ends the operation; what the DEL has done before it is not counted.
DeleteError ==
  /\ MayFail /\ phase = "chunks" /\ kind = "delete" /\ next < Len(found)
  /\ \E gone \in SUBSET (ToSet(InChunk) \cap Present(at)) :
       db' = [db EXCEPT ![at] = [k \in Keys |-> IF k \in gone THEN "gone" ELSE @[k]]]
  /\ phase' = "failed"
  /\ UNCHANGED <<expires, at, clustered, kind, scan, found, next, count, bounds, history>>

\* Mutated form: every command of the chunk is counted, failed or not.
ExpireCountsAll ==
  /\ phase = "chunks" /\ kind = "expire" /\ next < Len(found)
  /\ \E done \in IF MayFail THEN SUBSET DOMAIN InChunk ELSE {DOMAIN InChunk} :
       expires' = [expires EXCEPT ![at] = @ \cup ({InChunk[i] : i \in done} \cap Present(at))]
  /\ count' = count + Len(InChunk)
  /\ next' = ChunkEnd
  /\ UNCHANGED <<db, at, job, scan, found, bounds, history>>

\* EXPIRE, or PERSIST for a TTL that is not positive, of each key of the chunk, in one pipeline.
\* Its error is ignored: the commands that were answered are counted, whether or not their key
\* was there; of the others the server may have done any, on any master.
ExpireChunk ==
  /\ phase = "chunks" /\ kind = "expire" /\ next < Len(found)
  /\ \E done \in IF MayFail THEN SUBSET DOMAIN InChunk ELSE {DOMAIN InChunk} :
       /\ expires' = [expires EXCEPT ![at] = @ \cup ({InChunk[i] : i \in done} \cap Present(at))]
       /\ \E answered \in IF MayFail THEN SUBSET done ELSE {done} :
            count' = count + Cardinality(answered)
  /\ next' = ChunkEnd
  /\ UNCHANGED <<db, at, job, scan, found, bounds, history>>

ChunksEnd ==
  /\ phase = "chunks" /\ next = Len(found)
  /\ phase' = "done"
  /\ UNCHANGED <<store, clustered, kind, scan, found, next, count, bounds, history>>

Finished == phase \in {"done", "failed"} /\ UNCHANGED vars

------------------------------------------------------------------------------
Loop(m) == Scan(m) \/ ScanError(m) \/ Leave(m) \/ Take(m) \/ TakeTypes(m) \/ TakeValues(m)
Step == ScanEnds \/ DeleteChunk \/ DeleteError \/ ExpireChunk \/ ChunksEnd

Next ==
  \/ Begin
  \/ \E k \in Keys, c \in Contents : OtherWrites(k, c)
  \/ Move
  \/ \E m \in Masters : Loop(m)
  \/ Step
  \/ Finished

\* Every call of go-redis answers or times out, every goroutine gets to run, and a mutex
\* that is free again and again is got.
Fairness == WF_vars(Step) /\ \A m \in Masters : WF_vars(Loop(m))

Spec == Init /\ [][Next]_vars /\ Fairness

------------------------------------------------------------------------------
(* Properties *)

\* One goroutine at a time is in fn, and a chunk never starts past the end.
TypeOK ==
  /\ db \in [Servers -> [Keys -> Contents]] /\ expires \in [Servers -> SUBSET Keys]
  /\ at \in Servers /\ clustered \in BOOLEAN /\ kind \in Kinds
  /\ phase \in {"idle", "scan", "chunks", "done", "failed"}
  /\ pc \in [Masters -> {"loop", "take", "values", "ended", "error"}]
  /\ pos \in [Masters -> 1 .. Buckets + 1]
  /\ page \in [Masters -> Seq(Keys)] /\ read \in [Masters -> [Keys -> Contents]]
  /\ mu \in Masters \cup {NoNode} /\ stopped \in BOOLEAN
  /\ \A m \in Masters : pc[m] = "values" <=> mu = m
  /\ found \in Seq(Keys) /\ next \in 0 .. Len(found) /\ count \in Nat
  /\ writes \in 0 .. MaxWrites /\ repeats \in 0 .. MaxRepeats
  /\ moved \in {"no", "scan", "chunks"} /\ broken \in BOOLEAN
  /\ steady \subseteq Keys /\ live \subseteq ever /\ ever \subseteq Keys

\* A search never answers with more than maxKeys keys, although the masters of a cluster are
\* read at the same time and each has a page in hand when the last place is taken
\* (client.go:154, enumeration.go:152, 236, 358).
LimitRespected ==
  \/ kind \in {"regex", "value", "fuzzy"} /\ Len(found) <= Limit
  \/ kind = "sample" /\ (phase = "done" => Len(found) <= Limit)
  \/ kind \in Whole

\* A sweep outside cluster mode that the user did not take to another server in mid-scan.
OneServer == clustered \/ moved # "scan"

Searched(k) ==
  CASE kind = "regex" -> k \in Wanted
    [] kind = "value" -> db["first"][k] \in Searchable
    [] OTHER          -> TRUE

NoBetter(k) == Len(found) = Limit /\ \A i \in DOMAIN found : Score[found[i]] >= Score[k]

\* The pipelines of a search by value go to the client of the moment even in cluster mode.
OneSource == OneServer /\ (kind = "value" => moved = "no")

\* A search that reports success has every matching key that no one touched meanwhile, or has
\* filled the places that the limit allows, in the fuzzy search with none that scores less
\* (enumeration.go:184), and with a different key in each place.  A key that SCAN returns twice
\* takes two places, of which the code knows nothing: then only the count of places holds, and
\* of the best keys one may be missing.  Not claimed of a sweep that a reconnect took to another
\* server, nor of a search by value one of whose pipelines failed: it ignores the error
\* (enumeration.go:321, 360), and reports success without the keys of that page.
SearchComplete ==
  phase = "done" /\ OneSource /\ ~broken =>
    /\ repeats = 0 => IsInjective(found)
    /\ \A k \in steady \ ToSet(found) :
         /\ kind \in Limited /\ Searched(k) => Len(found) = Limit
         /\ kind = "fuzzy" /\ Score[k] > 0 => NoBetter(k)

\* A bulk delete that reports success has deleted every matching key that no one else wrote,
\* whatever chunk it was in (operations.go:126).  A batch TTL reports success whatever becomes
\* of its pipelines (operations.go:177), but its count falls short of the keys it found by at
\* least those it left as they were, so that a full count means that none is left.  Not claimed
\* once a reconnect has taken the sweep, or its later chunks, to another server.
BulkComplete ==
  phase = "done" /\ moved = "no" =>
    /\ kind = "delete" => \A k \in steady : db[at][k] = "gone"
    /\ kind = "expire" => count + Cardinality(steady \ expires[at]) <= Len(found)

\* A scan comes to its end, with an answer or an error: the goroutines do not wait for each
\* other's mutex for ever, nor after one of them said stop (client.go:137-168).
ScanComesToEnd == phase = "scan" ~> phase # "scan"

\* scanAll, and scanEach without a limit, implement the promise of a scan, as long as the
\* user does not connect to another server outside cluster mode in mid-scan.
Promise == INSTANCE ScanPromise WITH
  status <- IF kind \notin Whole \/ phase = "idle" THEN "idle"
            ELSE IF moved = "scan" /\ ~clustered THEN "void"
            ELSE IF phase = "scan" THEN "running"
            ELSE IF \E m \in Nodes : pc[m] = "error" THEN "void" ELSE "ended",
  live <- IF kind \in Whole THEN live ELSE {},
  ever <- IF kind \in Whole THEN ever ELSE {},
  result <- IF kind \in Whole /\ phase \notin {"idle", "scan"} /\ OneServer
              /\ \A m \in Nodes : pc[m] = "ended" THEN ToSet(found) ELSE {}

KeepsPromise == Promise!Spec
=============================================================================
