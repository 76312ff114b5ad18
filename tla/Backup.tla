------------------------------- MODULE Backup -------------------------------
(***************************************************************************)
(* internal/redis/io.go and internal/cmd/commands_io.go: ExportKeys and    *)
(* ImportKeys with the file between them.  The scan of an export is the    *)
(* one ScanPromise describes and Sweep implements; keys are then read in   *)
(* chunks, their types and TTLs first, their values in a second pipeline.  *)
(* An import writes a key at a time, its value first, its TTL in a call of *)
(* its own.  Other clients write in between, and the user may connect to   *)
(* another server: each pipeline, and each write of an import, goes to     *)
(* the client of the moment (client.go:58-75).                             *)
(***************************************************************************)
EXTENDS Integers, FiniteSetsExt

CONSTANTS Keys,
          Named,     \* key -> its name in JSON, in which U+FFFD replaces what is not UTF-8
          Elements,  \* what values are made of
          Binary,    \* the element that is not UTF-8 ...
          Replaced,  \* ... and the one JSON makes of it
          Infinite,  \* members of a sorted set with an infinite score
          Chunk,     \* chunkSize
          AtStart,   \* what the exported database may hold at first
          AtOther,   \* what the other server may hold at first
          Others,    \* what other clients may write
          NoFile, Torn,
          Earlier,   \* what the file may be before the export
          \* bounds on what a run may do
          MaxWrites, \* writes of other clients
          MaxImports,
          MaxCopies, \* how often an element may be in a list
          MayFail,   \* calls may fail
          MayMove    \* the user may connect to the other server during an export or import

\* "set" stands for sets, sorted sets and hashes, which an import merges alike; "module" for
\* the types an export leaves out.  A value is a bag of elements; a document also has the
\* number of arrays around it.
Types == {"none", "string", "list", "set", "json", "stream", "module"}
Readable == {"string", "list", "set", "json", "stream"}
Ranges == {"list", "set", "stream"}    \* reading one that is gone answers with nothing
Restorable == {"string", "list", "set", "json"}
NoExpiry == -1
TTLs == {NoExpiry, 0, 1}               \* none, less than half a second left, more
Bags == [Elements -> 0 .. MaxCopies]
NoElements == [e \in Elements |-> 0]
Contents == [type : Types, val : Bags, depth : 0 .. 2, ttl : TTLs]
Targets == [type : Types, val : Bags, depth : 0 .. 3, ttl : TTLs]
Absent == [type |-> "none", val |-> NoElements, depth |-> 0, ttl |-> NoExpiry]

Servers == {"source", "target"}

\* An entry of a file: keyData, the arrays JSON.GET adds included.
KeyData == [type : Types, val : Bags, depth : 0 .. 3, ttl : {0, 1}]
IsData(f) == DOMAIN f \subseteq Keys /\ \A k \in DOMAIN f : f[k] \in KeyData

\* Only a document has arrays around it.
Flat(f) == \A k \in DOMAIN f : f[k].type # "json" => f[k].depth = 0

ASSUME BackupAssumption ==
  /\ Chunk \in Nat \ {0}
  /\ Named \in [Keys -> Keys]
  /\ Binary \in Elements /\ Replaced \in Elements \ {Binary} /\ Infinite \subseteq Elements
  /\ AtStart \subseteq [Keys -> Contents] /\ AtOther \subseteq [Keys -> Contents]
  /\ Others \subseteq Contents
  /\ NoFile # Torn /\ \A f \in Earlier : f \in {NoFile, Torn} \/ (IsData(f) /\ Flat(f))
  /\ MaxWrites \in Nat /\ MaxImports \in Nat /\ MaxCopies \in Nat
  /\ MayFail \in BOOLEAN /\ MayMove \in BOOLEAN

VARIABLES db,      \* server -> key -> content
          at,      \* the server of the installed client
          pipe,    \* the server of the client that a pipeline was made from
          phase,   \* where the export or import is
          status, live, ever, result, \* the scan: see ScanPromise
          rest,    \* keys of allKeys in chunks to come
          chunk,   \* the keys of this chunk
          unread,  \* those of them whose command of the pipeline is still to run
          meta,    \* key -> keyMeta: what TYPE and TTL answered
          export,  \* export: key -> keyData
          file,    \* what the file at the name the user gave parses to
          data,    \* what an import has read of it and not yet written
          item,    \* the key whose TTL comes next, or none
          imports, writes,
          steady,  \* history: keys no one else has written since the export or import began
          origin,  \* history: what the source held when the export began
          moved,   \* history: the user has connected elsewhere since it began
          broken   \* history: an error the code ignores

Sc == INSTANCE ScanPromise

promise == <<status, live, ever, result>>
reading == <<pipe, rest, chunk, unread, meta, export>>
writing == <<data, item, imports>>
history == <<steady, origin, moved, broken>>
vars == <<db, at, pipe, phase, status, live, ever, result, rest, chunk, unread, meta, export,
          file, data, item, imports, writes, steady, origin, moved, broken>>

Nothing == [k \in {} |-> Absent]
NoMeta == [type |-> "none", ttl |-> 0]
Idle == phase \in {"idle", "exported", "failed"}

Init ==
  /\ \E f \in AtStart, g \in AtOther : db = [s \in Servers |-> IF s = "source" THEN f ELSE g]
  /\ at = "source" /\ pipe = at
  /\ phase = "idle" /\ Sc!Init
  /\ rest = {} /\ chunk = {} /\ unread = {} /\ meta = [k \in Keys |-> NoMeta]
  /\ export = Nothing /\ file \in Earlier /\ data = Nothing /\ item = {}
  /\ imports = 0 /\ writes = 0
  /\ steady = {} /\ origin = db["source"] /\ moved = FALSE /\ broken = FALSE

\* Another client writes or deletes a key of the database in use.
OtherWrites(k, c) ==
  /\ ~Idle
  /\ writes < MaxWrites /\ writes' = writes + 1
  /\ db[at][k] # c /\ db' = [db EXCEPT ![at][k] = c]
  /\ steady' = steady \ {k}
  /\ IF status = "running"
       THEN /\ live' = IF c = Absent THEN live \ {k} ELSE live
            /\ ever' = IF c = Absent THEN ever ELSE ever \cup {k}
            /\ Sc!KeysChange
       ELSE UNCHANGED promise
  /\ UNCHANGED <<at, phase, reading, file, writing, origin, moved, broken>>

\* The user connects to the other server (Connect, connection.go).  A scan that is under way
\* goes on there: its promise is void.
Reconnect ==
  /\ MayMove /\ ~Idle /\ ~moved
  /\ at' \in Servers \ {at} /\ moved' = TRUE
  /\ IF phase = "scan" THEN Sc!Fail ELSE UNCHANGED promise
  /\ UNCHANGED <<db, phase, reading, file, writing, writes, steady, origin, broken>>

------------------------------------------------------------------------------
(* ExportKeys *)

StartExport ==
  /\ phase = "idle" /\ phase' = "scan"
  /\ live' = {k \in Keys : db[at][k] # Absent} /\ Sc!Begin
  /\ steady' = Keys /\ origin' = db[at]
  /\ UNCHANGED <<db, at, reading, file, writing, writes, moved, broken>>

\* A scan that went on at another server has found whatever it found.
ScanEnds ==
  /\ phase = "scan" /\ phase' = "chunk"
  /\ \/ result' \in SUBSET ever /\ Sc!End /\ rest' = result'
     \/ moved /\ rest' \in SUBSET Keys /\ UNCHANGED promise
  /\ UNCHANGED <<db, at, pipe, chunk, unread, meta, export, file, writing, writes, history>>

ScanFails ==
  /\ MayFail /\ phase = "scan" /\ phase' = "failed"
  /\ IF moved THEN UNCHANGED promise ELSE Sc!Fail
  /\ UNCHANGED <<db, at, reading, file, writing, writes, history>>

\* The next chunkSize keys, in the order of the scan.
TakeChunk(S) ==
  /\ phase = "chunk" /\ rest # {}
  /\ chunk' = S /\ unread' = S /\ rest' = rest \ S
  /\ meta' = [k \in Keys |-> NoMeta]
  /\ phase' = "meta" /\ pipe' = at
  /\ UNCHANGED <<db, at, promise, export, file, writing, writes, history>>

\* Mutated form: the keys left over when the last chunk is not a full one are forgotten.
NextChunkFull ==
  IF Cardinality(rest) < Chunk
    THEN rest # {} /\ phase = "chunk" /\ rest' = {} /\ UNCHANGED <<db, at, phase, promise,
           pipe, chunk, unread, meta, export, file, writing, writes, history>>
    ELSE \E S \in kSubset(Chunk, rest) : TakeChunk(S)

NextChunk == \E S \in kSubset(Min({Chunk, Cardinality(rest)}), rest) : TakeChunk(S)

\* Mutated form: -1, which says that there is no TTL, is exported as it is.
ReadMetaRaw(k) ==
  /\ phase = "meta" /\ k \in unread
  /\ unread' = unread \ {k}
  /\ meta' = [meta EXCEPT ![k] = [type |-> db[pipe][k].type, ttl |-> db[pipe][k].ttl]]
  /\ UNCHANGED <<db, at, pipe, phase, promise, rest, chunk, export, file, writing, writes, history>>

\* TYPE and TTL of a key; max(ttl, 0).
ReadMeta(k) ==
  /\ phase = "meta" /\ k \in unread
  /\ unread' = unread \ {k}
  /\ meta' = [meta EXCEPT ![k] = [type |-> db[pipe][k].type, ttl |-> Max({db[pipe][k].ttl, 0})]]
  /\ UNCHANGED <<db, at, pipe, phase, promise, rest, chunk, export, file, writing, writes, history>>

\* The error of the pipeline is ignored: the keys it did not reach have no type; one may have
\* its type and no TTL.
MetaCut ==
  /\ MayFail /\ phase = "meta" /\ unread # {}
  /\ \/ UNCHANGED meta
     \/ \E k \in unread : meta' = [meta EXCEPT ![k].type = db[pipe][k].type]
  /\ unread' = {} /\ broken' = TRUE
  /\ UNCHANGED <<db, at, pipe, phase, promise, rest, chunk, export, file, writing, writes, steady,
                 origin, moved>>

StartValues ==
  /\ phase = "meta" /\ unread = {}
  /\ phase' = "values" /\ pipe' = at
  /\ unread' = {k \in chunk : meta[k].type \in Readable}
  /\ UNCHANGED <<db, at, promise, rest, chunk, meta, export, file, writing, writes, history>>

\* The command for the type that was read answers with the value; with nothing for a list or
\* the like that is gone by now, which is exported as empty; and with an error for a string
\* or document that is gone or a key of another type, which is left out.  JSON.GET $ puts an
\* array around a document.
ReadValue(k) ==
  /\ phase = "values" /\ k \in unread
  /\ unread' = unread \ {k}
  /\ LET copy == db[pipe][k]
         t == meta[k].type
         entry == [type |-> t, val |-> copy.val, ttl |-> meta[k].ttl,
                   depth |-> IF t = "json" THEN copy.depth + 1 ELSE 0]
     IN export' = IF copy.type = t \/ (copy = Absent /\ t \in Ranges)
                    THEN [x \in DOMAIN export \cup {k} |-> IF x = k THEN entry ELSE export[x]]
                    ELSE export
  /\ UNCHANGED <<db, at, pipe, phase, promise, rest, chunk, meta, file, writing, writes, history>>

ValuesCut ==
  /\ MayFail /\ phase = "values" /\ unread # {}
  /\ unread' = {} /\ broken' = TRUE
  /\ UNCHANGED <<db, at, pipe, phase, promise, rest, chunk, meta, export, file, writing, writes,
                 steady, origin, moved>>

ChunkEnds ==
  /\ phase = "values" /\ unread = {}
  /\ phase' = "chunk"
  /\ UNCHANGED <<db, at, promise, reading, file, writing, writes, history>>

\* json.MarshalIndent: a U+FFFD for what is not UTF-8, in values and in names.  Names that
\* have become the same are one key to whoever reads the file: the last.
Marshalled(e) ==
  [e EXCEPT !.val = [x \in Elements |->
     IF x = Binary THEN 0
     ELSE IF x # Replaced THEN e.val[x]
     ELSE IF e.type = "set" THEN Max({e.val[x], e.val[Binary]})
     ELSE Min({e.val[x] + e.val[Binary], MaxCopies})]]

Names(f) == {Named[k] : k \in DOMAIN f}

Texts(f) ==
  {[n \in Names(f) |-> Marshalled(f[last[n]])] :
     last \in {g \in [Names(f) -> DOMAIN f] : \A n \in Names(f) : Named[g[n]] = n}}

\* JSON has no number for an infinite score.
Unwritable(e) == e.type = "set" /\ \E x \in Infinite : e.val[x] > 0

\* If the JSON fails, the file is as it was; os.WriteFile truncates it before it writes, so that
\* a part is left of whatever was there, unless the file cannot be opened.
WriteFile ==
  /\ phase = "chunk" /\ rest = {}
  /\ IF \E k \in DOMAIN export : Unwritable(export[k])
       THEN phase' = "failed" /\ UNCHANGED file
       ELSE \/ phase' = "exported" /\ file' \in Texts(export)
            \/ MayFail /\ phase' = "failed" /\ file' \in {file, Torn}
  /\ UNCHANGED <<db, at, promise, reading, writing, writes, history>>

------------------------------------------------------------------------------
(* ImportKeys *)

\* Into the server the user is connected to by now.  A file that is torn does not parse, and
\* nothing is written.
StartImport ==
  /\ phase \in {"exported", "failed"} /\ file \notin {NoFile, Torn}
  /\ imports < MaxImports /\ imports' = imports + 1
  /\ data' = file /\ phase' = "import"
  /\ at' \in Servers
  /\ steady' = {k \in Keys : db[at'][k] = Absent} /\ moved' = FALSE /\ broken' = FALSE
  /\ UNCHANGED <<db, promise, reading, file, item, writes, origin>>

Merged(old, e) ==
  [old EXCEPT !.type = e.type,
              !.val = [x \in Elements |->
                IF e.type = "list" THEN Min({old.val[x] + e.val[x], MaxCopies})
                ELSE Max({old.val[x], e.val[x]})]]

\* What the command for entry e leaves of a key: SET replaces it and sets or clears its TTL;
\* JSON.SET replaces a document; the others add to a value of their type.  A value of
\* another type is left as it is, as is one that an empty entry adds nothing to.
After(old, e) ==
  CASE e.type = "string" -> [e EXCEPT !.ttl = IF e.ttl > 0 THEN e.ttl ELSE NoExpiry]
    [] e.type = "json" /\ old.type \in {"none", "json"} ->
         [e EXCEPT !.ttl = old.ttl]
    [] e.type \in {"list", "set"} /\ old.type \in {"none", e.type} /\ e.val # NoElements ->
         Merged(old, e)
    [] OTHER -> old

\* The file's keys come in no order.  The error of the write is ignored.
Write(k, SendTTL) ==
  /\ phase = "import" /\ item = {} /\ k \in DOMAIN data
  /\ data' = [x \in DOMAIN data \ {k} |-> data[x]]
  /\ LET e == data[k]
     IN /\ \/ db' = [db EXCEPT ![at][k] = After(@, e)] /\ UNCHANGED broken
           \/ MayFail /\ e.type \in Restorable /\ broken' = TRUE /\ UNCHANGED db
        /\ item' = IF e.type \in Restorable \ {"string"} /\ e.ttl > 0 /\ SendTTL THEN {k} ELSE {}
  /\ UNCHANGED <<at, phase, promise, reading, file, imports, writes, steady, origin, moved>>

\* Mutated form: only SetString passes the TTL on.
WriteKeyNoTTL(k) == Write(k, FALSE)

WriteKey(k) == Write(k, TRUE)

\* EXPIRE, on whatever the key holds by now.
SetTTL ==
  /\ phase = "import"
  /\ \E k \in item :
       \/ db' = [db EXCEPT ![at][k].ttl = IF db[at][k] = Absent THEN @ ELSE 1] /\ UNCHANGED broken
       \/ MayFail /\ broken' = TRUE /\ UNCHANGED db
  /\ item' = {}
  /\ UNCHANGED <<at, phase, promise, reading, file, data, imports, writes, steady, origin, moved>>

ImportEnds ==
  /\ phase = "import" /\ item = {} /\ data = Nothing
  /\ phase' = "exported"
  /\ UNCHANGED <<db, at, promise, reading, file, writing, writes, history>>

Stop == phase \in {"exported", "failed"} /\ UNCHANGED vars

Next ==
  \/ \E k \in Keys, c \in Others : OtherWrites(k, c)
  \/ Reconnect
  \/ StartExport \/ ScanEnds \/ ScanFails \/ NextChunk
  \/ \E k \in Keys : ReadMeta(k) \/ ReadValue(k) \/ WriteKey(k)
  \/ MetaCut \/ StartValues \/ ValuesCut \/ ChunkEnds \/ WriteFile
  \/ StartImport \/ SetTTL \/ ImportEnds
  \/ Stop

Spec == Init /\ [][Next]_vars

------------------------------------------------------------------------------
(* Properties *)

\* What is exported is of keys of the database, each with a TTL an import can use.
TypeOK ==
  /\ db \in [Servers -> [Keys -> Targets]] /\ at \in Servers /\ pipe \in Servers
  /\ phase \in {"idle", "scan", "chunk", "meta", "values", "exported", "failed", "import"}
  /\ status \in {"idle", "running", "ended", "void"}
  /\ live \subseteq ever /\ ever \subseteq Keys /\ result \subseteq Keys
  /\ rest \subseteq Keys /\ unread \subseteq chunk /\ chunk \subseteq Keys \ rest
  /\ IsData(export)
  /\ file \in {NoFile, Torn} \/ IsData(file)
  /\ IsData(data) /\ item \subseteq Keys /\ Cardinality(item) <= 1
  /\ imports \in 0 .. MaxImports /\ writes \in 0 .. MaxWrites
  /\ moved \in BOOLEAN /\ broken \in BOOLEAN

\* A key as ExportKeys collects it.
Entry(c) == [type |-> c.type, val |-> c.val, ttl |-> Max({c.ttl, 0}),
             depth |-> IF c.type = "json" THEN c.depth + 1 ELSE 0]

\* The only key that was scanned with its name in the file.
Alone(k) == \A j \in result \ {k} : Named[j] # Named[k]

\* An export that reports success, lost no pipeline and stayed on its server has every key that
\* no one wrote meanwhile, whatever chunk it was in, with its own type and TTL and with its own
\* value, as far as that is text: the answers of the two pipelines, of which the second skips
\* keys, are matched up (io.go:27-145).  It does not hold of every success: the error of a
\* pipeline is ignored (io.go:33, 77; io_test.go:628 expects a success with no entries), and a
\* reconnect between two pipelines puts entries of another server into the file.
ExportComplete ==
  phase = "exported" /\ imports = 0 /\ ~broken /\ ~moved =>
    \A k \in steady : origin[k].type \in Readable /\ Alone(k) =>
      Named[k] \in DOMAIN file /\ file[Named[k]] = Marshalled(Entry(origin[k]))

\* What an entry of the file is as a key.
Key(e) == [e EXCEPT !.ttl = IF e.ttl > 0 THEN e.ttl ELSE NoExpiry]

\* An import of which every write succeeds, on the one server, gives every key of the file that
\* this did not have, and that no one else writes, its value and, although that is a call of
\* its own, its TTL; except streams, which it skips, and empty entries (io.go:167-246).  It
\* does not hold of every success: the errors of the writes are ignored, and a reconnect sends
\* the writes that follow, which may be a TTL's, to the other server (io.go:168,
\* operations.go:141).
ImportRestores ==
  phase = "exported" /\ imports > 0 /\ ~broken /\ ~moved =>
    \A k \in steady \cap DOMAIN file :
      file[k].type \in {"string", "json"} \/ (file[k].type \in Restorable /\ file[k].val # NoElements)
        => db[at][k] = Key(file[k])

=============================================================================
