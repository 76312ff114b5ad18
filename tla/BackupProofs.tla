---------------------------- MODULE BackupProofs ----------------------------
(***************************************************************************)
(* Proofs about Backup, for any keys, contents, chunk size and bounds.     *)
(***************************************************************************)
EXTENDS Backup, TLAPS, FiniteSetTheorems

(* The types, and where each phase has its keys *)

Exporting == {"chunk", "meta", "values"}
Metas == [type : Types, ttl : {0, 1}]

\* The export and import are at most one at a time; an import comes after all exports, so that
\* these read contents that no import has made.
Order ==
  /\ meta \in [Keys -> Metas]
  /\ phase \in {"idle", "scan"} \cup Exporting => imports = 0
  /\ imports = 0 => db \in [Servers -> [Keys -> Contents]]
  /\ phase = "import" => imports > 0
  /\ phase \in {"idle", "scan"} =>
       rest = {} /\ chunk = {} /\ unread = {} /\ result = {} /\ export = Nothing

Flatness == Flat(export) /\ Flat(data) /\ (file \notin {NoFile, Torn} => Flat(file))

TypesInv == TypeOK /\ Order /\ Flatness

------------------------------------------------------------------------------
(* Lemmas about the operators *)

LEMMA MaxOfTwo ==
  ASSUME NEW a \in Int, NEW b \in Int
  PROVE  Max({a, b}) = IF a >= b THEN a ELSE b
<1> DEFINE m == IF a >= b THEN a ELSE b
<1>1. m \in {a, b} /\ \A y \in {a, b} : m >= y
  OBVIOUS
<1>2. \A x \in {a, b} : (\A y \in {a, b} : x >= y) => x = m
  OBVIOUS
<1> QED BY <1>1, <1>2 DEF Max

LEMMA MinOfTwo ==
  ASSUME NEW a \in Int, NEW b \in Int
  PROVE  Min({a, b}) = IF a <= b THEN a ELSE b
<1> DEFINE m == IF a <= b THEN a ELSE b
<1>1. m \in {a, b} /\ \A y \in {a, b} : m <= y
  OBVIOUS
<1>2. \A x \in {a, b} : (\A y \in {a, b} : x <= y) => x = m
  OBVIOUS
<1> QED BY <1>1, <1>2 DEF Min

\* What a key may hold: the contents are contents of either database.
LEMMA ContentTypes ==
  /\ NoElements \in Bags /\ Absent \in Contents /\ Contents \subseteq Targets
  /\ Others \subseteq Contents
BY BackupAssumption DEF NoElements, Bags, Absent, Contents, Targets, Types, TTLs, NoExpiry

\* The list or set that an import adds to is one afterwards.
LEMMA MergedType ==
  ASSUME NEW old \in Targets, NEW e \in KeyData
  PROVE  Merged(old, e) \in Targets
<1>1. \A x \in Elements : old.val[x] \in 0 .. MaxCopies /\ e.val[x] \in 0 .. MaxCopies
  BY DEF Targets, KeyData, Bags
<1>2. \A x \in Elements :
        (IF e.type = "list" THEN Min({old.val[x] + e.val[x], MaxCopies})
         ELSE Max({old.val[x], e.val[x]})) \in 0 .. MaxCopies
  <2> TAKE x \in Elements
  <2>1. Min({old.val[x] + e.val[x], MaxCopies}) \in 0 .. MaxCopies
    BY <1>1, MinOfTwo, BackupAssumption
  <2>2. Max({old.val[x], e.val[x]}) \in 0 .. MaxCopies
    BY <1>1, MaxOfTwo, BackupAssumption
  <2> QED BY <2>1, <2>2
<1> DEFINE val == [x \in Elements |->
                     IF e.type = "list" THEN Min({old.val[x] + e.val[x], MaxCopies})
                     ELSE Max({old.val[x], e.val[x]})]
<1>3. val \in Bags
  BY <1>2 DEF Bags
<1>4. Merged(old, e) = [old EXCEPT !.type = e.type, !.val = val]
  BY DEF Merged
<1> HIDE DEF val
<1> QED BY <1>3, <1>4 DEF Targets, KeyData

\* Whatever is imported leaves a content.
LEMMA AfterType ==
  ASSUME NEW old \in Targets, NEW e \in KeyData
  PROVE  After(old, e) \in Targets
<1>1. CASE e.type = "string"
  BY <1>1 DEF After, Targets, KeyData, TTLs, NoExpiry
<1>2. CASE e.type = "json"
  BY <1>2 DEF After, Targets, KeyData
<1>3. CASE e.type \in {"list", "set"}
  BY <1>3, MergedType DEF After
<1>4. CASE e.type \notin {"string", "json", "list", "set"}
  BY <1>4 DEF After
<1> QED BY <1>1, <1>2, <1>3, <1>4

\* An entry of the file, as ReadValue makes it.
LEMMA EntryType ==
  ASSUME NEW c \in Contents, NEW t \in Types, NEW ttl \in {0, 1}
  PROVE  LET e == [type |-> t, val |-> c.val, ttl |-> ttl,
                   depth |-> IF t = "json" THEN c.depth + 1 ELSE 0]
         IN e \in KeyData /\ (e.type # "json" => e.depth = 0)
BY DEF Contents, KeyData

\* Fewer entries of a file are entries of it.
LEMMA FewerData ==
  ASSUME NEW f, IsData(f), Flat(f), NEW k
  PROVE  LET g == [x \in DOMAIN f \ {k} |-> f[x]]
         IN IsData(g) /\ Flat(g)
BY DEF IsData, Flat

LEMMA NothingIsData == IsData(Nothing) /\ Flat(Nothing) /\ DOMAIN Nothing = {}
BY DEF IsData, Flat, Nothing

------------------------------------------------------------------------------
(* The types are kept *)

LEMMA InitTypes == Init => TypesInv
<1> SUFFICES ASSUME Init PROVE TypesInv
  OBVIOUS
<1>1. db \in [Servers -> [Keys -> Contents]]
  BY BackupAssumption DEF Init
<1>2. db \in [Servers -> [Keys -> Targets]]
  BY <1>1, ContentTypes
<1>3. NoMeta \in Metas
  BY DEF NoMeta, Metas, Types
<1>4. item = {} /\ Cardinality(item) <= 1
  BY FS_EmptySet DEF Init
<1>5. file \in {NoFile, Torn} \/ (IsData(file) /\ Flat(file))
  BY BackupAssumption DEF Init
<1>6. TypeOK
  <2>1. /\ at \in Servers /\ pipe \in Servers /\ phase = "idle"
        /\ status = "idle" /\ live = {} /\ ever = {} /\ result = {}
        /\ rest = {} /\ chunk = {} /\ unread = {} /\ export = Nothing /\ data = Nothing /\ item = {}
        /\ imports = 0 /\ writes = 0
    BY DEF Init, Sc!Init, Servers
  <2>2. moved \in BOOLEAN /\ broken \in BOOLEAN
    BY DEF Init
  <2> QED BY <1>2, <1>4, <1>5, <2>1, <2>2, NothingIsData, BackupAssumption DEF TypeOK
<1> QED BY <1>1, <1>3, <1>5, <1>6, NothingIsData DEF TypesInv, Order, Flatness, Init, Sc!Init, Exporting

\* What a server holds of a key.
LEMMA ContentOf ==
  ASSUME TypesInv, NEW s \in Servers, NEW k \in Keys
  PROVE  db[s][k] \in Targets /\ (imports = 0 => db[s][k] \in Contents)
BY DEF TypesInv, TypeOK, Order

\* One key of one server changes.
LEMMA OneKeyChanges ==
  ASSUME TypesInv, NEW k \in Keys, NEW c \in Targets, imports = 0 => c \in Contents,
         db' = [db EXCEPT ![at][k] = c]
  PROVE  /\ db' \in [Servers -> [Keys -> Targets]]
         /\ imports = 0 => db' \in [Servers -> [Keys -> Contents]]
         /\ db'[at][k] = c
         /\ \A s \in Servers, x \in Keys : s # at \/ x # k => db'[s][x] = db[s][x]
<1>1. at \in Servers /\ db \in [Servers -> [Keys -> Targets]]
  BY DEF TypesInv, TypeOK
<1>2. db' = [db EXCEPT ![at] = [db[at] EXCEPT ![k] = c]]
  BY <1>1
<1>3. [db[at] EXCEPT ![k] = c] \in [Keys -> Targets]
  BY <1>1
<1>4. ASSUME imports = 0 PROVE db' \in [Servers -> [Keys -> Contents]]
  <2>1. db \in [Servers -> [Keys -> Contents]] /\ c \in Contents
    BY <1>4 DEF TypesInv, Order
  <2> QED BY <1>1, <1>2, <2>1
<1> QED BY <1>1, <1>2, <1>3, <1>4

LEMMA OtherWritesTypes ==
  ASSUME TypesInv, NEW k \in Keys, NEW c \in Others, OtherWrites(k, c)
  PROVE  TypesInv'
<1>1. c \in Contents /\ c \in Targets
  BY ContentTypes
<1>2. /\ db' = [db EXCEPT ![at][k] = c]
      /\ UNCHANGED <<at, pipe, phase, rest, chunk, unread, meta, export, file, data, item, imports,
                     moved, broken>>
  BY DEF OtherWrites, reading, writing
<1>3. db' \in [Servers -> [Keys -> Targets]] /\ (imports = 0 => db' \in [Servers -> [Keys -> Contents]])
  BY <1>1, <1>2, OneKeyChanges
<1>4. live' \subseteq ever' /\ ever' \subseteq Keys /\ result' = result /\ status' = status
  BY DEF OtherWrites, TypesInv, TypeOK, promise, Sc!KeysChange
<1>5. writes' \in 0 .. MaxWrites
  BY BackupAssumption DEF OtherWrites, TypesInv, TypeOK
<1> QED BY <1>2, <1>3, <1>4, <1>5 DEF TypesInv, TypeOK, Order, Flatness, Flat, IsData

LEMMA ReconnectTypes ==
  ASSUME TypesInv, Reconnect
  PROVE  TypesInv'
<1>1. /\ at' \in Servers /\ moved' = TRUE /\ status' \in {status, "void"}
      /\ UNCHANGED <<db, pipe, phase, live, ever, result, rest, chunk, unread, meta, export, file, data,
                     item, imports, writes, broken>>
  BY DEF Reconnect, Sc!Fail, promise, reading, writing
<1> QED BY <1>1 DEF TypesInv, TypeOK, Order, Flatness, Flat, IsData

LEMMA ExportTypes ==
  ASSUME TypesInv, StartExport \/ ScanEnds \/ ScanFails
  PROVE  TypesInv'
<1> USE DEF TypesInv, TypeOK, Order, Flatness, Flat, IsData, Exporting
<1>1. CASE StartExport
  BY <1>1 DEF StartExport, Sc!Begin, reading, writing
<1>2. CASE ScanEnds
  <2>1. /\ rest' \subseteq Keys /\ result' \subseteq Keys /\ chunk = {}
        /\ status' \in {status, "ended"} /\ live' = live /\ ever' = ever
    BY <1>2 DEF ScanEnds, Sc!End, promise
  <2> QED BY <1>2, <2>1 DEF ScanEnds, writing, history
<1>3. CASE ScanFails
  <2>1. status' \in {status, "void"} /\ UNCHANGED <<live, ever, result>>
    BY <1>3 DEF ScanFails, Sc!Fail, promise
  <2> QED BY <1>3, <2>1 DEF ScanFails, reading, writing, history
<1> QED BY <1>1, <1>2, <1>3

LEMMA ChunkTypes ==
  ASSUME TypesInv, NEW S \in SUBSET rest, TakeChunk(S)
  PROVE  TypesInv'
<1>1. NoMeta \in Metas
  BY DEF NoMeta, Metas, Types
<1> QED BY <1>1 DEF TakeChunk, TypesInv, TypeOK, Order, Flatness, Flat, IsData, Exporting, promise, writing, history

\* What TYPE and TTL answer.
LEMMA MetaType ==
  ASSUME TypesInv, imports = 0, NEW k \in Keys
  PROVE  /\ db[pipe][k].type \in Types
         /\ [type |-> db[pipe][k].type, ttl |-> Max({db[pipe][k].ttl, 0})] \in Metas
<1>1. db[pipe][k] \in Contents
  BY ContentOf DEF TypesInv, TypeOK
<1>2. db[pipe][k].type \in Types /\ db[pipe][k].ttl \in {-1, 0, 1}
  BY <1>1 DEF Contents, TTLs, NoExpiry
<1>3. Max({db[pipe][k].ttl, 0}) \in {0, 1}
  BY <1>2, MaxOfTwo
<1> QED BY <1>2, <1>3 DEF Metas

LEMMA MetaTypes ==
  ASSUME TypesInv, NEW k \in Keys, ReadMeta(k)
  PROVE  TypesInv'
<1>1. phase = "meta" /\ imports = 0
  BY DEF ReadMeta, TypesInv, Order, Exporting
<1>2. meta' \in [Keys -> Metas]
  BY <1>1, MetaType DEF ReadMeta, TypesInv, Order
<1> QED BY <1>2 DEF ReadMeta, TypesInv, TypeOK, Order, Flatness, Flat, IsData, Exporting, promise, writing, history

LEMMA MetaCutTypes ==
  ASSUME TypesInv, MetaCut
  PROVE  TypesInv'
<1>1. phase = "meta" /\ imports = 0 /\ unread \subseteq Keys
  BY DEF MetaCut, TypesInv, TypeOK, Order, Exporting
<1>2. ASSUME NEW k \in unread, meta' = [meta EXCEPT ![k].type = db[pipe][k].type]
      PROVE  meta' \in [Keys -> Metas]
  <2>1. db[pipe][k].type \in Types /\ meta \in [Keys -> Metas]
    BY <1>1, MetaType DEF TypesInv, Order
  <2>2. [meta[k] EXCEPT !.type = db[pipe][k].type] \in Metas
    BY <1>1, <2>1 DEF Metas
  <2> QED BY <1>2, <2>1, <2>2
<1>3. meta' \in [Keys -> Metas]
  BY <1>2 DEF MetaCut, TypesInv, Order
<1> QED BY <1>3 DEF MetaCut, TypesInv, TypeOK, Order, Flatness, Flat, IsData, Exporting, promise, writing

LEMMA ReadValueTypes ==
  ASSUME TypesInv, NEW k \in Keys, ReadValue(k)
  PROVE  TypesInv'
<1> DEFINE t == meta[k].type
           entry == [type |-> t, val |-> db[pipe][k].val, ttl |-> meta[k].ttl,
                     depth |-> IF t = "json" THEN db[pipe][k].depth + 1 ELSE 0]
<1>1. phase = "values" /\ phase' = "values" /\ imports = 0 /\ pipe \in Servers
  BY DEF ReadValue, TypesInv, TypeOK, Order, Exporting
<1>2. entry \in KeyData /\ (entry.type # "json" => entry.depth = 0)
  <2>1. db[pipe][k] \in Contents
    BY <1>1, ContentOf
  <2>2. meta[k].type \in Types /\ meta[k].ttl \in {0, 1}
    BY DEF TypesInv, Order, Metas
  <2> QED BY <2>1, <2>2, EntryType
<1>3. \/ export' = export
      \/ export' = [x \in DOMAIN export \cup {k} |-> IF x = k THEN entry ELSE export[x]]
  BY DEF ReadValue
<1> HIDE DEF entry
<1>4. IsData(export') /\ Flat(export')
  BY <1>1, <1>2, <1>3 DEF TypesInv, TypeOK, Flatness, IsData, Flat
<1>5. unread' \subseteq chunk'
  BY DEF ReadValue, TypesInv, TypeOK
<1>6. UNCHANGED <<db, at, pipe, phase, status, live, ever, result, rest, chunk, meta, file, data, item,
                  imports, writes, moved, broken>>
  BY DEF ReadValue, promise, writing, history
<1> QED BY <1>1, <1>4, <1>5, <1>6 DEF TypesInv, TypeOK, Order, Flatness, Flat, IsData, Exporting

\* The JSON of an entry is one of an entry.
LEMMA MarshalledType ==
  ASSUME NEW e \in KeyData
  PROVE  Marshalled(e) \in KeyData /\ Marshalled(e).type = e.type /\ Marshalled(e).depth = e.depth
<1> DEFINE val == [x \in Elements |->
                     IF x = Binary THEN 0
                     ELSE IF x # Replaced THEN e.val[x]
                     ELSE IF e.type = "set" THEN Max({e.val[x], e.val[Binary]})
                     ELSE Min({e.val[x] + e.val[Binary], MaxCopies})]
<1>1. \A x \in Elements : e.val[x] \in 0 .. MaxCopies
  BY DEF KeyData, Bags
<1>2. ASSUME NEW x \in Elements PROVE val[x] \in 0 .. MaxCopies
  <2>1. e.val[x] \in 0 .. MaxCopies /\ e.val[Binary] \in 0 .. MaxCopies /\ MaxCopies \in Nat
    BY <1>1, BackupAssumption
  <2>2. Max({e.val[x], e.val[Binary]}) \in 0 .. MaxCopies
    BY <2>1, MaxOfTwo
  <2>3. Min({e.val[x] + e.val[Binary], MaxCopies}) \in 0 .. MaxCopies
    BY <2>1, MinOfTwo
  <2> QED BY <2>1, <2>2, <2>3
<1>3. val \in Bags
  BY <1>2 DEF Bags
<1>4. Marshalled(e) = [e EXCEPT !.val = val]
  BY DEF Marshalled
<1> HIDE DEF val
<1> QED BY <1>3, <1>4 DEF KeyData

\* So is the file of an export; a name that only one key has stands for that key.
LEMMA TextsType ==
  ASSUME NEW f, IsData(f), Flat(f), NEW g \in Texts(f)
  PROVE  /\ IsData(g) /\ Flat(g)
         /\ \A k \in DOMAIN f : (\A j \in DOMAIN f \ {k} : Named[j] # Named[k]) =>
              Named[k] \in DOMAIN g /\ g[Named[k]] = Marshalled(f[k])
<1>1. PICK last \in [Names(f) -> DOMAIN f] :
        /\ \A n \in Names(f) : Named[last[n]] = n
        /\ g = [n \in Names(f) |-> Marshalled(f[last[n]])]
  BY DEF Texts
<1>2. Names(f) \subseteq Keys /\ \A k \in DOMAIN f : Named[k] \in Names(f)
  BY BackupAssumption DEF Names, IsData
<1>3. ASSUME NEW n \in Names(f)
      PROVE  g[n] \in KeyData /\ (g[n].type # "json" => g[n].depth = 0)
  <2>1. last[n] \in DOMAIN f /\ f[last[n]] \in KeyData /\ g[n] = Marshalled(f[last[n]])
    BY <1>1 DEF IsData
  <2> QED BY <2>1, MarshalledType DEF Flat
<1>4. IsData(g) /\ Flat(g)
  BY <1>1, <1>2, <1>3 DEF IsData, Flat
<1>5. ASSUME NEW k \in DOMAIN f, \A j \in DOMAIN f \ {k} : Named[j] # Named[k]
      PROVE  Named[k] \in DOMAIN g /\ g[Named[k]] = Marshalled(f[k])
  <2>1. Named[k] \in Names(f) /\ last[Named[k]] = k
    BY <1>1, <1>2, <1>5
  <2> QED BY <1>1, <2>1
<1> QED BY <1>4, <1>5

LEMMA WriteFileTypes ==
  ASSUME TypesInv, WriteFile
  PROVE  TypesInv'
<1>1. file' \in {file, Torn} \/ file' \in Texts(export)
  BY DEF WriteFile
<1>2. file' \in {NoFile, Torn} \/ (IsData(file') /\ Flat(file'))
  BY <1>1, TextsType DEF TypesInv, TypeOK, Flatness
<1>3. phase = "chunk" /\ phase' \in {"exported", "failed"}
  BY DEF WriteFile
<1>4. UNCHANGED <<db, at, pipe, status, live, ever, result, rest, chunk, unread, meta, export, data, item,
                  imports, writes, moved, broken>>
  BY DEF WriteFile, promise, reading, writing, history
<1> QED BY <1>2, <1>3, <1>4 DEF TypesInv, TypeOK, Order, Flatness, Flat, IsData, Exporting

LEMMA PipelineTypes ==
  ASSUME TypesInv, StartValues \/ ValuesCut \/ ChunkEnds
  PROVE  TypesInv'
<1> USE DEF TypesInv, TypeOK, Order, Flatness, Flat, IsData, Exporting, promise, reading, writing, history
<1>1. CASE StartValues BY <1>1 DEF StartValues
<1>2. CASE ValuesCut BY <1>2 DEF ValuesCut
<1>3. CASE ChunkEnds BY <1>3 DEF ChunkEnds
<1> QED BY <1>1, <1>2, <1>3

LEMMA WriteTypes ==
  ASSUME TypesInv, NEW k \in Keys, WriteKey(k)
  PROVE  TypesInv'
<1>1. k \in DOMAIN data /\ data[k] \in KeyData /\ imports > 0 /\ imports # 0
  BY DEF WriteKey, Write, TypesInv, TypeOK, Order, IsData
<1>2. After(db[at][k], data[k]) \in Targets
  BY <1>1, AfterType, ContentOf DEF TypesInv, TypeOK
<1>3. db' = [db EXCEPT ![at][k] = After(db[at][k], data[k])] \/ db' = db
  BY <1>1 DEF WriteKey, Write, TypesInv, TypeOK
<1>4. db' \in [Servers -> [Keys -> Targets]]
  BY <1>1, <1>2, <1>3, OneKeyChanges DEF TypesInv, TypeOK
<1>5. item' \in {{}, {k}} /\ item' \subseteq Keys /\ Cardinality(item') <= 1
  BY FS_EmptySet, FS_Singleton DEF WriteKey, Write
<1>6. IsData(data') /\ Flat(data')
  BY FewerData DEF WriteKey, Write, TypesInv, TypeOK, Flatness
<1>7. /\ UNCHANGED <<at, pipe, phase, status, live, ever, result, rest, chunk, unread, meta, export, file,
                     imports, writes, moved>>
      /\ broken' \in BOOLEAN
  BY DEF WriteKey, Write, promise, reading, TypesInv, TypeOK
<1> QED BY <1>1, <1>4, <1>5, <1>6, <1>7 DEF TypesInv, TypeOK, Order, Flatness, Flat, IsData

LEMMA ImportTypes ==
  ASSUME TypesInv, StartImport \/ SetTTL \/ ImportEnds
  PROVE  TypesInv'
<1> USE DEF TypesInv, Order, Flatness, Exporting, promise, reading, writing, history
<1>1. CASE StartImport
  <2>1. imports' \in 0 .. MaxImports /\ imports' > 0
    BY <1>1, BackupAssumption DEF StartImport, TypeOK
  <2>2. /\ at' \in Servers /\ phase' = "import" /\ data' = file /\ file \notin {NoFile, Torn}
        /\ UNCHANGED <<db, pipe, status, live, ever, result, rest, chunk, unread, meta, export, file, item,
                       writes>>
    BY <1>1 DEF StartImport
  <2>3. moved' \in BOOLEAN /\ broken' \in BOOLEAN
    BY <1>1 DEF StartImport
  <2>4. IsData(data') /\ Flat(data')
    BY <2>2 DEF TypeOK
  <2> HIDE DEF reading, writing, history, promise
  <2> QED BY <2>1, <2>2, <2>3, <2>4 DEF TypeOK, IsData, Flat
<1>2. CASE SetTTL
  <2>1. PICK k \in item : db' = [db EXCEPT ![at][k].ttl = IF db[at][k] = Absent THEN @ ELSE 1] \/ db' = db
    BY <1>2 DEF SetTTL
  <2> DEFINE c == [db[at][k] EXCEPT !.ttl = IF db[at][k] = Absent THEN @ ELSE 1]
  <2>2. k \in Keys /\ at \in Servers /\ imports # 0 /\ db \in [Servers -> [Keys -> Targets]]
    BY <1>2 DEF SetTTL, TypeOK
  <2>3. db[at][k] \in Targets
    BY <2>2
  <2>4. c \in Targets
    BY <2>3 DEF Targets, TTLs
  <2>5. db' = [db EXCEPT ![at][k] = c] \/ db' = db
    BY <2>1, <2>2
  <2> HIDE DEF c
  <2>6. db' \in [Servers -> [Keys -> Targets]]
    BY <2>2, <2>4, <2>5, OneKeyChanges
  <2>7. item' \subseteq Keys /\ Cardinality(item') <= 1
    BY <1>2, FS_EmptySet DEF SetTTL
  <2> QED BY <1>2, <2>2, <2>6, <2>7 DEF SetTTL, TypeOK, IsData, Flat
<1>3. CASE ImportEnds
  BY <1>3 DEF ImportEnds, TypeOK
<1> QED BY <1>1, <1>2, <1>3

LEMMA StepTypes == TypesInv /\ [Next]_vars => TypesInv'
<1> SUFFICES ASSUME TypesInv, [Next]_vars PROVE TypesInv'
  OBVIOUS
<1>1. ASSUME NEW k \in Keys, NEW c \in Others, OtherWrites(k, c) PROVE TypesInv'
  BY <1>1, OtherWritesTypes
<1>2. CASE StartExport \/ ScanEnds \/ ScanFails
  BY <1>2, ExportTypes
<1>3. CASE NextChunk
  BY <1>3, ChunkTypes DEF NextChunk, kSubset
<1>4. ASSUME NEW k \in Keys, ReadMeta(k) PROVE TypesInv'
  BY <1>4, MetaTypes
<1>5. ASSUME NEW k \in Keys, ReadValue(k) PROVE TypesInv'
  BY <1>5, ReadValueTypes
<1>6. ASSUME NEW k \in Keys, WriteKey(k) PROVE TypesInv'
  BY <1>6, WriteTypes
<1>7. CASE MetaCut \/ StartValues \/ ValuesCut \/ ChunkEnds \/ WriteFile
  BY <1>7, MetaCutTypes, PipelineTypes, WriteFileTypes
<1>8. CASE StartImport \/ SetTTL \/ ImportEnds
  BY <1>8, ImportTypes
<1>9. CASE Reconnect
  BY <1>9, ReconnectTypes
<1>10. CASE Stop \/ UNCHANGED vars
  BY <1>10 DEF Stop, vars, TypesInv, TypeOK, Order, Flatness, Flat, IsData
<1> QED BY <1>1, <1>2, <1>3, <1>4, <1>5, <1>6, <1>7, <1>8, <1>9, <1>10 DEF Next

LEMMA AlwaysTypes == Spec => []TypesInv
  BY InitTypes, StepTypes, PTL DEF Spec

\* What is exported is of keys of the database, each with a TTL that an import can use,
\* and an import has the TTL of one key at most still to set (ExportKeys, ImportKeys).
THEOREM BackupTypes == Spec => []TypeOK
<1>1. TypesInv => TypeOK
  BY DEF TypesInv
<1> QED BY <1>1, AlwaysTypes, PTL

------------------------------------------------------------------------------
(* The export *)

MetaOf(c) == [type |-> c.type, ttl |-> Max({c.ttl, 0})]

\* The keys that the file has to have, and what it has to say of them.
Due == {k \in steady : origin[k].type \in Readable}
Right(k) == k \in DOMAIN export /\ export[k] = Entry(origin[k])

\* No one has written the steady keys, and the pipelines go to their server.
Steadfast ==
  phase \in {"scan"} \cup Exporting /\ ~moved =>
    /\ steady \subseteq Keys /\ \A k \in steady : db[at][k] = origin[k]
    /\ phase \in {"meta", "values"} => pipe = at

\* The scan has them, or will have; nothing but what it has is exported.
Scanned ==
  ~moved =>
    /\ phase = "scan" => status = "running" /\ Due \subseteq live
    /\ phase \in Exporting => Due \subseteq result /\ rest \cup chunk \cup DOMAIN export \subseteq result

\* Of a chunk that has been through both pipelines they are in the export; in the chunk at
\* hand each has answered in the order of the pipelines, or is still to answer.
Exported ==
  ~broken /\ ~moved =>
    /\ phase = "chunk" => \A k \in Due \ rest : Right(k)
    /\ phase \in {"meta", "values"} => \A k \in Due \ (rest \cup chunk) : Right(k)
    /\ phase = "meta" => \A k \in Due \cap (chunk \ unread) : meta[k] = MetaOf(origin[k])
    /\ phase = "values" =>
         \A k \in Due \cap chunk : meta[k] = MetaOf(origin[k]) /\ (k \in unread \/ Right(k))

ExportInv == TypesInv /\ Steadfast /\ Scanned /\ Exported /\ ExportComplete

LEMMA InitExport == Init => ExportInv
  BY InitTypes DEF Init, ExportInv, Steadfast, Scanned, Exported, ExportComplete, Exporting

\* The history of an export that another client's write ends for a key: fewer keys are due.
LEMMA OtherWritesExport ==
  ASSUME ExportInv, TypesInv', NEW k \in Keys, NEW c \in Others, OtherWrites(k, c)
  PROVE  ExportInv'
<1>1. /\ steady' = steady \ {k} /\ db' = [db EXCEPT ![at][k] = c]
      /\ UNCHANGED <<at, pipe, phase, origin, moved, broken, rest, chunk, unread, meta, export, file, imports>>
      /\ phase # "exported"
  BY DEF OtherWrites, reading, writing, Idle
<1>2. Due' = Due \ {k}
  BY <1>1 DEF Due
<1>3. Steadfast'
  <2>1. c \in Contents /\ c \in Targets
    BY ContentTypes
  <2>2. \A x \in Keys : x # k => db'[at][x] = db[at][x]
    BY <1>1, <2>1, OneKeyChanges DEF ExportInv, TypesInv, TypeOK
  <2> QED BY <1>1, <2>2 DEF ExportInv, Steadfast
<1>4. Scanned'
  <2>1. status' = status /\ result' = result
    BY DEF OtherWrites, promise, Sc!KeysChange
  <2>2. live \ {k} \subseteq live'
    BY DEF OtherWrites, promise
  <2> QED BY <1>1, <1>2, <2>1, <2>2 DEF ExportInv, Scanned, Exporting
<1>5. Exported'
  BY <1>1, <1>2 DEF ExportInv, Exported, Right
<1> QED BY <1>1, <1>3, <1>4, <1>5 DEF ExportInv, ExportComplete

LEMMA ScanExport ==
  ASSUME ExportInv, TypesInv', StartExport \/ ScanEnds \/ ScanFails
  PROVE  ExportInv'
<1>1. CASE StartExport
  <2>1. /\ phase' = "scan" /\ steady' = Keys /\ origin' = db[at] /\ db' = db /\ at' = at
        /\ status' = "running" /\ live' = {k \in Keys : db[at][k] # Absent}
    BY <1>1 DEF StartExport, Sc!Begin
  <2>2. \A k \in Keys : db[at][k].type \in Readable => db[at][k] # Absent
    BY DEF Readable, Absent
  <2>3. Due' \subseteq live'
    BY <2>1, <2>2 DEF Due
  <2> QED BY <2>1, <2>3 DEF ExportInv, Steadfast, Scanned, Exported, ExportComplete, Exporting
<1>2. CASE ScanEnds
  <2>1. /\ phase = "scan" /\ phase' = "chunk"
        /\ UNCHANGED <<db, at, steady, origin, moved, chunk, export>>
    BY <1>2 DEF ScanEnds, history
  <2>2. ~moved => rest' = result' /\ live \subseteq result'
    BY <1>2 DEF ScanEnds, Sc!End
  <2>3. ~moved => Due' \subseteq result'
    BY <2>1, <2>2 DEF Due, ExportInv, Scanned
  <2>4. chunk = {} /\ DOMAIN export = {}
    BY <2>1, NothingIsData DEF ExportInv, TypesInv, Order
  <2> QED BY <2>1, <2>2, <2>3, <2>4 DEF ExportInv, Steadfast, Scanned, Exported, ExportComplete, Exporting
<1>3. CASE ScanFails
  BY <1>3 DEF ScanFails, ExportInv, Steadfast, Scanned, Exported, ExportComplete, Exporting
<1> QED BY <1>1, <1>2, <1>3

LEMMA ChunkExport ==
  ASSUME ExportInv, TypesInv', NEW S \in SUBSET rest, TakeChunk(S)
  PROVE  ExportInv'
<1>1. /\ phase = "chunk" /\ phase' = "meta" /\ chunk' = S /\ unread' = S /\ rest' = rest \ S
      /\ pipe' = at
      /\ UNCHANGED <<db, at, steady, origin, moved, broken, export, result>>
  BY DEF TakeChunk, promise, history
<1>2. Due' = Due /\ Due \ (rest' \cup chunk') \subseteq Due \ rest
  BY <1>1 DEF Due
<1>3. Exported'
  BY <1>1, <1>2 DEF ExportInv, Exported, Right
<1>4. Scanned'
  BY <1>1, <1>2 DEF ExportInv, Scanned, Exporting
<1> QED BY <1>1, <1>3, <1>4 DEF ExportInv, Steadfast, ExportComplete, Exporting

\* What touches neither the database nor what the scan has found.
LEMMA KeepsKeys ==
  ASSUME ExportInv, phase \in Exporting, phase' \in Exporting \cup {"exported", "failed"},
         UNCHANGED <<db, at, steady, origin, moved, result, rest, chunk>>,
         phase' \in {"meta", "values"} => pipe' \in {pipe, at} /\ (phase = "chunk" => pipe' = at),
         DOMAIN export' \subseteq DOMAIN export \cup chunk
  PROVE  Steadfast' /\ Scanned' /\ Due' = Due
<1>1. Due' = Due
  BY DEF Due
<1>2. Scanned'
  BY <1>1 DEF ExportInv, Scanned, Exporting
<1>3. Steadfast'
  BY DEF ExportInv, Steadfast, Exporting
<1> QED BY <1>1, <1>2, <1>3

LEMMA MetaExport ==
  ASSUME ExportInv, TypesInv', NEW k \in Keys, ReadMeta(k)
  PROVE  ExportInv'
<1>1. /\ phase = "meta" /\ phase' = "meta" /\ unread' = unread \ {k}
      /\ meta' = [meta EXCEPT ![k] = MetaOf(db[pipe][k])]
      /\ UNCHANGED <<db, at, pipe, steady, origin, moved, broken, export, result, rest, chunk>>
  BY DEF ReadMeta, promise, history, MetaOf
<1>2. Steadfast' /\ Scanned' /\ Due' = Due
  BY <1>1, KeepsKeys DEF Exporting
<1>3. ~moved => \A x \in Due : db[pipe][x] = origin[x] /\ x \in Keys
  BY <1>1 DEF ExportInv, Steadfast, Due, Exporting
<1>4. ~broken /\ ~moved => \A x \in Due \cap (chunk \ unread') : meta'[x] = MetaOf(origin[x])
  <2> SUFFICES ASSUME ~broken, ~moved, NEW x \in Due \cap (chunk \ unread')
               PROVE  meta'[x] = MetaOf(origin[x])
    OBVIOUS
  <2>1. CASE x = k
    BY <1>1, <1>3, <2>1 DEF ExportInv, TypesInv, Order
  <2>2. CASE x # k
    BY <1>1, <1>3, <2>2 DEF ExportInv, TypesInv, Order, Exported
  <2> QED BY <2>1, <2>2
<1>5. Exported'
  BY <1>1, <1>2, <1>4 DEF ExportInv, Exported, Right
<1> QED BY <1>1, <1>2, <1>5 DEF ExportInv, ExportComplete

LEMMA ValueExport ==
  ASSUME ExportInv, TypesInv', NEW k \in Keys, ReadValue(k)
  PROVE  ExportInv'
<1> DEFINE copy == db[pipe][k]
           t == meta[k].type
           entry == [type |-> t, val |-> copy.val, ttl |-> meta[k].ttl,
                     depth |-> IF t = "json" THEN copy.depth + 1 ELSE 0]
           Answers == copy.type = t \/ (copy = Absent /\ t \in Ranges)
<1>1. /\ phase = "values" /\ phase' = "values" /\ k \in unread /\ unread' = unread \ {k}
      /\ export' = IF Answers THEN [x \in DOMAIN export \cup {k} |-> IF x = k THEN entry ELSE export[x]]
                   ELSE export
      /\ UNCHANGED <<db, at, pipe, steady, origin, moved, broken, result, rest, chunk, meta>>
  BY DEF ReadValue, promise, history
<1>2. k \in chunk /\ k \notin rest
  BY <1>1 DEF ExportInv, TypesInv, TypeOK
<1>3. Steadfast' /\ Scanned' /\ Due' = Due
  <2>1. DOMAIN export' \subseteq DOMAIN export \cup {k}
    BY <1>1
  <2> QED BY <1>1, <1>2, <2>1, KeepsKeys DEF Exporting
<1>4. ~broken /\ ~moved /\ k \in Due => Right(k)'
  <2> SUFFICES ASSUME ~broken, ~moved, k \in Due PROVE Right(k)'
    OBVIOUS
  <2>1. copy = origin[k] /\ meta[k] = MetaOf(origin[k])
    BY <1>1, <1>2 DEF ExportInv, Steadfast, Exported, Due, Exporting
  <2>2. Answers /\ entry = Entry(origin[k])
    BY <2>1 DEF MetaOf, Entry
  <2> HIDE DEF Answers, entry
  <2>3. k \in DOMAIN export' /\ export'[k] = entry
    BY <1>1, <2>2
  <2> QED BY <1>1, <2>2, <2>3 DEF Right
<1>5. ASSUME NEW x, x # k, Right(x)
      PROVE  Right(x)'
  <2> HIDE DEF Answers, entry
  <2> QED BY <1>1, <1>5 DEF Right
<1>6. ~broken /\ ~moved => \A x \in Due \ (rest \cup chunk) : Right(x)'
  BY <1>1, <1>2, <1>5 DEF ExportInv, Exported
<1>7. ~broken /\ ~moved =>
        \A x \in Due \cap chunk : meta[x] = MetaOf(origin[x]) /\ (x \in unread' \/ Right(x)')
  BY <1>1, <1>4, <1>5 DEF ExportInv, Exported
<1>8. Exported'
  BY <1>1, <1>3, <1>6, <1>7 DEF Exported
<1> QED BY <1>1, <1>3, <1>8 DEF ExportInv, ExportComplete

LEMMA PipelineExport ==
  ASSUME ExportInv, TypesInv', MetaCut \/ StartValues \/ ValuesCut \/ ChunkEnds
  PROVE  ExportInv'
<1>1. /\ UNCHANGED <<db, at, steady, origin, moved, result, rest, chunk, export, imports>>
      /\ phase \in Exporting /\ phase' \in Exporting
      /\ phase' \in {"meta", "values"} => pipe' \in {pipe, at} /\ (phase = "chunk" => pipe' = at)
  BY DEF MetaCut, StartValues, ValuesCut, ChunkEnds, promise, reading, writing, history, Exporting
<1>2. Steadfast' /\ Scanned' /\ Due' = Due
  BY <1>1, KeepsKeys
<1>3. \A k : Right(k)' <=> Right(k)
  BY <1>1 DEF Right
<1>4. ExportComplete'
  BY <1>1 DEF ExportComplete, Exporting
<1>5. CASE MetaCut \/ ValuesCut
  BY <1>2, <1>4, <1>5 DEF MetaCut, ValuesCut, ExportInv, Exported
<1>6. CASE StartValues
  <2>1. /\ phase = "meta" /\ unread = {} /\ phase' = "values" /\ broken' = broken /\ meta' = meta
        /\ unread' = {k \in chunk : meta[k].type \in Readable}
    BY <1>6 DEF StartValues, history
  <2>2. ~broken /\ ~moved => \A k \in Due \cap chunk : meta[k] = MetaOf(origin[k]) /\ k \in unread'
    BY <2>1 DEF ExportInv, Exported, Due, MetaOf
  <2> QED BY <1>1, <1>2, <1>3, <1>4, <2>1, <2>2 DEF ExportInv, Exported
<1>7. CASE ChunkEnds
  <2>1. phase = "values" /\ unread = {} /\ phase' = "chunk" /\ broken' = broken
    BY <1>7 DEF ChunkEnds, history
  <2> QED BY <1>1, <1>2, <1>3, <1>4, <2>1 DEF ExportInv, Exported
<1> QED BY <1>5, <1>6, <1>7

\* The file has all that the export has, each key under its name.
LEMMA WriteFileExport ==
  ASSUME ExportInv, TypesInv', WriteFile
  PROVE  ExportInv'
<1>1. /\ phase = "chunk" /\ rest = {} /\ phase' \in {"exported", "failed"}
      /\ phase' = "exported" => file' \in Texts(export)
      /\ UNCHANGED <<steady, origin, moved, broken, result, rest, export>>
  BY DEF WriteFile, promise, reading, history
<1>2. ExportComplete'
  <2> SUFFICES ASSUME phase' = "exported", ~broken, ~moved, NEW k \in steady,
                      origin[k].type \in Readable, \A j \in result \ {k} : Named[j] # Named[k]
               PROVE  Named[k] \in DOMAIN file' /\ file'[Named[k]] = Marshalled(Entry(origin[k]))
    BY <1>1 DEF ExportComplete, Alone
  <2>1. k \in DOMAIN export /\ export[k] = Entry(origin[k])
    BY <1>1 DEF ExportInv, Exported, Due, Right
  <2>2. DOMAIN export \subseteq result
    BY <1>1 DEF ExportInv, Scanned, Exporting
  <2>3. IsData(export) /\ Flat(export) /\ file' \in Texts(export)
    BY <1>1 DEF ExportInv, TypesInv, TypeOK, Flatness
  <2>4. \A j \in DOMAIN export \ {k} : Named[j] # Named[k]
    BY <2>2
  <2>5. Named[k] \in DOMAIN file' /\ file'[Named[k]] = Marshalled(export[k])
    BY <2>1, <2>3, <2>4, TextsType
  <2> QED BY <2>1, <2>5
<1>3. Steadfast' /\ Scanned' /\ Exported'
  BY <1>1 DEF Steadfast, Scanned, Exported, Exporting
<1> QED BY <1>2, <1>3 DEF ExportInv

\* An import begins after the export and never ends in the state an export ends in; of an
\* export that is at another server by now nothing is said.
LEMMA ImportExport ==
  ASSUME ExportInv, TypesInv',
         StartImport \/ SetTTL \/ ImportEnds \/ \E k \in Keys : WriteKey(k)
  PROVE  ExportInv'
<1>1. phase' \in {"import", "exported"} /\ imports' # 0
  <2>1. CASE StartImport
    BY <2>1, BackupAssumption DEF StartImport, ExportInv, TypesInv, TypeOK
  <2>2. CASE SetTTL \/ ImportEnds
    BY <2>2 DEF SetTTL, ImportEnds, writing, ExportInv, TypesInv, Order
  <2>3. CASE \E k \in Keys : WriteKey(k)
    BY <2>3 DEF WriteKey, Write, ExportInv, TypesInv, Order
  <2> QED BY <2>1, <2>2, <2>3
<1> QED BY <1>1 DEF ExportInv, Steadfast, Scanned, Exported, ExportComplete, Exporting

LEMMA ReconnectExport ==
  ASSUME ExportInv, TypesInv', Reconnect
  PROVE  ExportInv'
<1>1. moved'
  BY DEF Reconnect
<1> QED BY <1>1 DEF ExportInv, Steadfast, Scanned, Exported, ExportComplete

LEMMA StepExport == ExportInv /\ [Next]_vars => ExportInv'
<1> SUFFICES ASSUME ExportInv, [Next]_vars PROVE ExportInv'
  OBVIOUS
<1>0. TypesInv'
  BY StepTypes DEF ExportInv
<1>1. ASSUME NEW k \in Keys, NEW c \in Others, OtherWrites(k, c) PROVE ExportInv'
  BY <1>0, <1>1, OtherWritesExport
<1>2. CASE StartExport \/ ScanEnds \/ ScanFails
  BY <1>0, <1>2, ScanExport
<1>3. CASE NextChunk
  BY <1>0, <1>3, ChunkExport DEF NextChunk, kSubset
<1>4. ASSUME NEW k \in Keys, ReadMeta(k) PROVE ExportInv'
  BY <1>0, <1>4, MetaExport
<1>5. ASSUME NEW k \in Keys, ReadValue(k) PROVE ExportInv'
  BY <1>0, <1>5, ValueExport
<1>6. CASE MetaCut \/ StartValues \/ ValuesCut \/ ChunkEnds \/ WriteFile
  BY <1>0, <1>6, PipelineExport, WriteFileExport
<1>7. CASE StartImport \/ SetTTL \/ ImportEnds \/ \E k \in Keys : WriteKey(k)
  BY <1>0, <1>7, ImportExport
<1>8. CASE Reconnect
  BY <1>0, <1>8, ReconnectExport
<1>9. CASE Stop \/ UNCHANGED vars
  BY <1>0, <1>9 DEF Stop, vars, ExportInv, Steadfast, Scanned, Exported, Right, Due, ExportComplete, Alone
<1> QED BY <1>1, <1>2, <1>3, <1>4, <1>5, <1>6, <1>7, <1>8, <1>9 DEF Next

\* An export that reports success, lost no pipeline and stayed on its server has every key that
\* no one wrote meanwhile, with the type and TTL it had and with the value as JSON writes it, for
\* chunks of any size and any interleaving with other clients (io.go:27-145, commands_io.go:24).
\* Errors of the pipelines, which the code ignores, and a reconnect are excluded, as are keys
\* whose names JSON makes the same.
THEOREM BackupExportComplete == Spec => []ExportComplete
<1>1. ExportInv => ExportComplete
  BY DEF ExportInv
<1> QED BY <1>1, InitExport, StepExport, PTL DEF Spec

------------------------------------------------------------------------------
(* The import *)

\* The entries that are a key once they are written: an empty list adds nothing.
Whole(e) == e.type \in {"string", "json"} \/ (e.type \in Restorable /\ e.val # NoElements)

\* What is still to be written is in the file as it is there; the TTL that comes next is of
\* a key that has been written.
Reads ==
  phase = "import" =>
    /\ file \notin {NoFile, Torn}
    /\ DOMAIN data \subseteq DOMAIN file /\ \A k \in DOMAIN data : data[k] = file[k]
    /\ item \subseteq DOMAIN file \ DOMAIN data /\ \A k \in item : file[k].ttl > 0

\* A key the database did not have is absent until it is written, is as in the file but for
\* the TTL until that is set, and then as in the file.
Restored ==
  phase = "import" /\ ~broken /\ ~moved =>
    \A k \in steady \cap DOMAIN file :
      /\ k \in DOMAIN data => db[at][k] = Absent
      /\ k \notin DOMAIN data /\ Whole(file[k]) =>
           db[at][k] = IF k \in item THEN [file[k] EXCEPT !.ttl = NoExpiry] ELSE Key(file[k])

\* One TTL at most is still to be set, and none between imports.
OneItem == (phase # "import" => item = {}) /\ \A x, y \in item : x = y

ImportInv == TypesInv /\ OneItem /\ Reads /\ Restored /\ ImportRestores

\* What is left of a key that was not there by the first write of its entry.
LEMMA AfterAbsent ==
  ASSUME NEW e \in KeyData, Whole(e), e.type # "json" => e.depth = 0
  PROVE  After(Absent, e) = IF e.type = "string" THEN Key(e) ELSE [e EXCEPT !.ttl = NoExpiry]
<1>1. CASE e.type = "string"
  BY <1>1 DEF After, Key
<1>2. CASE e.type = "json"
  BY <1>2 DEF After, Absent
<1>3. CASE e.type \in {"list", "set"}
  <2>1. e.val # NoElements
    BY <1>3 DEF Whole
  <2>2. After(Absent, e) = Merged(Absent, e)
    BY <1>3, <2>1 DEF After, Absent
  <2>3. e.val \in [Elements -> 0 .. MaxCopies]
    BY DEF KeyData, Bags
  <2> DEFINE val == [x \in Elements |->
                       IF e.type = "list" THEN Min({Absent.val[x] + e.val[x], MaxCopies})
                       ELSE Max({Absent.val[x], e.val[x]})]
  <2>4. val = e.val
    <3>1. ASSUME NEW x \in Elements PROVE val[x] = e.val[x]
      <4>1. Absent.val[x] = 0 /\ e.val[x] \in 0 .. MaxCopies
        BY <2>3 DEF Absent, NoElements
      <4>2. Min({0 + e.val[x], MaxCopies}) = e.val[x] /\ Max({0, e.val[x]}) = e.val[x]
        BY <4>1, MinOfTwo, MaxOfTwo, BackupAssumption
      <4> QED BY <4>1, <4>2
    <3> QED BY <2>3, <3>1
  <2>5. Merged(Absent, e) = [Absent EXCEPT !.type = e.type, !.val = val]
    BY DEF Merged
  <2> HIDE DEF val
  <2>6. e = [type |-> e.type, val |-> e.val, depth |-> 0, ttl |-> e.ttl]
    BY <1>3 DEF KeyData
  <2>7. [e EXCEPT !.ttl = NoExpiry] = [type |-> e.type, val |-> e.val, depth |-> 0, ttl |-> NoExpiry]
    BY <2>6 DEF KeyData
  <2>8. Merged(Absent, e) = [type |-> e.type, val |-> e.val, depth |-> 0, ttl |-> NoExpiry]
    BY <2>4, <2>5 DEF Absent
  <2> QED BY <1>3, <2>2, <2>7, <2>8
<1> QED BY <1>1, <1>2, <1>3 DEF Whole, Restorable

LEMMA InitImport == Init => ImportInv
  BY InitTypes DEF Init, ImportInv, OneItem, Reads, Restored, ImportRestores

\* What no import does: other clients, and the steps of the export.
LEMMA OtherImport ==
  ASSUME ImportInv, TypesInv',
         \/ \E k \in Keys, c \in Others : OtherWrites(k, c)
         \/ Reconnect
         \/ StartExport \/ ScanEnds \/ ScanFails
         \/ \E S \in SUBSET rest : TakeChunk(S)
         \/ \E k \in Keys : ReadMeta(k) \/ ReadValue(k)
         \/ MetaCut \/ StartValues \/ ValuesCut \/ ChunkEnds \/ WriteFile
  PROVE  ImportInv'
<1>1. ASSUME NEW k \in Keys, NEW c \in Others, OtherWrites(k, c)
      PROVE  ImportInv'
  <2>1. /\ steady' = steady \ {k} /\ db' = [db EXCEPT ![at][k] = c]
        /\ UNCHANGED <<at, phase, moved, broken, file, data, item, imports>> /\ phase # "exported"
    BY <1>1 DEF OtherWrites, writing, Idle
  <2>2. c \in Contents /\ c \in Targets
    BY ContentTypes
  <2>3. \A x \in Keys \ {k} : db'[at][x] = db[at][x]
    BY <2>1, <2>2, OneKeyChanges DEF ImportInv, TypesInv, TypeOK
  <2>4. phase = "import" => DOMAIN file \subseteq Keys
    BY DEF ImportInv, Reads, TypesInv, TypeOK, IsData
  <2> QED BY <2>1, <2>3, <2>4 DEF ImportInv, OneItem, Reads, Restored, ImportRestores
<1>2. CASE Reconnect
  <2>1. moved' /\ UNCHANGED <<phase, file, data, item>>
    BY <1>2 DEF Reconnect, writing
  <2> QED BY <2>1 DEF ImportInv, OneItem, Reads, Restored, ImportRestores
<1>3. CASE ~(\E k \in Keys, c \in Others : OtherWrites(k, c)) /\ ~Reconnect
  <2>1. phase' # "import" /\ (phase' = "exported" => imports' = 0) /\ item' = item /\ phase # "import"
    BY <1>3 DEF StartExport, ScanEnds, ScanFails, TakeChunk, ReadMeta, ReadValue, MetaCut, StartValues,
                ValuesCut, ChunkEnds, WriteFile, reading, writing, ImportInv, TypesInv, Order, Exporting
  <2> QED BY <2>1, BackupAssumption DEF ImportInv, OneItem, Reads, Restored, ImportRestores
<1> QED BY <1>1, <1>2, <1>3

LEMMA StartImportInv ==
  ASSUME ImportInv, TypesInv', StartImport
  PROVE  ImportInv'
<1>1. /\ phase' = "import" /\ file' = file /\ data' = file /\ db' = db /\ item' = item
      /\ file \notin {NoFile, Torn} /\ steady' = {k \in Keys : db[at'][k] = Absent}
  BY DEF StartImport
<1>2. item = {}
  BY DEF StartImport, ImportInv, OneItem, Reads
<1> QED BY <1>1, <1>2 DEF ImportInv, OneItem, Reads, Restored, ImportRestores

LEMMA WriteKeyInv ==
  ASSUME ImportInv, TypesInv', NEW k \in Keys, WriteKey(k)
  PROVE  ImportInv'
<1> DEFINE e == data[k]
<1>1. /\ phase = "import" /\ phase' = "import" /\ item = {} /\ k \in DOMAIN data
      /\ data' = [x \in DOMAIN data \ {k} |-> data[x]]
      /\ \/ db' = [db EXCEPT ![at][k] = After(@, e)] /\ broken' = broken
         \/ broken' = TRUE
      /\ item' = IF e.type \in Restorable \ {"string"} /\ e.ttl > 0 THEN {k} ELSE {}
      /\ at' = at /\ moved' = moved /\ file' = file /\ steady' = steady
  BY DEF WriteKey, Write
<1>2. e = file[k] /\ k \in DOMAIN file /\ e \in KeyData /\ (e.type # "json" => e.depth = 0)
  BY <1>1 DEF ImportInv, Reads, TypesInv, TypeOK, Flatness, IsData, Flat
<1>3. at \in Servers /\ db \in [Servers -> [Keys -> Targets]]
  BY DEF ImportInv, TypesInv, TypeOK
<1> HIDE DEF e
<1>4. Reads'
  BY <1>1, <1>2 DEF ImportInv, Reads
<1>5. Restored'
  <2> SUFFICES ASSUME ~broken', ~moved, NEW x \in steady \cap DOMAIN file
               PROVE  /\ x \in DOMAIN data' => db'[at][x] = Absent
                      /\ x \notin DOMAIN data' /\ Whole(file[x]) =>
                           db'[at][x] = IF x \in item' THEN [file[x] EXCEPT !.ttl = NoExpiry]
                                        ELSE Key(file[x])
    BY <1>1 DEF Restored
  <2>1. db' = [db EXCEPT ![at][k] = After(db[at][k], e)] /\ ~broken
    BY <1>1, <1>3
  <2>2. /\ \A y \in Keys : y # k => db'[at][y] = db[at][y]
        /\ db'[at][k] = After(db[at][k], e)
    BY <1>3, <2>1
  <2>3. x \in Keys
    BY <1>1 DEF ImportInv, Reads, TypesInv, TypeOK, IsData
  <2>4. CASE x # k
    BY <1>1, <2>1, <2>2, <2>3, <2>4 DEF ImportInv, Restored
  <2>5. CASE x = k
    <3>1. db[at][k] = Absent /\ db'[at][k] = After(Absent, e)
      BY <1>1, <1>2, <2>1, <2>2, <2>5 DEF ImportInv, Restored
    <3>2. k \notin DOMAIN data'
      BY <1>1
    <3>3. ASSUME Whole(e)
          PROVE  After(Absent, e) = IF k \in item' THEN [e EXCEPT !.ttl = NoExpiry] ELSE Key(e)
      BY <1>1, <1>2, <3>3, AfterAbsent DEF Whole, Restorable, Key
    <3> QED BY <1>2, <2>5, <3>1, <3>2, <3>3
  <2> QED BY <2>4, <2>5
<1>6. OneItem'
  BY <1>1 DEF OneItem
<1> QED BY <1>1, <1>4, <1>5, <1>6 DEF ImportInv, ImportRestores

LEMMA SetTTLInv ==
  ASSUME ImportInv, TypesInv', SetTTL
  PROVE  ImportInv'
<1>1. PICK k \in item :
        \/ /\ db' = [db EXCEPT ![at][k].ttl = IF db[at][k] = Absent THEN @ ELSE 1]
           /\ broken' = broken
        \/ broken' = TRUE
  BY DEF SetTTL
<1>2. phase = "import" /\ item' = {} /\ UNCHANGED <<at, phase, file, data, steady, moved>>
  BY DEF SetTTL
<1>3. item = {k} /\ k \in Keys
  BY DEF ImportInv, OneItem, TypesInv, TypeOK
<1>4. k \in DOMAIN file /\ file[k] \in KeyData /\ file[k].ttl = 1
  BY <1>2 DEF ImportInv, Reads, TypesInv, TypeOK, IsData, KeyData
<1>5. at \in Servers /\ db \in [Servers -> [Keys -> Targets]]
  BY DEF ImportInv, TypesInv, TypeOK
<1>6. Restored'
  <2> SUFFICES ASSUME ~broken', ~moved, NEW x \in steady \cap DOMAIN file,
                      x \notin DOMAIN data => Whole(file[x])
               PROVE  db'[at][x] = IF x \in DOMAIN data THEN Absent ELSE Key(file[x])
    BY <1>2 DEF Restored
  <2>1. db' = [db EXCEPT ![at][k].ttl = IF db[at][k] = Absent THEN @ ELSE 1] /\ ~broken
    BY <1>1
  <2>2. CASE x # k
    <3>1. x \in Keys
      BY <1>2 DEF ImportInv, Reads, TypesInv, TypeOK, IsData
    <3>2. db'[at][x] = db[at][x] /\ x \notin item
      BY <1>3, <1>5, <2>1, <2>2, <3>1
    <3>3. db[at][x] = IF x \in DOMAIN data THEN Absent ELSE Key(file[x])
      BY <1>2, <2>1, <3>2 DEF ImportInv, Restored
    <3> QED BY <3>2, <3>3
  <2>3. CASE x = k
    <3>1. db[at][k] = [file[k] EXCEPT !.ttl = NoExpiry] /\ k \notin DOMAIN data
      BY <1>2, <1>3, <2>1, <2>3 DEF ImportInv, Reads, Restored
    <3>2. db[at][k] # Absent
      BY <1>4, <2>3, <3>1 DEF Whole, Restorable, Absent, KeyData
    <3>3. db'[at][k] = [db[at][k] EXCEPT !.ttl = 1]
      BY <1>3, <1>5, <2>1, <3>2
    <3>4. [db[at][k] EXCEPT !.ttl = 1] = Key(file[k])
      <4> DEFINE e == file[k]
      <4>1. e \in KeyData /\ e.ttl = 1
        BY <1>4
      <4>2. db[at][k] = [e EXCEPT !.ttl = NoExpiry]
        BY <3>1
      <4>3. Key(e) = [e EXCEPT !.ttl = 1]
        BY <4>1 DEF Key
      <4> HIDE DEF e
      <4>4. /\ [e EXCEPT !.ttl = NoExpiry] = [type |-> e.type, val |-> e.val, depth |-> e.depth, ttl |-> NoExpiry]
            /\ [e EXCEPT !.ttl = 1] = [type |-> e.type, val |-> e.val, depth |-> e.depth, ttl |-> 1]
        BY <4>1 DEF KeyData
      <4>5. db[at][k] = [type |-> e.type, val |-> e.val, depth |-> e.depth, ttl |-> NoExpiry]
        BY <4>2, <4>4
      <4>6. [db[at][k] EXCEPT !.ttl = 1] = [type |-> e.type, val |-> e.val, depth |-> e.depth, ttl |-> 1]
        BY <4>5
      <4> QED BY <4>3, <4>4, <4>6 DEF e
    <3> QED BY <2>3, <3>1, <3>3, <3>4
  <2> QED BY <2>2, <2>3
<1> QED BY <1>2, <1>6 DEF ImportInv, OneItem, Reads, ImportRestores

LEMMA ImportEndsInv ==
  ASSUME ImportInv, TypesInv', ImportEnds
  PROVE  ImportInv'
<1>1. /\ phase = "import" /\ phase' = "exported" /\ item = {} /\ DOMAIN data = {}
      /\ UNCHANGED <<db, at, file, item, steady, moved, broken>>
  BY NothingIsData DEF ImportEnds, writing, history
<1>2. ~broken /\ ~moved =>
        \A k \in steady \cap DOMAIN file : Whole(file[k]) => db[at][k] = Key(file[k])
  BY <1>1 DEF ImportInv, Restored
<1> QED BY <1>1, <1>2 DEF ImportInv, OneItem, Reads, Restored, ImportRestores, Whole

LEMMA StepImport == ImportInv /\ [Next]_vars => ImportInv'
<1> SUFFICES ASSUME ImportInv, [Next]_vars PROVE ImportInv'
  OBVIOUS
<1>0. TypesInv'
  BY StepTypes DEF ImportInv
<1>1. CASE \/ \E k \in Keys, c \in Others : OtherWrites(k, c)
           \/ Reconnect
           \/ StartExport \/ ScanEnds \/ ScanFails
           \/ NextChunk
           \/ \E k \in Keys : ReadMeta(k) \/ ReadValue(k)
           \/ MetaCut \/ StartValues \/ ValuesCut \/ ChunkEnds \/ WriteFile
  BY <1>0, <1>1, OtherImport DEF NextChunk, kSubset
<1>2. CASE StartImport
  BY <1>0, <1>2, StartImportInv
<1>3. ASSUME NEW k \in Keys, WriteKey(k) PROVE ImportInv'
  BY <1>0, <1>3, WriteKeyInv
<1>4. CASE SetTTL
  BY <1>0, <1>4, SetTTLInv
<1>5. CASE ImportEnds
  BY <1>0, <1>5, ImportEndsInv
<1>6. CASE Stop \/ UNCHANGED vars
  BY <1>0, <1>6 DEF Stop, vars, ImportInv, OneItem, Reads, Restored, ImportRestores
<1> QED BY <1>1, <1>2, <1>3, <1>4, <1>5, <1>6 DEF Next

\* An import of which every write succeeds, on the one server, gives every key of the file that
\* the database did not have, and that no one else wrote, its value and its TTL, in whatever
\* order the keys come and for any number of imports of the file (io.go:167-246).  The errors of
\* the writes, which the code ignores, and a reconnect are excluded.
THEOREM BackupImportRestores == Spec => []ImportRestores
<1>1. ImportInv => ImportRestores
  BY DEF ImportInv
<1> QED BY <1>1, InitImport, StepImport, PTL DEF Spec
=============================================================================
