--------------------------- MODULE KeyListProofs ----------------------------
(***************************************************************************)
(* Proofs about KeyList for any keys, patterns, pages and number of        *)
(* commands under way.                                                     *)
(***************************************************************************)
EXTENDS KeyList, TLAPS, WellFoundedInduction, SequenceTheorems

(* Types. *)

\* The list minus the first row that shows e is a list.
LEMMA RemoveFirstType ==
  ASSUME NEW S, NEW r \in Seq(S), NEW e
  PROVE  RemoveFirst(r, e) \in Seq(S)
<1>1. CASE \E i \in 1 .. Len(r) : r[i] = e
  <2> DEFINE I == {i \in 1 .. Len(r) : r[i] = e}
             n == Min(I)
  <2>1. \E x \in I : \A y \in I : x <= y
    <3>1. I # {} /\ I \subseteq Nat
      BY <1>1, LenProperties
    <3> HIDE DEF I
    <3>2. \E x \in I : \A y \in I : <<y, x>> \notin OpToRel(<, Nat)
      BY <3>1, NatLessThanWellFounded, WFMin
    <3>3. \A x, y \in Nat : y < x => <<y, x>> \in OpToRel(<, Nat)
      BY Zenon DEF OpToRel
    <3>4. \E x \in I : \A y \in I : ~(y < x)
      BY <3>1, <3>2, <3>3, Zenon
    <3> QED BY <3>1, <3>4
  <2>2. n \in I
    BY <2>1 DEF Min
  <2>3. SelectInSeq(r, LAMBDA v : v = e) = n
    BY <1>1 DEF SelectInSeq
  <2>4. n \in 1 .. Len(r) /\ Len(r) \in Nat
    BY <2>2, LenProperties
  <2> HIDE DEF n, I
  <2>5. RemoveFirst(r, e) = SubSeq(r, 1, n - 1) \o SubSeq(r, n + 1, Len(r))
    BY <1>1, <2>3 DEF RemoveFirst, RemoveAt
  <2>6. SubSeq(r, 1, n - 1) \in Seq(S) /\ SubSeq(r, n + 1, Len(r)) \in Seq(S)
    BY <2>4, SubSeqProperties
  <2> QED BY <2>5, <2>6, ConcatProperties
<1>2. CASE ~\E i \in 1 .. Len(r) : r[i] = e
  BY <1>2 DEF RemoveFirst
<1> QED BY <1>1, <1>2

\* A list whose rows change their names is one.
LEMMA RenamedType ==
  ASSUME NEW r \in Seq(Keys), NEW k \in Keys, NEW T
  PROVE  [j \in DOMAIN r |-> IF j \in T THEN k ELSE r[j]] \in Seq(Keys)
<1>1. DOMAIN r = 1 .. Len(r) /\ Len(r) \in Nat /\ \A j \in 1 .. Len(r) : r[j] \in Keys
  BY LenProperties, ElementOfSeq
<1>2. [j \in DOMAIN r |-> IF j \in T THEN k ELSE r[j]] \in [1 .. Len(r) -> Keys]
  BY <1>1
<1> QED BY <1>1, <1>2, SeqDef

\* A handler that starts a command leaves the slots with messages in them.
LEMMA SlotTypes ==
  ASSUME slots \in [Slots -> Messages], NEW c \in Messages, NEW s \in Slots,
         slots' = [slots EXCEPT ![s] = c]
  PROVE  slots' \in [Slots -> Messages]
OBVIOUS

LEMMA StartTypes ==
  ASSUME slots \in [Slots -> Messages], NEW c \in Messages, Start(c)
  PROVE  slots' \in [Slots -> Messages]
BY SlotTypes DEF Start

\* The commands handlers start.
LEMMA CommandTypes ==
  /\ Free \in Messages
  /\ \A p \in Patterns, c \in 0 .. LastPage : Load(p, c) \in Messages
  /\ \A k \in Keys : Preview(k) \in Messages
  /\ \A k \in Keys : [op |-> "delete", key |-> k] \in Messages
  /\ \A k \in Keys : [op |-> "deleted", key |-> k] \in Messages
  /\ \A k, l \in Keys : [op |-> "renamed", key |-> k, new |-> l] \in Messages
  /\ \A c \in Operations : c \in Messages
  /\ \A op \in {"flush", "flushed", "saved", "reload", "switched", "connected"} :
       [op |-> op] \in Messages
  /\ \A ks \in Seq(Keys), n \in 0 .. LastPage :
       [op |-> "loaded", keys |-> ks, next |-> n] \in Messages
  /\ \A ks \in Seq(Keys) : [op |-> "found", keys |-> ks] \in Messages
BY DEF Messages, Free, Load, Preview

\* The patterns handlers set, and the first page.
LEMMA PatternTypes ==
  /\ NoPattern \in Patterns
  /\ \A t \in Texts : Glob(t) \in Patterns
  /\ 0 \in 0 .. LastPage
BY KeyListAssumption DEF Patterns

\* What the fields of a message are.
LEMMA FieldTypes ==
  ASSUME NEW m \in Messages
  PROVE  /\ m.op = "loaded" => m.keys \in Seq(Keys) /\ m.next \in 0 .. LastPage
         /\ m.op = "load" => m.pattern \in Patterns /\ m.cursor \in 0 .. LastPage
         /\ m.op \in {"preview", "delete", "deleted", "set"} => m.key \in Keys
         /\ m.op \in {"rename", "renamed"} => m.key \in Keys /\ m.new \in Keys
         /\ m.op = "found" => m.keys \in Seq(Keys)
         /\ m.op \in {"switch", "connect"} => m.db \in DBs
BY DEF Messages, Operations

\* A row that is in range is a key.
LEMMA RowType ==
  ASSUME NEW ks \in Seq(Keys), NEW i \in Int, InRange(ks, i)
  PROVE  ks[i + 1] \in Keys
<1>1. i + 1 \in 1 .. Len(ks)
  BY LenProperties DEF InRange
<1> QED BY <1>1, ElementOfSeq

\* The selection moves to a row number.
LEMMA MovesType ==
  ASSUME ListTypes
  PROVE  Moves \subseteq Nat
<1>1. Len(keys) \in Nat /\ selected \in Int /\ selected >= -1 /\ PageStep \in Nat \ {0}
  BY KeyListAssumption, LenProperties DEF ListTypes
<1> QED BY <1>1 DEF Moves

\* Key presses keep the types.
LEMMA KeyPressTypes == TypeOK /\ KeyPress => TypeOK'
<1> SUFFICES ASSUME TypeOK, KeyPress
             PROVE  TypeOK'
  OBVIOUS
<1> USE DEF TypeOK
<1>0. MaxTimers \in Nat
  BY KeyListAssumption
<1>1. ASSUME NEW t \in Texts, Type(t)
      PROVE  TypeOK'
  <2>1. searchSeq' \in 0 .. MaxTimers /\ searchTicks' \subseteq 1 .. MaxTimers
    BY <1>0, <1>1 DEF Type, FilterTypes, PreviewTypes
  <2>2. UNCHANGED <<database, slots, list, focused, pattern, preview, dialog>> /\ text' = t
    BY <1>1 DEF Type
  <2> QED BY <2>1, <2>2 DEF DatabaseTypes, ListTypes, FilterTypes, PreviewTypes, DialogTypes,
             database, list, preview, dialog
<1>2. CASE FocusFilter
  BY <1>2 DEF FocusFilter, DatabaseTypes, ListTypes, FilterTypes, PreviewTypes, DialogTypes,
     database, list, preview, dialog
<1>3. CASE ApplyFilter
  <2>1. pattern' \in Patterns /\ keyCursor' \in 0 .. LastPage /\ focused' \in BOOLEAN
    BY <1>3, PatternTypes DEF ApplyFilter, FilterTypes
  <2>2. slots' \in [Slots -> Messages]
    BY <1>3, PatternTypes, CommandTypes, StartTypes DEF ApplyFilter, FilterTypes
  <2>3. UNCHANGED <<database, keys, selected, text, searchSeq, searchTicks, preview, dialog>>
    BY <1>3 DEF ApplyFilter
  <2> QED BY <2>1, <2>2, <2>3 DEF DatabaseTypes, ListTypes, FilterTypes, PreviewTypes,
             DialogTypes, database, preview, dialog
<1>4. CASE ClearFilter
  <2>1. /\ pattern' \in Patterns /\ keyCursor' \in 0 .. LastPage /\ focused' \in BOOLEAN
        /\ text' \in Texts
    BY <1>4, PatternTypes, KeyListAssumption DEF ClearFilter
  <2>2. slots' \in [Slots -> Messages]
    BY <1>4, PatternTypes, CommandTypes, StartTypes DEF ClearFilter
  <2>3. searchSeq' \in 0 .. MaxTimers
    BY <1>0, <1>4 DEF ClearFilter, FilterTypes, PreviewTypes
  <2>4. UNCHANGED <<database, keys, selected, searchTicks, preview, dialog>>
    BY <1>4 DEF ClearFilter
  <2> QED BY <2>1, <2>2, <2>3, <2>4 DEF DatabaseTypes, ListTypes, FilterTypes, PreviewTypes,
             DialogTypes, database, preview, dialog
<1>5. ASSUME NEW i \in Moves, Move(i)
      PROVE  TypeOK'
  <2>1. i \in Nat
    BY MovesType
  <2>2. PreviewTypes'
    <3>1. CASE InRange(keys, i)
      <4>1. /\ previewSeq' = previewSeq + 1 /\ searchSeq + previewSeq < MaxTimers
            /\ previewTicks' = previewTicks \cup {[seq |-> previewSeq + 1, key |-> keys[i + 1]]}
            /\ unasked' = FALSE /\ previewKey' = previewKey
        BY <1>5, <3>1 DEF Move
      <4>2. keys[i + 1] \in Keys
        BY <2>1, <3>1, RowType DEF ListTypes
      <4>3. previewSeq + 1 \in 1 .. MaxTimers
        BY <1>0, <4>1 DEF FilterTypes, PreviewTypes
      <4> DEFINE tick == [seq |-> previewSeq + 1, key |-> keys[i + 1]]
      <4>4. tick \in [seq : 1 .. MaxTimers, key : Keys]
        BY <4>2, <4>3
      <4>5. previewTicks' = previewTicks \cup {tick}
        BY <4>1
      <4>6. previewSeq' \in 0 .. MaxTimers
        BY <1>0, <4>1, <4>3
      <4> HIDE DEF tick
      <4>7. previewTicks' \subseteq [seq : 1 .. MaxTimers, key : Keys]
        BY <4>4, <4>5, Zenon DEF PreviewTypes
      <4> QED BY <4>1, <4>6, <4>7, Zenon DEF PreviewTypes
    <3>2. CASE ~InRange(keys, i)
      BY <1>5, <3>2 DEF Move, PreviewTypes
    <3> QED BY <3>1, <3>2
  <2>3. UNCHANGED <<database, slots, keys, keyCursor, filter, dialog>> /\ selected' = i
    BY <1>5 DEF Move
  <2> QED BY <2>1, <2>2, <2>3 DEF DatabaseTypes, ListTypes, FilterTypes, DialogTypes,
             database, filter, dialog
<1>6. CASE Refresh \/ LoadMore
  <2>1. slots' \in [Slots -> Messages]
    BY <1>6, PatternTypes, CommandTypes, StartTypes DEF Refresh, LoadMore, FilterTypes, ListTypes
  <2>2. keyCursor' \in 0 .. LastPage
    BY <1>6, PatternTypes DEF Refresh, LoadMore, ListTypes, list
  <2>3. UNCHANGED <<database, keys, selected, filter, preview, dialog>>
    BY <1>6 DEF Refresh, LoadMore, list
  <2> QED BY <2>1, <2>2, <2>3 DEF DatabaseTypes, ListTypes, FilterTypes, PreviewTypes,
             DialogTypes, database, filter, preview, dialog
<1>7. CASE Sort
  <2>1. keys' \in Seq(Keys)
    <3>1. PICK f \in [1 .. Len(keys) -> 1 .. Len(keys)] :
            keys' = [i \in 1 .. Len(keys) |-> keys[f[i]]]
      BY <1>7 DEF Sort
    <3>2. \A i \in 1 .. Len(keys) : keys[f[i]] \in Keys
      BY ElementOfSeq DEF ListTypes
    <3>3. Len(keys) \in Nat
      BY LenProperties DEF ListTypes
    <3> QED BY <3>1, <3>2, <3>3, IsASeq
  <2>2. unasked' = TRUE
    BY <1>7 DEF Sort
  <2>3. UNCHANGED <<database, slots, keyCursor, selected, filter, previewKey, previewSeq,
                    previewTicks, dialog>>
    BY <1>7 DEF Sort
  <2> QED BY <2>1, <2>2, <2>3 DEF DatabaseTypes, ListTypes, FilterTypes, PreviewTypes,
             DialogTypes, database, filter, dialog
<1>8. CASE AskDelete \/ AskFlush \/ BackToKeys \/ LeaveKeys
  <2>1. DialogTypes'
    <3>1. CASE AskDelete
      BY <3>1, RowType DEF AskDelete, DialogTypes, ListTypes
    <3>2. CASE AskFlush \/ BackToKeys \/ LeaveKeys
      BY <3>2 DEF AskFlush, BackToKeys, LeaveKeys, ShowKeys, DialogTypes
    <3> QED BY <1>8, <3>1, <3>2
  <2>2. UNCHANGED <<database, slots, list, filter, preview>>
    BY <1>8 DEF AskDelete, AskFlush, BackToKeys, LeaveKeys
  <2> QED BY <2>1, <2>2 DEF DatabaseTypes, ListTypes, FilterTypes, PreviewTypes,
             database, list, filter, preview
<1>9. ASSUME NEW c \in Messages, Start(c), UNCHANGED <<database, list, filter, preview, dialog>>
      PROVE  TypeOK'
  <2>1. slots' \in [Slots -> Messages]
    BY <1>9, StartTypes
  <2> QED BY <1>9, <2>1 DEF DatabaseTypes, ListTypes, FilterTypes, PreviewTypes,
             DialogTypes, database, list, filter, preview, dialog
<1>10. CASE Confirm
  <2> DEFINE c == IF confirm = None THEN [op |-> "flush"] ELSE [op |-> "delete", key |-> confirm]
  <2>1. c \in Messages
    BY CommandTypes DEF DialogTypes
  <2>2. Start(c) /\ UNCHANGED <<database, list, filter, preview, dialog>>
    BY <1>10 DEF Confirm
  <2> HIDE DEF c
  <2> QED BY <1>9, <2>1, <2>2
<1>11. ASSUME NEW i \in 0 .. MaxList, Browse(i)
       PROVE  TypeOK'
  <2>1. UNCHANGED <<database, slots, keys, keyCursor, filter, previewKey, previewSeq,
                    previewTicks, dialog>> /\ selected' = i
    BY <1>11 DEF Browse
  <2>2. unasked' \in BOOLEAN
    BY <1>11 DEF Browse
  <2>3. ListTypes'
    BY <2>1, KeyListAssumption DEF ListTypes
  <2> QED BY <2>1, <2>2, <2>3 DEF DatabaseTypes, FilterTypes, PreviewTypes, DialogTypes,
             database, filter, dialog
<1>12. ASSUME NEW c \in Operations, Submit(c)
       PROVE  TypeOK'
  BY <1>9, <1>12, CommandTypes DEF Submit
<1> QED BY <1>1, <1>2, <1>3, <1>4, <1>5, <1>6, <1>7, <1>8, <1>10, <1>11, <1>12 DEF KeyPress

\* Timers keep the types.
LEMMA TimerTypes == TypeOK /\ Timer => TypeOK'
<1> SUFFICES ASSUME TypeOK, Timer
             PROVE  TypeOK'
  OBVIOUS
<1> USE DEF TypeOK
<1>1. ASSUME NEW n \in searchTicks, SearchTick(n)
      PROVE  TypeOK'
  <2>1. /\ pattern' \in Patterns /\ keyCursor' \in 0 .. LastPage
        /\ slots' \in [Slots -> Messages]
    <3>1. CASE n = searchSeq
      BY <1>1, <3>1, PatternTypes, CommandTypes, StartTypes DEF SearchTick, FilterTypes
    <3>2. CASE n # searchSeq
      BY <1>1, <3>2 DEF SearchTick, FilterTypes, ListTypes
    <3> QED BY <3>1, <3>2
  <2>2. searchTicks' \subseteq searchTicks
    BY <1>1 DEF SearchTick
  <2>3. UNCHANGED <<database, keys, selected, text, focused, searchSeq, preview, dialog>>
    BY <1>1 DEF SearchTick
  <2> QED BY <2>1, <2>2, <2>3 DEF DatabaseTypes, ListTypes, FilterTypes, PreviewTypes,
             DialogTypes, database, preview, dialog
<1>2. ASSUME NEW t \in previewTicks, PreviewTick(t)
      PROVE  TypeOK'
  <2>1. slots' \in [Slots -> Messages]
    <3>1. t.key \in Keys
      BY DEF PreviewTypes
    <3> QED BY <1>2, <3>1, CommandTypes, StartTypes DEF PreviewTick
  <2>2. previewTicks' \subseteq previewTicks
    BY <1>2 DEF PreviewTick
  <2>3. UNCHANGED <<database, list, filter, previewKey, previewSeq, unasked, dialog>>
    BY <1>2 DEF PreviewTick
  <2> QED BY <2>1, <2>2, <2>3 DEF DatabaseTypes, ListTypes, FilterTypes, PreviewTypes,
             DialogTypes, database, list, filter, dialog
<1>3. CASE Tick
  <2>1. PICK n \in 0 .. Len(keys) - 1 :
          /\ \E f \in [1 .. n -> 1 .. Len(keys)] : keys' = [i \in 1 .. n |-> keys[f[i]]]
          /\ selected' = Clamp(n)
    BY <1>3 DEF Tick
  <2>2. Len(keys) \in Nat /\ n \in Nat
    BY LenProperties DEF ListTypes
  <2>3. keys' \in Seq(Keys)
    <3>1. PICK f \in [1 .. n -> 1 .. Len(keys)] : keys' = [i \in 1 .. n |-> keys[f[i]]]
      BY <2>1
    <3>2. \A i \in 1 .. n : keys[f[i]] \in Keys
      BY ElementOfSeq DEF ListTypes
    <3> QED BY <2>2, <3>1, <3>2, IsASeq
  <2>4. selected' \in Int /\ selected' >= -1
    BY <2>1, <2>2 DEF Clamp, ListTypes
  <2>5. unasked' \in BOOLEAN
    BY <1>3 DEF Tick
  <2>6. DialogTypes'
    BY <1>3 DEF Tick, ShowKeys, DialogTypes, dialog
  <2>7. UNCHANGED <<database, slots, keyCursor, filter, previewKey, previewSeq, previewTicks>>
    BY <1>3 DEF Tick
  <2> QED BY <2>3, <2>4, <2>5, <2>6, <2>7 DEF DatabaseTypes, ListTypes, FilterTypes,
             PreviewTypes, database, filter
<1> QED BY <1>1, <1>2, <1>3 DEF Timer

\* Notifications are counted up to their bound.
LEMMA NotifyType ==
  ASSUME events \in 0 .. MaxEvents, Notify
  PROVE  events' \in 0 .. MaxEvents
BY KeyListAssumption DEF Notify

\* A database that gains, loses or swaps keys still holds keys.
LEMMA ContentType ==
  ASSUME DatabaseTypes, NEW S \in SUBSET Keys, content' = [content EXCEPT ![active] = S]
  PROVE  content' \in [DBs -> SUBSET Keys]
BY DEF DatabaseTypes

\* Commands keep the types.
LEMMA RunTypes == \A s \in Slots : TypeOK /\ Command(s) => TypeOK'
<1> SUFFICES ASSUME NEW s \in Slots, TypeOK, Command(s)
             PROVE  TypeOK'
  OBVIOUS
<1> USE DEF TypeOK
<1>0. slots[s] \in Messages
  OBVIOUS
<1>1. ASSUME NEW op, NEW m \in Messages, Runs(s, op, m), DatabaseTypes'
      PROVE  TypeOK'
  <2>1. slots' \in [Slots -> Messages]
    BY <1>1, SlotTypes DEF Runs
  <2>2. UNCHANGED <<list, filter, preview, dialog>>
    BY <1>1 DEF Runs
  <2> QED BY <1>1, <2>1, <2>2 DEF ListTypes, FilterTypes, PreviewTypes, DialogTypes, list,
             filter, preview, dialog
<1>2. CASE RunLoad(s)
  <2> DEFINE p == slots[s].pattern
             c == slots[s].cursor
  <2>1. slots[s].op = "load" /\ UNCHANGED database
        /\ Runs(s, "load", [op |-> "loaded", keys |-> Page(p, c), next |-> NextCursor(c)])
    BY <1>2 DEF RunLoad
  <2>2. p \in Patterns /\ c \in 0 .. LastPage
    BY <1>0, <2>1, FieldTypes
  <2> HIDE DEF p, c
  <2>3. Page(p, c) \in Seq(Keys)
    <3>1. {k \in content[active] \cap Matches(p) : PageOf(k) = c} \subseteq Keys
      BY DEF DatabaseTypes
    <3> QED BY <3>1, KeyListAssumption, Zenon DEF Page
  <2>4. NextCursor(c) \in 0 .. LastPage
    BY <2>2, KeyListAssumption DEF NextCursor
  <2>5. DatabaseTypes'
    BY <2>1 DEF DatabaseTypes, database
  <2> QED BY <1>1, <2>1, <2>3, <2>4, <2>5, CommandTypes
<1>3. CASE RunDelete(s)
  <2>1. slots[s].key \in Keys
    BY <1>0, <1>3, FieldTypes DEF RunDelete
  <2>2. events' \in 0 .. MaxEvents
    BY <1>3, NotifyType DEF RunDelete, DatabaseTypes
  <2>3. content' \in [DBs -> SUBSET Keys] /\ active' = active
    BY <1>3 DEF RunDelete, DatabaseTypes
  <2> QED BY <1>1, <1>3, <2>1, <2>2, <2>3, CommandTypes DEF RunDelete, DatabaseTypes
<1>4. CASE RunSet(s)
  <2>1. slots[s].key \in Keys
    BY <1>0, <1>4, FieldTypes DEF RunSet
  <2>2. events' \in 0 .. MaxEvents
    BY <1>4, NotifyType DEF RunSet, DatabaseTypes
  <2>3. content' \in [DBs -> SUBSET Keys] /\ active' = active
    BY <1>4, <2>1 DEF RunSet, DatabaseTypes
  <2> QED BY <1>1, <1>4, <2>2, <2>3, CommandTypes DEF RunSet, DatabaseTypes
<1>8. CASE RunRename(s)
  <2>1. slots[s].key \in Keys /\ slots[s].new \in Keys
    BY <1>0, <1>8, FieldTypes DEF RunRename
  <2>2. content' \in [DBs -> SUBSET Keys] /\ active' = active /\ events' = events
    BY <1>8, <2>1 DEF RunRename, DatabaseTypes
  <2>3. DatabaseTypes'
    BY <2>2 DEF DatabaseTypes
  <2> QED BY <1>1, <1>8, <2>1, <2>3, CommandTypes DEF RunRename
<1>9. CASE RunBulk(s)
  <2>1. DatabaseTypes'
    BY <1>9, ContentType DEF RunBulk, DatabaseTypes
  <2> QED BY <1>1, <1>9, <2>1, CommandTypes DEF RunBulk
<1>10. CASE RunSearch(s)
  <2>1. PICK S \in SUBSET content[active] : Runs(s, "search", [op |-> "found", keys |-> InOrder(S)])
    BY <1>10 DEF RunSearch
  <2>2. InOrder(S) \in Seq(Keys)
    <3>1. S \subseteq Keys
      BY DEF DatabaseTypes
    <3> QED BY <3>1, KeyListAssumption, Zenon
  <2>3. DatabaseTypes'
    BY <1>10 DEF RunSearch, DatabaseTypes, database
  <2> QED BY <1>1, <2>1, <2>2, <2>3, CommandTypes
<1>5. CASE RunFlush(s)
  <2>1. DatabaseTypes'
    BY <1>5, ContentType DEF RunFlush, DatabaseTypes
  <2> QED BY <1>1, <1>5, <2>1, CommandTypes DEF RunFlush
<1>6. CASE RunGoTo(s)
  <2>1. slots[s].db \in DBs
    BY <1>0, <1>6, FieldTypes DEF RunGoTo
  <2>2. DatabaseTypes'
    BY <1>6, <2>1 DEF RunGoTo, DatabaseTypes
  <2> QED BY <1>1, <1>6, <2>2, CommandTypes DEF RunGoTo
<1>7. CASE Fail(s)
  <2>1. slots' \in [Slots -> Messages]
    BY <1>7, CommandTypes, SlotTypes DEF Fail
  <2>2. DialogTypes'
    BY <1>7 DEF Fail, ShowKeys, DialogTypes, dialog
  <2>3. UNCHANGED <<database, list, filter, preview>>
    BY <1>7 DEF Fail
  <2> QED BY <2>1, <2>2, <2>3 DEF DatabaseTypes, ListTypes, FilterTypes, PreviewTypes,
             database, list, filter, preview
<1> QED BY <1>2, <1>3, <1>4, <1>5, <1>6, <1>7, <1>8, <1>9, <1>10 DEF Command

\* Handlers of messages keep the types.
LEMMA MessageTypes == \A s \in Slots : TypeOK /\ Message(s) => TypeOK'
<1> SUFFICES ASSUME NEW s \in Slots, TypeOK, Message(s)
             PROVE  TypeOK'
  OBVIOUS
<1> USE DEF TypeOK
<1>0. slots[s] \in Messages /\ Len(keys) \in Nat
  BY LenProperties DEF ListTypes
<1>1. ASSUME NEW c \in Messages, Then(s, c)
      PROVE  slots' \in [Slots -> Messages]
  BY <1>1, SlotTypes DEF Then
<1>2. CASE KeysLoaded(s)
  <2> DEFINE rows == IF keyCursor = 0 THEN slots[s].keys ELSE keys \o slots[s].keys
             row == IF keyCursor = 0 THEN 0 ELSE selected
  <2>1. /\ keys' = rows /\ selected' = row
        /\ AskPreview(s, rows, row)
        /\ keyCursor' = slots[s].next
    BY <1>2 DEF KeysLoaded
  <2>2. slots[s].keys \in Seq(Keys) /\ slots[s].next \in 0 .. LastPage
    BY <1>0, <1>2, FieldTypes DEF KeysLoaded
  <2>3. rows \in Seq(Keys) /\ row \in Int /\ row >= -1
    BY <2>2, ConcatProperties DEF ListTypes
  <2> HIDE DEF rows, row
  <2>4. slots' \in [Slots -> Messages] /\ unasked' \in BOOLEAN
    <3>1. CASE InRange(rows, row)
      BY <1>1, <2>1, <2>3, <3>1, RowType, CommandTypes DEF AskPreview
    <3>2. CASE ~InRange(rows, row)
      BY <1>1, <2>1, <3>2, CommandTypes DEF AskPreview, PreviewTypes
    <3> QED BY <3>1, <3>2
  <2>5. UNCHANGED <<database, filter, previewKey, previewSeq, previewTicks, dialog>>
    BY <1>2 DEF KeysLoaded
  <2> QED BY <2>1, <2>2, <2>3, <2>4, <2>5 DEF DatabaseTypes, ListTypes, FilterTypes,
             PreviewTypes, DialogTypes, database, filter, dialog
<1>3. CASE PreviewLoaded(s)
  <2>1. slots' \in [Slots -> Messages]
    BY <1>1, <1>3, CommandTypes DEF PreviewLoaded
  <2>2. slots[s].key \in Keys
    BY <1>0, <1>3, FieldTypes DEF PreviewLoaded
  <2>3. previewKey' \in Keys \cup {None} /\ unasked' \in BOOLEAN
    BY <1>3, <2>2 DEF PreviewLoaded, PreviewTypes
  <2>4. UNCHANGED <<database, list, filter, previewSeq, previewTicks, dialog>>
    BY <1>3 DEF PreviewLoaded
  <2> QED BY <2>1, <2>3, <2>4 DEF DatabaseTypes, ListTypes, FilterTypes, PreviewTypes,
             DialogTypes, database, list, filter, dialog
<1>4. CASE KeyDeleted(s)
  <2>1. slots' \in [Slots -> Messages] /\ unasked' = TRUE
    BY <1>1, <1>4, CommandTypes DEF KeyDeleted
  <2>2. keys' \in Seq(Keys)
    BY <1>4, RemoveFirstType DEF KeyDeleted, ListTypes
  <2>3. selected' \in Int /\ selected' >= -1
    BY <1>4 DEF KeyDeleted, ListTypes
  <2>4. DialogTypes'
    BY <1>4 DEF KeyDeleted, ShowKeys, DialogTypes
  <2>5. UNCHANGED <<database, keyCursor, filter, previewKey, previewSeq, previewTicks>>
    BY <1>4 DEF KeyDeleted
  <2> QED BY <2>1, <2>2, <2>3, <2>4, <2>5 DEF DatabaseTypes, ListTypes, FilterTypes,
             PreviewTypes, database, filter
<1>6. CASE Reload(s)
  <2>1. slots' \in [Slots -> Messages]
    BY <1>1, <1>6, PatternTypes, CommandTypes DEF Reload, FilterTypes
  <2>2. keyCursor' \in 0 .. LastPage
    BY <1>6, PatternTypes DEF Reload
  <2>3. DialogTypes'
    BY <1>6 DEF Reload, ShowKeys, DialogTypes
  <2>4. UNCHANGED <<database, keys, selected, filter, preview>>
    BY <1>6 DEF Reload
  <2> QED BY <2>1, <2>2, <2>3, <2>4 DEF DatabaseTypes, ListTypes, FilterTypes, PreviewTypes,
             database, filter, preview
<1>7. CASE KeyRenamed(s) \/ Found(s)
  <2>1. slots' \in [Slots -> Messages]
    BY <1>1, <1>7, CommandTypes DEF KeyRenamed, Found
  <2>2. keys' \in Seq(Keys)
    <3>1. CASE Found(s)
      BY <1>0, <3>1, FieldTypes DEF Found
    <3>2. CASE KeyRenamed(s)
      <4>1. slots[s].new \in Keys
        BY <1>0, <3>2, FieldTypes DEF KeyRenamed
      <4>2. CASE UNCHANGED <<keys, unasked>>
        BY <4>2 DEF ListTypes
      <4>3. CASE \E T : keys' = [j \in DOMAIN keys |-> IF j \in T THEN slots[s].new ELSE keys[j]]
        <5>1. PICK T : keys' = [j \in DOMAIN keys |-> IF j \in T THEN slots[s].new ELSE keys[j]]
          BY <4>3
        <5> QED BY <4>1, <5>1, RenamedType DEF ListTypes
      <4> QED BY <3>2, <4>2, <4>3 DEF KeyRenamed
    <3> QED BY <1>7, <3>1, <3>2
  <2>3. unasked' \in BOOLEAN
    BY <1>7 DEF KeyRenamed, Found, PreviewTypes
  <2>4. DialogTypes'
    BY <1>7 DEF KeyRenamed, Found, ShowKeys, DialogTypes
  <2>5. UNCHANGED <<database, keyCursor, selected, filter, previewKey, previewSeq, previewTicks>>
    BY <1>7 DEF KeyRenamed, Found
  <2> QED BY <2>1, <2>2, <2>3, <2>4, <2>5 DEF DatabaseTypes, ListTypes, FilterTypes,
             PreviewTypes, database, filter
<1>5. CASE KeySet(s) \/ Flushed(s) \/ DBSwitched(s) \/ Connected(s)
  <2>1. slots' \in [Slots -> Messages]
    BY <1>1, <1>5, PatternTypes, CommandTypes DEF KeySet, Flushed, DBSwitched, Connected, FilterTypes
  <2>2. ListTypes'
    <3>1. << >> \in Seq(Keys)
      BY EmptySeq
    <3>2. CASE KeySet(s)
      BY <3>2 DEF KeySet, ListTypes, list
    <3>3. CASE Flushed(s) \/ DBSwitched(s) \/ Connected(s)
      <4>1. keys' = << >>
        BY <3>3 DEF Flushed, DBSwitched, Connected
      <4>2. keyCursor' \in {0, keyCursor} /\ selected' \in {0, selected}
        BY <3>3 DEF Flushed, DBSwitched, Connected
      <4> QED BY <3>1, <4>1, <4>2, PatternTypes DEF ListTypes
    <3> QED BY <1>5, <3>2, <3>3
  <2>3. pattern' \in Patterns
    BY <1>5, PatternTypes DEF KeySet, Flushed, DBSwitched, Connected, FilterTypes, filter
  <2>4. DialogTypes'
    BY <1>5 DEF KeySet, Flushed, DBSwitched, Connected, ShowKeys, DialogTypes
  <2>5. UNCHANGED <<database, text, focused, searchSeq, searchTicks, preview>>
    BY <1>5 DEF KeySet, Flushed, DBSwitched, Connected, filter
  <2> QED BY <2>1, <2>2, <2>3, <2>4, <2>5 DEF DatabaseTypes, FilterTypes, PreviewTypes,
             database, preview
<1> QED BY <1>2, <1>3, <1>4, <1>5, <1>6, <1>7 DEF Message

\* Every step keeps the types.
LEMMA StepTypes == TypeOK /\ [Next]_vars => TypeOK'
<1> SUFFICES ASSUME TypeOK, [Next]_vars
             PROVE  TypeOK'
  OBVIOUS
<1>1. CASE KeyspaceEvent
  <2>1. slots' \in [Slots -> Messages]
    BY <1>1, PatternTypes, CommandTypes, StartTypes DEF KeyspaceEvent, TypeOK, FilterTypes
  <2>2. events' \in 0 .. MaxEvents
    BY <1>1, KeyListAssumption DEF KeyspaceEvent, TypeOK, DatabaseTypes
  <2>3. UNCHANGED <<content, active, list, filter, preview, dialog>>
    BY <1>1 DEF KeyspaceEvent
  <2> QED BY <2>1, <2>2, <2>3 DEF TypeOK, DatabaseTypes, ListTypes, FilterTypes, PreviewTypes,
             DialogTypes, list, filter, preview, dialog
<1>2. ASSUME NEW k \in Keys, ExternalChange(k)
      PROVE  TypeOK'
  <2>1. events' \in 0 .. MaxEvents
    BY <1>2, NotifyType DEF ExternalChange, TypeOK, DatabaseTypes
  <2>2. content' \in [DBs -> SUBSET Keys]
    BY <1>2 DEF ExternalChange, TypeOK, DatabaseTypes
  <2>3. UNCHANGED <<active, slots, list, filter, preview, dialog>>
    BY <1>2 DEF ExternalChange
  <2> QED BY <2>1, <2>2, <2>3 DEF TypeOK, DatabaseTypes, ListTypes, FilterTypes, PreviewTypes,
             DialogTypes, list, filter, preview, dialog
<1>3. CASE UNCHANGED vars
  BY <1>3 DEF vars, TypeOK, DatabaseTypes, ListTypes, FilterTypes, PreviewTypes, DialogTypes
<1> QED BY <1>1, <1>2, <1>3, KeyPressTypes, TimerTypes, RunTypes, MessageTypes DEF Next

\* The initial state is well typed.
LEMMA InitTypes == Init => TypeOK
<1> SUFFICES ASSUME Init
             PROVE  TypeOK
  OBVIOUS
<1>1. slots \in [Slots -> Messages]
  BY CommandTypes DEF Init
<1>2. DatabaseTypes
  BY KeyListAssumption DEF Init, DatabaseTypes
<1>3. ListTypes
  <2>1. keys = << >> /\ keyCursor = 0 /\ selected = 0
    BY DEF Init
  <2> QED BY <2>1, EmptySeq, PatternTypes DEF ListTypes
<1>4. FilterTypes
  <2>1. text \in Texts /\ focused \in BOOLEAN /\ pattern \in Patterns
    BY KeyListAssumption, PatternTypes DEF Init
  <2>2. searchSeq = 0 /\ searchTicks = {} /\ MaxTimers \in Nat
    BY KeyListAssumption DEF Init
  <2> QED BY <2>1, <2>2 DEF FilterTypes
<1>5. PreviewTypes /\ DialogTypes
  <2>1. unasked \in BOOLEAN
    BY DEF Init
  <2>2. /\ previewKey \in Keys \cup {None}
        /\ previewTicks \subseteq [seq : 1 .. MaxTimers, key : Keys]
        /\ screen = "away" /\ confirm = None
    BY Zenon DEF Init
  <2>3. previewSeq \in 0 .. MaxTimers
    BY KeyListAssumption DEF Init
  <2> QED BY <2>1, <2>2, <2>3, Zenon DEF PreviewTypes, DialogTypes
<1> QED BY <1>1, <1>2, <1>3, <1>4, <1>5 DEF TypeOK

\* For any number of keys, pages and commands under way, the fields keep their
\* types; the selection never becomes negative.
THEOREM KeyListTypes == Spec => []TypeOK
BY InitTypes, StepTypes, PTL DEF Spec

------------------------------------------------------------------------------
(* The filter. *)

\* Everything but the actions named here leaves the filter alone.
LEMMA FilterStep ==
  ASSUME FilterConverges, UNCHANGED filter
  PROVE  FilterConverges'
BY DEF FilterConverges, filter

\* A step of the program keeps the filter's promise.
LEMMA FilterKeeps == FilterConverges /\ [Next]_vars => FilterConverges'
<1> SUFFICES ASSUME FilterConverges, [Next]_vars
             PROVE  FilterConverges'
  OBVIOUS
<1>1. CASE KeyPress
  <2>1. ASSUME NEW t \in Texts, Type(t)
        PROVE  FilterConverges'
    BY <2>1 DEF Type, FilterConverges
  <2>2. CASE FocusFilter
    BY <2>2 DEF FocusFilter, FilterConverges
  <2>3. CASE ApplyFilter
    BY <2>3 DEF ApplyFilter, FilterConverges
  <2>4. CASE ClearFilter
    BY <2>4 DEF ClearFilter, FilterConverges
  <2>5. ASSUME NEW i \in Moves, Move(i)
        PROVE  FilterConverges'
    BY <2>5, FilterStep DEF Move
  <2>6. CASE Refresh \/ LoadMore \/ Sort \/ AskDelete \/ AskFlush \/ Confirm
    BY <2>6, FilterStep DEF Refresh, LoadMore, Sort, AskDelete, AskFlush, Confirm
  <2>7. CASE BackToKeys \/ LeaveKeys
    BY <2>7, FilterStep DEF BackToKeys, LeaveKeys
  <2>8. ASSUME NEW i \in 0 .. MaxList, Browse(i)
        PROVE  FilterConverges'
    BY <2>8, FilterStep DEF Browse
  <2>9. ASSUME NEW c \in Operations, Submit(c)
        PROVE  FilterConverges'
    BY <2>9, FilterStep DEF Submit
  <2> QED BY <1>1, <2>1, <2>2, <2>3, <2>4, <2>5, <2>6, <2>7, <2>8, <2>9 DEF KeyPress
<1>2. CASE Timer
  <2>1. ASSUME NEW n \in searchTicks, SearchTick(n)
        PROVE  FilterConverges'
    <3>1. CASE n = searchSeq
      BY <2>1, <3>1 DEF SearchTick, FilterConverges
    <3>2. CASE n # searchSeq
      BY <2>1, <3>2 DEF SearchTick, FilterConverges
    <3> QED BY <3>1, <3>2
  <2>2. ASSUME NEW t \in previewTicks, PreviewTick(t)
        PROVE  FilterConverges'
    BY <2>2, FilterStep DEF PreviewTick
  <2>3. CASE Tick
    BY <2>3, FilterStep DEF Tick
  <2> QED BY <1>2, <2>1, <2>2, <2>3 DEF Timer
<1>3. ASSUME NEW s \in Slots, Command(s)
      PROVE  FilterConverges'
  BY <1>3, FilterStep
  DEF Command, RunLoad, RunDelete, RunSet, RunRename, RunBulk, RunSearch, RunFlush, RunGoTo,
      Runs, Fail
<1>4. ASSUME NEW s \in Slots, Message(s)
      PROVE  FilterConverges'
  <2>1. CASE Connected(s)
    BY <2>1 DEF Connected, FilterConverges
  <2>2. CASE KeysLoaded(s) \/ PreviewLoaded(s) \/ KeyDeleted(s) \/ KeySet(s)
             \/ Reload(s) \/ KeyRenamed(s) \/ Found(s) \/ Flushed(s) \/ DBSwitched(s)
    BY <2>2, FilterStep DEF KeysLoaded, PreviewLoaded, KeyDeleted, KeySet, Reload, KeyRenamed,
       Found, Flushed, DBSwitched
  <2> QED BY <1>4, <2>1, <2>2 DEF Message
<1>5. CASE KeyspaceEvent
  BY <1>5, FilterStep DEF KeyspaceEvent
<1>6. ASSUME NEW k \in Keys, ExternalChange(k)
      PROVE  FilterConverges'
  BY <1>6, FilterStep DEF ExternalChange
<1>7. CASE UNCHANGED vars
  BY <1>7, FilterStep DEF vars, filter
<1> QED BY <1>1, <1>2, <1>3, <1>4, <1>5, <1>6, <1>7 DEF Next

\* Whatever the order of edits, timers, esc, enter and reconnects, the text that
\* is shown is the one in force, or a timer will put it in force.
THEOREM KeyListFilter == Spec => []FilterConverges
<1>1. Init => FilterConverges
  BY DEF Init, FilterConverges
<1> QED BY <1>1, FilterKeeps, PTL DEF Spec

------------------------------------------------------------------------------
(* The preview. *)

\* The row the selection is on.
Row == keys[selected + 1]

\* A preview of the selected row is shown, or under way, or the timer that will
\* ask for it is the latest one: a timer or a result for another row never
\* counts, and never harms.
Covered ==
  \/ previewKey = Row
  \/ \E t \in previewTicks : t.seq = previewSeq /\ t.key = Row
  \/ \E s \in Slots : slots[s] = Preview(Row)

PreviewInv ==
  /\ (~unasked /\ InRange(keys, selected)) => Covered
  /\ unasked \in BOOLEAN
  /\ DOMAIN slots = Slots

\* The invariant gives the property.
LEMMA PreviewInvSuffices == PreviewInv => PreviewConverges
<1> SUFFICES ASSUME PreviewInv, ~PreviewPending, ~unasked, InRange(keys, selected)
             PROVE  previewKey = keys[selected + 1]
  BY DEF PreviewConverges
<1>1. Covered
  BY DEF PreviewInv
<1>2. \A s \in Slots : slots[s] # Preview(Row)
  BY DEF PreviewPending, Preview
<1> QED BY <1>1, <1>2 DEF Covered, PreviewPending, Row

\* Steps that leave the list and the preview alone may start or run any command
\* but a preview.
LEMMA OtherSlots ==
  ASSUME PreviewInv, UNCHANGED <<keys, selected, preview>>, DOMAIN slots' = Slots,
         \A s \in Slots : slots[s].op = "preview" => slots'[s] = slots[s]
  PROVE  PreviewInv'
<1>1. \A s \in Slots : slots[s] = Preview(Row) => slots'[s] = Preview(Row)
  BY DEF Preview
<1> QED BY <1>1 DEF PreviewInv, Covered, Row, InRange, preview

\* Starting a command uses a slot that is free.
LEMMA StartFrees ==
  ASSUME PreviewInv, NEW c, Start(c)
  PROVE  /\ DOMAIN slots' = Slots
         /\ \A s \in Slots : slots[s].op = "preview" => slots'[s] = slots[s]
         /\ \E s \in Slots : slots'[s] = c
BY DEF PreviewInv, Start, Free

\* Every step of the program keeps the preview's invariant.
LEMMA PreviewKeeps == TypeOK /\ PreviewInv /\ [Next]_vars => PreviewInv'
<1> SUFFICES ASSUME TypeOK, PreviewInv, [Next]_vars
             PROVE  PreviewInv'
  OBVIOUS
<1>1. ASSUME NEW i \in Moves, Move(i)
      PROVE  PreviewInv'
  <2>1. DOMAIN slots' = Slots /\ slots' = slots /\ keys' = keys /\ selected' = i
        /\ previewKey' = previewKey
    BY <1>1 DEF Move, PreviewInv
  <2>2. CASE InRange(keys, i)
    <3>1. /\ previewSeq' = previewSeq + 1
          /\ previewTicks' = previewTicks \cup {[seq |-> previewSeq + 1, key |-> keys[i + 1]]}
          /\ unasked' = FALSE
      BY <1>1, <2>2 DEF Move
    <3>2. [seq |-> previewSeq + 1, key |-> keys[i + 1]] \in previewTicks'
      BY <3>1
    <3>3. Covered'
      BY <2>1, <3>1, <3>2 DEF Covered, Row
    <3> QED BY <2>1, <3>1, <3>3 DEF PreviewInv
  <2>3. CASE ~InRange(keys, i)
    <3>1. unasked' = unasked
      BY <1>1, <2>3 DEF Move
    <3> QED BY <2>1, <2>3, <3>1 DEF PreviewInv, InRange
  <2> QED BY <2>2, <2>3
<1>2. CASE Sort
  BY <1>2 DEF Sort, PreviewInv
<1>3. ASSUME NEW t \in previewTicks, PreviewTick(t)
      PROVE  PreviewInv'
  <2>1. /\ UNCHANGED <<keys, selected, previewKey, previewSeq, unasked>>
        /\ previewTicks' = previewTicks \ {t}
    BY <1>3 DEF PreviewTick, list
  <2>2. CASE t.seq = previewSeq /\ InRange(keys, selected) /\ Row = t.key
    <3>1. Start(Preview(t.key))
      BY <1>3, <2>2 DEF PreviewTick, Row
    <3>2. DOMAIN slots' = Slots /\ \E s \in Slots : slots'[s] = Preview(Row)
      BY <2>2, <3>1, StartFrees
    <3> QED BY <2>1, <3>2 DEF PreviewInv, Covered, Row, InRange
  <2>3. CASE ~(t.seq = previewSeq /\ InRange(keys, selected) /\ Row = t.key)
    <3>1. slots' = slots
      BY <1>3, <2>3 DEF PreviewTick, Row
    <3> QED BY <2>1, <2>3, <3>1 DEF PreviewInv, Covered, Row, InRange
  <2> QED BY <2>2, <2>3
<1>4. ASSUME NEW s \in Slots, KeysLoaded(s)
      PROVE  PreviewInv'
  <2> DEFINE rows == IF keyCursor = 0 THEN slots[s].keys ELSE keys \o slots[s].keys
             row == IF keyCursor = 0 THEN 0 ELSE selected
  <2>1. /\ keys' = rows /\ selected' = row
        /\ AskPreview(s, rows, row)
    BY <1>4 DEF KeysLoaded
  <2> HIDE DEF rows, row
  <2>2. CASE InRange(rows, row)
    <3>1. slots' = [slots EXCEPT ![s] = Preview(rows[row + 1])] /\ unasked' = FALSE
      BY <2>1, <2>2 DEF AskPreview, Then
    <3>2. DOMAIN slots' = Slots /\ slots'[s] = Preview(rows[row + 1])
      BY <3>1 DEF PreviewInv
    <3> QED BY <2>1, <3>1, <3>2 DEF PreviewInv, Covered, Row
  <2>3. CASE ~InRange(rows, row)
    <3>1. slots' = [slots EXCEPT ![s] = Free] /\ unasked' = unasked
      BY <2>1, <2>3 DEF AskPreview, Then
    <3>2. ~InRange(keys, selected)'
      BY <2>1, <2>3 DEF InRange
    <3> QED BY <3>1, <3>2 DEF PreviewInv
  <2> QED BY <2>2, <2>3
<1>5. ASSUME NEW s \in Slots, PreviewLoaded(s)
      PROVE  PreviewInv'
  <2>1. /\ slots' = [slots EXCEPT ![s] = Free]
        /\ UNCHANGED <<keys, selected, previewSeq, previewTicks>>
    BY <1>5 DEF PreviewLoaded, Then, list
  <2>2. CASE InRange(keys, selected) /\ Row = slots[s].key
    <3>1. \/ previewKey' = slots[s].key /\ unasked' = unasked
          \/ unasked' = TRUE
      BY <1>5, <2>2 DEF PreviewLoaded, Row
    <3> QED BY <2>1, <2>2, <3>1 DEF PreviewInv, Covered, Row
  <2>3. CASE ~(InRange(keys, selected) /\ Row = slots[s].key)
    <3>1. UNCHANGED <<previewKey, unasked>>
      BY <1>5, <2>3 DEF PreviewLoaded, Row
    <3>2. \A q \in Slots : q # s => slots'[q] = slots[q]
      BY <2>1 DEF PreviewInv
    <3>3. InRange(keys, selected) => slots[s] # Preview(Row)
      BY <2>3 DEF Preview
    <3> QED BY <2>1, <3>1, <3>2, <3>3 DEF PreviewInv, Covered, Row, InRange
  <2> QED BY <2>2, <2>3
<1>6. ASSUME NEW s \in Slots, KeyDeleted(s)
      PROVE  PreviewInv'
  BY <1>6 DEF KeyDeleted, Then, PreviewInv
<1>18. ASSUME NEW s \in Slots, Found(s)
       PROVE  PreviewInv'
  BY <1>18 DEF Found, Then, PreviewInv
<1>19. CASE Tick
  <2>1. unasked' = TRUE /\ slots' = slots
    BY <1>19 DEF Tick
  <2> QED BY <2>1 DEF PreviewInv
<1>20. ASSUME NEW i, Browse(i)
       PROVE  PreviewInv'
  BY <1>20 DEF Browse, PreviewInv
<1>7. ASSUME NEW s \in Slots, Flushed(s) \/ DBSwitched(s) \/ Connected(s)
      PROVE  PreviewInv'
  <2>1. keys' = << >> /\ (selected' = selected \/ selected' = 0)
    BY <1>7 DEF Flushed, DBSwitched, Connected
  <2>2. unasked' = unasked
    BY <1>7 DEF Flushed, DBSwitched, Connected, preview
  <2>3. DOMAIN slots' = Slots
    BY <1>7 DEF Flushed, DBSwitched, Connected, Then, PreviewInv
  <2>4. ~InRange(keys', selected')
    BY <2>1 DEF TypeOK, ListTypes, InRange
  <2>5. (~InRange(keys, selected))'
    BY <2>4 DEF InRange
  <2> QED BY <2>2, <2>3, <2>5 DEF PreviewInv
<1>8. ASSUME UNCHANGED <<keys, selected, preview>>, NEW c, Start(c)
      PROVE  PreviewInv'
  BY <1>8, StartFrees, OtherSlots
<1>9. ASSUME UNCHANGED <<keys, selected, preview, slots>>
      PROVE  PreviewInv'
  BY <1>9, OtherSlots DEF PreviewInv
<1>10. ASSUME NEW s \in Slots, NEW m, slots' = [slots EXCEPT ![s] = m],
              slots[s].op # "preview", UNCHANGED <<keys, selected, preview>>
       PROVE  PreviewInv'
  <2>1. DOMAIN slots' = Slots /\ \A q \in Slots : q # s => slots'[q] = slots[q]
    BY <1>10 DEF PreviewInv
  <2> QED BY <1>10, <2>1, OtherSlots
<1>11. CASE KeyPress
  <2>1. ASSUME NEW t \in Texts, Type(t)
        PROVE  PreviewInv'
    BY <1>9, <2>1 DEF Type, list
  <2>2. CASE FocusFilter \/ AskDelete \/ AskFlush \/ BackToKeys \/ LeaveKeys
    BY <1>9, <2>2 DEF FocusFilter, AskDelete, AskFlush, BackToKeys, LeaveKeys, list
  <2>3. CASE ApplyFilter \/ ClearFilter \/ Refresh \/ LoadMore \/ Confirm
    BY <1>8, <2>3 DEF ApplyFilter, ClearFilter, Refresh, LoadMore, Confirm, list
  <2>4. ASSUME NEW c \in Operations, Submit(c)
        PROVE  PreviewInv'
    BY <1>8, <2>4 DEF Submit, list
  <2> QED BY <1>1, <1>2, <1>11, <1>20, <2>1, <2>2, <2>3, <2>4 DEF KeyPress
<1>12. CASE Timer
  <2>1. ASSUME NEW n \in searchTicks, SearchTick(n)
        PROVE  PreviewInv'
    BY <1>8, <1>9, <2>1 DEF SearchTick
  <2> QED BY <1>3, <1>12, <1>19, <2>1 DEF Timer
<1>13. ASSUME NEW s \in Slots, Command(s)
       PROVE  PreviewInv'
  <2>1. CASE Fail(s)
    BY <1>10, <2>1 DEF Fail, Operations, list
  <2>2. CASE RunLoad(s) \/ RunDelete(s) \/ RunSet(s) \/ RunFlush(s)
    BY <1>10, <2>2 DEF RunLoad, RunDelete, RunSet, RunFlush, Runs, list
  <2>3. CASE RunGoTo(s)
    BY <1>10, <2>3 DEF RunGoTo, Runs, list
  <2>4. CASE RunRename(s) \/ RunBulk(s) \/ RunSearch(s)
    BY <1>10, <2>4 DEF RunRename, RunBulk, RunSearch, Runs, list
  <2> QED BY <1>13, <2>1, <2>2, <2>3, <2>4 DEF Command
<1>14. ASSUME NEW s \in Slots, Message(s)
       PROVE  PreviewInv'
  <2>1. CASE KeySet(s)
    BY <1>10, <2>1 DEF KeySet, Then, list
  <2>2. CASE Reload(s)
    BY <1>10, <2>2 DEF Reload, Then
  <2>3. CASE KeyRenamed(s)
    <3>1. CASE UNCHANGED <<keys, unasked>>
      BY <1>10, <2>3, <3>1 DEF KeyRenamed, Then, preview
    <3>2. CASE unasked' = TRUE
      BY <2>3, <3>2 DEF KeyRenamed, Then, PreviewInv
    <3> QED BY <2>3, <3>1, <3>2 DEF KeyRenamed
  <2> QED BY <1>4, <1>5, <1>6, <1>7, <1>14, <1>18, <2>1, <2>2, <2>3 DEF Message
<1>15. CASE KeyspaceEvent
  BY <1>8, <1>15 DEF KeyspaceEvent, list
<1>16. ASSUME NEW k \in Keys, ExternalChange(k)
       PROVE  PreviewInv'
  BY <1>9, <1>16 DEF ExternalChange, list
<1>17. CASE UNCHANGED vars
  BY <1>9, <1>17 DEF vars, preview
<1> QED BY <1>11, <1>12, <1>13, <1>14, <1>15, <1>16, <1>17 DEF Next

\* Nothing is selected at first.
LEMMA PreviewStarts == Init => PreviewInv
<1> SUFFICES ASSUME Init
             PROVE  PreviewInv
  OBVIOUS
<1>1. ~InRange(keys, selected)
  BY DEF Init, InRange
<1>2. unasked \in BOOLEAN /\ DOMAIN slots = Slots
  BY DEF Init
<1> QED BY <1>1, <1>2 DEF PreviewInv

\* However previews, their timers and reloads of the list overtake each other, the
\* pane comes to rest on the selected row.
THEOREM KeyListPreview == Spec => []PreviewConverges
<1>1. TypeOK /\ PreviewInv /\ [Next]_vars => (TypeOK /\ PreviewInv)'
  BY StepTypes, PreviewKeeps
<1>2. Init => TypeOK /\ PreviewInv
  BY InitTypes, PreviewStarts
<1>3. TypeOK /\ PreviewInv => PreviewConverges
  BY PreviewInvSuffices
<1> QED BY <1>1, <1>2, <1>3, PTL DEF Spec
=============================================================================
