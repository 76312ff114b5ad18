-------------------------- MODULE KeyDetailProofs --------------------------
(***************************************************************************)
(* Proofs about KeyDetail for any keys, TTLs and number of commands under  *)
(* way.                                                                    *)
(***************************************************************************)
EXTENDS KeyDetail, TLAPS, SequenceTheorems

(* Data. *)

\* A row and what the database holds, with another TTL, type or name.
LEMMA RowTypes ==
  ASSUME NEW r \in Rows
  PROVE  /\ r.key \in Keys /\ r.type \in Types /\ r.ttl \in NoExpiry .. MaxTTL
         /\ \A k \in Keys : [r EXCEPT !.key = k] \in Rows
         /\ \A t \in Types : [r EXCEPT !.type = t] \in Rows
         /\ \A t \in NoExpiry .. MaxTTL : [r EXCEPT !.ttl = t] \in Rows
         /\ ElapseRow(r) \in Rows /\ ElapseRow(r).key = r.key /\ ElapseRow(r).type = r.type
BY KeyDetailAssumption DEF Rows, ElapseRow, Elapse, NoExpiry

LEMMA ContentTypes ==
  ASSUME NEW h \in Contents
  PROVE  /\ h.type \in Types /\ h.ttl \in NoExpiry .. MaxTTL
         /\ \A t \in Types \ {"none"} : [h EXCEPT !.type = t] \in Contents
         /\ h # Absent => \A t \in {NoExpiry} \cup 1 .. MaxTTL : [h EXCEPT !.ttl = t] \in Contents
         /\ ElapseHeld(h) \in Contents
BY KeyDetailAssumption DEF Contents, Absent, Types, ElapseHeld, Elapse, NoExpiry

\* A list with the same positions and rows in them.
LEMMA SamePlaces ==
  ASSUME NEW a \in Seq(Rows), NEW b, b = [i \in DOMAIN a |-> b[i]],
         \A i \in DOMAIN a : b[i] \in Rows
  PROVE  b \in Seq(Rows) /\ DOMAIN b = DOMAIN a /\ Len(b) = Len(a)
<1>1. DOMAIN a = 1 .. Len(a) /\ Len(a) \in Nat
  BY LenProperties
<1>2. b \in [1 .. Len(a) -> Rows]
  BY <1>1
<1>3. b \in Seq(Rows)
  BY <1>1, <1>2, SeqDef
<1> QED BY <1>1, <1>2, <1>3, LenProperties

\* A part of a list is a list.
LEMMA PartOf ==
  ASSUME NEW a \in Seq(Rows), NEW m \in Nat \ {0}, NEW n \in Nat, n <= Len(a)
  PROVE  /\ SubSeq(a, m, n) \in Seq(Rows)
         /\ Len(SubSeq(a, m, n)) = IF m <= n THEN n - m + 1 ELSE 0
<1>1. \A i \in m .. n : a[i] \in Rows
  <2>1. Len(a) \in Nat /\ \A i \in m .. n : i \in 1 .. Len(a)
    BY LenProperties
  <2> QED BY <2>1, ElementOfSeq
<1> QED BY <1>1, SubSeqProperties

\* What the pointer points to.
LEMMA TargetType ==
  ASSUME current \in Pointers, IsOpen, NEW a \in Seq(Rows),
         current.at = "array" => current.index \in DOMAIN a
  PROVE  Target(a) \in Rows
<1>1. CASE current.at = "array"
  BY <1>1, LenProperties, ElementOfSeq DEF Target
<1>2. CASE current.at # "array"
  BY <1>2 DEF Target, Pointers, IsOpen, Nil
<1> QED BY <1>1, <1>2

LEMMA OpenType == TypeOK /\ IsOpen => Open \in Rows
BY TargetType DEF TypeOK, ListTypes, PointerTypes, Open

\* Left behind, the array is still there for the pointer into it.
LEMMA LeaveType ==
  ASSUME TypeOK
  PROVE  /\ Leave \in Pointers /\ Leave.at # "array"
         /\ (Leave = Nil) <=> (current = Nil)
         /\ Leave.at = "own" => Leave = current
<1>1. CASE current.at = "array"
  <2>1. IsOpen
    BY <1>1 DEF IsOpen, Nil
  <2> QED BY <1>1, <2>1, OpenType DEF Leave, Loose, Pointers, Nil
<1>2. CASE current.at # "array"
  BY <1>2 DEF Leave, TypeOK, PointerTypes
<1> QED BY <1>1, <1>2

\* Assigning to the open key.
LEMMA AssignTypes ==
  ASSUME TypeOK, IsOpen, NEW r \in Rows, NEW a \in Seq(Rows), DOMAIN a = DOMAIN array,
         Assign(r, a)
  PROVE  /\ array' \in Seq(Rows) /\ DOMAIN array' = DOMAIN array
         /\ PointerTypes' /\ current' # Nil
<1>1. CASE current.at = "array"
  <2>1. array' = [a EXCEPT ![current.index] = r] /\ current' = current
    BY <1>1 DEF Assign
  <2>2. \A i \in DOMAIN a : a[i] \in Rows
    BY LenProperties, ElementOfSeq
  <2>3. \A i \in DOMAIN a : array'[i] \in Rows
    BY <2>1, <2>2
  <2>4. array' = [i \in DOMAIN a |-> array'[i]]
    BY <2>1
  <2>5. array' \in Seq(Rows) /\ DOMAIN array' = DOMAIN array
    BY <2>3, <2>4, SamePlaces
  <2> QED BY <1>1, <2>1, <2>5 DEF TypeOK, PointerTypes, IsOpen
<1>2. CASE current.at # "array"
  <2>1. array' = a /\ current' = [current EXCEPT !.row = r]
    BY <1>2 DEF Assign
  <2>2. current \in [at : {"own", "loose"}, row : Rows]
    BY <1>2 DEF TypeOK, PointerTypes, Pointers, IsOpen, Nil
  <2>3. current' \in [at : {"own", "loose"}, row : Rows]
    BY <2>1, <2>2
  <2> QED BY <2>1, <2>3 DEF PointerTypes, Pointers, Nil
<1> QED BY <1>1, <1>2

(* Types. *)

\* What commands and messages are.
LEMMA CallTypes ==
  /\ {Free, LoadKeys} \subseteq Calls
  /\ \A o \in {"editorQuit", "edited", "copied", "added", "removed"} : [op |-> o] \in Calls
  /\ \A k \in Keys : Value(k) \in Calls
  /\ \A o \in {"value", "add", "remove", "delete", "deleted"}, k \in Keys :
       [op |-> o, key |-> k] \in Calls
  /\ \A k \in Keys, t \in Types : [op |-> "edit", key |-> k, type |-> t] \in Calls
  /\ \A k \in Keys, t \in NoExpiry .. MaxTTL : [op |-> "expire", key |-> k, ttl |-> t] \in Calls
  /\ \A t \in NoExpiry .. MaxTTL : [op |-> "ttlSet", ttl |-> t] \in Calls
  /\ \A o \in {"rename", "renamed", "copy"}, k, l \in Keys :
       [op |-> o, key |-> k, new |-> l] \in Calls
  /\ \A t \in Types : [op |-> "gotValue", type |-> t] \in Calls
  /\ \A rs \in Seq(Rows) : [op |-> "loaded", rows |-> rs] \in Calls
BY DEF Calls, Free, LoadKeys, Value

\* What their fields are.
LEMMA FieldTypes ==
  ASSUME NEW c \in Calls
  PROVE  /\ c.op \in {"value", "add", "remove", "delete", "deleted", "edit", "expire"} => c.key \in Keys
         /\ c.op = "edit" => c.type \in Types
         /\ c.op \in {"expire", "ttlSet"} => c.ttl \in NoExpiry .. MaxTTL
         /\ c.op \in {"rename", "renamed", "copy"} => c.key \in Keys /\ c.new \in Keys
         /\ c.op = "rename" => [c EXCEPT !.op = "renamed"] \in Calls
         /\ c.op = "gotValue" => c.type \in Types
         /\ c.op = "loaded" => c.rows \in Seq(Rows)
BY DEF Calls, Free, LoadKeys

LEMMA SlotTypes ==
  ASSUME TypeOK, NEW c \in Calls, NEW s \in Slots, slots' = [slots EXCEPT ![s] = c]
  PROVE  slots' \in [Slots -> Calls]
BY DEF TypeOK

LEMMA StartTypes ==
  ASSUME TypeOK, NEW c \in Calls, Start(c)
  PROVE  slots' \in [Slots -> Calls] /\ calls' \in 0 .. MaxCalls
<1>1. calls' \in 0 .. MaxCalls
  BY KeyDetailAssumption DEF Start, TypeOK
<1>2. slots' \in [Slots -> Calls]
  BY SlotTypes DEF Start
<1> QED BY <1>1, <1>2

\* The rows of the list are rows.
LEMMA ListRows ==
  ASSUME TypeOK
  PROVE  /\ DOMAIN array = 1 .. Len(array) /\ Len(array) \in Nat /\ count \in Nat
         /\ 1 .. count \subseteq DOMAIN array
         /\ \A i \in DOMAIN array : array[i] \in Rows
<1>1. array \in Seq(Rows) /\ count \in 0 .. Len(array)
  BY DEF TypeOK, ListTypes
<1>2. DOMAIN array = 1 .. Len(array) /\ Len(array) \in Nat
  BY <1>1, LenProperties
<1> QED BY <1>1, <1>2, ElementOfSeq

\* The screen that is shown next has rows of the list at most.
LEMMA ShowTypes ==
  ASSUME TypeOK, NEW sc \in Screens \ {"confirm"}, Show(sc)
  PROVE  ViewTypes'
<1>1. Expiring \subseteq Rows
  BY ListRows DEF Expiring
<1>2. expiring' \in {Expiring, {}} /\ screen' = sc /\ confirm' = None /\ form' = None
  BY DEF Show
<1> HIDE DEF Expiring
<1> QED BY <1>1, <1>2 DEF ViewTypes

\* Key presses keep the types.
LEMMA UserTypes == TypeOK /\ User => TypeOK'
<1> SUFFICES ASSUME TypeOK, User
             PROVE  TypeOK'
  OBVIOUS
<1>1. ASSUME UNCHANGED <<server, list, current, view>>,
             slots' \in [Slots -> Calls], calls' \in 0 .. MaxCalls
      PROVE  TypeOK'
  BY <1>1 DEF TypeOK, ListTypes, PointerTypes, ViewTypes, list, view
<1>2. ASSUME UNCHANGED <<server, list, current, slots, calls>>, ViewTypes'
      PROVE  TypeOK'
  BY <1>2 DEF TypeOK, ListTypes, PointerTypes, list
<1>3. ASSUME NEW sc \in Screens \ {"confirm"}, Show(sc)
      PROVE  ViewTypes'
  BY <1>3, ShowTypes
<1>4. ASSUME NEW f, NEW c \in Calls, Submits(f, c)
      PROVE  TypeOK'
  BY <1>1, <1>4, StartTypes DEF Submits
<1>5. ASSUME NEW i \in 1 .. count, OpenRow(i) \/ OpenElement(i)
      PROVE  TypeOK'
  <2>1. array[i] \in Rows /\ i \in DOMAIN array /\ i \in Nat
    BY ListRows
  <2>2. Value(array[i].key) \in Calls
    BY <2>1, RowTypes, CallTypes
  <2>3. slots' \in [Slots -> Calls] /\ calls' \in 0 .. MaxCalls
    BY <1>5, <2>2, StartTypes DEF OpenRow, OpenElement
  <2>4. UNCHANGED <<server, array, count>>
    BY <1>5 DEF OpenRow, OpenElement, list
  <2>5. PointerTypes'
    BY <1>5, <2>1, <2>4 DEF OpenRow, OpenElement, PointerTypes, Pointers, Own, Element
  <2>6. ViewTypes'
    <3>1. "detail" \in Screens \ {"confirm"}
      BY DEF Screens, Forms
    <3>2. CASE OpenRow(i)
      BY <3>2 DEF OpenRow, TypeOK, ViewTypes, view
    <3>3. CASE OpenElement(i)
      BY <1>3, <3>1, <3>3 DEF OpenElement
    <3> QED BY <1>5, <3>2, <3>3
  <2> QED BY <2>3, <2>4, <2>5, <2>6 DEF TypeOK, ListTypes
<1>15. ASSUME NEW r \in expiring, OpenExpiring(r)
       PROVE  TypeOK'
  <2>1. r \in Rows
    BY DEF TypeOK, ViewTypes
  <2>2. Value(r.key) \in Calls
    BY <2>1, RowTypes, CallTypes
  <2>3. slots' \in [Slots -> Calls] /\ calls' \in 0 .. MaxCalls
    BY <1>15, <2>2, StartTypes DEF OpenExpiring
  <2>4. UNCHANGED <<server, array, count>>
    BY <1>15 DEF OpenExpiring, list
  <2>5. PointerTypes'
    BY <1>15, <2>1, <2>4 DEF OpenExpiring, PointerTypes, Pointers, Own
  <2>6. ViewTypes'
    <3>1. "detail" \in Screens \ {"confirm"}
      BY DEF Screens, Forms
    <3> QED BY <1>3, <1>15, <3>1 DEF OpenExpiring
  <2> QED BY <2>3, <2>4, <2>5, <2>6 DEF TypeOK, ListTypes
<1>6. CASE Reload \/ EditorPosts
  BY <1>1, <1>6, CallTypes, StartTypes DEF Reload, EditorPosts
<1>7. CASE SortRows
  <2>1. PICK f \in [1 .. count -> 1 .. count] :
          array' = [i \in DOMAIN array |-> IF i <= count THEN array[f[i]] ELSE array[i]]
    BY <1>7 DEF SortRows
  <2>2. \A i \in DOMAIN array : array'[i] \in Rows
    BY <2>1, ListRows
  <2>3. array' \in Seq(Rows) /\ DOMAIN array' = DOMAIN array /\ Len(array') = Len(array)
    BY <2>1, <2>2, SamePlaces DEF TypeOK, ListTypes
  <2> QED BY <1>7, <2>3 DEF SortRows, TypeOK, ListTypes, PointerTypes, ViewTypes, view
<1>8. CASE GoOther \/ Back \/ CancelForm \/ Decline
  BY <1>2, <1>3, <1>8 DEF GoOther, Back, CancelForm, Decline, Screens, Forms
<1>9. CASE Close
  BY <1>3, <1>9 DEF Close, Screens, Forms, TypeOK, ListTypes, PointerTypes, Pointers, Nil, list
<1>10. CASE RefreshValue
  BY <1>1, <1>10, OpenType, RowTypes, CallTypes, StartTypes DEF RefreshValue
<1>11. ASSUME NEW f \in Forms, AskForm(f)
       PROVE  TypeOK'
  <2>1. ViewTypes'
    <3>1. Open.key \in Keys
      BY <1>11, OpenType, RowTypes DEF AskForm
    <3>2. screen' = f /\ form' = Open.key /\ confirm' = None /\ expiring' = expiring
      BY <1>11 DEF AskForm
    <3> QED BY <3>1, <3>2 DEF ViewTypes, Screens, Forms, TypeOK
  <2> QED BY <1>2, <1>11, <2>1 DEF AskForm
<1>12. CASE SubmitEdit \/ SubmitTTL \/ SubmitRename \/ SubmitCopy \/ SubmitAdd \/ SubmitRemove
  <2>1. IsOpen
    BY <1>12 DEF SubmitEdit, SubmitTTL, SubmitRename, SubmitCopy, SubmitAdd, SubmitRemove, Submits
  <2>2. Open.key \in Keys /\ Open.type \in Types
    BY <2>1, OpenType, RowTypes
  <2> QED BY <1>4, <1>12, <2>2, CallTypes
       DEF SubmitEdit, SubmitTTL, SubmitRename, SubmitCopy, SubmitAdd, SubmitRemove
<1>13. CASE AskDelete
  <2>1. confirm' \in Keys
    BY <1>13, ListRows, OpenType, RowTypes DEF AskDelete
  <2>2. ViewTypes'
    BY <1>13, <2>1 DEF AskDelete, ViewTypes, Screens, TypeOK
  <2> QED BY <1>2, <1>13, <2>2 DEF AskDelete
<1>14. CASE Confirm
  <2>1. confirm \in Keys
    BY <1>14 DEF Confirm, TypeOK, ViewTypes
  <2> QED BY <1>1, <1>14, <2>1, CallTypes, StartTypes DEF Confirm
<1> QED BY <1>5, <1>6, <1>7, <1>8, <1>9, <1>10, <1>11, <1>12, <1>13, <1>14, <1>15 DEF User

\* The commands keep the types.
LEMMA ServerTypes == \A s \in Slots : TypeOK /\ Server(s) => TypeOK'
<1> SUFFICES ASSUME NEW s \in Slots, TypeOK, Server(s)
             PROVE  TypeOK'
  OBVIOUS
<1>1. ASSUME NEW m \in Calls, Answers(s, m), server' \in [Keys -> Contents]
      PROVE  TypeOK'
  BY <1>1, SlotTypes DEF Answers, TypeOK, ListTypes, PointerTypes, ViewTypes, list, view
<1>2. ASSUME NEW op, NEW k \in Keys, NEW h \in Contents, NEW m \in Calls, RunWrite(s, op, k, h, m)
      PROVE  TypeOK'
  BY <1>1, <1>2 DEF RunWrite, TypeOK
<1>3. slots[s] \in Calls /\ server \in [Keys -> Contents]
  BY DEF TypeOK
<1>4. Absent \in Contents
  BY DEF Contents
<1>5. CASE RunLoad(s)
  <2> DEFINE there == InOrder({k \in Keys : server[k] # Absent})
             rows == [i \in DOMAIN there |-> RowOf(there[i])]
  <2>1. there \in Seq(Keys)
    BY KeyDetailAssumption
  <2>2. DOMAIN there = 1 .. Len(there) /\ Len(there) \in Nat /\ \A i \in DOMAIN there : there[i] \in Keys
    BY <2>1, LenProperties, ElementOfSeq
  <2>3. \A k \in Keys : RowOf(k) \in Rows
    BY <1>3, ContentTypes DEF RowOf, Rows
  <2>4. Answers(s, [op |-> "loaded", rows |-> rows]) /\ server' = server
    BY <1>5 DEF RunLoad
  <2> HIDE DEF there
  <2>5. rows \in [1 .. Len(there) -> Rows]
    BY <2>2, <2>3
  <2>6. rows \in Seq(Rows)
    BY <2>2, <2>5, SeqDef
  <2> QED BY <1>1, <1>3, <2>4, <2>6, CallTypes
<1>6. CASE RunValue(s)
  BY <1>1, <1>3, <1>6, CallTypes, FieldTypes, ContentTypes DEF RunValue
<1>7. CASE RunEdit(s)
  <2>1. slots[s].op = "edit" /\ slots[s].key \in Keys
    BY <1>3, <1>7, FieldTypes DEF RunEdit
  <2>2. [type |-> "string", ttl |-> NoExpiry] \in Contents
    BY DEF Contents, Types
  <2>3. server[slots[s].key].type \in {"json", "none"} =>
          [server[slots[s].key] EXCEPT !.type = "json"] \in Contents
    BY <1>3, <2>1, ContentTypes DEF Types
  <2> QED BY <1>2, <1>7, <2>1, <2>2, <2>3, CallTypes DEF RunEdit
<1>8. CASE RunExpire(s)
  <2> DEFINE k == slots[s].key
             t == slots[s].ttl
             h == IF server[k] = Absent THEN Absent
                    ELSE [server[k] EXCEPT !.ttl = IF t <= 0 THEN NoExpiry ELSE t]
  <2>1. k \in Keys /\ t \in NoExpiry .. MaxTTL
    BY <1>3, <1>8, FieldTypes DEF RunExpire
  <2>2. (IF t <= 0 THEN NoExpiry ELSE t) \in {NoExpiry} \cup 1 .. MaxTTL
    BY <2>1, KeyDetailAssumption DEF NoExpiry
  <2>3. h \in Contents
    BY <1>3, <1>4, <2>1, <2>2, ContentTypes
  <2>4. RunWrite(s, "expire", k, h, [op |-> "ttlSet", ttl |-> t])
    BY <1>8 DEF RunExpire
  <2> HIDE DEF k, t, h
  <2> QED BY <1>2, <2>1, <2>3, <2>4, CallTypes
<1>9. CASE RunRename(s)
  <2>1. slots[s].key \in Keys /\ slots[s].new \in Keys /\ [slots[s] EXCEPT !.op = "renamed"] \in Calls
    BY <1>3, <1>9, FieldTypes DEF RunRename
  <2>2. server' \in [Keys -> Contents]
    BY <1>3, <1>4, <1>9, <2>1 DEF RunRename
  <2> QED BY <1>1, <1>9, <2>1, <2>2 DEF RunRename
<1>10. CASE RunCopy(s)
  <2>1. slots[s].key \in Keys /\ slots[s].new \in Keys
    BY <1>3, <1>10, FieldTypes DEF RunCopy
  <2> QED BY <1>2, <1>3, <1>10, <2>1, CallTypes DEF RunCopy
<1>11. CASE RunAdd(s)
  <2>1. slots[s].key \in Keys
    BY <1>3, <1>11, FieldTypes DEF RunAdd
  <2>2. [server[slots[s].key] EXCEPT !.type = "list"] \in Contents
    BY <1>3, <2>1, ContentTypes DEF Types
  <2> QED BY <1>2, <1>11, <2>1, <2>2, CallTypes DEF RunAdd
<1>12. CASE RunRemove(s)
  <2>1. slots[s].key \in Keys
    BY <1>3, <1>12, FieldTypes DEF RunRemove
  <2> QED BY <1>2, <1>3, <1>4, <1>12, <2>1, CallTypes DEF RunRemove
<1>13. CASE RunDelete(s)
  <2>1. slots[s].key \in Keys
    BY <1>3, <1>13, FieldTypes DEF RunDelete
  <2> QED BY <1>2, <1>4, <1>13, <2>1, CallTypes DEF RunDelete
<1>14. CASE Fail(s)
  BY <1>14, CallTypes, SlotTypes DEF Fail, TypeOK, ListTypes, PointerTypes, ViewTypes, list, view
<1> QED BY <1>5, <1>6, <1>7, <1>8, <1>9, <1>10, <1>11, <1>12, <1>13, <1>14 DEF Server

\* A page of keys keeps the types, in its own array or in the one that is there.
LEMMA KeysLoadedTypes == \A s \in Slots : TypeOK /\ KeysLoaded(s) => ListTypes' /\ PointerTypes'
<1> SUFFICES ASSUME NEW s \in Slots, TypeOK, KeysLoaded(s)
             PROVE  ListTypes' /\ PointerTypes'
  OBVIOUS
<1> DEFINE rows == slots[s].rows
           kept == SubSeq(array, 1, count)
           stale == SubSeq(array, count + Len(rows) + 1, Len(array))
<1>1. rows \in Seq(Rows) /\ Len(rows) \in Nat
  BY FieldTypes, LenProperties DEF KeysLoaded, TypeOK
<1>2. /\ array \in Seq(Rows) /\ Len(array) \in Nat /\ DOMAIN array = 1 .. Len(array)
      /\ count \in 0 .. Len(array) /\ count \in Nat
  BY ListRows DEF TypeOK, ListTypes
<1>3. kept \in Seq(Rows) /\ Len(kept) = count
  BY <1>2, PartOf
<1>4. /\ stale \in Seq(Rows) /\ Len(stale) \in Nat
      /\ Len(array) <= count + Len(rows) + Len(stale)
  <2> DEFINE m == count + Len(rows) + 1
  <2>1. m \in Nat \ {0}
    BY <1>1, <1>2
  <2> HIDE DEF rows
  <2>2. stale \in Seq(Rows) /\ Len(stale) = IF m <= Len(array) THEN Len(array) - m + 1 ELSE 0
    BY <1>2, <2>1, PartOf
  <2>3. Len(array) \in Nat /\ count \in Nat /\ Len(rows) \in Nat
    BY <1>1, <1>2
  <2> HIDE DEF stale, kept
  <2>4. CASE m <= Len(array)
    <3>1. Len(stale) = Len(array) - m + 1
      BY <2>2, <2>4
    <3> QED BY <2>2, <2>3, <2>4, <3>1
  <2>5. CASE ~(m <= Len(array))
    <3>1. Len(stale) = 0
      BY <2>2, <2>5
    <3> QED BY <2>2, <2>3, <2>5, <3>1
  <2> QED BY <2>4, <2>5
<1>5. /\ kept \o rows \in Seq(Rows) /\ Len(kept \o rows) = count + Len(rows)
      /\ kept \o rows \o stale \in Seq(Rows)
      /\ Len(kept \o rows \o stale) = count + Len(rows) + Len(stale)
  <2> HIDE DEF rows, kept, stale
  <2>1. kept \o rows \in Seq(Rows) /\ Len(kept \o rows) = count + Len(rows)
    BY <1>1, <1>3, ConcatProperties
  <2> QED BY <1>4, <2>1, ConcatProperties
<1> HIDE DEF rows, kept, stale
<1>6. \/ array' = rows /\ count' = Len(rows) /\ current' = Leave
      \/ /\ count' = count + Len(rows)
         /\ \/ array' = kept \o rows /\ current' = Leave
            \/ array' = kept \o rows \o stale /\ UNCHANGED current
  BY DEF KeysLoaded, rows, kept, stale
<1>7. ListTypes'
  <2>1. array' \in Seq(Rows)
    BY <1>1, <1>5, <1>6
  <2>2. count' \in 0 .. Len(array')
    BY <1>1, <1>2, <1>4, <1>5, <1>6
  <2> QED BY <2>1, <2>2 DEF ListTypes
<1>8. CASE current' = Leave
  BY <1>7, <1>8, LeaveType DEF PointerTypes
<1>9. CASE array' = kept \o rows \o stale /\ UNCHANGED current
  <2>1. Len(array) <= Len(array') /\ Len(array') \in Nat /\ DOMAIN array' = 1 .. Len(array')
    BY <1>1, <1>2, <1>4, <1>5, <1>9, LenProperties
  <2> QED BY <1>2, <1>7, <1>9, <2>1 DEF TypeOK, PointerTypes
<1> QED BY <1>6, <1>7, <1>8, <1>9

\* The messages keep the types.
LEMMA UpdateTypes == \A s \in Slots : TypeOK /\ Update(s) => TypeOK'
<1> SUFFICES ASSUME NEW s \in Slots, TypeOK, Update(s)
             PROVE  TypeOK'
  OBVIOUS
<1>1. slots[s] \in Calls
  BY DEF TypeOK
<1>2. ASSUME NEW c \in Calls, Then(s, c)
      PROVE  slots' \in [Slots -> Calls] /\ calls' \in 0 .. MaxCalls
  BY <1>2, SlotTypes DEF Then, TypeOK
<1>3. ASSUME NEW sc \in Screens \ {"confirm"}, Show(sc)
      PROVE  ViewTypes'
  BY <1>3, ShowTypes
<1>4. Free \in Calls /\ LoadKeys \in Calls /\ (IsOpen => Value(Open.key) \in Calls)
  BY CallTypes, OpenType, RowTypes
<1>5. {"detail", "keys"} \subseteq Screens \ {"confirm"}
  BY DEF Screens, Forms
<1>6. ASSUME NEW r \in Rows, IsOpen, NEW a \in Seq(Rows), DOMAIN a = DOMAIN array, Assign(r, a),
             UNCHANGED count
      PROVE  ListTypes' /\ PointerTypes'
  <2>1. array' \in Seq(Rows) /\ DOMAIN array' = DOMAIN array /\ PointerTypes'
    BY <1>6, AssignTypes
  <2>2. Len(array') = Len(array)
    <3>1. 1 .. Len(array') = 1 .. Len(array) /\ Len(array') \in Nat /\ Len(array) \in Nat
      BY <2>1, LenProperties DEF TypeOK, ListTypes
    <3> QED BY <3>1
  <2> QED BY <1>6, <2>1, <2>2 DEF ListTypes, TypeOK
<1>7. ASSUME UNCHANGED <<list, current>>
      PROVE  ListTypes' /\ PointerTypes'
  BY <1>7 DEF TypeOK, ListTypes, PointerTypes, list
<1>8. CASE KeysLoaded(s)
  BY <1>2, <1>4, <1>8, KeysLoadedTypes DEF KeysLoaded, TypeOK, ViewTypes, view
<1>9. CASE ValueLoaded(s)
  <2>1. slots[s].type \in Types
    BY <1>1, <1>9, FieldTypes DEF ValueLoaded
  <2>2. ListTypes' /\ PointerTypes'
    <3>1. CASE IsOpen
      <4>1. Assign([Open EXCEPT !.type = slots[s].type], array) /\ UNCHANGED count
        BY <1>9, <3>1 DEF ValueLoaded
      <4>2. [Open EXCEPT !.type = slots[s].type] \in Rows
        BY <2>1, <3>1, OpenType, RowTypes
      <4> QED BY <1>6, <3>1, <4>1, <4>2 DEF TypeOK, ListTypes
    <3>2. CASE ~IsOpen
      BY <1>7, <1>9, <3>2 DEF ValueLoaded, list
    <3> QED BY <3>1, <3>2
  <2> QED BY <1>2, <1>3, <1>4, <1>5, <1>9, <2>2 DEF ValueLoaded, TypeOK
<1>10. CASE EditorQuits(s)
  BY <1>2, <1>3, <1>4, <1>5, <1>7, <1>10 DEF EditorQuits, TypeOK
<1>11. CASE Written(s)
  <2>1. (IF IsOpen THEN Value(Open.key) ELSE Free) \in Calls
    BY <1>4
  <2>2. ViewTypes'
    BY <1>3, <1>5, <1>11 DEF Written, TypeOK, ViewTypes, view
  <2> QED BY <1>2, <1>7, <1>11, <2>1, <2>2 DEF Written, TypeOK
<1>12. CASE Copied(s)
  BY <1>2, <1>3, <1>4, <1>5, <1>7, <1>12 DEF Copied, TypeOK
<1>13. CASE Renamed(s)
  <2>1. slots[s].key \in Keys /\ slots[s].new \in Keys
    BY <1>1, <1>13, FieldTypes DEF Renamed
  <2>2. ListTypes' /\ PointerTypes'
    <3>1. CASE IsOpen
      <4> DEFINE new == slots[s].new
                 named == IF current.at = "array" THEN [array EXCEPT ![current.index].key = new] ELSE array
      <4>1. named \in Seq(Rows) /\ DOMAIN named = DOMAIN array /\ Len(named) = Len(array)
        <5>1. named = [i \in DOMAIN array |-> named[i]]
          <6>1. array = [i \in DOMAIN array |-> array[i]]
            BY SeqDef DEF TypeOK, ListTypes
          <6>2. current.at = "array" => named = [i \in DOMAIN array |-> named[i]]
            OBVIOUS
          <6> QED BY <6>1, <6>2
        <5>2. \A i \in DOMAIN array : named[i] \in Rows
          BY <2>1, ListRows, RowTypes
        <5>3. array \in Seq(Rows)
          BY DEF TypeOK, ListTypes
        <5> HIDE DEF named
        <5> QED BY <5>1, <5>2, <5>3, SamePlaces
      <4> HIDE DEF named
      <4>2. PICK first : array' = [i \in DOMAIN named |->
                                     IF first[i] THEN [named[i] EXCEPT !.key = new] ELSE named[i]]
        <5> DEFINE rows == {i \in 1 .. count : named[i].key = slots[s].key}
        <5> WITNESS [i \in DOMAIN named |-> i \in rows /\ \A j \in rows : i <= j]
        <5> QED BY <1>13, <3>1 DEF Renamed, named
      <4>3. \A i \in DOMAIN named : array'[i] \in Rows
        <5>1. \A i \in DOMAIN named : named[i] \in Rows
          BY <4>1, LenProperties, ElementOfSeq
        <5> QED BY <2>1, <4>2, <5>1, RowTypes
      <4>4. array' \in Seq(Rows) /\ DOMAIN array' = DOMAIN array /\ Len(array') = Len(array)
        BY <4>1, <4>2, <4>3, SamePlaces
      <4>5. current' = (IF current.at = "array" THEN current ELSE [current EXCEPT !.row.key = new])
            /\ count' = count
        BY <1>13, <3>1 DEF Renamed
      <4>6. current.at # "array" => current' \in [at : {"own", "loose"}, row : Rows]
        <5>1. current.at # "array" => current \in [at : {"own", "loose"}, row : Rows]
          BY <3>1 DEF TypeOK, PointerTypes, Pointers, IsOpen, Nil
        <5> QED BY <2>1, <4>5, <5>1, RowTypes
      <4>7. PointerTypes'
        BY <4>4, <4>5, <4>6 DEF TypeOK, PointerTypes, Pointers
      <4> QED BY <4>4, <4>5, <4>7 DEF TypeOK, ListTypes
    <3>2. CASE ~IsOpen
      BY <1>7, <1>13, <3>2 DEF Renamed, list
    <3> QED BY <3>1, <3>2
  <2> QED BY <1>2, <1>3, <1>4, <1>5, <1>13, <2>2 DEF Renamed, TypeOK
<1>14. CASE TTLSet(s)
  <2>1. slots[s].ttl \in NoExpiry .. MaxTTL
    BY <1>1, <1>14, FieldTypes DEF TTLSet
  <2>2. ListTypes' /\ PointerTypes'
    <3>1. CASE IsOpen
      <4> DEFINE timed == [i \in DOMAIN array |->
                             IF IsFirst(i, Open.key)
                               THEN [array[i] EXCEPT !.ttl = slots[s].ttl] ELSE array[i]]
      <4>1. Assign([Open EXCEPT !.ttl = slots[s].ttl], timed) /\ UNCHANGED count
        BY <1>14, <3>1 DEF TTLSet
      <4>2. [Open EXCEPT !.ttl = slots[s].ttl] \in Rows
        BY <2>1, <3>1, OpenType, RowTypes
      <4>3. \A i \in DOMAIN array : timed[i] \in Rows
        BY <2>1, ListRows, RowTypes
      <4>4. timed \in Seq(Rows) /\ DOMAIN timed = DOMAIN array
        BY <4>3, SamePlaces DEF TypeOK, ListTypes
      <4> QED BY <1>6, <3>1, <4>1, <4>2, <4>4
    <3>2. CASE ~IsOpen
      BY <1>7, <1>14, <3>2 DEF TTLSet, list
    <3> QED BY <3>1, <3>2
  <2> QED BY <1>2, <1>3, <1>4, <1>5, <1>14, <2>2 DEF TTLSet, TypeOK
<1>15. CASE Deleted(s)
  <2> DEFINE gone == {i \in 1 .. count : IsFirst(i, slots[s].key)}
  <2>1. ListTypes'
    <3>1. CASE gone = {}
      BY <1>15, <3>1 DEF Deleted, TypeOK, ListTypes, list
    <3>2. CASE gone # {}
      <4>1. PICK g \in gone :
              /\ array' = [i \in DOMAIN array |->
                             IF i \in g .. count - 1 THEN array[i + 1] ELSE array[i]]
              /\ count' = count - 1
        BY <1>15, <3>2 DEF Deleted
      <4>2. g \in 1 .. count /\ count \in Nat /\ count \in 0 .. Len(array) /\ Len(array) \in Nat
        BY ListRows DEF TypeOK, ListTypes
      <4>3. \A i \in DOMAIN array : array'[i] \in Rows
        BY <4>1, <4>2, ListRows
      <4>4. array' \in Seq(Rows) /\ Len(array') = Len(array)
        BY <4>1, <4>3, SamePlaces DEF TypeOK, ListTypes
      <4> QED BY <4>1, <4>2, <4>4 DEF ListTypes
    <3> QED BY <3>1, <3>2
  <2>2. PointerTypes'
    BY <1>15 DEF Deleted, PointerTypes, Pointers, Nil
  <2> QED BY <1>2, <1>3, <1>4, <1>5, <1>15, <2>1, <2>2 DEF Deleted, TypeOK
<1> QED BY <1>8, <1>9, <1>10, <1>11, <1>12, <1>13, <1>14, <1>15 DEF Update

\* What a second does to the pointer, and to the array.
Ticked ==
  IF current.at \in {"own", "loose"} THEN [current EXCEPT !.row = ElapseRow(@)] ELSE current

LEMMA TickEffect ==
  ASSUME TypeOK, Tick
  PROVE  /\ array' \in Seq(Rows) /\ DOMAIN array' = DOMAIN array /\ Len(array') = Len(array)
         /\ count' \in 0 .. count
         /\ \/ current' = Ticked /\ UNCHANGED view
            \/ current' = Nil /\ Show("keys")
         /\ UNCHANGED <<slots, calls>>
         /\ server' = [k \in Keys |-> ElapseHeld(server[k])]
<1> DEFINE once == IF current.at = "array" THEN [array EXCEPT ![current.index] = ElapseRow(@)] ELSE array
           aged == [i \in DOMAIN once |-> IF i <= count THEN ElapseRow(once[i]) ELSE once[i]]
<1>1. array \in Seq(Rows) /\ count \in Nat /\ (\A i \in DOMAIN array : array[i] \in Rows)
  BY ListRows DEF TypeOK, ListTypes
<1>2. DOMAIN once = DOMAIN array /\ \A i \in DOMAIN array : once[i] \in Rows
  BY <1>1, RowTypes
<1>3. DOMAIN aged = DOMAIN array /\ \A i \in DOMAIN array : aged[i] \in Rows
  BY <1>2, RowTypes
<1>0. PICK n \in 0 .. count : \E f \in [1 .. n -> 1 .. count] :
        /\ array' = [i \in DOMAIN aged |-> IF i <= n THEN aged[f[i]] ELSE aged[i]]
        /\ \E expired \in BOOLEAN : CloseOr(expired, Ticked)
        /\ count' = n
  BY DEF Tick, Ticked
<1>4. PICK f \in [1 .. n -> 1 .. count] :
        /\ array' = [i \in DOMAIN aged |-> IF i <= n THEN aged[f[i]] ELSE aged[i]]
        /\ \E expired \in BOOLEAN : CloseOr(expired, Ticked)
        /\ count' = n
  BY <1>0
<1> HIDE DEF aged
<1>5. \A i \in DOMAIN array : array'[i] \in Rows
  <2>1. \A i \in DOMAIN array : i <= n => f[i] \in DOMAIN array
    <3>1. DOMAIN array = 1 .. Len(array) /\ Len(array) \in Nat /\ 1 .. count \subseteq DOMAIN array
      BY ListRows
    <3> QED BY <3>1
  <2> QED BY <1>3, <1>4, <2>1
<1>6. array' \in Seq(Rows) /\ DOMAIN array' = DOMAIN array /\ Len(array') = Len(array)
  <2>1. array' = [i \in DOMAIN array |-> array'[i]]
    BY <1>3, <1>4
  <2> QED BY <1>1, <1>5, <2>1, SamePlaces
<1>7. \/ current' = Ticked /\ UNCHANGED view
      \/ current' = Nil /\ Show("keys")
  BY <1>4 DEF CloseOr
<1>8. UNCHANGED <<slots, calls>> /\ server' = [k \in Keys |-> ElapseHeld(server[k])]
  BY DEF Tick
<1> QED BY <1>1, <1>4, <1>6, <1>7, <1>8

LEMMA TickedType ==
  ASSUME TypeOK
  PROVE  /\ Ticked \in Pointers /\ Ticked.at = current.at
         /\ Ticked.at = "array" => Ticked.index = current.index
         /\ (Ticked = Nil) <=> (current = Nil)
         /\ Ticked.at = "own" => Ticked.row.key = current.row.key /\ Ticked.row.type = current.row.type
<1>1. CASE current.at \in {"own", "loose"}
  <2>1. current \in [at : {"own", "loose"}, row : Rows]
    BY <1>1 DEF TypeOK, PointerTypes, Pointers, Nil
  <2>2. Ticked \in [at : {"own", "loose"}, row : Rows] /\ Ticked.at = current.at
        /\ Ticked.row = ElapseRow(current.row)
    BY <1>1, <2>1, RowTypes DEF Ticked
  <2>3. Ticked.row.key = current.row.key /\ Ticked.row.type = current.row.type
    BY <2>1, <2>2, RowTypes
  <2> QED BY <1>1, <2>2, <2>3 DEF Pointers, Nil
<1>2. CASE current.at \notin {"own", "loose"}
  BY <1>2 DEF Ticked, TypeOK, PointerTypes
<1> QED BY <1>1, <1>2

LEMMA TickTypes == TypeOK /\ Tick => TypeOK'
<1> SUFFICES ASSUME TypeOK, Tick
             PROVE  TypeOK'
  OBVIOUS
<1>1. server' \in [Keys -> Contents]
  BY TickEffect, ContentTypes DEF TypeOK
<1>2. ListTypes'
  BY TickEffect, ListRows DEF TypeOK, ListTypes
<1>3. PointerTypes'
  <2>1. CASE current' = Ticked
    BY <2>1, TickEffect, TickedType DEF TypeOK, PointerTypes
  <2>2. CASE current' = Nil
    BY <2>2 DEF PointerTypes, Pointers, Nil
  <2> QED BY <2>1, <2>2, TickEffect
<1>4. ViewTypes'
  BY TickEffect DEF Show, view, TypeOK, ViewTypes, Screens, Forms
<1> QED BY <1>1, <1>2, <1>3, <1>4, TickEffect DEF TypeOK

LEMMA InitTypes == Init => TypeOK
<1> SUFFICES ASSUME Init
             PROVE  TypeOK
  OBVIOUS
<1>1. server \in [Keys -> Contents]
  BY KeyDetailAssumption DEF Init
<1>2. ListTypes
  BY EmptySeq DEF Init, ListTypes
<1> QED BY <1>1, <1>2, KeyDetailAssumption, CallTypes
     DEF Init, TypeOK, PointerTypes, Pointers, Nil, ViewTypes, Screens, Forms

LEMMA StepTypes == TypeOK /\ [Next]_vars => TypeOK'
<1> SUFFICES ASSUME TypeOK, [Next]_vars
             PROVE  TypeOK'
  OBVIOUS
<1>1. CASE Next
  BY <1>1, UserTypes, ServerTypes, UpdateTypes, TickTypes DEF Next
<1>2. CASE UNCHANGED vars
  BY <1>2 DEF vars, TypeOK, ListTypes, PointerTypes, ViewTypes, list, view
<1> QED BY <1>1, <1>2

\* Whatever late results and ticks do to the open key and to the array of the list, the
\* variables keep their types, and the pointer into the array stays inside it.
THEOREM KeyDetailTypes == Spec => []TypeOK
<1> QED BY InitTypes, StepTypes, PTL DEF Spec

(* The forms.  Each of the three properties is kept by every step that closes the form, and *)
(* by every step that leaves it open and the key as it is.                                  *)

FormsOK == FormHasKey /\ FormKeepsKey /\ EditsText

LEMMA ClosedForm == screen' \notin Forms => FormsOK'
BY DEF FormsOK, FormHasKey, FormKeepsKey, EditsText, Forms

LEMMA SameForm ==
  ASSUME FormsOK, UNCHANGED <<screen, form>>,
         current' = Nil => current = Nil,
         current'.at = "own" =>
           /\ current.at = "own"
           /\ current'.row.key = current.row.key /\ current'.row.type = current.row.type
  PROVE  FormsOK'
BY DEF FormsOK, FormHasKey, FormKeepsKey, EditsText, IsOpen

LEMMA StepKeepsForms == TypeOK /\ FormsOK /\ [Next]_vars => FormsOK'
<1> SUFFICES ASSUME TypeOK, FormsOK, [Next]_vars
             PROVE  FormsOK'
  OBVIOUS
<1>1. ASSUME UNCHANGED <<current, view>>
      PROVE  FormsOK'
  BY <1>1, SameForm DEF view
<1>2. ASSUME Show("detail") \/ Show("keys") \/ Show("other")
      PROVE  FormsOK'
  BY <1>2, ClosedForm DEF Show, Forms
<1>3. CASE User
  <2>1. CASE Reload \/ SortRows \/ RefreshValue \/ EditorPosts \/ Confirm
    BY <1>1, <2>1 DEF Reload, SortRows, RefreshValue, EditorPosts, Confirm
  <2>2. CASE SubmitEdit \/ SubmitTTL \/ SubmitRename \/ SubmitCopy \/ SubmitAdd \/ SubmitRemove
    BY <1>1, <2>2
       DEF SubmitEdit, SubmitTTL, SubmitRename, SubmitCopy, SubmitAdd, SubmitRemove, Submits
  <2>3. CASE GoOther \/ Back \/ Close \/ CancelForm \/ Decline
    BY <1>2, <2>3 DEF GoOther, Back, Close, CancelForm, Decline
  <2>4. CASE AskDelete
    BY <2>4, ClosedForm DEF AskDelete, Forms
  <2>5. ASSUME NEW i \in 1 .. count, OpenRow(i) \/ OpenElement(i)
        PROVE  FormsOK'
    <3>1. CASE OpenRow(i)
      BY <3>1, ClosedForm DEF OpenRow, view, Forms
    <3>2. CASE OpenElement(i)
      BY <1>2, <3>2 DEF OpenElement
    <3> QED BY <2>5, <3>1, <3>2
  <2>7. ASSUME NEW r \in expiring, OpenExpiring(r)
        PROVE  FormsOK'
    BY <1>2, <2>7 DEF OpenExpiring
  <2>6. ASSUME NEW f \in Forms, AskForm(f)
        PROVE  FormsOK'
    <3>1. current.at = "own" => Open = current.row
      BY DEF Open, Target
    <3>2. IsOpen /\ screen' = f /\ form' = Open.key /\ current' = current
          /\ (f = "edit" => Open.type \in Editable)
      BY <2>6 DEF AskForm
    <3> QED BY <3>1, <3>2 DEF FormsOK, FormHasKey, FormKeepsKey, EditsText, IsOpen
  <2> QED BY <1>3, <2>1, <2>2, <2>3, <2>4, <2>5, <2>6, <2>7 DEF User
<1>4. ASSUME NEW s \in Slots, Server(s)
      PROVE  FormsOK'
  BY <1>1, <1>4 DEF Server, RunLoad, RunValue, RunEdit, RunExpire, RunRename, RunCopy, RunAdd,
     RunRemove, RunDelete, Fail, RunWrite, Answers
<1>5. ASSUME NEW s \in Slots, Update(s)
      PROVE  FormsOK'
  <2>1. CASE KeysLoaded(s)
    <3>1. current' \in {current, Leave} /\ UNCHANGED view
      BY <2>1 DEF KeysLoaded
    <3> QED BY <3>1, LeaveType, SameForm DEF view
  <2>2. CASE ValueLoaded(s) \/ EditorQuits(s) \/ Copied(s) \/ Renamed(s) \/ TTLSet(s) \/ Deleted(s)
    BY <1>2, <2>2 DEF ValueLoaded, EditorQuits, Copied, Renamed, TTLSet, Deleted
  <2>3. CASE Written(s)
    BY <1>1, <1>2, <2>3 DEF Written
  <2> QED BY <1>5, <2>1, <2>2, <2>3 DEF Update
<1>6. CASE Tick
  <2>1. CASE current' = Ticked /\ UNCHANGED view
    BY <2>1, TickedType, SameForm DEF view
  <2>2. CASE Show("keys")
    BY <1>2, <2>2
  <2> QED BY <1>6, <2>1, <2>2, TickEffect
<1>7. CASE UNCHANGED vars
  BY <1>1, <1>7 DEF vars, view
<1> QED BY <1>3, <1>4, <1>5, <1>6, <1>7 DEF Next

\* The three properties of the forms, which a reader will find stated one by one below.
THEOREM KeyDetailForms == Spec => []FormsOK
<1>1. Init => FormsOK
  BY DEF Init, FormsOK, FormHasKey, FormKeepsKey, EditsText, Forms
<1> QED BY <1>1, InitTypes, StepTypes, StepKeepsForms, PTL DEF Spec

\* A form on the screen acts on an open key, whatever ticks and deletes close it.
THEOREM KeyDetailFormHasKey == Spec => []FormHasKey
BY KeyDetailForms, PTL DEF FormsOK

\* While a form is open no message gives the key opened from the list, a copy of its row,
\* another name.
THEOREM KeyDetailFormKeepsKey == Spec => []FormKeepsKey
BY KeyDetailForms, PTL DEF FormsOK

\* The editor is on a string or a document, as long as the key is a copy of its row; with a
\* pointer into the list a tick or a page may put a row of any type under it.
THEOREM KeyDetailEditsText == Spec => []EditsText
BY KeyDetailForms, PTL DEF FormsOK
=============================================================================
