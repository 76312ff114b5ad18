----------------------------- MODULE KeyDetail -----------------------------
(***************************************************************************)
(* internal/ui: the open key (CurrentKey), its detail screen and the forms *)
(* opened from it, with the TTLs that TickMsg counts down.  CurrentKey is  *)
(* a pointer: to a copy of a row when the key is opened from the list, and *)
(* to the element of m.Keys itself when it is opened from the favorites,   *)
(* the recent keys or the tree.  The array under m.Keys is compacted in    *)
(* place.  Values are abstracted to their types, and the rows have theirs  *)
(* from the scan.  A slot is a goroutine: its command, then its message.   *)
(***************************************************************************)
EXTENDS Integers, SequencesExt

CONSTANTS Keys,      \* names of Redis keys
          None,
          InOrder(_),\* the keys of a set in the order SCAN returns them
          Slots,     \* goroutines that may run at a time
          \* bounds on what a run may do
          AtStart,   \* what the database may hold at first
          MaxTTL,    \* seconds a key may be given
          MaxRows,   \* rows the list may grow to
          MayFail,   \* commands may fail
          MaxCalls   \* commands the user may start

\* A list stands for every type that is neither; "none" is what TYPE says of a key
\* that is not there.
Types == {"string", "json", "list", "none"}
Editable == {"string", "json"}
NoExpiry == -1
Rows == [key : Keys, type : Types, ttl : NoExpiry .. MaxTTL]
Absent == [type |-> "none", ttl |-> NoExpiry]

Contents == {Absent} \cup [type : Types \ {"none"}, ttl : {NoExpiry} \cup 1 .. MaxTTL]

ASSUME KeyDetailAssumption ==
  /\ None \notin Keys
  /\ MaxTTL \in Nat /\ MaxRows \in Nat /\ MayFail \in BOOLEAN /\ MaxCalls \in Nat
  /\ AtStart \subseteq [Keys -> Contents]
  /\ \A S \in SUBSET Keys : InOrder(S) \in Seq(Keys)

\* The forms that act on the open key.
Forms == {"edit", "ttl", "rename", "copy", "add", "remove"}
Screens == Forms \cup {"keys", "detail", "confirm", "other"}

VARIABLES server,  \* key -> what the database holds under it
          array,   \* the array under Model.Keys
          count,   \* len(Model.Keys): its rows are the first ones of array
          current, \* Model.CurrentKey: see Pointers
          screen,  \* Model.Screen; "other" for all that are not about one key
          expiring, \* Model.ExpiringKeys while its screen may be shown, else {}
          confirm, \* Model.ConfirmData while the dialog is open
          form,    \* history: the key whose form is open
          slots,   \* the commands and messages under way
          calls    \* how many commands the user has started

list == <<array, count>>
view == <<screen, expiring, confirm, form>>
vars == <<server, array, count, current, screen, expiring, confirm, form, slots, calls>>

\* nil; a copy of a row; an element of array; an element of an array m.Keys has left.
Nil == [at |-> "nil"]
Own(r) == [at |-> "own", row |-> r]
Element(i) == [at |-> "array", index |-> i]
Loose(r) == [at |-> "loose", row |-> r]
Pointers == {Nil} \cup [at : {"array"}, index : Nat] \cup [at : {"own", "loose"}, row : Rows]

IsOpen == current # Nil

\* *CurrentKey, when the array is a.
Target(a) == IF current.at = "array" THEN a[current.index] ELSE current.row
Open == Target(array)

\* *CurrentKey = r, leaving array a.
Assign(r, a) ==
  IF current.at = "array"
    THEN array' = [a EXCEPT ![current.index] = r] /\ UNCHANGED current
    ELSE array' = a /\ current' = [current EXCEPT !.row = r]

\* The array m.Keys used so far is left behind.
Leave == IF current.at = "array" THEN Loose(Open) ELSE current

\* The loops of the handlers stop at the first row of key k.
IsFirst(i, k) ==
  /\ i \in 1 .. count /\ array[i].key = k
  /\ \A j \in 1 .. i - 1 : array[j].key # k

Free == [op |-> "free"]
Value(k) == [op |-> "value", key |-> k]
LoadKeys == [op |-> "load"]

\* A handler returns command c, which starts in an idle slot.
Start(c) ==
  /\ calls < MaxCalls /\ calls' = calls + 1
  /\ \E s \in Slots : slots[s] = Free /\ slots' = [slots EXCEPT ![s] = c]

\* ctrl+x on the list copies the rows that expire to the screen that is shown next.
Expiring == {array[i] : i \in {j \in 1 .. count : array[j].ttl > 0}}

\* Another screen is shown; a form or dialog that was open is closed.
Show(s) ==
  /\ screen' = s /\ confirm' = None /\ form' = None
  /\ expiring' = IF s = "other" /\ screen = "keys" THEN Expiring ELSE {}

Init ==
  /\ server \in AtStart
  /\ array = << >> /\ count = 0
  /\ current = Nil
  /\ screen = "keys" /\ expiring = {} /\ confirm = None /\ form = None
  /\ slots = [s \in Slots |-> Free] /\ calls = 0

------------------------------------------------------------------------------
(* The list and the screens beside it *)

\* "r", and whatever else loads the list.
Reload ==
  /\ screen = "keys"
  /\ Start(LoadKeys)
  /\ UNCHANGED <<server, list, current, view>>

\* enter: the list stays on the screen until the value is there.
OpenRow(i) ==
  /\ screen = "keys"
  /\ current' = Own(array[i])
  /\ Start(Value(array[i].key))
  /\ UNCHANGED <<server, list, view>>

\* enter on a favorite, a recent key or a leaf of the tree: the first row of its key.
OpenElement(i) ==
  /\ screen = "other"
  /\ IsFirst(i, array[i].key)
  /\ current' = Element(i)
  /\ Show("detail")
  /\ Start(Value(array[i].key))
  /\ UNCHANGED <<server, list>>

\* enter on the expiring-keys screen: its rows are as they were when it was opened.
OpenExpiring(r) ==
  /\ screen = "other"
  /\ current' = Own(r)
  /\ Show("detail")
  /\ Start(Value(r.key))
  /\ UNCHANGED <<server, list>>

\* "s" and "S" sort the array in place; by type and TTL the rows may land anywhere.
SortRows ==
  /\ screen = "keys"
  /\ \E f \in [1 .. count -> 1 .. count] :
       /\ \A i, j \in 1 .. count : f[i] = f[j] => i = j
       /\ array' = [i \in DOMAIN array |-> IF i <= count THEN array[f[i]] ELSE array[i]]
  /\ UNCHANGED <<server, count, current, view, slots, calls>>

\* Another screen: on a key, or when a result for it arrives, whatever is on now.
GoOther ==
  /\ screen # "other"
  /\ Show("other")
  /\ UNCHANGED <<server, list, current, slots, calls>>

\* Most lead back to the list; value history, JSON path and watch to the detail screen,
\* where there may be no open key by then.
Back ==
  /\ screen = "other"
  /\ Show("keys") \/ Show("detail")
  /\ UNCHANGED <<server, list, current, slots, calls>>

------------------------------------------------------------------------------
(* The detail screen, its forms and the dialog *)

\* "r".
RefreshValue ==
  /\ screen = "detail" /\ IsOpen
  /\ Start(Value(Open.key))
  /\ UNCHANGED <<server, list, current, view>>

\* esc.
Close ==
  /\ screen = "detail"
  /\ Show("keys")
  /\ current' = Nil
  /\ UNCHANGED <<server, list, slots, calls>>

\* "e", "t", "R", "c", "a" and "x".
AskForm(f) ==
  /\ screen = "detail" /\ IsOpen
  /\ f = "edit" => Open.type \in Editable
  /\ f \in {"add", "remove"} => Open.type \notin Editable
  /\ screen' = f /\ form' = Open.key /\ confirm' = None
  /\ UNCHANGED <<server, list, expiring, current, slots, calls>>

\* esc, or ctrl+q in the editor.
CancelForm ==
  /\ screen \in Forms
  /\ Show("detail")
  /\ UNCHANGED <<server, list, current, slots, calls>>

\* enter, or ctrl+s: the form stays open until the result is there.
Submits(f, c) ==
  /\ screen = f /\ IsOpen
  /\ Start(c)
  /\ UNCHANGED <<server, list, current, view>>

SubmitEdit == Submits("edit", [op |-> "edit", key |-> Open.key, type |-> Open.type])

\* esc in the editor is a message, which finds whatever screen is on when it is handled.
\* (So is its own save, but ctrl+s is taken before the editor sees it.)
EditorPosts ==
  /\ screen = "edit"
  /\ Start([op |-> "editorQuit"])
  /\ UNCHANGED <<server, list, current, view>>

SubmitTTL == \E t \in NoExpiry .. MaxTTL :
  Submits("ttl", [op |-> "expire", key |-> Open.key, ttl |-> t])

SubmitRename == \E k \in Keys :
  Submits("rename", [op |-> "rename", key |-> Open.key, new |-> k]) /\ k # Open.key

SubmitCopy == \E k \in Keys :
  Submits("copy", [op |-> "copy", key |-> Open.key, new |-> k])

SubmitAdd ==
  /\ screen = "add" /\ IsOpen /\ Open.type = "list"
  /\ Submits("add", [op |-> "add", key |-> Open.key])

SubmitRemove ==
  /\ screen = "remove" /\ IsOpen /\ Open.type = "list"
  /\ Submits("remove", [op |-> "remove", key |-> Open.key])

\* "d" on the list and on the detail screen.
AskDelete ==
  /\ \/ screen = "keys" /\ \E i \in 1 .. count : confirm' = array[i].key
     \/ screen = "detail" /\ IsOpen /\ confirm' = Open.key
  /\ screen' = "confirm" /\ form' = None
  /\ UNCHANGED <<server, list, expiring, current, slots, calls>>

Confirm ==
  /\ screen = "confirm"
  /\ Start([op |-> "delete", key |-> confirm])
  /\ UNCHANGED <<server, list, current, view>>

\* n: to the open key, when one is.
Decline ==
  /\ screen = "confirm"
  /\ Show(IF IsOpen THEN "detail" ELSE "keys")
  /\ UNCHANGED <<server, list, current, slots, calls>>

------------------------------------------------------------------------------
(* The server *)

\* The command in slot s runs and leaves message m.
Answers(s, m) ==
  /\ slots' = [slots EXCEPT ![s] = m]
  /\ UNCHANGED <<list, current, view, calls>>

RowOf(k) == [key |-> k, type |-> server[k].type, ttl |-> server[k].ttl]

\* A page of SCAN with the types and TTLs of its keys: the whole of a small database.
RunLoad(s) ==
  /\ slots[s].op = "load"
  /\ LET there == InOrder({k \in Keys : server[k] # Absent})
     IN Answers(s, [op |-> "loaded", rows |-> [i \in DOMAIN there |-> RowOf(there[i])]])
  /\ UNCHANGED server

\* GetValue: of a key that is not there, TYPE says "none" and nothing fails.
RunValue(s) ==
  /\ slots[s].op = "value"
  /\ Answers(s, [op |-> "gotValue", type |-> server[slots[s].key].type])
  /\ UNCHANGED server

\* A write leaves key k holding h.
RunWrite(s, op, k, h, m) ==
  /\ slots[s].op = op
  /\ server' = [server EXCEPT ![k] = h]
  /\ Answers(s, m)

\* SET without KEEPTTL makes a string without expiry of any key; JSON.SET keeps the
\* TTL and fails on other types.
RunEdit(s) ==
  /\ slots[s].op = "edit"
  /\ LET k == slots[s].key IN
       \/ /\ slots[s].type # "json"
          /\ RunWrite(s, "edit", k, [type |-> "string", ttl |-> NoExpiry], [op |-> "edited"])
       \/ /\ slots[s].type = "json"
          /\ server[k].type \in {"json", "none"}
          /\ RunWrite(s, "edit", k, [server[k] EXCEPT !.type = "json"], [op |-> "edited"])

\* EXPIRE, or PERSIST for 0 and less; neither fails when the key is not there.
RunExpire(s) ==
  /\ slots[s].op = "expire"
  /\ LET k == slots[s].key
         t == slots[s].ttl
     IN RunWrite(s, "expire", k,
                 IF server[k] = Absent THEN Absent
                   ELSE [server[k] EXCEPT !.ttl = IF t <= 0 THEN NoExpiry ELSE t],
                 [op |-> "ttlSet", ttl |-> t])

\* RENAME replaces the new key; it fails when the old one is not there.
RunRename(s) ==
  /\ slots[s].op = "rename"
  /\ server[slots[s].key] # Absent
  /\ server' = [server EXCEPT ![slots[s].new] = server[slots[s].key], ![slots[s].key] = Absent]
  /\ Answers(s, [slots[s] EXCEPT !.op = "renamed"])

\* COPY without REPLACE: when there is a key of the new name, nothing is copied and
\* nothing fails.
RunCopy(s) ==
  /\ slots[s].op = "copy"
  /\ LET new == slots[s].new IN
       RunWrite(s, "copy", new, IF server[new] = Absent THEN server[slots[s].key] ELSE server[new],
                [op |-> "copied"])

\* Both fail on other types.
RunAdd(s) ==
  /\ slots[s].op = "add"
  /\ LET k == slots[s].key IN
       /\ server[k].type \in {"list", "none"}
       /\ RunWrite(s, "add", k, [server[k] EXCEPT !.type = "list"], [op |-> "added"])

\* The last element takes the key with it.
RunRemove(s) ==
  /\ slots[s].op = "remove"
  /\ LET k == slots[s].key IN
       /\ server[k].type \in {"list", "none"}
       /\ \E h \in {server[k], Absent} : RunWrite(s, "remove", k, h, [op |-> "removed"])

RunDelete(s) ==
  /\ slots[s].op = "delete"
  /\ RunWrite(s, "delete", slots[s].key, Absent, [op |-> "deleted", key |-> slots[s].key])

\* An error changes the status line and nothing else.
Fail(s) ==
  /\ MayFail
  /\ slots[s].op \in {"load", "value", "edit", "expire", "rename", "copy", "add", "remove", "delete"}
  /\ slots' = [slots EXCEPT ![s] = Free]
  /\ UNCHANGED <<server, list, current, view, calls>>

------------------------------------------------------------------------------
(* Messages *)

\* The message in slot s is handled; the command it leads to, if any, starts.
Then(s, c) == slots' = [slots EXCEPT ![s] = c] /\ UNCHANGED calls

\* KeysLoadedMsg: in place of the list, or, when KeyCursor says it is a later page,
\* appended to it, in the same array if there is room and else in a new one.
KeysLoaded(s) ==
  /\ slots[s].op = "loaded"
  /\ LET rows == slots[s].rows
         kept == SubSeq(array, 1, count)
         stale == SubSeq(array, count + Len(rows) + 1, Len(array))
     IN \/ array' = rows /\ count' = Len(rows) /\ current' = Leave
        \/ /\ count + Len(rows) <= MaxRows
           /\ count' = count + Len(rows)
           /\ \/ array' = kept \o rows /\ current' = Leave
              \/ array' = kept \o rows \o stale /\ UNCHANGED current
  /\ Then(s, Free)
  /\ UNCHANGED <<server, view>>

\* Mutated form: the value is taken in, but the form stays on the screen.
ValueLoadedBehindForm(s) ==
  /\ slots[s].op = "gotValue"
  /\ IF IsOpen
       THEN Assign([Open EXCEPT !.type = slots[s].type], array)
       ELSE UNCHANGED <<array, current>>
  /\ IF screen \in Forms THEN UNCHANGED view ELSE Show("detail")
  /\ Then(s, Free)
  /\ UNCHANGED <<server, count>>

\* KeyValueLoadedMsg: whichever key it is of, the open key gets its type.
ValueLoaded(s) ==
  /\ slots[s].op = "gotValue"
  /\ IF IsOpen
       THEN Assign([Open EXCEPT !.type = slots[s].type], array)
       ELSE UNCHANGED <<array, current>>
  /\ Show("detail")
  /\ Then(s, Free)
  /\ UNCHANGED <<server, count>>

\* EditorQuitMsg.
EditorQuits(s) ==
  /\ slots[s].op = "editorQuit"
  /\ Show("detail")
  /\ Then(s, Free)
  /\ UNCHANGED <<server, list, current>>

\* ValueEditedMsg, ItemAddedToCollectionMsg, ItemRemovedFromCollectionMsg: the value
\* of whichever key is open is loaded again.
Written(s) ==
  /\ slots[s].op \in {"edited", "added", "removed"}
  /\ Then(s, IF IsOpen THEN Value(Open.key) ELSE Free)
  /\ IF slots[s].op = "removed" THEN UNCHANGED view ELSE Show("detail")
  /\ UNCHANGED <<server, list, current>>

\* KeyCopiedMsg.
Copied(s) ==
  /\ slots[s].op = "copied"
  /\ Show("detail")
  /\ Then(s, LoadKeys)
  /\ UNCHANGED <<server, list, current>>

\* Mutated form: the name changes behind the form that is open.
RenamedBehindForm(s) ==
  /\ slots[s].op = "renamed"
  /\ IF IsOpen
       THEN Assign([Open EXCEPT !.key = slots[s].new], array)
       ELSE UNCHANGED <<array, current>>
  /\ IF screen \in Forms THEN UNCHANGED view ELSE Show("detail")
  /\ Then(s, Free)
  /\ UNCHANGED <<server, count>>

\* KeyRenamedMsg: whichever key is open takes the new name, and so does the first
\* row that has the old one.
Renamed(s) ==
  /\ slots[s].op = "renamed"
  /\ LET old == slots[s].key
         new == slots[s].new
         named == IF current.at = "array" THEN [array EXCEPT ![current.index].key = new] ELSE array
         rows == {i \in 1 .. count : named[i].key = old}
     IN IF IsOpen
          THEN /\ array' = [i \in DOMAIN named |->
                              IF i \in rows /\ \A j \in rows : i <= j
                                THEN [named[i] EXCEPT !.key = new] ELSE named[i]]
               /\ current' = IF current.at = "array" THEN current
                               ELSE [current EXCEPT !.row.key = new]
          ELSE UNCHANGED <<array, current>>
  /\ Show("detail")
  /\ Then(s, Free)
  /\ UNCHANGED <<server, count>>

\* TTLSetMsg: whichever key is open gets the TTL, and so does the first row of it.
TTLSet(s) ==
  /\ slots[s].op = "ttlSet"
  /\ IF IsOpen
       THEN LET timed == [i \in DOMAIN array |->
                            IF IsFirst(i, Open.key)
                              THEN [array[i] EXCEPT !.ttl = slots[s].ttl] ELSE array[i]]
            IN Assign([Open EXCEPT !.ttl = slots[s].ttl], timed)
       ELSE UNCHANGED <<array, current>>
  /\ Show("detail")
  /\ Then(s, Free)
  /\ UNCHANGED <<server, count>>

\* KeyDeletedMsg: the first row of the key goes, and whichever key is open is closed.
Deleted(s) ==
  /\ slots[s].op = "deleted"
  /\ LET gone == {i \in 1 .. count : IsFirst(i, slots[s].key)} IN
       IF gone = {}
         THEN UNCHANGED list
         ELSE \E g \in gone :
                /\ array' = [i \in DOMAIN array |->
                               IF i \in g .. count - 1 THEN array[i + 1] ELSE array[i]]
                /\ count' = count - 1
  /\ current' = Nil
  /\ Show("keys")
  /\ Then(s, Free)
  /\ UNCHANGED server

\* Mutated form: keys without expiry are counted down too.
ElapseAlways(t) == t - 1

\* A second passes.
Elapse(t) == IF t > 0 THEN t - 1 ELSE t
ElapseRow(r) == [r EXCEPT !.ttl = Elapse(@)]
ElapseHeld(h) == IF h.ttl = 1 THEN Absent ELSE [h EXCEPT !.ttl = Elapse(@)]

\* Mutated form: the form of a key that expires stays open.
CloseOrBehindForm(expired, open) ==
  /\ current' = IF expired THEN Nil ELSE open
  /\ UNCHANGED view

CloseOr(expired, open) ==
  IF expired
    THEN current' = Nil /\ Show("keys")
    ELSE current' = open /\ UNCHANGED view

\* TickMsg: first the open key is counted down, then the rows, so that an element
\* that is both counts twice.  Rows at 0 are squeezed out of the array, which keeps what
\* it held beyond the last one, and when there was one, an open key at 0 by now is closed.
Tick ==
  LET once == IF current.at = "array" THEN [array EXCEPT ![current.index] = ElapseRow(@)] ELSE array
      aged == [i \in DOMAIN once |-> IF i <= count THEN ElapseRow(once[i]) ELSE once[i]]
      open == IF current.at \in {"own", "loose"} THEN [current EXCEPT !.row = ElapseRow(@)] ELSE current
      zero(a) == (IF open.at = "array" THEN a[open.index] ELSE open.row).ttl = 0
  IN /\ \E n \in 0 .. count : \E f \in [1 .. n -> 1 .. count] :
          /\ \A i, j \in 1 .. n : i < j => f[i] < f[j]
          /\ {f[i] : i \in 1 .. n} = {i \in 1 .. count : aged[i].ttl # 0}
          /\ LET squeezed == [i \in DOMAIN aged |-> IF i <= n THEN aged[f[i]] ELSE aged[i]]
             IN array' = squeezed /\ CloseOr(IsOpen /\ n < count /\ zero(squeezed), open)
          /\ count' = n
     /\ server' = [k \in Keys |-> ElapseHeld(server[k])]
     /\ UNCHANGED <<slots, calls>>

------------------------------------------------------------------------------
User ==
  \/ Reload \/ SortRows \/ GoOther \/ Back
  \/ \E i \in 1 .. count : OpenRow(i)
  \/ \E i \in 1 .. count : OpenElement(i)
  \/ \E r \in expiring : OpenExpiring(r)
  \/ RefreshValue \/ Close \/ CancelForm
  \/ \E f \in Forms : AskForm(f)
  \/ SubmitEdit \/ EditorPosts \/ SubmitTTL \/ SubmitRename \/ SubmitCopy \/ SubmitAdd \/ SubmitRemove
  \/ AskDelete \/ Confirm \/ Decline

Server(s) ==
  \/ RunLoad(s) \/ RunValue(s) \/ RunEdit(s) \/ RunExpire(s) \/ RunRename(s) \/ RunCopy(s)
  \/ RunAdd(s) \/ RunRemove(s) \/ RunDelete(s) \/ Fail(s)

Update(s) ==
  \/ KeysLoaded(s) \/ ValueLoaded(s) \/ EditorQuits(s) \/ Written(s) \/ Copied(s)
  \/ Renamed(s) \/ TTLSet(s) \/ Deleted(s)

Next == User \/ Tick \/ \E s \in Slots : Server(s) \/ Update(s)

Spec == Init /\ [][Next]_vars

------------------------------------------------------------------------------
\* Commands and messages.
Calls ==
  {Free, LoadKeys} \cup {[op |-> o] : o \in {"editorQuit", "edited", "copied", "added", "removed"}}
  \cup [op : {"value", "add", "remove", "delete", "deleted"}, key : Keys]
  \cup [op : {"edit"}, key : Keys, type : Types]
  \cup [op : {"expire"}, key : Keys, ttl : NoExpiry .. MaxTTL]
  \cup [op : {"ttlSet"}, ttl : NoExpiry .. MaxTTL]
  \cup [op : {"rename", "renamed", "copy"}, key : Keys, new : Keys]
  \cup [op : {"gotValue"}, type : Types] \cup [op : {"loaded"}, rows : Seq(Rows)]

ListTypes == array \in Seq(Rows) /\ count \in 0 .. Len(array)

PointerTypes == current \in Pointers /\ (current.at = "array" => current.index \in DOMAIN array)

ViewTypes ==
  /\ expiring \subseteq Rows
  /\ screen \in Screens /\ confirm \in Keys \cup {None} /\ form \in Keys \cup {None}
  /\ screen = "confirm" => confirm \in Keys

\* Type invariant: CurrentKey never points outside the array, however it is
\* squeezed, appended to or replaced.
TypeOK ==
  /\ server \in [Keys -> Contents]
  /\ ListTypes /\ PointerTypes /\ ViewTypes
  /\ slots \in [Slots -> Calls] /\ calls \in 0 .. MaxCalls

\* A form on the screen acts on an open key: none is left behind when a tick or a
\* late KeyDeletedMsg closes the key.
FormHasKey == screen \in Forms => IsOpen

\* What is submitted goes to the key the form was opened for: while a form is open,
\* no message that is still under way (a rename, a value, a tick) gives the key opened
\* from the list, a copy of its row, another name.  (It does not hold of a pointer either.)
FormKeepsKey == screen \in Forms /\ current.at = "own" => current.row.key = form

\* As long as the key is a copy of its row, only a string or JSON document is edited: a late
\* KeyValueLoadedMsg, which may give the open key the type of another one, closes the editor.
\* (SET replaces any type.)  It does not hold of a pointer into the list: a tick or a page that
\* is appended may put the row of another key, of any type, under the open editor
\* (update.go:228-252).
EditsText == screen = "edit" /\ current.at = "own" => current.row.type \in Editable

\* What "Enter 0 to remove expiry" (view_modals_key_ops.go:28) promises: with nothing
\* under way, a tick does not take a key without expiry from the list.
TickDropsOnlyExpired ==
  [][\A k \in Keys :
       /\ Tick
       /\ \A s \in Slots : slots[s] = Free
       /\ server[k] # Absent /\ server[k].ttl = NoExpiry
       /\ \E i \in 1 .. count : array[i].key = k
       => \E i \in 1 .. count' : array'[i].key = k]_vars
==============================================================================
