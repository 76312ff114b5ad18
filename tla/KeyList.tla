------------------------------ MODULE KeyList -------------------------------
(***************************************************************************)
(* internal/ui: the key list, its filter and its preview pane.  The event  *)
(* loop handles one message at a time (Update); everything slow is a       *)
(* tea.Cmd that runs in a goroutine of its own, reads the server at some   *)
(* moment and posts its result, which is handled at some later moment.     *)
(* Results and timers arrive in any order.  A slot is one such goroutine:  *)
(* first the command, then the message that waits to be handled.           *)
(***************************************************************************)
EXTENDS Integers, SequencesExt

CONSTANTS Keys,       \* names of Redis keys
          DBs,        \* databases and servers one can be connected to
          Texts,      \* contents of the filter field; NoText is the empty one
          NoText,
          GlobTexts,  \* those that hold one of "*?[]"
          Matches(_), \* the keys a pattern selects
          PageOf(_),  \* the SCAN page, 0 .. LastPage, a key is returned on
          LastPage,
          InOrder(_), \* the keys of a set in the order SCAN returns them
          PageStep,   \* 10: what pgup and pgdown move
          Slots,      \* goroutines that may run at a time
          None,
          \* bounds on what a run may do
          MaxTimers,  \* debounce timers: edits of the filter and moves
          MayFail,    \* commands may fail
          UserOps,    \* what the user does: see Operations
          MaxList,    \* rows the list may grow to, and rows of other lists
          MaxEvents   \* keyspace notifications under way

NoPattern == [text |-> NoText, wrapped |-> FALSE]

\* handleKeysScreen, SearchDebounceMsg: a plain text t becomes the pattern *t*.
Glob(t) == [text |-> t, wrapped |-> t # NoText /\ t \notin GlobTexts]

Patterns == {Glob(t) : t \in Texts} \cup {NoPattern}

ASSUME KeyListAssumption ==
  /\ NoText \in Texts
  /\ LastPage \in Nat
  /\ PageStep \in Nat \ {0}
  /\ MaxTimers \in Nat /\ MayFail \in BOOLEAN /\ MaxList \in Nat /\ MaxEvents \in Nat
  /\ None \notin Keys
  /\ \A S \in SUBSET Keys : InOrder(S) \in Seq(Keys)
  /\ \A p \in Patterns : Matches(p) \subseteq Keys

VARIABLES content,     \* database -> the keys it holds
          active,      \* the database the client talks to
          slots,       \* the commands and messages under way
          events,      \* set and del notifications not handled yet
          keys,        \* Model.Keys
          keyCursor,   \* Model.KeyCursor: the next page, 0 when none is left
          selected,    \* Model.SelectedKeyIdx, counted from 0; -1 after some expiries
          text,        \* Inputs.PatternInput: the filter field
          focused,     \* Inputs.PatternInput.Focused()
          pattern,     \* Model.KeyPattern
          searchSeq,   \* Model.SearchSeq
          searchTicks, \* SearchDebounceMsg timers under way
          previewKey,  \* Model.PreviewKey
          previewSeq,  \* Model.PreviewSeq
          previewTicks,\* PreviewDebounceMsg timers under way
          screen,      \* "keys", "confirm", or "away" on any other screen
          confirm,     \* Model.ConfirmData while the dialog is open; None for a flush
          unasked      \* history: the selected row changed, no preview was asked for

database == <<content, active, events>>
list == <<keys, keyCursor, selected>>
filter == <<text, focused, pattern, searchSeq, searchTicks>>
preview == <<previewKey, previewSeq, previewTicks, unasked>>
dialog == <<screen, confirm>>
vars == <<content, active, events, slots, keys, keyCursor, selected, text, focused,
          pattern, searchSeq, searchTicks, previewKey, previewSeq, previewTicks,
          unasked, screen, confirm>>

Free == [op |-> "free"]
Load(p, c) == [op |-> "load", pattern |-> p, cursor |-> c]
Preview(k) == [op |-> "preview", key |-> k]

Init ==
  /\ content \in [DBs -> SUBSET Keys]
  /\ active \in DBs
  /\ slots = [s \in Slots |-> Free]
  /\ events = 0
  /\ keys = << >> /\ keyCursor = 0 /\ selected = 0
  /\ text = NoText /\ focused = FALSE /\ pattern = NoPattern
  /\ searchSeq = 0 /\ searchTicks = {}
  /\ previewKey = None /\ previewSeq = 0 /\ previewTicks = {} /\ unasked = FALSE
  /\ screen = "away" /\ confirm = None

InRange(ks, i) == i >= 0 /\ i < Len(ks)

\* Row -1 of a list with rows is read by the next frame or message (m.Keys[-1]):
\* the program panics.
Panicked == keys # << >> /\ selected < 0

\* m.Screen = types.ScreenKeys; the data of a closed dialog is not read again.
ShowKeys == screen' = "keys" /\ confirm' = None

\* A handler returns command c, which starts in an idle slot.
Start(c) == \E s \in Slots : slots[s] = Free /\ slots' = [slots EXCEPT ![s] = c]

------------------------------------------------------------------------------
(* The filter *)

\* Typing or pasting in the filter field, or moving in it (the same text).
Type(t) ==
  /\ screen = "keys" /\ focused
  /\ searchSeq + previewSeq < MaxTimers
  /\ text' = t
  /\ searchSeq' = searchSeq + 1
  /\ searchTicks' = searchTicks \cup {searchSeq + 1}
  /\ UNCHANGED <<database, slots, list, focused, pattern, preview, dialog>>

\* SearchDebounceMsg: only the timer of the last edit applies the filter.
SearchTick(n) ==
  /\ n \in searchTicks
  /\ searchTicks' = searchTicks \ {n}
  /\ IF n = searchSeq
       THEN /\ pattern' = Glob(text)
            /\ keyCursor' = 0
            /\ Start(Load(Glob(text), 0))
       ELSE UNCHANGED <<pattern, keyCursor, slots>>
  /\ UNCHANGED <<database, keys, selected, text, focused, searchSeq, preview, dialog>>

\* "/".
FocusFilter ==
  /\ screen = "keys" /\ ~focused
  /\ focused' = TRUE
  /\ UNCHANGED <<database, slots, list, text, pattern, searchSeq, searchTicks, preview, dialog>>

\* enter in the filter field.
ApplyFilter ==
  /\ screen = "keys" /\ focused
  /\ pattern' = Glob(text)
  /\ focused' = FALSE
  /\ keyCursor' = 0
  /\ Start(Load(Glob(text), 0))
  /\ UNCHANGED <<database, keys, selected, text, searchSeq, searchTicks, preview, dialog>>

\* Mutated form: esc empties the field but not the pattern.
ClearFilterKeepPattern ==
  /\ screen = "keys"
  /\ focused \/ pattern # NoPattern
  /\ searchSeq + previewSeq < MaxTimers
  /\ text' = NoText
  /\ focused' = FALSE
  /\ keyCursor' = 0
  /\ searchSeq' = searchSeq + 1
  /\ Start(Load(pattern, 0))
  /\ UNCHANGED <<database, keys, selected, pattern, searchTicks, preview, dialog>>

\* esc: in the filter field, or on the list while a pattern is set.
ClearFilter ==
  /\ screen = "keys"
  /\ focused \/ pattern # NoPattern
  /\ searchSeq + previewSeq < MaxTimers
  /\ text' = NoText
  /\ focused' = FALSE
  /\ pattern' = NoPattern
  /\ keyCursor' = 0
  /\ searchSeq' = searchSeq + 1
  /\ Start(Load(NoPattern, 0))
  /\ UNCHANGED <<database, keys, selected, searchTicks, preview, dialog>>

------------------------------------------------------------------------------
(* The list *)

\* Mutated form: pgup does not stop at the first row.
MovesNoFloor == {selected - PageStep} \cup 0 .. Len(keys) - 1

\* up, down, pgup, pgdown, home and end: where the selection goes.
Moves ==
  LET last == Len(keys) - 1 IN
    {IF selected > PageStep THEN selected - PageStep ELSE 0, 0}
    \cup (IF selected > 0 THEN {selected - 1} ELSE {})
    \cup (IF selected < last THEN {selected + 1} ELSE {})
    \cup (IF last >= 0
            THEN {last, IF selected + PageStep > last THEN last ELSE selected + PageStep}
            ELSE {})

\* A move, with debounceKeyPreview.
Move(i) ==
  /\ screen = "keys" /\ ~focused
  /\ selected' = i
  /\ IF InRange(keys, i)
       THEN /\ searchSeq + previewSeq < MaxTimers
            /\ previewSeq' = previewSeq + 1
            /\ previewTicks' = previewTicks \cup {[seq |-> previewSeq + 1, key |-> keys[i + 1]]}
            /\ unasked' = FALSE
       ELSE UNCHANGED <<previewSeq, previewTicks, unasked>>
  /\ UNCHANGED <<database, slots, keys, keyCursor, filter, previewKey, dialog>>

\* PreviewDebounceMsg.
PreviewTick(t) ==
  /\ t \in previewTicks
  /\ previewTicks' = previewTicks \ {t}
  /\ IF t.seq = previewSeq /\ InRange(keys, selected) /\ keys[selected + 1] = t.key
       THEN Start(Preview(t.key))
       ELSE UNCHANGED slots
  /\ UNCHANGED <<database, list, filter, previewKey, previewSeq, unasked, dialog>>

\* "r".
Refresh ==
  /\ screen = "keys" /\ ~focused
  /\ keyCursor' = 0
  /\ Start(Load(pattern, 0))
  /\ UNCHANGED <<database, keys, selected, filter, preview, dialog>>

\* "l".
LoadMore ==
  /\ screen = "keys" /\ ~focused
  /\ keyCursor > 0
  /\ Start(Load(pattern, keyCursor))
  /\ UNCHANGED <<database, list, filter, preview, dialog>>

\* "s" and "S": by type and TTL the rows may land anywhere.
Sort ==
  /\ screen = "keys" /\ ~focused
  /\ LET rows == 1 .. Len(keys) IN
       \E f \in [rows -> rows] :
         /\ \A i, j \in rows : f[i] = f[j] => i = j
         /\ keys' = [i \in rows |-> keys[f[i]]]
  /\ unasked' = TRUE
  /\ UNCHANGED <<database, slots, keyCursor, selected, filter, previewKey, previewSeq,
                 previewTicks, dialog>>

\* The row the selection is clamped to when n rows are left.
Clamp(n) == IF selected >= n /\ selected > 0 THEN n - 1 ELSE selected

\* TickMsg: the rows whose TTL has run out go, whatever screen is open; when the
\* key on the detail screen is one of them, the list is shown.
Tick ==
  /\ "expire" \in UserOps
  /\ \E n \in 0 .. Len(keys) - 1 :
       /\ \E f \in [1 .. n -> 1 .. Len(keys)] :
            /\ \A i, j \in 1 .. n : i < j => f[i] < f[j]
            /\ keys' = [i \in 1 .. n |-> keys[f[i]]]
       /\ selected' = Clamp(n)
  /\ unasked' = TRUE
  /\ ShowKeys \/ UNCHANGED dialog
  /\ UNCHANGED <<database, slots, keyCursor, filter, previewKey, previewSeq, previewTicks>>

\* "d" on a row, or on the open key, whichever it is; and "f".
AskDelete ==
  /\ \/ /\ screen = "keys" /\ ~focused
        /\ InRange(keys, selected)
        /\ confirm' = keys[selected + 1]
     \/ screen = "away" /\ confirm' \in Keys
  /\ screen' = "confirm"
  /\ UNCHANGED <<database, slots, list, filter, preview>>

AskFlush ==
  /\ screen = "keys" /\ ~focused
  /\ screen' = "confirm"
  /\ confirm' = None
  /\ UNCHANGED <<database, slots, list, filter, preview>>

\* y: the dialog stays open until the result is there, so it may be repeated.
Confirm ==
  /\ screen = "confirm"
  /\ LET c == IF confirm = None THEN [op |-> "flush"] ELSE [op |-> "delete", key |-> confirm]
     IN c.op \in UserOps /\ Start(c)
  /\ UNCHANGED <<database, list, filter, preview, dialog>>

\* n, or esc; and the keys that come back to the list.
BackToKeys ==
  /\ screen # "keys"
  /\ ShowKeys
  /\ UNCHANGED <<database, slots, list, filter, preview>>

\* Other screens are opened by a key, and by results that are for them and may come
\* while the filter has the focus or the dialog is open.
LeaveKeys ==
  /\ screen # "away"
  /\ screen' = "away" /\ confirm' = None
  /\ UNCHANGED <<database, slots, list, filter, preview>>

\* Favorites, recent keys and the tree open a row of the list; the expiring-keys
\* screen moves the same index over a list of its own.
Browse(i) ==
  /\ screen = "away"
  /\ "browse" \in UserOps
  /\ selected' = i
  /\ unasked' = TRUE
  /\ UNCHANGED <<database, slots, keys, keyCursor, filter, previewKey, previewSeq,
                 previewTicks, dialog>>

\* The other screens start the rest: save or rename a key, import, copy, delete or
\* expire many, search by regex or fuzzily, switch database, connect.
Operations ==
  [op : {"set"}, key : Keys]
  \cup [op : {"rename"}, key : Keys, new : Keys]
  \cup [op : {"bulk", "search"}]
  \cup [op : {"switch", "connect"}, db : DBs]

Submit(c) ==
  /\ screen = "away"
  /\ c.op \in UserOps
  /\ Start(c)
  /\ UNCHANGED <<database, list, filter, preview, dialog>>

------------------------------------------------------------------------------
(* The server *)

\* A change of a key may be notified.
Notify == events' = events \/ (events < MaxEvents /\ events' = events + 1)

\* The page of keys a SCAN returns, and the cursor of the next one.
Page(p, c) == InOrder({k \in content[active] \cap Matches(p) : PageOf(k) = c})
NextCursor(c) == IF c = LastPage THEN 0 ELSE c + 1

\* The command in slot s runs on the server and leaves message m.
Runs(s, op, m) ==
  /\ slots[s].op = op
  /\ slots' = [slots EXCEPT ![s] = m]
  /\ UNCHANGED <<list, filter, preview, dialog>>

RunLoad(s) ==
  /\ slots[s].op = "load"
  /\ Runs(s, "load", [op |-> "loaded", keys |-> Page(slots[s].pattern, slots[s].cursor),
                      next |-> NextCursor(slots[s].cursor)])
  /\ UNCHANGED database

RunDelete(s) ==
  /\ slots[s].op = "delete"
  /\ Runs(s, "delete", [op |-> "deleted", key |-> slots[s].key])
  /\ content' = [content EXCEPT ![active] = @ \ {slots[s].key}]
  /\ IF slots[s].key \in content[active] THEN Notify ELSE UNCHANGED events
  /\ UNCHANGED active

RunSet(s) ==
  /\ slots[s].op = "set"
  /\ Runs(s, "set", [op |-> "saved"])
  /\ content' = [content EXCEPT ![active] = @ \cup {slots[s].key}]
  /\ Notify
  /\ UNCHANGED active

\* RENAME, when the key is there.
RunRename(s) ==
  /\ slots[s].op = "rename"
  /\ slots[s].key \in content[active]
  /\ Runs(s, "rename", [op |-> "renamed", key |-> slots[s].key, new |-> slots[s].new])
  /\ content' = [content EXCEPT ![active] = (@ \ {slots[s].key}) \cup {slots[s].new}]
  /\ UNCHANGED <<active, events>>

\* An import, a copy or a bulk change: any keys may come and go.
RunBulk(s) ==
  /\ Runs(s, "bulk", [op |-> "reload"])
  /\ \E S \in SUBSET Keys : content' = [content EXCEPT ![active] = S]
  /\ UNCHANGED <<active, events>>

\* A search reads the keyspace on its own and returns any of its keys.
RunSearch(s) ==
  /\ \E S \in SUBSET content[active] : Runs(s, "search", [op |-> "found", keys |-> InOrder(S)])
  /\ UNCHANGED database

\* FLUSHDB notifies nothing.
RunFlush(s) ==
  /\ Runs(s, "flush", [op |-> "flushed"])
  /\ content' = [content EXCEPT ![active] = {}]
  /\ UNCHANGED <<active, events>>

\* SELECT, or a connect that closes the old connection and opens another.
RunGoTo(s) ==
  /\ slots[s].op \in {"switch", "connect"}
  /\ Runs(s, slots[s].op, [op |-> IF slots[s].op = "switch" THEN "switched" ELSE "connected"])
  /\ active' = slots[s].db
  /\ UNCHANGED <<content, events>>

\* Any command may fail; an error result changes the status line, and after a
\* failed flush the screen.  (A preview fails in PreviewLoaded.)
Fail(s) ==
  /\ MayFail
  /\ slots[s].op \in {"load", "delete", "flush"} \cup {c.op : c \in Operations}
  /\ slots' = [slots EXCEPT ![s] = Free]
  /\ IF slots[s].op = "flush" THEN ShowKeys ELSE UNCHANGED dialog
  /\ UNCHANGED <<database, list, filter, preview>>

\* Another client sets or deletes a key.
ExternalChange(k) ==
  /\ content' = [content EXCEPT ![active] = IF k \in @ THEN @ \ {k} ELSE @ \cup {k}]
  /\ Notify
  /\ UNCHANGED <<active, slots, list, filter, preview, dialog>>

------------------------------------------------------------------------------
(* Messages *)

\* The message in slot s is handled; the command it leads to, if any, starts.
Then(s, c) == slots' = [slots EXCEPT ![s] = c]

\* Mutated form: the first row is asked for, whatever row is selected.
AskPreviewFirst(s, ks, i) ==
  IF InRange(ks, 0)
    THEN Then(s, Preview(ks[1])) /\ unasked' = FALSE
    ELSE Then(s, Free) /\ UNCHANGED unasked

\* The selected row of ks is asked for its preview, if there is such a row.
AskPreview(s, ks, i) ==
  IF InRange(ks, i)
    THEN Then(s, Preview(ks[i + 1])) /\ unasked' = FALSE
    ELSE Then(s, Free) /\ UNCHANGED unasked

\* KeysLoadedMsg: the rows replace the list when KeyCursor is 0 by now, and are
\* appended otherwise.
KeysLoaded(s) ==
  /\ slots[s].op = "loaded"
  /\ LET first == keyCursor = 0
         rows == IF first THEN slots[s].keys ELSE keys \o slots[s].keys
         row == IF first THEN 0 ELSE selected
     IN /\ Len(rows) <= MaxList
        /\ keys' = rows
        /\ selected' = row
        /\ AskPreview(s, rows, row)
  /\ keyCursor' = slots[s].next
  /\ UNCHANGED <<database, filter, previewKey, previewSeq, previewTicks, dialog>>

\* Mutated form: a preview is shown for whatever row is selected by now.
PreviewLoadedAnyRow(s) ==
  /\ slots[s].op = "preview"
  /\ Then(s, Free)
  /\ IF InRange(keys, selected)
       THEN \/ previewKey' = slots[s].key /\ UNCHANGED unasked
            \/ MayFail /\ previewKey' = None /\ unasked' = TRUE
       ELSE UNCHANGED <<previewKey, unasked>>
  /\ UNCHANGED <<database, list, filter, previewSeq, previewTicks, dialog>>

\* The preview is read, and KeyPreviewLoadedMsg handled: ignored unless its key is
\* the selected one.
PreviewLoaded(s) ==
  /\ slots[s].op = "preview"
  /\ Then(s, Free)
  /\ IF InRange(keys, selected) /\ keys[selected + 1] = slots[s].key
       THEN \/ previewKey' = slots[s].key /\ UNCHANGED unasked
            \/ MayFail /\ previewKey' = None /\ unasked' = TRUE
       ELSE UNCHANGED <<previewKey, unasked>>
  /\ UNCHANGED <<database, list, filter, previewSeq, previewTicks, dialog>>

\* KeyDeletedMsg: the first row of the key goes, and no preview is asked for.
KeyDeleted(s) ==
  /\ slots[s].op = "deleted"
  /\ keys' = RemoveFirst(keys, slots[s].key)
  /\ selected' = IF selected >= Len(keys') /\ selected > 0 THEN selected - 1 ELSE selected
  /\ ShowKeys
  /\ Then(s, Free)
  /\ unasked' = TRUE
  /\ UNCHANGED <<database, keyCursor, filter, previewKey, previewSeq, previewTicks>>

\* KeySetMsg: the first page is asked for again, KeyCursor is left as it is.
KeySet(s) ==
  /\ slots[s].op = "saved"
  /\ ShowKeys
  /\ Then(s, Load(pattern, 0))
  /\ UNCHANGED <<database, list, filter, preview>>

\* ImportCompleteMsg, BulkDeleteMsg, BatchTTLSetMsg and KeyCopiedMsg (which shows
\* the key detail): the first page is asked for again.
Reload(s) ==
  /\ slots[s].op = "reload"
  /\ keyCursor' = 0
  /\ ShowKeys \/ (screen' = "away" /\ confirm' = None)
  /\ Then(s, Load(pattern, 0))
  /\ UNCHANGED <<database, keys, selected, filter, preview>>

\* KeyRenamedMsg: while a key is open, it changes its name, which is that of a row of the list
\* if CurrentKey points to one (any one, by the time of the answer), and so does the first row
\* that has the old name; without one only the screen changes.
KeyRenamed(s) ==
  /\ slots[s].op = "renamed"
  /\ \/ UNCHANGED <<keys, unasked>>
     \/ \E i \in DOMAIN keys \cup {0} :
          LET old == slots[s].key
              IsOld(j) == j # i /\ keys[j] = old
              First == {j \in DOMAIN keys : IsOld(j) /\ \A n \in 1 .. j - 1 : ~IsOld(n)}
          IN /\ keys' = [j \in DOMAIN keys |-> IF j \in First \cup {i} THEN slots[s].new ELSE keys[j]]
             /\ unasked' = TRUE
  /\ screen' = "away" /\ confirm' = None
  /\ Then(s, Free)
  /\ UNCHANGED <<database, keyCursor, selected, filter, previewKey, previewSeq, previewTicks>>

\* RegexSearchResultMsg and FuzzySearchResultMsg: the result replaces the list,
\* SelectedKeyIdx and KeyCursor are left as they are.
Found(s) ==
  /\ slots[s].op = "found"
  /\ keys' = slots[s].keys
  /\ unasked' = TRUE
  /\ ShowKeys
  /\ Then(s, Free)
  /\ UNCHANGED <<database, keyCursor, selected, filter, previewKey, previewSeq, previewTicks>>

\* FlushDBMsg: SelectedKeyIdx and KeyCursor are left as they are.
Flushed(s) ==
  /\ slots[s].op = "flushed"
  /\ keys' = << >>
  /\ ShowKeys
  /\ Then(s, Free)
  /\ UNCHANGED <<database, keyCursor, selected, filter, preview>>

\* DBSwitchedMsg.
DBSwitched(s) ==
  /\ slots[s].op = "switched"
  /\ keys' = << >>
  /\ keyCursor' = 0
  /\ ShowKeys
  /\ Then(s, Load(pattern, 0))
  /\ UNCHANGED <<database, selected, filter, preview>>

\* ConnectedMsg: the pattern is reset, the filter field is not.
Connected(s) ==
  /\ slots[s].op = "connected"
  /\ keys' = << >>
  /\ keyCursor' = 0
  /\ selected' = 0
  /\ pattern' = NoPattern
  /\ ShowKeys
  /\ Then(s, Load(NoPattern, 0))
  /\ UNCHANGED <<database, text, focused, searchSeq, searchTicks, preview>>

\* KeyspaceEventMsg, set or del: as KeySetMsg, whatever screen is open.
KeyspaceEvent ==
  /\ events > 0
  /\ events' = events - 1
  /\ Start(Load(pattern, 0))
  /\ UNCHANGED <<content, active, list, filter, preview, dialog>>

------------------------------------------------------------------------------
KeyPress ==
  \/ \E t \in Texts : Type(t)
  \/ FocusFilter
  \/ ApplyFilter
  \/ ClearFilter
  \/ \E i \in Moves : Move(i)
  \/ Refresh
  \/ LoadMore
  \/ Sort
  \/ AskDelete
  \/ AskFlush
  \/ Confirm
  \/ BackToKeys
  \/ LeaveKeys
  \/ \E i \in 0 .. MaxList : Browse(i)
  \/ \E c \in Operations : Submit(c)

Command(s) ==
  \/ RunLoad(s)
  \/ RunDelete(s)
  \/ RunSet(s)
  \/ RunRename(s)
  \/ RunBulk(s)
  \/ RunSearch(s)
  \/ RunFlush(s)
  \/ RunGoTo(s)
  \/ Fail(s)

Message(s) ==
  \/ KeysLoaded(s)
  \/ PreviewLoaded(s)
  \/ KeyDeleted(s)
  \/ KeySet(s)
  \/ Reload(s)
  \/ KeyRenamed(s)
  \/ Found(s)
  \/ Flushed(s)
  \/ DBSwitched(s)
  \/ Connected(s)

Timer ==
  \/ \E n \in searchTicks : SearchTick(n)
  \/ \E t \in previewTicks : PreviewTick(t)
  \/ Tick

Next ==
  \/ ~Panicked /\ (KeyPress \/ Timer \/ KeyspaceEvent)
  \/ ~Panicked /\ \E s \in Slots : Command(s) \/ Message(s)
  \/ ~Panicked /\ \E k \in Keys : ExternalChange(k)
  \/ Panicked /\ UNCHANGED vars

Spec == Init /\ [][Next]_vars

------------------------------------------------------------------------------
(* Properties *)

Messages ==
  [op : {"free", "flush", "flushed", "saved", "reload", "switched", "connected"}]
  \cup Operations
  \cup [op : {"load"}, pattern : Patterns, cursor : 0 .. LastPage]
  \cup [op : {"preview", "delete", "deleted"}, key : Keys]
  \cup [op : {"renamed"}, key : Keys, new : Keys]
  \cup [op : {"loaded"}, keys : Seq(Keys), next : 0 .. LastPage]
  \cup [op : {"found"}, keys : Seq(Keys)]

DatabaseTypes ==
  content \in [DBs -> SUBSET Keys] /\ active \in DBs /\ events \in 0 .. MaxEvents
ListTypes == keys \in Seq(Keys) /\ keyCursor \in 0 .. LastPage /\ selected \in Int /\ selected >= -1
FilterTypes ==
  /\ text \in Texts /\ focused \in BOOLEAN /\ pattern \in Patterns
  /\ searchSeq \in 0 .. MaxTimers /\ searchTicks \subseteq 1 .. MaxTimers
PreviewTypes ==
  /\ previewKey \in Keys \cup {None} /\ previewSeq \in 0 .. MaxTimers
  /\ previewTicks \subseteq [seq : 1 .. MaxTimers, key : Keys]
  /\ unasked \in BOOLEAN
DialogTypes == screen \in {"keys", "confirm", "away"} /\ confirm \in Keys \cup {None}

\* Types of the model's fields and of the messages under way; however the list
\* shrinks, the selection never falls below the row before the first.
TypeOK ==
  /\ DatabaseTypes
  /\ slots \in [Slots -> Messages]
  /\ ListTypes
  /\ FilterTypes
  /\ PreviewTypes
  /\ DialogTypes

\* What the filter field shows is what the list is filtered by, or a timer that
\* will apply it is under way: no order of edits, timers, esc, enter and
\* reconnects leaves another text's pattern in force (update.go, SearchSeq).
FilterConverges ==
  pattern \in {NoPattern, Glob(text)} \/ searchSeq \in searchTicks

\* A timer or message under way that may still touch the preview.
PreviewPending ==
  \/ \E t \in previewTicks : t.seq = previewSeq
  \/ \E s \in Slots : slots[s].op = "preview"

\* Previews and their timers may be overtaken by later ones and by reloads: when
\* none is under way, the pane shows the selected row, if its row was reached by
\* a move or a reload and the server answered.
PreviewConverges ==
  (~PreviewPending /\ ~unasked /\ InRange(keys, selected)) =>
    previewKey = keys[selected + 1]
=============================================================================
