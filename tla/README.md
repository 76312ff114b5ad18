# redis-tui in TLA+

Models, model-checking runs and proofs for redis-tui, a terminal client for Redis
written in Go with the bubbletea event loop. `PROJECT.json` lists the components, the
runs, the source lines every definition stands for, the hazards and the theorems.

## The system

The program is one event loop (`Model.Update`, internal/ui) that handles one message at
a time: key presses, pastes, ticks, timers and the results of commands. A command
(`internal/cmd`, a `tea.Cmd`) runs in a goroutine of its own, calls one of the services
and posts one message. Nothing orders commands, timers and results: the only order is
that of their arrival. All commands share one Redis client and one configuration.

| part | state | operations | who else touches it | what is hard |
|---|---|---|---|---|
| Redis client (internal/redis: client.go, connection.go, pubsub.go) | client, cluster, isCluster, db, the keyspace subscription and its goroutine | Connect, ConnectCluster, Disconnect, SelectDB, Subscribe/UnsubscribeKeyspace; every command reads it | all command goroutines, under `c.mu` and, in two places, without it | operations are several lock sections with network calls between them |
| key list (internal/ui) | Keys, KeyCursor, SelectedKeyIdx, KeyPattern and the filter field, the preview, the delete dialog | some 20 keys, 2 debounce timers, the TTL tick, 14 results | commands; the other screens through SelectedKeyIdx | results out of order; the keyspace changes under it |
| key detail, editor, forms (internal/ui) | CurrentKey (a copy or a pointer into Keys), CurrentValue, the editor, inputs | open, edit, rename, TTL, add and remove items | late results; the tick through the pointer | the value shown and the key edited are tied by nothing but order |
| status line (internal/ui/status.go) | StatusMsg, statusID, timers | any handler sets it; timers clear it | all handlers | timers of earlier texts |
| log ring (internal/types/logger.go) and log screen | buf, head, count; cursor, detail | Write from any goroutine, GetLogs, Len; keys | all goroutines that log | wrap-around; the cursor is from an earlier length |
| configuration (internal/db/config.go, main.go initConfig) | connections and groups, favorites, recent keys, templates, settings, value history, next id; one JSON file | add, update, delete, remember, clear; load, migrate | command goroutines, under `c.mu` | a save that fails or is cut short; restarts |
| self-update (update.go) | the binary, its backup, the staged one | download, verify, extract, rename, copy, roll back | the operating system | each call may fail; a kill between two |
| session: connection list and form, connecting, metrics, screens (internal/ui) | Screen, Connections, SelectedConnIdx, EditingConnection, ConnInputs and ConnFocusIdx, LiveMetricsActive | some 25 keys, a tick, 8 results | every result that changes Screen | results that come after the user has gone on; a form whose fields depend on its checkboxes |
| scans and searches (internal/redis: client.go, enumeration.go, operations.go) | local to one call: cursors, the callback's slice or heap, a stop flag | scanAll, scanEach, scanLimited and the searches, bulk delete and batch TTL on them | one goroutine per master of a cluster, under one mutex | the keyspace and the client change in mid-scan |
| export and import (io.go) | local to one call; the file | export in chunks of two pipelines; import key by key | the keyspace | keys change between the calls; errors are dropped |
| values, server information, Vault | local to one call | reads | the shared client | parsing |
| views, types, command line, wiring | none | | | |

What makes each correct:

- Redis client: the fields agree with each other, the installed client is open, one
  keyspace goroutine at most is live, a database switch reaches every connection.
- Key list: the pattern in force is what the filter shows; the preview is of the
  selected row once answers are in; the selection is a row.
- Key detail: what a form submits goes to the key it was opened for, if that key was
  opened as a copy of its row; an open form has a key; only text is edited; a tick drops
  expired keys only.
- Status line: a timer clears its own text only; the line keeps no text for good but that
  a key is watched.
- Log ring: readers see the last MaxLogs lines in order; the screen stays on an entry.
- Configuration: ids are unique across restarts; a restart loses nothing but secrets
  unless the last save failed; an addition is saved or undone.
- Self-update: a working binary is never lost; an update that says so has installed what
  it extracted.
- Session: the form saves to the connection it was filled from and types into the field
  it shows; the list on the screen is the stored one once results are in; metrics that
  were left stay away.
- Scans: a scan that succeeds has all that was there throughout and nothing that never
  was; a search keeps to its limit and fills it before it leaves a key out; a bulk
  delete misses no key, and a batch TTL counts no key it missed; no goroutine waits for
  ever.
- Export and import: a success that lost no pipeline and stayed on its server has every
  key nobody wrote meanwhile, and a success whose writes all succeeded brings it back.

## Modules

| module | models | refines / is used by |
|---|---|---|
| `RedisClient` | Client's lock sections as steps of goroutines | `RedisClientProofs`, `MCRedisClient` |
| `KeyList` | the key list, its commands in flight, the server's keyspace | `KeyListProofs`, `MCKeyList` |
| `KeyDetail` | the open key, its forms and results, the TTL tick | `KeyDetailProofs`, `MCKeyDetail` |
| `LogRing` | LogWriter and the log screen | implements `BoundedLog`; `LocalProofs`, `MCLocal` |
| `BoundedLog` | what the log promises: the last MaxLogs lines | |
| `StatusBar` | Update's status line and its timers | extended by `Session`; `SessionProofs` |
| `Session` | connection list, form, connecting, metrics, screens; each handler writes the status line through `StatusBar` | `SessionProofs`, `MCSession` |
| `ConfigStore` | Config, its file, migration, restarts | `ConfigStoreProofs`, `MCConfigStore` |
| `SelfUpdate` | runUpdate and replaceBinary, call by call | `LocalProofs`, `MCLocal` |
| `Sweep` | the scans with every operation built on them, one goroutine per master | implements `ScanPromise`; `SweepProofs`, `MCSweep` |
| `ScanPromise` | what a scan of the whole keyspace promises | used by `Backup` as its scan |
| `Backup` | ExportKeys, the file, ImportKeys | `BackupProofs`, `MCBackup` |

**RedisClient.** A goroutine (`pc`, `local`) is between two lock sections of one
operation; a section is one action, and what the goroutine read before it is in `local`.
go-redis clients are handles that are unused, open or closed, with a pool of connections
that each have a database. `CancelKeyspace` is the locked part of UnsubscribeKeyspace
and of disconnectLocked, `DisconnectLocked` the latter. A call on a nil client sets
`crashed`, after which nothing moves. Commands that hold the read lock to the end
(`do`, `pipeline`) change nothing but by panicking.

**KeyList.** A slot is one goroutine: first the command, then its message. `Run...`
actions are the moment the server answers, the actions named after messages are the
handlers. `screen` is "keys", "confirm" (the delete dialog) or "away", any other screen,
from which `Submit` starts the commands that touch the list. `Matches`, `PageOf` and
`InOrder` leave the glob syntax and the order of SCAN open. `unasked` is a history
variable: the selected row changed in a handler that asks for no preview (delete, sort,
expiry, search, browsing). `Panicked` is a list with rows and selection -1, which the
next frame indexes.

**KeyDetail.** `current` is CurrentKey: nil, a copy of a row (`Own`), or a pointer to an
element of the array under m.Keys (`Element`), as favorites, recent keys and the tree
set it. Go slices share their array, so the module has `array` and `count`: squeezing
out rows leaves a stale tail that the pointer may still be at, an append reuses the tail
or moves to a new array, and then the pointer is `Loose`. Slots are as in KeyList.
`form` is a history variable, the key whose form is open. "other" stands for every
screen that is not about one key; what those do to the list is KeyList's. The
expiring-keys screen is one of them: it opens its rows as they were when it was shown
(`expiring`). `AskForm` to `SubmitRemove` are the keys of the detail screen and its
forms; the editor's quit is a message of its own (`EditorPosts`), while ctrl+s is taken
before the editor sees it. FormKeepsKey and EditsText speak of copies: with a pointer
the tick shifts another row under an open form, which the module reaches
(update.go:228-252).

**LogRing.** One action per method and per key of the log screen. The refinement mapping
is GetLogs itself.

**StatusBar.** `Update(t)` is any handler that leaves another text; it numbers the text
and starts the timer. Timers fire in any order, which covers both durations. `Sticky` is
isStickyStatus: in Session it is Connecting... and the text that a key is watched, which
`Watch` sets and neither a timer nor esc takes away (`LeaveOther`).

**Session.** Slots are as in KeyList. `Say(t)` is what a handler does to the status line:
nothing when the text stays, `StatusBar`'s `Update` otherwise, so that each of its steps
is a step of StatusBar. The form is its focus index, the inputs that have the focus and
its two checkboxes, which decide how many fields there are (`FieldCount`, `InputIndex`);
what is typed is left out. `Show(s)` is a result that changes the screen over whatever is
open. History variables mark what the code does not undo: `disturbed` (a form was closed
by a result, or its test by "?", without being reset), `stale` (a load of the list
crossed a change, or a delete was not saved), `left` (metrics left with no reading under
way). FormAgrees and ListAgrees are stated beside them; the observations below say what
happens then. "other" stands for the screens that show one reply.

**ConfigStore.** Each operation is one step, because `c.mu` is held until the file is
written. `Change` and `ChangeOrRollBack` are the two shapes the code has: without and
with undoing memory when save fails. A save may write all, fail before or in the
middle (`SaveFails`), or be killed in the middle (`KilledInSave`). A torn file keeps the
program from starting (`Start`) until the user removes it. `Loaded` is what Unmarshal
makes of the file, which it reads into the defaults: each of a template's optional parts
(description, TTL, value, each field of the map) on its own. The older version's file may
hold passwords; `Migrate` copies its bytes. The value history is in memory only.

**SelfUpdate.** `phase` is the system call that comes next; each may fail, and `Kill` may
come before any of them. `running` is the version that runs the
update, which may differ from what is at the path it installs to (the fallback in
~/.local/bin), and by which alone "Already up to date" is decided. A release larger than
maxBinarySize is `oversized`, and `Extracted` is what is left of it.

**Sweep.** One run is one operation: a search (regex, fuzzy, by value, memory sample), a
count of prefixes, a bulk delete or a batch TTL. Outside cluster mode one loop reads
page after page, from whatever server the client talks to by then; in cluster mode each
master has a goroutine, and the operation's callback runs under the mutex of scanEach.
SCAN is modelled by its guarantee: a cursor over buckets, a key in a fixed bucket, keys
that may be returned twice. Matching is a constant set and the fuzzy score a constant
function. Chunks follow for the writing operations; of a batch TTL's pipeline any
commands may be done and any of those answered, since its error is ignored. `Considered`
and `Picked` are the callbacks' loops over a page, written as recursive functions like
the other loops of the modules that are proved about (`Remaining` in ConfigStore).

**Backup.** The scan is ScanPromise's (whose `End` picks any result it allows), so the
module composes what Sweep implements. Chunks read types and TTLs in one pipeline and
values, command by command, in the next; other clients write in between. There are two
servers: each pipeline keeps the client it was made from (`pipe`), each write of an
import goes to the client of the moment (`at`), and `Reconnect` may come between any
two. `Texts` is what json.MarshalIndent writes and the import reads: U+FFFD for what is
not UTF-8, in values and in names, of which two may become one; and an infinite score is
an error before the file is touched (`Unwritable`). A value is a bag of elements, a JSON
document also counts the arrays around it. An import writes a value, then its TTL.

## Runs

| run | question | bounds, and why they are enough | states | result |
|---|---|---|---|---|
| local | the log: wrap-around, cursor, refinement; the update: every failure and kill | 3 slots, 3 lines (one DEBUG): full, wrapped at every head, every cursor; the update needs no bound. The two share no state, and are in one run only for that | 0.2 M | holds |
| redis_client | interleavings of two goroutines | 2 goroutines that may both connect, 2 clients, 2 subscriptions: an overlap needs two of each | | holds |
| redis_select | does SELECT reach the pool? | 2 connections in the pool | | violated |
| key_list | previews against commands that overtake them | 2 keys, 2 goroutines, 1 debounce timer, one SCAN page, failures on | | holds |
| key_timers | filter and preview timers | 2 keys on 2 pages, 2 timers, 1 goroutine, 2 texts, 1 notification | | holds |
| key_detail | late results and ticks against open forms | 2 keys, 2 goroutines, 4 commands, TTL of 1 second: enough to load, open two keys and submit while an earlier result is still to come | 3.6 M | holds |
| key_persist | does TTL 0 keep the key in the list? | 1 goroutine | | violated |
| config_store | failed saves, kills, restarts, migration | 2 ids, so that one is given out again; 2 recent keys; 3 templates, 2 of them defaults; 4 uses (`Uses`) | 0.8 M | holds |
| config_migration | does the migration strip passwords? | as config_store | | violated |
| session | late results against the form, the list, the metrics and the status line | 2 goroutines, 2 connection ids, 1 reading, 3 changes of the status line; 4 uses (`Uses`): two list commands cross, a connect fails beside a form, a metrics reply comes late | 1.1 M | holds |
| sweep | every search and bulk change, on one server and on two masters | 4 keys, 3 on 2 pages of one master; limit and chunk of 2 keys: the limit is reached in mid-page and by two goroutines at a time, and a chunk is left over; 1 foreign write, 1 repeated key | 0.3 M | holds |
| backup | an export, foreign writes, a reconnect, an import into either server | 4 keys in chunks of 2, one of them with a name that is not UTF-8 and becomes another's; every type once, a value that is not UTF-8, an infinite score, TTLs none, under half a second, more; 1 foreign write, 1 reconnect each during the export and the import, 1 import (a second one finds what Others and AtOther put there already) | 5.2 M | holds |

`Uses` is a bound: what the user of one behaviour does, so that the product of unrelated
features is not explored. Every two features that share state are together in one of its
sets.

`CHECK_DEADLOCK FALSE` is said where a run really ends: after a panic or when the
handles are used up (RedisClient), at the bound on changes of the status line (Session),
and when a kill left no binary to start (SelfUpdate).

**Fairness.** Session: weak fairness of each connect's answer, which go-redis gives or
times out, and of each timer's message, which tea.Tick always sends and the event loop
handles. From it follows `StatusMovesOn`. Sweep: weak fairness of each goroutine's steps,
as go-redis calls answer or time out, goroutines are scheduled and Go's mutex hands
itself on to who waits; from it follows `ScanComesToEnd`. Nothing else is assumed to
happen: the user may do nothing, and safety needs no fairness.

## Findings

Three runs show the code against its own words (details in PROJECT.json):

- `redis_select`: SELECT changes one connection of the pool (connection.go:268).
- `config_migration`: the first start copies the older version's file with its passwords
  (main.go:262, against README.md:414 and main.go:244). `PasswordsOnlyMigrated` says what
  holds: they are gone with the first save.
- `key_persist`: removing a key's expiry drops it from the list (messages_keys.go:207).

What was seen while modelling, without a run of its own; the models have these behaviours
and their properties are stated around them:

- All rows expire in one tick: the selection becomes -1 and the next frame indexes with it
  (update.go:253, view_keys_list.go:102; `Panicked`).
- A late LiveMetricsMsg reopens the metrics after esc, and "?" leaves them active
  (messages_server.go:193). ctrl+e only flips KeyspaceSubActive, events go on
  (screens_keys.go:221). A failed connect leaves CurrentConn on the connection that
  failed.
- A late result, or "?" on the connection test, closes the connection form without a
  reset: the next edit starts at the old ConnFocusIdx (`disturbed`).
- A load of the connections that crosses an added one duplicates or loses its row, and a
  delete that was not saved stays in the list while memory has lost it (`stale`).
- The next id is one above the highest in the file: after a restart the id of a deleted
  connection is given out again, and the new one inherits its favorites and groups.
- Templates are merged with the defaults place by place, and an empty list brings the
  defaults back (config.go:117; config_persistence_test.go:581).
- A reconnect in mid-scan outside cluster mode mixes two servers (client.go:114,
  operations.go:129; `moved`). A search by value sends its TYPE and value pipelines to
  the client of the moment even in cluster mode (enumeration.go:316, 328), so there too
  a reconnect ends what it promises (`OneSource`). A key that SCAN returns twice takes
  two places of a limit and is counted twice, so the fuzzy search's "correct global
  top-N" (enumeration.go:184) may lack one of the best; SearchComplete then counts
  places, and demands different keys only if SCAN repeated none. A failed DEL in a chunk
  loses the count.
- A search by value and a batch TTL ignore the errors of their pipelines and report
  success (enumeration.go:321, 360, operations.go:177); the TTL's count is then too
  small. An export ignores both of its own (io.go:33, 77; io_test.go:628 expects a
  success with 0 entries).
- A reconnect in mid-export or mid-import sends the rest to the other server (io.go:26,
  49, 168, operations.go:141; `Reconnect`).
- JSON turns what is not UTF-8 (bitmaps, HyperLogLogs, binary strings and names) into
  U+FFFD under a success, and one infinite score in a sorted set fails the whole export
  (commands_io.go:24).
- "Watching key for changes..." stays on the status line until another text comes, also
  after esc has ended the watching (status.go:50, screens_keys.go:443).
- "Already up to date" is about the running program (update.go:85); the file that an
  update would have installed to may be older, or missing.
- An and counts the key (io.go:168); over a key of another type it
  fails and still sets the TTL (io.go:183); a second import doubles lists; streams are
  exported and not imported (README.md:85); JSON documents gain an array around them
  (preview.go:79); the export truncates an older backup before it writes.
- A value shown under a key may be another key's while its own is loading
  (screens_navigation.go:25, messages_keys.go:42), and long values are cut
  (preview.go:16): saving then writes what is shown.
- WatchTickMsg is handled nowhere (README.md:97 says as much).

## Proofs

`tlapm` proves, for every value of the constants, every safety invariant and every action
property and refinement that the passing runs check:

- `RedisClientProofs`: types, `ClusterFlagAgrees`, `CurrentHandleOpen`, `OneLiveListener`.
  They are inductive together: closing and clearing happen in the same lock section.
- `KeyListProofs`: types, `FilterConverges`, `PreviewConverges`. The last needs a
  strengthening, `PreviewInv`: the selected row is `Covered`, by the pane, by a preview
  under way for it, by the newest timer for it, or by `unasked`; a newest timer for
  another row would be dropped by PreviewDebounceMsg, and that is the case the
  strengthening rules out.
- `KeyDetailProofs`: types, with the pointer in its array, and `FormHasKey`,
  `FormKeepsKey`, `EditsText`. The three lean on each other: which key a form was opened
  for says that there is one, and that its type is the one the editor was opened on.
- `SessionProofs`: types and `TimerClearsOwn` of StatusBar; every step of the session is a
  step of StatusBar or leaves it alone (`SessionStep`), so that both hold in the session;
  `SessionTypeOK`; `MetricsStayLeft`; `FormAgrees`, strengthened to the screens outside
  the form (`FormIInv`): there an undisturbed index is at the start, where the next form
  begins without a reset; and `ListAgrees`. For that one `ListIInv` says how far the two
  lists may be apart: unless the list is `stale`, one command or message at most is about
  it, and what is on the screen differs from what is stored by exactly what that message
  still has to do (`Owed`): a row to append, with an id above the others, one to replace,
  one to remove, or nothing. A load that nothing crossed is alone (`Alone`). What an
  append, a replacement and a removal make of a list in order are lemmas of their own
  (`AppendSorted`, `ReplaceSorted`, `RemoveSorted`).
- `SweepProofs`: types, `LimitRespected`, `SearchComplete`, `BulkComplete`, and that a
  scan keeps `ScanPromise` (`KeepsPromise`), each on the invariant before it. `Places`
  ties each goroutine's place to the phase and to its page; `Counted` is what has been
  kept against the limit. `Cover` is the heart: as long as there is one server, every
  key that was there throughout is `Ahead` of the cursor of its node, or on that node's
  page, or `Had` (kept, not wanted, or left out for a full result with no worse one in
  it); `Origin` that nothing comes from nowhere; `Dealt` that the chunks so far are
  deleted or, of a batch TTL, that the keys left alone in them make up at most what the
  count is short of. The refinement goes step by step: a page, a callback or an error is a stutter,
  `ScanEnds` the promise's `End`. The callbacks' loops are proved with the invariant of
  a loop: a sequence for each number of keys seen, by induction over a set of numbers.
- `BackupProofs`: types, `ExportComplete` and `ImportRestores`. An export knows that no
  one has written the steady keys (`Steadfast`), that the scan has them (`Scanned`), and
  that in the chunk at hand each has answered in the order of the pipelines or is still
  to answer (`Exported`). An import knows that what is still to be written is in the
  file as it is there (`Reads`), and that a key is absent, as in the file but for its
  TTL, or as in the file, according to which of its two writes are done (`Restored`).
- `ConfigStoreProofs`: types, with the limits of the lists; `IdsDistinct` and
  `AddedOnlyIfSaved`; `PasswordsOnlyMigrated`, whatever the older version's file
  holds; and `RestartKeepsConfig`, for any defaults and presets, while no write has failed
  (`behind`). One lemma, `Steps`, reduces every operation to `Rewrite`: memory and the file, or one of them, get the same
  configuration. The strengthening is that both files are `Sound`, since the next start
  makes them the memory.
- `LocalProofs`: of the log ring types, `NoUnwrittenEntry`, `CursorOnEntry`, and that
  LogRing implements BoundedLog (that unwritten slots are exactly those from `count` on,
  and that an unfilled ring starts at 0, is what makes overwriting `buf[head]` the same
  as dropping the first line); of the self-update types, `UpdateKeepsProgram` and
  `SuccessInstallsNew`, from `Kept` (which path holds the old program in each phase) and
  `Staging`.

The assumptions are the named ASSUMEs of the modules; TLC evaluates them on every run.

Only model-checked: liveness (`StatusMovesOn`, `ScanComesToEnd`), which the provers here
cannot do, and the three runs that find a violation.

What the theorems leave out, each named in the property's formula and reachable in its
module:

- a failed pipeline whose error the code ignores (`broken`): nothing is claimed of an export,
  an import or a search by value after it;
- a reconnect in the middle (`moved`): nothing of an export, an import, a bulk change or a
  search by value, nor, outside cluster mode, of any other search or scan;
- a key that SCAN repeats (`repeats`): a search has only filled its places;
- a pointer into the list (`current.at`): nothing of which key a form or the editor is on;
- a failed write (`behind`): nothing of what a restart keeps.

## Not modelled

- Rendering: no state; the two places where it indexes with the model's cursors are in
  KeyList and LogRing.
- Glob and fuzzy matching, value decoding, INFO, SLOWLOG and CLIENT LIST parsing, Vault
  paths, flags, the key tree: functions of one call's data, kept as constants where a
  property depends on their result.
- Screens that show one reply (slow log, clients, memory, Lua, PubSub), the clipboard, the
  JSON path filter, the value history screen: they hold a reply until they are left.
- What the user types, and with it which text the editor saves; SetIncludeTypes,
  TestConnection's own client, PUBLISH.
- Test doubles, the seed program, scripts: not part of the program.
