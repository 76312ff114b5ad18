------------------------------ MODULE Session ------------------------------
(***************************************************************************)
(* internal/ui: the session around the key list: the list of connections,  *)
(* the form that adds, edits and tests one, connecting, the live metrics   *)
(* and the way between the screens, all inside Update, which looks after   *)
(* the status line (StatusBar).  A slot is a goroutine that runs a tea.Cmd:*)
(* first the command, then the message that waits to be handled.           *)
(***************************************************************************)
EXTENDS StatusBar, Integers, SequencesExt

CONSTANTS Stored,    \* the connections in the configuration at first
          Slots,     \* goroutines that may run at a time
          None,
          \* bounds on what a run may do
          MaxConnID, \* the last id that is given out
          MaxReads,  \* readings of the metrics under way
          MayFail,   \* commands may fail
          Uses       \* sets of what the user does, of which a run has one: see UserOps

\* The two of isStickyStatus, and the others.
Connecting == "Connecting..."
Watching == "Watching key for changes..."
Written == {"Connection added", "Connection updated", "Connection deleted", "Connected",
            "Connection failed", "Watch stopped", "Error: "}

\* A connection, as far as the form lays out its fields by it.
Connections == [id : 1 .. MaxConnID, vault : BOOLEAN, cluster : BOOLEAN]

\* Go through the form, with its test and help; change and reload the list; name a connection
\* on the command line; connect; look at the metrics; look at other screens.
UserOps == {"form", "list", "auto", "connect", "metrics", "screens"}

ASSUME SessionAssumption ==
  /\ Texts = Written \cup {NoText} \cup Sticky /\ Sticky = {Connecting, Watching}
  /\ MaxConnID \in Nat /\ MaxReads \in Nat /\ MayFail \in BOOLEAN
  /\ None \notin 1 .. MaxConnID
  /\ Uses \subseteq SUBSET UserOps
  /\ Stored \subseteq Connections /\ \A c, d \in Stored : c.id = d.id => c = d

VARIABLES uses,      \* bound: what the user of this run does
          screen,
          stored,    \* Config.Connections
          nextID,    \* Config.nextID
          conns,     \* Model.Connections
          row,       \* Model.SelectedConnIdx, counted from 0
          confirm,   \* Model.ConfirmData: a connection's id, or None for a key or a flush
          connected, \* Model.CurrentConn # nil: a connect was asked for
          editing,   \* Model.EditingConnection: its id
          focus,     \* Model.ConnFocusIdx
          lit,       \* the ConnInputs that have the focus
          useVault, clusterMode, \* Model.ConnUseVault, ConnClusterMode
          metrics,   \* Model.LiveMetricsActive
          reads,     \* readings of the metrics under way
          watch,     \* Model.WatchActive
          slots,     \* the commands and messages under way
          inputsOf,  \* history: the connection the inputs were filled from
          disturbed, \* history: a result, or help, closed the form and did not reset it
          stale,     \* history: not loaded since changes and loads crossed or a delete failed
          left       \* history: the user left the metrics and no reading was under way

list == <<uses, stored, nextID, conns, row, stale>>
form == <<editing, focus, lit, useVault, clusterMode, inputsOf, disturbed>>
live == <<metrics, reads, left, watch>>
line == <<status, statusID, timers>>
allVars == <<status, statusID, timers, uses, screen, stored, nextID, conns, row, confirm, connected,
             editing, focus, lit, useVault, clusterMode, metrics, reads, watch,
             slots, inputsOf, disturbed, stale, left>>

Free == [op |-> "free"]
ListOps == {"load", "loaded", "add", "added", "update", "updated", "delete", "deleted"}
Screens == {"connections", "add", "edit", "test", "confirm", "keys", "help", "metrics", "other"}

SessionInit ==
  /\ Init /\ uses \in Uses
  /\ screen = "connections" /\ stored = Stored
  /\ nextID = Max({c.id : c \in Stored} \cup {0}) + 1
  /\ conns = << >> /\ row = 0 /\ confirm = None /\ connected = FALSE
  /\ editing = None /\ focus = 0 /\ lit = {0} /\ useVault = FALSE /\ clusterMode = FALSE
  /\ inputsOf = None /\ disturbed = FALSE
  /\ metrics = FALSE /\ reads = 0 /\ left = FALSE /\ watch = FALSE
  /\ LET s == CHOOSE s \in Slots : TRUE
         x == CHOOSE x \in Slots : x # s
     IN slots = [i \in Slots |-> IF i = s THEN [op |-> "load", crossed |-> FALSE]
                                 ELSE IF i = x /\ "auto" \in uses THEN [op |-> "auto"] ELSE Free]
  /\ stale = TRUE

Busy(s) == slots[s].op # "free"

\* Every command under way may still write a text: the bound leaves room for those.  The
\* uses that change the list, which branch most, have one change less.
Room(n) ==
  (IF "list" \in uses THEN 1 ELSE 0) + statusID + reads + n + Cardinality({s \in Slots : Busy(s)})
    + Cardinality({s \in Slots : slots[s].op = "auto"}) <= MaxID

\* A handler leaves text t.
Say(t) == IF t = status THEN UNCHANGED line ELSE Update(t)

AllBusy == \A s \in Slots : Busy(s)
FreeSlot == CHOOSE s \in Slots : ~Busy(s)

\* A command starts that has nothing to do with the list of connections.
Start(c) == ~AllBusy /\ slots' = [slots EXCEPT ![FreeSlot] = c]

\* One that reads or changes it, and crosses the others under way.
StartOnList(c) ==
  LET others == {s \in Slots : slots[s].op \in ListOps}
      Crossed(x) == IF x.op \in {"load", "loaded"} THEN [x EXCEPT !.crossed = TRUE] ELSE x
  IN /\ ~AllBusy
     /\ slots' = [s \in Slots |->
          IF s # FreeSlot THEN Crossed(slots[s])
          ELSE IF c.op = "load" THEN [c EXCEPT !.crossed = others # {}] ELSE c]
     /\ stale' = (stale \/ others # {})

------------------------------------------------------------------------------
(* The form: its fields are the inputs 0 .. 8 and two checkboxes.  What is typed into the
   inputs is left to the user, who has filled in the two that enter asks for *)

NoInput == -1
VaultToggle == 5
ClusterToggle == IF useVault THEN 9 ELSE 6

\* connInputIndex.
InputIndex(i) ==
  CASE i <= 4 -> i
    [] i > 4 /\ useVault -> IF i \in 6 .. 8 THEN i - 1 ELSE IF i = 10 THEN 8 ELSE NoInput
    [] OTHER -> IF i = 7 THEN 8 ELSE NoInput

FieldCount == 7 + (IF useVault THEN 3 ELSE 0) + (IF clusterMode THEN 0 ELSE 1)

FormOpen == screen \in {"add", "edit"}
OnToggle == focus \in {VaultToggle, ClusterToggle}

ResetConnInputs ==
  /\ focus' = 0 /\ lit' = {0} /\ useVault' = FALSE /\ clusterMode' = FALSE
  /\ inputsOf' = None /\ disturbed' = FALSE

OpenAdd ==
  /\ screen = "connections" /\ screen' = "add"
  /\ ResetConnInputs
  /\ UNCHANGED <<line, list, confirm, connected, editing, live, slots>>

Row == conns[row + 1]
HasRow == row < Len(conns)

\* populateConnInputs fills the inputs and leaves the focus where it was.
OpenEdit ==
  /\ screen = "connections" /\ HasRow
  /\ screen' = "edit" /\ editing' = Row.id
  /\ useVault' = Row.vault /\ clusterMode' = Row.cluster
  /\ inputsOf' = Row.id
  /\ UNCHANGED <<line, list, confirm, connected, focus, lit, disturbed, live, slots>>

\* tab and shift+tab: blurConnField, the index, focusConnField.
FocusField(i) ==
  /\ "form" \in uses
  /\ FormOpen
  /\ focus' = i
  /\ lit' = (lit \ {InputIndex(focus)}) \cup ({InputIndex(i)} \ {NoInput})
  /\ UNCHANGED <<line, list, screen, confirm, connected, editing, useVault, clusterMode,
                 inputsOf, disturbed, live, slots>>

\* Mutated form: the index runs over the fields of the longest form.
TabOverAll ==
  \/ FocusField((focus + 1) % 11)
  \/ FocusField(IF focus = 0 THEN 10 ELSE focus - 1)

Tab ==
  \/ FocusField((focus + 1) % FieldCount)
  \/ FocusField(IF focus = 0 THEN FieldCount - 1 ELSE focus - 1)

\* toggleConnCheckbox: space or enter on a checkbox.
Toggle ==
  /\ "form" \in uses
  /\ FormOpen
  /\ \/ focus = VaultToggle /\ useVault' = ~useVault /\ UNCHANGED clusterMode
     \/ focus = ClusterToggle /\ clusterMode' = ~clusterMode /\ UNCHANGED useVault
  /\ UNCHANGED <<line, list, screen, confirm, connected, editing, focus, lit, inputsOf,
                 disturbed, live, slots>>

\* convertCurrentInputsToConnection: the vault's fields may be empty.
Inputs(id) == {[id |-> id, vault |-> v, cluster |-> clusterMode] : v \in {FALSE, useVault}}

\* enter; the form stays open until the result is there, so it may be repeated.
SubmitAdd ==
  /\ "list" \in uses
  /\ screen = "add" /\ ~OnToggle
  /\ Room(1) /\ nextID <= MaxConnID
  /\ \E c \in Inputs(1) : StartOnList([op |-> "add", conn |-> c])
  /\ UNCHANGED <<line, uses, stored, nextID, conns, row, screen, confirm, connected, form, live>>

SubmitEdit ==
  /\ "list" \in uses
  /\ screen = "edit" /\ ~OnToggle /\ editing # None
  /\ Room(1)
  /\ \E c \in Inputs(editing) : StartOnList([op |-> "update", conn |-> c])
  /\ UNCHANGED <<line, uses, stored, nextID, conns, row, screen, confirm, connected, form, live>>

\* ctrl+t; what the test answers is shown and changes nothing else.
TestConnection ==
  /\ "form" \in uses
  /\ screen = "add" /\ screen' = "test"
  /\ UNCHANGED <<line, list, confirm, connected, form, live, slots>>

LeaveTest ==
  /\ screen = "test" /\ screen' = "add"
  /\ UNCHANGED <<line, list, confirm, connected, form, live, slots>>

LeaveForm ==
  /\ FormOpen /\ screen' = "connections"
  /\ ResetConnInputs
  /\ editing' = IF screen = "edit" THEN None ELSE editing
  /\ UNCHANGED <<line, list, confirm, connected, live, slots>>

\* A result shows screen s, over whatever is open; so does "?" over the test.
Show(s) ==
  /\ screen' = s
  /\ disturbed' = (disturbed \/ FormOpen \/ screen = "test")

------------------------------------------------------------------------------
(* The other keys *)

\* The keys of the connection list.
MoveRow ==
  /\ screen = "connections"
  /\ row' \in {Max({row - 1, 0}), IF row < Len(conns) - 1 THEN row + 1 ELSE row}
  /\ UNCHANGED <<line, uses, stored, nextID, conns, stale, screen, confirm, connected, form, live, slots>>

Connect ==
  /\ "connect" \in uses
  /\ screen = "connections" /\ HasRow
  /\ Room(2)
  /\ connected' = TRUE
  /\ Start([op |-> "connect"])
  /\ Say(Connecting)
  /\ UNCHANGED <<list, screen, confirm, form, live>>

LoadConnections ==
  /\ "list" \in uses
  /\ screen = "connections"
  /\ Room(1)
  /\ StartOnList([op |-> "load", crossed |-> FALSE])
  /\ UNCHANGED <<line, uses, stored, nextID, conns, row, screen, confirm, connected, form, live>>

AskDelete ==
  /\ \/ "list" \in uses /\ screen = "connections" /\ HasRow /\ confirm' = Row.id
     \/ "screens" \in uses /\ screen \in {"keys", "other"} /\ confirm' = None
  /\ screen' = "confirm"
  /\ UNCHANGED <<line, list, connected, form, live, slots>>

\* y: the dialog stays open until the result is there, so it may be repeated.
Confirm ==
  /\ screen = "confirm"
  /\ Room(1)
  /\ IF confirm = None THEN Start([op |-> "info"]) /\ UNCHANGED stale
     ELSE StartOnList([op |-> "delete", id |-> confirm])
  /\ UNCHANGED <<line, uses, stored, nextID, conns, row, screen, confirm, connected, form, live>>

Decline ==
  /\ screen = "confirm"
  /\ screen' \in IF confirm = None THEN {"keys", "other"} ELSE {"connections"}
  /\ UNCHANGED <<line, list, confirm, connected, form, live, slots>>

\* "?", and back to the keys of a connection or to the list of connections.
Help ==
  /\ "list" \notin uses
  /\ screen \notin {"help", "add", "edit"} /\ Show("help")
  /\ UNCHANGED <<line, list, confirm, connected, editing, focus, lit, useVault, clusterMode,
                 inputsOf, live, slots>>

LeaveHelp ==
  /\ screen = "help"
  /\ screen' = IF connected THEN "keys" ELSE "connections"
  /\ UNCHANGED <<line, list, confirm, connected, form, live, slots>>

\* esc on the key list stays connected; other screens open by a key, or when their data
\* has been loaded.
OpenOther ==
  /\ screen = "keys" /\ screen' \in {"connections", "other"}
  /\ UNCHANGED <<line, list, confirm, connected, form, live, slots>>

\* esc; on the detail screen it ends the watching, and leaves its text.
LeaveOther ==
  /\ screen = "other" /\ screen' = "keys"
  /\ watch' \in {watch, FALSE}
  /\ UNCHANGED <<line, list, confirm, connected, form, metrics, reads, left, slots>>

\* "w" on the detail screen, of the key that is watched or of another one.
Watch ==
  /\ "screens" \in uses
  /\ screen = "other"
  /\ Room(1)
  /\ \/ watch' = TRUE /\ Say(Watching)
     \/ watch /\ watch' = FALSE /\ Say("Watch stopped")
  /\ UNCHANGED <<list, screen, confirm, connected, form, metrics, reads, left, slots>>

Load ==
  /\ "screens" \in uses
  /\ screen \in {"keys", "other"}
  /\ Room(1)
  /\ Start([op |-> "info"])
  /\ UNCHANGED <<line, list, screen, confirm, connected, form, live>>

------------------------------------------------------------------------------
(* The live metrics *)

Read == reads < MaxReads /\ reads' = reads + 1

\* "m"; the screen is shown when the first reading is there.
OpenMetrics ==
  /\ "metrics" \in uses
  /\ screen = "keys"
  /\ Room(1) /\ Read
  /\ metrics' = TRUE /\ left' = FALSE
  /\ UNCHANGED <<line, list, screen, confirm, connected, form, watch, slots>>

LeaveMetrics ==
  /\ screen = "metrics" /\ screen' = "keys"
  /\ metrics' = FALSE /\ left' = (reads = 0)
  /\ UNCHANGED <<line, list, confirm, connected, form, reads, watch, slots>>

\* Mutated form: the tick reads the metrics on the screens beside theirs too.
TickAlways ==
  /\ metrics \/ screen = "keys"
  /\ Room(1) /\ Read
  /\ UNCHANGED <<line, list, screen, confirm, connected, form, metrics, left, watch, slots>>

\* TickMsg, every second: also while an earlier reading is under way.
Tick ==
  /\ metrics
  /\ Room(1) /\ Read
  /\ UNCHANGED <<line, list, screen, confirm, connected, form, metrics, left, watch, slots>>

\* LiveMetricsMsg: shows the screen and turns the reading on, whatever the user did since.
LiveMetrics ==
  /\ reads > 0 /\ reads' = reads - 1
  /\ \/ Show("metrics") /\ metrics' = TRUE /\ UNCHANGED line
     \/ MayFail /\ Say("Error: ") /\ UNCHANGED <<screen, disturbed, metrics>>
  /\ UNCHANGED <<list, confirm, connected, editing, focus, lit, useVault, clusterMode,
                 inputsOf, left, watch, slots>>

------------------------------------------------------------------------------
(* Commands *)

Runs(s, op, m) == slots[s].op = op /\ slots' = [slots EXCEPT ![s] = m]
Elsewhere == <<uses, line, conns, row, screen, confirm, connected, form, live>>

\* The order of ListConnections.
InOrder(S) ==
  {cs \in UNION {[1 .. n -> S] : n \in 0 .. MaxConnID} :
     /\ ToSet(cs) = S
     /\ \A i, j \in DOMAIN cs : i < j => cs[i].id < cs[j].id}

RunLoad(s) ==
  /\ slots[s].op = "load"
  /\ \E cs \in InOrder(stored) :
       Runs(s, "load", [op |-> "loaded", conns |-> cs, crossed |-> slots[s].crossed])
  /\ UNCHANGED <<stored, nextID, stale, Elsewhere>>

\* Config.AddConnection gives it the next id, and takes it back when the save fails.
RunAdd(s) ==
  /\ slots[s].op = "add" /\ nextID <= MaxConnID
  /\ LET c == [slots[s].conn EXCEPT !.id = nextID]
     IN \/ /\ Runs(s, "add", [op |-> "added", conn |-> c, ok |-> TRUE])
           /\ stored' = stored \cup {c} /\ nextID' = nextID + 1
        \/ /\ MayFail /\ Runs(s, "add", [op |-> "added", conn |-> c, ok |-> FALSE])
           /\ UNCHANGED <<stored, nextID>>
  /\ UNCHANGED <<stale, Elsewhere>>

\* Config.UpdateConnection: an error when it is gone.
RunUpdate(s) ==
  /\ slots[s].op = "update"
  /\ LET c == slots[s].conn
         old == {d \in stored : d.id = c.id}
     IN \/ /\ old # {} /\ Runs(s, "update", [op |-> "updated", conn |-> c, ok |-> TRUE])
           /\ stored' = (stored \ old) \cup {c}
        \/ /\ MayFail \/ old = {}
           /\ Runs(s, "update", [op |-> "updated", conn |-> c, ok |-> FALSE])
           /\ UNCHANGED stored
  /\ UNCHANGED <<nextID, stale, Elsewhere>>

\* Config.DeleteConnection does not put it back when the save fails.
RunDelete(s) ==
  /\ slots[s].op = "delete"
  /\ LET old == {d \in stored : d.id = slots[s].id}
     IN /\ stored' = stored \ old
        /\ \/ old # {} /\ Runs(s, "delete", [op |-> "deleted", id |-> slots[s].id, ok |-> TRUE])
              /\ UNCHANGED stale
           \/ /\ MayFail \/ old = {}
              /\ Runs(s, "delete", [op |-> "deleted", id |-> slots[s].id, ok |-> FALSE])
              /\ stale' = (stale \/ old # {})
  /\ UNCHANGED <<nextID, Elsewhere>>

------------------------------------------------------------------------------
(* Messages *)

Handle(s, op) == slots[s].op = op /\ slots' = [slots EXCEPT ![s] = Free]

\* The selected row is not moved into a shorter list.
ConnectionsLoaded(s) ==
  /\ Handle(s, "loaded")
  /\ \/ /\ conns' = slots[s].conns
        /\ stale' = (stale /\ slots[s].crossed)
        /\ Say(NoText)
     \/ MayFail /\ Say("Error: ") /\ UNCHANGED <<conns, stale>>
  /\ UNCHANGED <<uses, stored, nextID, row, screen, confirm, connected, form, live>>

ConnectionAdded(s) ==
  /\ Handle(s, "added")
  /\ IF slots[s].ok
       THEN /\ conns' = Append(conns, slots[s].conn)
            /\ screen' = "connections" /\ ResetConnInputs
            /\ Say("Connection added")
       ELSE Say("Error: ") /\ UNCHANGED <<conns, screen, focus, lit, useVault, clusterMode, inputsOf, disturbed>>
  /\ UNCHANGED <<uses, stored, nextID, row, stale, confirm, connected, editing, live>>

ConnectionUpdated(s) ==
  /\ Handle(s, "updated")
  /\ IF slots[s].ok
       THEN /\ LET i == SelectInSeq(conns, LAMBDA c : c.id = slots[s].conn.id)
               IN conns' = IF i = 0 THEN conns ELSE [conns EXCEPT ![i] = slots[s].conn]
            /\ screen' = "connections" /\ ResetConnInputs /\ editing' = None
            /\ Say("Connection updated")
       ELSE Say("Error: ") /\ UNCHANGED <<conns, screen, form>>
  /\ UNCHANGED <<uses, stored, nextID, row, stale, confirm, connected, live>>

\* Mutated form: an empty list has no row to step back to.
RowInShorter(cs) == IF row >= Len(cs) THEN row - 1 ELSE row

\* The row after a deletion.
RowIn(cs) == IF row >= Len(cs) /\ row > 0 THEN row - 1 ELSE row

Deleted(s, rest) ==
  /\ Handle(s, "deleted")
  /\ IF slots[s].ok
       THEN /\ conns' = rest
            /\ row' = RowIn(rest)
            /\ Say("Connection deleted")
       ELSE UNCHANGED <<line, conns, row>>
  /\ Show("connections")
  /\ UNCHANGED <<uses, stored, nextID, stale, confirm, connected, editing, focus, lit, useVault,
                 clusterMode, inputsOf, live>>

\* Mutated form: the selected row goes.
ConnectionDeletedRow(s) == Deleted(s, IF HasRow THEN RemoveAt(conns, row + 1) ELSE conns)

ConnectionDeleted(s) == Deleted(s, RemoveFirstMatch(conns, LAMBDA c : c.id = slots[s].id))

\* AutoConnectMsg, for a connection of the command line.
AutoConnect(s) ==
  /\ slots[s].op = "auto" /\ slots' = [slots EXCEPT ![s] = [op |-> "connect"]]
  /\ connected' = TRUE
  /\ Say(Connecting)
  /\ UNCHANGED <<list, screen, confirm, form, live>>

\* ConnectedMsg: a failure leaves CurrentConn on the connection that failed.
Connected(s) ==
  /\ Handle(s, "connect")
  /\ \/ /\ Show("keys") /\ metrics' = FALSE /\ left' = (left \/ (metrics /\ reads = 0))
        /\ Say("Connected")
     \/ MayFail /\ Say("Connection failed") /\ UNCHANGED <<screen, disturbed, metrics, left>>
  /\ UNCHANGED <<list, confirm, connected, editing, focus, lit, useVault, clusterMode,
                 inputsOf, reads, watch>>

\* The results that show their own screen, and those that show the keys.
Loaded(s) ==
  /\ Handle(s, "info")
  /\ \/ (Show("other") \/ Show("keys")) /\ UNCHANGED line
     \/ MayFail /\ Say("Error: ") /\ UNCHANGED <<screen, disturbed>>
  /\ UNCHANGED <<list, confirm, connected, editing, focus, lit, useVault, clusterMode,
                 inputsOf, live>>

TimerFires(id) ==
  /\ \E t \in Texts : StatusClear(Timer(id, t))
  /\ UNCHANGED <<list, screen, confirm, connected, form, live, slots>>

------------------------------------------------------------------------------
KeyPress ==
  \/ OpenAdd \/ OpenEdit \/ Tab \/ Toggle \/ SubmitAdd \/ SubmitEdit
  \/ TestConnection \/ LeaveTest \/ LeaveForm
  \/ MoveRow \/ Connect \/ LoadConnections \/ AskDelete \/ Confirm \/ Decline
  \/ Help \/ LeaveHelp \/ OpenOther \/ LeaveOther \/ Watch \/ Load \/ OpenMetrics \/ LeaveMetrics

Command(s) == RunLoad(s) \/ RunAdd(s) \/ RunUpdate(s) \/ RunDelete(s)

Message(s) ==
  \/ ConnectionsLoaded(s) \/ ConnectionAdded(s) \/ ConnectionUpdated(s) \/ ConnectionDeleted(s)
  \/ AutoConnect(s) \/ Connected(s) \/ Loaded(s)

SessionNext ==
  \/ KeyPress \/ Tick \/ LiveMetrics
  \/ \E s \in Slots : Command(s) \/ Message(s)
  \/ \E id \in 1 .. MaxID : TimerFires(id)

\* A connect answers or times out, tea.Tick sends every message in the end, and the event
\* loop handles each.
SessionFairness ==
  /\ \A s \in Slots : WF_allVars(Connected(s))
  /\ \A id \in 1 .. MaxID : WF_allVars(TimerFires(id))

SessionSpec == SessionInit /\ [][SessionNext]_allVars /\ SessionFairness

------------------------------------------------------------------------------
(* Properties *)

SlotContents ==
  {Free} \cup [op : {"auto", "connect", "info"}]
  \cup [op : {"load"}, crossed : BOOLEAN]
  \cup [op : {"loaded"}, conns : Seq(Connections), crossed : BOOLEAN]
  \cup [op : {"add", "update"}, conn : Connections] \cup [op : {"delete"}, id : 1 .. MaxConnID]
  \cup [op : {"added", "updated"}, conn : Connections, ok : BOOLEAN]
  \cup [op : {"deleted"}, id : 1 .. MaxConnID, ok : BOOLEAN]

\* Types; what comes from a connect shows that one was asked for.
SessionTypeOK ==
  /\ uses \in Uses /\ screen \in Screens /\ stored \subseteq Connections /\ nextID \in 1 .. MaxConnID + 1
  /\ conns \in Seq(Connections) /\ row \in Nat
  /\ confirm \in 1 .. MaxConnID \cup {None} /\ connected \in BOOLEAN
  /\ editing \in 1 .. MaxConnID \cup {None} /\ inputsOf \in 1 .. MaxConnID \cup {None}
  /\ focus \in 0 .. 10 /\ lit \subseteq 0 .. 8
  /\ useVault \in BOOLEAN /\ clusterMode \in BOOLEAN
  /\ metrics \in BOOLEAN /\ reads \in 0 .. MaxReads /\ watch \in BOOLEAN
  /\ slots \in [Slots -> SlotContents]
  /\ disturbed \in BOOLEAN /\ stale \in BOOLEAN /\ left \in BOOLEAN
  /\ \A s \in Slots : slots[s].op = "connect" => connected

\* What the form saves goes to the connection it was filled from, and to a new one if it was
\* not; and keys and a paste go into the same, visible field, unless an
\* earlier form was closed by a result, or its test by "?" (screens_connection.go:53-159, model.go:397-436).
FormAgrees ==
  /\ screen = "edit" => editing = inputsOf /\ editing # None
  /\ screen \in {"add", "test"} => inputsOf = None
  /\ FormOpen /\ ~disturbed => focus < FieldCount /\ lit = {InputIndex(focus)} \ {NoInput}

\* With nothing under way the list on the screen is the one that is stored, in its order,
\* although the screen is brought up to date change by change; unless a load crossed a change
\* and no other load has followed (messages_connection.go:19-82, db/config.go:176-256).
ListAgrees ==
  (\A s \in Slots : slots[s].op \notin ListOps) /\ ~stale => conns \in InOrder(stored)

\* The metrics on the screen are being refreshed; and once the user has left them, with no
\* reading under way, they stay away until asked for (messages_server.go:193, update.go:269).
MetricsStayLeft ==
  /\ screen = "metrics" => metrics
  /\ left => ~metrics /\ reads = 0

\* Each text makes way in the end, but "Watching key for changes...": a passing one is
\* cleared by its timer, "Connecting..." by what becomes of the connect, whatever is written
\* meanwhile; after the last text (their number is bounded) the line is empty, or says that
\* a key is watched, which no timer clears, nor esc when it ends the watching (status.go:24,
\* messages_connection.go:84, screens_keys.go:385, 443).
StatusMovesOn == []<>(status \in {NoText, Watching})
=============================================================================
