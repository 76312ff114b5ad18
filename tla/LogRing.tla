------------------------------ MODULE LogRing -------------------------------
(***************************************************************************)
(* internal/types/logger.go: LogWriter, the ring buffer every slog call of *)
(* every goroutine writes to, together with the log screen that browses it *)
(* (handleLogsScreen, viewLogs).  The mutex makes Write, GetLogs and Len   *)
(* atomic, so each is one step here; key presses and writes interleave in  *)
(* any order because writers are goroutines and the screen is the event    *)
(* loop.                                                                   *)
(***************************************************************************)
EXTENDS Integers, Sequences

CONSTANTS Lines,      \* log lines the program can emit
          DebugLines, \* those that carry "level":"DEBUG"
          MaxLogs,    \* types.MaxLogs (100 in the program)
          Empty       \* a slot that was never written

ASSUME LogRingAssumption ==
  /\ MaxLogs \in Nat \ {0}
  /\ DebugLines \subseteq Lines
  /\ Empty \notin Lines

VARIABLES buf,     \* the slots
          head,    \* index of the oldest entry
          count,   \* number of entries stored
          viewing, \* the log screen is open
          cursor,  \* Model.LogCursor, counted from 0
          detail   \* Model.ShowingLogDetail

ring == <<buf, head, count>>
viewer == <<viewing, cursor, detail>>
vars == <<buf, head, count, viewing, cursor, detail>>

Slots == 0 .. MaxLogs - 1

Init ==
  /\ buf = [i \in Slots |-> Empty]
  /\ head = 0
  /\ count = 0
  /\ viewing = FALSE
  /\ cursor = 0
  /\ detail = FALSE

\* GetLogs: a copy of the entries in chronological order.
GetLogs == [i \in 1 .. count |-> buf[(head + i - 1) % MaxLogs]]

------------------------------------------------------------------------------
(* Mutated forms of the code. *)

\* The oldest entry is overwritten but stays the first one read.
WriteKeepHead(line) ==
  /\ line \notin DebugLines
  /\ IF count = MaxLogs
       THEN /\ buf' = [buf EXCEPT ![head] = line]
            /\ UNCHANGED <<head, count>>
       ELSE /\ buf' = [buf EXCEPT ![(head + count) % MaxLogs] = line]
            /\ count' = count + 1
            /\ UNCHANGED head
  /\ UNCHANGED viewer

\* A full ring starts over instead of overwriting the oldest entry.
WriteStartOver(line) ==
  /\ line \notin DebugLines
  /\ IF count = MaxLogs
       THEN /\ buf' = [i \in Slots |-> IF i = 0 THEN line ELSE Empty]
            /\ head' = 0
            /\ count' = 1
       ELSE /\ buf' = [buf EXCEPT ![(head + count) % MaxLogs] = line]
            /\ count' = count + 1
            /\ UNCHANGED head
  /\ UNCHANGED viewer

\* The write index is not wrapped.
WriteNoWrap(line) ==
  /\ line \notin DebugLines
  /\ IF count = MaxLogs
       THEN /\ buf' = [buf EXCEPT ![head] = line]
            /\ head' = head + 1
            /\ UNCHANGED count
       ELSE /\ buf' = [buf EXCEPT ![head + count] = line]
            /\ count' = count + 1
            /\ UNCHANGED head
  /\ UNCHANGED viewer

\* The start of the ring moves with every line, full or not.
WriteMovesHead(line) ==
  /\ line \notin DebugLines
  /\ buf' = [buf EXCEPT ![(head + count) % MaxLogs] = line]
  /\ head' = (head + 1) % MaxLogs
  /\ count' = IF count = MaxLogs THEN count ELSE count + 1
  /\ UNCHANGED viewer

------------------------------------------------------------------------------
(* LogWriter *)

\* Write: DEBUG lines are dropped; a full ring loses its oldest entry.
Write(line) ==
  /\ line \notin DebugLines
  /\ IF count = MaxLogs
       THEN /\ buf' = [buf EXCEPT ![head] = line]
            /\ head' = (head + 1) % MaxLogs
            /\ UNCHANGED count
       ELSE /\ buf' = [buf EXCEPT ![(head + count) % MaxLogs] = line]
            /\ count' = count + 1
            /\ UNCHANGED head
  /\ UNCHANGED viewer

------------------------------------------------------------------------------
(* The log screen *)

\* "O" on the key list.
OpenLogs ==
  /\ ~viewing
  /\ viewing' = TRUE
  /\ cursor' = 0
  /\ detail' = FALSE
  /\ UNCHANGED ring

\* esc or enter while an entry is shown in full.
CloseDetail ==
  /\ viewing /\ detail
  /\ detail' = FALSE
  /\ UNCHANGED <<ring, viewing, cursor>>

\* esc on the list, or a message of a command that shows another screen.
CloseLogs ==
  /\ viewing
  /\ viewing' = FALSE
  /\ UNCHANGED <<ring, cursor, detail>>

\* up/k, down/j, g and G: where the cursor goes.
CursorMoves ==
  {IF cursor > 0 THEN cursor - 1 ELSE cursor,
   IF cursor < count - 1 THEN cursor + 1 ELSE cursor,
   0,
   IF count > 0 THEN count - 1 ELSE cursor}

MoveCursor ==
  /\ viewing /\ ~detail
  /\ cursor' \in CursorMoves
  /\ UNCHANGED <<ring, viewing, detail>>

\* enter on the list.
ShowDetail ==
  /\ viewing /\ ~detail
  /\ count > 0
  /\ detail' = TRUE
  /\ UNCHANGED <<ring, viewing, cursor>>

Next ==
  \/ \E line \in Lines : Write(line)
  \/ OpenLogs
  \/ CloseDetail
  \/ CloseLogs
  \/ MoveCursor
  \/ ShowDetail

Spec == Init /\ [][Next]_vars

------------------------------------------------------------------------------
(* Properties *)

\* Types: the ring never leaves its array (logger.go), and entries are stored
\* only in slots that were written.
TypeOK ==
  /\ buf \in [Slots -> Lines \cup {Empty}]
  /\ head \in Slots
  /\ count \in 0 .. MaxLogs
  /\ viewing \in BOOLEAN
  /\ cursor \in Nat
  /\ detail \in BOOLEAN

\* While the log screen shows one entry in full there is an entry under the
\* cursor, whatever other goroutines log meanwhile: viewLogs indexes
\* logs[LogCursor] with a cursor that an earlier key press computed from an
\* earlier length.
CursorOnEntry ==
  /\ cursor = 0 \/ cursor < count
  /\ detail => cursor < count

\* A ring that has entries before its end starts at slot 0, and every entry a
\* reader gets was written (GetLogs never returns an unused slot).
NoUnwrittenEntry ==
  /\ count < MaxLogs => head = 0
  /\ \A i \in Slots : buf[i] = Empty <=> i >= count

\* The ring buffer implements the bounded log: readers see the last MaxLogs
\* lines in the order they were written.
Bounded == INSTANCE BoundedLog WITH log <- GetLogs
ImplementsBoundedLog == Bounded!Spec
=============================================================================
