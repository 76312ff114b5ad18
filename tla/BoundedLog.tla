----------------------------- MODULE BoundedLog -----------------------------
(***************************************************************************)
(* What the in-memory application log promises its readers: the most       *)
(* recent MaxLogs lines, oldest first.  LogRing shows that the ring buffer *)
(* of internal/types/logger.go keeps this promise.                         *)
(***************************************************************************)
EXTENDS Naturals, Sequences

CONSTANTS Lines,      \* log lines the program can emit
          DebugLines, \* those whose level is DEBUG
          MaxLogs     \* lines kept, at least one

VARIABLE log  \* the lines a reader sees, oldest first

\* Append a line to a log that keeps only the last MaxLogs of them.
Push(s, line) ==
  IF Len(s) < MaxLogs THEN Append(s, line) ELSE Append(Tail(s), line)

Init == log = << >>

Write(line) == log' = Push(log, line)

Next == \E line \in Lines \ DebugLines : Write(line)

Spec == Init /\ [][Next]_log
=============================================================================
