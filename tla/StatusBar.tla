----------------------------- MODULE StatusBar ------------------------------
(***************************************************************************)
(* internal/ui/status.go: the status line.  Any handler of the event loop  *)
(* may set it; Update compares it with what it was and, if it changed,     *)
(* numbers it and starts a tea.Tick that will clear it, unless it is to    *)
(* stay.  Errors stay longer than other texts, so timers fire in any order.*)
(***************************************************************************)
EXTENDS Naturals

CONSTANTS Texts,  \* what the handlers write in the status line
          NoText, \* the empty text
          Sticky, \* isStickyStatus: "Connecting..." and the like
          MaxID   \* bound: the changes of the status line

ASSUME StatusBarAssumption ==
  /\ NoText \in Texts /\ Sticky \subseteq Texts
  /\ MaxID \in Nat

VARIABLES status,   \* Model.StatusMsg
          statusID, \* Model.statusID
          timers    \* StatusClearMsg to come: the id, and the text it was started for

vars == <<status, statusID, timers>>

Init == status = NoText /\ statusID = 0 /\ timers = {}

Timer(id, t) == [id |-> id, text |-> t]

\* Mutated form: a timer that is under way will do.
ScheduledIfNone(id, t) ==
  IF t \in Sticky \cup {NoText} \/ timers # {} THEN {} ELSE {Timer(id, t)}

\* scheduleStatusClear: the timer of a new text, if it is one that goes away.
Scheduled(id, t) == IF t \in Sticky \cup {NoText} THEN {} ELSE {Timer(id, t)}

\* Mutated forms: only a text with a timer is numbered; the model is copied for
\* the return before the timer is numbered.
UpdateNumbersTimers(t) ==
  /\ t # status
  /\ statusID < MaxID
  /\ status' = t
  /\ statusID' = IF Scheduled(statusID + 1, t) = {} THEN statusID ELSE statusID + 1
  /\ timers' = timers \cup Scheduled(statusID + 1, t)

UpdateCopiesFirst(t) ==
  /\ t # status
  /\ statusID < MaxID
  /\ status' = t
  /\ statusID' = statusID
  /\ timers' = timers \cup Scheduled(statusID + 1, t)

\* Update: a handler leaves another text than it found.  (The same text again
\* changes nothing, its timer runs on.)
Update(t) ==
  /\ t # status
  /\ statusID < MaxID
  /\ status' = t
  /\ statusID' = statusID + 1
  /\ timers' = timers \cup Scheduled(statusID + 1, t)

\* handleStatusClear.
StatusClear(m) ==
  /\ m \in timers
  /\ timers' = timers \ {m}
  /\ status' = IF m.id = statusID THEN NoText ELSE status
  /\ UNCHANGED statusID

Next ==
  \/ \E t \in Texts : Update(t)
  \/ \E m \in timers : StatusClear(m)

\* tea.Tick sends every message in the end, and the event loop handles each.
Fairness ==
  \A id \in 1 .. MaxID, t \in Texts : WF_vars(StatusClear(Timer(id, t)))

Spec == Init /\ [][Next]_vars /\ Fairness

------------------------------------------------------------------------------
(* Properties *)

\* Types of the status line; timers are numbered up to the last change.
TypeOK ==
  /\ status \in Texts
  /\ statusID \in 0 .. MaxID
  /\ timers \subseteq [id : 1 .. statusID, text : Texts \ (Sticky \cup {NoText})]

\* A timer clears the text it was started for or nothing, however late it comes
\* and whatever was written since: "Connecting..." is not cut short, nor is an
\* error by the timer of a shorter flash.
TimerClearsOwn == \A m \in timers : m.id = statusID => m.text = status

=============================================================================
