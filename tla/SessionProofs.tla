--------------------------- MODULE SessionProofs ---------------------------
(***************************************************************************)
(* Proofs about Session for any connections, slots and bounds; its         *)
(* liveness is left to TLC.                                                *)
(***************************************************************************)
EXTENDS Session, SequenceTheorems, WellFoundedInduction, TLAPS

(* The status line by itself; its liveness is left to TLC *)

IInv == TypeOK /\ TimerClearsOwn

\* The invariant holds at first.
LEMMA InitIInv == Init => IInv
  BY StatusBarAssumption DEF Init, IInv, TypeOK, TimerClearsOwn

\* Setting the status line, and the end of any timer, keep the invariant.
LEMMA StepIInv == IInv /\ [Next]_vars => IInv'
<1> SUFFICES ASSUME IInv, [Next]_vars PROVE IInv'
  OBVIOUS
<1> USE StatusBarAssumption DEF IInv, TypeOK, TimerClearsOwn
<1>1. ASSUME NEW t \in Texts, Update(t) PROVE IInv'
  <2>1. status' \in Texts /\ statusID' \in 0 .. MaxID
    BY <1>1 DEF Update
  <2>2. \A m \in timers' :
          /\ m \in [id : 1 .. statusID', text : Texts \ (Sticky \cup {NoText})]
          /\ m.id = statusID' => m.text = status'
    <3> SUFFICES ASSUME NEW m \in timers'
                 PROVE /\ m \in [id : 1 .. statusID', text : Texts \ (Sticky \cup {NoText})]
                       /\ m.id = statusID' => m.text = status'
      OBVIOUS
    <3>1. CASE m \in timers
      <4>1. m \in [id : 1 .. statusID, text : Texts \ (Sticky \cup {NoText})]
        BY <3>1
      <4> QED BY <4>1, <1>1 DEF Update
    <3>2. CASE m \in Scheduled(statusID + 1, t)
      <4>1. m = [id |-> statusID + 1, text |-> t] /\ t \notin Sticky \cup {NoText}
        BY <3>2 DEF Scheduled, Timer
      <4> QED BY <4>1, <1>1 DEF Update
    <3> QED BY <3>1, <3>2, <1>1 DEF Update
  <2> QED BY <2>1, <2>2
<1>2. ASSUME NEW m \in timers, StatusClear(m) PROVE IInv'
  <2>1. timers' \subseteq timers /\ statusID' = statusID /\ status' \in Texts
    BY <1>2 DEF StatusClear
  <2>2. ASSUME NEW n \in timers', n.id = statusID' PROVE n.text = status'
    \* Two timers of one number are the same: both were started for this text.
    <3>1. n \in timers /\ n # m /\ n.id = statusID /\ n.text = status
      BY <2>2, <1>2 DEF StatusClear
    <3>2. n \in [id : 1 .. statusID, text : Texts \ (Sticky \cup {NoText})]
      BY <3>1
    <3>3. m \in [id : 1 .. statusID, text : Texts \ (Sticky \cup {NoText})]
      OBVIOUS
    <3>4. m.id # statusID
      <4>1. SUFFICES ASSUME m.id = statusID PROVE FALSE
        OBVIOUS
      <4>2. m.text = status
        BY <4>1
      <4> QED BY <4>1, <4>2, <3>1, <3>2, <3>3
    <3> QED BY <3>1, <3>4, <1>2 DEF StatusClear
  <2> QED BY <2>1, <2>2
<1>3. CASE UNCHANGED vars
  BY <1>3 DEF vars
<1> QED BY <1>1, <1>2, <1>3 DEF Next

\* Every state of the status line satisfies the invariant.
LEMMA SpecIInv == Spec => []IInv
  BY InitIInv, StepIInv, PTL DEF Spec

\* The status line and its timers have their types (Model.StatusMsg, Model.statusID).
THEOREM StatusTypes == Spec => []TypeOK
<1>1. IInv => TypeOK BY DEF IInv
<1> QED BY <1>1, SpecIInv, PTL

\* No timer clears a text it was not started for (handleStatusClear).
THEOREM StatusTimerClearsOwn == Spec => []TimerClearsOwn
<1>1. IInv => TimerClearsOwn BY DEF IInv
<1> QED BY <1>1, SpecIInv, PTL

------------------------------------------------------------------------------
(* The status line: what is proved of it alone holds in the session *)

\* What handlers write are texts of the line.
LEMMA SessionTexts ==
  /\ NoText \in Texts /\ Connecting \in Texts /\ Watching \in Texts
  /\ \A t \in Written : t \in Texts
BY SessionAssumption

LEMMA SayIsStep ==
  ASSUME NEW t \in Texts, Say(t)
  PROVE  [Next]_vars
BY DEF Say, line, Next, vars

\* A step of the session is a step of the status line.
LEMMA SessionStep ==
  ASSUME [SessionNext]_allVars
  PROVE  [Next]_vars
<1>1. CASE KeyPress
  <2>1. CASE Connect
    BY <2>1, SessionTexts, SayIsStep DEF Connect
  <2>2. CASE Watch
    <3>1. "Watch stopped" \in Texts
      BY SessionTexts DEF Written
    <3> QED BY <2>2, <3>1, SessionTexts, SayIsStep DEF Watch
  <2>3. CASE ~Connect /\ ~Watch
    BY <1>1, <2>3
       DEF KeyPress, line, vars, OpenAdd, OpenEdit, Tab, FocusField, Toggle, SubmitAdd, SubmitEdit,
           TestConnection, LeaveTest, LeaveForm, MoveRow, LoadConnections, AskDelete, Confirm,
           Decline, Help, LeaveHelp, OpenOther, LeaveOther, Load, OpenMetrics, LeaveMetrics
  <2> QED BY <2>1, <2>2, <2>3
<1>2. CASE Tick
  BY <1>2 DEF Tick, line, vars
<1>3. CASE LiveMetrics
  <2>1. Say("Error: ") => [Next]_vars
    BY SessionTexts, SayIsStep DEF Written
  <2> QED BY <1>3, <2>1 DEF LiveMetrics, line, vars
<1>4. ASSUME NEW s \in Slots, Command(s)
      PROVE  [Next]_vars
  BY <1>4 DEF Command, RunLoad, RunAdd, RunUpdate, RunDelete, Elsewhere, line, vars
<1>5. ASSUME NEW s \in Slots, Message(s)
      PROVE  [Next]_vars
  <2>1. UNCHANGED line => [Next]_vars
    BY DEF line, vars
  <2>2. \A t \in Written \cup {NoText, Connecting} : Say(t) => [Next]_vars
    BY SessionTexts, SayIsStep
  <2>3. UNCHANGED line \/ \E t \in Written \cup {NoText, Connecting} : Say(t)
    BY <1>5
       DEF Message, ConnectionsLoaded, ConnectionAdded, ConnectionUpdated, ConnectionDeleted,
           Deleted, AutoConnect, Connected, Loaded, Written
  <2> QED BY <2>1, <2>2, <2>3
<1>6. ASSUME NEW id \in 1 .. MaxID, TimerFires(id)
      PROVE  [Next]_vars
  BY <1>6 DEF TimerFires, StatusClear, Next
<1>7. CASE UNCHANGED allVars
  BY <1>7 DEF allVars, vars
<1> QED BY <1>1, <1>2, <1>3, <1>4, <1>5, <1>6, <1>7 DEF SessionNext

LEMMA SessionLine == SessionSpec => []IInv
<1>1. SessionInit => IInv
  BY InitIInv DEF SessionInit
<1>2. IInv /\ [SessionNext]_allVars => IInv'
  BY SessionStep, StepIInv
<1> QED BY <1>1, <1>2, PTL DEF SessionSpec

\* The status line keeps its types whatever the handlers of the session write in it.
THEOREM SessionStatusTypes == SessionSpec => []TypeOK
<1>1. IInv => TypeOK
  BY DEF IInv
<1> QED BY <1>1, SessionLine, PTL

\* No timer clears another text than its own, whichever commands of the session answer
\* in between (handleStatusClear).
THEOREM SessionTimerClearsOwn == SessionSpec => []TimerClearsOwn
<1>1. IInv => TimerClearsOwn
  BY DEF IInv
<1> QED BY <1>1, SessionLine, PTL

------------------------------------------------------------------------------
(* The live metrics *)

MetricsIInv ==
  /\ metrics \in BOOLEAN /\ left \in BOOLEAN /\ reads \in Nat
  /\ MetricsStayLeft

\* What keeps it: nothing happens to the metrics and their screen is not opened.
LEMMA OtherScreens ==
  ASSUME MetricsIInv, UNCHANGED <<metrics, reads, left>>, screen' # "metrics" \/ UNCHANGED screen
  PROVE  MetricsIInv'
BY DEF MetricsIInv, MetricsStayLeft

LEMMA MetricsStep ==
  ASSUME MetricsIInv, [SessionNext]_allVars
  PROVE  MetricsIInv'
<1> USE DEF MetricsIInv, MetricsStayLeft
<1>1. CASE KeyPress
  <2>1. CASE OpenMetrics
    <3>1. screen = "keys" /\ screen' = screen /\ metrics' = TRUE /\ left' = FALSE
      BY <2>1 DEF OpenMetrics
    <3>2. reads' \in Nat
      BY <2>1 DEF OpenMetrics, Read
    <3> QED BY <3>1, <3>2
  <2>2. CASE LeaveMetrics
    BY <2>2 DEF LeaveMetrics
  <2>3. CASE ~OpenMetrics /\ ~LeaveMetrics
    <3>1. UNCHANGED <<metrics, reads, left>> /\ (screen' # "metrics" \/ UNCHANGED screen)
      BY <1>1, <2>3
         DEF KeyPress, OpenAdd, OpenEdit, Tab, FocusField, Toggle, SubmitAdd, SubmitEdit,
             TestConnection, LeaveTest, LeaveForm, MoveRow, Connect, LoadConnections, AskDelete,
             Confirm, Decline, Help, Show, LeaveHelp, OpenOther, LeaveOther, Watch, Load,
             live
    <3> QED BY <3>1, OtherScreens
  <2> QED BY <2>1, <2>2, <2>3
<1>2. CASE Tick
  BY <1>2 DEF Tick, Read
<1>3. CASE LiveMetrics
  <2>1. reads' \in Nat /\ ~(reads = 0)
    <3>1. reads > 0 /\ reads' = reads - 1
      BY <1>3, Zenon DEF LiveMetrics
    <3> QED BY <3>1
  <2>2. left' = left
    BY <1>3 DEF LiveMetrics
  <2>3. ~left
    BY <2>1
  <2>4. \/ metrics' = TRUE
        \/ metrics' = metrics /\ screen' = screen
    BY <1>3 DEF LiveMetrics, Show
  <2> QED BY <2>1, <2>2, <2>3, <2>4
<1>4. ASSUME NEW s \in Slots, Command(s)
      PROVE  MetricsIInv'
  BY <1>4, OtherScreens
     DEF Command, RunLoad, RunAdd, RunUpdate, RunDelete, Elsewhere, live
<1>5. ASSUME NEW s \in Slots, Message(s)
      PROVE  MetricsIInv'
  <2>1. CASE Connected(s)
    <3>1. reads' = reads
      BY <2>1 DEF Connected
    <3>2. \/ /\ screen' = "keys" /\ metrics' = FALSE
             /\ left' = (left \/ (metrics /\ reads = 0))
          \/ UNCHANGED <<screen, metrics, left>>
      BY <2>1 DEF Connected, Show
    <3>3. CASE /\ screen' = "keys" /\ metrics' = FALSE
               /\ left' = (left \/ (metrics /\ reads = 0))
      <4>1. left' \in BOOLEAN /\ metrics' \in BOOLEAN /\ ~metrics' /\ reads' \in Nat
        BY <3>1, <3>3
      <4>2. left' => reads' = 0
        BY <3>1, <3>3
      <4>3. screen' # "metrics"
        BY <3>3
      <4> QED BY <4>1, <4>2, <4>3
    <3>4. CASE UNCHANGED <<screen, metrics, left>>
      BY <3>1, <3>4, OtherScreens
    <3> QED BY <3>2, <3>3, <3>4
  <2>2. CASE ~Connected(s)
    <3>1. UNCHANGED <<metrics, reads, left>> /\ (screen' # "metrics" \/ UNCHANGED screen)
      BY <1>5, <2>2
         DEF Message, ConnectionsLoaded, ConnectionAdded, ConnectionUpdated, ConnectionDeleted,
             Deleted, AutoConnect, Loaded, Show, live
    <3> QED BY <3>1, OtherScreens
  <2> QED BY <2>1, <2>2
<1>6. ASSUME NEW id \in 1 .. MaxID, TimerFires(id)
      PROVE  MetricsIInv'
  BY <1>6, OtherScreens DEF TimerFires, live
<1>7. CASE UNCHANGED allVars
  BY <1>7, OtherScreens DEF allVars, live
<1> QED BY <1>1, <1>2, <1>3, <1>4, <1>5, <1>6, <1>7 DEF SessionNext

\* The metrics on the screen are refreshed, and those that the user left with no reading
\* under way stay away, for any number of readings (messages_server.go:193, update.go:269).
THEOREM SessionMetricsStayLeft == SessionSpec => []MetricsStayLeft
<1>1. SessionInit => MetricsIInv
  <2>1. SessionInit => screen = "connections" /\ metrics = FALSE /\ reads = 0 /\ left = FALSE
    BY DEF SessionInit
  <2> SUFFICES ASSUME SessionInit PROVE MetricsIInv
    OBVIOUS
  <2>2. metrics \in BOOLEAN /\ left \in BOOLEAN /\ ~left
    BY <2>1, Zenon
  <2>3. reads \in Nat /\ screen # "metrics"
    BY <2>1
  <2> QED BY <2>2, <2>3 DEF MetricsIInv, MetricsStayLeft
<1>2. MetricsIInv /\ [SessionNext]_allVars => MetricsIInv'
  BY MetricsStep
<1>3. MetricsIInv => MetricsStayLeft
  BY DEF MetricsIInv
<1> QED BY <1>1, <1>2, <1>3, PTL DEF SessionSpec

------------------------------------------------------------------------------
(* Types *)

ListTypes ==
  /\ uses \in Uses /\ stored \subseteq Connections /\ nextID \in 1 .. MaxConnID + 1
  /\ conns \in Seq(Connections) /\ row \in Nat /\ stale \in BOOLEAN

FormTypes ==
  /\ editing \in 1 .. MaxConnID \cup {None} /\ inputsOf \in 1 .. MaxConnID \cup {None}
  /\ focus \in 0 .. 10 /\ lit \subseteq 0 .. 8
  /\ useVault \in BOOLEAN /\ clusterMode \in BOOLEAN /\ disturbed \in BOOLEAN

LiveTypes ==
  metrics \in BOOLEAN /\ reads \in 0 .. MaxReads /\ left \in BOOLEAN /\ watch \in BOOLEAN

PlaceTypes ==
  screen \in Screens /\ confirm \in 1 .. MaxConnID \cup {None} /\ connected \in BOOLEAN

SlotTypes ==
  /\ slots \in [Slots -> SlotContents]
  /\ \A s \in Slots : slots[s].op = "connect" => connected

LEMMA AllTypes == SessionTypeOK <=> ListTypes /\ FormTypes /\ LiveTypes /\ PlaceTypes /\ SlotTypes
BY DEF SessionTypeOK, ListTypes, FormTypes, LiveTypes, PlaceTypes, SlotTypes

\* The commands and messages.
LEMMA Contents ==
  /\ Free \in SlotContents
  /\ [op |-> "auto"] \in SlotContents
  /\ [op |-> "connect"] \in SlotContents
  /\ [op |-> "info"] \in SlotContents
  /\ \A b \in BOOLEAN : [op |-> "load", crossed |-> b] \in SlotContents
  /\ \A c \in Connections : /\ [op |-> "add", conn |-> c] \in SlotContents
                            /\ [op |-> "update", conn |-> c] \in SlotContents
  /\ \A i \in 1 .. MaxConnID : [op |-> "delete", id |-> i] \in SlotContents
  /\ \A cs \in Seq(Connections), b \in BOOLEAN :
       [op |-> "loaded", conns |-> cs, crossed |-> b] \in SlotContents
  /\ \A c \in Connections, b \in BOOLEAN :
       /\ [op |-> "added", conn |-> c, ok |-> b] \in SlotContents
       /\ [op |-> "updated", conn |-> c, ok |-> b] \in SlotContents
  /\ \A i \in 1 .. MaxConnID, b \in BOOLEAN :
       [op |-> "deleted", id |-> i, ok |-> b] \in SlotContents
BY DEF SlotContents

\* What is in them.
LEMMA Fields ==
  ASSUME NEW x \in SlotContents
  PROVE  /\ x.op \in {"load", "loaded"} => x.crossed \in BOOLEAN
         /\ x.op = "loaded" => x.conns \in Seq(Connections)
         /\ x.op \in {"add", "update", "added", "updated"} => x.conn \in Connections
         /\ x.op \in {"delete", "deleted"} => x.id \in 1 .. MaxConnID
         /\ x.op \in {"added", "updated", "deleted"} => x.ok \in BOOLEAN
BY DEF SlotContents, Free

\* A load that is crossed is a load still.
LEMMA CrossedType ==
  ASSUME NEW x \in SlotContents, x.op \in {"load", "loaded"}
  PROVE  /\ [x EXCEPT !.crossed = TRUE] \in SlotContents
         /\ [x EXCEPT !.crossed = TRUE].op = x.op
BY DEF SlotContents, Free

\* The slots when a command starts.
LEMMA StartTypes ==
  ASSUME SlotTypes, NEW c \in SlotContents, Start(c), connected' \in BOOLEAN,
         c.op = "connect" => connected', connected => connected'
  PROVE  SlotTypes'
BY DEF SlotTypes, Start

LEMMA StartOnListTypes ==
  ASSUME SlotTypes, NEW c \in SlotContents, c.op \in {"load", "add", "update", "delete"},
         stale \in BOOLEAN, StartOnList(c), UNCHANGED connected
  PROVE  SlotTypes' /\ stale' \in BOOLEAN
<1> DEFINE others == {s \in Slots : slots[s].op \in ListOps}
           Crossed(x) == IF x.op \in {"load", "loaded"} THEN [x EXCEPT !.crossed = TRUE] ELSE x
           new == IF c.op = "load" THEN [c EXCEPT !.crossed = others # {}] ELSE c
<1>1. /\ slots' = [s \in Slots |-> IF s # FreeSlot THEN Crossed(slots[s]) ELSE new]
      /\ stale' = (stale \/ others # {})
  BY DEF StartOnList
<1>2. new \in SlotContents /\ new.op # "connect"
  <2> HIDE DEF others
  <2>1. CASE c.op = "load"
    <3>1. c \in [op : {"load"}, crossed : BOOLEAN]
      BY <2>1 DEF SlotContents, Free
    <3>2. (others # {}) \in BOOLEAN
      OBVIOUS
    <3>3. ASSUME NEW b \in BOOLEAN
          PROVE  [c EXCEPT !.crossed = b] \in SlotContents /\ [c EXCEPT !.crossed = b].op = "load"
      BY <3>1 DEF SlotContents
    <3> QED BY <2>1, <3>2, <3>3
  <2>2. CASE c.op # "load"
    BY <2>2
  <2> QED BY <2>1, <2>2
<1>3. \A s \in Slots : Crossed(slots[s]) \in SlotContents /\ Crossed(slots[s]).op = slots[s].op
  BY CrossedType DEF SlotTypes
<1>4. stale' \in BOOLEAN
  BY <1>1
<1> HIDE DEF Crossed, new, others
<1> QED BY <1>1, <1>2, <1>3, <1>4 DEF SlotTypes

\* The slots when a command has run, and when its message is handled.
LEMMA RunTypes ==
  ASSUME SlotTypes, NEW s \in Slots, NEW x \in SlotContents, x.op = "connect" => connected',
         slots' = [slots EXCEPT ![s] = x], connected => connected'
  PROVE  SlotTypes'
BY DEF SlotTypes

LEMMA HandleTypes ==
  ASSUME SlotTypes, NEW s \in Slots, NEW op, Handle(s, op), UNCHANGED connected
  PROVE  SlotTypes'
BY Contents, RunTypes DEF Handle, Free

\* The list of connections.

LEMMA RemoveMatchType ==
  ASSUME ListTypes, NEW s \in Slots
  PROVE  RemoveFirstMatch(conns, LAMBDA c : c.id = slots[s].id) \in Seq(Connections)
<1> conns \in Seq(Connections)
  BY DEF ListTypes
<1>1. CASE \E i \in 1 .. Len(conns) : conns[i].id = slots[s].id
  <2> DEFINE I == {i \in 1 .. Len(conns) : conns[i].id = slots[s].id}
             n == Min(I)
  <2>1. \E x \in I : \A y \in I : x <= y
    <3>1. I # {} /\ I \subseteq Nat
      BY <1>1, LenProperties
    <3> HIDE DEF I
    <3>2. \E x \in I : \A y \in I : <<y, x>> \notin OpToRel(<, Nat)
      BY <3>1, NatLessThanWellFounded, WFMin
    <3>3. \A x, y \in Nat : y < x => <<y, x>> \in OpToRel(<, Nat)
      BY Zenon DEF OpToRel
    <3>4. \E x \in I : \A y \in I : ~(y < x)
      BY <3>1, <3>2, <3>3, Zenon
    <3> QED BY <3>1, <3>4
  <2>2. n \in I
    BY <2>1 DEF Min
  <2>3. SelectInSeq(conns, LAMBDA c : c.id = slots[s].id) = n
    BY <1>1 DEF SelectInSeq
  <2>4. n \in 1 .. Len(conns) /\ Len(conns) \in Nat /\ \A i \in 1 .. Len(conns) : conns[i] \in Connections
    BY <2>2, LenProperties
  <2> HIDE DEF n, I
  <2>5. RemoveFirstMatch(conns, LAMBDA c : c.id = slots[s].id)
          = SubSeq(conns, 1, n - 1) \o SubSeq(conns, n + 1, Len(conns))
    BY <1>1, <2>3 DEF RemoveFirstMatch, RemoveAt
  <2>6. /\ SubSeq(conns, 1, n - 1) \in Seq(Connections)
        /\ SubSeq(conns, n + 1, Len(conns)) \in Seq(Connections)
    BY <2>4, SubSeqProperties
  <2> QED BY <2>5, <2>6, ConcatProperties
<1>2. CASE ~\E i \in 1 .. Len(conns) : conns[i].id = slots[s].id
  BY <1>2 DEF RemoveFirstMatch
<1> QED BY <1>1, <1>2

\* The list in order is a list.
LEMMA InOrderType ==
  ASSUME NEW S, S \subseteq Connections, NEW cs \in InOrder(S)
  PROVE  cs \in Seq(Connections)
<1>1. PICK n \in 0 .. MaxConnID : cs \in [1 .. n -> S]
  BY DEF InOrder
<1>2. n \in Nat /\ \A i \in 1 .. n : cs[i] \in Connections
  BY <1>1, SessionAssumption
<1>3. cs = [i \in 1 .. n |-> cs[i]]
  BY <1>1
<1> DEFINE e(i) == cs[i]
<1>4. [i \in 1 .. n |-> e(i)] \in Seq(Connections)
  BY <1>2, IsASeq
<1> QED BY <1>3, <1>4

\* A connection stands in the row of the list.
LEMMA RowType ==
  ASSUME ListTypes, HasRow
  PROVE  Row \in Connections /\ Row.id \in 1 .. MaxConnID
<1>1. row + 1 \in 1 .. Len(conns)
  BY LenProperties DEF ListTypes, HasRow
<1>2. Row \in Connections
  BY <1>1, ElementOfSeq DEF ListTypes, Row
<1> QED BY <1>2 DEF Connections

\* The form saves a connection with the id it was given.
LEMMA InputsType ==
  ASSUME FormTypes, NEW id \in 1 .. MaxConnID
  PROVE  Inputs(id) \subseteq Connections
<1>1. \A v \in {FALSE, useVault} : v \in BOOLEAN
  BY Zenon DEF FormTypes
<1>2. \A v \in BOOLEAN : [id |-> id, vault |-> v, cluster |-> clusterMode] \in Connections
  BY DEF FormTypes, Connections
<1> QED BY <1>1, <1>2, Zenon DEF Inputs

\* The first id given out is above those of the stored connections.
LEMMA FirstID ==
  /\ Max({c.id : c \in Stored} \cup {0}) + 1 \in 1 .. MaxConnID + 1
  /\ \A c \in Stored : c.id < Max({d.id : d \in Stored} \cup {0}) + 1
<1> DEFINE I == {c.id : c \in Stored} \cup {0}
           J == {n \in Nat : MaxConnID - n \in I}
<1>1. I \subseteq 0 .. MaxConnID /\ 0 \in I
  BY SessionAssumption DEF Connections
<1> HIDE DEF I
<1>2. J # {} /\ J \subseteq Nat
  BY <1>1, SessionAssumption
<1> HIDE DEF J
<1>3. \E m \in J : \A n \in J : <<n, m>> \notin OpToRel(<, Nat)
  BY <1>2, NatLessThanWellFounded, WFMin
<1>4. \A m, n \in Nat : n < m => <<n, m>> \in OpToRel(<, Nat)
  BY Zenon DEF OpToRel
<1>5. PICK m \in J : \A n \in J : ~(n < m)
  BY <1>2, <1>3, <1>4, Zenon
<1>6. MaxConnID - m \in I /\ m \in Nat
  BY <1>5 DEF J
<1>7. \A x \in I : MaxConnID - m >= x
  <2> TAKE x \in I
  <2>1. MaxConnID - x \in J
    <3>1. MaxConnID - x \in Nat /\ MaxConnID - (MaxConnID - x) = x
      BY <1>1, SessionAssumption
    <3> QED BY <3>1 DEF J
  <2>2. ~(MaxConnID - x < m)
    BY <1>5, <2>1
  <2> QED BY <1>1, <1>6, <2>2, SessionAssumption
<1>8. Max(I) \in I /\ \A x \in I : Max(I) >= x
  BY <1>6, <1>7 DEF Max
<1>9. PICK n : n = Max(I)
  OBVIOUS
<1>10. n \in I /\ \A x \in I : n >= x
  BY <1>8, <1>9, Zenon
<1>11. \A x \in I : x \in Nat
  BY <1>1, SessionAssumption
<1>12. \A x \in I : x < n + 1
  BY <1>10, <1>11
<1>13. n + 1 \in 1 .. MaxConnID + 1
  BY <1>1, <1>10, SessionAssumption
<1> QED BY <1>9, <1>12, <1>13 DEF I

LEMMA InitTypes ==
  ASSUME SessionInit
  PROVE  SessionTypeOK
<1>1. ListTypes
  BY FirstID, EmptySeq, SessionAssumption DEF SessionInit, ListTypes
<1>2. FormTypes
  <2>1. useVault \in BOOLEAN /\ clusterMode \in BOOLEAN /\ disturbed \in BOOLEAN
    BY Zenon DEF SessionInit
  <2>2. focus = 0 /\ lit = {0} /\ editing = None /\ inputsOf = None
    BY DEF SessionInit
  <2> QED BY <2>1, <2>2 DEF FormTypes
<1>3. LiveTypes
  <2>1. metrics \in BOOLEAN /\ left \in BOOLEAN /\ watch \in BOOLEAN
    BY Zenon DEF SessionInit
  <2>2. reads \in 0 .. MaxReads
    BY SessionAssumption DEF SessionInit
  <2> QED BY <2>1, <2>2 DEF LiveTypes
<1>4. PlaceTypes
  BY DEF SessionInit, PlaceTypes, Screens
<1>5. SlotTypes
  <2>1. \A x \in {[op |-> "load", crossed |-> FALSE], [op |-> "auto"], Free} :
          x \in SlotContents /\ x.op # "connect"
    <3>1. Free \in SlotContents /\ Free.op # "connect"
      BY Contents DEF Free
    <3>2. FALSE \in BOOLEAN
      OBVIOUS
    <3>3. [op |-> "load", crossed |-> FALSE] \in SlotContents
      BY <3>2, Contents, Zenon
    <3>4. [op |-> "auto"] \in SlotContents
      BY Contents
    <3>5. [op |-> "load", crossed |-> FALSE].op # "connect" /\ [op |-> "auto"].op # "connect"
      OBVIOUS
    <3> QED BY <3>1, <3>3, <3>4, <3>5, Zenon
  <2>2. PICK f \in [Slots -> {[op |-> "load", crossed |-> FALSE], [op |-> "auto"], Free}] :
          slots = f
    BY DEF SessionInit
  <2> QED BY <2>1, <2>2 DEF SlotTypes
<1> QED BY <1>1, <1>2, <1>3, <1>4, <1>5, AllTypes

Types == ListTypes /\ FormTypes /\ LiveTypes /\ PlaceTypes /\ SlotTypes

\* What an action leaves alone keeps its types.
LEMMA KeptTypes ==
  ASSUME Types
  PROVE  /\ UNCHANGED list => ListTypes'
         /\ UNCHANGED <<uses, stored, nextID, conns, row>> /\ stale' \in BOOLEAN => ListTypes'
         /\ UNCHANGED form => FormTypes'
         /\ UNCHANGED live => LiveTypes'
         /\ UNCHANGED <<screen, confirm, connected>> => PlaceTypes'
         /\ screen' \in Screens /\ UNCHANGED <<confirm, connected>> => PlaceTypes'
         /\ UNCHANGED <<slots, connected>> => SlotTypes'
BY DEF Types, ListTypes, FormTypes, LiveTypes, PlaceTypes, SlotTypes, list, form, live

\* A form that is reset, or left by a result.
LEMMA ResetTypes ==
  ASSUME FormTypes, ResetConnInputs, editing' \in {editing, None}
  PROVE  FormTypes'
<1>1. useVault' \in BOOLEAN /\ clusterMode' \in BOOLEAN /\ disturbed' \in BOOLEAN
  BY Zenon DEF ResetConnInputs
<1> QED BY <1>1 DEF FormTypes, ResetConnInputs

LEMMA ShowTypes ==
  ASSUME Types, NEW s \in Screens, Show(s),
         UNCHANGED <<confirm, connected, editing, focus, lit, useVault, clusterMode, inputsOf>>
  PROVE  FormTypes' /\ PlaceTypes'
<1>1. disturbed' \in BOOLEAN
  BY Zenon DEF Show
<1> QED BY <1>1 DEF Types, FormTypes, PlaceTypes, Show

\* Keys of the form.
LEMMA FormKeyTypes ==
  ASSUME Types, OpenAdd \/ OpenEdit \/ Tab \/ Toggle \/ TestConnection \/ LeaveTest \/ LeaveForm
  PROVE  Types'
<1>1. ListTypes' /\ LiveTypes' /\ SlotTypes'
  BY KeptTypes DEF OpenAdd, OpenEdit, Tab, FocusField, Toggle, TestConnection, LeaveTest, LeaveForm
<1>2. PlaceTypes'
  BY KeptTypes
     DEF OpenAdd, OpenEdit, Tab, FocusField, Toggle, TestConnection, LeaveTest, LeaveForm, Screens
<1>3. FormTypes'
  <2>1. CASE OpenAdd
    BY <2>1, ResetTypes DEF OpenAdd, Types
  <2>2. CASE OpenEdit
    <3>1. Row \in Connections /\ Row.id \in 1 .. MaxConnID
      BY <2>2, RowType DEF Types, OpenEdit
    <3>2. Row.vault \in BOOLEAN /\ Row.cluster \in BOOLEAN
      BY <3>1 DEF Connections
    <3> QED BY <2>2, <3>1, <3>2 DEF OpenEdit, FormTypes, Types
  <2>3. CASE Tab
    <3>1. FieldCount \in 7 .. 11 /\ focus \in 0 .. 10
      BY DEF FieldCount, Types, FormTypes
    <3>2. PICK i \in 0 .. 10 : FocusField(i)
      <4>1. (focus + 1) % FieldCount \in 0 .. 10
        BY <3>1
      <4>2. (IF focus = 0 THEN FieldCount - 1 ELSE focus - 1) \in 0 .. 10
        BY <3>1
      <4> QED BY <2>3, <4>1, <4>2 DEF Tab
    <3>3. InputIndex(i) \in 0 .. 8 \cup {NoInput}
      BY DEF InputIndex, NoInput
    <3>4. lit' \subseteq 0 .. 8
      BY <3>2, <3>3 DEF FocusField, Types, FormTypes
    <3> QED BY <3>2, <3>4 DEF FocusField, Types, FormTypes
  <2>4. CASE Toggle
    <3>1. useVault' \in BOOLEAN /\ clusterMode' \in BOOLEAN
      BY <2>4, Zenon DEF Toggle, Types, FormTypes
    <3> QED BY <2>4, <3>1 DEF Toggle, Types, FormTypes
  <2>5. CASE TestConnection \/ LeaveTest
    BY <2>5, KeptTypes DEF TestConnection, LeaveTest
  <2>6. CASE LeaveForm
    <3>1. editing' \in {editing, None}
      BY <2>6 DEF LeaveForm
    <3> QED BY <2>6, <3>1, ResetTypes DEF LeaveForm, Types
  <2> QED BY <2>1, <2>2, <2>3, <2>4, <2>5, <2>6
<1> QED BY <1>1, <1>2, <1>3 DEF Types

\* Keys that start a command.
LEMMA CommandKeyTypes ==
  ASSUME Types, SubmitAdd \/ SubmitEdit \/ Connect \/ LoadConnections \/ Confirm \/ Load
  PROVE  Types'
<1>1. ASSUME NEW c \in SlotContents, c.op \in {"load", "add", "update", "delete"}, StartOnList(c),
             UNCHANGED <<uses, stored, nextID, conns, row, screen, confirm, connected, form, live>>
      PROVE  Types'
  <2>1. SlotTypes' /\ stale' \in BOOLEAN
    BY <1>1, StartOnListTypes DEF Types, ListTypes
  <2> QED BY <1>1, <2>1, KeptTypes DEF Types
<1>2. ASSUME Start([op |-> "info"]), UNCHANGED <<list, screen, confirm, connected, form, live>>
      PROVE  Types'
  <2>1. SlotTypes'
    BY <1>2, StartTypes, Contents DEF Types, PlaceTypes
  <2> QED BY <1>2, <2>1, KeptTypes DEF Types
<1>3. CASE SubmitAdd
  <2>1. PICK c \in Inputs(1) : StartOnList([op |-> "add", conn |-> c])
    BY <1>3 DEF SubmitAdd
  <2>2. 1 \in 1 .. MaxConnID
    BY <1>3, SessionAssumption DEF SubmitAdd, Types, ListTypes
  <2>3. [op |-> "add", conn |-> c] \in SlotContents
    BY <2>1, <2>2, InputsType, Contents DEF Types
  <2>4. UNCHANGED <<uses, stored, nextID, conns, row, screen, confirm, connected, form, live>>
    BY <1>3 DEF SubmitAdd
  <2> QED BY <1>1, <2>1, <2>3, <2>4
<1>4. CASE SubmitEdit
  <2>1. PICK c \in Inputs(editing) : StartOnList([op |-> "update", conn |-> c])
    BY <1>4 DEF SubmitEdit
  <2>2. editing \in 1 .. MaxConnID
    BY <1>4 DEF SubmitEdit, Types, FormTypes
  <2>3. [op |-> "update", conn |-> c] \in SlotContents
    BY <2>1, <2>2, InputsType, Contents DEF Types
  <2>4. UNCHANGED <<uses, stored, nextID, conns, row, screen, confirm, connected, form, live>>
    BY <1>4 DEF SubmitEdit
  <2> QED BY <1>1, <2>1, <2>3, <2>4
<1>5. CASE Connect
  <2>1. connected' = TRUE /\ Start([op |-> "connect"]) /\ UNCHANGED <<list, screen, confirm, form, live>>
    BY <1>5 DEF Connect
  <2>2. SlotTypes'
    BY <2>1, StartTypes, Contents DEF Types, PlaceTypes
  <2>3. PlaceTypes'
    BY <2>1 DEF Types, PlaceTypes
  <2> QED BY <2>1, <2>2, <2>3, KeptTypes DEF Types
<1>6. CASE LoadConnections
  <2>1. [op |-> "load", crossed |-> FALSE] \in SlotContents
    <3>1. FALSE \in BOOLEAN
      OBVIOUS
    <3> QED BY <3>1, Contents, Zenon
  <2> QED BY <1>1, <1>6, <2>1 DEF LoadConnections
<1>7. CASE Confirm
  <2>1. CASE confirm = None
    BY <1>2, <1>7, <2>1 DEF Confirm, list
  <2>2. CASE confirm # None
    <3>1. [op |-> "delete", id |-> confirm] \in SlotContents
      BY <2>2, Contents DEF Types, PlaceTypes
    <3> QED BY <1>1, <1>7, <2>2, <3>1 DEF Confirm
  <2> QED BY <2>1, <2>2
<1>8. CASE Load
  BY <1>2, <1>8 DEF Load
<1> QED BY <1>3, <1>4, <1>5, <1>6, <1>7, <1>8

\* The other keys.
LEMMA OtherKeyTypes ==
  ASSUME Types, MoveRow \/ AskDelete \/ Decline \/ Help \/ LeaveHelp \/ OpenOther \/ LeaveOther
                  \/ Watch \/ OpenMetrics \/ LeaveMetrics
  PROVE  Types'
<1>1. CASE MoveRow
  <2>1. Max({row - 1, 0}) \in {row - 1, 0} /\ Max({row - 1, 0}) >= 0
    <3>1. \E x \in {row - 1, 0} : \A y \in {row - 1, 0} : x >= y
      BY DEF Types, ListTypes
    <3> QED BY <3>1 DEF Max
  <2>2. row' \in Nat
    BY <1>1, <2>1 DEF MoveRow, Types, ListTypes
  <2>3. ListTypes'
    BY <1>1, <2>2 DEF MoveRow, Types, ListTypes
  <2> QED BY <1>1, <2>3, KeptTypes DEF MoveRow, Types
<1>2. CASE AskDelete
  <2>1. confirm' \in 1 .. MaxConnID \cup {None}
    BY <1>2, RowType DEF AskDelete, Types
  <2>2. PlaceTypes'
    BY <1>2, <2>1 DEF AskDelete, Types, PlaceTypes, Screens
  <2> QED BY <1>2, <2>2, KeptTypes DEF AskDelete, Types
<1>3. CASE Decline \/ LeaveHelp \/ OpenOther
  <2>1. screen' \in Screens /\ UNCHANGED <<list, confirm, connected, form, live, slots>>
    BY <1>3 DEF Decline, LeaveHelp, OpenOther, Screens
  <2> QED BY <2>1, KeptTypes DEF Types
<1>4. CASE Help
  <2>1. "help" \in Screens
    BY DEF Screens
  <2>2. FormTypes' /\ PlaceTypes'
    BY <1>4, <2>1, ShowTypes DEF Help
  <2> QED BY <1>4, <2>2, KeptTypes DEF Help, Types
<1>5. CASE OpenMetrics
  <2>1. reads' \in 0 .. MaxReads
    BY <1>5, SessionAssumption DEF OpenMetrics, Read, Types, LiveTypes
  <2>2. metrics' \in BOOLEAN /\ left' \in BOOLEAN
    BY <1>5, Zenon DEF OpenMetrics
  <2> QED BY <1>5, <2>1, <2>2, KeptTypes DEF OpenMetrics, Types, LiveTypes
<1>6. CASE LeaveMetrics
  <2>1. metrics' \in BOOLEAN /\ left' \in BOOLEAN
    BY <1>6, Zenon DEF LeaveMetrics
  <2>2. LiveTypes'
    BY <1>6, <2>1 DEF LeaveMetrics, Types, LiveTypes
  <2>3. PlaceTypes'
    BY <1>6, KeptTypes DEF LeaveMetrics, Screens
  <2> QED BY <1>6, <2>2, <2>3, KeptTypes DEF LeaveMetrics, Types
<1>7. CASE LeaveOther \/ Watch
  <2>1. watch' \in BOOLEAN
    BY <1>7, Zenon DEF LeaveOther, Watch, Types, LiveTypes
  <2>2. UNCHANGED <<metrics, reads, left, list, confirm, connected, form, slots>>
    BY <1>7 DEF LeaveOther, Watch
  <2>3. LiveTypes'
    BY <2>1, <2>2 DEF Types, LiveTypes
  <2>4. screen' \in Screens
    BY <1>7 DEF LeaveOther, Watch, Screens, Types, PlaceTypes
  <2> QED BY <2>2, <2>3, <2>4, KeptTypes DEF Types
<1> QED BY <1>1, <1>2, <1>3, <1>4, <1>5, <1>6, <1>7

\* The metrics.
LEMMA LiveStepTypes ==
  ASSUME Types, Tick \/ LiveMetrics
  PROVE  Types'
<1>1. CASE Tick
  <2>1. reads' \in 0 .. MaxReads
    BY <1>1, SessionAssumption DEF Tick, Read, Types, LiveTypes
  <2> QED BY <1>1, <2>1, KeptTypes DEF Tick, Types, LiveTypes
<1>2. CASE LiveMetrics
  <2>1. reads' \in 0 .. MaxReads
    <3>1. reads > 0 /\ reads' = reads - 1
      BY <1>2, Zenon DEF LiveMetrics
    <3> QED BY <3>1, SessionAssumption DEF Types, LiveTypes
  <2>2. metrics' \in BOOLEAN /\ left' \in BOOLEAN
    BY <1>2, Zenon DEF LiveMetrics, Types, LiveTypes
  <2>3. FormTypes' /\ PlaceTypes'
    <3>1. CASE Show("metrics")
      <4>1. "metrics" \in Screens
        BY DEF Screens
      <4> QED BY <1>2, <3>1, <4>1, ShowTypes DEF LiveMetrics
    <3>2. CASE UNCHANGED <<screen, disturbed>>
      BY <1>2, <3>2, KeptTypes DEF LiveMetrics, form
    <3> QED BY <1>2, <3>1, <3>2 DEF LiveMetrics
  <2> QED BY <1>2, <2>1, <2>2, <2>3, KeptTypes DEF LiveMetrics, Types, LiveTypes
<1> QED BY <1>1, <1>2

\* Commands.
LEMMA CommandTypes ==
  ASSUME Types, NEW s \in Slots, Command(s)
  PROVE  Types'
<1>1. ASSUME NEW x \in SlotContents, x.op # "connect", slots' = [slots EXCEPT ![s] = x],
             stored' \subseteq Connections, nextID' \in 1 .. MaxConnID + 1, stale' \in BOOLEAN,
             UNCHANGED Elsewhere
      PROVE  Types'
  <2>1. SlotTypes'
    BY <1>1, RunTypes DEF Types, Elsewhere
  <2>2. ListTypes'
    BY <1>1 DEF Types, ListTypes, Elsewhere
  <2> QED BY <1>1, <2>1, <2>2, KeptTypes DEF Types, Elsewhere
<1>2. slots[s] \in SlotContents
  BY DEF Types, SlotTypes
<1>3. /\ stored \subseteq Connections /\ nextID \in 1 .. MaxConnID + 1 /\ stale \in BOOLEAN
      /\ MaxConnID \in Nat
  BY SessionAssumption DEF Types, ListTypes
<1>4. CASE RunLoad(s)
  <2>1. PICK cs \in InOrder(stored) :
          slots' = [slots EXCEPT ![s] =
                      [op |-> "loaded", conns |-> cs, crossed |-> slots[s].crossed]]
    BY <1>4 DEF RunLoad, Runs
  <2>2. cs \in Seq(Connections) /\ slots[s].crossed \in BOOLEAN
    BY <1>2, <1>3, <1>4, <2>1, InOrderType, Fields DEF RunLoad
  <2>3. [op |-> "loaded", conns |-> cs, crossed |-> slots[s].crossed] \in SlotContents
    BY <2>2, Contents
  <2>4. UNCHANGED <<stored, nextID, stale, Elsewhere>>
    BY <1>4 DEF RunLoad
  <2> QED BY <1>1, <1>3, <2>1, <2>3, <2>4
<1>5. CASE RunAdd(s)
  <2> DEFINE c == [slots[s].conn EXCEPT !.id = nextID]
  <2>1. nextID \in 1 .. MaxConnID /\ nextID + 1 \in 1 .. MaxConnID + 1
    BY <1>3, <1>5 DEF RunAdd
  <2>2. c \in Connections
    BY <1>2, <1>5, <2>1, Fields DEF RunAdd, Connections
  <2>3. \E b \in BOOLEAN :
          /\ slots' = [slots EXCEPT ![s] = [op |-> "added", conn |-> c, ok |-> b]]
          /\ \/ stored' = stored \cup {c} /\ nextID' = nextID + 1
             \/ UNCHANGED <<stored, nextID>>
    <3>1. TRUE \in BOOLEAN /\ FALSE \in BOOLEAN
      OBVIOUS
    <3> QED BY <1>5, <3>1, Zenon DEF RunAdd, Runs
  <2>4. UNCHANGED <<stale, Elsewhere>>
    BY <1>5 DEF RunAdd
  <2> HIDE DEF c
  <2>5. PICK b \in BOOLEAN :
          /\ slots' = [slots EXCEPT ![s] = [op |-> "added", conn |-> c, ok |-> b]]
          /\ \/ stored' = stored \cup {c} /\ nextID' = nextID + 1
             \/ UNCHANGED <<stored, nextID>>
    BY <2>3
  <2>6. [op |-> "added", conn |-> c, ok |-> b] \in SlotContents
    BY <2>2, Contents
  <2> QED BY <1>1, <1>3, <2>1, <2>2, <2>4, <2>5, <2>6
<1>6. CASE RunUpdate(s)
  <2> DEFINE c == slots[s].conn
  <2>1. c \in Connections
    BY <1>2, <1>6, Fields DEF RunUpdate
  <2>2. \E b \in BOOLEAN : slots' = [slots EXCEPT ![s] = [op |-> "updated", conn |-> c, ok |-> b]]
    <3>1. TRUE \in BOOLEAN /\ FALSE \in BOOLEAN
      OBVIOUS
    <3> QED BY <1>6, <3>1, Zenon DEF RunUpdate, Runs
  <2>3. stored' \subseteq stored \cup {c}
    BY <1>6 DEF RunUpdate
  <2>4. UNCHANGED <<nextID, stale, Elsewhere>>
    BY <1>6 DEF RunUpdate
  <2> HIDE DEF c
  <2>5. PICK b \in BOOLEAN : slots' = [slots EXCEPT ![s] = [op |-> "updated", conn |-> c, ok |-> b]]
    BY <2>2
  <2>6. [op |-> "updated", conn |-> c, ok |-> b] \in SlotContents
    BY <2>1, Contents
  <2> QED BY <1>1, <1>3, <2>1, <2>3, <2>4, <2>5, <2>6
<1>7. CASE RunDelete(s)
  <2> DEFINE i == slots[s].id
             old == {d \in stored : d.id = i}
  <2>1. i \in 1 .. MaxConnID
    BY <1>2, <1>7, Fields DEF RunDelete
  <2>2. \E b \in BOOLEAN : slots' = [slots EXCEPT ![s] = [op |-> "deleted", id |-> i, ok |-> b]]
    <3>1. TRUE \in BOOLEAN /\ FALSE \in BOOLEAN
      OBVIOUS
    <3> QED BY <1>7, <3>1, Zenon DEF RunDelete, Runs
  <2>3. stored' \subseteq stored /\ UNCHANGED <<nextID, Elsewhere>>
    BY <1>7 DEF RunDelete
  <2>4. stale' \in BOOLEAN
    <3>1. stale' = stale \/ stale' = (stale \/ old # {})
      BY <1>7, Zenon DEF RunDelete
    <3> HIDE DEF old
    <3> QED BY <1>3, <3>1, Zenon
  <2> HIDE DEF i
  <2>5. PICK b \in BOOLEAN : slots' = [slots EXCEPT ![s] = [op |-> "deleted", id |-> i, ok |-> b]]
    BY <2>2
  <2>6. [op |-> "deleted", id |-> i, ok |-> b] \in SlotContents
    BY <2>1, Contents
  <2> QED BY <1>1, <1>3, <2>3, <2>4, <2>5, <2>6
<1> QED BY <1>4, <1>5, <1>6, <1>7 DEF Command

\* Results of commands on the list.
LEMMA ListMessageTypes ==
  ASSUME Types, NEW s \in Slots,
         ConnectionsLoaded(s) \/ ConnectionAdded(s) \/ ConnectionUpdated(s) \/ ConnectionDeleted(s)
  PROVE  Types'
<1>1. slots[s] \in SlotContents /\ SlotTypes /\ ListTypes /\ FormTypes
  BY DEF Types, SlotTypes
<1>2. SlotTypes'
  BY <1>1, HandleTypes
     DEF ConnectionsLoaded, ConnectionAdded, ConnectionUpdated, ConnectionDeleted, Deleted
<1>3. LiveTypes'
  BY KeptTypes DEF ConnectionsLoaded, ConnectionAdded, ConnectionUpdated, ConnectionDeleted, Deleted
<1>4. "connections" \in Screens
  BY DEF Screens
<1>5. CASE ConnectionsLoaded(s)
  <2>1. conns' \in Seq(Connections)
    BY <1>1, <1>5, Fields DEF ConnectionsLoaded, Handle, ListTypes
  <2>2. stale' \in BOOLEAN
    BY <1>1, <1>5, Zenon DEF ConnectionsLoaded, ListTypes
  <2>3. ListTypes'
    BY <1>1, <1>5, <2>1, <2>2 DEF ConnectionsLoaded, ListTypes
  <2> QED BY <1>2, <1>3, <1>5, <2>3, KeptTypes DEF ConnectionsLoaded, Types
<1>6. CASE ConnectionAdded(s)
  <2>1. conns' \in Seq(Connections)
    <3>1. slots[s].conn \in Connections
      BY <1>1, <1>6, Fields DEF ConnectionAdded, Handle
    <3>2. Append(conns, slots[s].conn) \in Seq(Connections)
      BY <1>1, <3>1, AppendProperties DEF ListTypes
    <3> QED BY <1>1, <1>6, <3>2 DEF ConnectionAdded, ListTypes
  <2>2. ListTypes'
    BY <1>1, <1>6, <2>1 DEF ConnectionAdded, ListTypes
  <2>3. FormTypes'
    <3>1. CASE ResetConnInputs
      BY <1>1, <1>6, <3>1, ResetTypes DEF ConnectionAdded
    <3>2. CASE UNCHANGED <<focus, lit, useVault, clusterMode, inputsOf, disturbed>>
      BY <1>6, <3>2, KeptTypes DEF ConnectionAdded, form
    <3> QED BY <1>6, <3>1, <3>2 DEF ConnectionAdded
  <2>4. PlaceTypes'
    BY <1>4, <1>6, KeptTypes DEF ConnectionAdded
  <2> QED BY <1>2, <1>3, <2>2, <2>3, <2>4 DEF Types
<1>7. CASE ConnectionUpdated(s)
  <2>1. conns' \in Seq(Connections)
    <3>1. slots[s].conn \in Connections
      BY <1>1, <1>7, Fields DEF ConnectionUpdated, Handle
    <3>2. ASSUME NEW i PROVE [conns EXCEPT ![i] = slots[s].conn] \in Seq(Connections)
      <4>1. CASE i \in 1 .. Len(conns)
        BY <1>1, <3>1, <4>1, ExceptSeq DEF ListTypes
      <4>2. CASE i \notin 1 .. Len(conns)
        <5>1. /\ DOMAIN conns = 1 .. Len(conns)
              /\ conns \in [1 .. Len(conns) -> Connections]
          BY <1>1, LenProperties DEF ListTypes
        <5>2. [conns EXCEPT ![i] = slots[s].conn] = conns
          BY <4>2, <5>1
        <5> QED BY <1>1, <5>2 DEF ListTypes
      <4> QED BY <4>1, <4>2
    <3>3. conns' = conns \/ \E i : conns' = [conns EXCEPT ![i] = slots[s].conn]
      <4> DEFINE i == SelectInSeq(conns, LAMBDA c : c.id = slots[s].conn.id)
      <4>1. conns' = conns \/ conns' = [conns EXCEPT ![i] = slots[s].conn]
        BY <1>7 DEF ConnectionUpdated
      <4> HIDE DEF i
      <4> QED BY <4>1
    <3> QED BY <1>1, <3>2, <3>3 DEF ListTypes
  <2>2. ListTypes'
    BY <1>1, <1>7, <2>1 DEF ConnectionUpdated, ListTypes
  <2>3. FormTypes'
    <3>1. CASE ResetConnInputs /\ editing' = None
      BY <1>1, <3>1, ResetTypes
    <3>2. CASE UNCHANGED form
      BY <3>2, KeptTypes
    <3> QED BY <1>7, <3>1, <3>2 DEF ConnectionUpdated
  <2>4. PlaceTypes'
    BY <1>4, <1>7, KeptTypes DEF ConnectionUpdated
  <2> QED BY <1>2, <1>3, <2>2, <2>3, <2>4 DEF Types
<1>8. CASE ConnectionDeleted(s)
  <2> DEFINE rest == RemoveFirstMatch(conns, LAMBDA c : c.id = slots[s].id)
  <2>1. rest \in Seq(Connections)
    BY <1>1, RemoveMatchType
  <2>2. Deleted(s, rest)
    BY <1>8 DEF ConnectionDeleted
  <2> HIDE DEF rest
  <2>3. row' \in Nat /\ conns' \in Seq(Connections)
    <3>1. (conns' = rest /\ row' = RowIn(rest)) \/ UNCHANGED <<conns, row>>
      BY <2>2 DEF Deleted
    <3> QED BY <1>1, <2>1, <3>1 DEF RowIn, ListTypes
  <2>4. ListTypes'
    BY <1>1, <2>2, <2>3 DEF Deleted, ListTypes
  <2>5. FormTypes' /\ PlaceTypes'
    BY <1>4, <2>2, ShowTypes DEF Deleted
  <2> QED BY <1>2, <1>3, <2>4, <2>5 DEF Types
<1> QED BY <1>5, <1>6, <1>7, <1>8

\* The other results.
LEMMA MessageTypes ==
  ASSUME Types, NEW s \in Slots, AutoConnect(s) \/ Connected(s) \/ Loaded(s)
  PROVE  Types'
<1>1. SlotTypes /\ "keys" \in Screens /\ "other" \in Screens
  BY DEF Types, Screens
<1>2. CASE AutoConnect(s)
  <2>1. /\ connected' = TRUE /\ slots' = [slots EXCEPT ![s] = [op |-> "connect"]]
        /\ UNCHANGED <<list, screen, confirm, form, live>>
    BY <1>2 DEF AutoConnect
  <2>2. SlotTypes'
    BY <1>1, <2>1, RunTypes, Contents
  <2>3. PlaceTypes'
    BY <2>1 DEF Types, PlaceTypes
  <2> QED BY <2>1, <2>2, <2>3, KeptTypes DEF Types
<1>3. CASE Connected(s)
  <2>1. SlotTypes'
    BY <1>1, <1>3, HandleTypes DEF Connected
  <2>2. FormTypes' /\ PlaceTypes'
    <3>1. CASE Show("keys")
      BY <1>1, <1>3, <3>1, ShowTypes DEF Connected
    <3>2. CASE UNCHANGED <<screen, disturbed>>
      BY <1>3, <3>2, KeptTypes DEF Connected, form
    <3> QED BY <1>3, <3>1, <3>2 DEF Connected
  <2>3. LiveTypes'
    <3>1. metrics' \in BOOLEAN /\ left' \in BOOLEAN
      BY <1>3, Zenon DEF Connected, Types, LiveTypes
    <3>2. reads' = reads /\ watch' = watch
      BY <1>3 DEF Connected
    <3> QED BY <3>1, <3>2 DEF Types, LiveTypes
  <2> QED BY <1>3, <2>1, <2>2, <2>3, KeptTypes DEF Connected, Types
<1>4. CASE Loaded(s)
  <2>1. SlotTypes'
    BY <1>1, <1>4, HandleTypes DEF Loaded
  <2>2. FormTypes' /\ PlaceTypes'
    <3>1. CASE Show("other") \/ Show("keys")
      BY <1>1, <1>4, <3>1, ShowTypes DEF Loaded
    <3>2. CASE UNCHANGED <<screen, disturbed>>
      BY <1>4, <3>2, KeptTypes DEF Loaded, form
    <3> QED BY <1>4, <3>1, <3>2 DEF Loaded
  <2> QED BY <1>4, <2>1, <2>2, KeptTypes DEF Loaded, Types
<1> QED BY <1>2, <1>3, <1>4

LEMMA StepTypes ==
  ASSUME Types, [SessionNext]_allVars
  PROVE  Types'
<1>1. CASE KeyPress
  BY <1>1, FormKeyTypes, CommandKeyTypes, OtherKeyTypes DEF KeyPress
<1>2. CASE Tick \/ LiveMetrics
  BY <1>2, LiveStepTypes
<1>3. ASSUME NEW s \in Slots, Command(s) \/ Message(s)
      PROVE  Types'
  BY <1>3, CommandTypes, ListMessageTypes, MessageTypes DEF Message
<1>4. ASSUME NEW id \in 1 .. MaxID, TimerFires(id)
      PROVE  Types'
  BY <1>4, KeptTypes DEF TimerFires, Types
<1>5. CASE UNCHANGED allVars
  BY <1>5, KeptTypes DEF allVars, list, form, live, Types
<1> QED BY <1>1, <1>2, <1>3, <1>4, <1>5 DEF SessionNext

LEMMA SessionIsTyped == SessionSpec => []Types
<1>1. SessionInit => Types
  BY InitTypes, AllTypes DEF Types
<1>2. Types /\ [SessionNext]_allVars => Types'
  BY StepTypes
<1> QED BY <1>1, <1>2, PTL DEF SessionSpec

\* The types of the session (Model), and that a connect under way was asked for.
THEOREM SessionTypes == SessionSpec => []SessionTypeOK
<1>1. Types => SessionTypeOK
  BY AllTypes DEF Types
<1> QED BY <1>1, SessionIsTyped, PTL

------------------------------------------------------------------------------
(* The form *)

\* The form is open, or waits behind its test.
InForm == FormOpen \/ screen = "test"

\* The field that the index is at is there, and its input alone has the focus.
AtField == focus < FieldCount /\ lit = {InputIndex(focus)} \ {NoInput}

\* Outside the form its index is at the start, where the next form begins; unless
\* one was closed by a result.
FormIInv ==
  /\ screen = "edit" => editing = inputsOf /\ editing # None
  /\ screen \in {"add", "test"} => inputsOf = None
  /\ ~disturbed /\ InForm => AtField
  /\ ~disturbed /\ ~InForm => focus = 0 /\ lit = {0}

\* The first field is there in every form.
LEMMA FirstField ==
  /\ 0 < FieldCount /\ InputIndex(0) = 0
  /\ (0 < FieldCount /\ InputIndex(0) = 0)'
BY DEF FieldCount, InputIndex

LEMMA SameForm ==
  ASSUME FormIInv, UNCHANGED <<screen, form>>
  PROVE  FormIInv'
BY DEF FormIInv, InForm, FormOpen, AtField, FieldCount, InputIndex, form

LEMMA OutsideForm ==
  ASSUME FormIInv, ~InForm, ~InForm', UNCHANGED form
  PROVE  FormIInv'
BY DEF FormIInv, InForm, FormOpen, form

LEMMA ShowForm ==
  ASSUME FormIInv, Types, NEW s \in Screens \ {"add", "edit", "test"}, Show(s),
         UNCHANGED <<editing, focus, lit, inputsOf>>
  PROVE  FormIInv'
<1>1. screen' = s /\ (disturbed' \/ (~disturbed /\ ~InForm))
  BY DEF Show, InForm
<1>2. ~InForm'
  BY <1>1 DEF InForm, FormOpen
<1> QED BY <1>1, <1>2 DEF FormIInv, InForm, FormOpen

LEMMA ResetForm ==
  ASSUME ResetConnInputs, screen' \in {"connections", "add"}
  PROVE  FormIInv'
<1>1. focus' = 0 /\ lit' = {0} /\ inputsOf' = None
  BY DEF ResetConnInputs
<1>2. AtField'
  BY <1>1, FirstField DEF AtField, NoInput
<1> QED BY <1>1, <1>2 DEF FormIInv

\* Another row of the form, another kind of form, and its test.
LEMMA FormKeys ==
  ASSUME FormIInv, Types, OpenEdit \/ Tab \/ Toggle \/ TestConnection \/ LeaveTest
  PROVE  FormIInv'
<1>1. CASE OpenEdit
  <2>1. Row.id \in 1 .. MaxConnID
    BY <1>1, RowType DEF Types, OpenEdit
  <2>2. screen' = "edit" /\ editing' = inputsOf' /\ editing' # None
    BY <1>1, <2>1, SessionAssumption DEF OpenEdit
  <2>3. ~disturbed' => focus' = 0 /\ lit' = {0}
    BY <1>1 DEF OpenEdit, FormIInv, InForm, FormOpen
  <2>4. ~disturbed' => AtField'
    BY <2>3, FirstField DEF AtField, NoInput
  <2> QED BY <2>2, <2>4 DEF FormIInv, InForm, FormOpen
<1>2. CASE Tab
  <2>1. FieldCount \in 7 .. 11 /\ focus \in 0 .. 10
    BY DEF FieldCount, Types, FormTypes
  <2>2. PICK i \in 0 .. 10 : FocusField(i) /\ (focus < FieldCount => i < FieldCount)
    <3>1. (focus + 1) % FieldCount \in 0 .. 10 /\ (focus + 1) % FieldCount < FieldCount
      BY <2>1
    <3>2. /\ (IF focus = 0 THEN FieldCount - 1 ELSE focus - 1) \in 0 .. 10
          /\ focus < FieldCount => (IF focus = 0 THEN FieldCount - 1 ELSE focus - 1) < FieldCount
      BY <2>1
    <3> QED BY <1>2, <3>1, <3>2 DEF Tab
  <2>3. /\ FormOpen /\ focus' = i
        /\ lit' = (lit \ {InputIndex(focus)}) \cup ({InputIndex(i)} \ {NoInput})
        /\ UNCHANGED <<screen, editing, useVault, clusterMode, inputsOf, disturbed>>
    BY <2>2 DEF FocusField
  <2>4. FieldCount' = FieldCount /\ InputIndex(focus)' = InputIndex(i)
    BY <2>3 DEF FieldCount, InputIndex
  <2>5. ~disturbed => AtField'
    <3>1. ~disturbed => AtField
      BY <2>3 DEF FormIInv, InForm
    <3> QED BY <2>2, <2>3, <2>4, <3>1 DEF AtField
  <2> QED BY <2>3, <2>5 DEF FormIInv, InForm, FormOpen
<1>3. CASE Toggle
  <2>1. FormOpen /\ UNCHANGED <<screen, editing, focus, lit, inputsOf, disturbed>>
    BY <1>3 DEF Toggle
  <2>2. focus < FieldCount /\ InputIndex(focus) = NoInput
    BY <1>3 DEF Toggle, VaultToggle, ClusterToggle, FieldCount, InputIndex
  <2>3. (focus < FieldCount)' /\ InputIndex(focus)' = NoInput
    <3>1. useVault \in BOOLEAN /\ useVault' \in BOOLEAN
      BY <1>3, Zenon DEF Toggle, Types, FormTypes
    <3>2. focus' = VaultToggle \/ (focus' = ClusterToggle' /\ useVault' = useVault)
      BY <1>3 DEF Toggle, ClusterToggle
    <3> QED BY <3>1, <3>2 DEF VaultToggle, ClusterToggle, FieldCount, InputIndex
  <2>4. ~disturbed => AtField'
    BY <2>1, <2>2, <2>3 DEF FormIInv, AtField, InForm
  <2> QED BY <2>1, <2>4 DEF FormIInv, InForm, FormOpen
<1>4. CASE TestConnection \/ LeaveTest
  <2>1. InForm /\ InForm' /\ screen \in {"add", "test"} /\ screen' \in {"add", "test"}
        /\ UNCHANGED form
    BY <1>4 DEF TestConnection, LeaveTest, InForm, FormOpen
  <2> QED BY <2>1 DEF FormIInv, AtField, FieldCount, InputIndex, form
<1> QED BY <1>1, <1>2, <1>3, <1>4

LEMMA FormStep ==
  ASSUME FormIInv, Types, [SessionNext]_allVars
  PROVE  FormIInv'
<1>1. CASE OpenEdit \/ Tab \/ Toggle \/ TestConnection \/ LeaveTest
  BY <1>1, FormKeys
<1>2. CASE OpenAdd \/ LeaveForm
  BY <1>2, ResetForm DEF OpenAdd, LeaveForm
<1>3. CASE SubmitAdd \/ SubmitEdit \/ MoveRow \/ Connect \/ LoadConnections \/ Confirm \/ Load
             \/ Watch \/ OpenMetrics \/ Tick
  <2>1. UNCHANGED <<screen, form>>
    BY <1>3 DEF SubmitAdd, SubmitEdit, MoveRow, Connect, LoadConnections, Confirm, Load,
                Watch, OpenMetrics, Tick
  <2> QED BY <2>1, SameForm
<1>4. CASE AskDelete \/ Decline \/ LeaveHelp \/ OpenOther \/ LeaveOther \/ LeaveMetrics
  <2>1. ~InForm /\ ~InForm' /\ UNCHANGED form
    BY <1>4 DEF AskDelete, Decline, LeaveHelp, OpenOther, LeaveOther, LeaveMetrics, InForm, FormOpen
  <2> QED BY <2>1, OutsideForm
<1>5. CASE Help
  BY <1>5, ShowForm DEF Help, Screens
<1>6. CASE LiveMetrics
  <2>1. CASE Show("metrics")
    BY <1>6, <2>1, ShowForm DEF LiveMetrics, Screens
  <2>2. CASE UNCHANGED <<screen, disturbed>>
    BY <1>6, <2>2, SameForm DEF LiveMetrics, form
  <2> QED BY <1>6, <2>1, <2>2 DEF LiveMetrics
<1>7. ASSUME NEW s \in Slots, Command(s) \/ ConnectionsLoaded(s) \/ AutoConnect(s)
      PROVE  FormIInv'
  <2>1. UNCHANGED <<screen, form>>
    BY <1>7 DEF Command, RunLoad, RunAdd, RunUpdate, RunDelete, Elsewhere, ConnectionsLoaded,
                AutoConnect
  <2> QED BY <2>1, SameForm
<1>8. ASSUME NEW s \in Slots, ConnectionAdded(s)
      PROVE  FormIInv'
  <2>1. CASE screen' = "connections" /\ ResetConnInputs
    BY <2>1, ResetForm
  <2>2. CASE UNCHANGED <<screen, focus, lit, useVault, clusterMode, inputsOf, disturbed>>
    BY <1>8, <2>2, SameForm DEF ConnectionAdded, form
  <2> QED BY <1>8, <2>1, <2>2 DEF ConnectionAdded
<1>9. ASSUME NEW s \in Slots, ConnectionUpdated(s)
      PROVE  FormIInv'
  <2>1. CASE screen' = "connections" /\ ResetConnInputs
    BY <2>1, ResetForm
  <2>2. CASE UNCHANGED <<screen, form>>
    BY <2>2, SameForm
  <2> QED BY <1>9, <2>1, <2>2 DEF ConnectionUpdated
<1>10. ASSUME NEW s \in Slots, ConnectionDeleted(s)
       PROVE  FormIInv'
  <2>1. Show("connections") /\ UNCHANGED <<editing, focus, lit, inputsOf>>
    BY <1>10 DEF ConnectionDeleted, Deleted
  <2> QED BY <2>1, ShowForm DEF Screens
<1>11. ASSUME NEW s \in Slots, Connected(s)
       PROVE  FormIInv'
  <2>1. CASE Show("keys")
    BY <1>11, <2>1, ShowForm DEF Connected, Screens
  <2>2. CASE UNCHANGED <<screen, disturbed>>
    BY <1>11, <2>2, SameForm DEF Connected, form
  <2> QED BY <1>11, <2>1, <2>2 DEF Connected
<1>12. ASSUME NEW s \in Slots, Loaded(s)
       PROVE  FormIInv'
  <2>1. CASE Show("other") \/ Show("keys")
    BY <1>12, <2>1, ShowForm DEF Loaded, Screens
  <2>2. CASE UNCHANGED <<screen, disturbed>>
    BY <1>12, <2>2, SameForm DEF Loaded, form
  <2> QED BY <1>12, <2>1, <2>2 DEF Loaded
<1>13. ASSUME NEW id \in 1 .. MaxID, TimerFires(id)
       PROVE  FormIInv'
  BY <1>13, SameForm DEF TimerFires
<1>14. CASE UNCHANGED allVars
  BY <1>14, SameForm DEF allVars, form
<1> QED BY <1>1, <1>2, <1>3, <1>4, <1>5, <1>6, <1>7, <1>8, <1>9, <1>10, <1>11, <1>12, <1>13, <1>14
        DEF SessionNext, KeyPress, Message

\* What the form saves goes to the connection it was filled from, and what is typed goes into
\* the field that is shown, whichever kind of form, unless a result or "?" closed an earlier
\* one (screens_connection.go:53-159, model.go:397-436).
THEOREM SessionFormAgrees == SessionSpec => []FormAgrees
<1>1. SessionInit => FormIInv
  BY DEF SessionInit, FormIInv, InForm, FormOpen
<1>2. FormIInv /\ Types /\ [SessionNext]_allVars => FormIInv'
  BY FormStep
<1>3. FormIInv => FormAgrees
  BY DEF FormIInv, FormAgrees, InForm, AtField
<1> QED BY <1>1, <1>2, <1>3, SessionIsTyped, PTL DEF SessionSpec

------------------------------------------------------------------------------
(* The list on the screen and the stored one *)

Sorted(cs) == cs \in Seq(Connections) /\ \A i, j \in 1 .. Len(cs) : i < j => cs[i].id < cs[j].id

Others(S, id) == {c \in S : c.id # id}

\* What holds at 0 and goes on to the next number holds up to n.
LEMMA UpTo ==
  ASSUME NEW n \in Nat, NEW S, 0 \in S, \A i \in 0 .. n - 1 : i \in S => i + 1 \in S
  PROVE  n \in S
<1> DEFINE T == {i \in 0 .. n : i \notin S}
<1> SUFFICES ASSUME T # {} PROVE FALSE
  OBVIOUS
<1>1. T \subseteq Nat
  OBVIOUS
<1>2. \E m \in T : \A y \in T : <<y, m>> \notin OpToRel(<, Nat)
  <2> HIDE DEF T
  <2> QED BY <1>1, NatLessThanWellFounded, WFMin
<1>3. \A x, y \in Nat : y < x => <<y, x>> \in OpToRel(<, Nat)
  BY Zenon DEF OpToRel
<1>4. PICK m \in T : \A y \in T : ~(y < m)
  <2> HIDE DEF T
  <2> QED BY <1>1, <1>2, <1>3, Zenon
<1>5. m # 0 /\ m - 1 \in 0 .. n - 1 /\ m - 1 < m
  BY <1>4
<1> QED BY <1>4, <1>5

\* A list in order has an id of its own for each row, and so no more rows than there are ids.
LEMMA SortedFacts ==
  ASSUME NEW cs, Sorted(cs)
  PROVE  /\ Len(cs) \in 0 .. MaxConnID
         /\ cs \in [1 .. Len(cs) -> Connections]
         /\ ToSet(cs) = {cs[i] : i \in 1 .. Len(cs)} /\ ToSet(cs) \subseteq Connections
         /\ \A i, j \in 1 .. Len(cs) : cs[i].id = cs[j].id => i = j
<1>1. cs \in Seq(Connections) /\ \A i, j \in 1 .. Len(cs) : i < j => cs[i].id < cs[j].id
  BY DEF Sorted
<1>2. Len(cs) \in Nat /\ DOMAIN cs = 1 .. Len(cs) /\ cs \in [1 .. Len(cs) -> Connections]
  BY <1>1, LenProperties
<1>3. \A i \in 1 .. Len(cs) : cs[i] \in Connections /\ cs[i].id \in 1 .. MaxConnID
  BY <1>2 DEF Connections
<1> DEFINE S == {i \in 0 .. Len(cs) : i = 0 \/ i <= cs[i].id}
<1>4. Len(cs) \in S
  <2>1. 0 \in S
    BY <1>2
  <2>2. ASSUME NEW i \in 0 .. Len(cs) - 1, i \in S
        PROVE  i + 1 \in S
    <3>1. i + 1 \in 1 .. Len(cs) /\ cs[i + 1].id \in 1 .. MaxConnID
      BY <1>2, <1>3
    <3>2. CASE i = 0
      BY <3>1, <3>2
    <3>3. CASE i # 0
      <4>1. i \in 1 .. Len(cs) /\ i <= cs[i].id /\ cs[i].id \in 1 .. MaxConnID
        BY <1>2, <1>3, <2>2, <3>3
      <4>2. cs[i].id < cs[i + 1].id
        BY <1>1, <1>2, <3>1, <4>1
      <4>3. i + 1 <= cs[i + 1].id
        BY <3>1, <4>1, <4>2, SessionAssumption
      <4> QED BY <1>2, <3>1, <4>3
    <3> QED BY <3>2, <3>3
  <2> HIDE DEF S
  <2> QED BY <1>2, <2>1, <2>2, UpTo
<1>5. Len(cs) <= MaxConnID
  <2>1. CASE Len(cs) = 0
    BY <2>1, SessionAssumption
  <2>2. CASE Len(cs) # 0
    <3>1. Len(cs) \in 1 .. Len(cs) /\ Len(cs) <= cs[Len(cs)].id
      BY <1>2, <1>4, <2>2
    <3>2. cs[Len(cs)].id \in 1 .. MaxConnID
      BY <1>3, <3>1
    <3> QED BY <1>2, <3>1, <3>2, SessionAssumption
  <2> QED BY <2>1, <2>2
<1>6. ToSet(cs) = {cs[i] : i \in 1 .. Len(cs)} /\ ToSet(cs) \subseteq Connections
  BY <1>2 DEF ToSet
<1>7. ASSUME NEW i \in 1 .. Len(cs), NEW j \in 1 .. Len(cs), cs[i].id = cs[j].id
      PROVE  i = j
  <2>1. ~(i < j) /\ ~(j < i)
    BY <1>1, <1>3, <1>7, SessionAssumption
  <2> QED BY <1>2, <2>1
<1> QED BY <1>2, <1>5, <1>6, <1>7, SessionAssumption

\* The order of ListConnections is the order by id.
LEMMA InOrderIff ==
  ASSUME NEW S, S \subseteq Connections, NEW cs
  PROVE  cs \in InOrder(S) <=> Sorted(cs) /\ ToSet(cs) = S
<1>1. ASSUME cs \in InOrder(S)
      PROVE  Sorted(cs) /\ ToSet(cs) = S
  <2>1. cs \in Seq(Connections)
    BY <1>1, InOrderType
  <2>2. DOMAIN cs = 1 .. Len(cs)
    BY <2>1, LenProperties
  <2> QED BY <1>1, <2>1, <2>2 DEF InOrder, Sorted
<1>2. ASSUME Sorted(cs), ToSet(cs) = S
      PROVE  cs \in InOrder(S)
  <2>1. Len(cs) \in 0 .. MaxConnID /\ cs \in [1 .. Len(cs) -> Connections]
    BY <1>2, SortedFacts
  <2>2. \A i \in 1 .. Len(cs) : cs[i] \in S
    BY <1>2, SortedFacts
  <2>3. DOMAIN cs = 1 .. Len(cs) /\ cs \in [1 .. Len(cs) -> S]
    BY <2>1, <2>2
  <2>4. cs \in UNION {[1 .. n -> S] : n \in 0 .. MaxConnID}
    BY <2>1, <2>3
  <2> QED BY <1>2, <2>3, <2>4 DEF InOrder, Sorted
<1> QED BY <1>1, <1>2

\* A connection with a later id goes to the end.
LEMMA AppendSorted ==
  ASSUME NEW cs, Sorted(cs), NEW c \in Connections, \A d \in ToSet(cs) : d.id < c.id
  PROVE  Sorted(Append(cs, c)) /\ ToSet(Append(cs, c)) = ToSet(cs) \cup {c}
<1> DEFINE r == Append(cs, c)
<1>1. /\ Len(cs) \in Nat /\ cs \in Seq(Connections)
      /\ ToSet(cs) = {cs[i] : i \in 1 .. Len(cs)}
      /\ \A i, j \in 1 .. Len(cs) : i < j => cs[i].id < cs[j].id
  BY SortedFacts DEF Sorted
<1>2. /\ r \in Seq(Connections) /\ Len(r) = Len(cs) + 1
      /\ \A i \in 1 .. Len(cs) : r[i] = cs[i]
      /\ r[Len(cs) + 1] = c
  BY <1>1, AppendProperties
<1>3. DOMAIN r = 1 .. Len(cs) + 1
  BY <1>2, LenProperties
<1> HIDE DEF r
<1>4. ASSUME NEW i \in 1 .. Len(r), NEW j \in 1 .. Len(r), i < j
      PROVE  r[i].id < r[j].id
  <2>1. i \in 1 .. Len(cs) /\ r[i] = cs[i]
    BY <1>1, <1>2, <1>4
  <2>2. CASE j \in 1 .. Len(cs)
    BY <1>1, <1>2, <1>4, <2>1, <2>2
  <2>3. CASE j = Len(cs) + 1
    BY <1>1, <1>2, <2>1, <2>3
  <2> QED BY <1>1, <1>2, <2>2, <2>3
<1>5. Sorted(r)
  BY <1>2, <1>4 DEF Sorted
<1>6. ToSet(r) = ToSet(cs) \cup {c}
  <2>1. ToSet(r) = {r[i] : i \in 1 .. Len(cs) + 1}
    BY <1>3 DEF ToSet
  <2>2. Len(cs) + 1 \in 1 .. Len(cs) + 1 /\ \A i \in 1 .. Len(cs) : i \in 1 .. Len(cs) + 1
    BY <1>1
  <2>3. \A i \in 1 .. Len(cs) + 1 : i \in 1 .. Len(cs) \/ i = Len(cs) + 1
    BY <1>1
  <2> QED BY <1>1, <1>2, <2>1, <2>2, <2>3
<1> QED BY <1>5, <1>6 DEF r

\* A connection takes the place of the one with its id.
LEMMA ReplaceSorted ==
  ASSUME NEW cs, Sorted(cs), NEW n \in 1 .. Len(cs), NEW c \in Connections, cs[n].id = c.id
  PROVE  /\ Sorted([cs EXCEPT ![n] = c])
         /\ ToSet([cs EXCEPT ![n] = c]) = Others(ToSet(cs), c.id) \cup {c}
<1> DEFINE r == [cs EXCEPT ![n] = c]
<1>1. /\ Len(cs) \in Nat /\ cs \in Seq(Connections)
      /\ cs \in [1 .. Len(cs) -> Connections]
      /\ ToSet(cs) = {cs[i] : i \in 1 .. Len(cs)}
      /\ \A i, j \in 1 .. Len(cs) : i < j => cs[i].id < cs[j].id
      /\ \A i, j \in 1 .. Len(cs) : cs[i].id = cs[j].id => i = j
  BY SortedFacts DEF Sorted
<1>2. r \in Seq(Connections) /\ DOMAIN r = 1 .. Len(cs)
  BY <1>1, ExceptSeq
<1>3. Len(r) = Len(cs)
  BY <1>1, <1>2, LenProperties
<1>4. \A i \in 1 .. Len(cs) : r[i] = IF i = n THEN c ELSE cs[i]
  BY <1>1
<1> HIDE DEF r
<1>5. \A i \in 1 .. Len(cs) : r[i].id = cs[i].id
  BY <1>4
<1>6. Sorted(r)
  BY <1>1, <1>2, <1>3, <1>5 DEF Sorted
<1>7. ToSet(r) = {r[i] : i \in 1 .. Len(cs)}
  BY <1>2 DEF ToSet
<1>8. ToSet(r) = Others(ToSet(cs), c.id) \cup {c}
  <2>1. ASSUME NEW d \in ToSet(r) PROVE d \in Others(ToSet(cs), c.id) \cup {c}
    <3>1. PICK i \in 1 .. Len(cs) : d = r[i]
      BY <1>7
    <3>2. i # n => cs[i].id # c.id
      BY <1>1
    <3> QED BY <1>1, <1>4, <3>1, <3>2 DEF Others
  <2>2. ASSUME NEW d \in Others(ToSet(cs), c.id) PROVE d \in ToSet(r)
    <3>1. PICK i \in 1 .. Len(cs) : d = cs[i] /\ cs[i].id # c.id
      BY <1>1 DEF Others
    <3> QED BY <1>4, <1>7, <3>1
  <2>3. c \in ToSet(r)
    BY <1>4, <1>7
  <2> QED BY <2>1, <2>2, <2>3
<1> QED BY <1>6, <1>8 DEF r

\* A row goes.
LEMMA RemoveSorted ==
  ASSUME NEW cs, Sorted(cs), NEW n \in 1 .. Len(cs)
  PROVE  /\ Sorted(RemoveAt(cs, n))
         /\ ToSet(RemoveAt(cs, n)) = Others(ToSet(cs), cs[n].id)
<1> DEFINE u == SubSeq(cs, 1, n - 1)
           v == SubSeq(cs, n + 1, Len(cs))
           r == u \o v
<1>1. /\ Len(cs) \in Nat /\ cs \in Seq(Connections)
      /\ ToSet(cs) = {cs[i] : i \in 1 .. Len(cs)}
      /\ \A i, j \in 1 .. Len(cs) : i < j => cs[i].id < cs[j].id
      /\ \A i, j \in 1 .. Len(cs) : cs[i].id = cs[j].id => i = j
  BY SortedFacts DEF Sorted
<1>2. \A i \in 1 .. Len(cs) : cs[i] \in Connections
  BY <1>1, LenProperties
<1>3. /\ u \in Seq(Connections) /\ Len(u) = n - 1
      /\ \A i \in 1 .. n - 1 : u[i] = cs[i]
  BY <1>1, <1>2, SubSeqProperties
<1>4. /\ v \in Seq(Connections) /\ Len(v) = Len(cs) - n
      /\ \A i \in 1 .. Len(cs) - n : v[i] = cs[n + i]
  BY <1>1, <1>2, SubSeqProperties
<1> HIDE DEF u, v
<1>5. /\ r \in Seq(Connections) /\ Len(r) = Len(cs) - 1
      /\ \A i \in 1 .. Len(cs) - 1 : r[i] = IF i < n THEN cs[i] ELSE cs[i + 1]
  <2>1. /\ r \in Seq(Connections) /\ Len(r) = Len(u) + Len(v)
        /\ \A i \in 1 .. Len(r) : r[i] = IF i <= Len(u) THEN u[i] ELSE v[i - Len(u)]
    <3>1. u \in Seq(Connections) /\ v \in Seq(Connections) /\ Len(r) = Len(u \o v)
      BY <1>3, <1>4
    <3>2. r \in Seq(Connections) /\ Len(r) = Len(u) + Len(v)
      BY <3>1, ConcatProperties
    <3>3. \A i \in 1 .. Len(u) + Len(v) : r[i] = IF i <= Len(u) THEN u[i] ELSE v[i - Len(u)]
      BY <3>1, ConcatProperties, Zenon
    <3> QED BY <3>2, <3>3
  <2> HIDE DEF r
  <2>2. Len(r) = Len(cs) - 1
    BY <1>1, <1>3, <1>4, <2>1
  <2>3. ASSUME NEW i \in 1 .. Len(cs) - 1
        PROVE  r[i] = IF i < n THEN cs[i] ELSE cs[i + 1]
    <3>1. CASE i < n
      BY <1>1, <1>3, <2>1, <2>2, <3>1
    <3>2. CASE ~(i < n)
      <4>1. i - (n - 1) \in 1 .. Len(cs) - n /\ n + (i - (n - 1)) = i + 1 /\ ~(i <= n - 1)
        BY <1>1, <3>2
      <4>2. r[i] = v[i - (n - 1)]
        BY <1>3, <2>1, <2>2, <4>1
      <4> QED BY <1>4, <3>2, <4>1, <4>2
    <3> QED BY <3>1, <3>2
  <2> QED BY <2>1, <2>2, <2>3
<1>6. r = RemoveAt(cs, n)
  BY DEF RemoveAt, u, v
<1>7. DOMAIN r = 1 .. Len(cs) - 1
  BY <1>5, LenProperties
<1> HIDE DEF r
<1>8. Sorted(r)
  <2>1. ASSUME NEW i \in 1 .. Len(r), NEW j \in 1 .. Len(r), i < j
        PROVE  r[i].id < r[j].id
    <3> DEFINE a == IF i < n THEN i ELSE i + 1
               b == IF j < n THEN j ELSE j + 1
    <3>1. a \in 1 .. Len(cs) /\ b \in 1 .. Len(cs) /\ a < b
      BY <1>1, <1>5, <2>1
    <3>2. r[i] = cs[a] /\ r[j] = cs[b]
      BY <1>5
    <3> QED BY <1>1, <3>1, <3>2
  <2> QED BY <1>5, <2>1 DEF Sorted
<1>9. ToSet(r) = {r[i] : i \in 1 .. Len(cs) - 1}
  BY <1>7 DEF ToSet
<1>10. ToSet(r) = Others(ToSet(cs), cs[n].id)
  <2>1. ASSUME NEW d \in ToSet(r) PROVE d \in Others(ToSet(cs), cs[n].id)
    <3>1. PICK i \in 1 .. Len(cs) - 1 : d = r[i]
      BY <1>9
    <3>2. PICK k \in 1 .. Len(cs) : k # n /\ d = cs[k]
      <4> DEFINE a == IF i < n THEN i ELSE i + 1
      <4>1. a \in 1 .. Len(cs) /\ a # n /\ d = cs[a]
        BY <1>1, <1>5, <3>1
      <4> QED BY <4>1
    <3> QED BY <1>1, <3>2 DEF Others
  <2>2. ASSUME NEW d \in Others(ToSet(cs), cs[n].id) PROVE d \in ToSet(r)
    <3>1. PICK k \in 1 .. Len(cs) : d = cs[k] /\ k # n
      BY <1>1 DEF Others
    <3> DEFINE i == IF k < n THEN k ELSE k - 1
    <3>2. i \in 1 .. Len(cs) - 1 /\ r[i] = cs[k]
      BY <1>1, <1>5, <3>1
    <3> QED BY <1>9, <3>1, <3>2
  <2> QED BY <2>1, <2>2
<1> QED BY <1>6, <1>8, <1>10
\* The command or message in slot s is about the list.
InList(s) == slots[s].op \in ListOps

\* Ids are the connections' own, and the next is above them.
Numbered ==
  /\ \A c, d \in stored : c.id = d.id => c = d
  /\ \A c \in stored : c.id < nextID

\* A load that nothing crosses is alone, and brings what is stored.
Alone ==
  \A s \in Slots : slots[s].op \in {"load", "loaded"} /\ ~slots[s].crossed =>
    /\ \A t \in Slots : InList(t) => t = s
    /\ slots[s].op = "loaded" => Sorted(slots[s].conns) /\ ToSet(slots[s].conns) = stored

\* What the message m of a change has to do: it makes the connections shown those that are kept.
Owed(m, shown, kept) ==
  IF m.op \in {"added", "updated", "deleted"} /\ m.ok
  THEN \/ /\ m.op = "added" /\ m.conn \in kept /\ shown = kept \ {m.conn}
          /\ \A c \in shown : c.id < m.conn.id
       \/ /\ m.op = "updated" /\ m.conn \in kept /\ \E c \in shown : c.id = m.conn.id
          /\ Others(shown, m.conn.id) = Others(kept, m.conn.id)
       \/ m.op = "deleted" /\ kept = Others(shown, m.id)
  ELSE shown = kept

\* Unless the list is stale, at most one command or message is about it, and nothing but
\* what that one still has to do separates it from the stored one.
Agreed ==
  ~stale =>
    /\ Sorted(conns)
    /\ \A s, t \in Slots : InList(s) /\ InList(t) => s = t
    /\ \A s \in Slots : InList(s) =>
         /\ Owed(slots[s], ToSet(conns), stored)
         /\ slots[s].op \in {"load", "loaded"} => ~slots[s].crossed
    /\ (\A s \in Slots : ~InList(s)) => ToSet(conns) = stored

ListIInv == Numbered /\ Alone /\ Agreed

\* The first command loads the list.
LEMMA InitList ==
  ASSUME SessionInit
  PROVE  ListIInv
<1>1. stored = Stored /\ stale /\ nextID = Max({c.id : c \in Stored} \cup {0}) + 1
  BY DEF SessionInit
<1>2. Numbered
  BY <1>1, FirstID, SessionAssumption DEF Numbered
<1>3. PICK s, a : slots = [i \in Slots |-> IF i = s THEN [op |-> "load", crossed |-> FALSE]
                                          ELSE IF i = a /\ "auto" \in uses THEN [op |-> "auto"] ELSE Free]
  BY DEF SessionInit
<1>4. \A i \in Slots : i # s => ~InList(i)
  BY <1>3 DEF InList, ListOps, Free
<1>5. s \in Slots => slots[s].op = "load"
  BY <1>3
<1>6. Alone
  BY <1>4, <1>5 DEF Alone, InList, ListOps
<1> QED BY <1>1, <1>2, <1>6 DEF ListIInv, Agreed

\* The commands that are not about the list leave it alone.
LEMMA Aside ==
  ASSUME ListIInv, UNCHANGED <<stored, nextID, conns, stale>>,
         \A s \in Slots : \/ slots'[s] = slots[s]
                          \/ ~InList(s) /\ slots'[s].op \notin ListOps
  PROVE  ListIInv'
<1>1. \A s \in Slots : /\ InList(s)' <=> InList(s)
                       /\ InList(s) => slots'[s] = slots[s]
  BY DEF InList
<1>2. Numbered'
  BY DEF ListIInv, Numbered
<1>3. Alone'
  BY <1>1 DEF ListIInv, Alone, InList, ListOps
<1>4. Agreed'
  BY <1>1 DEF ListIInv, Agreed
<1> QED BY <1>2, <1>3, <1>4 DEF ListIInv

\* One that starts.
LEMMA AsideStart ==
  ASSUME ListIInv, SlotTypes, UNCHANGED <<stored, nextID, conns, stale>>,
         NEW c, c.op \notin ListOps, Start(c)
  PROVE  ListIInv'
<1>1. FreeSlot \in Slots /\ ~Busy(FreeSlot)
  BY DEF Start, AllBusy, FreeSlot
<1>2. ~InList(FreeSlot)
  BY <1>1 DEF Busy, InList, ListOps
<1>3. \A s \in Slots : slots'[s] = IF s = FreeSlot THEN c ELSE slots[s]
  BY DEF Start, SlotTypes
<1> QED BY <1>1, <1>2, <1>3, Aside

\* A command about the list starts: alone it finds the lists in agreement.
LEMMA StartList ==
  ASSUME ListIInv, Types, UNCHANGED <<stored, nextID, conns>>,
         NEW c, c.op \in {"load", "add", "update", "delete"}, StartOnList(c),
         c.op = "load" => c = [op |-> "load", crossed |-> FALSE]
  PROVE  ListIInv'
<1> DEFINE others == {s \in Slots : slots[s].op \in ListOps}
           Crossed(x) == IF x.op \in {"load", "loaded"} THEN [x EXCEPT !.crossed = TRUE] ELSE x
           new == IF c.op = "load" THEN [c EXCEPT !.crossed = others # {}] ELSE c
<1>1. /\ ~AllBusy
      /\ slots' = [s \in Slots |-> IF s # FreeSlot THEN Crossed(slots[s]) ELSE new]
      /\ stale' = (stale \/ others # {})
  BY DEF StartOnList
<1>2. FreeSlot \in Slots /\ ~InList(FreeSlot)
  BY <1>1 DEF AllBusy, FreeSlot, Busy, InList, ListOps
<1>3. Numbered'
  BY DEF ListIInv, Numbered
<1>4. new.op = c.op /\ (c.op = "load" => new.crossed = (others # {}))
  BY Zenon
<1>5. \A s \in Slots : /\ Crossed(slots[s]).op = slots[s].op
                       /\ slots[s].op \in {"load", "loaded"} => Crossed(slots[s]).crossed
  <2> SUFFICES ASSUME NEW s \in Slots
               PROVE  /\ Crossed(slots[s]).op = slots[s].op
                      /\ slots[s].op \in {"load", "loaded"} => Crossed(slots[s]).crossed
    OBVIOUS
  <2>1. slots[s] \in SlotContents
    BY DEF Types, SlotTypes
  <2>2. CASE slots[s].op \in {"load", "loaded"}
    <3>1. /\ [slots[s] EXCEPT !.crossed = TRUE].op = slots[s].op
          /\ [slots[s] EXCEPT !.crossed = TRUE].crossed = TRUE
      BY <2>1, <2>2 DEF SlotContents, Free
    <3> QED BY <2>2, <3>1
  <2>3. CASE slots[s].op \notin {"load", "loaded"}
    BY <2>3
  <2> QED BY <2>2, <2>3
<1>6. \A s \in Slots : slots'[s] = IF s # FreeSlot THEN Crossed(slots[s]) ELSE new
  BY <1>1
<1>7. others = {} <=> \A s \in Slots : ~InList(s)
  BY DEF InList
<1> HIDE DEF others, Crossed, new
<1>8. CASE others = {}
  <2>1. \A s \in Slots : s # FreeSlot => ~InList(s)'
    BY <1>5, <1>6, <1>7, <1>8 DEF InList
  <2>2. slots'[FreeSlot].op = c.op /\ (c.op = "load" => ~slots'[FreeSlot].crossed)
    BY <1>2, <1>4, <1>6, <1>8
  <2>3. \A s \in Slots : slots'[s].op \in {"load", "loaded"} => s = FreeSlot /\ slots'[s].op # "loaded"
    BY <2>1, <2>2 DEF InList, ListOps
  <2>4. Alone'
    BY <2>1, <2>3 DEF Alone
  <2>5. Agreed'
    <3>1. SUFFICES ASSUME ~stale' PROVE Agreed'
      BY DEF Agreed
    <3>2. ~stale /\ Sorted(conns) /\ ToSet(conns) = stored
      BY <1>1, <1>7, <1>8, <3>1 DEF ListIInv, Agreed
    <3>3. Owed(slots'[FreeSlot], ToSet(conns'), stored')
      BY <2>2, <3>2 DEF Owed
    <3> QED BY <2>1, <2>2, <2>3, <3>2, <3>3 DEF Agreed
  <2> QED BY <1>3, <2>4, <2>5 DEF ListIInv
<1>9. CASE others # {}
  <2>1. \A s \in Slots : slots'[s].op \in {"load", "loaded"} => slots'[s].crossed
    BY <1>2, <1>4, <1>5, <1>6, <1>9
  <2>2. stale'
    BY <1>1, <1>9
  <2> QED BY <1>3, <2>1, <2>2 DEF ListIInv, Alone, Agreed
<1> QED BY <1>8, <1>9

\* A change has run: its message has to do the rest.
LEMMA Ran ==
  ASSUME ListIInv, Types, NEW s \in Slots, slots[s].op \in {"add", "update", "delete"},
         NEW m, m.op \in {"added", "updated", "deleted"},
         slots'[s] = m, \A t \in Slots \ {s} : slots'[t] = slots[t],
         UNCHANGED conns, Numbered',
         ~stale' => ~stale /\ (ToSet(conns) = stored => Owed(m, ToSet(conns), stored'))
  PROVE  ListIInv'
<1>1. /\ InList(s) /\ InList(s)'
      /\ \A t \in Slots : InList(t)' <=> InList(t)
  BY DEF InList, ListOps
<1>2. \A t \in Slots : slots[t].op \in {"load", "loaded"} => slots[t].crossed
  BY <1>1 DEF ListIInv, Alone
<1>3. \A t \in Slots : slots'[t].op \in {"load", "loaded"} => slots'[t].crossed
  BY <1>1, <1>2
<1>4. Alone'
  BY <1>3 DEF Alone
<1>5. Agreed'
  <2>1. SUFFICES ASSUME ~stale' PROVE Agreed'
    BY DEF Agreed
  <2>2. /\ Sorted(conns) /\ \A t \in Slots : InList(t) => t = s
        /\ Owed(slots[s], ToSet(conns), stored)
    BY <1>1, <2>1 DEF ListIInv, Agreed
  <2>3. ToSet(conns) = stored
    BY <2>2 DEF Owed
  <2>4. Owed(slots'[s], ToSet(conns'), stored')
    BY <1>1, <2>1, <2>3
  <2> QED BY <1>1, <2>2, <2>4 DEF Agreed
<1> QED BY <1>4, <1>5 DEF ListIInv

\* The commands: what is stored changes, and what is shown does not yet.
LEMMA CommandList ==
  ASSUME ListIInv, Types, NEW s \in Slots, Command(s)
  PROVE  ListIInv'
<1>1. slots[s] \in SlotContents /\ stored \subseteq Connections /\ nextID \in Nat
  BY SessionAssumption DEF Types, SlotTypes, ListTypes
<1>2. CASE RunLoad(s)
  <2>1. PICK cs \in InOrder(stored) :
          /\ slots[s].op = "load"
          /\ slots' = [slots EXCEPT ![s] = [op |-> "loaded", conns |-> cs, crossed |-> slots[s].crossed]]
    BY <1>2 DEF RunLoad, Runs
  <2>2. UNCHANGED <<stored, nextID, stale, conns>>
    BY <1>2 DEF RunLoad, Elsewhere
  <2>3. /\ slots'[s].op = "loaded" /\ slots'[s].conns = cs /\ slots'[s].crossed = slots[s].crossed
        /\ \A t \in Slots \ {s} : slots'[t] = slots[t]
    BY <2>1 DEF Types, SlotTypes
  <2>4. Sorted(cs) /\ ToSet(cs) = stored
    BY <1>1, <2>1, InOrderIff
  <2>5. \A t \in Slots : InList(t)' <=> InList(t)
    BY <2>1, <2>3 DEF InList, ListOps
  <2>6. Numbered'
    BY <2>2 DEF ListIInv, Numbered
  <2>7. Alone'
    <3>1. \A t \in Slots : slots'[t].op \in {"load", "loaded"} /\ ~slots'[t].crossed
                             => slots[t].op \in {"load", "loaded"} /\ ~slots[t].crossed
      BY <2>1, <2>3
    <3> QED BY <2>2, <2>3, <2>4, <2>5, <3>1 DEF ListIInv, Alone
  <2>8. Agreed'
    <3>1. \A t \in Slots : Owed(slots[t], ToSet(conns), stored)
                             => Owed(slots'[t], ToSet(conns'), stored')
      BY <2>1, <2>2, <2>3 DEF Owed
    <3>2. \A t \in Slots : slots'[t].op \in {"load", "loaded"} =>
            slots[t].op \in {"load", "loaded"} /\ slots'[t].crossed = slots[t].crossed
      BY <2>1, <2>3
    <3> QED BY <2>2, <2>5, <3>1, <3>2 DEF ListIInv, Agreed
  <2> QED BY <2>6, <2>7, <2>8 DEF ListIInv
<1>3. CASE RunAdd(s)
  <2> DEFINE c == [slots[s].conn EXCEPT !.id = nextID]
  <2>1. slots[s].op = "add" /\ nextID <= MaxConnID /\ UNCHANGED <<conns, stale>>
    BY <1>3 DEF RunAdd, Elsewhere
  <2>2. c.id = nextID
    BY <1>1, <2>1, Fields DEF Connections
  <2> DEFINE done == [op |-> "added", conn |-> c, ok |-> TRUE]
             failed == [op |-> "added", conn |-> c, ok |-> FALSE]
  <2>3. /\ done.op = "added" /\ done.conn = c /\ done.ok
        /\ failed.op = "added" /\ failed.conn = c /\ ~failed.ok
    OBVIOUS
  <2>4. \/ /\ slots' = [slots EXCEPT ![s] = done]
           /\ stored' = stored \cup {c} /\ nextID' = nextID + 1
        \/ /\ slots' = [slots EXCEPT ![s] = failed]
           /\ UNCHANGED <<stored, nextID>>
    BY <1>3 DEF RunAdd, Runs
  <2> HIDE DEF c, done, failed
  <2>5. CASE /\ slots' = [slots EXCEPT ![s] = done]
             /\ stored' = stored \cup {c} /\ nextID' = nextID + 1
    <3>1. \A d \in stored : d.id < nextID /\ d.id \in Nat
      BY <1>1, SessionAssumption DEF ListIInv, Numbered, Connections
    <3>2. Numbered'
      BY <1>1, <2>2, <2>5, <3>1 DEF ListIInv, Numbered
    <3>3. ToSet(conns) = stored => Owed(done, ToSet(conns), stored')
      <4>1. c \notin stored /\ stored' \ {c} = stored
        BY <1>1, <2>2, <2>5, <3>1
      <4> QED BY <2>2, <2>3, <2>5, <3>1, <4>1 DEF Owed
    <3>4. slots'[s] = done /\ \A t \in Slots \ {s} : slots'[t] = slots[t]
      BY <2>5 DEF Types, SlotTypes
    <3> QED BY <2>1, <2>3, <3>2, <3>3, <3>4, Ran
  <2>6. CASE /\ slots' = [slots EXCEPT ![s] = failed]
             /\ UNCHANGED <<stored, nextID>>
    <3>1. Numbered'
      BY <2>6 DEF ListIInv, Numbered
    <3>2. ToSet(conns) = stored => Owed(failed, ToSet(conns), stored')
      BY <2>3, <2>6 DEF Owed
    <3>4. slots'[s] = failed /\ \A t \in Slots \ {s} : slots'[t] = slots[t]
      BY <2>6 DEF Types, SlotTypes
    <3> QED BY <2>1, <2>3, <3>1, <3>2, <3>4, Ran
  <2> QED BY <2>4, <2>5, <2>6
<1>4. CASE RunUpdate(s)
  <2> DEFINE c == slots[s].conn
             old == {d \in stored : d.id = c.id}
  <2>1. slots[s].op = "update" /\ UNCHANGED <<conns, nextID, stale>>
    BY <1>4 DEF RunUpdate, Elsewhere
  <2> DEFINE done == [op |-> "updated", conn |-> c, ok |-> TRUE]
             failed == [op |-> "updated", conn |-> c, ok |-> FALSE]
  <2>2. /\ done.op = "updated" /\ done.conn = c /\ done.ok
        /\ failed.op = "updated" /\ failed.conn = c /\ ~failed.ok
    OBVIOUS
  <2>3. \/ /\ old # {} /\ stored' = (stored \ old) \cup {c}
           /\ slots' = [slots EXCEPT ![s] = done]
        \/ UNCHANGED stored /\ slots' = [slots EXCEPT ![s] = failed]
    BY <1>4 DEF RunUpdate, Runs
  <2> HIDE DEF c, done, failed
  <2>4. CASE /\ old # {} /\ stored' = (stored \ old) \cup {c}
             /\ slots' = [slots EXCEPT ![s] = done]
    <3>1. Numbered'
      BY <2>1, <2>4 DEF ListIInv, Numbered
    <3>2. ToSet(conns) = stored => Owed(done, ToSet(conns), stored')
      <4>1. Others(stored, c.id) = Others(stored', c.id)
        BY <2>4 DEF Others
      <4> QED BY <2>2, <2>4, <4>1 DEF Owed
    <3>4. slots'[s] = done /\ \A t \in Slots \ {s} : slots'[t] = slots[t]
      BY <2>4 DEF Types, SlotTypes
    <3> QED BY <2>1, <2>2, <3>1, <3>2, <3>4, Ran
  <2>5. CASE UNCHANGED stored /\ slots' = [slots EXCEPT ![s] = failed]
    <3>1. Numbered'
      BY <2>1, <2>5 DEF ListIInv, Numbered
    <3>2. ToSet(conns) = stored => Owed(failed, ToSet(conns), stored')
      BY <2>2, <2>5 DEF Owed
    <3>4. slots'[s] = failed /\ \A t \in Slots \ {s} : slots'[t] = slots[t]
      BY <2>5 DEF Types, SlotTypes
    <3> QED BY <2>1, <2>2, <3>1, <3>2, <3>4, Ran
  <2> QED BY <2>3, <2>4, <2>5
<1>5. CASE RunDelete(s)
  <2> DEFINE i == slots[s].id
             old == {d \in stored : d.id = i}
  <2>1. slots[s].op = "delete" /\ stored' = stored \ old /\ UNCHANGED <<conns, nextID>>
    BY <1>5 DEF RunDelete, Elsewhere
  <2> DEFINE done == [op |-> "deleted", id |-> i, ok |-> TRUE]
             failed == [op |-> "deleted", id |-> i, ok |-> FALSE]
  <2>2. /\ done.op = "deleted" /\ done.id = i /\ done.ok
        /\ failed.op = "deleted" /\ failed.id = i /\ ~failed.ok
    OBVIOUS
  <2>3. \/ UNCHANGED stale /\ slots' = [slots EXCEPT ![s] = done]
        \/ stale' = (stale \/ old # {}) /\ slots' = [slots EXCEPT ![s] = failed]
    BY <1>5 DEF RunDelete, Runs
  <2> HIDE DEF i, done, failed
  <2>4. Numbered'
    BY <2>1 DEF ListIInv, Numbered
  <2>5. CASE UNCHANGED stale /\ slots' = [slots EXCEPT ![s] = done]
    <3>1. stored' = Others(stored, i)
      BY <2>1 DEF Others
    <3>2. ToSet(conns) = stored => Owed(done, ToSet(conns), stored')
      BY <2>2, <3>1 DEF Owed
    <3>4. slots'[s] = done /\ \A t \in Slots \ {s} : slots'[t] = slots[t]
      BY <2>5 DEF Types, SlotTypes
    <3> QED BY <2>1, <2>2, <2>4, <2>5, <3>2, <3>4, Ran
  <2>6. CASE stale' = (stale \/ old # {}) /\ slots' = [slots EXCEPT ![s] = failed]
    <3>1. ~stale' => stored' = stored /\ ~stale
      BY <2>1, <2>6
    <3>2. ~stale' /\ ToSet(conns) = stored => Owed(failed, ToSet(conns), stored')
      BY <2>2, <3>1 DEF Owed
    <3>4. slots'[s] = failed /\ \A t \in Slots \ {s} : slots'[t] = slots[t]
      BY <2>6 DEF Types, SlotTypes
    <3> QED BY <2>1, <2>2, <2>4, <2>6, <3>1, <3>2, <3>4, Ran
  <2> QED BY <2>3, <2>5, <2>6
<1> QED BY <1>2, <1>3, <1>4, <1>5 DEF Command

\* A message about the list is handled: what it had to do is done.
LEMMA Handled ==
  ASSUME ListIInv, Types, NEW s \in Slots, InList(s), slots' = [slots EXCEPT ![s] = Free],
         UNCHANGED <<stored, nextID>>,
         ~stale' => /\ \A t \in Slots : InList(t) => t = s
                    /\ Sorted(conns') /\ ToSet(conns') = stored
  PROVE  ListIInv'
<1>1. /\ ~InList(s)' /\ \A t \in Slots \ {s} : slots'[t] = slots[t]
  BY DEF InList, ListOps, Free, Types, SlotTypes
<1>2. \A t \in Slots : InList(t)' => InList(t) /\ t # s /\ slots'[t] = slots[t]
  BY <1>1 DEF InList
<1>3. Numbered'
  BY DEF ListIInv, Numbered
<1>4. Alone'
  <2>1. \A t \in Slots : slots'[t].op \in {"load", "loaded"} => slots'[t].crossed
    BY <1>2 DEF ListIInv, Alone, InList, ListOps
  <2> QED BY <2>1 DEF Alone
<1>5. Agreed'
  BY <1>2 DEF Agreed
<1> QED BY <1>3, <1>4, <1>5 DEF ListIInv

\* Unless the list is stale, the message is the only one about it.
LEMMA OnlyOne ==
  ASSUME ListIInv, ~stale, NEW s \in Slots, InList(s)
  PROVE  /\ \A t \in Slots : InList(t) => t = s
         /\ Sorted(conns) /\ Owed(slots[s], ToSet(conns), stored)
         /\ slots[s].op = "loaded" => ~slots[s].crossed
BY DEF ListIInv, Agreed

\* The messages: what is shown follows.
LEMMA ListMessages ==
  ASSUME ListIInv, Types, NEW s \in Slots,
         ConnectionsLoaded(s) \/ ConnectionAdded(s) \/ ConnectionUpdated(s) \/ ConnectionDeleted(s)
  PROVE  ListIInv'
<1>1. slots[s] \in SlotContents /\ stored \subseteq Connections /\ conns \in Seq(Connections)
  BY DEF Types, SlotTypes, ListTypes
<1>2. InList(s) /\ slots' = [slots EXCEPT ![s] = Free] /\ UNCHANGED <<stored, nextID>>
  BY DEF ConnectionsLoaded, ConnectionAdded, ConnectionUpdated, ConnectionDeleted, Deleted, Handle,
         InList, ListOps
<1>3. CASE ConnectionsLoaded(s)
  <2>1. slots[s].op = "loaded"
    BY <1>3 DEF ConnectionsLoaded, Handle
  <2>2. CASE conns' = slots[s].conns /\ stale' = (stale /\ slots[s].crossed)
    <3>1. ~stale' => ~slots[s].crossed
      BY <1>2, <2>1, <2>2, OnlyOne
    <3>2. ~slots[s].crossed => /\ \A t \in Slots : InList(t) => t = s
                               /\ Sorted(slots[s].conns) /\ ToSet(slots[s].conns) = stored
      BY <2>1 DEF ListIInv, Alone
    <3> QED BY <1>2, <2>2, <3>1, <3>2, Handled
  <2>3. CASE UNCHANGED <<conns, stale>>
    <3>1. ~stale => /\ \A t \in Slots : InList(t) => t = s
                    /\ Sorted(conns) /\ ToSet(conns) = stored
      BY <1>2, <2>1, OnlyOne DEF Owed
    <3> QED BY <1>2, <2>3, <3>1, Handled
  <2> QED BY <1>3, <2>2, <2>3 DEF ConnectionsLoaded
<1>4. CASE ConnectionAdded(s)
  <2>1. slots[s].op = "added" /\ UNCHANGED stale
    BY <1>4 DEF ConnectionAdded, Handle
  <2>2. CASE slots[s].ok
    <3>1. conns' = Append(conns, slots[s].conn)
      BY <1>4, <2>2 DEF ConnectionAdded
    <3>2. ASSUME ~stale
          PROVE  /\ \A t \in Slots : InList(t) => t = s
                 /\ Sorted(conns') /\ ToSet(conns') = stored
      <4>1. /\ slots[s].conn \in stored /\ ToSet(conns) = stored \ {slots[s].conn}
            /\ \A c \in ToSet(conns) : c.id < slots[s].conn.id
        BY <1>2, <2>1, <2>2, <3>2, OnlyOne DEF Owed
      <4>2. Sorted(conns') /\ ToSet(conns') = ToSet(conns) \cup {slots[s].conn}
        BY <1>1, <1>2, <3>1, <3>2, <4>1, OnlyOne, AppendSorted
      <4> QED BY <1>2, <3>2, <4>1, <4>2, OnlyOne
    <3> QED BY <1>2, <2>1, <3>2, Handled
  <2>3. CASE ~slots[s].ok
    <3>1. conns' = conns
      BY <1>4, <2>3 DEF ConnectionAdded
    <3>2. ~stale => /\ \A t \in Slots : InList(t) => t = s
                    /\ Sorted(conns) /\ ToSet(conns) = stored
      BY <1>2, <2>1, <2>3, OnlyOne DEF Owed
    <3> QED BY <1>2, <2>1, <3>1, <3>2, Handled
  <2> QED BY <2>2, <2>3
<1>5. CASE ConnectionUpdated(s)
  <2>1. slots[s].op = "updated" /\ UNCHANGED stale
    BY <1>5 DEF ConnectionUpdated, Handle
  <2>2. CASE slots[s].ok
    <3> DEFINE c == slots[s].conn
               I == {i \in 1 .. Len(conns) : conns[i].id = slots[s].conn.id}
               i == SelectInSeq(conns, LAMBDA x : x.id = slots[s].conn.id)
    <3>1. conns' = IF i = 0 THEN conns ELSE [conns EXCEPT ![i] = c]
      BY <1>5, <2>2 DEF ConnectionUpdated
    <3>2. ASSUME ~stale
          PROVE  /\ \A t \in Slots : InList(t) => t = s
                 /\ Sorted(conns') /\ ToSet(conns') = stored
      <4>1. /\ Sorted(conns) /\ c \in stored /\ \E d \in ToSet(conns) : d.id = c.id
            /\ Others(ToSet(conns), c.id) = Others(stored, c.id)
        BY <1>2, <2>1, <2>2, <3>2, OnlyOne DEF Owed
      <4>2. PICK n \in 1 .. Len(conns) : conns[n].id = c.id
        BY <4>1, SortedFacts
      <4>3. I = {n}
        BY <4>1, <4>2, SortedFacts
      <4>4. i = n
        <5>1. i = Min(I)
          BY <4>3 DEF SelectInSeq
        <5>2. n \in Nat /\ Min({n}) = n
          BY <4>2 DEF Min
        <5> QED BY <4>3, <5>1, <5>2
      <4> HIDE DEF i, I
      <4>5. conns' = [conns EXCEPT ![n] = c]
        BY <3>1, <4>2, <4>4
      <4>6. Sorted(conns') /\ ToSet(conns') = Others(ToSet(conns), c.id) \cup {c}
        BY <1>1, <4>1, <4>2, <4>5, ReplaceSorted
      <4>7. Others(stored, c.id) \cup {c} = stored
        BY <4>1 DEF ListIInv, Numbered, Others
      <4> QED BY <1>2, <3>2, <4>1, <4>6, <4>7, OnlyOne
    <3> QED BY <1>2, <2>1, <3>2, Handled
  <2>3. CASE ~slots[s].ok
    <3>1. conns' = conns
      BY <1>5, <2>3 DEF ConnectionUpdated
    <3>2. ~stale => /\ \A t \in Slots : InList(t) => t = s
                    /\ Sorted(conns) /\ ToSet(conns) = stored
      BY <1>2, <2>1, <2>3, OnlyOne DEF Owed
    <3> QED BY <1>2, <2>1, <3>1, <3>2, Handled
  <2> QED BY <2>2, <2>3
<1>6. CASE ConnectionDeleted(s)
  <2> DEFINE d == slots[s].id
             rest == RemoveFirstMatch(conns, LAMBDA x : x.id = slots[s].id)
  <2>1. /\ slots[s].op = "deleted" /\ UNCHANGED stale
        /\ conns' = IF slots[s].ok THEN rest ELSE conns
    BY <1>6 DEF ConnectionDeleted, Deleted, Handle
  <2>2. CASE slots[s].ok
    <3>1. ASSUME ~stale
          PROVE  /\ \A t \in Slots : InList(t) => t = s
                 /\ Sorted(conns') /\ ToSet(conns') = stored
      <4>1. Sorted(conns) /\ stored = Others(ToSet(conns), d)
        BY <1>2, <2>1, <2>2, <3>1, OnlyOne DEF Owed
      <4>2. Sorted(rest) /\ ToSet(rest) = Others(ToSet(conns), d)
        <5>1. CASE \E n \in 1 .. Len(conns) : conns[n].id = d
          <6> DEFINE I == {i \in 1 .. Len(conns) : conns[i].id = slots[s].id}
          <6>1. PICK n \in 1 .. Len(conns) : conns[n].id = d
            BY <5>1
          <6>2. I = {n}
            BY <4>1, <6>1, SortedFacts
          <6>3. SelectInSeq(conns, LAMBDA x : x.id = slots[s].id) = n
            <7>1. SelectInSeq(conns, LAMBDA x : x.id = slots[s].id) = Min(I)
              BY <6>2 DEF SelectInSeq
            <7>2. n \in Nat /\ Min({n}) = n
              BY <6>1 DEF Min
            <7> QED BY <6>2, <7>1, <7>2
          <6>4. rest = RemoveAt(conns, n)
            BY <5>1, <6>3 DEF RemoveFirstMatch
          <6> HIDE DEF rest, I
          <6> QED BY <4>1, <6>1, <6>4, RemoveSorted
        <5>2. CASE ~\E n \in 1 .. Len(conns) : conns[n].id = d
          <6>1. rest = conns
            BY <5>2 DEF RemoveFirstMatch
          <6>2. Others(ToSet(conns), d) = ToSet(conns)
            BY <4>1, <5>2, SortedFacts DEF Others
          <6> HIDE DEF rest
          <6> QED BY <4>1, <6>1, <6>2
        <5> QED BY <5>1, <5>2
      <4> HIDE DEF rest
      <4> QED BY <1>2, <2>1, <2>2, <3>1, <4>1, <4>2, OnlyOne
    <3> HIDE DEF rest
    <3> QED BY <1>2, <2>1, <3>1, Handled
  <2>3. CASE ~slots[s].ok
    <3>1. ~stale => /\ \A t \in Slots : InList(t) => t = s
                    /\ Sorted(conns) /\ ToSet(conns) = stored
      BY <1>2, <2>1, <2>3, OnlyOne DEF Owed
    <3> HIDE DEF rest
    <3> QED BY <1>2, <2>1, <2>3, <3>1, Handled
  <2> QED BY <2>2, <2>3
<1> QED BY <1>3, <1>4, <1>5, <1>6

\* No step disturbs the invariant.
LEMMA ListStep ==
  ASSUME ListIInv, Types, [SessionNext]_allVars
  PROVE  ListIInv'
<1>1. SlotTypes
  BY DEF Types
<1>2. UNCHANGED <<list, slots>> => ListIInv'
  BY Aside DEF list
<1>3. UNCHANGED <<stored, nextID, conns, stale, slots>> => ListIInv'
  BY Aside
<1>4. CASE \/ OpenAdd \/ OpenEdit \/ Tab \/ Toggle \/ TestConnection \/ LeaveTest \/ LeaveForm
           \/ AskDelete \/ Decline \/ Help \/ LeaveHelp \/ OpenOther \/ LeaveOther
           \/ Watch \/ OpenMetrics \/ LeaveMetrics \/ Tick \/ LiveMetrics
  BY <1>2, <1>4
     DEF OpenAdd, OpenEdit, Tab, FocusField, Toggle, TestConnection, LeaveTest, LeaveForm, AskDelete,
         Decline, Help, LeaveHelp, OpenOther, LeaveOther, Watch, OpenMetrics, LeaveMetrics, Tick,
         LiveMetrics
<1>5. CASE MoveRow
  BY <1>3, <1>5 DEF MoveRow
<1>6. CASE Connect \/ Load
  BY <1>1, <1>6, AsideStart DEF Connect, Load, list, ListOps
<1>7. CASE SubmitAdd
  <2>1. PICK c \in Inputs(1) : StartOnList([op |-> "add", conn |-> c])
    BY <1>7 DEF SubmitAdd
  <2> QED BY <1>7, <2>1, StartList DEF SubmitAdd
<1>8. CASE SubmitEdit
  <2>1. PICK c \in Inputs(editing) : StartOnList([op |-> "update", conn |-> c])
    BY <1>8 DEF SubmitEdit
  <2> QED BY <1>8, <2>1, StartList DEF SubmitEdit
<1>9. CASE LoadConnections
  BY <1>9, StartList DEF LoadConnections
<1>10. CASE Confirm
  <2>1. CASE confirm = None
    BY <1>1, <1>10, <2>1, AsideStart DEF Confirm, ListOps
  <2>2. CASE confirm # None
    BY <1>10, <2>2, StartList DEF Confirm
  <2> QED BY <2>1, <2>2
<1>11. ASSUME NEW s \in Slots, Command(s)
       PROVE  ListIInv'
  BY <1>11, CommandList
<1>12. ASSUME NEW s \in Slots, Message(s)
       PROVE  ListIInv'
  <2>1. CASE AutoConnect(s) \/ Connected(s) \/ Loaded(s)
    <3>1. ~InList(s) /\ UNCHANGED list
      BY <2>1 DEF AutoConnect, Connected, Loaded, Handle, InList, ListOps
    <3>2. \/ slots' = [slots EXCEPT ![s] = [op |-> "connect"]]
          \/ slots' = [slots EXCEPT ![s] = Free]
      BY <2>1 DEF AutoConnect, Connected, Loaded, Handle
    <3>3. slots'[s].op \notin ListOps /\ \A t \in Slots \ {s} : slots'[t] = slots[t]
      BY <1>1, <3>2 DEF SlotTypes, ListOps, Free
    <3> QED BY <3>1, <3>3, Aside DEF list
  <2>2. CASE ~(AutoConnect(s) \/ Connected(s) \/ Loaded(s))
    BY <1>12, <2>2, ListMessages DEF Message
  <2> QED BY <2>1, <2>2
<1>13. ASSUME NEW id \in 1 .. MaxID, TimerFires(id)
       PROVE  ListIInv'
  BY <1>2, <1>13 DEF TimerFires
<1>14. CASE UNCHANGED allVars
  BY <1>3, <1>14 DEF allVars
<1> QED BY <1>4, <1>5, <1>6, <1>7, <1>8, <1>9, <1>10, <1>11, <1>12, <1>13, <1>14
        DEF SessionNext, KeyPress

\* With nothing about the list under way it is the stored one, in its order, although the
\* screen follows change by change; unless loads and changes crossed and no other load has
\* followed (messages_connection.go:19-82, db/config.go:176-256).
THEOREM SessionListAgrees == SessionSpec => []ListAgrees
<1>1. SessionInit => ListIInv
  BY InitList
<1>2. ListIInv /\ Types /\ [SessionNext]_allVars => ListIInv'
  BY ListStep
<1>3. ListIInv /\ Types => ListAgrees
  <2> SUFFICES ASSUME ListIInv, Types, ~stale, \A s \in Slots : slots[s].op \notin ListOps
               PROVE  conns \in InOrder(stored)
    BY DEF ListAgrees
  <2>1. Sorted(conns) /\ ToSet(conns) = stored
    BY DEF ListIInv, Agreed, InList
  <2> QED BY <2>1, InOrderIff DEF Types, ListTypes
<1> QED BY <1>1, <1>2, <1>3, SessionIsTyped, PTL DEF SessionSpec
=============================================================================
