---------------------------- MODULE LocalProofs ----------------------------
(***************************************************************************)
(* Proofs about the two components that deal with this machine alone, for  *)
(* every value of their constants: the log ring (LogRing) and, in the      *)
(* second part, the self-update (SelfUpdate).                               *)
(***************************************************************************)
EXTENDS LogRing, SelfUpdate, SequenceTheorems, TLAPS

\* Index arithmetic of the ring: a position that passes the end of the array
\* at most once wraps by one subtraction.
LEMMA Wrap ==
  ASSUME NEW a \in Int, 0 <= a, a < 2 * MaxLogs
  PROVE  a % MaxLogs = IF a < MaxLogs THEN a ELSE a - MaxLogs
BY LogRingAssumption

\* The inductive invariant: types, the shape of the ring, and the cursor.
IInv == TypeOK /\ NoUnwrittenEntry /\ CursorOnEntry

LEMMA IInvInit == Init => IInv
<1> SUFFICES ASSUME Init PROVE IInv
  OBVIOUS
<1>1. TypeOK
  <2>1. buf \in [Slots -> Lines \cup {Empty}] /\ head \in Slots
        /\ count \in 0 .. MaxLogs /\ cursor \in Nat
    BY LogRingAssumption DEF Init, Slots
  <2>2. viewing \in BOOLEAN /\ detail \in BOOLEAN
    BY DEF Init
  <2>3. QED BY <2>1, <2>2 DEF TypeOK
<1>2. NoUnwrittenEntry /\ CursorOnEntry
  BY LogRingAssumption DEF Init, NoUnwrittenEntry, CursorOnEntry, Slots
<1>3. QED BY <1>1, <1>2 DEF IInv

LEMMA IInvWrite ==
  ASSUME IInv, NEW line \in Lines, Write(line)
  PROVE  IInv'
<1> USE LogRingAssumption DEF Slots
<1>0. TypeOK /\ NoUnwrittenEntry /\ CursorOnEntry
  BY DEF IInv
<1>1. CASE count = MaxLogs
  <2>1. /\ buf' = [buf EXCEPT ![head] = line]
        /\ head' = (head + 1) % MaxLogs
        /\ count' = count
        /\ UNCHANGED viewer
    BY <1>1 DEF Write
  <2>2. head' \in Slots
    BY <2>1, <1>0, Wrap DEF TypeOK
  <2>3. TypeOK'
    BY <2>1, <2>2, <1>0 DEF TypeOK, viewer
  <2>4. NoUnwrittenEntry'
    BY <2>1, <1>0, <1>1 DEF TypeOK, NoUnwrittenEntry
  <2>5. CursorOnEntry'
    BY <2>1, <1>0 DEF CursorOnEntry, viewer
  <2>6. QED BY <2>3, <2>4, <2>5 DEF IInv
<1>2. CASE count # MaxLogs
  <2>1. /\ buf' = [buf EXCEPT ![(head + count) % MaxLogs] = line]
        /\ count' = count + 1
        /\ head' = head
        /\ UNCHANGED viewer
    BY <1>2 DEF Write
  <2>2. count < MaxLogs /\ head = 0
    BY <1>0, <1>2 DEF TypeOK, NoUnwrittenEntry
  <2>3. (head + count) % MaxLogs = count
    BY <2>2, <1>0, Wrap DEF TypeOK
  <2>4. TypeOK'
    BY <2>1, <2>2, <2>3, <1>0 DEF TypeOK, viewer
  <2>5. NoUnwrittenEntry'
    BY <2>1, <2>2, <2>3, <1>0 DEF TypeOK, NoUnwrittenEntry
  <2>6. CursorOnEntry'
    BY <2>1, <2>2, <1>0 DEF CursorOnEntry, viewer, TypeOK
  <2>7. QED BY <2>4, <2>5, <2>6 DEF IInv
<1>3. QED BY <1>1, <1>2

LEMMA IInvViewer ==
  ASSUME IInv,
         OpenLogs \/ CloseDetail \/ CloseLogs \/ MoveCursor \/ ShowDetail
  PROVE  IInv'
<1> USE DEF IInv, TypeOK, NoUnwrittenEntry, CursorOnEntry, ring
<1>1. CASE OpenLogs
  BY <1>1 DEF OpenLogs
<1>2. CASE CloseDetail
  BY <1>2 DEF CloseDetail
<1>3. CASE CloseLogs
  BY <1>3 DEF CloseLogs
<1>4. CASE MoveCursor
  BY <1>4 DEF MoveCursor, CursorMoves
<1>5. CASE ShowDetail
  BY <1>5 DEF ShowDetail
<1>6. QED BY <1>1, <1>2, <1>3, <1>4, <1>5

LEMMA IInvStep == IInv /\ [Next]_vars => IInv'
<1> SUFFICES ASSUME IInv, [Next]_vars PROVE IInv'
  OBVIOUS
<1>1. CASE \E line \in Lines : Write(line)
  BY <1>1, IInvWrite
<1>2. CASE OpenLogs \/ CloseDetail \/ CloseLogs \/ MoveCursor \/ ShowDetail
  BY <1>2, IInvViewer
<1>3. CASE UNCHANGED vars
  BY <1>3 DEF IInv, TypeOK, NoUnwrittenEntry, CursorOnEntry, vars
<1>4. QED BY <1>1, <1>2, <1>3 DEF Next

LEMMA IInvAlways == Spec => []IInv
BY IInvInit, IInvStep, PTL DEF Spec

\* The ring's fields keep their ranges: every index logger.go computes lies in
\* the array.
THEOREM LogRingTypes == Spec => []TypeOK
BY IInvAlways, PTL DEF IInv

\* The log screen never shows an entry in full that is not there.
THEOREM LogCursorOnEntry == Spec => []CursorOnEntry
BY IInvAlways, PTL DEF IInv

\* GetLogs returns written lines only.
THEOREM LogEntriesWritten == Spec => []NoUnwrittenEntry
BY IInvAlways, PTL DEF IInv

------------------------------------------------------------------------------
(* Refinement *)

LEMMA GetLogsSeq ==
  ASSUME TypeOK
  PROVE  GetLogs \in Seq(Lines \cup {Empty}) /\ Len(GetLogs) = count
<1>1. \A i \in 1 .. count : (head + i - 1) % MaxLogs \in Slots
  BY LogRingAssumption, Wrap DEF TypeOK, Slots
<1>2. GetLogs \in [1 .. count -> Lines \cup {Empty}]
  BY <1>1 DEF GetLogs, TypeOK
<1>3. QED BY <1>2, LenProperties DEF TypeOK

LEMMA AppendAsFunction ==
  ASSUME NEW S, NEW q \in Seq(S), NEW e \in S
  PROVE  Append(q, e) = [i \in 1 .. Len(q) + 1 |-> IF i = Len(q) + 1 THEN e ELSE q[i]]
<1> DEFINE r == Append(q, e)
<1>1. /\ r \in Seq(S) /\ Len(r) = Len(q) + 1
      /\ \A i \in 1 .. Len(q) : r[i] = q[i]
      /\ r[Len(q) + 1] = e
  BY AppendProperties
<1>2. r \in [1 .. Len(q) + 1 -> S] /\ Len(q) \in Nat
  BY <1>1, LenProperties
<1> HIDE DEF r
<1>3. r = [i \in 1 .. Len(q) + 1 |-> IF i = Len(q) + 1 THEN e ELSE q[i]]
  BY <1>1, <1>2
<1>4. QED BY <1>3 DEF r

LEMMA WritePushes ==
  ASSUME IInv, NEW line \in Lines, Write(line)
  PROVE  GetLogs' = Bounded!Push(GetLogs, line)
<1> USE LogRingAssumption DEF Slots
<1>0. TypeOK /\ NoUnwrittenEntry /\ TypeOK'
  BY IInvWrite DEF IInv
<1> DEFINE s == GetLogs
<1>n. head \in Nat /\ count \in Nat /\ MaxLogs \in Nat \ {0} /\ head < MaxLogs
  BY <1>0 DEF TypeOK
<1>s. s \in Seq(Lines \cup {Empty}) /\ Len(s) = count
  BY <1>0, GetLogsSeq
<1>1. CASE count = MaxLogs
  <2>1. /\ buf' = [buf EXCEPT ![head] = line]
        /\ head' = (head + 1) % MaxLogs
        /\ count' = count
    BY <1>1 DEF Write
  <2>2. s # << >>
    BY <1>s, <1>1
  <2>3. Tail(s) \in Seq(Lines \cup {Empty}) /\ Len(Tail(s)) = count - 1
        /\ \A i \in 1 .. count - 1 : Tail(s)[i] = s[i + 1]
    BY <1>s, <2>2, HeadTailProperties
  <2>4. Append(Tail(s), line) = [i \in 1 .. count |-> IF i = count THEN line ELSE s[i + 1]]
    <3> DEFINE t == Tail(s)
    <3>t. t \in Seq(Lines \cup {Empty}) /\ line \in Lines \cup {Empty}
      BY <2>3
    <3>2. Len(t) + 1 = count
      BY <1>n, <2>3
    <3>3. \A i \in 1 .. count : i # count => t[i] = s[i + 1]
      BY <2>3, <1>n
    <3> HIDE DEF t
    <3>1. Append(t, line)
            = [i \in 1 .. Len(t) + 1 |-> IF i = Len(t) + 1 THEN line ELSE t[i]]
      BY <3>t, AppendAsFunction
    <3>4. Append(t, line) = [i \in 1 .. count |-> IF i = count THEN line ELSE s[i + 1]]
      BY <3>1, <3>2, <3>3
    <3>5. QED BY <3>4 DEF t
  <2>5. ASSUME NEW i \in 1 .. count
        PROVE  buf'[(head' + i - 1) % MaxLogs] = IF i = count THEN line ELSE s[i + 1]
    <3>1. head' = IF head + 1 < MaxLogs THEN head + 1 ELSE 0
      BY <2>1, <1>n, Wrap
    <3>2. CASE i = count
      <4>1. (head' + i - 1) % MaxLogs = head
        <5>1. CASE head + 1 < MaxLogs
          <6>1. head' + i - 1 = head + MaxLogs
            BY <5>1, <3>1, <3>2, <1>1, <1>n
          <6>2. QED BY <6>1, <1>n, Wrap
        <5>2. CASE head + 1 = MaxLogs
          <6>1. head' + i - 1 = head
            BY <5>2, <3>1, <3>2, <1>1, <1>n
          <6>2. QED BY <6>1, <1>n, Wrap
        <5>3. QED BY <5>1, <5>2, <1>n
      <4>2. QED BY <4>1, <3>2, <2>1, <1>0 DEF TypeOK
    <3>3. CASE i # count
      <4>1. (head' + i - 1) % MaxLogs = (head + i) % MaxLogs
        <5>1. CASE head + 1 < MaxLogs
          BY <5>1, <3>1, <1>0 DEF TypeOK
        <5>2. CASE head + 1 = MaxLogs
          <6>1. (head + i) % MaxLogs = i - 1
            BY <5>2, <3>3, <1>1, <1>n, Wrap
          <6>2. (head' + i - 1) % MaxLogs = i - 1
            BY <5>2, <3>1, <3>3, <1>1, <1>0, Wrap DEF TypeOK
          <6>3. QED BY <6>1, <6>2
        <5>3. QED BY <5>1, <5>2, <1>0 DEF TypeOK
      <4>2. (head + i) % MaxLogs \in Slots \ {head}
        BY <3>3, <1>1, <1>n, Wrap
      <4>3. s[i + 1] = buf[(head + i) % MaxLogs]
        BY <3>3, <1>0 DEF GetLogs, TypeOK
      <4>4. QED BY <4>1, <4>2, <4>3, <3>3, <2>1, <1>0 DEF TypeOK
    <3>4. QED BY <3>2, <3>3
  <2>6. GetLogs' = [i \in 1 .. count |-> buf'[(head' + i - 1) % MaxLogs]]
    BY <2>1 DEF GetLogs
  <2>7. GetLogs' = Append(Tail(s), line)
    BY <2>4, <2>5, <2>6
  <2>8. QED BY <2>7, <1>s, <1>1 DEF Bounded!Push
<1>2. CASE count # MaxLogs
  <2>1. /\ buf' = [buf EXCEPT ![(head + count) % MaxLogs] = line]
        /\ count' = count + 1
        /\ head' = head
    BY <1>2 DEF Write
  <2>2. count < MaxLogs /\ head = 0
    BY <1>0, <1>2 DEF TypeOK, NoUnwrittenEntry
  <2>3. (head + count) % MaxLogs = count
    BY <2>2, <1>n, Wrap
  <2>4. Append(s, line) = [i \in 1 .. count + 1 |-> IF i = count + 1 THEN line ELSE s[i]]
    BY <1>s, AppendAsFunction
  <2>5. ASSUME NEW i \in 1 .. count + 1
        PROVE  buf'[(head' + i - 1) % MaxLogs] = IF i = count + 1 THEN line ELSE s[i]
    <3>1. (head' + i - 1) % MaxLogs = i - 1
      BY <2>1, <2>2, <1>0, Wrap DEF TypeOK
    <3>2. i # count + 1 => s[i] = buf[i - 1]
      BY <3>1, <2>1, <1>0 DEF GetLogs, TypeOK
    <3>3. QED BY <3>1, <3>2, <2>1, <2>3, <2>2, <1>0 DEF TypeOK
  <2>6. GetLogs' = [i \in 1 .. count + 1 |-> buf'[(head' + i - 1) % MaxLogs]]
    BY <2>1 DEF GetLogs
  <2>7. GetLogs' = Append(s, line)
    BY <2>4, <2>5, <2>6
  <2>8. QED BY <2>7, <1>s, <2>2 DEF Bounded!Push
<1>3. QED BY <1>1, <1>2

\* The ring buffer of logger.go keeps the last MaxLogs lines in order: every
\* behaviour of LogRing is a behaviour of BoundedLog for what GetLogs returns.
THEOREM LogRingRefines == Spec => ImplementsBoundedLog
<1>1. Init => Bounded!Init
  BY DEF Init, Bounded!Init, GetLogs
<1>2. IInv /\ [Next]_vars => [Bounded!Next]_GetLogs
  <2> SUFFICES ASSUME IInv, [Next]_vars PROVE [Bounded!Next]_GetLogs
    OBVIOUS
  <2>1. ASSUME NEW line \in Lines, Write(line) PROVE Bounded!Next
    BY <2>1, WritePushes DEF Write, Bounded!Next, Bounded!Write
  <2>2. CASE UNCHANGED ring
    BY <2>2 DEF ring, GetLogs
  <2>3. CASE OpenLogs \/ CloseDetail \/ CloseLogs \/ MoveCursor \/ ShowDetail
    BY <2>2, <2>3 DEF OpenLogs, CloseDetail, CloseLogs, MoveCursor, ShowDetail
  <2>4. CASE UNCHANGED vars
    BY <2>2, <2>4 DEF vars, ring
  <2>5. QED BY <2>1, <2>3, <2>4 DEF Next
<1>3. QED BY <1>1, <1>2, IInvAlways, PTL DEF Spec, Bounded!Spec, ImplementsBoundedLog

------------------------------------------------------------------------------
(* The self-update *)

(* The inductive invariant says where the program that the update found is in each of the
   phases, which the properties only say of the ends. *)

\* The program found is in place until it is moved, and then at the backup's path,
\* if there was one.
Kept ==
  /\ phase \in {"staging", "staged"} => current = before
  /\ phase \in {"moved", "copying", "installed", "failed"} =>
       /\ hasBackup => backup = before
       /\ ~hasBackup => before = "none"

\* What is staged, and installed, is what was extracted.
Staging ==
  /\ staged \in {"none", Extracted}
  /\ phase = "installed" => current = staged
  /\ phase # "off" => result = "none"

UpdateIInv == UpdateTypeOK /\ Kept /\ Staging /\ UpdateKeepsProgram /\ SuccessInstallsNew

\* The invariant holds at first.
LEMMA UpdateIInvInit == UpdateInit => UpdateIInv
  BY DEF UpdateInit, UpdateIInv, UpdateTypeOK, Kept, Staging, UpdateKeepsProgram, SuccessInstallsNew,
         Contents, Complete, Phases, Extracted

\* Every step of the update keeps the invariant.
LEMMA UpdateIInvStep == UpdateIInv /\ [UpdateNext]_updateVars => UpdateIInv'
<1> SUFFICES ASSUME UpdateIInv, [UpdateNext]_updateVars PROVE UpdateIInv'
  OBVIOUS
<1> USE DEF UpdateIInv, UpdateTypeOK, Kept, Staging, UpdateKeepsProgram, SuccessInstallsNew,
            Contents, Complete, Phases, Return, Extracted
<1>1. CASE Begin BY <1>1 DEF Begin
<1>2. CASE UpToDate BY <1>2 DEF UpToDate
<1>3. CASE Refuse BY <1>3 DEF Refuse
<1>4. CASE Stage BY <1>4 DEF Stage
<1>5. CASE BackUp BY <1>5 DEF BackUp
<1>6. CASE Install BY <1>6 DEF Install
<1>7. CASE Copy BY <1>7 DEF Copy
<1>8. CASE RollBack BY <1>8 DEF RollBack
<1>9. CASE CleanUp BY <1>9 DEF CleanUp
<1>10. CASE Kill BY <1>10 DEF Kill
<1>11. CASE UNCHANGED updateVars BY <1>11 DEF updateVars
<1> QED BY <1>1, <1>2, <1>3, <1>4, <1>5, <1>6, <1>7, <1>8, <1>9, <1>10, <1>11 DEF UpdateNext

\* Every state of the update satisfies the invariant.
LEMMA UpdateIInvAlways == UpdateSpec => []UpdateIInv
  BY UpdateIInvInit, UpdateIInvStep, PTL DEF UpdateSpec

\* The paths hold what their types say, and a binary is staged from its extraction
\* to the end of the update and no longer (runUpdate, its deferred RemoveAll).
THEOREM SelfUpdateTypes == UpdateSpec => []UpdateTypeOK
<1>1. UpdateIInv => UpdateTypeOK BY DEF UpdateIInv
<1> QED BY <1>1, UpdateIInvAlways, PTL

\* Whatever call fails and wherever the program is killed, an update that has not
\* succeeded leaves the program it found at its path or at the backup's.
THEOREM SelfUpdateKeepsProgram == UpdateSpec => []UpdateKeepsProgram
<1>1. UpdateIInv => UpdateKeepsProgram BY DEF UpdateIInv
<1> QED BY <1>1, UpdateIInvAlways, PTL

\* An update that says "Successfully updated" has installed the whole of what it extracted,
\* which is the new version unless the release exceeds maxBinarySize.
THEOREM SelfUpdateInstalls == UpdateSpec => []SuccessInstallsNew
<1>1. UpdateIInv => SuccessInstallsNew BY DEF UpdateIInv
<1> QED BY <1>1, UpdateIInvAlways, PTL
=============================================================================
