----------------------------- MODULE SelfUpdate -----------------------------
(***************************************************************************)
(* update.go: redis-tui --update.  The new binary is staged in a temporary *)
(* directory; replaceBinary moves the installed one to <path>.old, moves   *)
(* the staged one in, or copies it when the two are on different devices,  *)
(* and then removes <path>.old, or moves it back when that failed.  Each   *)
(* system call may fail, and the program may be killed between two.        *)
(***************************************************************************)
EXTENDS Naturals

\* What is at a path: nothing, part of a binary, or the binary of a version.
Complete == {"old", "new"}
Contents == {"none", "part"} \cup Complete

VARIABLES oversized, \* the release's binary is larger than maxBinarySize
          running,   \* the version that runs the update
          current,   \* what is at execPath
          backup,    \* what is at execPath.old
          staged,    \* what is at newBinaryPath
          hasBackup, \* replaceBinary's local
          phase,     \* where the update is; "off" when none runs
          before,    \* history: what was at execPath when the update began
          result     \* history: how the last update ended

updateVars == <<oversized, running, current, backup, staged, hasBackup, phase, before, result>>

UpdateInit ==
  /\ oversized \in BOOLEAN /\ running \in Complete
  /\ current \in Complete \cup {"none"}
  /\ backup = "none" /\ staged = "none" /\ hasBackup = FALSE
  /\ phase = "off" /\ before = current /\ result = "none"

\* Mutated form: the temporary directory stays.
ReturnUncleaned(r) == phase' = "off" /\ result' = r /\ UNCHANGED staged

\* The update returns; the temporary directory is removed.
Return(r) == phase' = "off" /\ result' = r /\ staged' = "none"

\* The user starts the program at execPath, or one of whatever version in a directory that
\* cannot be written, for which execPath is ~/.local/bin/redis-tui.
Begin ==
  /\ phase = "off"
  /\ \/ current \in Complete /\ running' = current
     \/ running' \in Complete
  /\ phase' = "staging"
  /\ before' = current
  /\ result' = "none"
  /\ UNCHANGED <<oversized, current, backup, staged, hasBackup>>

\* The program that runs is the latest version, whatever is at execPath.
UpToDate ==
  /\ phase = "staging"
  /\ running = "new"
  /\ Return("latest")
  /\ UNCHANGED <<oversized, running, current, backup, hasBackup, before>>

\* A development build, Homebrew, no directory to write to, a failed download, a
\* checksum that differs, or an archive without the binary.
Refuse ==
  /\ phase = "staging"
  /\ Return("error")
  /\ UNCHANGED <<oversized, running, current, backup, hasBackup, before>>

\* A reader that ends at maxBinarySize, with no error.
Extracted == IF oversized THEN "part" ELSE "new"

\* extractBinary: the archive's checksum has been verified, and the binary is
\* written up to maxBinarySize.
Stage ==
  /\ phase = "staging"
  /\ running = "old"
  /\ staged' = Extracted
  /\ phase' = "staged"
  /\ UNCHANGED <<oversized, running, current, backup, hasBackup, before, result>>

\* Mutated form: the installed binary is removed, not renamed.
BackUpByRemoving ==
  /\ phase = "staged"
  /\ phase' = "moved"
  /\ hasBackup' = FALSE
  /\ current' = "none"
  /\ UNCHANGED <<oversized, running, backup, staged, before, result>>

\* replaceBinary: rename execPath to execPath.old, if it is there.
BackUp ==
  /\ phase = "staged"
  /\ \/ /\ phase' = "moved"
        /\ hasBackup' = (current # "none")
        /\ backup' = IF current = "none" THEN backup ELSE current
        /\ current' = "none"
        /\ UNCHANGED <<staged, result>>
     \/ Return("error") /\ UNCHANGED <<current, backup, hasBackup>>
  /\ UNCHANGED <<oversized, running, before>>

\* installBinary: rename, or open both files to copy across devices.
Install ==
  /\ phase = "moved"
  /\ \/ phase' = "installed" /\ current' = staged
     \/ phase' = "copying" /\ current' = "part"
     \/ phase' = "failed" /\ UNCHANGED current
  /\ UNCHANGED <<oversized, running, backup, staged, hasBackup, before, result>>

\* Mutated form: the error of io.Copy is dropped.
CopyUnchecked ==
  /\ phase = "copying"
  /\ phase' = "installed"
  /\ current' \in {staged, "part"}
  /\ UNCHANGED <<oversized, running, backup, staged, hasBackup, before, result>>

\* copyFile: a failed write removes what was written, as far as that is possible,
\* a failed close leaves it.
Copy ==
  /\ phase = "copying"
  /\ \/ phase' = "installed" /\ current' = staged
     \/ phase' = "failed" /\ current' \in {"none", "part", staged}
  /\ UNCHANGED <<oversized, running, backup, staged, hasBackup, before, result>>

\* The backup is moved back over what is there; an error of that is not noticed.
RollBack ==
  /\ phase = "failed"
  /\ Return("error")
  /\ \/ hasBackup /\ current' = backup /\ backup' = "none"
     \/ UNCHANGED <<current, backup>>
  /\ UNCHANGED <<oversized, running, hasBackup, before>>

\* The backup is removed; an error of that is not noticed.
CleanUp ==
  /\ phase = "installed"
  /\ Return("updated")
  /\ backup' \in IF hasBackup THEN {backup, "none"} ELSE {backup}
  /\ UNCHANGED <<oversized, running, current, hasBackup, before>>

\* The program is killed; the temporary directory stays, under a name of its own.
Kill ==
  /\ phase # "off"
  /\ Return("killed")
  /\ UNCHANGED <<oversized, running, current, backup, hasBackup, before>>

UpdateNext ==
  \/ Begin
  \/ UpToDate
  \/ Refuse
  \/ Stage
  \/ BackUp
  \/ Install
  \/ Copy
  \/ RollBack
  \/ CleanUp
  \/ Kill

UpdateSpec == UpdateInit /\ [][UpdateNext]_updateVars

------------------------------------------------------------------------------
(* Properties *)

Phases == {"off", "staging", "staged", "moved", "copying", "installed", "failed"}

\* Types of the paths and of the update; a binary is staged when it is moved.
UpdateTypeOK ==
  /\ oversized \in BOOLEAN /\ running \in Complete /\ hasBackup \in BOOLEAN
  /\ current \in Contents /\ backup \in Contents /\ before \in Contents
  /\ staged \in {"none", "part", "new"}
  /\ phase \in Phases
  /\ result \in {"none", "latest", "updated", "error", "killed"}
  /\ phase \in {"staged", "moved", "copying", "installed", "failed"} <=> staged # "none"

\* Until an update has succeeded the program it found is still there, at its path
\* or at the backup's: while it runs, when it failed, and when it was killed,
\* whichever call of replaceBinary failed or was the last.
UpdateKeepsProgram ==
  (before \in Complete /\ result # "updated") => before \in {current, backup}

\* An update that says "Successfully updated" has installed all that it extracted: the new
\* version, or what maxBinarySize leaves of a release above it, of which it says the same.
\* ("Already up to date" is of the program that runs: an older one may be at execPath.)
SuccessInstallsNew == result = "updated" => current = Extracted
=============================================================================
