------------------------------ MODULE MCLocal -------------------------------
(***************************************************************************)
(* The two components that deal with this machine alone, for TLC: the log  *)
(* ring of a program that runs, and the update that another run of it      *)
(* makes.  They share no state; their steps interleave.                    *)
(***************************************************************************)
EXTENDS LogRing, SelfUpdate

LocalInit == Init /\ UpdateInit

LocalNext ==
  \/ Next /\ UNCHANGED updateVars
  \/ UpdateNext /\ UNCHANGED vars

LocalSpec == LocalInit /\ [][LocalNext]_<<vars, updateVars>>
=============================================================================
