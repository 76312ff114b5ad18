---------------------------- MODULE ScanPromise ----------------------------
(***************************************************************************)
(* What a scan of the whole keyspace promises (client.go:77 and Redis'     *)
(* SCAN): a scan that ends without an error has every key that was there   *)
(* from its beginning to its end, and no key that was not there at all.    *)
(***************************************************************************)
CONSTANT Keys

VARIABLES status, \* "idle", "running", "ended", or "void" after an error
          live,   \* the keys that have been there since it began
          ever,   \* the keys that have been there at some moment since then
          result  \* the keys it returned, once it has ended

vars == <<status, live, ever, result>>

Init == status = "idle" /\ live = {} /\ ever = {} /\ result = {}

Begin ==
  /\ status = "idle" /\ status' = "running"
  /\ live' \in SUBSET Keys /\ ever' = live'
  /\ UNCHANGED result

\* Other clients delete and create keys.
KeysChange ==
  /\ status \in {"running", "void"}
  /\ live' \subseteq live
  /\ ever \subseteq ever' /\ ever' \subseteq Keys
  /\ UNCHANGED <<status, result>>

End ==
  /\ status = "running" /\ status' = "ended"
  /\ live \subseteq result' /\ result' \subseteq ever
  /\ UNCHANGED <<live, ever>>

Fail ==
  /\ status = "running" /\ status' = "void"
  /\ UNCHANGED <<live, ever, result>>

Next == Begin \/ KeysChange \/ End \/ Fail

Spec == Init /\ [][Next]_vars
=============================================================================
