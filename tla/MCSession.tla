------------------------------ MODULE MCSession -----------------------------
(* Session for TLC: at first there is one connection, whose password is in the vault. *)
EXTENDS Session

MCStored == {[id |-> 1, vault |-> TRUE, cluster |-> FALSE]}
MCUses == {{"form", "connect"}, {"list"}, {"auto", "metrics", "screens"}, {"connect", "metrics"}}
MCSticky == {Connecting, Watching}
MCTexts == Written \cup {""} \cup MCSticky
=============================================================================
