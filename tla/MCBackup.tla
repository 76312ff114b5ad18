------------------------------ MODULE MCBackup -----------------------------
EXTENDS Backup, TLC

CONSTANTS a, b, c, d, x, y, bin, inf

Of(t, v, ttl) == [type |-> t, val |-> [e \in Elements |-> IF e \in v THEN 1 ELSE 0],
                  depth |-> 0, ttl |-> ttl]

\* The name of d is not UTF-8, and looks like that of c in JSON.
MCNamed == [k \in Keys |-> IF k = d THEN c ELSE k]

MCAtStart == {a :> Of("string", {x}, 1) @@ b :> Of("list", {x, bin}, 1) @@ c :> Of("set", {y, bin}, NoExpiry) @@ d :> Absent,
              a :> Of("json", {x}, 1) @@ b :> Of("stream", {x}, NoExpiry) @@ c :> Absent @@ d :> Of("string", {bin}, 1),
              a :> Of("set", {x}, 0) @@ b :> Of("module", {x}, NoExpiry) @@ c :> Of("list", {y}, NoExpiry) @@ d :> Of("string", {x}, 1),
              a :> Of("set", {x, inf}, 0) @@ b :> Of("list", {y}, 1) @@ c :> Absent @@ d :> Absent}
MCAtOther == {a :> Absent @@ b :> Of("string", {y}, NoExpiry) @@ c :> Of("set", {x}, 1) @@ d :> Absent}
MCOthers == {Absent, Of("string", {y}, NoExpiry), Of("list", {y}, 1)}
MCEarlier == {NoFile, a :> [Of("list", {x}, 1) EXCEPT !.ttl = 0]}
=============================================================================
