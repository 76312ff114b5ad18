------------------------------ MODULE MCSweep ------------------------------
EXTENDS Sweep

CONSTANTS a, b, c, d, m1, m2

\* One master has a key in each bucket, the other two in one.
MCHomeOf == a :> m1 @@ b :> m1 @@ c :> m2 @@ d :> m2
MCBucketOf == a :> 1 @@ b :> 2 @@ c :> 1 @@ d :> 1
MCScore == a :> 1 @@ b :> 2 @@ c :> 3 @@ d :> 0
MCAtStart == {[k \in Keys |-> "string"],
              a :> "list" @@ b :> "list" @@ c :> "gone" @@ d :> "zset"}
=============================================================================
