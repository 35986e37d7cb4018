---------------------------- MODULE MCDataProcessor --------------------------
(***************************************************************************)
(* A chain of data commands on which TLC checks module DataProcessor: an   *)
(* entry x that is appended to, once with what is no map, set and appended *)
(* to again, and an entry y that is set to a map, which takes no appends.  *)
(***************************************************************************)
EXTENDS DataProcessor, TLC

CONSTANTS x, y, c1, c2, c3, m, n

Command(o, a, v) == [opt |-> o, addr |-> a, value |-> v]
MixedTasks ==
  <<Command("append", x, MapOf(m)), Command("append", x, Text),
    Command("set", y, MapOf(m)), Command("append", y, MapOf(n)),
    Command("set", x, ArrayOf(<<m>>)), Command("append", x, MapOf(n))>>
MixedEnd == <<3, 6>>
MixedTopic == c1 :> x @@ c2 :> x @@ c3 :> x
=============================================================================
