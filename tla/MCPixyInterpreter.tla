------------------------- MODULE MCPixyInterpreter -------------------------
(* PixyInterpreter with a Pixy that knows five procedures.                 *)
EXTENDS PixyInterpreter

MCDevTable ==
  [n \in Names \cup {FrameName} |->
     CASE n = "getAWB" -> 0 [] n = "getBrightness" -> 1 [] n = FrameName -> 2
       [] n = VersionName -> 3 [] n = UidName -> 4 [] OTHER -> NoProc]

\* As answers, 1 is also an index of Pixy's table, 65537 is one once it is cut to a
\* ChirpProc, 7 is none.
MCDevResult == 0 :> 1 @@ 1 :> 7 @@ 2 :> 0 @@ 3 :> 0 @@ 4 :> 65537

CallerSymmetry == Permutations(Callers)
=============================================================================
