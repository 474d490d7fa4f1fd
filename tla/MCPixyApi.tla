----------------------------- MODULE MCPixyApi -----------------------------
(* PixyApi with two threads and four devices, three of them Pixys.          *)
EXTENDS PixyApi, TLC

CONSTANTS t1, t2, d1, d2, d3, d4, u1, u3, u4

MCDeviceList == <<d1, d2, d3, d4>>
MCUid == (d1 :> u1) @@ (d3 :> u3) @@ (d4 :> u4)

HandleSymmetry == Permutations(Handles)
=============================================================================
