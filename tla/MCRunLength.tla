----------------------------- MODULE MCRunLength -----------------------------
(* RunLength with three columns of one signature, near (5 and 4 apart) or   *)
(* far (9 apart), and a pixel of another between them.                      *)
EXTENDS RunLength

MCColoured == {<<1, 2>>, <<2, 5>>, <<1, 7>>, <<1, 11>>}
=============================================================================
