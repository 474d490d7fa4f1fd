----------------------------- MODULE MCChirpLink -----------------------------
(* ChirpLink with a header of 12 bytes in transfers of 24: messages that do  *)
(* not fill one transfer, that just do, that take two, the second as long as *)
(* the first or of two packets, of hints alone, and with more scalars than   *)
(* are taken.                                                                *)
EXTENDS ChirpLink

Int8 == Arg("scalar", 1, 1, FALSE)
Int16 == Arg("scalar", 2, 1, FALSE)
Int32 == Arg("scalar", 4, 1, FALSE)
Hint32 == Arg("scalar", 4, 1, TRUE)
String(n) == Arg("string", 1, n, FALSE)
Ints8(n) == Arg("array", 1, n, FALSE)
Ints16(n) == Arg("array", 2, n, FALSE)
Hints8(n) == Arg("array", 1, n, TRUE)
Flts64(n) == Arg("array", 8, n, FALSE)

Msg(type, args) == [type |-> type, args |-> args]

\* Each message is a constant of its own, which TLC evaluates once, before its workers
\* share it.
Numbers == Msg("call", <<Int8, Int16>>)
Words == Msg("call", <<String(5), Int16, Int8>>)
NoArgs == Msg("response", <<>>)
Float == Msg("response", <<Flts64(1), Int8>>)
Frame == Msg("xdata", <<Hint32, Ints8(20)>>)
Long == Msg("call", <<Ints16(20)>>)
OnlyHints == Msg("xdata", <<Hint32, Hints8(2)>>)
TooManyArgs == Msg("xdata", <<Int8, Int8, Int8, Int8, Int8>>)

MCMessages == {Numbers, Words, NoArgs, Float, Frame, Long, OnlyHints, TooManyArgs}

\* The messages are such as the theorems about ChirpLink are about.
ASSUME MessagesAlign == \A msg \in MCMessages : Aligns(msg)
=============================================================================
