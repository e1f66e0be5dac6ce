----------------------------- MODULE MCFlexBuf -----------------------------
(* FlexBuf on two handles and blocks of up to MaxAlloc bytes, with a       *)
(* growth step scaled down from 16/8 to 2/2.                               *)
EXTENDS FlexBuf, TLC

CONSTANTS x, y, o1, o2

MCByte == {x, y}
MCChunk == {<< >>, <<x, y>>, <<y, x, x>>}
MCFmtText == {<<x>>, <<y, x, x>>}
MCAnyFmtText == {<<x>>, <<x, y>>, <<y, x, x>>}

MCObj == {o1, o2}
MCSymmetry == Permutations(MCObj)
=============================================================================
