----------------------------- MODULE MCRuntime -----------------------------
(***************************************************************************)
(* A script with %result, one extern string, one temporary and a long      *)
(* constant; words of one character, and the texts of 97 and a space.      *)
(***************************************************************************)
EXTENDS Runtime

CONSTANTS b1, b2, b3, theResult, theExtern, theTemp, theConstant, address

MCBuffers  == {b1, b2, b3}
MCLiterals == (address :> <<97, Space>>)
MCOrder    == <<theResult, theExtern>>
MCConsts   == (theConstant :> address)
MCInputs   == {<<97>>, <<97, 97>>, <<>>}
MCFollowed == {<<>>, <<97>>, <<Space>>, <<97, 97>>, <<97, Space>>}
MCCounts   == {-1, 0, 1, 2}

(* Which free buffer malloc() returns makes no difference to the rest.     *)
BufferSymmetry == Permutations(MCBuffers)

(* No step reads call: the states that differ in it have the same steps.   *)
WithoutCall == <<mem, phase>>
=============================================================================
