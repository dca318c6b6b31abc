--------------------------- MODULE MCRequestFlow ---------------------------
(* What there is to read in a TLC instance of RequestFlow: nothing, exactly a  *)
(* chunk, and two chunks, the first too long, and a rest.                      *)
EXTENDS RequestFlow

MCReports == {<<>>, <<1, 1>>, <<1, 2, 2, 1>>}
=============================================================================
