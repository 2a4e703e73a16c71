----------------------------- MODULE MCCommand ------------------------------
(* One flag of each kind, given up to twice, with texts that are refused;  *)
(* no profile, the heap profile alone, or all three.                       *)
EXTENDS Command

MCWords == {"a", "b", "c", "bad", "default", "rounded"}
MCArgs == {<<>>, <<<<"a">>>>, <<<<"a">>, <<"b">>>>, <<<<"a">>, <<"bad">>>>}
MCTexts == {<<>>, <<"bad">>, <<"c">>}
MCRequests == {{}, {"memory"}, {"trace", "cpu", "memory"}}
=============================================================================
