----------------------------- MODULE MCFsCalls ------------------------------
(* Model checking of FsCalls. *)
EXTENDS FsCalls

CONSTANT p1

Rel(s) == [abs |-> FALSE, elems |-> s]
Abs(s) == [abs |-> TRUE, elems |-> s]
DeepPaths == {Rel(<<"a">>), Rel(<<"..">>), Rel(<<"..", "a">>), Abs(<<"a">>), Abs(<<"a", "a">>)}
=============================================================================
