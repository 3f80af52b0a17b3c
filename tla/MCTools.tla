------------------------------ MODULE MCTools -------------------------------
(* Small instances of ToolCalls for TLC. *)
EXTENDS ToolCalls, TLC

CONSTANTS c1, c2

\* A name whose variable is set, and one whose variable is not.
MCSecret == {<<"a", ".", "b">>, <<"c">>}
MCPrefix == <<"P", "_">>
MCEnvironment == {<<"P", "_", "A", "_", "B">>, <<"H">>}

\* A host that is granted, one that is not, and a private address that is.
MCTarget == {<<"a", "x">>, <<"b", "x">>, <<"a", "1">>}
MCAllowlist == {<<"a", Star>>}
MCAddressOf == [h \in MCTarget |-> IF h = <<"a", "1">> THEN <<10, 0, 0, 1>> ELSE None]

\* A tool that may connect anywhere, a name, and the loopback address of each family.
AnyTarget == {<<"a", "x">>, <<"1">>, <<"[", "1", "]">>}
AnyHost == {<<Star>>}
AnyAddressOf ==
  [h \in AnyTarget |->
     CASE h = <<"1">> -> <<127, 0, 0, 1>>
       [] h = <<"[", "1", "]">> -> Segments(0, 0, 1)
       [] OTHER -> None]

MCRule(id, find) == [id |-> id, find |-> find, put |-> <<id>>]
MCStack ==
  [id |-> <<"v">>,
   redactors |-> << [id |-> <<"p">>, rules |-> <<MCRule("R1", <<"s", "t">>), MCRule("R2", <<"t", "t">>)>>],
                    [id |-> <<"q">>, rules |-> <<MCRule("R3", <<"s">>)>>] >>]
MCOutput == { <<"x", Invalid>>, <<"s", "t", "s", "t", "t">> }

\* The replacements of MCStack are marks: nothing else holds them.
ASSUME MCStackIsBracketed ==
  Bracketed(MCStack, {"s", "t", "x", "R1", "R2", "R3", Replacement}, {"R1", "R2", "R3"})
=============================================================================
