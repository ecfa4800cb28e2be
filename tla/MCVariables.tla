----------------------------- MODULE MCVariables -----------------------------
(***************************************************************************)
(* Small programs for TLC: which declarations they may hold.               *)
(***************************************************************************)
EXTENDS Variables, TLC

Untyped(s) == [typed |-> FALSE, sets |-> s]
Typed(s) == [typed |-> TRUE, sets |-> s]

\* var v = e; const v = w; const v = private; const v = private w;
\* var v : T = e; var v : T = f(); const v : T = private
FewShapes ==
  {Untyped(<<"pure">>), Untyped(<<"name">>), Untyped(<<"scope">>),
   Untyped(<<"scope", "name">>),
   Typed(<<"pure">>), Typed(<<"effect">>), Typed(<<"scope">>)}

CONSTANTS v1, v2

\* An expression names one variable or none, but for `var v1 = v2 + v1'.
FewNames(d) ==
  \A v \in Vars : \A k \in DOMAIN d[v].refs :
    Len(d[v].refs[k]) = 2 =>
      v = v1 /\ ~d[v].typed /\ d[v].sets = <<"pure">> /\ d[v].refs[k] = <<v2, v1>>
=============================================================================
