------------------------------ MODULE MCActExpr ------------------------------
(* An instance of ActExprParser: two actions, so that one may be nested in  *)
(* the other, and expressions of up to MaxLexems lexemes.                   *)
EXTENDS ActExprParser

TwoActs == {1, 2}
=============================================================================
