---------------------------- MODULE ExprGrammar ----------------------------
(***************************************************************************)
(* What Act_expr_parser promises: the expressions accepted without a       *)
(* message are those of the grammar in the comment of act_expr_parser.cpp: *)
(*     S -> pTq          T -> TbE | E          E -> EF | F                 *)
(*     F -> Gc | G       G -> Ha | H           H -> d | (T)                *)
(* Parentheses apart, the grammar says only which terminal may follow      *)
(* which: an operand has at most one action and at most one closure, in    *)
(* this order, and | and the brackets need operands.                       *)
(***************************************************************************)
EXTENDS Naturals

VARIABLES last,      \* the last terminal of the expression, or "start"
          depth,     \* the parentheses that are open
          done,      \* the expression has been accepted
          diagnosed  \* a message has been printed

vars == <<last, depth, done, diagnosed>>

Operand == {"d", "LP"}
After(x) ==
  CASE x = "start"           -> {"p"}
    [] x \in {"p", "b", "LP"} -> Operand
    [] x \in {"d", "RP"}      -> Operand \cup {"a", "b", "c", "RP", "q"}
    [] x = "a"               -> Operand \cup {"b", "c", "RP", "q"}
    [] x = "c"               -> Operand \cup {"b", "RP", "q"}
    [] x = "q"               -> {}

(* The terminals that continue the expression.                             *)
Allowed(x, n) ==
  {y \in After(x) : (y = "RP" => n > 0) /\ (y = "q" => n = 0)}

Init == last = "start" /\ depth = 0 /\ ~done /\ ~diagnosed

Read(y) ==
  /\ ~done
  /\ y \in Allowed(last, depth)
  /\ last' = y
  /\ depth' = CASE y = "LP" -> depth + 1
                [] y = "RP" -> depth - 1
                [] OTHER    -> depth
  /\ UNCHANGED <<done, diagnosed>>

Accept == last = "q" /\ done' /\ UNCHANGED <<last, depth, diagnosed>>

(* A message: nothing is promised of this expression any more.             *)
Diagnose == diagnosed'

Next == (\E y \in Allowed(last, depth) : Read(y)) \/ Accept \/ Diagnose

Spec == Init /\ [][Next]_vars
=============================================================================
