--------------------------- MODULE SectionGrammar ---------------------------
(***************************************************************************)
(* What the header of every section parser promises: the lexemes of a      *)
(* section accepted without a diagnostic spell a path of a finite          *)
(* automaton (the transition table printed in the comment of the parser's  *)
(* header).  The automaton is a parameter; each parser module gives its    *)
(* own table and shows that it implements this specification.              *)
(***************************************************************************)
CONSTANTS Moves,     \* <<state, lexeme code, state>>
          Start,     \* the state after the keyword of the section
          Stops      \* the states in which the section may be left

VARIABLES place,     \* a state, "outside" of the section, or "diagnosed"
          code       \* the code of the last lexeme read

vars == <<place, code>>

Init == place = "outside"

(* Reading anything outside of the section, its keyword last.              *)
Outside == place = "outside" /\ place' \in {"outside", Start}

Advance ==
  \E m \in Moves : place = m[1] /\ code' = m[2] /\ place' = m[3]

Leave == place \in Stops /\ place' = "outside"

(* A counted error: nothing is promised of this text any more.             *)
Diagnose == place' = "diagnosed"

Next == Outside \/ Advance \/ Leave \/ Diagnose

Spec == Init /\ [][Next]_vars
=============================================================================
