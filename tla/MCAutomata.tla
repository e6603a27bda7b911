----------------------------- MODULE MCAutomata -----------------------------
(***************************************************************************)
(* Automata, on two letters a and b of one class, a sign =, and the        *)
(* quotes.                                                                 *)
(***************************************************************************)
EXTENDS Automata

a == 97
b == 98
Sign == 61
MCChars        == {DoubleQuote, SingleQuote, Sign, a, b}
MCchar_classes == [letter |-> {a, b}]
MCIdLetters    == {Char_def(a), Char_class_def("letter"), Char_class_def("ndq")}
MCExprLeaves   == {Char_def(a), Char_def(DoubleQuote), Char_class_def("ndq")}
MCOneLetter    == {Char_def(a)}
MCTwoLetters   == {Char_def(a), Char_class_def("letter")}
MCNoLetters    == {}
MCKeywordLists == {<<>>, << <<a, b>> >>, << <<Sign, a>> >>, << <<Sign>>, <<b>> >>}
MCNoKeywords   == {<<>>}
=============================================================================
