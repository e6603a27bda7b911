---------------------------- MODULE MCKwSections ----------------------------
(* Instances of KwSections.  Identifier 3 and literal 3 share a number, as *)
(* the two tries let them; literal 0 is the empty one.                     *)
EXTENDS KwSections

MCBuiltin ==
  [n \in BuiltinNames |->
     CASE n = "None"    -> 11
       [] n = "Unknown" -> 12
       [] n = "write"   -> 13
       [] n = "Newline" -> 14
       [] n = "Scaner"  -> 15
       [] n = "Lexem_code" -> 16
       [] n = "SINGLE_LINED_COMMENT_MARK" -> 17
       [] n = "MULTI_LINED_COMMENT_MARK"  -> 18
       [] n = "MULTI_LINED_COMMENT_END"   -> 19]

MCIds      == {3, 4}
MCStrs     == {3, 5}
MCGarbage  == {0}
MCAlphabet == {"Kw_keywords", "Kw_delimiters", "Kw_codes",
               "Id", "String", "Colon", "Comma"}
=============================================================================
