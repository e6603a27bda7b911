---------------------------- MODULE MainHistory ----------------------------
(***************************************************************************)
(* Main_parser with a history variable: the literals the last %comments    *)
(* section was given for its marks.  The program does not keep it.  It     *)
(* knows a mark by its index, and the empty literal has the index 0, which *)
(* compile_() also stores for a mark that was not given: of a description  *)
(* like %comments %multilined "" : "*/" the index says that there is no    *)
(* beginning.  What was given can be told from what is absent only by its  *)
(* history.                                                                *)
(***************************************************************************)
EXTENDS MainParser

VARIABLE given         \* pairs of the state a literal was read to, and it

historyVars == <<vars, given>>

(* compile_() begins the section anew; a literal it reads is a mark; one   *)
(* that ends the section is given back.                                    *)
Remember ==
  given' = CASE CommentsAt("call") -> {}
             [] pc = "Kw_comments" /\ pc' = pc /\ state # "call"
                  /\ li'.code = "String" ->
                  given \cup {<<state', li'.val>>}
             [] OTHER -> given

HistoryInit == Init /\ given = {}
HistoryNext == Next /\ Remember
HistorySpec == HistoryInit /\ [][HistoryNext]_historyVars

-----------------------------------------------------------------------------
Given(s) == \E m \in given : m[1] = s

(* The marks as the generators know them.                                  *)
StoredMarks == {<<"Single_lined_mark", mark_of_single_lined>>,
                <<"Multi_lined_begin", mark_of_multilined_begin>>,
                <<"Multilined_end", mark_of_multilined_end>>}

(* A description accepted by verify() that has comments was given both     *)
(* marks of the multilined comment or none, nested comments only with the  *)
(* marks, and some comment at all; and the marks the generators get are    *)
(* those of the last section and no others.  So half a pair gets there     *)
(* only where the other mark was given as the empty literal.               *)
CommentsComplete ==
  /\ pc \in {"add_fictive_delimiters", "generate"}
  /\ "Comment_aut" \in used
  => /\ Given("Multi_lined_begin") <=> Given("Multilined_end")
     /\ multilined_is_nested => Given("Multi_lined_begin")
     /\ Given("Single_lined_mark") \/ Given("Multi_lined_begin")
     /\ given \subseteq StoredMarks
     /\ \A m \in StoredMarks : m[2] # 0 => m \in given

(* verify() lets nothing through to the generators that has been           *)
(* diagnosed, has no automaton, has identifiers without a structure, or    *)
(* comments without their marks.                                           *)
VerifiedIsComplete ==
  pc \in {"add_fictive_delimiters", "generate"} =>
    /\ CommentsComplete
    /\ used # {}
    /\ "Id_aut" \in used =>
         /\ names["Kw_ident_name"] # 0
         /\ id_filled = Parts
    /\ erroneous => "Comment_aut" \in used
=============================================================================
