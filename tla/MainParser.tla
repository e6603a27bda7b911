----------------------------- MODULE MainParser -----------------------------
(***************************************************************************)
(* Main_parser: the loop over the commands of a description file, the      *)
(* small sections it handles itself, the check of what was gathered, and   *)
(* the delimiters added for the marks of comments.  The other sections are *)
(* the modules KwParser, CodesSection, NumStrSection and CommentsSection,  *)
(* over the same variables.                                                *)
(***************************************************************************)
EXTENDS KwParser, CodesSection, NumStrSection, CommentsSection, FiniteSets

VARIABLES names,       \* scaner_name_idx, codes_type_name_idx, ident_name_idx
                       \* and lexem_info_name_idx, by section
          texts,       \* token_fields_idx, class_members_idx and the two
                       \* additions, by section
          id_filled,   \* id_begin and id_body are not empty
          used         \* set_of_used_automata

mainVars    == <<names, texts, id_filled, used>>
sectionVars == <<kwVars, codesVars, nsVars, commentsVars>>
vars == <<readerVars, scopeVars, pc, state, sectionVars, mainVars>>

NameSections == {"Kw_scaner_name", "Kw_codes_type", "Kw_ident_name"}
TextSections == {"Kw_token_fields", "Kw_class_members",
                 "Kw_header_additions", "Kw_impl_additions"}
Automata     == {"Id_aut", "Keyword_aut", "Delimiter_aut", "Number_aut",
                 "String_aut", "Comment_aut"}
Parts        == {"id_begin", "id_body"}
(* What the run comes to: stopped by an error, by an access outside of an  *)
(* empty expression, or ready for the generators.                          *)
Ends         == {"rejected", "crashed", "generate"}

Init ==
  /\ ReaderInit /\ ScopeInit
  /\ pc = "parse"
  /\ state = "call"
  /\ KwInit /\ CodesInit /\ NsInit /\ CommentsInit
  /\ names = [s \in NameSections \cup {"Kw_lexem_info_name"} |-> 0]
  /\ texts = [s \in TextSections |-> 0]
  /\ id_filled = {}
  /\ used = {}

-----------------------------------------------------------------------------
(* parse(): the lexeme decides who is called.                              *)
Handler(c) ==
  CASE c \in {"Comma", "Id"} -> "Kw_codes"
    [] c \in {"Opened_fig_brack", "Closed_fig_brack", "String", "Colon"} ->
         "Kw_keywords"
    [] c = "Kw_action" -> "Kw_numbers"
    [] c \in {"Kw_nested", "Kw_multilined", "Kw_single_lined"} ->
         "Kw_comments"
    [] OTHER -> c

(* The automaton whose bit parse() sets after the call.                    *)
AutomatonOf(h) ==
  CASE h = "Kw_keywords"   -> {"Keyword_aut"}
    [] h = "Kw_delimiters" -> {"Delimiter_aut"}
    [] h = "Kw_numbers"    -> {"Number_aut"}
    [] h = "Kw_strings"    -> {"String_aut"}
    [] h = "Kw_comments"   -> {"Comment_aut"}
    [] OTHER               -> {}

(* Every turn of the loop forgets both postactions.                        *)
dispatch ==
  /\ pc = "parse"
  /\ \E l \in Upcoming :
       /\ l.code \notin {"None", "Unknown"}
       /\ peek(l)
       /\ pc' = Handler(l.code)
       /\ used' = used \cup AutomatonOf(Handler(l.code))
  /\ state' = "call"
  /\ postaction' = [s \in KwSections |-> 0]
  /\ UNCHANGED <<scopeVars, repres, maybe_repres_str_idx, idx,
                 codesVars, nsVars, commentsVars,
                 names, texts, id_filled>>

(* Mutant: the unknown lexeme is given back.                               *)
skip_unknown_back ==
  /\ pc = "parse"
  /\ \E l \in Upcoming : l.code = "Unknown" /\ peek(l)
  /\ UNCHANGED <<scopeVars, pc, state, sectionVars, mainVars>>

skip_unknown ==
  /\ pc = "parse"
  /\ \E l \in Upcoming : l.code = "Unknown" /\ current_lexem(l)
  /\ UNCHANGED <<scopeVars, pc, state, sectionVars, mainVars>>

end_of_text ==
  /\ pc = "parse"
  /\ \E l \in Upcoming : l = Eof /\ current_lexem(l)
  /\ pc' = "verify"
  /\ UNCHANGED <<scopeVars, state, sectionVars, mainVars>>

(* The keyword of a section that takes one more lexeme.                    *)
keyword ==
  /\ pc \in NameSections \cup TextSections \cup {"Kw_lexem_info_name"}
  /\ state = "call"
  /\ \E l \in Upcoming : current_lexem(l)
  /\ state' = "operand"
  /\ UNCHANGED <<scopeVars, pc, sectionVars, mainVars>>

(* name_section_handling(): the name, which must be new.  The code field   *)
(* of its attributes is not initialised.                                   *)
IdKindOf(s) == CASE s = "Kw_scaner_name" -> "Scaner_name"
                 [] s = "Kw_codes_type"  -> "Codes_type_name"
                 [] s = "Kw_ident_name"  -> "Lexem_ident_name"

Give(i) ==
  /\ \E g \in Garbage :
       idsc' = [idsc EXCEPT ![i] = [kind |-> IdKindOf(pc), code |-> g]]
  /\ names' = [names EXCEPT ![pc] = i]

(* Mutant: nobody asks whether the name is new.                            *)
name_section_handling_again ==
  /\ pc \in NameSections /\ state = "operand"
  /\ \E l \in Upcoming :
       /\ l.code = "Id"
       /\ current_lexem(l)
       /\ Give(l.val)
       /\ used' = IF pc = "Kw_ident_name" THEN used \cup {"Id_aut"} ELSE used
  /\ pc' = "parse"
  /\ UNCHANGED <<erroneous, strsc, codes, last_code, state, sectionVars,
                 texts, id_filled>>

name_section_handling ==
  /\ pc \in NameSections /\ state = "operand"
  /\ \E l \in Upcoming :
       /\ l.code = "Id"
       /\ current_lexem(l)
       /\ Diagnose(Defined(idsc, l.val))
       /\ IF Defined(idsc, l.val)
          THEN UNCHANGED <<idsc, names, used>>
          ELSE /\ Give(l.val)
               /\ used' = IF pc = "Kw_ident_name" THEN used \cup {"Id_aut"}
                                                  ELSE used
  /\ pc' = "parse"
  /\ UNCHANGED <<strsc, codes, last_code, state, sectionVars, texts,
                 id_filled>>

(* set_default_name(): no name follows the keyword.  The attributes the    *)
(* default name may have already are overwritten.                          *)
set_default_name ==
  /\ pc \in NameSections /\ state = "operand"
  /\ \E l \in Upcoming : l.code # "Id" /\ peek(l)
  /\ CASE pc = "Kw_scaner_name" -> Give(builtin["Scaner"])
       [] pc = "Kw_codes_type"  -> Give(builtin["Lexem_code"])
       [] pc = "Kw_ident_name"  -> UNCHANGED <<idsc, names>>
  /\ pc' = "parse"
  /\ UNCHANGED <<erroneous, strsc, codes, last_code, state, sectionVars,
                 texts, id_filled, used>>

(* token_fields_sec(), class_members_sec() and Additions_parser: a string  *)
(* literal.  A missing one is an error to the first two only; the third    *)
(* then returns 0.                                                         *)
text_section ==
  /\ pc \in TextSections /\ state = "operand"
  /\ \E l \in Upcoming :
       \/ /\ l.code = "String"
          /\ current_lexem(l)
          /\ texts' = [texts EXCEPT ![pc] = l.val]
          /\ UNCHANGED erroneous
       \/ /\ l.code # "String"
          /\ peek(l)
          /\ IF pc \in {"Kw_token_fields", "Kw_class_members"}
             THEN Diagnose(TRUE) /\ UNCHANGED texts
             ELSE texts' = [texts EXCEPT ![pc] = 0] /\ UNCHANGED erroneous
  /\ pc' = "parse"
  /\ Stay
  /\ UNCHANGED <<state, sectionVars, names, id_filled, used>>

(* Lexem_info_name_parser: an identifier, which is not entered into idsc;  *)
(* a missing one is reported without being counted, and means 0.           *)
lexem_info_name ==
  /\ pc = "Kw_lexem_info_name" /\ state = "operand"
  /\ \E l \in Upcoming :
       \/ /\ l.code = "Id"
          /\ current_lexem(l)
          /\ names' = [names EXCEPT ![pc] = l.val]
       \/ /\ l.code # "Id"
          /\ peek(l)
          /\ names' = [names EXCEPT ![pc] = 0]
  /\ pc' = "parse"
  /\ UNCHANGED <<scopeVars, state, sectionVars, texts, id_filled, used>>

(* idents_sec(): the name of the lexeme must be known by now.              *)
idents_sec ==
  /\ pc = "Kw_idents" /\ state = "call"
  /\ \E l \in Upcoming : current_lexem(l)
  /\ Diagnose(names["Kw_ident_name"] = 0)
  /\ state' = "id_begin"
  /\ Stay
  /\ UNCHANGED <<pc, sectionVars, mainVars>>

(* Simple_regex_parser::compile, for id_begin and then for id_body.  When  *)
(* no brace opens the expression, one is diagnosed as omitted and the text *)
(* is swallowed up to a closing brace: what follows is a new lexeme.       *)
id_expression ==
  /\ pc = "Kw_idents" /\ state \in Parts
  /\ \E l \in Upcoming :
       /\ current_lexem(l)
       /\ Diagnose(l.code # "Opened_fig_brack" \/ l.val # 0)
       /\ id_filled' = IF l.code = "Opened_fig_brack"
                       THEN id_filled \cup {state} ELSE id_filled
  /\ IF state = "id_begin" THEN state' = "id_body" /\ UNCHANGED pc
                           ELSE pc' = "parse" /\ UNCHANGED state
  /\ Stay
  /\ UNCHANGED <<sectionVars, names, texts, used>>

-----------------------------------------------------------------------------
(* A section parser at work changes nothing of Main_parser's own.          *)
keywords_and_delimiters ==
  /\ KwNext
  /\ UNCHANGED <<codesVars, nsVars, commentsVars,
                 mainVars>>

codes_and_newline ==
  /\ CodesNext
  /\ UNCHANGED <<kwVars, nsVars, commentsVars, mainVars>>

numbers_and_strings ==
  /\ NsNext
  /\ UNCHANGED <<kwVars, codesVars, commentsVars, mainVars>>

comments ==
  /\ CommentsNext
  /\ UNCHANGED <<kwVars, codesVars, nsVars, mainVars>>

-----------------------------------------------------------------------------
(* verify(), as far as it is decided by what parse() left.  first_chars()  *)
(* of an empty expression reads in front of an empty vector: the program   *)
(* may die of it, or go on with whatever set of characters it found there. *)
HasAll == "Id_aut" \in used => id_filled = Parts

Hollow ==
  \/ "Number_aut" \in used /\ ~filled["Kw_numbers"]
  \/ "String_aut" \in used /\ ~filled["Kw_strings"]

(* Whether the first characters of two automata intersect, an error, is    *)
(* left open: it is a matter of characters.  With one automaton it may     *)
(* still be found, for an expression that begins with [:ndq:] or [:nsq:]   *)
(* is taken to intersect the empty set of an automaton that is not used.   *)
MayIntersect ==
  Cardinality(used) > 1 \/ used \cap {"Number_aut", "String_aut"} # {}

verify ==
  /\ pc = "verify"
  /\ \/ /\ erroneous \/ used = {} \/ ~HasAll
        /\ pc' = "rejected"
        /\ erroneous' = TRUE
     \/ /\ ~erroneous /\ MayIntersect
        /\ pc' = "rejected"
        /\ erroneous' = TRUE
     \/ /\ ~erroneous /\ Hollow
        /\ pc' = "crashed"
        /\ UNCHANGED erroneous
     \/ /\ ~erroneous /\ used # {} /\ HasAll
        /\ pc' = IF "Comment_aut" \in used THEN "add_fictive_delimiters"
                                           ELSE "generate"
        /\ UNCHANGED erroneous
  /\ state' = "single"
  /\ Stay
  /\ UNCHANGED <<readerVars, sectionVars, mainVars>>

(* add_fictive_delimiters(): each mark of a comment becomes a delimiter    *)
(* with a lexeme code of its own.  Both functions diagnose what is already *)
(* defined, and the generators run all the same.                           *)
Marks == << <<"single", "SINGLE_LINED_COMMENT_MARK", mark_of_single_lined>>,
            <<"begin", "MULTI_LINED_COMMENT_MARK", mark_of_multilined_begin>>,
            <<"end", "MULTI_LINED_COMMENT_END", mark_of_multilined_end>> >>

(* Mutant: the mark is listed though it is defined already.                *)
add_fictive_delimiter_listed(d, m) ==
  /\ Diagnose(Defined(idsc, d) \/ Defined(strsc, m))
  /\ IF Defined(idsc, d) THEN UNCHANGED <<idsc, codes, last_code>>
                         ELSE NewCode(d)
  /\ strsc' = [strsc EXCEPT ![m] =
                 [kind |-> "Delimiter_repres", code |-> idsc'[d].code]]
  /\ repres' = [repres EXCEPT !["Kw_delimiters"] = Append(@, m)]

add_fictive_delimiter(d, m) ==
  /\ Diagnose(Defined(idsc, d) \/ Defined(strsc, m))
  /\ IF Defined(idsc, d) THEN UNCHANGED <<idsc, codes, last_code>>
                         ELSE NewCode(d)
  /\ IF Defined(strsc, m)
     THEN UNCHANGED <<strsc, repres>>
     ELSE /\ strsc' = [strsc EXCEPT ![m] =
                         [kind |-> "Delimiter_repres", code |-> idsc'[d].code]]
          /\ repres' = [repres EXCEPT !["Kw_delimiters"] = Append(@, m)]

add_fictive_delimiters ==
  /\ pc = "add_fictive_delimiters"
  /\ \E n \in 1 .. 3 :
       /\ state = Marks[n][1]
       /\ IF Marks[n][3] = 0
          THEN UNCHANGED <<scopeVars, repres>>
          ELSE add_fictive_delimiter(builtin[Marks[n][2]], Marks[n][3])
       /\ IF n < 3 THEN state' = Marks[n + 1][1] /\ UNCHANGED pc
                   ELSE pc' = "generate" /\ UNCHANGED state
  /\ UNCHANGED <<readerVars, postaction, maybe_repres_str_idx, idx,
                 codesVars, nsVars, commentsVars,
                 mainVars>>

Next ==
  \/ dispatch
  \/ skip_unknown
  \/ end_of_text
  \/ keyword
  \/ name_section_handling
  \/ set_default_name
  \/ text_section
  \/ lexem_info_name
  \/ idents_sec
  \/ id_expression
  \/ keywords_and_delimiters
  \/ codes_and_newline
  \/ numbers_and_strings
  \/ comments
  \/ verify
  \/ add_fictive_delimiters

Spec     == Init /\ [][Next]_vars
FairSpec == Spec /\ WF_vars(Next)

-----------------------------------------------------------------------------
TypeOK ==
  /\ ReaderTypeOK
  /\ ScopeTypeOK
  /\ KwTypeOK
  /\ CodesTypeOK
  /\ NsTypeOK
  /\ CommentsTypeOK
  /\ names \in [NameSections \cup {"Kw_lexem_info_name"} -> IdIdxs \cup {0}]
  /\ texts \in [TextSections -> StrIdxs]
  /\ id_filled \subseteq Parts
  /\ used \subseteq Automata
  /\ pc \in Sections \cup Ends \cup
           {"parse", "verify", "add_fictive_delimiters"}

(* The enumerators are numbered without gaps and every lexeme code knows   *)
(* its place, Newline excepted: see NewlineIsEnumerated.                   *)
Numbered == NumberedBut(newline_idx)

(* The vectors of keywords and delimiters, the map of literals and the     *)
(* enumeration agree, whatever sections ran in whatever order, and after   *)
(* the delimiters for comments have been added.                            *)
TablesAgree == Registered /\ Numbered

(* The name of an action leads to the literal that defines it, and that    *)
(* literal to nothing else: no later section turns the body of an action   *)
(* into a keyword, nor a keyword into the body of an action.               *)
ActionsHaveBodies ==
  \A i \in Indices :
    idsc[i].kind = "Action_name" =>
      strsc[idsc[i].code].kind = "Action_definition"

(* A literal keeps the kind and the code it was first given, whichever     *)
(* section defines it again.                                               *)
LiteralsStay ==
  \A i \in StrIdxs : Defined(strsc, i) => strsc'[i] = strsc[i]

(* set_default_name() enters the default name i of the section at work.    *)
NamedByDefault(i) ==
  /\ li'.code # "Id"
  /\ \/ pc = "Kw_scaner_name" /\ i = builtin["Scaner"]
     \/ pc = "Kw_codes_type" /\ i = builtin["Lexem_code"]

(* KW_parser enters a new code at the number of its literal.               *)
NumberedAsLiteral(i) ==
  /\ pc \in KwSections
  /\ ~Defined(strsc, i) /\ codes' = Append(codes, i)

(* An identifier stays what it was first defined as, and an action may be  *)
(* given a new body, but for two ways to lose it: a default name is        *)
(* entered over whatever the identifier was, a lexeme code included, and a *)
(* keyword or delimiter over the identifier of the number of its literal.  *)
IdentifiersStay ==
  \A i \in Indices :
    Defined(idsc, i) /\ idsc'[i] # idsc[i] =>
      \/ idsc[i].kind = "Action_name" /\ idsc'[i].kind = "Action_name"
      \/ NamedByDefault(i)
      \/ NumberedAsLiteral(i)

FirstDefinitionStays == [][LiteralsStay /\ IdentifiersStay]_vars

(* The run ends, or it stays for ever at a lexeme no parser consumes, or   *)
(* in an expression Act_expr_parser does not come back from.               *)
Unconsumed == {"Comma", "Id", "Opened_fig_brack", "Closed_fig_brack",
               "String", "Colon", "Kw_action"}

Runaway ==
  /\ pc \in NsSections
  /\ state = "Act_expr_beg"
  /\ look = Eof \/ look.val = 2

EndsOrStuck == <>(pc \in Ends) \/ <>[](look.code \in Unconsumed \/ Runaway)

(* An error-free header of %numbers or %strings spells a path of the       *)
(* automaton of num_str_parser.h, but for repeated section keywords.       *)
HeadersFollowGrammar == NsGrammar!Spec

(* An error-free %comments section spells a word of the automaton of       *)
(* comments_parser.h: it is left in a final state only.                    *)
CommentsFollowGrammar == CommentsGrammar!Spec

-----------------------------------------------------------------------------
(* What the documents say of the program, and the program does not do.     *)

(* "codes: A vector consisting of indexes of identifiers from an           *)
(* enumeration defining lexem codes" (main_parser_data.h).                 *)
CodesAreIdentifiers ==
  pc = "generate" => \A n \in 1 .. Len(codes) : codes[n] \in IdIdxs

(* "If it is necessary that the newline character be a separate lexeme,    *)
(* [...] specify the command %newline_is_lexem" (README.md): the generated *)
(* scanner returns Newline, which must then be an enumerator.              *)
NewlineIsEnumerated ==
  pc = "generate" /\ newline_is_lexem =>
    \E n \in 1 .. Len(codes) : codes[n] = newline_idx

(* The commands "can go in any order" (README.md): the final action of the *)
(* keywords or the delimiters outlives the commands that follow.           *)
PostactionsStay ==
  [][ \A s \in KwSections :
        postaction[s] # 0 /\ pc # s => postaction'[s] = postaction[s] ]_vars
=============================================================================
