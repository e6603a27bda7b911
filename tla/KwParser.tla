------------------------------ MODULE KwParser ------------------------------
(***************************************************************************)
(* KW_parser: the parser of the %keywords and %delimiters sections.  The   *)
(* two objects, Keyword_parser and Delimiter_parser, differ only in        *)
(* settings(); one module stands for both, pc naming the object at work.   *)
(*                                                                         *)
(* compile() copies codes and last_code_val in and out.  Nobody else runs  *)
(* in between, so the parser is modelled as working on them in place.      *)
(***************************************************************************)
EXTENDS Scope

VARIABLES repres,      \* kw_repres and del_repres, by section
          postaction,  \* keyword_postaction and del_postaction
          maybe_repres_str_idx, idx

kwVars == <<repres, postaction, maybe_repres_str_idx, idx>>

KwSections == {"Kw_keywords", "Kw_delimiters"}
KwStates   == {"Maybe_repres_str", "Colon_sep0", "Maybe_code_kw_or_del",
               "Repres_str", "Code_kw_or_del", "Colon_sep",
               "Kw_del_comma_sep"}

KwTypeOK ==
  /\ repres \in [KwSections -> Seq(StrIdxs)]
  /\ postaction \in [KwSections -> StrIdxs]
  /\ maybe_repres_str_idx \in StrIdxs
  /\ idx \in StrIdxs

KwInit ==
  /\ repres = [s \in KwSections |-> << >>]
  /\ postaction = [s \in KwSections |-> 0]
  /\ maybe_repres_str_idx = 0
  /\ idx = 0

(* settings(): the kind given to the string literals of a section.         *)
KindOf(s) == IF s = "Kw_keywords" THEN "Keyword_repres" ELSE "Delimiter_repres"

(* Mutant: a literal is diagnosed as defined and defined again.            *)
add_new_string_again(i, c, bad) ==
  /\ Diagnose(bad \/ Defined(strsc, i))
  /\ IF Defined(idsc, c) THEN UNCHANGED <<idsc, codes, last_code>>
                         ELSE NewCode(i)
  /\ strsc' = [strsc EXCEPT ![i] =
                 [kind |-> KindOf(pc),
                  code |-> IF Defined(idsc, c) THEN idsc[c].code
                                               ELSE last_code + 1]]
  /\ repres' = [repres EXCEPT ![pc] = Append(@, i)]

(* Mutant: a keyword defined twice in different sections is listed in both.*)
add_new_string_listed(i, c, bad) ==
  /\ Diagnose(bad \/ Defined(strsc, i))
  /\ IF Defined(strsc, i)
     THEN UNCHANGED <<idsc, strsc, codes, last_code>>
     ELSE /\ IF Defined(idsc, c) THEN UNCHANGED <<idsc, codes, last_code>>
                                 ELSE NewCode(i)
          /\ strsc' = [strsc EXCEPT ![i] =
                         [kind |-> KindOf(pc),
                          code |-> IF Defined(idsc, c) THEN idsc[c].code
                                                       ELSE last_code + 1]]
  /\ repres' = [repres EXCEPT ![pc] = Append(@, i)]

(* add_new_string(i, c), in a step that counts an error when bad holds.    *)
(* When the identifier c is new, it is the STRING index i that is entered  *)
(* into idsc and into the enumeration.                                     *)
add_new_string(i, c, bad) ==
  /\ Diagnose(bad \/ Defined(strsc, i))
  /\ IF Defined(strsc, i)
     THEN UNCHANGED <<idsc, strsc, codes, last_code, repres>>
     ELSE /\ IF Defined(idsc, c) THEN UNCHANGED <<idsc, codes, last_code>>
                                 ELSE NewCode(i)
          /\ strsc' = [strsc EXCEPT ![i] =
                         [kind |-> KindOf(pc),
                          code |-> IF Defined(idsc, c) THEN idsc[c].code
                                                       ELSE last_code + 1]]
          /\ repres' = [repres EXCEPT ![pc] = Append(@, i)]

-----------------------------------------------------------------------------
(* The moves the state procedures are made of.  l is the lexeme read.      *)

KwAt(s) == pc \in KwSections /\ state = s

Unscoped == UNCHANGED <<idsc, strsc, codes, last_code, repres>>

(* Nothing but the state changes.                                          *)
Pass(l, next, bad) ==
  /\ current_lexem(l)
  /\ state' = next
  /\ Diagnose(bad)
  /\ Unscoped
  /\ UNCHANGED <<pc, postaction, maybe_repres_str_idx, idx>>

(* l is the string literal of the next definition.                         *)
Represent(l, bad) ==
  /\ current_lexem(l)
  /\ idx' = l.val
  /\ state' = "Repres_str"
  /\ Diagnose(bad)
  /\ Unscoped
  /\ UNCHANGED <<pc, postaction, maybe_repres_str_idx>>

(* The first literal was the final action; l is that of a definition.      *)
TakePostaction(l, bad) ==
  /\ current_lexem(l)
  /\ postaction' = [postaction EXCEPT ![pc] = maybe_repres_str_idx]
  /\ idx' = l.val
  /\ state' = "Repres_str"
  /\ Diagnose(bad)
  /\ Unscoped
  /\ UNCHANGED <<pc, maybe_repres_str_idx>>

(* The literal i gets the code named by the token.                         *)
Define(l, i, next, bad) ==
  /\ current_lexem(l)
  /\ idx' = i
  /\ add_new_string(i, Token(l).val, bad)
  /\ state' = next
  /\ UNCHANGED <<pc, postaction, maybe_repres_str_idx>>

(* Mutant: the lexeme is given back, but the loop of compile_ goes on.     *)
KwLeave_never(l) ==
  /\ l.code \notin {"String", "Colon", "Id", "Comma"}
  /\ peek(l)
  /\ UNCHANGED <<scopeVars, pc, state, kwVars>>

(* Any other lexeme ends the section, whatever the state.                  *)
KwLeave(l) ==
  /\ l.code \notin {"String", "Colon", "Id", "Comma"}
  /\ peek(l)
  /\ pc' = "parse"
  /\ UNCHANGED <<scopeVars, state, kwVars>>

-----------------------------------------------------------------------------
(* compile_(): the keyword of the section, or return.  (What a refused     *)
(* section returns as postaction is thrown away: the lexeme stays, so      *)
(* Main_parser::parse sets both postactions to 0 and calls again.)         *)
kw_compile_ ==
  /\ KwAt("call")
  /\ \E l \in Upcoming :
       \/ /\ l.code = pc
          /\ current_lexem(l)
          /\ state' = "Maybe_repres_str"
          /\ maybe_repres_str_idx' = 0
          /\ idx' = 0
          /\ postaction' = [postaction EXCEPT ![pc] = 0]
          /\ UNCHANGED <<scopeVars, pc, repres>>
       \/ /\ l.code # pc
          /\ peek(l)
          /\ pc' = "parse"
          /\ UNCHANGED <<scopeVars, state, kwVars>>

(* Mutant: the first literal is not remembered.                            *)
maybe_repres_str_proc_unset ==
  /\ KwAt("Maybe_repres_str")
  /\ \E l \in Upcoming :
       \/ /\ l.code = "String"
          /\ current_lexem(l)
          /\ state' = "Colon_sep0"
          /\ UNCHANGED <<scopeVars, pc, kwVars>>
       \/ l.code = "Colon" /\ Pass(l, "Maybe_code_kw_or_del", TRUE)
       \/ l.code = "Id"    /\ Define(l, maybe_repres_str_idx,
                                     "Code_kw_or_del", TRUE)
       \/ l.code = "Comma" /\ Pass(l, "Kw_del_comma_sep", TRUE)
       \/ KwLeave(l)

maybe_repres_str_proc ==
  /\ KwAt("Maybe_repres_str")
  /\ \E l \in Upcoming :
       \/ /\ l.code = "String"
          /\ current_lexem(l)
          /\ maybe_repres_str_idx' = l.val
          /\ state' = "Colon_sep0"
          /\ UNCHANGED <<scopeVars, pc, repres, postaction, idx>>
       \/ l.code = "Colon" /\ Pass(l, "Maybe_code_kw_or_del", TRUE)
       \/ l.code = "Id"    /\ Define(l, maybe_repres_str_idx,
                                     "Code_kw_or_del", TRUE)
       \/ l.code = "Comma" /\ Pass(l, "Kw_del_comma_sep", TRUE)
       \/ KwLeave(l)

colon_sep0_proc ==
  /\ KwAt("Colon_sep0")
  /\ \E l \in Upcoming :
       \/ l.code = "Colon"  /\ Pass(l, "Maybe_code_kw_or_del", FALSE)
       \/ l.code = "Id"     /\ Define(l, maybe_repres_str_idx,
                                      "Code_kw_or_del", TRUE)
       \/ l.code = "String" /\ TakePostaction(l, TRUE)
       \/ l.code = "Comma"  /\ Define(l, maybe_repres_str_idx,
                                      "Kw_del_comma_sep", TRUE)
       \/ KwLeave(l)

maybe_code_kw_or_del_proc ==
  /\ KwAt("Maybe_code_kw_or_del")
  /\ \E l \in Upcoming :
       \/ l.code = "Id"     /\ Define(l, maybe_repres_str_idx,
                                      "Code_kw_or_del", FALSE)
       \/ l.code = "String" /\ TakePostaction(l, FALSE)
       \/ /\ l.code = "Colon"
          /\ current_lexem(l)
          /\ idx' = maybe_repres_str_idx
          /\ state' = "Colon_sep"
          /\ Diagnose(TRUE)
          /\ Unscoped
          /\ UNCHANGED <<pc, postaction, maybe_repres_str_idx>>
       \/ l.code = "Comma"  /\ Pass(l, "Kw_del_comma_sep", TRUE)
       \/ KwLeave(l)

(* Mutant: a missing colon is not counted as an error.                     *)
repres_str_proc_lenient ==
  /\ KwAt("Repres_str")
  /\ \E l \in Upcoming :
       \/ l.code = "Colon"  /\ Pass(l, "Colon_sep", FALSE)
       \/ l.code = "Id"     /\ Define(l, idx, "Code_kw_or_del", FALSE)
       \/ l.code = "String" /\ Represent(l, TRUE)
       \/ l.code = "Comma"  /\ Pass(l, "Kw_del_comma_sep", TRUE)
       \/ KwLeave(l)

repres_str_proc ==
  /\ KwAt("Repres_str")
  /\ \E l \in Upcoming :
       \/ l.code = "Colon"  /\ Pass(l, "Colon_sep", FALSE)
       \/ l.code = "Id"     /\ Define(l, idx, "Code_kw_or_del", TRUE)
       \/ l.code = "String" /\ Represent(l, TRUE)
       \/ l.code = "Comma"  /\ Pass(l, "Kw_del_comma_sep", TRUE)
       \/ KwLeave(l)

code_kw_or_del_proc ==
  /\ KwAt("Code_kw_or_del")
  /\ \E l \in Upcoming :
       \/ l.code = "Comma"  /\ Pass(l, "Kw_del_comma_sep", FALSE)
       \/ l.code = "String" /\ Represent(l, TRUE)
       \/ l.code = "Id"     /\ Define(l, idx, "Code_kw_or_del", TRUE)
       \/ l.code = "Colon"  /\ Pass(l, "Colon_sep", TRUE)
       \/ KwLeave(l)

colon_sep_proc ==
  /\ KwAt("Colon_sep")
  /\ \E l \in Upcoming :
       \/ l.code = "Id"     /\ Define(l, idx, "Code_kw_or_del", FALSE)
       \/ l.code = "String" /\ Represent(l, TRUE)
       \/ l.code = "Colon"  /\ Pass(l, "Colon_sep", TRUE)
       \/ l.code = "Comma"  /\ Pass(l, "Kw_del_comma_sep", TRUE)
       \/ KwLeave(l)

kw_del_comma_sep_proc ==
  /\ KwAt("Kw_del_comma_sep")
  /\ \E l \in Upcoming :
       \/ l.code = "String" /\ Represent(l, FALSE)
       \/ l.code = "Colon"  /\ Pass(l, "Colon_sep", TRUE)
       \/ l.code = "Id"     /\ Define(l, idx, "Code_kw_or_del", TRUE)
       \/ l.code = "Comma"  /\ Pass(l, "Kw_del_comma_sep", TRUE)
       \/ KwLeave(l)

(* One step of the parser at work.                                         *)
KwNext ==
  \/ kw_compile_
  \/ maybe_repres_str_proc
  \/ colon_sep0_proc
  \/ maybe_code_kw_or_del_proc
  \/ repres_str_proc
  \/ code_kw_or_del_proc
  \/ colon_sep_proc
  \/ kw_del_comma_sep_proc

-----------------------------------------------------------------------------
(***************************************************************************)
(* Every literal of kw_repres (del_repres) is in strsc as a keyword (a     *)
(* delimiter), once, and every keyword (delimiter) of strsc is there: the  *)
(* vector the tables are generated from and the map that gives the codes   *)
(* never part, however the sections are cut, repeated or mixed.            *)
(***************************************************************************)
Listed ==
  \A s \in KwSections : \A n \in 1 .. Len(repres[s]) :
    strsc[repres[s][n]].kind = KindOf(s)

Once ==
  \A s \in KwSections : \A m, n \in 1 .. Len(repres[s]) :
    repres[s][m] = repres[s][n] => m = n

NoneLost ==
  \A s \in KwSections : \A i \in StrIdxs :
    strsc[i].kind = KindOf(s) =>
      \E n \in 1 .. Len(repres[s]) : repres[s][n] = i

Registered == Listed /\ Once /\ NoneLost

(***************************************************************************)
(* When a comma is met in Colon_sep0, where the identifier is missing,     *)
(* add_new_string is called with li.ident_index all the same.  The union   *)
(* then holds the number of the literal read just before, never what was   *)
(* in it when the program started.                                         *)
(***************************************************************************)
StaleIsLiteral == KwAt("Colon_sep0") => li.val = maybe_repres_str_idx

(***************************************************************************)
(* The automaton (ab)?abc(dabc)* of keyword_delimiter_parser.h.  An        *)
(* error-free section spells a path of it, and may be left anywhere.       *)
(***************************************************************************)
KwMoves ==
  { <<"Maybe_repres_str",     "String", "Colon_sep0">>,
    <<"Colon_sep0",           "Colon",  "Maybe_code_kw_or_del">>,
    <<"Maybe_code_kw_or_del", "String", "Repres_str">>,
    <<"Maybe_code_kw_or_del", "Id",     "Code_kw_or_del">>,
    <<"Repres_str",           "Colon",  "Colon_sep">>,
    <<"Code_kw_or_del",       "Comma",  "Kw_del_comma_sep">>,
    <<"Colon_sep",            "Id",     "Code_kw_or_del">>,
    <<"Kw_del_comma_sep",     "String", "Repres_str">> }

KwPlace == IF erroneous THEN "diagnosed"
         ELSE IF pc \in KwSections /\ state # "call" THEN state
         ELSE "outside"

KwGrammar == INSTANCE SectionGrammar
             WITH Moves <- KwMoves, Start <- "Maybe_repres_str",
                  Stops <- KwStates, place <- KwPlace, code <- li.code
=============================================================================
