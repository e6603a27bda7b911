----------------------------- MODULE KwSections -----------------------------
(***************************************************************************)
(* The %keywords and %delimiters sections at work: KwParser under the part *)
(* of Main_parser::parse that calls it, with %codes sections reduced to    *)
(* what they do to the scope.  MainParser puts the same parser under the   *)
(* whole of parse.                                                         *)
(***************************************************************************)
EXTENDS KwParser

vars == <<readerVars, scopeVars, pc, state, kwVars>>

Init ==
  /\ ReaderInit /\ ScopeInit /\ KwInit
  /\ pc = "parse"
  /\ state = "call"

(* One turn of the loop of Main_parser::parse that ends in a call of one   *)
(* of the two parsers.  Stray literals and colons go to the keywords.      *)
dispatch ==
  /\ pc = "parse"
  /\ \E l \in Upcoming :
       /\ l.code \in KwSections \cup {"String", "Colon"}
       /\ peek(l)
       /\ pc' = IF l.code = "Kw_delimiters" THEN l.code ELSE "Kw_keywords"
       /\ state' = "call"
  /\ postaction' = [s \in KwSections |-> 0]
  /\ UNCHANGED <<scopeVars, repres, maybe_repres_str_idx, idx>>

(* A %codes section: an identifier becomes a lexeme code, or is diagnosed  *)
(* because it has attributes already.  A stray identifier or comma also    *)
(* goes to the codes, which only complain.                                 *)
codes_sec ==
  /\ pc = "parse"
  /\ \E l \in Upcoming :
       \/ /\ l.code = "Kw_codes"
          /\ current_lexem(l)
          /\ \E i \in Ids : add_new_lexem_code(i, FALSE)
       \/ /\ l.code \in {"Id", "Comma"}
          /\ peek(l)
          /\ Diagnose(TRUE)
          /\ UNCHANGED <<idsc, strsc, codes, last_code>>
  /\ postaction' = [s \in KwSections |-> 0]
  /\ UNCHANGED <<pc, state, repres, maybe_repres_str_idx, idx>>

(* The end of the text ends the loop.                                      *)
finish ==
  /\ pc = "parse"
  /\ \E l \in Upcoming : l = Eof /\ current_lexem(l)
  /\ pc' = "end"
  /\ UNCHANGED <<scopeVars, state, kwVars>>

Next == dispatch \/ codes_sec \/ finish \/ KwNext

Spec     == Init /\ [][Next]_vars
FairSpec == Spec /\ WF_vars(Next)

-----------------------------------------------------------------------------
TypeOK ==
  /\ ReaderTypeOK
  /\ ScopeTypeOK
  /\ KwTypeOK
  /\ pc \in {"parse", "end"} \cup KwSections
  /\ state \in {"call"} \cup KwStates

(***************************************************************************)
(* The enumeration is numbered without gaps, and the code stored with an   *)
(* identifier is the position of that identifier in it.                    *)
(***************************************************************************)
Numbered ==
  /\ Len(codes) = last_code + 1
  /\ \A i \in Indices :
       idsc[i].kind = "Code_of_lexem" =>
         /\ idsc[i].code <= last_code
         /\ codes[idsc[i].code + 1] = i

(***************************************************************************)
(* A literal keeps the kind and the code it was first given: a second      *)
(* definition, in this section or another, is diagnosed and changes        *)
(* nothing of the first.                                                   *)
(***************************************************************************)
FirstDefinitionStays ==
  [][ /\ \A i \in StrIdxs : Defined(strsc, i) => strsc'[i] = strsc[i]
      /\ \A s \in KwSections : Len(repres'[s]) >= Len(repres[s]) ]_vars

(***************************************************************************)
(* An error-free section spells a path of the automaton of the header.     *)
(***************************************************************************)
FollowsGrammar == KwGrammar!Spec

(***************************************************************************)
(* A section is always left, on every text.                                *)
(***************************************************************************)
SectionsEnd == pc \in KwSections ~> pc \notin KwSections
=============================================================================
