-------------------------------- MODULE Scope --------------------------------
(***************************************************************************)
(* What the section parsers share besides the text: the Scope (attributes  *)
(* of identifiers and of string literals), the enumeration of lexeme codes *)
(* with its last value, and the error counter, of which the program only   *)
(* ever asks whether it is zero.  The control is shared as well: the       *)
(* program is sequential and one parser is at work at a time.              *)
(*                                                                         *)
(* Both tries number their strings from the same small naturals, so one    *)
(* number may be an identifier and a string literal: idsc is therefore     *)
(* defined on all Indices, as the std::map<size_t, ...> is.                *)
(***************************************************************************)
EXTENDS Reader, Sequences

CONSTANTS builtin,     \* indices of the identifiers the program itself inserts
          write_body   \* and of the body of its one action

VARIABLES erroneous,   \* get_number_of_errors() # 0
          idsc,        \* Scope::idsc
          strsc,       \* Scope::strsc
          codes,       \* Main_parser_data::codes, the enumerators in order
          last_code,   \* Main_parser_data::last_code_val
          pc,          \* who is at work: "parse" is Main_parser::parse, a
                       \* section keyword the parser of that section
          state        \* the state of the parser at work; "call" before it
                       \* has read the keyword of its section

scopeVars == <<erroneous, idsc, strsc, codes, last_code>>

(* Spelling decides the index: different names, different indices.         *)
BuiltinNames == {"None", "Unknown", "write", "Newline", "Scaner",
                 "Lexem_code", "SINGLE_LINED_COMMENT_MARK",
                 "MULTI_LINED_COMMENT_MARK", "MULTI_LINED_COMMENT_END"}

ASSUME ScopeAssumption ==
  /\ builtin \in [BuiltinNames -> Nat \ {0}]
  /\ \A m, n \in BuiltinNames : builtin[m] = builtin[n] => m = n
  /\ write_body \in Nat \ {0}

StrIdxs == Strs \cup {0, write_body}
IdIdxs  == Ids \cup {builtin[n] : n \in BuiltinNames}
Indices == IdIdxs \cup StrIdxs

IdKinds == {"Scaner_name", "Codes_type_name", "Lexem_ident_name",
            "Code_of_lexem", "Action_name"}
StrKinds == {"Keyword_repres", "Delimiter_repres", "Action_definition"}

(* An absent key of a map is an attribute of kind "absent".  The field     *)
(* code is the union of Id_attributes: for an action it is act_string.     *)
Absent  == [kind |-> "absent", code |-> 0]
IdAttr  == [kind : IdKinds, code : Nat] \cup {Absent}
StrAttr == [kind : StrKinds, code : Nat] \cup {Absent}

Defined(scope, i) == scope[i] # Absent

ScopeTypeOK ==
  /\ erroneous \in BOOLEAN
  /\ idsc \in [Indices -> IdAttr]
  /\ strsc \in [StrIdxs -> StrAttr]
  /\ codes \in Seq(Indices)
  /\ last_code \in Nat

(* Main_parser_data(): None and Unknown are lexeme codes, write is an      *)
(* action.                                                                 *)
ScopeInit ==
  /\ erroneous = FALSE
  /\ idsc = [i \in Indices |->
       CASE i = builtin["None"]    -> [kind |-> "Code_of_lexem", code |-> 0]
         [] i = builtin["Unknown"] -> [kind |-> "Code_of_lexem", code |-> 1]
         [] i = builtin["write"]   -> [kind |-> "Action_name",
                                       code |-> write_body]
         [] OTHER                  -> Absent]
  /\ strsc = [s \in StrIdxs |->
       IF s = write_body THEN [kind |-> "Action_definition", code |-> 0]
                         ELSE Absent]
  /\ codes = <<builtin["None"], builtin["Unknown"]>>
  /\ last_code = 1

(* A step that leaves the scope and the enumeration alone.               *)
Stay == UNCHANGED <<idsc, strsc, codes, last_code>>

(* The error counter after a step that counts an error when bad holds.     *)
Diagnose(bad) == erroneous' = (erroneous \/ bad)

(* Mutant: codes.push_back(i) is forgotten.                                *)
NewCode_unlisted(i) ==
  /\ idsc' = [idsc EXCEPT ![i] =
                [kind |-> "Code_of_lexem", code |-> last_code + 1]]
  /\ last_code' = last_code + 1
  /\ UNCHANGED codes

(* idsc[i] = {Code_of_lexem, ++last_code_val}; codes.push_back(i).         *)
NewCode(i) ==
  /\ idsc' = [idsc EXCEPT ![i] =
                [kind |-> "Code_of_lexem", code |-> last_code + 1]]
  /\ codes' = Append(codes, i)
  /\ last_code' = last_code + 1

(* add_new_lexem_code(i), in a step that counts an error when bad holds.   *)
add_new_lexem_code(i, bad) ==
  /\ Diagnose(bad \/ Defined(idsc, i))
  /\ IF Defined(idsc, i) THEN UNCHANGED <<idsc, codes, last_code>>
                         ELSE NewCode(i)
  /\ UNCHANGED strsc

(***************************************************************************)
(* The enumeration is numbered without gaps, and the code stored with an   *)
(* identifier is its position in it; j is not asked.                       *)
(***************************************************************************)
NumberedBut(j) ==
  /\ Len(codes) = last_code + 1
  /\ \A i \in Indices \ {j} :
       idsc[i].kind = "Code_of_lexem" =>
         /\ idsc[i].code <= last_code
         /\ codes[idsc[i].code + 1] = i
=============================================================================
