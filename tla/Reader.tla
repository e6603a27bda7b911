------------------------------- MODULE Reader -------------------------------
(***************************************************************************)
(* The stream of lexemes every section parser shares: Main_scaner          *)
(* (current_lexem, back and the token it returns) over one Location.       *)
(*                                                                         *)
(* The text is not fixed in advance: a lexeme is chosen when it is first   *)
(* read, so one behaviour stands for one text and TLC explores every text  *)
(* of at most MaxLexems lexemes over Alphabet.  The end of the text is a   *)
(* lexeme, None, which current_lexem returns again and again.              *)
(*                                                                         *)
(* A braced expression is ONE lexeme, Opened_fig_brack: only the           *)
(* expression parsers read past the brace.  Its value says what such a     *)
(* parser makes of it: see Outcomes.                                       *)
(***************************************************************************)
EXTENDS Naturals

CONSTANTS Ids,        \* indices in the identifier trie the text may mention
          Strs,       \* indices in the string literal trie the text may mention
          Garbage,    \* what an uninitialised size_t may hold
          Alphabet,   \* the codes of the lexemes the text is made of
          MaxLexems   \* bound: the length of the text

VARIABLES look,       \* the lexeme given back by back(), or NoLexem
          fed,        \* how many lexemes of the text have been met
          li          \* the token of the scanner, as the last reader saw it

readerVars == <<look, fed, li>>

Sections == {"Kw_class_members", "Kw_codes", "Kw_codes_type", "Kw_comments",
             "Kw_delimiters", "Kw_ident_name", "Kw_idents", "Kw_keywords",
             "Kw_newline_is_lexem", "Kw_numbers", "Kw_scaner_name",
             "Kw_strings", "Kw_token_fields", "Kw_header_additions",
             "Kw_impl_additions", "Kw_lexem_info_name"}

LexemCodes == Sections \cup
              {"None", "Unknown", "Id", "String", "Comma", "Colon",
               "Opened_fig_brack", "Closed_fig_brack", "Kw_action",
               "Kw_multilined", "Kw_nested", "Kw_single_lined"}

(* What Act_expr_parser or Simple_regex_parser makes of a braced group:    *)
(* 0 accepted, 1 diagnosed and passed over, 2 Act_expr_parser never comes  *)
(* back from it.                                                           *)
Outcomes == 0 .. 2

(* The index 0 is the root of a trie, the empty string: no identifier, but *)
(* a literal, as good as none to whoever asks whether there is one.        *)
ASSUME ReaderAssumption ==
  /\ Ids \subseteq Nat \ {0}
  /\ Strs \subseteq Nat /\ Garbage \subseteq Nat
  /\ Garbage # {}
  /\ Alphabet \subseteq LexemCodes \ {"None"}
  /\ MaxLexems \in Nat

Lexems == [code : {"Id"}, val : Ids]
          \cup [code : {"String"}, val : Strs]
          \cup [code : {"Opened_fig_brack"}, val : Outcomes]
          \cup [code : LexemCodes \ {"Id", "String", "Opened_fig_brack"},
                val : {0}]

NoLexem == [code |-> "no lexeme", val |-> 0]
Eof     == [code |-> "None", val |-> 0]

ReaderTypeOK ==
  /\ look \in Lexems \cup {NoLexem}
  /\ fed \in 0 .. MaxLexems
  /\ li \in [code : LexemCodes, val : Ids \cup Strs \cup Garbage]

(* The scanner is built at the beginning of the text; its token is not     *)
(* initialised.                                                            *)
ReaderInit ==
  /\ look = NoLexem
  /\ fed = 0
  /\ li \in [code : {"None"}, val : Garbage]

(* The lexemes the next call of current_lexem may return.                  *)
Upcoming ==
  IF look # NoLexem THEN {look}
  ELSE {Eof} \cup {l \in Lexems : l.code \in Alphabet /\ fed < MaxLexems}

(* The value of the token is a union that only identifiers and string      *)
(* literals write: after any other lexeme it is the value of an earlier    *)
(* one.                                                                    *)
Token(l) ==
  [code |-> l.code,
   val  |-> IF l.code \in {"Id", "String"} THEN l.val ELSE li.val]

(* Mutant: the end of the text counts as one more lexeme.                  *)
Meet_past_end(l) ==
  /\ l \in Upcoming
  /\ li' = Token(l)
  /\ fed' = IF look = NoLexem THEN fed + 1 ELSE fed

Meet(l) ==
  /\ l \in Upcoming
  /\ li' = Token(l)
  /\ fed' = IF look = NoLexem /\ l # Eof THEN fed + 1 ELSE fed

(* current_lexem(): l is read.  The end of the text is never passed.       *)
current_lexem(l) ==
  /\ Meet(l)
  /\ look' = IF l = Eof THEN Eof ELSE NoLexem

(* l = current_lexem(); back(): l is looked at and stays the next lexeme.  *)
peek(l) ==
  /\ Meet(l)
  /\ look' = l
=============================================================================
