-------------------------- MODULE SimpleRegexParser --------------------------
(***************************************************************************)
(* Simple_regex_parser: the two expressions of %idents, the beginning of   *)
(* an identifier and its body: alternatives of characters and classes side *)
(* by side.  The text is chosen as it is read; a lexeme given back (back)  *)
(* is the next one read.                                                   *)
(***************************************************************************)
EXTENDS Commands

CONSTANTS IdLetters, \* the characters and classes of the texts, as commands
          MaxText,   \* bound: how many lexemes an expression has
          MaxFailed  \* bound: how many it has once an error is counted

ASSUME SrpAssumption ==
  IdLetters \subseteq {Char_def(c) : c \in Chars}
                        \cup {Char_class_def(cls) : cls \in Classes}

VARIABLES part,   \* whose turn it is: id_begin, id_body, or neither any more
          sp,     \* the fields of the parser
          bufs,   \* the commands of the two expressions
          texts,  \* history: the lexemes of the two expressions
          look,   \* the lexeme given back, or NoLexem
          failed  \* an error has been counted

srpVars == <<part, sp, bufs, texts, look, failed>>

Parts == {"id_begin", "id_body"}

(* A letter has the command it is compiled into.                           *)
Lexem(code) == [code |-> code, com |-> Command("none")]
Letter(com) == [code |-> "letter", com |-> com]

NoLexem  == Lexem("no lexeme")
Eof      == Lexem("None")
Begin    == Lexem("Begin_expression")
End      == Lexem("End_expression")
Bar      == Lexem("Or")
Another  == Lexem("another")
Lexems   == {Letter(com) : com \in IdLetters} \cup {Begin, End, Bar, Another}
IsLetter(l) == l.code = "letter"
Allowed(l)  == l.com.cls \notin QuoteClasses

Start == [state |-> "State_begin_expr", number_of_ors |-> 0,
          first_concatenated |-> 0, number_of_concatenated |-> 0,
          arg1 |-> 0]

SrpInit ==
  /\ part \in {"id_begin", "parsed"}
  /\ sp = Start
  /\ bufs = [p \in Parts |-> <<>>]
  /\ texts = [p \in Parts |-> <<>>]
  /\ look = NoLexem
  /\ failed = FALSE

-----------------------------------------------------------------------------
Reading(state) == part \in Parts /\ sp.state = state

Upcoming ==
  IF look # NoLexem THEN {look}
  ELSE {Eof} \cup {l \in Lexems : Len(texts[part]) <
                                    IF failed THEN MaxFailed ELSE MaxText}

current_lexem(l) ==
  texts' = IF look # NoLexem \/ l = Eof THEN texts
           ELSE [texts EXCEPT ![part] = Append(@, l)]

(* compile() of this expression returns, and the next one begins.          *)
Return ==
  /\ part' = IF part = "id_begin" THEN "id_body" ELSE "parsed"
  /\ sp' = Start

(* Mutant: the last character is left out of the concatenation.            *)
write_concatenated_short(b) ==
  IF sp.number_of_concatenated > 1
  THEN Append(b, [Command("multiconcat") EXCEPT
                    !.first = sp.first_concatenated, !.second = Len(b) - 1])
  ELSE b

write_concatenated(b) ==
  IF sp.number_of_concatenated > 1
  THEN Append(b, [Command("multiconcat") EXCEPT
                    !.first = sp.first_concatenated, !.second = Len(b)])
  ELSE b

write_or_command(b) ==
  IF sp.number_of_ors = 0 THEN b
  ELSE Append(b, [Command("or") EXCEPT !.first = sp.arg1, !.second = Len(b)])

(* The commands of an alternative that ends here.                          *)
Alternative == write_or_command(write_concatenated(bufs[part]))

state_begin_expr_proc ==
  /\ Reading("State_begin_expr")
  /\ \E l \in Upcoming \ {Eof} :
       /\ current_lexem(l)
       /\ look' = IF IsLetter(l) THEN l ELSE NoLexem
       /\ failed' = (failed \/ l # Begin)
       /\ IF l = End THEN Return
          ELSE /\ sp' = [sp EXCEPT !.state = "State_begin_concat"]
               /\ UNCHANGED part
  /\ UNCHANGED bufs

(* Mutant: an empty alternative may end the expression.                    *)
no_alternative_lax(l) == IF IsLetter(l) THEN ~Allowed(l) ELSE l # End

(* An alternative that is empty, or begins with a class of quotes.         *)
no_alternative(l) == ~(IsLetter(l) /\ Allowed(l))

state_begin_concat_proc ==
  /\ Reading("State_begin_concat")
  /\ \E l \in Upcoming \ {Eof} :
       /\ current_lexem(l)
       /\ failed' = (failed \/ no_alternative(l))
       /\ IF IsLetter(l)
          THEN LET b == Append(bufs[part], l.com)
               IN /\ bufs' = [bufs EXCEPT ![part] = b]
                  /\ sp' = [sp EXCEPT !.state = "State_concat",
                                      !.first_concatenated = Len(b),
                                      !.number_of_concatenated = 1]
                  /\ UNCHANGED part
          ELSE /\ IF l = End THEN Return ELSE UNCHANGED <<part, sp>>
               /\ UNCHANGED bufs
  /\ look' = NoLexem

state_concat_proc ==
  /\ Reading("State_concat")
  /\ \E l \in Upcoming \ {Eof} :
       /\ current_lexem(l)
       /\ failed' = (failed \/ ~(l \in {Bar, End} \/ (IsLetter(l) /\ Allowed(l))))
       /\ CASE IsLetter(l) ->
                 /\ bufs' = [bufs EXCEPT ![part] = Append(@, l.com)]
                 /\ sp' = [sp EXCEPT !.number_of_concatenated = @ + 1]
                 /\ UNCHANGED part
            [] l = Bar ->
                 /\ bufs' = [bufs EXCEPT ![part] = Alternative]
                 /\ sp' = [sp EXCEPT !.state = "State_begin_concat",
                                     !.number_of_ors = @ + 1,
                                     !.number_of_concatenated = 0,
                                     !.arg1 = Len(Alternative)]
                 /\ UNCHANGED part
            [] l = End -> bufs' = [bufs EXCEPT ![part] = Alternative] /\ Return
            [] OTHER -> UNCHANGED <<bufs, sp, part>>
  /\ look' = NoLexem

(* The text ends before the expression does.                               *)
run_out ==
  /\ part \in Parts
  /\ Eof \in Upcoming
  /\ current_lexem(Eof)
  /\ bufs' = IF sp.state = "State_begin_expr" THEN bufs
             ELSE [bufs EXCEPT ![part] = Alternative]
  /\ look' = Eof
  /\ failed' = TRUE
  /\ Return

SrpNext ==
  \/ state_begin_expr_proc
  \/ state_begin_concat_proc
  \/ state_concat_proc
  \/ run_out

-----------------------------------------------------------------------------
(* The reference: the alternatives of a text, read off its lexemes.        *)

(* The pieces of a text between its braces and bars.                       *)
Pieces(text) ==
  LET marks == {i \in DOMAIN text : text[i] \in {Begin, Bar, End}}
      Adjacent(i, j) == i < j /\ \A k \in marks : k <= i \/ k >= j
  IN {SubSeq(text, ij[1] + 1, ij[2] - 1) :
        ij \in {p \in marks \X marks : Adjacent(p[1], p[2])}}

(* Alternatives of one or more letters each, but no class of quotes.       *)
WellFormed(text) ==
  /\ Len(text) >= 2 /\ text[1] = Begin /\ text[Len(text)] = End
  /\ \A i \in 2 .. Len(text) - 1 : text[i] \notin {Begin, End}
  /\ \A piece \in Pieces(text) :
       /\ piece # <<>>
       /\ \A k \in DOMAIN piece : IsLetter(piece[k]) /\ Allowed(piece[k])

(* The strings of characters a text stands for.                            *)
Described(text) ==
  UNION {{s \in [DOMAIN piece -> Chars] :
            \A k \in DOMAIN piece : s[k] \in Letters(unwrap(piece[k].com))} :
         piece \in Pieces(text)}
=============================================================================
