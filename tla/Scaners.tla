-------------------------------- MODULE Scaners --------------------------------
(***************************************************************************)
(* The characters of a description: Main_scaner and Expr_scaner, two       *)
(* automata of automata that read one text from one place, the Location.   *)
(* A parser calls current_lexem of either, and may give back what it read  *)
(* last; the scanners know nothing of each other.                          *)
(*                                                                         *)
(* One step is one turn of the loop of current_lexem, or what a parser     *)
(* does between two lexemes.  A character is chosen when it is first read. *)
(* An index of a trie is the string itself; the value of a token, a union, *)
(* is forgotten when the next lexeme begins (Reader keeps it).             *)
(***************************************************************************)
EXTENDS Naturals, SequencesExt

CONSTANTS Chars,     \* the characters of the text
          Keywords,  \* the words of a_keyword_jump_table, after the percent
          Names,     \* those of a_classes_jump_table, after [:
          MaxText,   \* bound on the length of the text
          MaxLine    \* bound: where lines are not counted again by back()

Nul    == "zero"
Spaces == {"\n", " "}
Quote  == "\""

(* The words are of letters, _, : and ], and no name begins with a colon.  *)
ASSUME ScanersAssumption ==
  /\ Chars \subseteq STRING /\ Nul \notin Chars
  /\ \A w \in Keywords \cup Names :
       w \in Seq(Chars \ Spaces) /\ w # <<>>
  /\ \A w \in Names : w[1] # ":"
  /\ MaxText \in Nat /\ MaxLine \in Nat

VARIABLES text, pcurrent_char, current_line,      \* the text, the Location
          pc,               \* "reading", "over" or "back": the last lexeme
          scaner,           \* whose lexeme that is
          automaton, state, token, buffer,        \* of that scanner
          lexem_begin, lexem_begin_line,          \* of each of them
          counted,          \* the number of errors was incremented
          outside,          \* a table was read at no index of it
          given             \* history: the lexeme that was given back

locVars  == <<text, pcurrent_char, current_line>>
autVars  == <<automaton, state, token, buffer, counted, outside>>
begVars  == <<lexem_begin, lexem_begin_line>>
vars == <<locVars, pc, scaner, autVars, begVars, given>>

Both    == {"Main", "Expr"}
Initial == <<>>        \* the state -1: no character of the word is read
Nobody  == [scaner |-> "nobody", token |-> [code |-> "None", val |-> <<>>],
            next |-> 0]

-----------------------------------------------------------------------------
(* The categories of characters; every category table, cut to the          *)
(* characters that differ.                                                 *)

Letters    == {"n", "e"}
Body       == Letters \cup {"0"}
Delimiters == [s \in Both |-> IF s = "Main" THEN {",", ":", "{", "}"}
                              ELSE {"{", "}", "(", ")", "|", "*", "+", "?"}]
Other      == Chars \ (Spaces \cup Body \cup Delimiters["Main"] \cup {"%", Quote})
After_backslash == Delimiters["Expr"] \cup {"$", "\\", "[", "]", "n"}

(* A row of a jump table stands for a beginning of a word; the init table  *)
(* leads to the rows of the first characters, which make a category.       *)
IsRow(words, st) == st # Initial /\ \E w \in words : IsPrefix(st, w)
Row(words, st) ==
  [whole   |-> st \in words,
   meant   |-> IF st \in words THEN st
               ELSE CHOOSE w \in words : IsPrefix(st, w),
   symbols |-> {c \in Chars : IsRow(words, Append(st, c))}]
First_chars(words) == {w[1] : w \in words}

-----------------------------------------------------------------------------
(* current_lexem.                                                          *)

Token(code, val) == [code |-> code, val |-> val]
None == Token("None", <<>>)

Init ==
  /\ text = <<>> /\ pcurrent_char = 1 /\ current_line = 1
  /\ pc = "over" /\ scaner = "nobody"
  /\ automaton = "A_start" /\ state = Initial /\ token = None /\ buffer = <<>>
  /\ lexem_begin = [s \in Both |-> 1] /\ lexem_begin_line = [s \in Both |-> 1]
  /\ counted = FALSE /\ outside = FALSE
  /\ given = Nobody

current_lexem(s) ==
  /\ pc # "reading"
  /\ pc' = "reading" /\ scaner' = s
  /\ automaton' = "A_start" /\ state' = Initial /\ token' = None
  /\ buffer' = <<>> /\ counted' = FALSE /\ outside' = FALSE
  /\ lexem_begin' = [lexem_begin EXCEPT ![s] = pcurrent_char]
  /\ given' = IF pc = "back" /\ scaner = s THEN given ELSE Nobody
  /\ UNCHANGED <<locVars, lexem_begin_line>>

(* ch = the next character: it is in the text, or it is chosen now.        *)
Reads(c) ==
  /\ pc = "reading"
  /\ IF pcurrent_char <= Len(text)
     THEN c = text[pcurrent_char] /\ UNCHANGED text
     ELSE /\ c \in IF Len(text) < MaxText THEN Chars \cup {Nul} ELSE {Nul}
          /\ text' = Append(text, c)

In(s, a) == scaner = s /\ automaton = a

(* The character belongs to the lexeme, and the lexeme goes on.            *)
More == pcurrent_char' = pcurrent_char + 1 /\ UNCHANGED pc

(* The character is read once more, by the automaton that is set.          *)
Same == UNCHANGED <<pcurrent_char, pc>>

(* The lexeme is over: with this character or before it.                   *)
Ends_with   == pcurrent_char' = pcurrent_char + 1 /\ pc' = "over"
Ends_before == UNCHANGED pcurrent_char /\ pc' = "over"

(* Mutant: newlines are not counted.                                       *)
Skips_silent(c) ==
  /\ Reads(c) /\ automaton = "A_start" /\ c \in Spaces
  /\ More
  /\ UNCHANGED <<current_line, scaner, autVars, begVars, given>>

Skips(c) ==
  /\ Reads(c) /\ automaton = "A_start" /\ c \in Spaces
  /\ More
  /\ current_line' = current_line + (IF c = "\n" THEN 1 ELSE 0)
  /\ UNCHANGED <<scaner, autVars, begVars, given>>

(* A lexeme begins: the automaton that reads it, and what is known of it.  *)
Begins(a, tok) ==
  /\ automaton' = a /\ token' = tok
  /\ lexem_begin_line' = [lexem_begin_line EXCEPT ![scaner] = current_line]
  /\ UNCHANGED <<scaner, current_line, state, counted, outside, lexem_begin, given>>

start_main(c) ==
  /\ Reads(c) /\ In("Main", "A_start") /\ c \notin Spaces \cup {Nul}
  /\ \/ c = "%" /\ Begins("A_keyword", Token("Unknown", <<>>)) /\ More
        /\ UNCHANGED buffer
     \/ c \in Letters /\ Begins("A_id", Token("Id", <<>>)) /\ More
        /\ buffer' = <<c>>
     \/ c \in Delimiters["Main"] /\ Begins("A_delimiter", Token("Unknown", <<>>))
        /\ Same /\ UNCHANGED buffer
     \/ c = Quote /\ Begins("A_string", Token("String", <<>>)) /\ Same
        /\ buffer' = <<>>
     \/ c \in Other \cup (Body \ Letters)
        /\ Begins("A_unknown", Token("Unknown", <<>>)) /\ More /\ UNCHANGED buffer

start_expr(c) ==
  /\ Reads(c) /\ In("Expr", "A_start") /\ c \notin Spaces \cup {Nul}
  /\ \/ c \in Delimiters["Expr"] /\ Begins("A_delimiter", Token("UnknownLexem", <<>>))
        /\ Same
     \/ c = "$" /\ Begins("A_action", Token("Action", <<>>)) /\ More
     \/ c = "[" /\ Begins("A_class", Token("Character", <<c>>)) /\ More
     \/ c = "\\" /\ Begins("A_char", Token("Character", <<>>)) /\ More
     \/ c \notin Delimiters["Expr"] \cup {"$", "[", "\\"}
        /\ Begins("A_start", Token("Character", <<c>>)) /\ Ends_with
  /\ buffer' = <<>>

(* What the lexeme is when it is over: an interned string, a word the      *)
(* scanner expects after an unfinished one, or what it was.                *)
Completed(words, code, st) == Token(code, Row(words, st).meant)

Keeps == UNCHANGED <<scaner, current_line, automaton, lexem_begin,
                     lexem_begin_line, given>>

unknown_proc(c) ==
  /\ Reads(c) /\ In("Main", "A_unknown") /\ c # Nul
  /\ IF c \in Other THEN More ELSE Ends_before
  /\ Keeps /\ UNCHANGED <<state, token, buffer, counted, outside>>

(* Names: identifiers, and actions after the character $.                  *)
id_proc(c) ==
  /\ Reads(c) /\ c # Nul
  /\ In("Main", "A_id") \/ (In("Expr", "A_action") /\ state # Initial)
  /\ IF c \in Body
     THEN More /\ buffer' = Append(buffer, c) /\ UNCHANGED token
     ELSE Ends_before /\ token' = Token(token.code, buffer) /\ UNCHANGED buffer
  /\ Keeps /\ UNCHANGED <<state, counted, outside>>

action_begin(c) ==
  /\ Reads(c) /\ In("Expr", "A_action") /\ state = Initial /\ c # Nul
  /\ IF c \in Letters
     THEN /\ More /\ buffer' = <<c>> /\ state' = <<c>>
          /\ UNCHANGED counted
     ELSE /\ Ends_before /\ counted' = TRUE
          /\ UNCHANGED <<buffer, state>>
  /\ Keeps /\ UNCHANGED <<token, outside>>

(* The row of the state gives the code, its symbols the next state.        *)
Follows_table(words, code, c) ==
  /\ IF c \in Row(words, state).symbols
     THEN More /\ state' = Append(state, c) /\ UNCHANGED <<token, counted>>
     ELSE /\ Ends_before
          /\ token' = Completed(words, code, state)
          /\ counted' = ~Row(words, state).whole
          /\ UNCHANGED state
  /\ Keeps /\ UNCHANGED <<buffer, outside>>

(* Mutant: the state is not set.                                           *)
Enters_table_stateless(words, code, c) ==
  /\ IF c \in First_chars(words)
     THEN More /\ UNCHANGED <<state, token, counted>>
     ELSE Ends_before /\ counted' = TRUE /\ UNCHANGED <<state, token>>
  /\ Keeps /\ UNCHANGED <<buffer, outside>>

Enters_table(words, code, c) ==
  /\ IF c \in First_chars(words)
     THEN More /\ state' = <<c>> /\ UNCHANGED <<token, counted>>
     ELSE Ends_before /\ counted' = TRUE /\ UNCHANGED <<state, token>>
  /\ Keeps /\ UNCHANGED <<buffer, outside>>

keyword_proc(c) ==
  /\ Reads(c) /\ In("Main", "A_keyword") /\ c # Nul
  /\ IF state = Initial THEN Enters_table(Keywords, "Kw", c)
                        ELSE Follows_table(Keywords, "Kw", c)

(* The state -2: the colon after [ is read.                                *)
Colon_read == <<":">>

classes_proc(c) ==
  /\ Reads(c) /\ In("Expr", "A_class") /\ c # Nul
  /\ \/ /\ state = Initial
        /\ IF c = ":" THEN More /\ state' = Colon_read
                      ELSE Ends_before /\ UNCHANGED state
        /\ Keeps /\ UNCHANGED <<token, buffer, counted, outside>>
     \/ state = Colon_read /\ Enters_table(Names, "Class", c)
     \/ state \notin {Initial, Colon_read} /\ Follows_table(Names, "Class", c)

Delimiter_code(s, c) ==
  IF s = "Expr" /\ c = "{" THEN "Begin_expression"
  ELSE IF s = "Expr" /\ c = "}" THEN "End_expression" ELSE c

delimiter_proc(c) ==
  /\ Reads(c) /\ automaton = "A_delimiter" /\ pc = "reading"
  /\ token' = Token(Delimiter_code(scaner, c), <<>>)
  /\ Ends_with
  /\ Keeps /\ UNCHANGED <<state, buffer, counted, outside>>

(* A newline is n after a backslash, and is not written otherwise.         *)
char_proc(c) ==
  /\ Reads(c) /\ In("Expr", "A_char") /\ c # Nul
  /\ IF c \in After_backslash
     THEN Ends_with /\ token' = Token("Character", <<IF c = "n" THEN "\n" ELSE c>>)
     ELSE Ends_before /\ token' = Token("Character", <<"\\">>)
  /\ Keeps /\ UNCHANGED <<state, buffer, counted, outside>>

String_body == <<"body">>
End_string  == <<"end">>

(* Newlines of a literal are not counted.                                  *)
string_proc(c) ==
  /\ Reads(c) /\ In("Main", "A_string") /\ c # Nul
  /\ \/ state = Initial /\ More /\ state' = String_body
        /\ UNCHANGED <<buffer, token>>
     \/ state = String_body /\ c = Quote /\ More /\ state' = End_string
        /\ UNCHANGED <<buffer, token>>
     \/ state = String_body /\ c # Quote /\ More /\ buffer' = Append(buffer, c)
        /\ UNCHANGED <<state, token>>
     \/ state = End_string /\ c = Quote /\ More /\ state' = String_body
        /\ buffer' = Append(buffer, c) /\ UNCHANGED token
     \/ state = End_string /\ c # Quote /\ Ends_before
        /\ token' = Token("String", buffer) /\ UNCHANGED <<state, buffer>>
  /\ Keeps /\ UNCHANGED <<counted, outside>>

(* The table is read at the index -1 or -2: what is there may be the code  *)
(* of any lexeme, or one that is corrected with a message.                 *)
Read_outside(tokens) ==
  /\ outside' = TRUE
  /\ token' \in tokens
  /\ counted' \in BOOLEAN

(* The text is over: the final procedure of the automaton.                 *)
Final_table(words, code, tokens) ==
  IF IsRow(words, state)
  THEN /\ token' = Completed(words, code, state)
       /\ counted' = ~Row(words, state).whole
       /\ UNCHANGED outside
  ELSE Read_outside(tokens)

Final_proc ==
  \/ automaton \in {"A_start", "A_unknown"} /\ UNCHANGED <<token, counted, outside>>
  \/ /\ automaton \in {"A_id", "A_action"}
     /\ token' = Token(token.code, buffer) /\ UNCHANGED <<counted, outside>>
  \/ /\ automaton = "A_string"
     /\ token' = Token("String", buffer)
     /\ counted' = (state # End_string) /\ UNCHANGED outside
  \/ /\ automaton = "A_char"
     /\ token' = Token("Character", <<"\\">>) /\ UNCHANGED <<counted, outside>>
  \/ /\ automaton = "A_keyword"
     /\ Final_table(Keywords, "Kw", {None} \cup {Token("Kw", w) : w \in Keywords})
  \/ /\ automaton = "A_class"
     /\ Final_table(Names, "Class", {None} \cup {Token("Class", w) : w \in Names})

(* Mutant: the place stays behind the end of the text.                     *)
finals_behind ==
  /\ Reads(Nul) /\ Final_proc /\ Ends_with
  /\ Keeps /\ UNCHANGED <<state, buffer>>

finals ==
  /\ Reads(Nul) /\ Final_proc /\ Ends_before
  /\ Keeps /\ UNCHANGED <<state, buffer>>

(* Mutant: the lexeme is given back, but for its last character.           *)
back_one ==
  /\ pc = "over" /\ scaner \in Both /\ current_line < MaxLine
  /\ pc' = "back"
  /\ pcurrent_char' = IF pcurrent_char > 1 THEN pcurrent_char - 1 ELSE 1
  /\ current_line' = lexem_begin_line[scaner]
  /\ given' = IF outside THEN Nobody
              ELSE [scaner |-> scaner, token |-> token, next |-> pcurrent_char]
  /\ UNCHANGED <<text, scaner, autVars, begVars>>

(* back(), of the scanner that was called last; once more changes nothing. *)
back ==
  /\ pc = "over" /\ scaner \in Both /\ current_line < MaxLine
  /\ pc' = "back"
  /\ pcurrent_char' = lexem_begin[scaner]
  /\ current_line' = lexem_begin_line[scaner]
  /\ given' = IF outside THEN Nobody
              ELSE [scaner |-> scaner, token |-> token, next |-> pcurrent_char]
  /\ UNCHANGED <<text, scaner, autVars, begVars>>

Proc(c) ==
  \/ Skips(c) \/ start_main(c) \/ start_expr(c)
  \/ unknown_proc(c) \/ id_proc(c) \/ action_begin(c) \/ keyword_proc(c)
  \/ classes_proc(c) \/ delimiter_proc(c) \/ char_proc(c) \/ string_proc(c)

Next ==
  \/ \E s \in Both : current_lexem(s)
  \/ \E c \in Chars : Proc(c)
  \/ finals
  \/ back

Spec == Init /\ [][Next]_vars

-----------------------------------------------------------------------------
(* Properties.                                                             *)

TypeOK ==
  /\ text \in Seq(Chars \cup {Nul}) /\ Len(text) <= MaxText + 1
  /\ pcurrent_char \in 1 .. Len(text) + 1
  /\ \A k \in 1 .. pcurrent_char - 1 : text[k] # Nul
  /\ current_line \in Nat
  /\ pc \in {"reading", "over", "back"} /\ scaner \in Both \cup {"nobody"}
  /\ lexem_begin \in [Both -> 1 .. Len(text) + 1]
  /\ lexem_begin_line \in [Both -> Nat]
  /\ counted \in BOOLEAN /\ outside \in BOOLEAN

(* The lexeme of the scanner that was called last: where its first         *)
(* character is, what was read of it, what comes next.                     *)
Begin   == CHOOSE b \in lexem_begin[scaner] .. Len(text) :
             /\ text[b] \notin Spaces
             /\ \A k \in lexem_begin[scaner] .. b - 1 : text[k] \in Spaces
Spelled == SubSeq(text, Begin, pcurrent_char - 1)
Ahead   == text[pcurrent_char]
Over(s) == pc = "over" /\ scaner = s /\ ~outside

(* The characters of s with each quote written twice: where the k-th of    *)
(* them ends, and that read is all of them.                                *)
Place(s, k) == k + Cardinality({i \in 1 .. k : s[i] = Quote})
Doubles(read, s) ==
  /\ Len(read) = Place(s, Len(s))
  /\ \A k \in 1 .. Len(s) :
       /\ read[Place(s, k)] = s[k]
       /\ s[k] = Quote => read[Place(s, k) - 1] = Quote

Begins_any(words, s) == \E w \in words : IsPrefix(s, w)

(* What of a word is read: as much as begins one, with a message if it is  *)
(* not all of it.                                                          *)
Spells_word(words, lead) ==
  LET read == SubSeq(Spelled, Len(lead) + 1, Len(Spelled))
  IN /\ IsPrefix(lead, Spelled) /\ read # <<>>
     /\ IsPrefix(read, token.val) /\ token.val \in words
     /\ counted <=> read # token.val
     /\ ~Begins_any(words, Append(read, Ahead))

Spells_name(s, first) ==
  /\ s # <<>> /\ s[1] \in first
  /\ Range(s) \subseteq Body /\ Ahead \notin Body
  /\ token.val = s /\ ~counted

(* Main_scaner: the lexeme is what the text spells from its first          *)
(* character, no shorter and no longer.                                    *)
MainReads ==
  Over("Main") =>
    CASE token.code = "None"   -> Ahead = Nul /\ Spelled = <<>> /\ ~counted
      [] token.code = "Id"     -> Spells_name(Spelled, Letters)
      [] token.code = "Kw"     -> Spells_word(Keywords, <<"%">>)
      [] token.code = "String" ->
           /\ Spelled[1] = Quote
           /\ \/ /\ Len(Spelled) > 1 /\ Last(Spelled) = Quote
                 /\ Doubles(SubSeq(Spelled, 2, Len(Spelled) - 1), token.val)
                 /\ Ahead # Quote /\ ~counted
              \/ Doubles(Tail(Spelled), token.val) /\ Ahead = Nul /\ counted
      [] token.code = "Unknown" ->
           \/ Spelled = <<"%">> /\ Ahead \notin First_chars(Keywords) /\ counted
           \/ /\ Range(Tail(Spelled)) \subseteq Other /\ Ahead \notin Other
              /\ Spelled[1] \in Other \cup {"0"} /\ ~counted
      [] OTHER -> /\ Spelled = <<token.code>> /\ ~counted
                  /\ token.code \in Delimiters["Main"]

(* Expr_scaner, likewise.                Of the names of actions, one     *)
(* that the end of the text cuts off is not diagnosed.                     *)
ExprReads ==
  Over("Expr") =>
    CASE token.code = "None" ->
           Ahead = Nul /\ Spelled = <<>> /\ ~counted
      [] token.code = "Action" ->
           \/ Spelled[1] = "$" /\ Spells_name(Tail(Spelled), Letters)
           \/ /\ Spelled = <<"$">> /\ token.val = <<>> /\ Ahead \notin Letters
              /\ counted <=> Ahead # Nul
      [] token.code = "Class" -> Spells_word(Names, <<"[", ":">>)
      [] token.code = "Character" ->
           \/ /\ Len(Spelled) = 1 /\ Spelled = token.val /\ ~counted
              /\ Spelled[1] \notin Delimiters["Expr"] \cup {"$"}
              /\ (Spelled[1] = "[") => (Ahead # ":")
              /\ (Spelled[1] = "\\") => (Ahead \notin After_backslash)
           \/ /\ Spelled = <<"[", ":">> /\ token.val = <<"[">>
              /\ Ahead \notin First_chars(Names) /\ counted
           \/ /\ Len(Spelled) = 2 /\ Spelled[1] = "\\" /\ ~counted
              /\ Spelled[2] \in After_backslash
              /\ token.val = <<IF Spelled[2] = "n" THEN "\n" ELSE Spelled[2]>>
      [] OTHER -> /\ Len(Spelled) = 1 /\ ~counted
                  /\ Spelled[1] \in Delimiters["Expr"]
                  /\ token.code = Delimiter_code("Expr", Spelled[1])

(* keyword_final_proc, classes_final_proc: a table is read at no index of  *)
(* it only where the text ends before the first character of a word.       *)
TablesIndexed ==
  outside /\ pc = "over" =>
             /\ Ahead = Nul
             /\ Spelled \in {<<"%">>, <<"[">>, <<"[", ":">>}

(* current_lexem: a lexeme is what the text spells from the place of the   *)
(* Location, whatever was read or given back before and by which scanner;  *)
(* it is malformed exactly when a message was counted.                     *)
LexemsRead == MainReads /\ ExprReads /\ TablesIndexed

(* Scaner::back: the lexeme given back is read again, to the same end.     *)
ReadAgain ==
  pc = "over" /\ given # Nobody =>
    given = [scaner |-> scaner, token |-> token, next |-> pcurrent_char]

Newlines(from, to) == Cardinality({k \in from .. to : text[k] = "\n"})
LineRight == current_line = 1 + Newlines(1, pcurrent_char - 1)

(* Location: once right, the number of the line stays right, unless a      *)
(* newline is read in a literal, or a lexeme is given back that has        *)
(* newlines, mostly in the spaces before it (they are counted again), or   *)
(* the end of the text is (the line is that of an earlier lexeme).         *)
LinesCounted ==
  [][LineRight =>
       \/ LineRight'
       \/ automaton = "A_string" /\ text'[pcurrent_char] = "\n"
       \/ pc' = "back" /\ (token.code = "None"
                           \/ Newlines(lexem_begin[scaner], pcurrent_char - 1) > 0)
    ]_vars
=============================================================================
