------------------------------- MODULE Tables -------------------------------
(***************************************************************************)
(* The delimiters, from the literals of their section to the scanner that  *)
(* is generated for them: literals are kept in strs_trie, their codes in   *)
(* the scope; generate_delim_automaton_impl makes of them a trie with      *)
(* codes, its jump table and the category of the first characters; the     *)
(* generated scanner finds the category of a character, then the initial   *)
(* state, then walks the table.  The separate automaton of keywords is     *)
(* generated in the same way.                                              *)
(*                                                                         *)
(* Characters are positive numbers, as the zero ends a string.             *)
(***************************************************************************)
EXTENDS Tries

CONSTANTS Words,     \* the literals met in a description
          CharSets,  \* the categories other automata ask for
          Texts,     \* the characters met by the generated scanner
          MaxCalls,  \* bound on literals and categories
          MaxText    \* bound on the length of a lexeme, never reached

ASSUME TablesAssumption ==
  /\ \A w \in Words : w \in Seq(Nat \ {0}) /\ w # <<>>
  /\ \A s \in CharSets : s \subseteq Nat \ {0} /\ s # {} /\ IsFiniteSet(s)
  /\ Texts \subseteq Nat \ {0}

VARIABLES phase,         \* "define", "generate", "scan"
          strs_trie, interned,      \* interned: history of insertions
          strsc, del_repres,
          atrie, ji, delimiter_begin_cat_name,
          char_cat, category_name,
          requests,                 \* history of add_category
          categories_info, categories_table,
          automaton, state, ch, code, read, over

defVars  == <<strs_trie, interned, strsc, del_repres>>
genVars  == <<atrie, ji, delimiter_begin_cat_name>>
catVars  == <<char_cat, category_name, requests>>
tabVars  == <<categories_info, categories_table>>
scanVars == <<automaton, state, ch, code, read, over>>
vars == <<phase, defVars, genVars, catVars, tabVars, scanVars>>

(* Names: those of the other automata are numbered.                        *)
DELIMITER_BEGIN == <<"DELIMITER_BEGIN", 0>>
Other           == <<"Other", 0>>
UnknownCode     == 1     \* the enumerator after None
Initial         == -1    \* the state before the first character
NoCode          == -1

(* A category is a bit of 64, and so is Other: with more of them a shift   *)
(* is undefined, which is not modelled.                                    *)
Bits == 64

Init ==
  /\ phase = "define"
  /\ strs_trie = EmptyTrie /\ interned = {}
  /\ strsc = <<>> /\ del_repres = <<>>
  /\ atrie = EmptyTrie /\ ji = [jumps |-> <<>>, init_table |-> <<>>]
  /\ delimiter_begin_cat_name = DELIMITER_BEGIN
  /\ char_cat = EmptyTrie /\ category_name = <<>> /\ requests = {}
  /\ categories_info = <<>> /\ categories_table = <<>>
  /\ automaton = "A_start" /\ state = Initial /\ ch = 0 /\ code = NoCode
  /\ read = <<>> /\ over = FALSE

Calls == Cardinality(interned) + Cardinality(requests)

-----------------------------------------------------------------------------
(* The literals of the description.                                        *)

(* A literal of another section: it is interned all the same.              *)
string_literal(w) ==
  LET r == insert(strs_trie, w, 0)
  IN /\ phase = "define" /\ Calls < MaxCalls
     /\ strs_trie' = r.nb
     /\ interned' = interned \cup {<<w, r.at>>}
     /\ UNCHANGED <<phase, strsc, del_repres, genVars, catVars, tabVars, scanVars>>

(* A literal of %delimiters; one that is there already is an error.        *)
add_new_string(w) ==
  LET r == insert(strs_trie, w, 0)
  IN /\ phase = "define" /\ Calls < MaxCalls
     /\ strs_trie' = r.nb
     /\ interned' = interned \cup {<<w, r.at>>}
     /\ IF r.at \in DOMAIN strsc
        THEN UNCHANGED <<strsc, del_repres>>
        ELSE /\ strsc' = [x \in DOMAIN strsc \cup {r.at} |->
                            IF x \in DOMAIN strsc THEN strsc[x]
                            ELSE UnknownCode + 1 + Len(del_repres)]
             /\ del_repres' = Append(del_repres, r.at)
     /\ UNCHANGED <<phase, genVars, catVars, tabVars, scanVars>>

-----------------------------------------------------------------------------
(* Categories of characters.                                               *)

(* insertSet: the characters in increasing order, as std::set gives them.  *)
insertSet(trie, s) == insert(trie, Ordered(s), 0)

(* add_category: the first name of a set remains its name.                 *)
NameOf(trie, names, s, default_name) ==
  LET r == insertSet(trie, s)
  IN IF r.at \in DOMAIN names THEN names[r.at] ELSE default_name

add_category(s, default_name) ==
  LET r    == insertSet(char_cat, s)
      name == NameOf(char_cat, category_name, s, default_name)
  IN /\ char_cat' = r.nb
     /\ category_name' = [x \in DOMAIN category_name \cup {r.at} |->
                            IF x \in DOMAIN category_name
                            THEN category_name[x] ELSE name]
     /\ requests' = requests \cup {<<s, name>>}

(* Another automaton is generated that needs a category.                   *)
generate_automaton(s) ==
  /\ phase \in {"define", "generate"} /\ Calls < MaxCalls
  /\ add_category(s, <<"CATEGORY", Cardinality(requests)>>)
  /\ UNCHANGED <<phase, defVars, genVars, tabVars, scanVars>>

generate_delim_automaton_impl ==
  LET strings == [k \in DOMAIN del_repres |->
                    get_string(strs_trie, del_repres[k])]
      tries[k \in 0 .. Len(del_repres)] ==
        IF k = 0 THEN EmptyTrie
        ELSE insert_attributed(tries[k - 1], strings[k],
                               strsc[del_repres[k]], UnknownCode)
      trie    == tries[Len(del_repres)]
      tables  == jumps(trie)
      chars   == {strings[k][1] : k \in DOMAIN strings}
  IN /\ phase = "define"
     /\ phase' = "generate"
     /\ atrie' = trie
     /\ ji' = [tables EXCEPT !.init_table = SortedInits(@)]
     /\ add_category(chars, DELIMITER_BEGIN)
     /\ delimiter_begin_cat_name' =
          NameOf(char_cat, category_name, chars, DELIMITER_BEGIN)
     /\ UNCHANGED <<defVars, tabVars, scanVars>>

(* Mutant: the counter of the bits skips the categories of other chars.    *)
construct_categories_set_for_char_dense(c, info) ==
  LET own == SelectSeq(info, LAMBDA z : c \in z.set)
  IN {k - 1 : k \in DOMAIN own}

(* The set of the numbers of the categories a character belongs to.        *)
construct_categories_set_for_char(c, info) ==
  {k - 1 : k \in {i \in DOMAIN info : c \in info[i].set}}

(* The categories in the order of their indices; the last enumerator is    *)
(* Other.                                                                  *)
generate_category_table ==
  LET order == Ordered(DOMAIN category_name)
      info  == [k \in DOMAIN order |-> [name |-> category_name[order[k]],
                                        set  |-> get_set(char_cat, order[k])]]
      chars == UNION {info[k].set : k \in DOMAIN info}
  IN /\ phase = "generate" /\ Len(order) < Bits
     /\ phase' = "scan"
     /\ categories_info' = info
     /\ categories_table' =
          [c \in chars |-> construct_categories_set_for_char(c, info)]
     /\ UNCHANGED <<defVars, genVars, catVars, scanVars>>

(* enum Category and get_categories_set of the generated scanner.          *)
Enumerator(name) ==
  IF name = Other THEN Len(categories_info)
  ELSE (CHOOSE k \in DOMAIN categories_info : categories_info[k].name = name) - 1
get_categories_set(c) ==
  IF c \in DOMAIN categories_table THEN categories_table[c]
                                   ELSE {Enumerator(Other)}

-----------------------------------------------------------------------------
(* current_lexem of the generated scanner, for a lexeme that the automaton *)
(* of the delimiters takes.                                                *)

Row(s)  == ji.jumps[s + 1]
IsRow(s) == s + 1 \in DOMAIN ji.jumps
CodeAt(s) == IF IsRow(s) THEN Row(s).code ELSE NoCode

(* The start automaton sends the character to another one to be read again.*)
start_proc(c) ==
  /\ phase = "scan" /\ automaton = "A_start"
  /\ Enumerator(delimiter_begin_cat_name) \in get_categories_set(c)
  /\ automaton' = "A_delimiter" /\ state' = Initial /\ ch' = c
  /\ UNCHANGED <<phase, defVars, genVars, catVars, tabVars, code, read, over>>

delimiter_begin ==
  LET found == get_init_state(ch, ji.init_table)
  IN /\ automaton = "A_delimiter" /\ state = Initial /\ ~over
     /\ read = <<>>
     /\ state' = IF found = {} THEN Initial ELSE CHOOSE s \in found : TRUE
     /\ code' = CodeAt(state')
     /\ read' = <<ch>>
     /\ UNCHANGED <<phase, defVars, genVars, catVars, tabVars, automaton, ch, over>>

(* The code is that of the state before the move.                          *)
delimiter_proc(c) ==
  LET y == search_char(c, Row(state).jump_chars)
  IN /\ automaton = "A_delimiter" /\ IsRow(state) /\ ~over
     /\ Len(read) < MaxText
     /\ code' = CodeAt(state)
     /\ ch' = c
     /\ IF y # {}
        THEN /\ state' = Row(state).first_state + CHOOSE k \in y : TRUE
             /\ read' = Append(read, c)
             /\ UNCHANGED over
        ELSE over' = TRUE /\ UNCHANGED <<state, read>>
     /\ UNCHANGED <<phase, defVars, genVars, catVars, tabVars, automaton>>

(* The text ends: ch is the terminating zero.                              *)
delimiter_final_proc ==
  /\ automaton = "A_delimiter" /\ IsRow(state) /\ ~over
  /\ code' = CodeAt(state) /\ ch' = 0 /\ over' = TRUE
  /\ UNCHANGED <<phase, defVars, genVars, catVars, tabVars, automaton, state, read>>

Next ==
  \/ \E w \in Words : string_literal(w) \/ add_new_string(w)
  \/ \E s \in CharSets : generate_automaton(s)
  \/ generate_delim_automaton_impl
  \/ generate_category_table
  \/ \E c \in Texts : start_proc(c)
  \/ delimiter_begin
  \/ \E c \in Texts : delimiter_proc(c)
  \/ delimiter_final_proc

Spec == Init /\ [][Next]_vars

-----------------------------------------------------------------------------
(* Properties.                                                             *)

TypeOK ==
  /\ phase \in {"define", "generate", "scan"}
  /\ \A p \in interned : p[2] \in DOMAIN strs_trie
  /\ DOMAIN strsc = Range(del_repres)
  /\ DOMAIN category_name \subseteq DOMAIN char_cat
  /\ automaton \in {"A_start", "A_delimiter"}
  /\ state = Initial \/ IsRow(state)
  /\ ch \in Texts \cup {0} /\ over \in BOOLEAN

(* Trie::insert, Char_trie::get_string: two literals have one index only   *)
(* if they are the same, in whatever order they and their prefixes were    *)
(* met, and the index gives the literal back.                              *)
Interned ==
  \A p, q \in interned :
    /\ p[1] = q[1] <=> p[2] = q[2]
    /\ get_string(strs_trie, p[2]) = p[1]

(* The delimiters and their codes.                                         *)
Delimiters == {get_string(strs_trie, i) : i \in DOMAIN strsc}
DelimiterCode(w) == strsc[CHOOSE i \in DOMAIN strsc : get_string(strs_trie, i) = w]

(* Attributed_char_trie::post_action: a delimiter that is the prefix of    *)
(* another keeps its code, and what is only a prefix is unknown.           *)
AttributesStay ==
  phase # "define" =>
    \A i \in DOMAIN atrie \ {0} :
      LET w == get_string(atrie, i)
      IN /\ \E d \in Delimiters : IsPrefix(w, d)
         /\ atrie[i].attribute = IF w \in Delimiters THEN DelimiterCode(w)
                                                     ELSE UnknownCode

(* add_category, generate_category_table: a character of a set that an     *)
(* automaton asked for has the category it was told, no other character    *)
(* has it, though sets share names and prefixes; and a character of no set *)
(* is Other.                                                               *)
CategoriesTold ==
  phase = "scan" =>
    \A c \in Texts :
      /\ \A r \in requests : Enumerator(r[2]) \in get_categories_set(c) <=> c \in r[1]
      /\ Enumerator(Other) \in get_categories_set(c)
           <=> \A r \in requests : c \notin r[1]

(* No node has children but the last of its level.                         *)
Straight ==
  \A root \in Range(Children(atrie, 0)) :
    LET levels == LevelsFrom(atrie, root)
    IN \A k \in DOMAIN levels : \A i \in Range(levels[k]) :
         atrie[i].first_child # 0 => i = Last(levels[k])

(* What was read begins a delimiter, no longer part of the text does, and  *)
(* the code is that of what was read.                                      *)
ReadsDelimiters ==
  read # <<>> =>
    /\ state # Initial
    /\ \E d \in Delimiters : IsPrefix(read, d)
    /\ over =>
         /\ code = IF read \in Delimiters THEN DelimiterCode(read) ELSE UnknownCode
         /\ ch # 0 => ~ \E d \in Delimiters : IsPrefix(Append(read, ch), d)

(* The scanner of delimiters whose trie is straight reads the longest      *)
(* beginning of a delimiter and gives its code, wherever its subtrie is in *)
(* the table.                                                              *)
StraightTablesRead == Straight => ReadsDelimiters

(* The generated Elem: "If the current character matches symbols[0], then  *)
(* the transition to the state first_state; ...": for all delimiters.      *)
AllTablesRead == ReadsDelimiters
=============================================================================
