-------------------------- MODULE MainParserProofs --------------------------
(***************************************************************************)
(* Proofs about Main_parser with all its sections, for every set of names, *)
(* of literals and of uninitialised values, every alphabet and every       *)
(* length of text.  What a section parser at work does, whoever calls it - *)
(* one step of it to the reader, the scope and its own results, and that   *)
(* what it lets pass is a path of the automaton of its header - is proved  *)
(* in KwParserProofs for the keywords and the delimiters and, for %codes,  *)
(* %numbers, %strings and %comments, in the first part of this module.     *)
(***************************************************************************)
EXTENDS MainHistory, KwParserProofs

(* A parser goes on or gives the control back, and takes no diagnostic     *)
(* back.                                                                   *)
Onward ==
  /\ pc' \in {pc, "parse"}
  /\ erroneous' \in BOOLEAN
  /\ erroneous => erroneous'

(* A step that reads nothing, or reads or looks at one lexeme.             *)
Reads == UNCHANGED readerVars \/ \E l \in Upcoming : current_lexem(l) \/ peek(l)

LEMMA ReadsType ==
  ASSUME ReaderTypeOK, Reads
  PROVE  ReaderTypeOK'
<1>1. CASE UNCHANGED readerVars
  BY <1>1 DEF readerVars, ReaderTypeOK
<1> QED
  BY <1>1, ReadType DEF Reads

-----------------------------------------------------------------------------
(* Codes_and_newline.                                                      *)

(* The enumeration grows by one identifier, ...                            *)
CodeAdded ==
  /\ \E i \in Indices : ~Defined(idsc, i) /\ NewCode(i)
  /\ UNCHANGED strsc

(* ... or Newline gets a number nobody else is told of.                    *)
NewlineAdded ==
  /\ ~Defined(idsc, newline_idx)
  /\ \E n \in Nat :
       idsc' = [idsc EXCEPT ![newline_idx] =
                  [kind |-> "Code_of_lexem", code |-> n]]
  /\ UNCHANGED <<strsc, codes, last_code>>

(* What a step of the %codes parser or of %newline_is_lexem does.          *)
LEMMA CodesStep ==
  ASSUME ScopeTypeOK, CodesTypeOK, ReaderTypeOK, CodesNext
  PROVE  /\ pc \in {"Kw_codes", "Kw_newline_is_lexem"}
         /\ Reads /\ Onward /\ CodesTypeOK'
         /\ Stay \/ CodeAdded \/ NewlineAdded
<1>0. erroneous \in BOOLEAN /\ last_code \in Nat /\ Ids \subseteq Indices
  BY IndicesNat DEF ScopeTypeOK
<1>1. CASE codes_sec
  <2>1. pc = "Kw_codes" /\ newline_is_lexem' = newline_is_lexem
    BY <1>1 DEF codes_sec, CodesAt
  <2>2. PICK l \in Upcoming :
          \/ /\ current_lexem(l)
             /\ UNCHANGED <<scopeVars, pc>>
             /\ cn_last' = last_code
          \/ /\ peek(l)
             /\ Diagnose(TRUE)
             /\ Stay
             /\ pc' = "parse"
             /\ cn_last' = last_code
    BY <1>1 DEF codes_sec
  <2>3. Reads /\ pc' \in {pc, "parse"} /\ cn_last' = last_code
    BY <2>2 DEF Reads
  <2>4. Stay /\ erroneous' \in BOOLEAN /\ (erroneous => erroneous')
    BY <1>0, <2>2 DEF Stay, Diagnose, scopeVars
  <2> QED
    BY <1>0, <2>1, <2>3, <2>4 DEF Onward, CodesTypeOK
<1>a. ASSUME NEW l \in Upcoming, NEW bad \in BOOLEAN, CodesLeave(l, bad)
      PROVE  Reads /\ Onward /\ CodesTypeOK' /\ Stay
  BY <1>0, <1>a DEF CodesLeave, Reads, Onward, CodesTypeOK, Diagnose
<1>b. ASSUME NEW l \in Upcoming, NEW bad \in BOOLEAN, NEW next,
             Separate(l, next, bad)
      PROVE  Reads /\ Onward /\ CodesTypeOK' /\ Stay
  BY <1>0, <1>b DEF Separate, Reads, Onward, CodesTypeOK, codesVars, Diagnose
<1>c. ASSUME NEW l \in Upcoming, NEW bad \in BOOLEAN, l.code = "Id",
             Take(l, bad)
      PROVE  Reads /\ Onward /\ CodesTypeOK' /\ (Stay \/ CodeAdded)
  <2>1. l.val \in Indices
    BY <1>0, <1>c, UpcomingLexem
  <2> QED
    BY <1>0, <1>c, <2>1 DEF Take, add_new_lexem_code, Reads, Onward, Stay,
       CodeAdded, CodesTypeOK, codesVars, Diagnose
<1>2. CASE codes_id_proc
  BY <1>2, <1>a, <1>b, <1>c DEF codes_id_proc, CodesAt
<1>3. CASE codes_comma_sep_proc
  BY <1>3, <1>a, <1>b, <1>c DEF codes_comma_sep_proc, CodesAt
<1>4. CASE newline_is_lexem_sec
  <2>1. cn_last + 1 \in Nat
    BY DEF CodesTypeOK
  <2>2. Reads /\ Onward /\ CodesTypeOK'
    BY <1>0, <1>4, <2>1 DEF newline_is_lexem_sec, Reads, Onward, CodesTypeOK,
                            Diagnose
  <2>3. Stay \/ NewlineAdded
    BY <1>4, <2>1 DEF newline_is_lexem_sec, Stay, NewlineAdded
  <2> QED
    BY <1>4, <2>2, <2>3 DEF newline_is_lexem_sec
<1> QED
  BY <1>1, <1>2, <1>3, <1>4 DEF CodesNext, codes_id_proc,
     codes_comma_sep_proc, CodesAt, codes_sec

-----------------------------------------------------------------------------
(* NS_parser.                                                              *)

(* When the body of an action is met, the name it is given to is that of   *)
(* the text, not a value left over in the token: it is not asked for in    *)
(* add_action_definition.                                                  *)
ActionNamed == NsAt("Act_def") => act_name \in Ids

(* A name that is no other thing gets a body that is no other thing.       *)
BodyGiven ==
  \E i \in Ids, s \in Strs :
    /\ idsc[i].kind \in {"absent", "Action_name"}
    /\ strsc[s].kind \in {"absent", "Action_definition"}
    /\ idsc' = [idsc EXCEPT ![i] = [kind |-> "Action_name", code |-> s]]
    /\ strsc' = [strsc EXCEPT ![s] =
                   [kind |-> "Action_definition", code |-> 0]]
    /\ UNCHANGED <<codes, last_code>>

(* A procedure goes on, passes the keyword of the section over, or leaves. *)
LEMMA NsProcStep ==
  ASSUME ScopeTypeOK, NsTypeOK, ReaderTypeOK, ActionNamed,
         NEW s, NEW next, NEW wrong, NEW named, NsProc(s, next, wrong, named),
         \A c \in DOMAIN next : next[c] = "Act_def" =>
           \/ c = "Id" /\ c \in named
           \/ s = "Act_def" /\ named = {}
  PROVE  Reads /\ Onward /\ NsTypeOK' /\ ActionNamed' /\ Stay
<1>0. erroneous \in BOOLEAN /\ pc \in NsSections /\ state = s
  BY DEF ScopeTypeOK, NsProc, NsAt
<1>1. PICK l \in Upcoming :
        \/ /\ l.code \in DOMAIN next
           /\ IF l.code = "Opened_fig_brack" THEN peek(l) ELSE current_lexem(l)
           /\ state' = next[l.code]
           /\ act_name' = IF l.code \in named THEN Token(l).val ELSE act_name
           /\ Diagnose(l.code \in wrong)
           /\ Stay
           /\ UNCHANGED <<pc, filled>>
        \/ /\ l.code = pc
           /\ current_lexem(l)
           /\ UNCHANGED <<scopeVars, pc, state, nsVars>>
        \/ NsLeave(l, FALSE)
        \/ NsRunOut(l)
  BY DEF NsProc
<1>2. Token(l).val \in Nat /\ (l.code = "Id" => Token(l).val \in Ids)
  BY UpcomingLexem, ReaderAssumption DEF Token, ReaderTypeOK
<1>3. CASE /\ l.code \in DOMAIN next
           /\ IF l.code = "Opened_fig_brack" THEN peek(l) ELSE current_lexem(l)
           /\ state' = next[l.code]
           /\ act_name' = IF l.code \in named THEN Token(l).val ELSE act_name
           /\ Diagnose(l.code \in wrong)
           /\ Stay
           /\ UNCHANGED <<pc, filled>>
  <2>1. Reads /\ Onward /\ NsTypeOK'
    BY <1>0, <1>2, <1>3 DEF Reads, Onward, Diagnose, NsTypeOK
  <2>2. ActionNamed'
    BY <1>0, <1>2, <1>3 DEF ActionNamed, NsAt
  <2> QED
    BY <1>3, <2>1, <2>2
<1>4. CASE /\ l.code = pc
           /\ current_lexem(l)
           /\ UNCHANGED <<scopeVars, pc, state, nsVars>>
  BY <1>0, <1>4 DEF Reads, Onward, NsTypeOK, ActionNamed, NsAt, Stay,
                    scopeVars, nsVars
<1>5. CASE NsLeave(l, FALSE)
  BY <1>0, <1>5 DEF NsLeave, Reads, Onward, NsTypeOK, ActionNamed, NsAt,
                    Diagnose, nsVars, NsSections
<1>6. CASE NsRunOut(l)
  BY <1>0, <1>6 DEF NsRunOut, Reads, Onward, NsTypeOK, ActionNamed, NsAt,
                    Diagnose, nsVars
<1> QED
  BY <1>1, <1>3, <1>4, <1>5, <1>6

(* What a step of the parser of %numbers or %strings does.                 *)
LEMMA NsStep ==
  ASSUME ScopeTypeOK, NsTypeOK, ReaderTypeOK, ActionNamed, NsNext
  PROVE  /\ pc \in NsSections
         /\ Reads /\ Onward /\ NsTypeOK' /\ ActionNamed'
         /\ Stay \/ BodyGiven
<1>0. erroneous \in BOOLEAN
  BY DEF ScopeTypeOK
<1>1. pc \in NsSections
  BY DEF NsNext, ns_call, num_str_kw_proc, maybe_init_acts_proc,
     init_acts_proc, maybe_final_acts_proc, final_acts_proc, action_sec_proc,
     act_def_proc, act_expr, NsProc, NsAt
<1>a. ASSUME NEW l \in Upcoming, NEW bad \in BOOLEAN, NsLeave(l, bad)
      PROVE  Reads /\ Onward /\ NsTypeOK' /\ ActionNamed' /\ Stay
  BY <1>0, <1>a DEF NsLeave, Reads, Onward, NsTypeOK, ActionNamed, NsAt,
                    Diagnose, nsVars, NsSections
<1>2. CASE ns_call
  BY <1>0, <1>2 DEF ns_call, NsAt, Reads, Onward, NsTypeOK, ActionNamed, Stay,
                    scopeVars, nsVars
<1>3. CASE num_str_kw_proc
  <2>1. ASSUME NEW l \in Upcoming, current_lexem(l),
               state' = "Maybe_init_acts", UNCHANGED <<scopeVars, pc, nsVars>>
        PROVE  Reads /\ Onward /\ NsTypeOK' /\ ActionNamed' /\ Stay
    BY <1>0, <2>1 DEF Reads, Onward, NsTypeOK, ActionNamed, NsAt, Stay,
                      scopeVars, nsVars
  <2> QED
    BY <1>1, <1>3, <1>a, <2>1 DEF num_str_kw_proc
<1>4. CASE maybe_init_acts_proc
  BY <1>1, <1>4, NsProcStep DEF maybe_init_acts_proc
<1>5. CASE init_acts_proc
  BY <1>1, <1>5, NsProcStep DEF init_acts_proc
<1>6. CASE maybe_final_acts_proc
  BY <1>1, <1>6, NsProcStep DEF maybe_final_acts_proc
<1>7. CASE final_acts_proc
  BY <1>1, <1>7, NsProcStep DEF final_acts_proc
<1>8. CASE action_sec_proc
  BY <1>1, <1>8, NsProcStep DEF action_sec_proc
<1>9. CASE act_def_proc
  <2>1. ASSUME NsAt("Act_def"), NEW l \in Upcoming, l.code = "String",
               current_lexem(l), add_action_definition(l.val),
               state' = "Final_acts", UNCHANGED <<pc, nsVars>>
        PROVE  /\ Reads /\ Onward /\ NsTypeOK' /\ ActionNamed'
               /\ Stay \/ BodyGiven
    <3>1. l.val \in Strs /\ act_name \in Ids
      BY <2>1, UpcomingLexem DEF ActionNamed
    <3>2. Reads /\ Onward /\ NsTypeOK' /\ ActionNamed'
      BY <1>0, <2>1 DEF Reads, Onward, NsTypeOK, ActionNamed, NsAt, nsVars,
                        add_action_definition, Diagnose
    <3>3. CASE Clash(l.val)
      BY <2>1, <3>2, <3>3 DEF add_action_definition, Stay
    <3>4. CASE ~Clash(l.val)
      BY <2>1, <3>1, <3>2, <3>4 DEF add_action_definition, Clash, BodyGiven
    <3> QED
      BY <3>3, <3>4
  <2> DEFINE next == [Kw_action |-> "Act_def", Id |-> "Act_def",
                      Colon |-> "Act_def", Opened_fig_brack |-> "Act_expr_beg"]
             wrong == {"Kw_action", "Id", "Colon", "Opened_fig_brack"}
  <2>2. CASE NsProc("Act_def", next, wrong, {})
    BY <1>1, <2>2, NsProcStep
  <2> QED
    BY <1>1, <1>9, <2>1, <2>2 DEF act_def_proc
<1>10. CASE act_expr
  BY <1>0, <1>1, <1>10 DEF act_expr, NsAt, Reads, Onward, NsTypeOK,
     ActionNamed, Stay, Diagnose
<1> QED
  BY <1>2, <1>3, <1>4, <1>5, <1>6, <1>7, <1>8, <1>9, <1>10 DEF NsNext

(* The automaton of num_str_parser.h: a lexeme that is read without an     *)
(* error moves as the table says, or repeats the keyword of the section.   *)
LEMMA NsAdvance ==
  ASSUME pc \in NsSections, ~erroneous, ~erroneous', pc' = pc,
         <<state, li'.code, state'>> \in NsMoves \cup Repeats,
         state \notin {"call", "Num_str_kw"},
         state' \notin {"call", "Num_str_kw"}
  PROVE  NsGrammar!Next
<1>1. NsPlace = state /\ NsPlace' = state'
  BY DEF NsPlace
<1> QED
  BY <1>1 DEF NsGrammar!Next, NsGrammar!Advance

LEMMA NsOutside ==
  ASSUME ~erroneous, ~erroneous',
         pc \notin NsSections \/ state \in {"call", "Num_str_kw"},
         pc' \notin NsSections
           \/ state' \in {"call", "Num_str_kw", "Maybe_init_acts"}
  PROVE  NsGrammar!Next
BY DEF NsGrammar!Next, NsGrammar!Outside, NsPlace

LEMMA NsInside ==
  ASSUME ~erroneous, ~erroneous', pc \in NsSections, pc' = "parse",
         state \in NsStates
  PROVE  NsGrammar!Next
BY DEF NsGrammar!Next, NsGrammar!Outside, NsGrammar!Leave, NsPlace,
       NsSections

LEMMA NsProcGrammar ==
  ASSUME ScopeTypeOK, ReaderTypeOK, ~erroneous, ~erroneous',
         NEW s \in NsStates \ {"Num_str_kw"}, NEW next, NEW wrong, NEW named,
         NsProc(s, next, wrong, named),
         \A c \in DOMAIN next :
           next[c] \in NsStates \ {"Num_str_kw"}
           /\ (c \notin wrong => <<s, c, next[c]>> \in NsMoves)
  PROVE  NsGrammar!Next
<1>0. pc \in NsSections /\ state = s /\ s # "call"
  BY DEF NsProc, NsAt, NsStates
<1>1. ASSUME NEW l \in Upcoming, NsLeave(l, FALSE)
      PROVE  NsGrammar!Next
  BY <1>0, <1>1, NsInside DEF NsLeave
<1>2. ASSUME NEW l \in Upcoming, l.code \in DOMAIN next,
             IF l.code = "Opened_fig_brack" THEN peek(l) ELSE current_lexem(l),
             state' = next[l.code], Diagnose(l.code \in wrong), pc' = pc
      PROVE  NsGrammar!Next
  <2>1. li'.code = l.code
    BY <1>2 DEF peek, current_lexem, Meet, Token
  <2>2. l.code \notin wrong
    BY <1>2 DEF Diagnose
  <2>3. <<state, li'.code, state'>> \in NsMoves /\ state' \in NsStates
        /\ state' \notin {"call", "Num_str_kw"}
    BY <1>0, <1>2, <2>1, <2>2 DEF NsStates
  <2> QED
    BY <1>0, <1>2, <2>3, NsAdvance
<1>3. ASSUME NEW l \in Upcoming, l.code = pc, current_lexem(l), pc' = pc,
             state' = state
      PROVE  NsGrammar!Next
  <2>1. li'.code = l.code
    BY <1>3 DEF current_lexem, Meet, Token
  <2>2. <<state, li'.code, state'>> \in Repeats
    BY <1>0, <1>3, <2>1 DEF Repeats
  <2> QED
    BY <1>0, <1>3, <2>2, NsAdvance
<1>4. ASSUME NEW l \in Upcoming, NsRunOut(l)
      PROVE  NsGrammar!Next
  BY <1>4 DEF NsRunOut, Diagnose
<1> QED
  BY <1>1, <1>2, <1>3, <1>4 DEF NsProc

(* A step of the parser of %numbers or %strings is a step of it.           *)
LEMMA NsGrammarStep ==
  ASSUME ScopeTypeOK, NsTypeOK, ReaderTypeOK, ActionNamed, NsNext
  PROVE  NsGrammar!Next
<1>1. CASE erroneous'
  BY <1>1 DEF NsGrammar!Next, NsGrammar!Diagnose, NsPlace
<1>2. CASE ~erroneous'
  <2>0. ~erroneous /\ pc \in NsSections
    BY <1>2, NsStep DEF Onward
  <2>1. CASE ns_call
    BY <1>2, <2>0, <2>1, NsOutside DEF ns_call, NsAt
  <2>2. CASE num_str_kw_proc
    BY <1>2, <2>0, <2>2, NsOutside, NsInside
       DEF num_str_kw_proc, NsAt, NsLeave, NsStates
  <2>3. CASE maybe_init_acts_proc
    BY <1>2, <2>0, <2>3, NsProcGrammar
       DEF maybe_init_acts_proc, NsStates, NsMoves
  <2>4. CASE init_acts_proc
    BY <1>2, <2>0, <2>4, NsProcGrammar DEF init_acts_proc, NsStates, NsMoves
  <2>5. CASE maybe_final_acts_proc
    BY <1>2, <2>0, <2>5, NsProcGrammar
       DEF maybe_final_acts_proc, NsStates, NsMoves
  <2>6. CASE final_acts_proc
    BY <1>2, <2>0, <2>6, NsProcGrammar DEF final_acts_proc, NsStates, NsMoves
  <2>7. CASE action_sec_proc
    BY <1>2, <2>0, <2>7, NsProcGrammar DEF action_sec_proc, NsStates, NsMoves
  <2>8. CASE act_def_proc
    <3>1. ASSUME NsAt("Act_def"), NEW l \in Upcoming, l.code = "String",
                 current_lexem(l), state' = "Final_acts", pc' = pc
          PROVE  NsGrammar!Next
      <4>1. <<state, li'.code, state'>> \in NsMoves
        BY <3>1 DEF NsAt, current_lexem, Meet, Token, NsMoves
      <4> QED
        BY <1>2, <2>0, <3>1, <4>1, NsAdvance DEF NsAt
    <3> DEFINE next == [Kw_action |-> "Act_def", Id |-> "Act_def",
                        Colon |-> "Act_def",
                        Opened_fig_brack |-> "Act_expr_beg"]
               wrong == {"Kw_action", "Id", "Colon", "Opened_fig_brack"}
    <3>2. CASE NsProc("Act_def", next, wrong, {})
      BY <1>2, <2>0, <3>2, NsProcGrammar DEF NsStates, NsMoves
    <3> QED
      BY <2>8, <3>1, <3>2 DEF act_def_proc
  <2>9. CASE act_expr
    BY <1>2, <2>0, <2>9, NsInside DEF act_expr, NsAt, NsStates, Diagnose
  <2> QED
    BY <2>1, <2>2, <2>3, <2>4, <2>5, <2>6, <2>7, <2>8, <2>9 DEF NsNext
<1> QED
  BY <1>1, <1>2

-----------------------------------------------------------------------------
(* Comments_parser.                                                        *)

LEMMA CommentsProcStep ==
  ASSUME ScopeTypeOK, CommentsTypeOK, ReaderTypeOK,
         NEW s, NEW next, NEW wrong, CommentsProc(s, next, wrong)
  PROVE  pc = "Kw_comments" /\ Reads /\ Onward /\ CommentsTypeOK' /\ Stay
<1>0. erroneous \in BOOLEAN /\ pc = "Kw_comments" /\ Strs \subseteq StrIdxs
  BY IndicesNat DEF ScopeTypeOK, CommentsProc, CommentsAt
<1>1. ASSUME NEW l \in Upcoming, NEW bad \in BOOLEAN, CommentsLeave(l, bad)
      PROVE  Reads /\ Onward /\ CommentsTypeOK' /\ Stay
  BY <1>0, <1>1 DEF CommentsLeave, Reads, Onward, Diagnose, CommentsTypeOK,
                    commentsVars
<1>2. ASSUME NEW l \in Upcoming, CommentsRunOut(l)
      PROVE  Reads /\ Onward /\ CommentsTypeOK' /\ Stay
  BY <1>0, <1>2 DEF CommentsRunOut, Reads, Onward, Diagnose, CommentsTypeOK,
                    commentsVars
<1>3. ASSUME NEW l \in Upcoming, l.code \in DOMAIN next, current_lexem(l),
             mark_of_single_lined' \in {l.val, mark_of_single_lined},
             mark_of_multilined_begin' \in {l.val, mark_of_multilined_begin},
             mark_of_multilined_end' \in {l.val, mark_of_multilined_end},
             l.code # "String" =>
               UNCHANGED <<mark_of_single_lined, mark_of_multilined_begin,
                           mark_of_multilined_end>>,
             multilined_is_nested' = (multilined_is_nested \/ state' = "Nested"),
             Diagnose(l.code \in wrong), Stay, pc' = pc
      PROVE  Reads /\ Onward /\ CommentsTypeOK' /\ Stay
  <2>1. l.code = "String" => l.val \in StrIdxs
    BY <1>0, UpcomingLexem
  <2>2. CommentsTypeOK'
    BY <1>3, <2>1 DEF CommentsTypeOK
  <2> QED
    BY <1>0, <1>3, <2>2 DEF Reads, Onward, Diagnose
<1> QED
  BY <1>0, <1>1, <1>2, <1>3 DEF CommentsProc

(* What a step of the parser of %comments does.                            *)
LEMMA CommentsStep ==
  ASSUME ScopeTypeOK, CommentsTypeOK, ReaderTypeOK, CommentsNext
  PROVE  pc = "Kw_comments" /\ Reads /\ Onward /\ CommentsTypeOK' /\ Stay
<1>0. erroneous \in BOOLEAN /\ 0 \in StrIdxs
  BY IndicesNat DEF ScopeTypeOK
<1>1. CASE comments_compile_
  BY <1>0, <1>1 DEF comments_compile_, CommentsAt, Reads, Onward,
     CommentsTypeOK, Stay, scopeVars
<1>2. CASE multilined_end_proc
  BY <1>0, <1>2 DEF multilined_end_proc, CommentsAt, CommentsLeave,
     CommentsRunOut, Reads, Onward, Diagnose, CommentsTypeOK, commentsVars
<1>3. CASE comments_kw_proc
  BY <1>3, CommentsProcStep DEF comments_kw_proc
<1>4. CASE single_or_multilined_proc
  BY <1>4, CommentsProcStep DEF single_or_multilined_proc
<1>5. CASE single_lined_proc
  BY <1>5, CommentsProcStep DEF single_lined_proc
<1>6. CASE multilined_proc
  BY <1>6, CommentsProcStep DEF multilined_proc
<1>7. CASE single_lined_mark_proc
  BY <1>7, CommentsProcStep DEF single_lined_mark_proc
<1>8. CASE multi_lined_begin_proc
  BY <1>8, CommentsProcStep DEF multi_lined_begin_proc
<1>9. CASE nested_proc
  BY <1>9, CommentsProcStep DEF nested_proc
<1>10. CASE beg_end_delim_proc
  BY <1>10, CommentsProcStep DEF beg_end_delim_proc
<1> QED
  BY <1>1, <1>2, <1>3, <1>4, <1>5, <1>6, <1>7, <1>8, <1>9, <1>10
     DEF CommentsNext

(* A step that takes a lexeme without an error: a move of the table, that  *)
(* stores the mark its new state stands for, ...                           *)
FirstMove == {<<"Comments_kw", "Kw_comments", "Single_or_multiLined">>}

CommentsAdvance ==
  /\ pc' = pc
  /\ \E l \in Upcoming :
       LET stores(t) == l.code = "String" /\ state' = t IN
       /\ li'.code = l.code
       /\ l.code = "String" => li'.val = l.val
       /\ <<state, l.code, state'>> \in CommentsMoves \cup FirstMove
       /\ mark_of_single_lined' =
            IF stores("Single_lined_mark") THEN l.val ELSE mark_of_single_lined
       /\ mark_of_multilined_begin' =
            IF stores("Multi_lined_begin") THEN l.val
                                           ELSE mark_of_multilined_begin
       /\ mark_of_multilined_end' =
            IF stores("Multilined_end") THEN l.val ELSE mark_of_multilined_end
       /\ multilined_is_nested' =
            (multilined_is_nested \/ state' = "Nested")

(* ... or the end of the section in a final state of the automaton.        *)
CommentsEnd ==
  state \in CommentsFinals /\ pc' = "parse" /\ UNCHANGED commentsVars

LEMMA CommentsProcClean ==
  ASSUME ~erroneous, ~erroneous', NEW s, NEW next, NEW wrong,
         CommentsProc(s, next, wrong),
         \A c \in DOMAIN next :
           c \notin wrong => <<s, c, next[c]>> \in CommentsMoves \cup FirstMove
  PROVE  CommentsAdvance \/ CommentsEnd
<1>0. state = s
  BY DEF CommentsProc, CommentsAt
<1>1. \A l \in Upcoming : ~CommentsLeave(l, TRUE)
  BY DEF CommentsLeave, Diagnose
<1>2. \A l \in Upcoming : CommentsRunOut(l) => CommentsEnd
  BY DEF CommentsRunOut, CommentsEnd, Diagnose
<1>3. CASE \E l \in Upcoming : CommentsRunOut(l)
  BY <1>2, <1>3
<1>4. CASE ~\E l \in Upcoming : CommentsRunOut(l)
  <2>1. PICK l \in Upcoming :
          LET stores(t) == l.code = "String" /\ next[l.code] = t IN
          /\ l.code \in DOMAIN next
          /\ current_lexem(l)
          /\ state' = next[l.code]
          /\ mark_of_single_lined' =
               IF stores("Single_lined_mark") THEN l.val
                                              ELSE mark_of_single_lined
          /\ mark_of_multilined_begin' =
               IF stores("Multi_lined_begin") THEN l.val
                                              ELSE mark_of_multilined_begin
          /\ mark_of_multilined_end' =
               IF stores("Multilined_end") THEN l.val
                                           ELSE mark_of_multilined_end
          /\ multilined_is_nested' =
               (multilined_is_nested \/ state' = "Nested")
          /\ Diagnose(l.code \in wrong)
          /\ pc' = pc
    BY <1>1, <1>4 DEF CommentsProc
  <2>2. /\ l.code \notin wrong /\ li'.code = l.code
        /\ l.code = "String" => li'.val = l.val
    BY <2>1 DEF Diagnose, current_lexem, Meet, Token
  <2>3. <<state, l.code, state'>> \in CommentsMoves \cup FirstMove
    BY <1>0, <2>1, <2>2
  <2> QED
    BY <2>1, <2>2, <2>3 DEF CommentsAdvance
<1> QED
  BY <1>3, <1>4

(* Every step without an error is one of these, but for the first, which   *)
(* forgets the marks of an earlier section.                                *)
LEMMA CommentsClean ==
  ASSUME ~erroneous, ~erroneous', CommentsNext
  PROVE  comments_compile_ \/ CommentsAdvance \/ CommentsEnd
<1>1. CASE multilined_end_proc
  BY <1>1 DEF multilined_end_proc, CommentsAt, CommentsLeave, CommentsRunOut,
              CommentsEnd, CommentsFinals
<1>2. CASE comments_kw_proc
  BY <1>2, CommentsProcClean DEF comments_kw_proc, FirstMove
<1>3. CASE single_or_multilined_proc
  BY <1>3, CommentsProcClean DEF single_or_multilined_proc, CommentsMoves
<1>4. CASE single_lined_proc
  BY <1>4, CommentsProcClean DEF single_lined_proc, CommentsMoves
<1>5. CASE multilined_proc
  BY <1>5, CommentsProcClean DEF multilined_proc, CommentsMoves
<1>6. CASE single_lined_mark_proc
  BY <1>6, CommentsProcClean DEF single_lined_mark_proc, CommentsMoves
<1>7. CASE multi_lined_begin_proc
  BY <1>7, CommentsProcClean DEF multi_lined_begin_proc, CommentsMoves
<1>8. CASE nested_proc
  BY <1>8, CommentsProcClean DEF nested_proc, CommentsMoves
<1>9. CASE beg_end_delim_proc
  BY <1>9, CommentsProcClean DEF beg_end_delim_proc, CommentsMoves
<1> QED
  BY <1>1, <1>2, <1>3, <1>4, <1>5, <1>6, <1>7, <1>8, <1>9 DEF CommentsNext

(* What has been given, and stored, by the time a state is reached without *)
(* an error.                                                               *)
NoMultilined == ~Given("Multi_lined_begin") /\ ~Given("Multilined_end")

Stored ==
  /\ given \subseteq StoredMarks
  /\ \A m \in StoredMarks : m[2] # 0 => m \in given

MarksOf(s) ==
  /\ s # "call" => Stored
  /\ s \in {"Comments_kw", "Single_or_multiLined", "Single_lined"} =>
       given = {} /\ ~multilined_is_nested
  /\ s = "Single_lined_mark" =>
       Given("Single_lined_mark") /\ NoMultilined /\ ~multilined_is_nested
  /\ s = "Multilined" => NoMultilined /\ ~multilined_is_nested
  /\ s = "Nested" => NoMultilined
  /\ s \in {"Multi_lined_begin", "Beg_end_delim"} =>
       Given("Multi_lined_begin") /\ ~Given("Multilined_end")
  /\ s = "Multilined_end" =>
       Given("Multi_lined_begin") /\ Given("Multilined_end")

(* What the generators count on.                                           *)
MarksComplete ==
  /\ Given("Multi_lined_begin") <=> Given("Multilined_end")
  /\ multilined_is_nested => Given("Multi_lined_begin")
  /\ Given("Single_lined_mark") \/ Given("Multi_lined_begin")
  /\ Stored

(* A literal read to the state t of a mark that was not given yet.         *)
MarkTaken(t, v) ==
  /\ given' = given \cup {<<t, v>>}
  /\ mark_of_single_lined' =
       IF t = "Single_lined_mark" THEN v ELSE mark_of_single_lined
  /\ mark_of_multilined_begin' =
       IF t = "Multi_lined_begin" THEN v ELSE mark_of_multilined_begin
  /\ mark_of_multilined_end' =
       IF t = "Multilined_end" THEN v ELSE mark_of_multilined_end

LEMMA StoredMore ==
  ASSUME Stored, NEW v,
         NEW t \in {"Single_lined_mark", "Multi_lined_begin", "Multilined_end"},
         ~Given(t), MarkTaken(t, v)
  PROVE  Stored' /\ \A s : Given(s)' <=> Given(s) \/ s = t
<1>1. \A s : Given(s)' <=> Given(s) \/ s = t
  <2>1. given' = given \cup {<<t, v>>} /\ <<t, v>>[1] = t
    BY DEF MarkTaken
  <2>2. \A s : (\E m \in given' : m[1] = s)
                <=> (\E m \in given : m[1] = s) \/ s = t
    BY ONLY <2>1
  <2> QED
    BY <2>2 DEF Given
<1>2. given' \subseteq StoredMarks'
  BY DEF MarkTaken, Stored, StoredMarks, Given
<1>3. \A m \in StoredMarks' : m[2] # 0 => m \in given'
  BY DEF MarkTaken, Stored, StoredMarks, Given
<1> QED
  BY <1>1, <1>2, <1>3 DEF Stored

(* The states say what has been given, and a section that ends without an  *)
(* error leaves the marks complete.                                        *)
LEMMA CommentsMarks ==
  ASSUME ReaderTypeOK, ~erroneous, ~erroneous', CommentsNext, Remember,
         MarksOf(state)
  PROVE  /\ pc' = "Kw_comments" => MarksOf(state)'
         /\ pc' # "Kw_comments" => MarksComplete'
<1>0. pc = "Kw_comments"
  BY DEF CommentsNext, comments_compile_, comments_kw_proc,
     single_or_multilined_proc, single_lined_proc, multilined_proc,
     single_lined_mark_proc, multi_lined_begin_proc, nested_proc,
     beg_end_delim_proc, multilined_end_proc, CommentsProc, CommentsAt
<1>1. CASE comments_compile_
  <2>1. given' = {} /\ ~multilined_is_nested' /\ state' = "Comments_kw"
        /\ mark_of_single_lined' = 0 /\ mark_of_multilined_begin' = 0
        /\ mark_of_multilined_end' = 0 /\ pc' = "Kw_comments"
    BY <1>0, <1>1 DEF comments_compile_, Remember, CommentsAt
  <2>2. Stored'
    BY <2>1 DEF Stored, StoredMarks
  <2> QED
    BY <2>1, <2>2 DEF MarksOf
<1>2. CASE CommentsEnd
  <2>1. /\ state \in CommentsFinals /\ state # "call"
        /\ pc' = "parse" /\ UNCHANGED commentsVars
    BY <1>2 DEF CommentsEnd, CommentsFinals
  <2>2. given' = given
    BY <1>0, <2>1 DEF Remember, CommentsAt
  <2>3. MarksComplete
    BY <2>1 DEF CommentsFinals, MarksOf, NoMultilined, MarksComplete
  <2> QED
    BY <2>1, <2>2, <2>3 DEF MarksComplete, Given, Stored, StoredMarks,
                            commentsVars
<1>3. CASE CommentsAdvance
  <2>1. PICK l \in Upcoming :
          LET stores(t) == l.code = "String" /\ state' = t IN
          /\ li'.code = l.code
          /\ l.code = "String" => li'.val = l.val
          /\ <<state, l.code, state'>> \in CommentsMoves \cup FirstMove
          /\ mark_of_single_lined' =
               IF stores("Single_lined_mark") THEN l.val
                                              ELSE mark_of_single_lined
          /\ mark_of_multilined_begin' =
               IF stores("Multi_lined_begin") THEN l.val
                                              ELSE mark_of_multilined_begin
          /\ mark_of_multilined_end' =
               IF stores("Multilined_end") THEN l.val
                                           ELSE mark_of_multilined_end
          /\ multilined_is_nested' =
               (multilined_is_nested \/ state' = "Nested")
    BY <1>3 DEF CommentsAdvance
  <2>2. state # "call" /\ state' # "call" /\ pc' = pc
    BY <1>3, <2>1 DEF CommentsAdvance, CommentsMoves, FirstMove
  <2>3. Stored
    BY <2>2 DEF MarksOf
  <2>4. CASE l.code # "String"
    <3>1. given' = given
      BY <2>1, <2>2, <2>4 DEF Remember, CommentsAt
    <3>2. Stored' /\ \A s : Given(s)' <=> Given(s)
      BY <2>1, <2>3, <2>4, <3>1 DEF Stored, StoredMarks, Given
    <3>3. <<state, l.code, state'>> \in
            { <<"Comments_kw", "Kw_comments", "Single_or_multiLined">>,
              <<"Single_or_multiLined", "Kw_single_lined", "Single_lined">>,
              <<"Single_or_multiLined", "Kw_multilined",   "Multilined">>,
              <<"Multilined",           "Kw_nested",       "Nested">>,
              <<"Single_lined_mark",    "Kw_multilined",   "Multilined">>,
              <<"Multi_lined_begin",    "Colon",       "Beg_end_delim">> }
      BY <2>1, <2>4 DEF CommentsMoves, FirstMove
    <3>4. /\ Given("Single_lined_mark")' <=> Given("Single_lined_mark")
          /\ Given("Multi_lined_begin")' <=> Given("Multi_lined_begin")
          /\ Given("Multilined_end")' <=> Given("Multilined_end")
          /\ given = {} => NoMultilined
      BY <3>2 DEF NoMultilined, Given
    <3>5. CASE state' \in {"Single_or_multiLined", "Single_lined"}
      <4>1. given' = {} /\ ~multilined_is_nested'
        BY <2>1, <3>1, <3>3, <3>5 DEF MarksOf
      <4>2. MarksOf(state)'
        BY <2>2, <3>2, <3>5, <4>1 DEF MarksOf
      <4> QED
        BY <1>0, <2>2, <4>2
    <3>6. CASE state' \in {"Multilined", "Nested"}
      <4>1. NoMultilined /\ (state' = "Multilined" => ~multilined_is_nested')
        BY <2>1, <3>3, <3>4, <3>6 DEF MarksOf
      <4>2. MarksOf(state)'
        BY <2>2, <3>2, <3>4, <3>6, <4>1 DEF MarksOf, NoMultilined
      <4> QED
        BY <1>0, <2>2, <4>2
    <3>7. CASE state' = "Beg_end_delim"
      <4>1. Given("Multi_lined_begin") /\ ~Given("Multilined_end")
        BY <3>3, <3>7 DEF MarksOf
      <4>2. MarksOf(state)'
        BY <2>2, <3>2, <3>4, <3>7, <4>1 DEF MarksOf
      <4> QED
        BY <1>0, <2>2, <4>2
    <3> QED
      BY <3>3, <3>5, <3>6, <3>7
  <2>5. CASE l.code = "String"
    <3>1. PICK t \in {"Single_lined_mark", "Multi_lined_begin",
                      "Multilined_end"} :
            /\ state' = t
            /\ <<state, t>> \in { <<"Single_lined", "Single_lined_mark">>,
                                  <<"Multilined",   "Multi_lined_begin">>,
                                  <<"Nested",       "Multi_lined_begin">>,
                                  <<"Beg_end_delim", "Multilined_end">> }
      BY <2>1, <2>5 DEF CommentsMoves, FirstMove
    <3>2. ~Given(t)
      BY <3>1 DEF MarksOf, NoMultilined, Given
    <3>3. MarkTaken(t, l.val)
      BY <1>0, <2>1, <2>2, <2>5, <3>1 DEF MarkTaken, Remember, CommentsAt
    <3>4. Stored' /\ \A s : Given(s)' <=> Given(s) \/ s = t
      BY <2>3, <3>2, <3>3, StoredMore
    <3>5. /\ Given("Single_lined_mark")' <=>
               Given("Single_lined_mark") \/ t = "Single_lined_mark"
          /\ Given("Multi_lined_begin")' <=>
               Given("Multi_lined_begin") \/ t = "Multi_lined_begin"
          /\ Given("Multilined_end")' <=>
               Given("Multilined_end") \/ t = "Multilined_end"
      BY <3>4
    <3>6. CASE t = "Single_lined_mark"
      <4>1. NoMultilined /\ ~multilined_is_nested'
        BY <2>1, <3>1, <3>6 DEF MarksOf, NoMultilined, Given
      <4>2. MarksOf(state)'
        BY <2>2, <3>1, <3>4, <3>5, <3>6, <4>1 DEF MarksOf, NoMultilined
      <4> QED
        BY <1>0, <2>2, <4>2
    <3>7. CASE t = "Multi_lined_begin"
      <4>1. NoMultilined
        BY <3>1, <3>7 DEF MarksOf
      <4>2. MarksOf(state)'
        BY <2>2, <3>1, <3>4, <3>5, <3>7, <4>1 DEF MarksOf, NoMultilined
      <4> QED
        BY <1>0, <2>2, <4>2
    <3>8. CASE t = "Multilined_end"
      <4>1. Given("Multi_lined_begin")
        BY <3>1, <3>8 DEF MarksOf
      <4>2. MarksOf(state)'
        BY <2>2, <3>1, <3>4, <3>5, <3>8, <4>1 DEF MarksOf
      <4> QED
        BY <1>0, <2>2, <4>2
    <3> QED
      BY <3>6, <3>7, <3>8
  <2> QED
    BY <2>2, <2>4, <2>5
<1> QED
  BY <1>1, <1>2, <1>3, CommentsClean

LEMMA CommentsOutside ==
  ASSUME ~erroneous, ~erroneous',
         pc # "Kw_comments" \/ state \in {"call", "Comments_kw"},
         pc' # "Kw_comments"
           \/ state' \in {"call", "Comments_kw", "Single_or_multiLined"}
  PROVE  CommentsGrammar!Next
BY DEF CommentsGrammar!Next, CommentsGrammar!Outside, CommentsPlace

(* A step of the parser of %comments is a step of the automaton of         *)
(* comments_parser.h.                                                      *)
LEMMA CommentsGrammarStep ==
  ASSUME ScopeTypeOK, CommentsTypeOK, ReaderTypeOK, CommentsNext
  PROVE  CommentsGrammar!Next
<1>1. CASE erroneous'
  BY <1>1 DEF CommentsGrammar!Next, CommentsGrammar!Diagnose, CommentsPlace
<1>2. CASE ~erroneous'
  <2>0. ~erroneous /\ pc = "Kw_comments"
    BY <1>2, CommentsStep DEF Onward
  <2>1. CASE comments_compile_
    BY <1>2, <2>0, <2>1, CommentsOutside DEF comments_compile_, CommentsAt
  <2>2. CASE CommentsEnd
    <3>1. /\ CommentsPlace = state /\ CommentsPlace' = "outside"
      BY <1>2, <2>0, <2>2 DEF CommentsEnd, CommentsFinals, CommentsPlace
    <3> QED
      BY <2>2, <3>1 DEF CommentsGrammar!Next, CommentsGrammar!Leave,
                        CommentsEnd
  <2>3. CASE CommentsAdvance
    <3>1. CASE <<state, li'.code, state'>> \in CommentsMoves
      <4>1. CommentsPlace = state /\ CommentsPlace' = state'
        BY <1>2, <2>0, <2>3, <3>1
           DEF CommentsAdvance, CommentsMoves, CommentsPlace
      <4> QED
        BY <3>1, <4>1 DEF CommentsGrammar!Next, CommentsGrammar!Advance
    <3>2. CASE <<state, li'.code, state'>> \in FirstMove
      BY <1>2, <2>0, <3>2, CommentsOutside DEF FirstMove
    <3> QED
      BY <2>3, <3>1, <3>2 DEF CommentsAdvance
  <2> QED
    BY <1>2, <2>0, <2>1, <2>2, <2>3, CommentsClean
<1> QED
  BY <1>1, <1>2

-----------------------------------------------------------------------------
(* The parsers of the sections called by Main_parser.                      *)

(* The inductive invariant behind the types: nothing is looked up in idsc  *)
(* under an uninitialised number.                                          *)
IInv == TypeOK /\ StaleIsLiteral /\ ActionNamed

-----------------------------------------------------------------------------
(* What a step may do to the scope, the enumeration and the vectors of     *)
(* literals: nothing, what a section parser does to them, ...              *)
NameKinds == {"Scaner_name", "Codes_type_name", "Lexem_ident_name"}

(* ... a name is given to the scanner, to its codes or to its identifiers, *)
NameGiven ==
  /\ \E i \in IdIdxs, k \in NameKinds, g \in Garbage :
       idsc' = [idsc EXCEPT ![i] = [kind |-> k, code |-> g]]
  /\ UNCHANGED <<strsc, codes, last_code>>

(* ... or the mark of a comment becomes a delimiter.                       *)
MarkAdded ==
  \E d \in IdIdxs, m \in StrIdxs : add_fictive_delimiter(d, m)

TableStep ==
  \/ Unscoped
  \/ Effect
  \/ UNCHANGED repres /\ (CodeAdded \/ NewlineAdded \/ BodyGiven \/ NameGiven)
  \/ MarkAdded

(* Whatever it is, the types stand.                                        *)
LEMMA MarkAddedType ==
  ASSUME ScopeTypeOK, KwTypeOK, erroneous' \in BOOLEAN, MarkAdded
  PROVE  ScopeTypeOK' /\ repres' \in [KwSections -> Seq(StrIdxs)]
<1>1. PICK d \in IdIdxs, m \in StrIdxs : add_fictive_delimiter(d, m)
  BY DEF MarkAdded
<1>2. d \in Indices
  BY IndicesNat
<1>3. /\ idsc' \in [Indices -> IdAttr]
      /\ codes' \in Seq(Indices)
      /\ last_code' \in Nat
  BY <1>1, <1>2, NewCodeType DEF add_fictive_delimiter, ScopeTypeOK
<1>4. idsc'[d].code \in Nat
  BY <1>2, <1>3 DEF IdAttr, Absent
<1>5. strsc' \in [StrIdxs -> StrAttr]
  BY <1>1, <1>4 DEF add_fictive_delimiter, ScopeTypeOK, StrAttr, StrKinds
<1>6. repres' \in [KwSections -> Seq(StrIdxs)]
  <2>1. Append(repres["Kw_delimiters"], m) \in Seq(StrIdxs)
    BY DEF KwTypeOK, KwSections
  <2>2. repres' = repres \/ repres' =
          [repres EXCEPT !["Kw_delimiters"] = Append(repres["Kw_delimiters"], m)]
    BY <1>1 DEF add_fictive_delimiter
  <2> QED
    BY <2>1, <2>2 DEF KwTypeOK
<1> QED
  BY <1>3, <1>5, <1>6 DEF ScopeTypeOK

LEMMA TableStepType ==
  ASSUME ScopeTypeOK, KwTypeOK, erroneous' \in BOOLEAN, TableStep, ~Effect
  PROVE  ScopeTypeOK' /\ repres' \in [KwSections -> Seq(StrIdxs)]
<1>0. /\ IdIdxs \subseteq Indices /\ Ids \subseteq Indices
      /\ Strs \subseteq StrIdxs /\ StrIdxs \subseteq Nat
      /\ newline_idx \in Indices
      /\ Garbage \subseteq Nat
  BY IndicesNat, ScopeAssumption, ReaderAssumption
     DEF newline_idx, IdIdxs, BuiltinNames, Indices
<1>1. CASE Unscoped
  BY <1>1 DEF Unscoped, ScopeTypeOK, KwTypeOK
<1>2. CASE UNCHANGED repres /\ CodeAdded
  BY <1>2, NewCodeType DEF CodeAdded, ScopeTypeOK, KwTypeOK
<1>3. CASE UNCHANGED repres /\ NewlineAdded
  BY <1>0, <1>3 DEF NewlineAdded, ScopeTypeOK, KwTypeOK, IdAttr, IdKinds
<1>4. CASE UNCHANGED repres /\ BodyGiven
  BY <1>0, <1>4 DEF BodyGiven, ScopeTypeOK, KwTypeOK, IdAttr, IdKinds,
                    StrAttr, StrKinds
<1>5. CASE UNCHANGED repres /\ NameGiven
  BY <1>0, <1>5 DEF NameGiven, NameKinds, ScopeTypeOK, KwTypeOK, IdAttr,
                    IdKinds
<1> QED
  BY <1>1, <1>2, <1>3, <1>4, <1>5, MarkAddedType DEF TableStep

-----------------------------------------------------------------------------
(* The types of what is not in the reader, the scope or the vectors.       *)
OwnTypes ==
  /\ postaction \in [KwSections -> StrIdxs]
  /\ maybe_repres_str_idx \in StrIdxs
  /\ idx \in StrIdxs
  /\ CodesTypeOK
  /\ NsTypeOK
  /\ CommentsTypeOK
  /\ names \in [NameSections \cup {"Kw_lexem_info_name"} -> IdIdxs \cup {0}]
  /\ texts \in [TextSections -> StrIdxs]
  /\ id_filled \subseteq Parts
  /\ used \subseteq Automata
  /\ pc \in Sections \cup Ends \cup
           {"parse", "verify", "add_fictive_delimiters"}

LEMMA TypesSplit ==
  TypeOK <=> /\ ReaderTypeOK /\ ScopeTypeOK /\ OwnTypes
             /\ repres \in [KwSections -> Seq(StrIdxs)]
BY DEF TypeOK, OwnTypes, KwTypeOK

(* A parser with states is entered in the first of them.                   *)
Working == KwSections \cup NsSections \cup {"Kw_comments"}

Quiet == pc' \in Working => state' = "call"

(* The step of somebody else, as the parser of the sections S sees it.     *)
Elsewhere(S) == pc \notin S /\ (pc' \in S => state' = "call")

(* What is to be shown of an action of Main_parser's own.                  *)
Sound ==
  /\ Reads /\ TableStep
  /\ erroneous' \in BOOLEAN /\ (erroneous => erroneous')
  /\ Quiet
  /\ OwnTypes'

LEMMA SoundStep ==
  ASSUME IInv, Sound, ~Effect
  PROVE  IInv'
<1>1. ReaderTypeOK'
  BY ReadsType DEF Sound, IInv, TypeOK
<1>2. ScopeTypeOK' /\ (repres \in [KwSections -> Seq(StrIdxs)])'
  BY TableStepType DEF Sound, IInv, TypeOK
<1>3. TypeOK'
  BY <1>1, <1>2 DEF TypeOK, Sound, OwnTypes, KwTypeOK
<1>4. StaleIsLiteral' /\ ActionNamed'
  BY DEF Sound, Quiet, Working, StaleIsLiteral, ActionNamed, KwAt, NsAt
<1> QED
  BY <1>3, <1>4 DEF IInv

-----------------------------------------------------------------------------
(* The actions of Main_parser itself, and of the sections without state.   *)
OwnAction ==
  \/ dispatch \/ skip_unknown \/ end_of_text \/ keyword
  \/ name_section_handling \/ set_default_name \/ text_section
  \/ lexem_info_name \/ idents_sec \/ id_expression \/ verify
  \/ add_fictive_delimiters

LEMMA HandlerSection ==
  ASSUME NEW c \in LexemCodes \ {"None", "Unknown"}
  PROVE  Handler(c) \in Sections
<1>1. c \in Sections \cup {"Id", "String", "Comma", "Colon",
                          "Opened_fig_brack", "Closed_fig_brack", "Kw_action",
                          "Kw_multilined", "Kw_nested", "Kw_single_lined"}
  BY DEF LexemCodes
<1>2. CASE c \in {"Comma", "Id"}
  BY <1>2 DEF Handler, Sections
<1>3. CASE c \in {"Opened_fig_brack", "Closed_fig_brack", "String", "Colon"}
  BY <1>3 DEF Handler, Sections
<1>4. CASE c = "Kw_action"
  BY <1>4 DEF Handler, Sections
<1>5. CASE c \in {"Kw_nested", "Kw_multilined", "Kw_single_lined"}
  BY <1>5 DEF Handler, Sections
<1>6. CASE c \in Sections
  BY <1>6 DEF Handler, Sections
<1> QED
  BY <1>1, <1>2, <1>3, <1>4, <1>5, <1>6

LEMMA OwnActionSound ==
  ASSUME IInv, OwnAction
  PROVE  Sound /\ pc \notin Working
<1>0. /\ OwnTypes /\ erroneous \in BOOLEAN /\ ReaderTypeOK
      /\ 0 \in StrIdxs /\ Ids \subseteq IdIdxs /\ Strs \subseteq StrIdxs
  BY TypesSplit, IndicesNat DEF IInv, ScopeTypeOK, IdIdxs
<1>a. pc \notin Working
  BY DEF OwnAction, dispatch, skip_unknown, end_of_text, keyword,
     name_section_handling, set_default_name, text_section, lexem_info_name,
     idents_sec, id_expression, verify, add_fictive_delimiters, Working,
     KwSections, NsSections, NameSections, TextSections
<1>1. CASE dispatch
  <2>1. PICK l \in Upcoming :
          /\ l.code \notin {"None", "Unknown"}
          /\ peek(l)
          /\ pc' = Handler(l.code)
          /\ used' = used \cup AutomatonOf(Handler(l.code))
    BY <1>1 DEF dispatch
  <2>2. Handler(l.code) \in Sections
    BY <1>0, <2>1, UpcomingLexem, HandlerSection
  <2>3. AutomatonOf(Handler(l.code)) \subseteq Automata
    BY DEF AutomatonOf, Automata
  <2>4. OwnTypes'
    BY <1>0, <1>1, <2>1, <2>2, <2>3 DEF dispatch, OwnTypes, CodesTypeOK,
       NsTypeOK, CommentsTypeOK, codesVars, nsVars, commentsVars
  <2>5. Reads /\ TableStep /\ Quiet /\ erroneous' = erroneous
    BY <1>1, <2>1 DEF dispatch, Reads, TableStep, Unscoped, scopeVars, Quiet, Working
  <2> QED
    BY <1>0, <1>a, <2>4, <2>5 DEF Sound
<1>2. CASE skip_unknown \/ end_of_text
  <2>1. Reads /\ UNCHANGED <<scopeVars, state, sectionVars, mainVars>>
        /\ pc' \in {pc, "verify"} /\ pc = "parse"
    BY <1>2 DEF skip_unknown, end_of_text, Reads
  <2>2. OwnTypes'
    BY <1>0, <2>1 DEF OwnTypes, CodesTypeOK, NsTypeOK, CommentsTypeOK,
       sectionVars, kwVars, codesVars, nsVars, commentsVars, mainVars
  <2>3. TableStep /\ Quiet /\ erroneous' = erroneous
    BY <2>1 DEF TableStep, Unscoped, scopeVars, sectionVars, kwVars, Quiet, Working,
                KwSections, NsSections
  <2> QED
    BY <1>0, <1>a, <2>1, <2>2, <2>3 DEF Sound
<1>3. CASE keyword
  <2>1. Reads
    BY <1>3 DEF keyword, Reads
  <2>2. OwnTypes'
    BY <1>0, <1>3 DEF keyword, OwnTypes, CodesTypeOK, NsTypeOK,
       CommentsTypeOK, sectionVars, kwVars, codesVars, nsVars, commentsVars,
       mainVars
  <2>3. TableStep /\ Quiet /\ erroneous' = erroneous
    BY <1>a, <1>3 DEF keyword, TableStep, Unscoped, scopeVars, sectionVars,
                      kwVars, Quiet, Working
  <2> QED
    BY <1>0, <1>a, <2>1, <2>2, <2>3 DEF Sound
<1>4. CASE name_section_handling
  <2>1. PICK l \in Upcoming :
       /\ l.code = "Id"
       /\ current_lexem(l)
       /\ Diagnose(Defined(idsc, l.val))
       /\ IF Defined(idsc, l.val)
          THEN UNCHANGED <<idsc, names, used>>
          ELSE /\ Give(l.val)
               /\ used' = IF pc = "Kw_ident_name" THEN used \cup {"Id_aut"}
                                                  ELSE used
    BY <1>4 DEF name_section_handling
  <2>2. /\ pc \in NameSections /\ pc' = "parse" /\ IdKindOf(pc) \in NameKinds
        /\ UNCHANGED <<strsc, codes, last_code, state, sectionVars, texts,
                       id_filled>>
    BY <1>4 DEF name_section_handling, IdKindOf, NameKinds, NameSections
  <2>3. l.val \in IdIdxs
    BY <1>0, <2>1, UpcomingLexem
  <2>4. names' \in [NameSections \cup {"Kw_lexem_info_name"} -> IdIdxs \cup {0}]
    BY <1>0, <2>1, <2>2, <2>3 DEF Give, OwnTypes
  <2>5. used' \subseteq Automata
    BY <1>0, <2>1 DEF OwnTypes, Automata
  <2>6. OwnTypes'
    BY <1>0, <2>2, <2>4, <2>5 DEF OwnTypes, CodesTypeOK, NsTypeOK,
       CommentsTypeOK, sectionVars, kwVars, codesVars, nsVars, commentsVars
  <2>7. TableStep
    <3>1. CASE Defined(idsc, l.val)
      BY <2>1, <2>2, <3>1 DEF TableStep, Unscoped, sectionVars, kwVars
    <3>2. CASE ~Defined(idsc, l.val)
      BY <2>1, <2>2, <2>3, <3>2 DEF TableStep, NameGiven, Give, sectionVars,
                                    kwVars
    <3> QED
      BY <3>1, <3>2
  <2>8. Reads /\ Quiet /\ erroneous' \in BOOLEAN /\ (erroneous => erroneous')
    BY <1>0, <2>1, <2>2 DEF Reads, Quiet, Working, KwSections, NsSections, Diagnose
  <2> QED
    BY <1>a, <2>6, <2>7, <2>8 DEF Sound
<1>5. CASE set_default_name
  <2>1. /\ pc \in NameSections /\ pc' = "parse" /\ Reads
        /\ UNCHANGED <<erroneous, strsc, codes, last_code, state, sectionVars,
                       texts, id_filled, used>>
    BY <1>5 DEF set_default_name, Reads
  <2>2. \/ Give(builtin["Scaner"])
        \/ Give(builtin["Lexem_code"])
        \/ UNCHANGED <<idsc, names>>
    BY <1>5 DEF set_default_name, NameSections
  <2>3. /\ builtin["Scaner"] \in IdIdxs /\ builtin["Lexem_code"] \in IdIdxs
        /\ IdKindOf(pc) \in NameKinds
    BY <2>1 DEF IdIdxs, BuiltinNames, IdKindOf, NameKinds, NameSections
  <2>4. names' \in [NameSections \cup {"Kw_lexem_info_name"} -> IdIdxs \cup {0}]
    BY <1>0, <2>1, <2>2, <2>3 DEF Give, OwnTypes
  <2>5. OwnTypes'
    BY <1>0, <2>1, <2>4 DEF OwnTypes, CodesTypeOK, NsTypeOK,
       CommentsTypeOK, sectionVars, kwVars, codesVars, nsVars, commentsVars
  <2>6. TableStep
    BY <2>1, <2>2, <2>3 DEF TableStep, Unscoped, NameGiven, Give, sectionVars,
                            kwVars
  <2>7. Quiet
    BY <2>1 DEF Quiet, Working, KwSections, NsSections
  <2> QED
    BY <1>0, <1>a, <2>1, <2>5, <2>6, <2>7 DEF Sound
<1>6. CASE text_section
  <2>1. PICK l \in Upcoming :
       \/ /\ l.code = "String"
          /\ current_lexem(l)
          /\ texts' = [texts EXCEPT ![pc] = l.val]
          /\ UNCHANGED erroneous
       \/ /\ peek(l)
          /\ \/ Diagnose(TRUE) /\ UNCHANGED texts
             \/ texts' = [texts EXCEPT ![pc] = 0] /\ UNCHANGED erroneous
    BY <1>6 DEF text_section
  <2>2. /\ pc' = "parse" /\ Stay
        /\ UNCHANGED <<state, sectionVars, names, id_filled, used>>
    BY <1>6 DEF text_section
  <2>3. l.code = "String" => l.val \in StrIdxs
    BY <1>0, UpcomingLexem
  <2>4. texts' \in [TextSections -> StrIdxs]
    BY <1>0, <2>1, <2>3 DEF OwnTypes
  <2>5. OwnTypes'
    BY <1>0, <2>2, <2>4 DEF OwnTypes, CodesTypeOK, NsTypeOK,
       CommentsTypeOK, sectionVars, kwVars, codesVars, nsVars, commentsVars
  <2>6. TableStep /\ Quiet
    BY <2>2 DEF TableStep, Unscoped, Stay, sectionVars, kwVars, Quiet, Working,
                KwSections, NsSections
  <2>7. Reads /\ erroneous' \in BOOLEAN /\ (erroneous => erroneous')
    BY <1>0, <2>1 DEF Reads, Diagnose
  <2> QED
    BY <1>a, <2>5, <2>6, <2>7 DEF Sound
<1>7. CASE lexem_info_name
  <2>1. PICK l \in Upcoming :
       \/ /\ l.code = "Id"
          /\ current_lexem(l)
          /\ names' = [names EXCEPT ![pc] = l.val]
       \/ /\ peek(l)
          /\ names' = [names EXCEPT ![pc] = 0]
    BY <1>7 DEF lexem_info_name
  <2>2. /\ pc' = "parse"
        /\ UNCHANGED <<scopeVars, state, sectionVars, texts, id_filled, used>>
    BY <1>7 DEF lexem_info_name
  <2>3. l.code = "Id" => l.val \in IdIdxs
    BY <1>0, UpcomingLexem
  <2>4. names' \in [NameSections \cup {"Kw_lexem_info_name"} -> IdIdxs \cup {0}]
    BY <1>0, <2>1, <2>3 DEF OwnTypes
  <2>5. OwnTypes'
    BY <1>0, <2>2, <2>4 DEF OwnTypes, CodesTypeOK, NsTypeOK,
       CommentsTypeOK, sectionVars, kwVars, codesVars, nsVars, commentsVars
  <2>6. TableStep /\ Quiet /\ Reads /\ erroneous' = erroneous
    BY <2>1, <2>2 DEF TableStep, Unscoped, scopeVars, sectionVars, kwVars,
                      Quiet, Working, KwSections, NsSections, Reads
  <2> QED
    BY <1>0, <1>a, <2>5, <2>6 DEF Sound
<1>8. CASE idents_sec
  <2>1. /\ pc' = pc /\ Stay /\ Reads
        /\ UNCHANGED <<sectionVars, mainVars>>
        /\ erroneous' = (erroneous \/ names["Kw_ident_name"] = 0)
    BY <1>8 DEF idents_sec, Diagnose, Reads
  <2>2. OwnTypes'
    BY <1>0, <2>1 DEF OwnTypes, CodesTypeOK, NsTypeOK, CommentsTypeOK,
       sectionVars, kwVars, codesVars, nsVars, commentsVars, mainVars
  <2>3. TableStep /\ Quiet
    BY <1>a, <2>1 DEF TableStep, Unscoped, Stay, sectionVars, kwVars, Quiet, Working
  <2> QED
    BY <1>0, <1>a, <2>1, <2>2, <2>3 DEF Sound
<1>9. CASE id_expression
  <2>1. PICK l \in Upcoming :
       /\ current_lexem(l)
       /\ Diagnose(l.code # "Opened_fig_brack" \/ l.val # 0)
       /\ id_filled' = IF l.code = "Opened_fig_brack"
                       THEN id_filled \cup {state} ELSE id_filled
    BY <1>9 DEF id_expression
  <2>2. /\ pc' \in {pc, "parse"} /\ Stay /\ state \in Parts
        /\ UNCHANGED <<sectionVars, names, texts, used>>
    BY <1>9 DEF id_expression
  <2>3. OwnTypes'
    BY <1>0, <2>1, <2>2 DEF OwnTypes, CodesTypeOK, NsTypeOK,
       CommentsTypeOK, sectionVars, kwVars, codesVars, nsVars, commentsVars
  <2>4. TableStep /\ Quiet
    BY <1>a, <2>2 DEF TableStep, Unscoped, Stay, sectionVars, kwVars, Quiet, Working,
                      KwSections, NsSections
  <2>5. Reads /\ erroneous' \in BOOLEAN /\ (erroneous => erroneous')
    BY <1>0, <2>1 DEF Reads, Diagnose
  <2> QED
    BY <1>a, <2>3, <2>4, <2>5 DEF Sound
<1>10. CASE verify
  <2>1. /\ Stay /\ UNCHANGED <<readerVars, sectionVars, mainVars>>
        /\ pc' \in {"rejected", "crashed", "add_fictive_delimiters", "generate"}
        /\ erroneous' \in BOOLEAN /\ (erroneous => erroneous')
    BY <1>0, <1>10 DEF verify
  <2>2. OwnTypes'
    BY <1>0, <2>1 DEF OwnTypes, CodesTypeOK, NsTypeOK, CommentsTypeOK, Ends,
       sectionVars, kwVars, codesVars, nsVars, commentsVars, mainVars
  <2>3. TableStep /\ Quiet /\ Reads
    BY <2>1 DEF TableStep, Unscoped, Stay, sectionVars, kwVars, Quiet, Working,
                KwSections, NsSections, Reads
  <2> QED
    BY <1>a, <2>1, <2>2, <2>3 DEF Sound
<1>11. CASE add_fictive_delimiters
  <2>1. /\ pc' \in {pc, "generate"} /\ Reads
        /\ UNCHANGED <<postaction, maybe_repres_str_idx, idx, codesVars, nsVars,
                       commentsVars, mainVars>>
    BY <1>11 DEF add_fictive_delimiters, Reads
  <2>2. OwnTypes'
    BY <1>0, <2>1 DEF OwnTypes, CodesTypeOK, NsTypeOK, CommentsTypeOK, Ends,
       codesVars, nsVars, commentsVars, mainVars
  <2>3. PICK n \in 1 .. 3 :
          IF Marks[n][3] = 0
          THEN UNCHANGED <<scopeVars, repres>>
          ELSE add_fictive_delimiter(builtin[Marks[n][2]], Marks[n][3])
    BY <1>11 DEF add_fictive_delimiters
  <2>4. builtin[Marks[n][2]] \in IdIdxs /\ Marks[n][3] \in StrIdxs
    <3>1. n = 1 \/ n = 2 \/ n = 3
      OBVIOUS
    <3>2. Marks[n][2] \in BuiltinNames
      BY <3>1 DEF Marks, BuiltinNames
    <3>3. Marks[n][3] \in StrIdxs
      BY <1>0, <3>1 DEF Marks, OwnTypes, CommentsTypeOK
    <3> QED
      BY <3>2, <3>3 DEF IdIdxs
  <2>5. TableStep
    BY <2>3, <2>4 DEF TableStep, Unscoped, scopeVars, MarkAdded
  <2>6. Quiet
    BY <1>a, <2>1 DEF Quiet, Working, KwSections, NsSections
  <2>7. erroneous' \in BOOLEAN /\ (erroneous => erroneous')
    BY <1>0, <2>3 DEF add_fictive_delimiter, Diagnose, scopeVars
  <2> QED
    BY <1>a, <2>1, <2>2, <2>5, <2>6, <2>7 DEF Sound
<1> QED
  BY <1>1, <1>2, <1>3, <1>4, <1>5, <1>6, <1>7, <1>8, <1>9, <1>10, <1>11
     DEF OwnAction

-----------------------------------------------------------------------------
(* The whole of Next.                                                      *)

LEMMA InitInv == Init => IInv
<1> SUFFICES ASSUME Init PROVE IInv
  OBVIOUS
<1>1. ReaderTypeOK /\ ScopeTypeOK
  BY ReaderInitType, ScopeInitType DEF Init
<1>2. repres \in [KwSections -> Seq(StrIdxs)]
  BY DEF Init, KwInit
<1>3. OwnTypes
  <2>1. CodesTypeOK /\ NsTypeOK /\ CommentsTypeOK
    BY IndicesNat, ReaderAssumption DEF Init, CodesInit, CodesTypeOK, NsInit,
       NsTypeOK, CommentsInit, CommentsTypeOK
  <2>2. /\ postaction \in [KwSections -> StrIdxs]
        /\ maybe_repres_str_idx \in StrIdxs /\ idx \in StrIdxs
    BY IndicesNat DEF Init, KwInit
  <2>3. /\ names \in [NameSections \cup {"Kw_lexem_info_name"} ->
                         IdIdxs \cup {0}]
        /\ texts \in [TextSections -> StrIdxs]
    BY IndicesNat DEF Init
  <2> QED
    BY <2>1, <2>2, <2>3 DEF Init, OwnTypes
<1> QED
  BY <1>1, <1>2, <1>3, TypesSplit DEF Init, IInv, StaleIsLiteral, KwAt, KwSections,
     ActionNamed, NsAt, NsSections

(* Every step keeps the invariant, does one of the few things above to the *)
(* tables, takes no diagnostic back, and is a step of the parser of a      *)
(* section only if that one is at work.                                    *)
Apart ==
  /\ KwNext       \/ Elsewhere(KwSections)
  /\ NsNext       \/ Elsewhere(NsSections)
  /\ CommentsNext \/ Elsewhere({"Kw_comments"})

LEMMA Step ==
  ASSUME IInv, Next
  PROVE  IInv' /\ TableStep /\ (erroneous => erroneous') /\ Apart
<1>0. /\ ReaderTypeOK /\ ScopeTypeOK /\ OwnTypes
      /\ KwTypeOK /\ CodesTypeOK /\ NsTypeOK /\ CommentsTypeOK
  BY TypesSplit DEF IInv, TypeOK
<1>1. CASE OwnAction
  <2>1. Sound /\ pc \notin Working
    BY <1>1, OwnActionSound
  <2>2. ~Effect
    BY <2>1 DEF Effect, Working
  <2>3. Apart
    BY <2>1 DEF Apart, Elsewhere, Sound, Quiet, Working
  <2> QED
    BY <2>1, <2>2, <2>3, SoundStep DEF Sound
<1>2. CASE keywords_and_delimiters
  <2>1. KwInv' /\ Effect
    BY <1>0, <1>2, KwStep DEF keywords_and_delimiters, KwInv, KwTypes, IInv
  <2>2. pc \in KwSections /\ pc' \in {pc, "parse"}
    BY <2>1 DEF Effect, Moved
  <2>3. OwnTypes'
    BY <1>0, <1>2, <2>1, <2>2 DEF keywords_and_delimiters, OwnTypes, KwInv,
       KwTypes, KwTypeOK, CodesTypeOK, NsTypeOK, CommentsTypeOK, codesVars,
       nsVars, commentsVars, mainVars
  <2>4. TypeOK'
    BY <2>1, <2>3 DEF TypeOK, OwnTypes, KwInv, KwTypes
  <2>5. ActionNamed'
    BY <2>2 DEF ActionNamed, NsAt, KwSections, NsSections
  <2>6. Apart
    BY <1>2, <2>2 DEF keywords_and_delimiters, Apart, Elsewhere, KwSections,
                      NsSections
  <2> QED
    BY <2>1, <2>4, <2>5, <2>6 DEF IInv, KwInv, TableStep, Effect
<1>3. CASE codes_and_newline
  <2>1. /\ pc \in {"Kw_codes", "Kw_newline_is_lexem"}
        /\ Reads /\ Onward /\ CodesTypeOK'
        /\ Stay \/ CodeAdded \/ NewlineAdded
    BY <1>0, <1>3, CodesStep DEF codes_and_newline
  <2>2. OwnTypes'
    BY <1>0, <1>3, <2>1 DEF codes_and_newline, OwnTypes, KwTypeOK, NsTypeOK,
       CommentsTypeOK, kwVars, nsVars, commentsVars, mainVars, Onward
  <2>3. TableStep
    BY <1>3, <2>1 DEF codes_and_newline, kwVars, TableStep, Unscoped, Stay
  <2>4. pc \notin Working /\ pc' \notin Working
    BY <2>1 DEF Onward, Working, KwSections, NsSections
  <2>5. Sound /\ ~Effect /\ Apart
    BY <2>1, <2>2, <2>3, <2>4 DEF Sound, Onward, Quiet, Effect, Apart,
                                  Elsewhere, Working
  <2> QED
    BY <2>5, SoundStep DEF Sound
<1>4. CASE numbers_and_strings
  <2>1. /\ pc \in NsSections
        /\ Reads /\ Onward /\ NsTypeOK' /\ ActionNamed'
        /\ Stay \/ BodyGiven
    BY <1>0, <1>4, NsStep DEF numbers_and_strings, IInv
  <2>2. OwnTypes'
    BY <1>0, <1>4, <2>1 DEF numbers_and_strings, OwnTypes, KwTypeOK,
       CodesTypeOK, CommentsTypeOK, kwVars, codesVars, commentsVars, mainVars,
       Onward
  <2>3. TableStep
    BY <1>4, <2>1 DEF numbers_and_strings, kwVars, TableStep, Unscoped, Stay
  <2>4. ~Effect /\ pc' \notin KwSections
    BY <2>1 DEF Onward, Effect, KwSections, NsSections
  <2>5. ReaderTypeOK' /\ ScopeTypeOK'
        /\ repres' \in [KwSections -> Seq(StrIdxs)]
    BY <1>0, <2>1, <2>3, <2>4, ReadsType, TableStepType DEF Onward
  <2>6. TypeOK' /\ StaleIsLiteral'
    BY <2>2, <2>4, <2>5 DEF TypeOK, OwnTypes, KwTypeOK, StaleIsLiteral, KwAt
  <2>7. Apart
    BY <1>4, <2>1 DEF numbers_and_strings, Apart, Elsewhere, Onward,
                      KwSections, NsSections
  <2> QED
    BY <2>1, <2>3, <2>6, <2>7 DEF IInv, Onward
<1>5. CASE comments
  <2>1. pc = "Kw_comments" /\ Reads /\ Onward /\ CommentsTypeOK' /\ Stay
    BY <1>0, <1>5, CommentsStep DEF comments
  <2>2. OwnTypes'
    BY <1>0, <1>5, <2>1 DEF comments, OwnTypes, KwTypeOK, CodesTypeOK,
       NsTypeOK, kwVars, codesVars, nsVars, mainVars, Onward
  <2>3. TableStep
    BY <1>5, <2>1 DEF comments, kwVars, TableStep, Unscoped, Stay
  <2>4. /\ pc' \notin KwSections \cup NsSections
        /\ ~Effect /\ Apart
    BY <1>5, <2>1 DEF comments, Onward, Effect, Apart, Elsewhere, KwSections,
                      NsSections
  <2>5. TypeOK' /\ StaleIsLiteral' /\ ActionNamed'
    <3>1. ReaderTypeOK' /\ ScopeTypeOK'
          /\ repres' \in [KwSections -> Seq(StrIdxs)]
      BY <1>0, <2>1, <2>3, <2>4, ReadsType, TableStepType DEF Onward
    <3> QED
      BY <2>2, <2>4, <3>1 DEF TypeOK, OwnTypes, KwTypeOK, StaleIsLiteral,
                              ActionNamed, KwAt, NsAt
  <2> QED
    BY <2>1, <2>3, <2>4, <2>5 DEF IInv, Onward
<1> QED
  BY <1>1, <1>2, <1>3, <1>4, <1>5 DEF Next, OwnAction

LEMMA Stutter ==
  ASSUME IInv, UNCHANGED vars
  PROVE  IInv'
<1>1. /\ ReaderTypeOK' /\ ScopeTypeOK' /\ KwTypeOK' /\ CodesTypeOK'
      /\ NsTypeOK' /\ CommentsTypeOK'
  BY DEF IInv, TypeOK, ReaderTypeOK, ScopeTypeOK, KwTypeOK, CodesTypeOK,
     NsTypeOK, CommentsTypeOK, vars, readerVars, scopeVars, sectionVars,
     kwVars, codesVars, nsVars, commentsVars
<1>2. TypeOK'
  BY <1>1 DEF IInv, TypeOK, vars, mainVars
<1> QED
  BY <1>2 DEF IInv, StaleIsLiteral, ActionNamed, KwAt, NsAt, vars, readerVars,
              sectionVars, kwVars, nsVars

(* On every text: no attribute is read or written under an uninitialised   *)
(* number.                                                                 *)
THEOREM Invariant == Spec => []IInv
<1>1. IInv /\ [Next]_vars => IInv'
  BY Step, Stutter
<1> QED
  BY InitInv, <1>1, PTL DEF Spec

(* The types of the reader, the scope and all the sections.                *)
THEOREM TypeCorrect == Spec => []TypeOK
<1>1. IInv => TypeOK
  BY DEF IInv
<1> QED
  BY Invariant, <1>1, PTL

-----------------------------------------------------------------------------
(* What the steps leave of the invariants about the tables.                *)

LEMMA TableStepRegistered ==
  ASSUME IInv, TableStep, Registered
  PROVE  Registered'
<1>0. ScopeTypeOK /\ KwTypeOK /\ KwInv
  BY DEF IInv, TypeOK, KwInv, KwTypes
<1>1. CASE UNCHANGED <<strsc, repres>>
  BY <1>1 DEF Registered, Listed, Once, NoneLost
<1>2. Unscoped \/ (UNCHANGED repres /\ (CodeAdded \/ NewlineAdded \/ NameGiven))
        => UNCHANGED <<strsc, repres>>
  BY DEF Unscoped, CodeAdded, NewlineAdded, NameGiven
<1>3. CASE Effect
  BY <1>0, <1>3, EffectRegistered
<1>4. CASE UNCHANGED repres /\ BodyGiven
  <2>1. PICK b \in Strs :
          /\ strsc[b].kind \in {"absent", "Action_definition"}
          /\ strsc' = [strsc EXCEPT ![b] =
                         [kind |-> "Action_definition", code |-> 0]]
    BY <1>4 DEF BodyGiven
  <2>2. \A t \in KwSections : KindOf(t) \notin {"absent", "Action_definition"}
    BY DEF KindOf
  <2>3. b \in StrIdxs
    BY IndicesNat
  <2>4. \A t \in KwSections : \A i \in StrIdxs :
          strsc'[i].kind = KindOf(t) <=> strsc[i].kind = KindOf(t)
    BY <1>0, <2>1, <2>2, <2>3 DEF ScopeTypeOK
  <2>5. \A t \in KwSections : \A n \in 1 .. Len(repres[t]) :
          repres[t][n] \in StrIdxs
    BY <1>0 DEF KwTypeOK
  <2> QED
    BY <1>4, <2>4, <2>5 DEF Registered, Listed, Once, NoneLost
<1>5. CASE MarkAdded
  <2>1. PICK d \in IdIdxs, m \in StrIdxs : add_fictive_delimiter(d, m)
    BY <1>5 DEF MarkAdded
  <2>2. CASE Defined(strsc, m)
    BY <1>1, <2>1, <2>2 DEF add_fictive_delimiter
  <2>3. CASE ~Defined(strsc, m)
    <3>1. "Kw_delimiters" \in KwSections
          /\ KindOf("Kw_delimiters") = "Delimiter_repres"
      BY DEF KwSections, KindOf
    <3> QED
      BY <1>0, <2>1, <2>3, <3>1, ListingRegistered DEF add_fictive_delimiter
  <2> QED
    BY <2>2, <2>3
<1> QED
  BY <1>1, <1>2, <1>3, <1>4, <1>5 DEF TableStep

LEMMA TableStepNumbered ==
  ASSUME IInv, TableStep, Numbered
  PROVE  Numbered'
<1>0. ScopeTypeOK /\ KwInv /\ Ids \subseteq Indices /\ IdIdxs \subseteq Indices
  BY IndicesNat DEF IInv, TypeOK, KwInv, KwTypes
<1>1. CASE UNCHANGED <<idsc, codes, last_code>>
  BY <1>1 DEF Numbered, NumberedBut
<1>2. CASE \E i \in Indices : NewCode(i)
  BY <1>0, <1>2, NewCodeNumbered DEF Numbered
<1>3. CASE Effect
  BY <1>0, <1>3, EffectNumbered DEF Numbered
<1>4. CASE NewlineAdded
  <2>1. UNCHANGED <<codes, last_code>>
        /\ \A i \in Indices \ {newline_idx} : idsc'[i] = idsc[i]
    BY <1>0, <1>4 DEF NewlineAdded, ScopeTypeOK
  <2> QED
    BY <2>1 DEF Numbered, NumberedBut
<1>5. CASE NameGiven \/ BodyGiven
  <2>1. UNCHANGED <<codes, last_code>>
        /\ \A i \in Indices :
             idsc'[i] = idsc[i] \/ idsc'[i].kind # "Code_of_lexem"
    BY <1>0, <1>5 DEF NameGiven, NameKinds, BodyGiven, ScopeTypeOK
  <2> QED
    BY <2>1 DEF Numbered, NumberedBut
<1>6. MarkAdded => \/ UNCHANGED <<idsc, codes, last_code>>
                   \/ \E i \in Indices : NewCode(i)
  BY <1>0 DEF MarkAdded, add_fictive_delimiter
<1> QED
  BY <1>1, <1>2, <1>3, <1>4, <1>5, <1>6 DEF TableStep, Unscoped, CodeAdded

(* The body of an action is never numbered, and every name of an action    *)
(* has a body.                                                             *)
BodiesStand ==
  /\ \A i \in Indices : idsc[i].kind = "Action_name" =>
       /\ idsc[i].code \in StrIdxs
       /\ strsc[idsc[i].code].kind = "Action_definition"
  /\ \A i \in StrIdxs :
       strsc[i].kind = "Action_definition" => strsc[i].code = 0

(* Both tables are only ever added to, a body by its body: the fields of a *)
(* literal that is defined are not written, ...                            *)
LEMMA TableStepFirst ==
  ASSUME IInv, TableStep, BodiesStand
  PROVE  LiteralsStay
<1>0. ScopeTypeOK /\ KwInv /\ Strs \subseteq StrIdxs
  BY IndicesNat DEF IInv, TypeOK, KwInv, KwTypes
<1>1. Unscoped \/ CodeAdded \/ NewlineAdded \/ NameGiven => LiteralsStay
  BY DEF Unscoped, CodeAdded, NewlineAdded, NameGiven, LiteralsStay
<1>2. Effect => LiteralsStay
  BY <1>0, EffectFirst DEF LiteralsStay
<1>3. MarkAdded => LiteralsStay
  BY <1>0 DEF MarkAdded, add_fictive_delimiter, LiteralsStay, ScopeTypeOK
<1>4. CASE BodyGiven
  <2>1. PICK b \in Strs :
          /\ strsc[b].kind \in {"absent", "Action_definition"}
          /\ strsc' = [strsc EXCEPT ![b] =
                         [kind |-> "Action_definition", code |-> 0]]
    BY <1>4 DEF BodyGiven
  <2>2. strsc[b] \in [kind : StrKinds, code : Nat] \cup {Absent}
    BY <1>0 DEF ScopeTypeOK, StrAttr
  <2>3. Defined(strsc, b) =>
          strsc[b] = [kind |-> "Action_definition", code |-> 0]
    BY <1>0, <2>1, <2>2 DEF Defined, BodiesStand, StrKinds
  <2> QED
    BY <1>0, <2>1, <2>3 DEF LiteralsStay, ScopeTypeOK
<1> QED
  BY <1>1, <1>2, <1>3, <1>4 DEF TableStep

(* ... so that a name goes on leading to a body.                           *)
LEMMA TableStepBodies ==
  ASSUME IInv, TableStep, BodiesStand
  PROVE  BodiesStand'
<1>0. ScopeTypeOK /\ KwInv /\ Strs \subseteq StrIdxs /\ Ids \subseteq Indices
      /\ IdIdxs \subseteq Indices /\ StrIdxs \subseteq Indices
  BY IndicesNat DEF IInv, TypeOK, KwInv, KwTypes
<1>1. \A i \in StrIdxs : strsc[i].kind = "Action_definition" =>
        strsc'[i] = strsc[i]
  BY TableStepFirst DEF LiteralsStay, Defined, Absent
<1>2. ASSUME \A i \in Indices : idsc'[i].kind = "Action_name" =>
               \/ idsc'[i] = idsc[i]
               \/ /\ idsc'[i].code \in StrIdxs
                  /\ strsc'[idsc'[i].code].kind = "Action_definition",
             \A i \in StrIdxs : strsc'[i].kind = "Action_definition" =>
               strsc'[i] = strsc[i] \/ strsc'[i].code = 0
      PROVE  BodiesStand'
  BY <1>1, <1>2 DEF BodiesStand
<1>3. CASE UNCHANGED strsc /\ (UNCHANGED idsc \/ NewlineAdded \/ NameGiven
                                \/ \E i \in Indices : NewCode(i))
  <2>1. \A i \in Indices : idsc'[i].kind = "Action_name" => idsc'[i] = idsc[i]
    BY <1>0, <1>3 DEF NewlineAdded, NameGiven, NameKinds, NewCode, ScopeTypeOK
  <2> QED
    BY <1>2, <1>3, <2>1
<1>4. CASE BodyGiven
  <2>1. PICK n \in Ids, b \in Strs :
          /\ idsc' = [idsc EXCEPT ![n] = [kind |-> "Action_name", code |-> b]]
          /\ strsc' = [strsc EXCEPT ![b] =
                         [kind |-> "Action_definition", code |-> 0]]
    BY <1>4 DEF BodyGiven
  <2>2. \A i \in Indices : idsc'[i] = idsc[i]
            \/ idsc'[i] = [kind |-> "Action_name", code |-> b]
    BY <1>0, <2>1 DEF ScopeTypeOK
  <2>3. \A i \in StrIdxs : strsc'[i] = strsc[i]
            \/ strsc'[i] = [kind |-> "Action_definition", code |-> 0]
    BY <1>0, <2>1 DEF ScopeTypeOK
  <2>4. b \in StrIdxs /\ strsc'[b].kind = "Action_definition"
    BY <1>0, <2>1 DEF ScopeTypeOK
  <2> QED
    BY <1>2, <2>2, <2>3, <2>4
<1>5. CASE Adds \/ MarkAdded
  <2>1. \A i \in StrIdxs : strsc'[i].kind = "Action_definition" =>
          strsc'[i] = strsc[i]
    <3>1. KindOf(pc) # "Action_definition"
      BY DEF KindOf
    <3> QED
      BY <1>0, <1>5, <3>1 DEF Adds, add_new_string, MarkAdded,
                              add_fictive_delimiter, ScopeTypeOK
  <2>2. \A i \in Indices : idsc'[i].kind = "Action_name" => idsc'[i] = idsc[i]
    <3>1. UNCHANGED idsc \/ \E i \in Indices : NewCode(i)
      BY <1>0, <1>5 DEF Adds, add_new_string, MarkAdded, add_fictive_delimiter
    <3> QED
      BY <1>0, <3>1 DEF NewCode, ScopeTypeOK
  <2> QED
    BY <1>2, <2>1, <2>2
<1> QED
  BY <1>3, <1>4, <1>5 DEF TableStep, Unscoped, CodeAdded, NewlineAdded,
                          NameGiven, Effect

-----------------------------------------------------------------------------
(* The tables, on every text.                                              *)

(* Whatever sections ran in whatever order: the vectors of keywords and    *)
(* delimiters hold exactly the literals the scope has as such, each once,  *)
(* and every enumerator but Newline knows its place.                       *)
THEOREM TablesAlwaysAgree == Spec => []TablesAgree
<1>1. Init => Registered
  BY DEF Init, ScopeInit, KwInit, Registered, Listed, Once, NoneLost, KindOf,
         Absent
<1>2. Init => Numbered
  BY ScopeInitType DEF Init, Numbered
<1>3. IInv /\ TablesAgree /\ [Next]_vars => TablesAgree'
  <2>1. ASSUME IInv, TablesAgree, Next PROVE TablesAgree'
    BY <2>1, Step, TableStepRegistered, TableStepNumbered DEF TablesAgree
  <2>2. ASSUME TablesAgree, UNCHANGED vars PROVE TablesAgree'
    BY <2>2 DEF TablesAgree, Registered, Listed, Once, NoneLost, Numbered,
       NumberedBut, vars, scopeVars, sectionVars, kwVars
  <2> QED
    BY <2>1, <2>2
<1>4. Init => TablesAgree
  BY <1>1, <1>2 DEF TablesAgree
<1> QED
  BY Invariant, <1>3, <1>4, PTL DEF Spec

LEMMA BodiesAlways == Spec => []BodiesStand
<1>1. Init => BodiesStand
  <2>1. write_body \in StrIdxs
    BY DEF StrIdxs
  <2> QED
    BY <2>1 DEF Init, ScopeInit, BodiesStand, Absent
<1>2. IInv /\ BodiesStand /\ [Next]_vars => BodiesStand'
  <2>1. ASSUME IInv, BodiesStand, Next PROVE BodiesStand'
    BY <2>1, Step, TableStepBodies
  <2>2. ASSUME BodiesStand, UNCHANGED vars PROVE BodiesStand'
    BY <2>2 DEF BodiesStand, vars, scopeVars
  <2> QED
    BY <2>1, <2>2
<1> QED
  BY Invariant, <1>1, <1>2, PTL DEF Spec

(* The name of an action always leads to the literal that is its body, and *)
(* to no keyword or delimiter: add_action_definition asks both tables, and *)
(* no other section redefines a literal.                                   *)
THEOREM ActionsAlwaysHaveBodies == Spec => []ActionsHaveBodies
<1>1. BodiesStand => ActionsHaveBodies
  BY DEF BodiesStand, ActionsHaveBodies
<1> QED
  BY BodiesAlways, <1>1, PTL

(* An identifier that is new may be given anything.                        *)
LEMMA NewOneStays ==
  ASSUME ScopeTypeOK, NEW n \in Indices, ~Defined(idsc, n),
         NEW v, idsc' = [idsc EXCEPT ![n] = v]
  PROVE  IdentifiersStay
BY DEF IdentifiersStay, ScopeTypeOK

LEMMA NewCodeStays ==
  ASSUME ScopeTypeOK, NEW n \in Indices, ~Defined(idsc, n), NewCode(n)
  PROVE  IdentifiersStay
BY NewOneStays DEF NewCode

(* What of the identifiers each step leaves.                               *)
LEMMA IdentifiersStep ==
  ASSUME IInv, Next
  PROVE  IdentifiersStay
<1>0. /\ ReaderTypeOK /\ ScopeTypeOK /\ CodesTypeOK /\ NsTypeOK
      /\ CommentsTypeOK /\ KwInv /\ ActionNamed
      /\ Ids \subseteq Indices /\ IdIdxs \subseteq Indices
      /\ StrIdxs \subseteq Indices /\ newline_idx \in Indices
  BY IndicesNat, ScopeAssumption DEF IInv, TypeOK, KwInv, KwTypes,
     newline_idx, IdIdxs, BuiltinNames
<1>1. CASE UNCHANGED idsc
  BY <1>1 DEF IdentifiersStay
<1>2. CASE name_section_handling
  <2>1. PICK l \in Upcoming :
          /\ l.code = "Id"
          /\ IF Defined(idsc, l.val) THEN UNCHANGED idsc ELSE Give(l.val)
    BY <1>2 DEF name_section_handling
  <2>2. l.val \in Indices
    BY <1>0, <2>1, UpcomingLexem
  <2> QED
    BY <1>0, <1>1, <2>1, <2>2, NewOneStays DEF Give
<1>3. CASE set_default_name
  <2>1. PICK l \in Upcoming : l.code # "Id" /\ peek(l)
    BY <1>3 DEF set_default_name
  <2>2. li'.code # "Id"
    BY <1>0, <2>1, ReadType DEF Token
  <2>3. \/ UNCHANGED idsc
        \/ /\ pc = "Kw_scaner_name"
           /\ \E v : idsc' = [idsc EXCEPT ![builtin["Scaner"]] = v]
        \/ /\ pc = "Kw_codes_type"
           /\ \E v : idsc' = [idsc EXCEPT ![builtin["Lexem_code"]] = v]
    BY <1>3 DEF set_default_name, Give, NameSections
  <2> QED
    BY <1>0, <2>2, <2>3 DEF IdentifiersStay, NamedByDefault, ScopeTypeOK
<1>4. CASE keywords_and_delimiters
  <2>1. pc \in KwSections /\ (Unscoped \/ Adds)
    BY <1>0, <1>4, KwStep DEF keywords_and_delimiters, Effect
  <2>2. CASE Unscoped
    BY <1>1, <2>2 DEF Unscoped
  <2>3. CASE Adds
    <3>1. PICK i \in StrIdxs, c \in Indices, bad \in BOOLEAN :
            add_new_string(i, c, bad)
      BY <2>3 DEF Adds
    <3>2. CASE ~Defined(strsc, i) /\ NewCode(i)
      BY <1>0, <2>1, <3>2 DEF NewCode, IdentifiersStay, NumberedAsLiteral,
                              ScopeTypeOK
    <3> QED
      BY <1>1, <3>1, <3>2 DEF add_new_string
  <2> QED
    BY <2>1, <2>2, <2>3
<1>5. CASE codes_and_newline
  <2>1. Stay \/ CodeAdded \/ NewlineAdded
    BY <1>0, <1>5, CodesStep DEF codes_and_newline
  <2>2. CASE CodeAdded
    BY <1>0, <2>2, NewCodeStays DEF CodeAdded
  <2>3. CASE NewlineAdded
    BY <1>0, <2>3, NewOneStays DEF NewlineAdded
  <2> QED
    BY <1>1, <2>1, <2>2, <2>3 DEF Stay
<1>6. CASE numbers_and_strings
  <2>1. Stay \/ BodyGiven
    BY <1>0, <1>6, NsStep DEF numbers_and_strings
  <2>2. CASE BodyGiven
    <3>1. PICK n \in Ids, b \in Strs :
            /\ idsc[n].kind \in {"absent", "Action_name"}
            /\ idsc' = [idsc EXCEPT ![n] = [kind |-> "Action_name", code |-> b]]
      BY <2>2 DEF BodyGiven
    <3>2. n \in Indices /\ idsc[n] \in [kind : IdKinds, code : Nat] \cup {Absent}
      BY <1>0 DEF ScopeTypeOK, IdAttr
    <3>3. Defined(idsc, n) => idsc[n].kind = "Action_name"
      BY <3>1, <3>2 DEF Defined, IdKinds
    <3> QED
      BY <1>0, <3>1, <3>2, <3>3 DEF IdentifiersStay, ScopeTypeOK
  <2> QED
    BY <1>1, <2>1, <2>2 DEF Stay
<1>7. CASE add_fictive_delimiters
  <2>1. PICK n \in 1 .. 3 :
          IF Marks[n][3] = 0
          THEN UNCHANGED <<scopeVars, repres>>
          ELSE add_fictive_delimiter(builtin[Marks[n][2]], Marks[n][3])
    BY <1>7 DEF add_fictive_delimiters
  <2>2. Marks[n][2] \in BuiltinNames
    <3>1. n = 1 \/ n = 2 \/ n = 3
      OBVIOUS
    <3> QED
      BY <3>1 DEF Marks, BuiltinNames
  <2>3. builtin[Marks[n][2]] \in Indices
    BY <1>0, <2>2 DEF IdIdxs
  <2> QED
    BY <1>0, <1>1, <2>1, <2>3, NewCodeStays DEF add_fictive_delimiter,
                                                scopeVars
<1>8. CASE comments
  <2>1. Stay
    BY <1>0, <1>8, CommentsStep DEF comments
  <2> QED
    BY <1>1, <2>1 DEF Stay
<1> QED
  BY <1>1, <1>2, <1>3, <1>4, <1>5, <1>6, <1>7, <1>8 DEF Next, dispatch,
     skip_unknown, end_of_text, keyword, text_section, lexem_info_name,
     idents_sec, id_expression, verify, scopeVars, Stay

(* No step of any section, nor add_fictive_delimiters, changes what is     *)
(* known of a literal; nor of an identifier, but a default name and the    *)
(* number of a literal.                                                    *)
THEOREM FirstDefinitionAlways == Spec => FirstDefinitionStays
<1>1. IInv /\ BodiesStand /\ [Next]_vars => [LiteralsStay /\ IdentifiersStay]_vars
  BY Step, TableStepFirst, IdentifiersStep
<1> QED
  BY Invariant, BodiesAlways, <1>1, PTL DEF Spec, FirstDefinitionStays

-----------------------------------------------------------------------------
(* The automata of the headers.  A step of another parser, and of          *)
(* Main_parser, happens outside of the section.                            *)

LEMMA Clean ==
  ASSUME IInv, Next, ~erroneous'
  PROVE  ~erroneous
BY Step

(* An error-free header of %numbers or %strings spells a path of the       *)
(* automaton of num_str_parser.h, but for repeated section keywords.       *)
THEOREM HeadersAlwaysFollowGrammar == Spec => HeadersFollowGrammar
<1>1. Init => NsGrammar!Init
  BY DEF Init, ScopeInit, NsGrammar!Init, NsPlace, NsSections
<1>2. IInv /\ [Next]_vars => [NsGrammar!Next]_NsGrammar!vars
  <2>1. ASSUME UNCHANGED vars PROVE UNCHANGED NsGrammar!vars
    BY <2>1 DEF vars, readerVars, scopeVars, NsGrammar!vars, NsPlace
  <2> SUFFICES ASSUME IInv, Next PROVE NsGrammar!Next
    BY <2>1
  <2>2. CASE erroneous'
    BY <2>2 DEF NsGrammar!Next, NsGrammar!Diagnose, NsPlace
  <2>3. CASE NsNext
    BY <2>3, NsGrammarStep DEF IInv, TypeOK
  <2>4. CASE ~erroneous' /\ Elsewhere(NsSections)
    BY <2>4, Clean, NsOutside DEF Elsewhere
  <2> QED
    BY <2>2, <2>3, <2>4, Step DEF Apart
<1> QED
  BY Invariant, <1>1, <1>2, PTL DEF Spec, HeadersFollowGrammar,
                                    NsGrammar!Spec

(* An error-free %comments section spells a word of the automaton of       *)
(* comments_parser.h.                                                      *)
THEOREM CommentsAlwaysFollowGrammar == Spec => CommentsFollowGrammar
<1>1. Init => CommentsGrammar!Init
  BY DEF Init, ScopeInit, CommentsGrammar!Init, CommentsPlace
<1>2. IInv /\ [Next]_vars => [CommentsGrammar!Next]_CommentsGrammar!vars
  <2>1. ASSUME UNCHANGED vars PROVE UNCHANGED CommentsGrammar!vars
    BY <2>1 DEF vars, readerVars, scopeVars, CommentsGrammar!vars,
                CommentsPlace
  <2> SUFFICES ASSUME IInv, Next PROVE CommentsGrammar!Next
    BY <2>1
  <2>2. CASE erroneous'
    BY <2>2 DEF CommentsGrammar!Next, CommentsGrammar!Diagnose, CommentsPlace
  <2>3. CASE CommentsNext
    BY <2>3, CommentsGrammarStep DEF IInv, TypeOK
  <2>4. CASE ~erroneous' /\ Elsewhere({"Kw_comments"})
    BY <2>4, Clean, CommentsOutside DEF Elsewhere
  <2> QED
    BY <2>2, <2>3, <2>4, Step DEF Apart
<1> QED
  BY Invariant, <1>1, <1>2, PTL DEF Spec, CommentsFollowGrammar,
                                    CommentsGrammar!Spec

(* And the sections of keywords and delimiters, called by Main_parser,     *)
(* spell paths of the automaton of keyword_delimiter_parser.h.             *)
THEOREM KeywordsAlwaysFollowGrammar == Spec => KwGrammar!Spec
<1>1. Init => KwGrammar!Init
  BY DEF Init, ScopeInit, KwGrammar!Init, KwPlace, KwSections
<1>2. IInv /\ [Next]_vars => [KwGrammar!Next]_KwGrammar!vars
  <2>1. ASSUME UNCHANGED vars PROVE UNCHANGED KwGrammar!vars
    BY <2>1 DEF vars, readerVars, scopeVars, KwGrammar!vars, KwPlace
  <2> SUFFICES ASSUME IInv, Next PROVE KwGrammar!Next
    BY <2>1
  <2>2. CASE erroneous'
    BY <2>2 DEF KwGrammar!Next, KwGrammar!Diagnose, KwPlace
  <2>3. CASE KwNext
    BY <2>3, GrammarStep DEF IInv, TypeOK, KwInv, KwTypes
  <2>4. CASE ~erroneous' /\ Elsewhere(KwSections)
    BY <2>4, Clean, OutsideStep DEF Elsewhere
  <2> QED
    BY <2>2, <2>3, <2>4, Step DEF Apart
<1> QED
  BY Invariant, <1>1, <1>2, PTL DEF Spec, KwGrammar!Spec

-----------------------------------------------------------------------------
(* What verify() lets through.  That there is a mark is told by what was   *)
(* given: the index of one that is the empty literal is that of none.      *)

(* The identifiers have a name as soon as their automaton is used.         *)
IdNamed == "Id_aut" \in used => names["Kw_ident_name"] # 0

(* The marks are those the state of Comments_parser stands for, and they   *)
(* are complete whenever it is not at work.                                *)
MarksFollow ==
  ~erroneous =>
    /\ pc = "Kw_comments" => MarksOf(state)
    /\ "Comment_aut" \in used /\ pc # "Kw_comments" => MarksComplete

VInv ==
  /\ IdNamed
  /\ MarksFollow
  /\ VerifiedIsComplete
  /\ pc = "add_fictive_delimiters" => "Comment_aut" \in used

(* Only Comments_parser touches the marks, and it is at work from the      *)
(* moment its automaton is used.                                           *)
LEMMA MarksFrame ==
  ASSUME Next
  PROVE  \/ comments
         \/ /\ UNCHANGED commentsVars
            /\ pc # "Kw_comments"
            /\ "Comment_aut" \in used' \ used => pc' = "Kw_comments"
<1>1. CASE dispatch
  <2>1. PICK l \in Upcoming :
          /\ pc' = Handler(l.code)
          /\ used' = used \cup AutomatonOf(Handler(l.code))
    BY <1>1 DEF dispatch
  <2>2. "Comment_aut" \in AutomatonOf(pc') => pc' = "Kw_comments"
    BY DEF AutomatonOf
  <2> QED
    BY <1>1, <2>1, <2>2 DEF dispatch
<1>2. CASE name_section_handling
  BY <1>2 DEF name_section_handling, NameSections, sectionVars
<1>3. CASE skip_unknown \/ end_of_text \/ keyword \/ idents_sec
  BY <1>3 DEF skip_unknown, end_of_text, keyword, idents_sec, sectionVars,
              mainVars, NameSections, TextSections
<1>4. CASE set_default_name \/ text_section \/ lexem_info_name \/ id_expression
  BY <1>4 DEF set_default_name, text_section, lexem_info_name, id_expression,
              sectionVars, NameSections, TextSections
<1>5. CASE verify \/ add_fictive_delimiters
  BY <1>5 DEF verify, add_fictive_delimiters, sectionVars, mainVars
<1>6. CASE keywords_and_delimiters
  <2>1. pc \in KwSections
    BY <1>6 DEF keywords_and_delimiters, KwNext, kw_compile_,
       maybe_repres_str_proc, colon_sep0_proc, maybe_code_kw_or_del_proc,
       repres_str_proc, code_kw_or_del_proc, colon_sep_proc,
       kw_del_comma_sep_proc, KwAt
  <2> QED
    BY <1>6, <2>1 DEF keywords_and_delimiters, mainVars, KwSections
<1>7. CASE codes_and_newline
  <2>1. pc \in {"Kw_codes", "Kw_newline_is_lexem"}
    BY <1>7 DEF codes_and_newline, CodesNext, codes_sec, codes_id_proc,
       codes_comma_sep_proc, newline_is_lexem_sec, CodesAt
  <2> QED
    BY <1>7, <2>1 DEF codes_and_newline, mainVars
<1>8. CASE numbers_and_strings
  <2>1. pc \in NsSections
    BY <1>8 DEF numbers_and_strings, NsNext, ns_call, num_str_kw_proc,
       maybe_init_acts_proc, init_acts_proc, maybe_final_acts_proc,
       final_acts_proc, action_sec_proc, act_def_proc, act_expr, NsProc, NsAt
  <2> QED
    BY <1>8, <2>1 DEF numbers_and_strings, mainVars, NsSections
<1> QED
  BY <1>1, <1>2, <1>3, <1>4, <1>5, <1>6, <1>7, <1>8 DEF Next

LEMMA MarksFollowStep ==
  ASSUME IInv, HistoryNext, MarksFollow
  PROVE  MarksFollow'
<1> SUFFICES ASSUME ~erroneous'
             PROVE  /\ pc' = "Kw_comments" => MarksOf(state)'
                    /\ "Comment_aut" \in used' /\ pc' # "Kw_comments" =>
                         MarksComplete'
  BY DEF MarksFollow
<1>0. ~erroneous
  BY Clean DEF HistoryNext
<1>a. Next /\ Remember
  BY DEF HistoryNext
<1>1. CASE comments
  <2>1. CommentsNext /\ pc = "Kw_comments"
    BY <1>1, CommentsStep DEF comments, IInv, TypeOK
  <2> QED
    BY <1>0, <1>a, <2>1, CommentsMarks DEF MarksFollow, IInv, TypeOK
<1>2. CASE ~comments
  <2>1. /\ UNCHANGED commentsVars
        /\ pc # "Kw_comments"
        /\ "Comment_aut" \in used' \ used => pc' = "Kw_comments"
        /\ UNCHANGED given
    BY <1>2, <1>a, MarksFrame DEF Remember, CommentsAt
  <2>2. CASE pc' = "Kw_comments"
    <3>1. state' = "call"
      BY <1>a, <2>1, <2>2, CommentsStep, Step DEF Apart, Elsewhere, IInv, TypeOK
    <3> QED
      BY <2>2, <3>1 DEF MarksOf
  <2>3. CASE pc' # "Kw_comments"
    BY <1>0, <2>1, <2>3 DEF MarksFollow, MarksComplete, Given, Stored,
                            StoredMarks, commentsVars
  <2> QED
    BY <2>2, <2>3
<1> QED
  BY <1>1, <1>2

LEMMA IdNamedStep ==
  ASSUME IInv, Next, IdNamed
  PROVE  IdNamed'
<1>0. names \in [NameSections \cup {"Kw_lexem_info_name"} -> IdIdxs \cup {0}]
      /\ ReaderTypeOK
  BY DEF IInv, TypeOK
<1>1. CASE dispatch
  <2>1. \A h : "Id_aut" \notin AutomatonOf(h)
    BY DEF AutomatonOf
  <2> QED
    BY <1>1, <2>1 DEF dispatch, IdNamed
<1>2. CASE name_section_handling
  <2>1. PICK l \in Upcoming :
       /\ l.code = "Id"
       /\ IF Defined(idsc, l.val)
          THEN UNCHANGED <<idsc, names, used>>
          ELSE /\ Give(l.val)
               /\ used' = IF pc = "Kw_ident_name" THEN used \cup {"Id_aut"}
                                                  ELSE used
    BY <1>2 DEF name_section_handling
  <2>2. l.val # 0 /\ pc \in NameSections
    BY <1>0, <1>2, <2>1, UpcomingLexem, ReaderAssumption
       DEF name_section_handling
  <2>3. "Kw_ident_name" \in NameSections
    BY DEF NameSections
  <2> QED
    BY <1>0, <2>1, <2>2, <2>3 DEF Give, IdNamed
<1>3. CASE set_default_name
  <2>1. /\ used' = used
        /\ names' = names
           \/ \E i : pc # "Kw_ident_name" /\ names' = [names EXCEPT ![pc] = i]
    BY <1>3 DEF set_default_name, Give, NameSections
  <2>2. "Kw_ident_name" \in NameSections
    BY DEF NameSections
  <2> QED
    BY <1>0, <2>1, <2>2 DEF IdNamed
<1>4. CASE lexem_info_name
  <2>1. /\ used' = used
        /\ \E i : names' = [names EXCEPT !["Kw_lexem_info_name"] = i]
    BY <1>4 DEF lexem_info_name
  <2>2. "Kw_ident_name" \in NameSections
    BY DEF NameSections
  <2> QED
    BY <1>0, <2>1, <2>2 DEF IdNamed
<1>5. CASE UNCHANGED <<names, used>>
  BY <1>5 DEF IdNamed
<1> QED
  BY <1>1, <1>2, <1>3, <1>4, <1>5 DEF Next, skip_unknown, end_of_text, keyword,
     text_section, idents_sec, id_expression, keywords_and_delimiters,
     codes_and_newline, numbers_and_strings, comments, verify,
     add_fictive_delimiters, mainVars

(* Only verify() and add_fictive_delimiters() lead to the generators.      *)
LEMMA ToGenerators ==
  ASSUME IInv, Next, pc' \in {"add_fictive_delimiters", "generate"}
  PROVE  verify \/ add_fictive_delimiters
<1>1. CASE dispatch
  <2>1. PICK l \in Upcoming :
          l.code \notin {"None", "Unknown"} /\ pc' = Handler(l.code)
    BY <1>1 DEF dispatch
  <2>2. pc' \in Sections
    BY <2>1, UpcomingLexem, HandlerSection DEF IInv, TypeOK
  <2> QED
    BY <2>2 DEF Sections
<1>2. CASE keywords_and_delimiters
  BY <1>2, KwStep DEF keywords_and_delimiters, KwInv, KwTypes, IInv, TypeOK,
                      Effect, Moved, KwSections
<1>3. CASE codes_and_newline
  BY <1>3, CodesStep DEF codes_and_newline, IInv, TypeOK, Onward
<1>4. CASE numbers_and_strings
  BY <1>4, NsStep DEF numbers_and_strings, IInv, TypeOK, Onward, NsSections
<1>5. CASE comments
  BY <1>5, CommentsStep DEF comments, IInv, TypeOK, Onward
<1> QED
  BY <1>1, <1>2, <1>3, <1>4, <1>5 DEF Next, skip_unknown, end_of_text, keyword,
     name_section_handling, set_default_name, text_section, lexem_info_name,
     idents_sec, id_expression, NameSections, TextSections

LEMMA VerifiedStep ==
  ASSUME IInv, HistoryNext, VInv
  PROVE  /\ VerifiedIsComplete'
         /\ pc' = "add_fictive_delimiters" => "Comment_aut" \in used'
<1>0. Next /\ Remember
  BY DEF HistoryNext
<1>1. CASE pc' \notin {"add_fictive_delimiters", "generate"}
  BY <1>1 DEF VerifiedIsComplete
<1>2. CASE verify /\ pc' \in {"add_fictive_delimiters", "generate"}
  <2>1. /\ pc = "verify" /\ ~erroneous /\ ~erroneous'
        /\ used # {} /\ HasAll
        /\ pc' = "add_fictive_delimiters" => "Comment_aut" \in used
        /\ UNCHANGED <<names, used, id_filled>> /\ UNCHANGED commentsVars
        /\ UNCHANGED given
    BY <1>0, <1>2 DEF verify, sectionVars, mainVars, Remember, CommentsAt
  <2>2. "Comment_aut" \in used => MarksComplete
    BY <2>1 DEF VInv, MarksFollow
  <2>3. CommentsComplete'
    BY <2>1, <2>2 DEF CommentsComplete, MarksComplete, Given, Stored,
                      StoredMarks, commentsVars
  <2> QED
    BY <2>1, <2>3 DEF VerifiedIsComplete, VInv, IdNamed, HasAll
<1>3. CASE add_fictive_delimiters
  <2>1. /\ pc = "add_fictive_delimiters"
        /\ UNCHANGED <<names, used, id_filled>> /\ UNCHANGED commentsVars
        /\ UNCHANGED given
    BY <1>0, <1>3 DEF add_fictive_delimiters, mainVars, Remember, CommentsAt
  <2>2. CommentsComplete'
    BY <2>1 DEF VInv, VerifiedIsComplete, CommentsComplete, Given,
                StoredMarks, commentsVars
  <2> QED
    BY <2>1, <2>2 DEF VInv, VerifiedIsComplete
<1> QED
  BY <1>0, <1>1, <1>2, <1>3, ToGenerators

(* The history is a matter of what Main_parser does.                       *)
LEMMA HistoryInvariant == HistorySpec => []IInv
<1>1. HistoryInit => Init
  BY DEF HistoryInit
<1>2. [HistoryNext]_historyVars => [Next]_vars
  BY DEF HistoryNext, historyVars
<1> QED
  BY Invariant, <1>1, <1>2, PTL DEF HistorySpec, Spec

(* verify() lets nothing through to the generators that has been           *)
(* diagnosed, uses no automaton, has identifiers without a name or a       *)
(* structure, or comments without the marks they were given.               *)
THEOREM VerifiedAlwaysComplete == HistorySpec => []VerifiedIsComplete
<1>1. HistoryInit => VInv
  BY DEF HistoryInit, Init, ScopeInit, VInv, IdNamed, MarksFollow,
         VerifiedIsComplete
<1>2. IInv /\ VInv /\ [HistoryNext]_historyVars => VInv'
  <2>1. ASSUME IInv, VInv, HistoryNext PROVE VInv'
    BY <2>1, MarksFollowStep, IdNamedStep, VerifiedStep DEF VInv, HistoryNext
  <2>2. ASSUME VInv, UNCHANGED historyVars PROVE VInv'
    <3>1. IdNamed' /\ MarksFollow'
      BY <2>2 DEF VInv, IdNamed, MarksFollow, MarksOf, NoMultilined,
         MarksComplete, Given, Stored, StoredMarks, historyVars, vars,
         scopeVars, sectionVars, commentsVars, mainVars
    <3>2. VerifiedIsComplete'
      BY <2>2 DEF VInv, VerifiedIsComplete, CommentsComplete, Given,
         StoredMarks, historyVars, vars, scopeVars, sectionVars,
         commentsVars, mainVars
    <3> QED
      BY <2>2, <3>1, <3>2 DEF VInv, historyVars, vars, mainVars
  <2> QED
    BY <2>1, <2>2
<1>3. VInv => VerifiedIsComplete
  BY DEF VInv
<1> QED
  BY HistoryInvariant, <1>1, <1>2, <1>3, PTL DEF HistorySpec
=============================================================================
