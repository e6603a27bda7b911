--------------------------- MODULE CommentsSection ---------------------------
(***************************************************************************)
(* Comments_parser: the %comments section.  compile_() sets the four       *)
(* results to nothing and fills them in; Main_parser::parse replaces its   *)
(* own by them, so a second %comments section replaces the first.          *)
(***************************************************************************)
EXTENDS Scope

VARIABLES mark_of_single_lined, mark_of_multilined_begin,
          mark_of_multilined_end, multilined_is_nested

commentsVars == <<mark_of_single_lined, mark_of_multilined_begin,
                  mark_of_multilined_end, multilined_is_nested>>

CommentsStates == {"Comments_kw", "Single_or_multiLined", "Single_lined",
                   "Multilined", "Single_lined_mark", "Multi_lined_begin",
                   "Nested", "Beg_end_delim", "Multilined_end"}

CommentsFinals == {"Single_lined_mark", "Multilined_end"}

CommentsTypeOK ==
  /\ mark_of_single_lined \in StrIdxs
  /\ mark_of_multilined_begin \in StrIdxs
  /\ mark_of_multilined_end \in StrIdxs
  /\ multilined_is_nested \in BOOLEAN

CommentsInit ==
  /\ mark_of_single_lined = 0
  /\ mark_of_multilined_begin = 0
  /\ mark_of_multilined_end = 0
  /\ multilined_is_nested = FALSE

CommentsAt(s) == pc = "Kw_comments" /\ state = s

(* compile_() up to its loop.                                              *)
comments_compile_ ==
  /\ CommentsAt("call")
  /\ state' = "Comments_kw"
  /\ mark_of_single_lined' = 0
  /\ mark_of_multilined_begin' = 0
  /\ mark_of_multilined_end' = 0
  /\ multilined_is_nested' = FALSE
  /\ UNCHANGED <<readerVars, scopeVars, pc>>

(* A procedure returns false and the lexeme is given back.                 *)
CommentsLeave(l, bad) ==
  /\ l # Eof
  /\ peek(l)
  /\ Diagnose(bad)
  /\ Stay
  /\ pc' = "parse"
  /\ UNCHANGED <<state, commentsVars>>

(* Mutant: the text may end in any state.                                  *)
CommentsRunOut_anywhere(l) ==
  /\ l = Eof
  /\ current_lexem(l)
  /\ Diagnose(FALSE)
  /\ Stay
  /\ pc' = "parse"
  /\ UNCHANGED <<state, commentsVars>>

(* The text ends: right only in a final state.                             *)
CommentsRunOut(l) ==
  /\ l = Eof
  /\ current_lexem(l)
  /\ Diagnose(state \notin CommentsFinals)
  /\ Stay
  /\ pc' = "parse"
  /\ UNCHANGED <<state, commentsVars>>

(* In state s a lexeme with a code in DOMAIN next moves to next[code]; it  *)
(* is an error when the code is in wrong.  Entering a state that stands    *)
(* for a mark stores the literal, entering Nested sets the flag.           *)
CommentsProc(s, next, wrong) ==
  /\ CommentsAt(s)
  /\ \E l \in Upcoming :
       \/ LET stores(t) == l.code = "String" /\ next[l.code] = t IN
          /\ l.code \in DOMAIN next
          /\ current_lexem(l)
          /\ state' = next[l.code]
          /\ mark_of_single_lined' =
               IF stores("Single_lined_mark") THEN l.val
                                              ELSE mark_of_single_lined
          /\ mark_of_multilined_begin' =
               IF stores("Multi_lined_begin") THEN l.val
                                              ELSE mark_of_multilined_begin
          /\ mark_of_multilined_end' =
               IF stores("Multilined_end") THEN l.val
                                           ELSE mark_of_multilined_end
          /\ multilined_is_nested' =
               (multilined_is_nested \/ state' = "Nested")
          /\ Diagnose(l.code \in wrong)
          /\ Stay
          /\ UNCHANGED pc
       \/ l.code \notin DOMAIN next /\ CommentsLeave(l, TRUE)
       \/ CommentsRunOut(l)

-----------------------------------------------------------------------------
(* Main_parser::parse calls the parser only on one of these four keywords. *)
comments_kw_proc ==
  CommentsProc("Comments_kw",
       [Kw_comments |-> "Single_or_multiLined",
        Kw_single_lined |-> "Single_lined",
        Kw_multilined |-> "Multilined", Kw_nested |-> "Nested"],
       {"Kw_single_lined", "Kw_multilined", "Kw_nested"})

single_or_multilined_proc ==
  CommentsProc("Single_or_multiLined",
       [Kw_comments |-> "Single_or_multiLined",
        Kw_single_lined |-> "Single_lined", String |-> "Single_lined_mark",
        Kw_multilined |-> "Multilined", Kw_nested |-> "Nested",
        Colon |-> "Beg_end_delim"],
       {"Kw_comments", "String", "Kw_nested", "Colon"})

single_lined_proc ==
  CommentsProc("Single_lined",
       [Kw_comments |-> "Single_lined", Kw_single_lined |-> "Single_lined",
        String |-> "Single_lined_mark", Kw_multilined |-> "Multilined",
        Kw_nested |-> "Nested", Colon |-> "Beg_end_delim"],
       {"Kw_comments", "Kw_single_lined", "Kw_multilined", "Kw_nested",
        "Colon"})

multilined_proc ==
  CommentsProc("Multilined",
       [Kw_comments |-> "Multilined", Kw_single_lined |-> "Multilined",
        String |-> "Multi_lined_begin", Kw_multilined |-> "Multilined",
        Kw_nested |-> "Nested", Colon |-> "Beg_end_delim"],
       {"Kw_comments", "Kw_single_lined", "Kw_multilined", "Colon"})

single_lined_mark_proc ==
  CommentsProc("Single_lined_mark",
       [Kw_comments |-> "Single_lined_mark",
        Kw_single_lined |-> "Single_lined_mark",
        String |-> "Multi_lined_begin", Kw_multilined |-> "Multilined",
        Kw_nested |-> "Nested", Colon |-> "Beg_end_delim"],
       {"Kw_comments", "Kw_single_lined", "String", "Kw_nested", "Colon"})

multi_lined_begin_proc ==
  CommentsProc("Multi_lined_begin",
       [Kw_comments |-> "Multi_lined_begin",
        Kw_single_lined |-> "Multi_lined_begin",
        String |-> "Multilined_end", Kw_multilined |-> "Multi_lined_begin",
        Kw_nested |-> "Multi_lined_begin", Colon |-> "Beg_end_delim"],
       {"Kw_comments", "Kw_single_lined", "String", "Kw_multilined",
        "Kw_nested"})

(* Mutant: a colon in place of the mark is not counted.                    *)
nested_proc_lenient ==
  CommentsProc("Nested",
       [Kw_comments |-> "Nested", Kw_single_lined |-> "Nested",
        String |-> "Multi_lined_begin", Kw_multilined |-> "Nested",
        Kw_nested |-> "Nested", Colon |-> "Beg_end_delim"],
       {"Kw_comments", "Kw_single_lined", "Kw_multilined", "Kw_nested"})

nested_proc ==
  CommentsProc("Nested",
       [Kw_comments |-> "Nested", Kw_single_lined |-> "Nested",
        String |-> "Multi_lined_begin", Kw_multilined |-> "Nested",
        Kw_nested |-> "Nested", Colon |-> "Beg_end_delim"],
       {"Kw_comments", "Kw_single_lined", "Kw_multilined", "Kw_nested",
        "Colon"})

beg_end_delim_proc ==
  CommentsProc("Beg_end_delim",
       [Kw_comments |-> "Beg_end_delim", Kw_single_lined |-> "Beg_end_delim",
        String |-> "Multilined_end", Kw_multilined |-> "Beg_end_delim",
        Kw_nested |-> "Beg_end_delim", Colon |-> "Beg_end_delim"],
       {"Kw_comments", "Kw_single_lined", "Kw_multilined", "Kw_nested",
        "Colon"})

(* The one state that gives the section up without a diagnostic.           *)
multilined_end_proc ==
  /\ CommentsAt("Multilined_end")
  /\ \E l \in Upcoming : CommentsLeave(l, FALSE) \/ CommentsRunOut(l)

CommentsNext ==
  \/ comments_compile_
  \/ comments_kw_proc
  \/ single_or_multilined_proc
  \/ single_lined_proc
  \/ multilined_proc
  \/ single_lined_mark_proc
  \/ multi_lined_begin_proc
  \/ nested_proc
  \/ beg_end_delim_proc
  \/ multilined_end_proc

-----------------------------------------------------------------------------
(***************************************************************************)
(* The automaton a((bc)?(de?cfc)|bc) of comments_parser.h, after its first *)
(* move.                                                                   *)
(***************************************************************************)
CommentsMoves ==
  { <<"Single_or_multiLined", "Kw_single_lined", "Single_lined">>,
    <<"Single_or_multiLined", "Kw_multilined",   "Multilined">>,
    <<"Single_lined",         "String",          "Single_lined_mark">>,
    <<"Multilined",           "String",          "Multi_lined_begin">>,
    <<"Multilined",           "Kw_nested",       "Nested">>,
    <<"Single_lined_mark",    "Kw_multilined",   "Multilined">>,
    <<"Multi_lined_begin",    "Colon",           "Beg_end_delim">>,
    <<"Nested",               "String",          "Multi_lined_begin">>,
    <<"Beg_end_delim",        "String",          "Multilined_end">> }

CommentsPlace == IF erroneous THEN "diagnosed"
         ELSE IF pc = "Kw_comments" /\ state \notin {"call", "Comments_kw"}
         THEN state
         ELSE "outside"

CommentsGrammar == INSTANCE SectionGrammar
             WITH Moves <- CommentsMoves, Start <- "Single_or_multiLined",
                  Stops <- CommentsFinals, place <- CommentsPlace,
                  code <- li.code
=============================================================================
