---------------------------- MODULE NumStrSection ----------------------------
(***************************************************************************)
(* NS_parser: the headers of the %numbers and %strings sections and the    *)
(* call of Act_expr_parser on the braced expression that follows.  pc      *)
(* names the object at work, Number_parser or String_parser.               *)
(*                                                                         *)
(* Of what the section hands to the generator only the expression counts   *)
(* here, and of it only that it is there: verify() and the generators take *)
(* its last command.  The initial and final actions are copied verbatim    *)
(* with it and left out.                                                   *)
(***************************************************************************)
EXTENDS Scope

VARIABLES filled,     \* numbers_regexp and strings_regexp are not empty
          act_name    \* current_action_name_idx

nsVars == <<filled, act_name>>

NsSections == {"Kw_numbers", "Kw_strings"}
NsStates   == {"Num_str_kw", "Maybe_init_acts", "Init_acts",
               "Maybe_final_acts", "Final_acts", "Action_sec",
               "Act_expr_beg", "Act_def"}

NsTypeOK ==
  /\ filled \in [NsSections -> BOOLEAN]
  /\ act_name \in Nat

NsInit ==
  /\ filled = [s \in NsSections |-> FALSE]
  /\ act_name = 0

NsAt(s) == pc \in NsSections /\ state = s

(* Clash_of_names, a mutant, does not ask what the literal is.             *)
(* add_action_definition(act_name, s): an identifier or a literal that is  *)
(* something else already is diagnosed and kept; an action may be given a  *)
(* new body.                                                               *)
Clash_of_names(s) == idsc[act_name].kind \notin {"absent", "Action_name"}

Clash(s) ==
  \/ idsc[act_name].kind \notin {"absent", "Action_name"}
  \/ strsc[s].kind \notin {"absent", "Action_definition"}

(* Mutant: the name is entered before the literal is looked at.            *)
add_action_definition_early(s) ==
  /\ Diagnose(Clash(s))
  /\ IF Clash_of_names(s)
     THEN UNCHANGED idsc
     ELSE idsc' = [idsc EXCEPT ![act_name] =
                     [kind |-> "Action_name", code |-> s]]
  /\ IF Clash(s)
     THEN UNCHANGED strsc
     ELSE strsc' = [strsc EXCEPT ![s] =
                      [kind |-> "Action_definition", code |-> 0]]
  /\ UNCHANGED <<codes, last_code>>

add_action_definition(s) ==
  /\ Diagnose(Clash(s))
  /\ IF Clash(s)
     THEN UNCHANGED <<idsc, strsc>>
     ELSE /\ idsc' = [idsc EXCEPT ![act_name] =
                        [kind |-> "Action_name", code |-> s]]
          /\ strsc' = [strsc EXCEPT ![s] =
                         [kind |-> "Action_definition", code |-> 0]]
  /\ UNCHANGED <<codes, last_code>>

-----------------------------------------------------------------------------
(* begin_of_num_or_str_sec(): what the loop does around the procedures.    *)

ns_call ==
  /\ NsAt("call")
  /\ state' = "Num_str_kw"
  /\ UNCHANGED <<readerVars, scopeVars, pc, nsVars>>

(* A procedure returns false: the section is given up.                     *)
NsLeave(l, bad) ==
  /\ peek(l)
  /\ Diagnose(bad)
  /\ Stay
  /\ pc' = "parse"
  /\ UNCHANGED <<state, nsVars>>

(* The text ends inside the header: that is diagnosed, but true is         *)
(* returned and the expression parser is called all the same.              *)
NsRunOut(l) ==
  /\ l = Eof
  /\ peek(l)
  /\ Diagnose(TRUE)
  /\ Stay
  /\ state' = "Act_expr_beg"
  /\ UNCHANGED <<pc, nsVars>>

(* In state s a lexeme with a code in DOMAIN next moves to next[code]; it  *)
(* is an error when the code is in wrong, and its value becomes the name   *)
(* of an action when the code is in named.  The keyword of the section is  *)
(* passed over with a message that is not counted.                         *)
NsProc(s, next, wrong, named) ==
  /\ NsAt(s)
  /\ \E l \in Upcoming :
       \/ /\ l.code \in DOMAIN next
          /\ IF l.code = "Opened_fig_brack" THEN peek(l) ELSE current_lexem(l)
          /\ state' = next[l.code]
          /\ act_name' = IF l.code \in named THEN Token(l).val ELSE act_name
          /\ Diagnose(l.code \in wrong)
          /\ Stay
          /\ UNCHANGED <<pc, filled>>
       \/ /\ l.code = pc
          /\ current_lexem(l)
          /\ UNCHANGED <<scopeVars, pc, state, nsVars>>
       \/ l.code \notin {pc, "None", "String", "Kw_action", "Id", "Colon",
                         "Opened_fig_brack"} /\ NsLeave(l, FALSE)
       \/ NsRunOut(l)

-----------------------------------------------------------------------------
(* Main_parser::parse calls Number_parser on a stray %action, too.         *)
num_str_kw_proc ==
  /\ NsAt("Num_str_kw")
  /\ \E l \in Upcoming :
       \/ /\ l.code = pc
          /\ current_lexem(l)
          /\ state' = "Maybe_init_acts"
          /\ UNCHANGED <<scopeVars, pc, nsVars>>
       \/ l.code # pc /\ NsLeave(l, l.code \notin NsSections)

maybe_init_acts_proc ==
  NsProc("Maybe_init_acts",
       [String |-> "Init_acts", Kw_action |-> "Action_sec", Id |-> "Act_def",
        Colon |-> "Maybe_final_acts", Opened_fig_brack |-> "Act_expr_beg"],
       {"Kw_action", "Id", "Opened_fig_brack"}, {"Kw_action", "Id"})

(* Mutant: an action without a colon before it is not counted.             *)
init_acts_proc_lenient ==
  NsProc("Init_acts",
       [String |-> "Final_acts", Kw_action |-> "Action_sec", Id |-> "Act_def",
        Colon |-> "Maybe_final_acts", Opened_fig_brack |-> "Act_expr_beg"],
       {"String", "Id", "Opened_fig_brack"}, {"Kw_action", "Id"})

init_acts_proc ==
  NsProc("Init_acts",
       [String |-> "Final_acts", Kw_action |-> "Action_sec", Id |-> "Act_def",
        Colon |-> "Maybe_final_acts", Opened_fig_brack |-> "Act_expr_beg"],
       {"String", "Kw_action", "Id", "Opened_fig_brack"}, {"Kw_action", "Id"})

maybe_final_acts_proc ==
  NsProc("Maybe_final_acts",
       [String |-> "Final_acts", Kw_action |-> "Action_sec", Id |-> "Act_def",
        Colon |-> "Maybe_final_acts", Opened_fig_brack |-> "Act_expr_beg"],
       {"Id", "Colon"}, {"Id"})

final_acts_proc ==
  NsProc("Final_acts",
       [String |-> "Final_acts", Kw_action |-> "Action_sec", Id |-> "Act_def",
        Colon |-> "Final_acts", Opened_fig_brack |-> "Act_expr_beg"],
       {"String", "Id", "Colon"}, {"Id"})

action_sec_proc ==
  NsProc("Action_sec",
       [String |-> "Final_acts", Kw_action |-> "Action_sec", Id |-> "Act_def",
        Colon |-> "Action_sec", Opened_fig_brack |-> "Act_expr_beg"],
       {"String", "Kw_action", "Colon", "Opened_fig_brack"}, {"Id"})

(* Here a literal is the body of the action, and is not in DOMAIN next.    *)
act_def_proc ==
  \/ NsProc("Act_def",
          [Kw_action |-> "Act_def", Id |-> "Act_def", Colon |-> "Act_def",
           Opened_fig_brack |-> "Act_expr_beg"],
          {"Kw_action", "Id", "Colon", "Opened_fig_brack"}, {})
  \/ /\ NsAt("Act_def")
     /\ \E l \in Upcoming :
          /\ l.code = "String"
          /\ current_lexem(l)
          /\ add_action_definition(l.val)
     /\ state' = "Final_acts"
     /\ UNCHANGED <<pc, nsVars>>

(* compile() after the header: a_parser_->compile(buf_), then buf = buf_.  *)
(* Outcome 2, and the end of the text, keep Act_expr_parser inserting and  *)
(* reducing for ever.                                                      *)
act_expr ==
  /\ NsAt("Act_expr_beg")
  /\ \E l \in Upcoming :
       \/ /\ l.code = "Opened_fig_brack" /\ l.val # 2
          /\ current_lexem(l)
          /\ Diagnose(l.val = 1)
          /\ filled' = [filled EXCEPT ![pc] = TRUE]
          /\ pc' = "parse"
       \/ /\ l = Eof \/ (l.code = "Opened_fig_brack" /\ l.val = 2)
          /\ peek(l)
          /\ Diagnose(TRUE)
          /\ UNCHANGED <<pc, filled>>
  /\ Stay
  /\ UNCHANGED <<state, act_name>>

NsNext ==
  \/ ns_call
  \/ num_str_kw_proc
  \/ maybe_init_acts_proc
  \/ init_acts_proc
  \/ maybe_final_acts_proc
  \/ final_acts_proc
  \/ action_sec_proc
  \/ act_def_proc
  \/ act_expr

-----------------------------------------------------------------------------
(***************************************************************************)
(* The automaton ab?eb?(cdb)*f of num_str_parser.h, after its first move.  *)
(***************************************************************************)
NsMoves ==
  { <<"Maybe_init_acts",  "String",           "Init_acts">>,
    <<"Maybe_init_acts",  "Colon",            "Maybe_final_acts">>,
    <<"Init_acts",        "Colon",            "Maybe_final_acts">>,
    <<"Maybe_final_acts", "String",           "Final_acts">>,
    <<"Maybe_final_acts", "Kw_action",        "Action_sec">>,
    <<"Maybe_final_acts", "Opened_fig_brack", "Act_expr_beg">>,
    <<"Final_acts",       "Kw_action",        "Action_sec">>,
    <<"Final_acts",       "Opened_fig_brack", "Act_expr_beg">>,
    <<"Action_sec",       "Id",               "Act_def">>,
    <<"Act_def",          "String",           "Final_acts">> }

(* What the code lets pass besides: the keyword of the section, again.     *)
Repeats == {<<s, c, s>> : s \in NsStates, c \in NsSections}

NsPlace == IF erroneous THEN "diagnosed"
         ELSE IF pc \in NsSections /\ state \notin {"call", "Num_str_kw"}
         THEN state
         ELSE "outside"

NsGrammar == INSTANCE SectionGrammar
             WITH Moves <- NsMoves \cup Repeats, Start <- "Maybe_init_acts",
                  Stops <- NsStates, place <- NsPlace, code <- li.code
=============================================================================
