---------------------------- MODULE CodesSection ----------------------------
(***************************************************************************)
(* Codes_and_newline: the %codes section and the command                   *)
(* %newline_is_lexem.                                                      *)
(*                                                                         *)
(* The object has members codes and last_code_val of its own.  codes_sec   *)
(* copies the caller's vectors in and out; newline_is_lexem_sec does not,  *)
(* so it numbers the code of the newline with what the last %codes section *)
(* left in cn_last, or with an uninitialised value when there was none,    *)
(* and enters it into a vector that nobody reads: the next codes_sec       *)
(* overwrites it.  That vector is therefore not modelled.                  *)
(***************************************************************************)
EXTENDS Scope

VARIABLES cn_last,     \* Codes_and_newline::last_code_val
          newline_is_lexem

codesVars == <<cn_last, newline_is_lexem>>

CodesStates == {"Codes_id", "Codes_comma_sep"}

newline_idx == builtin["Newline"]

CodesTypeOK == cn_last \in Nat /\ newline_is_lexem \in BOOLEAN

CodesInit == cn_last \in Garbage /\ newline_is_lexem = FALSE

CodesAt(s) == pc = "Kw_codes" /\ state = s

(* codes_sec(): the caller's last code in ...                              *)
codes_sec ==
  /\ CodesAt("call")
  /\ \E l \in Upcoming :
       \/ /\ l.code = "Kw_codes"
          /\ current_lexem(l)
          /\ state' = "Codes_id"
          /\ UNCHANGED <<scopeVars, pc>>
          /\ cn_last' = last_code
       \/ /\ l.code # "Kw_codes"
          /\ peek(l)
          /\ Diagnose(TRUE)
          /\ Stay
          /\ pc' = "parse"
          /\ UNCHANGED state
          /\ cn_last' = last_code
  /\ UNCHANGED newline_is_lexem

(* ... and the same value out and kept.                                    *)
CodesLeave(l, bad) ==
  /\ peek(l)
  /\ Diagnose(bad)
  /\ Stay
  /\ pc' = "parse"
  /\ cn_last' = last_code
  /\ UNCHANGED <<state, newline_is_lexem>>

Take(l, bad) ==
  /\ current_lexem(l)
  /\ add_new_lexem_code(l.val, bad)
  /\ state' = "Codes_comma_sep"
  /\ UNCHANGED <<pc, codesVars>>

Separate(l, next, bad) ==
  /\ current_lexem(l)
  /\ Diagnose(bad)
  /\ Stay
  /\ state' = next
  /\ UNCHANGED <<pc, codesVars>>

codes_id_proc ==
  /\ CodesAt("Codes_id")
  /\ \E l \in Upcoming :
       \/ l.code = "Id"    /\ Take(l, FALSE)
       \/ l.code = "Comma" /\ Separate(l, "Codes_comma_sep", TRUE)
       \/ l.code \notin {"Id", "Comma"} /\ CodesLeave(l, TRUE)

codes_comma_sep_proc ==
  /\ CodesAt("Codes_comma_sep")
  /\ \E l \in Upcoming :
       \/ l.code = "Id"    /\ Take(l, TRUE)
       \/ l.code = "Comma" /\ Separate(l, "Codes_id", FALSE)
       \/ l.code \notin {"Id", "Comma"} /\ CodesLeave(l, FALSE)

(* newline_is_lexem_sec(), and the flag its caller sets.                   *)
newline_is_lexem_sec ==
  /\ pc = "Kw_newline_is_lexem"
  /\ \E l \in Upcoming : current_lexem(l)
  /\ Diagnose(Defined(idsc, newline_idx))
  /\ IF Defined(idsc, newline_idx)
     THEN UNCHANGED <<idsc, cn_last>>
     ELSE /\ idsc' = [idsc EXCEPT ![newline_idx] =
                        [kind |-> "Code_of_lexem", code |-> cn_last + 1]]
          /\ cn_last' = cn_last + 1
  /\ newline_is_lexem' = TRUE
  /\ pc' = "parse"
  /\ UNCHANGED <<strsc, codes, last_code, state>>

CodesNext ==
  \/ codes_sec
  \/ codes_id_proc
  \/ codes_comma_sep_proc
  \/ newline_is_lexem_sec
=============================================================================
