--------------------------- MODULE ActExprParser ---------------------------
(***************************************************************************)
(* Act_expr_parser: the SLR(1) parser of the expressions of %numbers and   *)
(* %strings, with the repairs its error handlers make, and the commands it *)
(* writes into the buffer.                                                 *)
(*                                                                         *)
(* The text is chosen as it is read, as in Reader; here a lexeme is a      *)
(* terminal of the grammar (lexem2terminal) with a value.  Positions in    *)
(* the buffer are counted from 1, and a command is the positions of its    *)
(* operands and its action: which operator or character it is no property  *)
(* tells apart.                                                            *)
(***************************************************************************)
EXTENDS Naturals, Sequences, FiniteSets

CONSTANTS Acts,        \* the actions that are defined
          MaxLexems,   \* bound: the length of a text without a message
          MaxRepaired, \* bound: the length of the text once there is one
          MaxCommands  \* bound: the commands after which no operand is inserted

ASSUME ActExprAssumption ==
  /\ Acts \subseteq Nat \ {0}
  /\ MaxLexems \in Nat /\ MaxRepaired \in 0 .. MaxLexems
  /\ MaxCommands \in Nat

VARIABLES look,      \* the lexeme given back by back(), or NoLexem
          fed,       \* how many lexemes of the text have been met
          eli,       \* the lexeme the parser has read last
          stack,     \* parser_stack: state, and the commands or the value
          buf,       \* buf_: the commands
          erroneous, \* an error has been counted
          printed,   \* history: a message has been printed
          last,      \* history: the last lexeme not given back
          done       \* compile has returned

vars == <<look, fed, eli, stack, buf, erroneous, printed, last, done>>

(* The value of an action is its name, 0 if it is not the name of a        *)
(* defined action; of a d, 0 if it is a class the section does not allow.  *)
Lexems == [t : {"a"}, val : Acts \cup {0}] \cup [t : {"d"}, val : {0, 1}]
          \cup [t : {"b", "c", "p", "q", "LP", "RP"}, val : {1}]
Eof     == [t |-> "eof", val |-> 1]
NoLexem == [t |-> "no lexeme", val |-> 0]

Elems    == [st : 0 .. 17, lo : Nat, hi : Nat, val : Acts \cup {0, 1}]
Commands == [args : Seq(Nat), act : Acts \cup {0}]
Bottom   == [st |-> 0, lo |-> 0, hi |-> 0, val |-> 0]

-----------------------------------------------------------------------------
(* The tables of the parser.                                               *)

action_table ==
  {<<0, "p", 2>>, <<3, "b", 10>>, <<3, "q", 11>>, <<6, "c", 13>>,
   <<7, "a", 14>>, <<15, "b", 10>>, <<15, "RP", 17>>}
  \cup {<<s, "d", 8>> : s \in {2, 4, 9, 10, 16}}
  \cup {<<s, "LP", 9>> : s \in {2, 4, 9, 10, 16}}

rules ==
  [S_is_pTq |-> [nt |-> "S", len |-> 3], T_is_TbE |-> [nt |-> "T", len |-> 3],
   T_is_E   |-> [nt |-> "T", len |-> 1], E_is_EF  |-> [nt |-> "E", len |-> 2],
   E_is_F   |-> [nt |-> "E", len |-> 1], F_is_Gc  |-> [nt |-> "F", len |-> 2],
   F_is_G   |-> [nt |-> "F", len |-> 1], G_is_Ha  |-> [nt |-> "G", len |-> 2],
   G_is_H   |-> [nt |-> "G", len |-> 1], H_is_d   |-> [nt |-> "H", len |-> 1],
   H_is_LP_T_RP |-> [nt |-> "H", len |-> 3]]

(* The rule a state is reduced by, and the lookaheads it is reduced on.    *)
reduce_rules ==
  [s \in {4, 5, 6, 7, 8, 11, 12, 13, 14, 16, 17} |->
     CASE s = 4  -> "T_is_E"   [] s = 5  -> "E_is_F"  [] s = 6  -> "F_is_G"
       [] s = 7  -> "G_is_H"   [] s = 8  -> "H_is_d"  [] s = 11 -> "S_is_pTq"
       [] s = 12 -> "E_is_EF"  [] s = 13 -> "F_is_Gc" [] s = 14 -> "G_is_Ha"
       [] s = 16 -> "T_is_TbE" [] s = 17 -> "H_is_LP_T_RP"]

Lookaheads(s) ==
  CASE s \in {4, 16}          -> {"b", "q", "RP"}
    [] s \in {5, 6, 12, 13}   -> {"b", "q", "RP", "d", "LP"}
    [] s \in {7, 14}          -> {"b", "q", "RP", "d", "LP", "c"}
    [] s \in {8, 17}          -> {"b", "q", "RP", "d", "LP", "c", "a"}
    [] s = 11                 -> {"eof"}
    [] OTHER                  -> {}

next_state(s, n) ==
  CASE n = "S" -> 1
    [] n = "T" -> IF s = 9 THEN 15 ELSE 3
    [] n = "E" -> IF s = 10 THEN 16 ELSE 4
    [] n = "F" -> IF s \in {4, 16} THEN 12 ELSE 5
    [] n = "G" -> 6
    [] n = "H" -> 7

-----------------------------------------------------------------------------
(* Reading.                                                                *)

Upcoming ==
  IF look # NoLexem THEN {look}
  ELSE {Eof} \cup
       {l \in Lexems : fed < IF printed THEN MaxRepaired ELSE MaxLexems}

(* Mutant: the end of the text counts as one more lexeme.                  *)
Read_past_end(l) ==
  /\ eli' = l
  /\ fed' = IF look = NoLexem THEN fed + 1 ELSE fed

Read(l) ==
  /\ eli' = l
  /\ fed' = IF look = NoLexem /\ l # Eof THEN fed + 1 ELSE fed

(* The lexeme is behind, or it is given back.                              *)
Swallow(l) ==
  /\ look' = IF l = Eof THEN Eof ELSE NoLexem
  /\ last' = IF l = Eof THEN last ELSE l.t
back(l) ==
  /\ look' = l
  /\ last' = last

-----------------------------------------------------------------------------
(* The stack and the buffer.                                               *)

Top == stack[Len(stack)]

Say(message, error) ==
  /\ printed' = (printed \/ message)
  /\ erroneous' = (erroneous \/ error)

Push(s, val) ==
  /\ stack' = Append(stack, [st |-> s, lo |-> 0, hi |-> 0, val |-> val])
  /\ UNCHANGED <<buf, done>>

Command(args) == [args |-> args, act |-> 0]

(* Mutant: the action is set on the last command of the operand only.      *)
Generated_last(r, body) ==
  CASE r = "T_is_TbE" -> Append(buf, Command(<<body[1].hi, body[3].hi>>))
    [] r = "E_is_EF"  -> Append(buf, Command(<<body[1].hi, body[2].hi>>))
    [] r = "F_is_Gc"  -> Append(buf, Command(<<body[1].hi>>))
    [] r = "H_is_d"   -> Append(buf, Command(<<>>))
    [] r = "G_is_Ha" /\ body[2].val # 0 ->
         [buf EXCEPT ![body[1].hi].act = body[2].val]
    [] OTHER          -> buf

(* generate_command: an action marks every command of its operand.         *)
Generated(r, body) ==
  CASE r = "T_is_TbE" -> Append(buf, Command(<<body[1].hi, body[3].hi>>))
    [] r = "E_is_EF"  -> Append(buf, Command(<<body[1].hi, body[2].hi>>))
    [] r = "F_is_Gc"  -> Append(buf, Command(<<body[1].hi>>))
    [] r = "H_is_d"   -> Append(buf, Command(<<>>))
    [] r = "G_is_Ha" /\ body[2].val # 0 ->
         [n \in DOMAIN buf |->
            IF n \in body[1].lo .. body[1].hi
            THEN [buf[n] EXCEPT !.act = body[2].val] ELSE buf[n]]
    [] OTHER          -> buf

(* Mutant: the interval of a repeated operand stays that of the operand.   *)
attrib_calc_closure(r, body, size) ==
  CASE r \in {"T_is_TbE", "E_is_EF"} -> <<body[1].lo, size>>
    [] r = "H_is_d"                  -> <<size, size>>
    [] r \in {"S_is_pTq", "H_is_LP_T_RP"} -> <<body[2].lo, body[2].hi>>
    [] OTHER                         -> <<body[1].lo, body[1].hi>>

(* The commands of the left side, its last one being the root.             *)
attrib_calc(r, body, size) ==
  CASE r \in {"T_is_TbE", "E_is_EF", "F_is_Gc"} -> <<body[1].lo, size>>
    [] r = "H_is_d"                             -> <<size, size>>
    [] r \in {"S_is_pTq", "H_is_LP_T_RP"}       -> <<body[2].lo, body[2].hi>>
    [] OTHER                                    -> <<body[1].lo, body[1].hi>>

reduce_without_back(r) ==
  LET kept == Len(stack) - rules[r].len
      body == SubSeq(stack, kept + 1, Len(stack))
      size == IF r \in {"T_is_TbE", "E_is_EF", "F_is_Gc", "H_is_d"}
              THEN Len(buf) + 1 ELSE Len(buf)
      attr == attrib_calc(r, body, size)
  IN /\ buf' = Generated(r, body)
     /\ stack' = Append(SubSeq(stack, 1, kept),
                        [st |-> next_state(stack[kept].st, rules[r].nt),
                         lo |-> attr[1], hi |-> attr[2], val |-> 0])
     /\ UNCHANGED done

(* G -> Ha with an identifier that is no defined action: counted.          *)
Undefined == Top.st = 14 /\ Top.val = 0

-----------------------------------------------------------------------------
(* The steps of compile.                                                   *)

(* Mutant: the lexeme that has been shifted is given back.                 *)
shift_back(l) ==
  \E m \in action_table :
    /\ m[1] = Top.st /\ m[2] = l.t
    /\ Read(l) /\ back(l)
    /\ Push(m[3], l.val)
    /\ Say(l.t = "d" /\ l.val = 0, l.t = "d" /\ l.val = 0)

(* The checker of a number expression counts the classes of quotes.        *)
shift(l) ==
  \E m \in action_table :
    /\ m[1] = Top.st /\ m[2] = l.t
    /\ Read(l) /\ Swallow(l)
    /\ Push(m[3], l.val)
    /\ Say(l.t = "d" /\ l.val = 0, l.t = "d" /\ l.val = 0)

reduce(l) ==
  /\ l.t \in Lookaheads(Top.st)
  /\ Read(l) /\ back(l)
  /\ reduce_without_back(reduce_rules[Top.st])
  /\ Say(Undefined, Undefined)

(* After S only the end is awaited, but anything will do.                  *)
accept(l) ==
  /\ Top.st = 1
  /\ Read(l) /\ back(l)
  /\ done' = TRUE
  /\ UNCHANGED <<stack, buf, erroneous, printed>>

state00_error_handler(l) ==
  /\ Top.st = 0 /\ l.t # "p"
  /\ Read(l)
  /\ IF l.t = "RP" THEN Swallow(l) ELSE back(l)
  /\ Push(2, 1)
  /\ Say(TRUE, TRUE)

(* An operand is missing: the character a is inserted.                     *)
state02_error_handler(l) ==
  /\ Top.st \in {2, 9, 10} /\ l.t \notin {"d", "LP"}
  /\ Len(buf) < MaxCommands
  /\ Read(l) /\ back(l)
  /\ Push(8, 1)
  /\ Say(TRUE, TRUE)

(* The expression goes on: an operator | is inserted.                      *)
state03_error_handler(l) ==
  /\ \/ Top.st = 3 /\ l.t \notin {"b", "q"}
     \/ Top.st = 15 /\ l.t \notin {"b", "RP"}
  /\ Read(l)
  /\ IF l.t = "p" THEN Swallow(l) ELSE back(l)
  /\ Push(10, 1)
  /\ Say(TRUE, TRUE)

(* The messages of states 4, 5, 12, 13 and 16 are not counted.             *)
state04_error_handler(l) ==
  /\ Top.st \in {4, 5, 12, 13, 16} /\ l.t \in {"a", "c", "p", "eof"}
  /\ Read(l)
  /\ IF l.t = "p" THEN Swallow(l) ELSE back(l)
  /\ reduce_without_back(reduce_rules[Top.st])
  /\ Say(TRUE, FALSE)

(* Mutant: the lexeme is swallowed without a message.                      *)
state06_error_handler_silent(l) ==
  /\ Top.st \in {6, 14} /\ l.t \in {"a", "p", "eof"}
  /\ Read(l) /\ Swallow(l)
  /\ reduce_without_back(reduce_rules[Top.st])
  /\ Say(Undefined, Undefined)

(* Nor are those of states 6 and 14, which swallow the lexeme.             *)
state06_error_handler(l) ==
  /\ Top.st \in {6, 14} /\ l.t \in {"a", "p", "eof"}
  /\ Read(l) /\ Swallow(l)
  /\ reduce_without_back(reduce_rules[Top.st])
  /\ Say(TRUE, Undefined)

(* Mutant: a closing brace after an operand is taken for an error as well. *)
state07_error_handler_eager(l) ==
  /\ Top.st \in {7, 8, 17} /\ l.t \in {"p", "eof", "q"}
  /\ Read(l) /\ Swallow(l)
  /\ reduce_without_back(reduce_rules[Top.st])
  /\ Say(TRUE, TRUE)

state07_error_handler(l) ==
  /\ Top.st \in {7, 8, 17} /\ l.t \in {"p", "eof"}
  /\ Read(l) /\ Swallow(l)
  /\ reduce_without_back(reduce_rules[Top.st])
  /\ Say(TRUE, TRUE)

(* The rule is reduced whatever follows the closing brace.                 *)
state11_error_handler(l) ==
  /\ Top.st = 11 /\ l.t # "eof"
  /\ Read(l) /\ back(l)
  /\ reduce_without_back("S_is_pTq")
  /\ UNCHANGED <<printed, erroneous>>

Step(l) ==
  \/ shift(l) \/ reduce(l) \/ accept(l)
  \/ state00_error_handler(l) \/ state02_error_handler(l)
  \/ state03_error_handler(l) \/ state04_error_handler(l)
  \/ state06_error_handler(l) \/ state07_error_handler(l)
  \/ state11_error_handler(l)

(* The stack is not cleared: after an earlier section S lies under state 0.*)
Init ==
  /\ look = NoLexem /\ fed = 0 /\ eli = Eof
  /\ stack \in {<<Bottom>>,
                <<Bottom, [Bottom EXCEPT !.st = 1], Bottom>>}
  /\ buf = <<>>
  /\ erroneous = FALSE /\ printed = FALSE /\ last = "start" /\ done = FALSE

Next == ~done /\ \E l \in Upcoming : Step(l)

Spec     == Init /\ [][Next]_vars
FairSpec == Spec /\ WF_vars(Next)

-----------------------------------------------------------------------------
(* Properties.                                                             *)

TypeOK ==
  /\ look \in Lexems \cup {NoLexem, Eof} /\ eli \in Lexems \cup {Eof}
  /\ fed \in 0 .. MaxLexems
  /\ stack \in Seq(Elems) /\ Len(stack) > 0
  /\ buf \in Seq(Commands)
  /\ erroneous \in BOOLEAN /\ printed \in BOOLEAN /\ done \in BOOLEAN

Operands(n) == {buf[n].args[k] : k \in DOMAIN buf[n].args}

(* The commands lo .. hi are one tree with its root last: every operand    *)
(* comes before its operator, and every command but the root is the        *)
(* operand of exactly one other.                                           *)
Tree(lo, hi) ==
  /\ lo <= hi
  /\ \A n \in lo .. hi : Operands(n) \subseteq lo .. n - 1
  /\ \A m \in lo .. hi - 1 :
       \E n \in m + 1 .. hi :
         \A p \in m + 1 .. hi : m \in Operands(p) <=> p = n

(* The grammar symbols on the stack that stand for commands.               *)
Owners == {k \in 1 .. Len(stack) : stack[k].lo > 0}

(* Whatever errors were repaired, the symbols on the stack share out the   *)
(* whole buffer among them, in order, and each owns one tree: no command   *)
(* is lost, shared, or left without a user (attrib_by_..., and the         *)
(* arguments generate_command gives).                                      *)
Trees ==
  /\ \A k \in Owners : stack[k].hi <= Len(buf) /\ Tree(stack[k].lo, stack[k].hi)
  /\ \A j, k \in Owners : j < k => stack[j].hi < stack[k].lo
  /\ \A n \in 1 .. Len(buf) :
       \E k \in Owners : n \in stack[k].lo .. stack[k].hi

(* An action belongs to the whole of its operand: a command with an action *)
(* has operands with the same action, however actions are nested           *)
(* (generate_command, case G_is_Ha).                                       *)
ActionsCoverOperands ==
  \A n \in 1 .. Len(buf) :
    buf[n].act # 0 => \A m \in Operands(n) : buf[m].act = buf[n].act

(* The parentheses open above the bottom of this expression: the one being *)
(* reduced is closed.                                                      *)
Depth == Cardinality({k \in 1 .. Len(stack) : stack[k].st = 9})
         - (IF Top.st = 17 THEN 1 ELSE 0)

Grammar == INSTANCE ExprGrammar WITH depth <- Depth, diagnosed <- printed

(* Soundness: up to the first message the lexemes read are a prefix of the *)
(* grammar in the comment of act_expr_parser.cpp, and only a whole         *)
(* expression is accepted.                                                 *)
FollowsGrammar == Grammar!Spec

(* Completeness: the first message is about a lexeme the grammar does not  *)
(* allow there, a class or an action that is not allowed.                  *)
OnlyWrongIsDiagnosed ==
  [][ printed' /\ ~printed =>
        \/ eli'.t \notin Grammar!Allowed(last, Depth)
        \/ eli'.val = 0 \/ Undefined ]_vars

(* The repairs come to an end, unless the parser has to go on before a     *)
(* closing parenthesis, a closing brace or the end of the text: there it   *)
(* inserts | and a for ever.                                               *)
EndsOrRepairs == <>done \/ <>[](look.t \in {"RP", "q", "eof"})
=============================================================================
