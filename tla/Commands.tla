------------------------------ MODULE Commands ------------------------------
(***************************************************************************)
(* The commands an expression is compiled into, and what is done with a    *)
(* buffer of them before an automaton is built: unwrap_commands,           *)
(* fuse_unwrapped_commands, regexp1_or_regexp2, regexp1_with_regexp2ast,   *)
(* u32strings_to_commands, and first_chars.                                *)
(*                                                                         *)
(* An operand is the position of an earlier command, counted from 1; the   *)
(* last command is the root.                                               *)
(***************************************************************************)
EXTENDS Categories, Sequences, SequencesExt

Binary == {"or", "concat"}
Unary  == {"Kleene", "positive", "optional"}

Command(name) ==
  [name |-> name, action_name |-> 0, first |-> 0, second |-> 0,
   c |-> 0, cls |-> "none"]
Char_def(c)         == [Command("char_def") EXCEPT !.c = c]
Char_class_def(cls) == [Command("char_class_def") EXCEPT !.cls = cls]

(* command2category, of a character or of a class.                         *)
command2category(com) ==
  CASE com.name = "char_def" -> Set_of_cs({com.c})
    [] com.cls = "ndq"       -> Not_double_quote
    [] com.cls = "nsq"       -> Not_single_quote
    [] OTHER                 -> Set_of_cs(char_classes[com.cls])

(* Mutant: an alternative begins as its first operand does.                *)
first_chars_left(buf) ==
  LET first_charsR[i \in 1 .. Len(buf)] ==
        LET com == buf[i]
        IN CASE com.name \in {"or", "concat", "multiconcat"} \cup Unary ->
                  first_charsR[com.first]
             [] OTHER -> command2category(com)
  IN first_charsR[Len(buf)]

(* The characters an expression begins with: those of the left operand of  *)
(* a concatenation.                                                        *)
first_chars(buf) ==
  LET first_charsR[i \in 1 .. Len(buf)] ==
        LET com == buf[i]
        IN CASE com.name = "or" ->
                  Plus(first_charsR[com.first], first_charsR[com.second])
             [] com.name \in {"concat", "multiconcat"} \cup Unary ->
                  first_charsR[com.first]
             [] OTHER -> command2category(com)
  IN first_charsR[Len(buf)]

-----------------------------------------------------------------------------
(* Unwrapped commands: a class becomes the set of its characters, Multior. *)

Unwrapped(kind) ==
  [kind |-> kind, action_name |-> 0, first |-> 0, second |-> 0, s |-> {}]
UnwrappedCommands ==
  [kind : Binary \cup Unary
            \cup {"char_def", "multior", "ndq", "nsq", "multiconcat"},
   action_name : Nat, first : Nat, second : Nat, s : SUBSET Chars]

unwrap(com) ==
  LET IsClass == com.name = "char_class_def"
      InSet   == IsClass /\ com.cls \notin QuoteClasses
  IN [kind        |-> CASE InSet              -> "multior"
                        [] IsClass /\ ~InSet  -> com.cls
                        [] OTHER              -> com.name,
      action_name |-> com.action_name,
      first       |-> com.first,
      second      |-> com.second,
      s           |-> CASE InSet                  -> char_classes[com.cls]
                        [] com.name = "char_def"  -> {com.c}
                        [] OTHER                  -> {}]

unwrap_commands(buf) == [i \in DOMAIN buf |-> unwrap(buf[i])]

(* The operands of b when its commands are put behind n others.            *)
Shifted(b, n) ==
  [i \in DOMAIN b |->
     CASE b[i].kind \in Binary \cup {"multiconcat"} ->
            [b[i] EXCEPT !.first = @ + n, !.second = @ + n]
       [] b[i].kind \in Unary -> [b[i] EXCEPT !.first = @ + n]
       [] OTHER -> b[i]]

regexp1_or_regexp2(a, b) ==
  IF a = <<>> THEN b
  ELSE IF b = <<>> THEN a
  ELSE a \o Shifted(b, Len(a))
         \o << [Unwrapped("or") EXCEPT !.first = Len(a),
                                       !.second = Len(a) + Len(b)] >>

(* a b*                                                                    *)
regexp1_with_regexp2ast(a, b) ==
  LET n == Len(a) + Len(b)
  IN a \o Shifted(b, Len(a))
       \o << [Unwrapped("Kleene") EXCEPT !.first = n],
             [Unwrapped("concat") EXCEPT !.first = Len(a), !.second = n + 1] >>

(* A string as the concatenation of its characters, from the left.         *)
u32string_to_commands(str) ==
  LET Char(c) == [Unwrapped("char_def") EXCEPT !.s = {c}]
      result[k \in 1 .. Len(str)] ==
        IF k = 1 THEN <<Char(str[1])>>
        ELSE LET r == result[k - 1]
             IN r \o << Char(str[k]), [Unwrapped("concat") EXCEPT
                                         !.first = Len(r),
                                         !.second = Len(r) + 1] >>
  IN IF str = <<>> THEN <<>> ELSE result[Len(str)]

u32strings_to_commands(strs) ==
  LET result[k \in 0 .. Len(strs)] ==
        IF k = 0 THEN <<>>
        ELSE regexp1_or_regexp2(result[k - 1], u32string_to_commands(strs[k]))
  IN result[Len(strs)]

(* generate_..._automat: the action that writes the character into the     *)
(* buffer of the scanner, set on every command.                            *)
WithAction(cmds, act) ==
  [i \in DOMAIN cmds |-> [cmds[i] EXCEPT !.action_name = act]]

-----------------------------------------------------------------------------
(* fuse_unwrapped_commands: two characters or sets joined by | become one  *)
(* set.  The set is built by operator+, which leaves its action 0.         *)

Fusible(com) == com.kind \in {"char_def", "multior"}

(* The operator of com, its operands being at fst and at the end of out.   *)
Fuse_or(out, com, fst) ==
  LET a == out[fst] b == Last(out)
  IN IF Fusible(a) /\ Fusible(b)
     THEN Append(Front(Front(out)),
                 [Unwrapped("multior") EXCEPT !.s = a.s \cup b.s])
     ELSE Append(out, [com EXCEPT !.first = fst, !.second = Len(out),
                                  !.action_name = 0])

(* What the command com of inp adds behind out; fuse[k][o] is what the     *)
(* command k leaves behind o.                                              *)
fuse_unwrapped_commandsR(inp, com, fuse, out) ==
  LET one == fuse[com.first][out]
      two == fuse[com.second][one]
  IN CASE com.kind = "or" -> Fuse_or(two, com, Len(one))
       [] com.kind = "concat" ->
            Append(two, [com EXCEPT !.first = Len(one), !.second = Len(two)])
       [] com.kind \in Unary -> Append(one, [com EXCEPT !.first = Len(one)])
       [] com.kind = "multiconcat" ->
            out \o SubSeq(inp, com.first, com.second)
                \o << [com EXCEPT !.first = Len(out) + 1,
                                  !.second = Len(out) + com.second
                                               - com.first + 1] >>
       [] OTHER -> Append(out, com)

fuse_unwrapped_commands(inp) ==
  LET fuse[i \in 1 .. Len(inp)] ==
        [out \in Seq(UnwrappedCommands) |->
           fuse_unwrapped_commandsR(inp, inp[i], fuse, out)]
  IN IF inp = <<>> THEN <<>> ELSE fuse[Len(inp)][<<>>]

-----------------------------------------------------------------------------
(* The reference: the words of an expression, at most n letters long, a    *)
(* letter being a generalized character with the action it carries.        *)

Letters(com) ==
  CASE com.kind = "ndq" -> {G_ndq}
    [] com.kind = "nsq" -> {G_nsq}
    [] OTHER            -> com.s

Join(X, Y, n) ==
  {w \in {x \o y : x \in X, y \in Y} : Len(w) <= n}

(* The words of X repeated, from those of Z on.                            *)
Repeated(X, Z, n) ==
  LET rep[k \in 0 .. n] ==
        IF k = 0 THEN Z ELSE rep[k - 1] \cup Join(rep[k - 1], X, n)
  IN rep[n]

(* The words of X[first] and of those behind it up to X[last].             *)
Joined(X, first, last, n) ==
  LET joined[k \in first .. last] ==
        IF k = first THEN X[k] ELSE Join(joined[k - 1], X[k], n)
  IN joined[last]

Words(cmds, n) ==
  LET words[i \in 1 .. Len(cmds)] ==
        LET com == cmds[i] X == words[com.first]
        IN CASE com.kind = "or"       -> X \cup words[com.second]
             [] com.kind = "concat"   -> Join(X, words[com.second], n)
             [] com.kind = "Kleene"   -> Repeated(X, {<<>>}, n)
             [] com.kind = "positive" -> Repeated(X, X, n)
             [] com.kind = "optional" -> X \cup {<<>>}
             [] com.kind = "multiconcat" ->
                  Joined([k \in com.first .. com.second |-> words[k]],
                         com.first, com.second, n)
             [] OTHER -> {<< [gc |-> gc, act |-> com.action_name] >> :
                            gc \in Letters(com)}
  IN words[Len(cmds)]

(* The word without its actions.                                           *)
Spelling(w) == [k \in DOMAIN w |-> w[k].gc]
Spellings(W) == {Spelling(w) : w \in W}
=============================================================================
