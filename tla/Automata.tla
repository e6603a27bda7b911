------------------------------ MODULE Automata ------------------------------
(***************************************************************************)
(* From a text to its automaton: the expressions of identifiers, read by   *)
(* SimpleRegexParser and put together with the keywords, and those of      *)
(* numbers and strings, in the order in which Act_expr_parser reduces      *)
(* them; the automaton is built by Dfa.                                    *)
(***************************************************************************)
EXTENDS SimpleRegexParser, Dfa

CONSTANTS ExprLeaves,   \* the characters and classes of numbers and strings
          Acts,         \* the actions defined for them
          WriteAction,  \* write_action_name_idx
          KeywordLists, \* the keywords that may be defined, as sequences
          MaxCommands,  \* bound: the commands of an expression
          MaxWord       \* bound: the length of the words compared

ASSUME AutomataAssumption ==
  /\ Acts \subseteq Nat \ {0} /\ WriteAction \in Nat \ {0}
  /\ KeywordLists \subseteq Seq(Seq(Chars) \ {<<>>})
  /\ ExprLeaves \subseteq {Char_def(c) : c \in Chars}
                            \cup {Char_class_def(cls) : cls \in Classes}
  /\ MaxText \in Nat /\ MaxFailed \in Nat /\ MaxCommands \in Nat /\ MaxWord \in Nat \ {0}

VARIABLES task,     \* what the automaton is for
          keywords, \* keyword_strings
          buf,      \* buf_ of Act_expr_parser: the commands
          operands  \* its stack: the commands of the operands, from lo to hi

vars == <<srpVars, dfaVars, task, keywords, buf, operands>>

Init ==
  /\ SrpInit /\ DfaInit
  /\ stage = "text"
  /\ task = IF part = "parsed" THEN "expression" ELSE "identifiers"
  /\ keywords = <<>> /\ buf = <<>> /\ operands = <<>>

-----------------------------------------------------------------------------
(* %idents.                                                                *)
read_idents ==
  /\ stage = "text" /\ task = "identifiers"
  /\ SrpNext
  /\ UNCHANGED <<dfaVars, task, keywords, buf, operands>>

(* verify() finds errors counted: nothing is generated.                    *)
reject ==
  /\ stage = "text" /\ task = "identifiers" /\ part = "parsed" /\ failed
  /\ stage' = "rejected"
  /\ UNCHANGED <<srpVars, cmds, optimize, ndfa, sets, unmarked, jumps,
                 old_partition, new_partition, mdfa, gdfa,
                 task, keywords, buf, operands>>

ident_commands ==
  regexp1_with_regexp2ast(unwrap_commands(bufs["id_begin"]),
                          unwrap_commands(bufs["id_body"]))

(* begin_chars[Keyword_beg_char], as verify() finds it.                    *)
keyword_begin(kws) == Set_of_cs({kws[k][1] : k \in DOMAIN kws})

(* generate_idents_and_keywords_automata_impl: the keywords join the       *)
(* identifiers in one automaton if they may begin alike.                   *)
generate_idents ==
  /\ stage = "text" /\ task = "identifiers" /\ part = "parsed" /\ ~failed
  /\ \E kws \in KeywordLists :
       LET joined == Meets(keyword_begin(kws), first_chars(bufs["id_begin"]))
       IN /\ keywords' = kws
          /\ task' = IF joined THEN "idkeywords" ELSE "identifiers"
          /\ build_automaton(
               WithAction(IF joined
                          THEN regexp1_or_regexp2(ident_commands,
                                                  u32strings_to_commands(kws))
                          ELSE ident_commands, WriteAction), TRUE)
  /\ UNCHANGED <<srpVars, buf, operands>>

-----------------------------------------------------------------------------
(* Act_expr_parser::generate_command, rule by rule, and what becomes of    *)
(* the operands on the parser's stack.                                     *)
Reduce(command, operand, n) ==
  /\ stage = "text" /\ task = "expression" /\ Len(operands) >= n
  /\ Len(buf) < MaxCommands
  /\ buf' = Append(buf, command)
  /\ operands' = Append(SubSeq(operands, 1, Len(operands) - n), operand)
  /\ UNCHANGED <<srpVars, dfaVars, task, keywords>>

(* The operand k from the top of the stack.                                *)
Top(k) == operands[Len(operands) - k]
Alone  == [lo |-> Len(buf) + 1, hi |-> Len(buf) + 1]

H_is_d == \E com \in ExprLeaves : Reduce(com, Alone, 0)

binary(name) ==
  Len(operands) >= 2
  /\ Reduce([Command(name) EXCEPT !.first = Top(1).hi, !.second = Top(0).hi],
            [lo |-> Top(1).lo, hi |-> Len(buf) + 1], 2)

T_is_TbE == binary("or")
E_is_EF  == binary("concat")

F_is_Gc ==
  Len(operands) >= 1
  /\ \E name \in Unary :
       Reduce([Command(name) EXCEPT !.first = Top(0).hi],
              [lo |-> Top(0).lo, hi |-> Len(buf) + 1], 1)

(* The action is set on all the commands of the operand.                   *)
G_is_Ha ==
  /\ stage = "text" /\ task = "expression" /\ operands # <<>>
  /\ \E act \in Acts :
       buf' = [i \in DOMAIN buf |->
                 IF i \in Top(0).lo .. Top(0).hi
                 THEN [buf[i] EXCEPT !.action_name = act] ELSE buf[i]]
  /\ UNCHANGED <<srpVars, dfaVars, task, keywords, operands>>

(* generate_numbers_automaton_impl, generate_strings_automaton_impl.       *)
generate_expression ==
  /\ stage = "text" /\ task = "expression" /\ Len(operands) = 1
  /\ build_automaton(unwrap_commands(buf), FALSE)
  /\ UNCHANGED <<srpVars, task, keywords, buf, operands>>

-----------------------------------------------------------------------------
Build == DfaNext /\ UNCHANGED <<srpVars, task, keywords, buf, operands>>

Next ==
  \/ read_idents \/ reject \/ generate_idents
  \/ H_is_d \/ T_is_TbE \/ E_is_EF \/ F_is_Gc \/ G_is_Ha
  \/ generate_expression
  \/ Build

(* The program runs on by itself once it has its text.                     *)
Spec     == Init /\ [][Next]_vars
CanBuild == stage \in {"subset", "refine", "minimal"}
FairSpec == Spec /\ ([]<>~CanBuild \/ []<><<Build>>_vars)

-----------------------------------------------------------------------------
(* What the automata accept, in words of at most n characters.             *)

(* From every state of an automaton with the jumps js.                     *)
WordsFrom(js, finals, st, n) ==
  LET from[k \in 0 .. n] ==
        [s \in Nat |->
           {w \in {<<>>} : s \in finals}
           \cup UNION {{<<e.gc>> \o w : w \in from[k - 1][e.to]} :
                       e \in {f \in js : k > 0 /\ f.from = s}}]
  IN from[n][st]

Accepted(js, finals) == WordsFrom(js, finals, 0, MaxWord)

(* The pairs of the n states that a word tells apart: it is accepted from  *)
(* one of them only.  A missing jump goes to a state more, never accepted. *)
Apart(n, js, finals) ==
  LET Go(s, gc) == LET to == Moved([edges |-> js], {s}, gc)
                   IN IF to = {} THEN n ELSE CHOOSE t \in to : TRUE
      apart[k \in 0 .. n] ==
        IF k = 0 THEN {p \in (0 .. n) \X (0 .. n) :
                         (p[1] \in finals) # (p[2] \in finals)}
        ELSE LET A == apart[k - 1]
             IN A \cup {p \in (0 .. n) \X (0 .. n) :
                          \E gc \in {e.gc : e \in js} :
                            <<Go(p[1], gc), Go(p[2], gc)>> \in A}
  IN apart[n]

(* The paths of at most n jumps from the first state, but the empty one.   *)
Paths(js, n) ==
  LET paths[k \in 1 .. n] ==
        IF k = 1 THEN {<<e>> : e \in {f \in js : f.from = 0}}
        ELSE paths[k - 1]
             \cup {Append(p, e) : p \in {q \in paths[k - 1] : Len(q) = k - 1},
                                  e \in js}
  IN {p \in paths[n] : \A i \in 2 .. Len(p) : p[i].from = p[i - 1].to}

(* The jump the generated automaton makes: the branches of a state are     *)
(* tried in the order of their categories (automata_repres_case).          *)
Rank(c) == CASE c.kind = "All_chars" -> 0 [] c.kind = "Not_single_quote" -> 1
             [] c.kind = "Not_double_quote" -> 2 [] OTHER -> 3
automata_repres_case(st, ch) ==
  LET open == {c \in DOMAIN gdfa[st] : ch \in Denotes(c)}
  IN IF open = {} THEN {}
     ELSE {gdfa[st][CHOOSE c \in open : \A d \in open : Rank(c) <= Rank(d)]}

(* The strings of n characters the generated automaton takes to the end.   *)
Scanned(n) ==
  LET from[k \in 0 .. n] ==
        [s \in DOMAIN gdfa |->
           IF k = 0 THEN {w \in {<<>>} : s \in mdfa.final_states}
           ELSE UNION {{<<ch>> \o w :
                          w \in UNION {from[k - 1][t.st] :
                                         t \in automata_repres_case(s, ch)}} :
                       ch \in AnyChar}]
  IN from[n][0]

-----------------------------------------------------------------------------
(* The construction keeps to its types: the sets are different sets of     *)
(* states, an unmarked state is one of them, and no state has two jumps by *)
(* one character.                                                          *)
TypeOK ==
  /\ stage \in {"text", "rejected", "subset", "refine", "minimal", "done"}
  /\ part \in Parts \cup {"parsed"}
  /\ sets \in Seq(SUBSET (0 .. ndfa.final_state))
  /\ Cardinality(Range(sets)) = Len(sets)
  /\ unmarked \in Seq(0 .. Len(sets) - 1)
  /\ jumps \subseteq [from : 0 .. Len(sets) - 1, gc : Gen_chars, act : Nat,
                      to : 0 .. Len(sets) - 1]
  /\ \A e, f \in jumps : e.from = f.from /\ e.gc = f.gc => e = f

(* Simple_regex_parser counts an error, whatever it has skipped or given   *)
(* back on its way, if and only if one of the two texts it was given is    *)
(* not an expression (simple_regex_parser.cpp:19-39).                      *)
ReportsMalformed ==
  task = "identifiers" /\ part = "parsed"
    => (failed <=> ~ \A p \in Parts : WellFormed(texts[p]))

Cut(W) == {w \in W : Len(w) <= MaxWord}

(* The commands put together for identifiers, from two buffers and the     *)
(* keywords, describe what the texts do: a beginning, then bodies, or a    *)
(* keyword if they are joined (regexp1_with_regexp2ast,                    *)
(* regexp1_or_regexp2, u32strings_to_commands).                            *)
IdentifiersSpelled ==
  stage = "subset" /\ Len(sets) = 1 /\ task \in {"identifiers", "idkeywords"}
    => Spellings(Words(cmds, MaxWord)) =
         Cut(Repeated(Described(texts["id_body"]),
                      Cut(Described(texts["id_begin"])), MaxWord)
             \cup {w \in Range(keywords) : task = "idkeywords"})

(* Keywords get an automaton of their own only if no identifier begins as  *)
(* one of them does (generate_idents_and_keywords_automata_impl).          *)
KeywordsApart ==
  stage = "subset" /\ task = "identifiers"
    => \A w \in Described(texts["id_begin"]) :
         \A kw \in Range(keywords) : w[1] # kw[1]

(* first_chars finds the characters the words of an expression begin with, *)
(* provided that no left operand of a concatenation may be empty.          *)
FirstCharactersFound ==
  LET Nullable(i) == <<>> \in Words(SubSeq(cmds, 1, i), MaxWord)
  IN stage = "subset" /\ Len(sets) = 1 /\ task = "expression"
     /\ (\A i \in DOMAIN cmds :
           cmds[i].kind = "concat" => ~Nullable(cmds[i].first))
       => Denotes(first_chars(buf)) =
            UNION {Covers(w[1].gc) : w \in Words(cmds, MaxWord) \ {<<>>}}

(* The deterministic automaton accepts what the expression spells, with    *)
(* its commands fused or not, and so does the minimized one.               *)
AcceptsExpression ==
  LET spelled == Spellings(Words(cmds, MaxWord))
  IN /\ stage = "refine" /\ old_partition = <<>>
         => Accepted(jumps, FinalStates(ndfa, sets)) = spelled
     /\ stage = "minimal"
         => Accepted(mdfa.jumps, mdfa.final_states) = spelled

(* The actions the words of the expression have after the path p: those of *)
(* their letter that p ends with.                                          *)
ActionsAfter(p, W) ==
  {w[Len(p)].act : w \in {v \in W : /\ Len(v) >= Len(p)
                                   /\ \A i \in DOMAIN p : v[i].gc = p[i].gc}}

(* The longest way on from a character to the end of a word.               *)
Slack == 3
KeepsActions(js) ==
  LET W == Words(cmds, 2 + Slack)
  IN \A p \in Paths(js, 2) :
       LET acts == ActionsAfter(p, W)
       IN Last(p).act \in acts /\ (Last(p).act = 0 => acts = {0})

(* The deterministic automaton makes after every beginning of a word an    *)
(* action the expression has there, and makes none only if it has none     *)
(* (action_for_dfa_jump).                                                  *)
ActionsOfExpression ==
  stage = "refine" /\ old_partition = <<>> /\ ~optimize => KeepsActions(jumps)

(* The comment of minimal_DFA_jumps: after gluing it is sufficient to      *)
(* consider the jumps of the representative.  Is it, of their actions?     *)
MinimalKeepsActions == stage = "minimal" /\ ~optimize => KeepsActions(mdfa.jumps)

(* The minimized automaton is minimal: some word tells any two states of   *)
(* it apart, and every state is reached from the first.                    *)
Minimal ==
  stage = "minimal"
    => LET n == mdfa.n
           apart == Apart(n, mdfa.jumps, mdfa.final_states)
           reach[k \in 0 .. n] ==
             IF k = 0 THEN {0}
             ELSE LET S == reach[k - 1]
                  IN S \cup {e.to : e \in {f \in mdfa.jumps : f.from \in S}}
       IN /\ \A s, t \in 0 .. n - 1 : s < t => <<s, t>> \in apart
          /\ reach[n] = 0 .. n - 1

(* No character is covered by two of the jumps of one state.               *)
Unambiguous ==
  \A e, f \in mdfa.jumps :
    e.from = f.from /\ e.gc # f.gc => Covers(e.gc) \cap Covers(f.gc) = {}

(* The string ch is one of those the word w stands for.                    *)
Instance(ch, w) ==
  Len(ch) = Len(w) /\ \A k \in DOMAIN w : ch[k] \in Covers(w[k].gc)

(* The automaton that is generated takes exactly the strings the           *)
(* expression stands for, unless a state of it has jumps by a character    *)
(* and by a class with that character (dfa.cpp:55).                        *)
ScannerAcceptsUpTo(m) ==
  stage = "done" /\ Unambiguous
    => \A n \in 0 .. m :
         Scanned(n) = {ch \in [1 .. n -> AnyChar] :
                         \E w \in Words(cmds, m) : Instance(ch, w)}
ScannerAccepts == ScannerAcceptsUpTo(2)

(* The characters of identifiers are written into the buffer: every jump   *)
(* has the action set on every command before they are fused.              *)
EveryCharacterWritten ==
  stage = "done" /\ task # "expression"
    => \A s \in DOMAIN gdfa : \A t \in Range(gdfa[s]) : t.act = WriteAction

(* The construction of an automaton ends.                                  *)
Finishes == stage = "subset" ~> stage = "done"
=============================================================================
