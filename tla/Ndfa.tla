-------------------------------- MODULE Ndfa --------------------------------
(***************************************************************************)
(* build_NDFA: the nondeterministic automaton of an expression.  An        *)
(* automaton is its first and last states, all states between them, and    *)
(* its edges; an edge stands for one element of the set of states a jump   *)
(* maps a generalized character to, with the action of that jump.  The     *)
(* last state has no jumps, so that gluing automata never merges two jumps *)
(* of one state (add_state_jumps).                                         *)
(***************************************************************************)
EXTENDS Commands

Edge(from, gc, act, to) == [from |-> from, gc |-> gc, act |-> act, to |-> to]
Epsilons(From, To) == {Edge(f, Epsilon, 0, t) : f \in From, t \in To}

Automaton(begin, final, edges) ==
  [begin_state |-> begin, final_state |-> final, edges |-> edges]

(* One character, or one class: two states.                                *)
char_def_builder(gc, act, n) ==
  Automaton(n, n + 1, {Edge(n, gc, act, n + 1)})

(* The characters of the set side by side, between two states more.        *)
multior_builder(com, n) ==
  LET cs   == InOrder(com.s)
      k    == Len(cs)
      last == n + 2 * k + 1
  IN Automaton(n, last,
       Epsilons({n}, n + 1 .. n + k)
       \cup {Edge(n + i, cs[i], com.action_name, n + k + i) : i \in 1 .. k}
       \cup Epsilons(n + k + 1 .. n + 2 * k, {last}))

or_builder(a1, a2, n) ==
  LET f == a2.final_state + 1
  IN Automaton(n, f,
       a1.edges \cup a2.edges
       \cup Epsilons({n}, {a1.begin_state, a2.begin_state})
       \cup Epsilons({a1.final_state, a2.final_state}, {f}))

(* The last state of a1 is the first one of a2.                            *)
concat_builder(a1, a2, n) ==
  Automaton(n, a2.final_state, a1.edges \cup a2.edges)

kleene_clos_builder(a1, n) ==
  LET f == a1.final_state + 1
  IN Automaton(n, f,
       a1.edges \cup Epsilons({n, a1.final_state}, {a1.begin_state, f}))

(* The operand, then a copy of it that is repeated.                        *)
positive_clos_builder(a1, n) ==
  LET k     == a1.final_state - n + 1
      moved == {[e EXCEPT !.from = @ + k, !.to = @ + k] : e \in a1.edges}
      f     == a1.final_state + k + 1
  IN Automaton(n, f,
       a1.edges \cup moved
       \cup Epsilons({a1.final_state, a1.final_state + k}, {n + k, f}))

(* The operand, or a way of epsilons round it.                             *)
optional_builder(a1, n) ==
  LET l == a1.final_state
      f == l + 3
  IN Automaton(n, f,
       a1.edges \cup Epsilons({n}, {n + 1, l + 1})
       \cup Epsilons({l + 1}, {l + 2}) \cup Epsilons({l, l + 2}, {f}))

(* The automata of the commands from first to last, gs, one behind         *)
(* another: the last state of one is the first of the next.                *)
multiconcat_builder(gs, first, last, n) ==
  LET chain[k \in first .. last] ==
        IF k = first THEN gs[k][n]
        ELSE LET a1 == chain[k - 1]
             IN concat_builder(a1, gs[k][a1.final_state], n)
  IN chain[last]

(* The automaton of com whose states are numbered from n, gen[k][m] being  *)
(* that of the command k whose states are numbered from m.                 *)
generate_NDFA_for_command(com, gen, n) ==
  LET at    == gen[com.first][n]
      after == gen[com.first][n + 1]
  IN CASE com.kind = "or" ->
            or_builder(after, gen[com.second][after.final_state + 1], n)
       [] com.kind = "concat" ->
            concat_builder(at, gen[com.second][at.final_state], n)
       [] com.kind = "multiconcat" ->
            multiconcat_builder([k \in com.first .. com.second |-> gen[k]],
                                com.first, com.second, n)
       [] com.kind = "Kleene"   -> kleene_clos_builder(after, n)
       [] com.kind = "positive" -> positive_clos_builder(at, n)
       [] com.kind = "optional" -> optional_builder(after, n)
       [] com.kind = "multior"  -> multior_builder(com, n)
       [] OTHER -> char_def_builder(CHOOSE gc \in Letters(com) : TRUE,
                                    com.action_name, n)

(* The automaton of the last command.                                      *)
build_NDFA(cmds) ==
  LET gen[i \in 1 .. Len(cmds)] ==
        [n \in Nat |-> generate_NDFA_for_command(cmds[i], gen, n)]
  IN gen[Len(cmds)][0]
=============================================================================
